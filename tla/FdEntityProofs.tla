--------------------------- MODULE FdEntityProofs ---------------------------
(***************************************************************************)
(* Proofs about FdEntity.tla, for files of any size, any set of byte       *)
(* values, any prefetch size and any set of faults.                        *)
(***************************************************************************)
EXTENDS FdEntity, TLAPS

USE MaxSizeAssumption, ByteAssumption, PrefetchAssumption

-----------------------------------------------------------------------------
(***************************************************************************)
(* The operators keep their types.                                         *)
(***************************************************************************)

\* The page map operators return page maps of the size they are asked for.
LEMMA MapTypes ==
    ASSUME NEW m \in PageMaps, NEW size \in Size, NEW flag \in BOOLEAN
    PROVE  /\ MapInit(size, flag) \in PageMaps /\ MapInit(size, flag).size = size
           /\ MapResize(m, size, flag) \in PageMaps /\ MapResize(m, size, flag).size = size
  BY DEF PageMaps, MapInit, MapResize, Span, Offset, Size

LEMMA MapSetType ==
    ASSUME NEW m \in PageMaps, NEW start \in Size, NEW len \in Size,
           start + len <= MaxSize, NEW flag \in BOOLEAN
    PROVE  /\ MapSet(m, start, len, flag) \in PageMaps
           /\ MapSet(m, start, len, flag).size
                = IF m.size < start + len THEN start + len ELSE m.size
  <1> DEFINE size == IF m.size < start + len THEN start + len ELSE m.size
             loaded == IF flag THEN m.loaded \cup Span(start, len)
                               ELSE m.loaded \ Span(start, len)
  <1>1. m.size \in Size /\ m.loaded \subseteq Span(0, m.size)
    BY DEF PageMaps
  <1>2. size \in Size
    BY <1>1 DEF Size
  <1>3. loaded \subseteq Span(0, size)
    BY <1>1 DEF Span, Offset, Size
  <1>4. loaded \in SUBSET Offset
    BY <1>3 DEF Span
  <1>5. MapSet(m, start, len, flag) = [size |-> size, loaded |-> loaded]
    BY DEF MapSet
  <1> HIDE DEF size, loaded
  <1>6. [size |-> size, loaded |-> loaded] \in PageMaps
    BY <1>2, <1>3, <1>4 DEF PageMaps
  <1> QED BY <1>5, <1>6 DEF size

\* ftruncate and pwrite keep the bytes after the end of the file Zero.
LEMMA BlobTypes ==
    ASSUME NEW b \in Blob, NEW size \in Size
    PROVE  /\ Empty \in Blob
           /\ Ftruncate(b, size) \in Blob /\ Ftruncate(b, size).size = size
  <1> DEFINE new == [i \in Offset |-> IF i < size THEN b.data[i] ELSE Zero]
             none == [i \in Offset |-> Zero]
  <1>1. none \in [Offset -> Byte] /\ 0 \in Size /\ \A i \in Offset : none[i] = Zero
    BY DEF Size
  <1>2. new \in [Offset -> Byte]
    BY DEF Blob
  <1>3. \A i \in Offset : size <= i => new[i] = Zero
    BY DEF Offset, Size
  <1>4. Empty = [data |-> none, size |-> 0] /\ Ftruncate(b, size) = [data |-> new, size |-> size]
    BY DEF Empty, Ftruncate
  <1> HIDE DEF new, none
  <1> QED BY <1>1, <1>2, <1>3, <1>4 DEF Blob

LEMMA PwriteType ==
    ASSUME NEW b \in Blob, NEW start \in Size, NEW len \in Size,
           start + len <= MaxSize, NEW value \in Byte
    PROVE  /\ Pwrite(b, start, len, value) \in Blob
           /\ Pwrite(b, start, len, value).size
                = IF b.size < start + len THEN start + len ELSE b.size
  <1> DEFINE new == [i \in Offset |-> IF i \in Span(start, len) THEN value ELSE b.data[i]]
             size == IF b.size < start + len THEN start + len ELSE b.size
  <1>1. b.size \in Size /\ b.data \in [Offset -> Byte]
        /\ \A i \in Offset : b.size <= i => b.data[i] = Zero
    BY DEF Blob
  <1>2. size \in Size
    BY <1>1 DEF Size
  <1>3. new \in [Offset -> Byte]
    BY <1>1
  <1>4. \A i \in Offset : size <= i => new[i] = Zero
    BY <1>1 DEF Span, Offset, Size
  <1>5. Pwrite(b, start, len, value) = [data |-> new, size |-> size]
    BY DEF Pwrite
  <1> HIDE DEF new, size
  <1>6. [data |-> new, size |-> size] \in Blob
    BY <1>2, <1>3, <1>4 DEF Blob
  <1> QED BY <1>5, <1>6 DEF size

\* The entities whose page list and cache file have the same size.
WellSized == {e \in Entity : e.map.size = e.file.size}

LEMMA NewEntityType ==
    ASSUME NEW size \in Size, NEW orgsize \in Size
    PROVE  NewEntity(size, orgsize) \in WellSized
  <1>1. Empty \in Blob /\ Ftruncate(Empty, size) \in Blob /\ Ftruncate(Empty, size).size = size
    BY BlobTypes DEF Blob, Empty, Offset, Size
  <1>2. 0 \in Size
    BY DEF Size
  <1>3. MapInit(0, FALSE) \in PageMaps
    BY <1>2, MapTypes DEF PageMaps, MapInit, Span, Offset, Size
  <1>4. /\ MapResize(MapInit(0, FALSE), size, FALSE) \in PageMaps
        /\ MapResize(MapInit(0, FALSE), size, FALSE).size = size
    BY <1>3, MapTypes
  <1> QED BY <1>1, <1>4 DEF NewEntity, WellSized, Entity

LEMMA ReopenType ==
    ASSUME NEW e \in WellSized, NEW size \in Size, NEW metasize \in Size
    PROVE  /\ Reopen(e, size, metasize) \in WellSized
           /\ Reopen(e, size, metasize).map.size = size
           /\ Reopen(e, size, metasize).is_modify = e.is_modify
  <1>1. e.file \in Blob /\ e.map \in PageMaps /\ e.size_orgmeta \in Size
    BY DEF WellSized, Entity
  <1>2. Ftruncate(e.file, size) \in Blob /\ Ftruncate(e.file, size).size = size
    BY <1>1, BlobTypes
  <1>3. /\ MapResize(e.map, size, FALSE) \in PageMaps
        /\ MapResize(e.map, size, FALSE).size = size
    BY <1>1, MapTypes
  <1> QED BY <1>1, <1>2, <1>3 DEF Reopen, WellSized, Entity

LEMMA ReservedType ==
    ASSUME NEW e \in WellSized, NEW r \in Reserved(e)
    PROVE  /\ r \in WellSized
           /\ r.map.size = e.map.size
           /\ r.is_modify = e.is_modify /\ r.size_orgmeta = e.size_orgmeta
  <1>1. e.file \in Blob /\ e.map \in PageMaps /\ e.map.size \in Size
    BY DEF WellSized, Entity, PageMaps
  <1>2. Ftruncate(Empty, e.map.size) \in Blob /\ Ftruncate(Empty, e.map.size).size = e.map.size
    BY <1>1, BlobTypes
  <1>3. /\ MapInit(e.map.size, FALSE) \in PageMaps
        /\ MapInit(e.map.size, FALSE).size = e.map.size
    BY <1>1, MapTypes
  <1>4. CASE r = e
    BY <1>4
  <1>5. CASE r = DropPages(e)
    BY <1>1, <1>2, <1>3, <1>5 DEF DropPages, WellSized, Entity
  <1> QED BY <1>4, <1>5 DEF Reserved

LEMMA LoadedUpToType ==
    ASSUME NEW e \in WellSized, NEW o \in Blob,
           NEW done \in SUBSET Span(0, e.map.size), NEW part \in SUBSET Span(0, e.map.size),
           NEW value \in [Offset -> Byte]
    PROVE  /\ LoadedUpTo(e, o, done, part, value) \in WellSized
           /\ LoadedUpTo(e, o, done, part, value).map.size = e.map.size
           /\ LoadedUpTo(e, o, done, part, value).size_orgmeta = e.size_orgmeta
  <1> DEFINE new == [i \in Offset |-> IF i \in done THEN Fetched(e, o, i)
                                      ELSE IF i \in part THEN value[i] ELSE e.file.data[i]]
  <1>1. /\ e.file \in Blob /\ e.map \in PageMaps /\ e.map.size \in Size
        /\ e.map.size = e.file.size /\ e.size_orgmeta \in Size /\ e.is_modify \in BOOLEAN
    BY DEF WellSized, Entity, PageMaps
  <1>2. new \in [Offset -> Byte]
    BY <1>1 DEF Fetched, Blob, Offset, Size
  <1>3. \A i \in Offset : e.file.size <= i => new[i] = Zero
    BY <1>1 DEF Blob, Span, Offset, Size
  <1>4. [data |-> new, size |-> e.file.size] \in Blob
    BY <1>1, <1>2, <1>3 DEF Blob
  <1>5. [size |-> e.map.size, loaded |-> e.map.loaded \cup done] \in PageMaps
    <2>1. e.map.loaded \cup done \subseteq Span(0, e.map.size)
      BY <1>1 DEF PageMaps
    <2>2. Span(0, e.map.size) \subseteq Offset
      BY DEF Span
    <2> QED BY <1>1, <2>1, <2>2 DEF PageMaps
  <1>6. LoadedUpTo(e, o, done, part, value)
          = [file |-> [data |-> new, size |-> e.file.size],
             map |-> [size |-> e.map.size, loaded |-> e.map.loaded \cup done],
             size_orgmeta |-> e.size_orgmeta,
             is_modify |-> e.is_modify /\ \A i \in done : i < e.size_orgmeta]
    BY DEF LoadedUpTo
  <1> HIDE DEF new
  <1> QED BY <1>1, <1>4, <1>5, <1>6 DEF WellSized, Entity

\* r is e after the areas of todo before f were loaded and some of f's spoiled.
StoppedAt(e, o, todo, f, r) ==
    \E part \in SUBSET AreaFrom(todo, f),
       body \in {o.data} \cup {[i \in Offset |-> b] : b \in Byte} :
          r = LoadedUpTo(e, o, {i \in todo : i < f}, part, body)

\* A failing Load stops at some missing byte f: the areas before f are loaded,
\* some bytes from f on are overwritten.
LEMMA LoadFailsShape ==
    ASSUME NEW e, NEW o, NEW start, NEW len, NEW r \in LoadFails(e, o, start, len)
    PROVE  \E f \in Todo(e, start, len) :
             /\ f \in FirstBytes(Todo(e, start, len))
             /\ AreaFails(e, o, AreaFrom(Todo(e, start, len), f), f)
             /\ StoppedAt(e, o, Todo(e, start, len), f, r)
  BY DEF LoadFails, FirstBytes, StoppedAt

LEMMA LoadType ==
    ASSUME NEW e \in WellSized, NEW o \in Blob, NEW start \in Nat, NEW len \in Nat,
           NEW r \in Load(e, o, start, len)
    PROVE  /\ r \in WellSized
           /\ r.map.size = e.map.size /\ r.size_orgmeta = e.size_orgmeta
  <1> DEFINE todo == Todo(e, start, len)
  <1>1. todo \subseteq Span(0, e.map.size)
    BY DEF Todo, Unloaded
  <1>2. e.file.data \in [Offset -> Byte]
    BY DEF WellSized, Entity, Blob
  <1>3. r = LoadedUpTo(e, o, todo, {}, e.file.data)
    BY DEF Load
  <1> HIDE DEF todo
  <1> QED BY <1>1, <1>2, <1>3, LoadedUpToType

LEMMA LoadFailsType ==
    ASSUME NEW e \in WellSized, NEW o \in Blob, NEW start \in Nat, NEW len \in Nat,
           NEW r \in LoadFails(e, o, start, len)
    PROVE  /\ r \in WellSized
           /\ r.map.size = e.map.size /\ r.size_orgmeta = e.size_orgmeta
  <1> DEFINE todo == Todo(e, start, len)
  <1>1. todo \subseteq Span(0, e.map.size)
    BY DEF Todo, Unloaded
  <1>2. PICK f \in todo : StoppedAt(e, o, todo, f, r)
    BY LoadFailsShape
  <1>3. PICK part \in SUBSET AreaFrom(todo, f),
             body \in {o.data} \cup {[i \in Offset |-> b] : b \in Byte} :
                r = LoadedUpTo(e, o, {i \in todo : i < f}, part, body)
    BY <1>2 DEF StoppedAt
  <1>4. body \in [Offset -> Byte]
    <2>1. o.data \in [Offset -> Byte]
      BY DEF Blob
    <2> QED BY <2>1
  <1>5. {i \in todo : i < f} \subseteq Span(0, e.map.size) /\ part \subseteq Span(0, e.map.size)
    BY <1>1 DEF AreaFrom
  <1> HIDE DEF todo
  <1> QED BY <1>3, <1>4, <1>5, LoadedUpToType

LEMMA GrowToType ==
    ASSUME NEW e \in WellSized, NEW start \in Size
    PROVE  /\ GrowTo(e, start) \in WellSized
           /\ GrowTo(e, start).map.size = IF e.map.size < start THEN start ELSE e.map.size
           /\ GrowTo(e, start).size_orgmeta = e.size_orgmeta
           /\ GrowTo(e, start).is_modify = e.is_modify
  <1>1. /\ e.file \in Blob /\ e.map \in PageMaps /\ e.map.size \in Size
        /\ e.size_orgmeta \in Size /\ e.is_modify \in BOOLEAN
    BY DEF WellSized, Entity, PageMaps
  <1>2. CASE e.map.size < start
    <2>1. Ftruncate(e.file, start) \in Blob /\ Ftruncate(e.file, start).size = start
      BY <1>1, BlobTypes
    <2>2. /\ start - e.map.size \in Size
          /\ e.map.size + (start - e.map.size) = start
      BY <1>1, <1>2 DEF Size
    <2>3. /\ MapSet(e.map, e.map.size, start - e.map.size, FALSE) \in PageMaps
          /\ MapSet(e.map, e.map.size, start - e.map.size, FALSE).size = start
      <3>1. start <= MaxSize
        BY DEF Size
      <3> DEFINE len == start - e.map.size
      <3>2. PICK no \in BOOLEAN : no = FALSE
        OBVIOUS
      <3>3. len \in Size /\ e.map.size + len <= MaxSize
        BY <2>2, <3>1
      <3> HIDE DEF len
      <3>4. /\ MapSet(e.map, e.map.size, len, no) \in PageMaps
            /\ MapSet(e.map, e.map.size, len, no).size
                 = IF e.map.size < e.map.size + len THEN e.map.size + len ELSE e.map.size
        BY <1>1, <3>3, MapSetType
      <3> QED BY <1>2, <2>2, <3>2, <3>4 DEF len
    <2> QED BY <1>1, <1>2, <2>1, <2>3 DEF GrowTo, WellSized, Entity
  <1>3. CASE ~ (e.map.size < start)
    BY <1>3 DEF GrowTo
  <1> QED BY <1>2, <1>3

\* g is e made longer where a write ends after it, and dirty.
Grows(g, e, end) ==
    /\ g.map.size = IF e.map.size < end THEN end ELSE e.map.size
    /\ g.size_orgmeta = e.size_orgmeta /\ g.is_modify = TRUE

LEMMA WrittenType ==
    ASSUME NEW e \in WellSized, NEW start \in Size, NEW len \in Size,
           start + len <= MaxSize, start <= e.map.size, NEW value \in Byte
    PROVE  /\ Written(e, start, len, value) \in WellSized
           /\ Grows(Written(e, start, len, value), e, start + len)
  <1>1. /\ e.file \in Blob /\ e.map \in PageMaps /\ e.map.size \in Size
        /\ e.size_orgmeta \in Size /\ e.map.size = e.file.size
    BY DEF WellSized, Entity, PageMaps
  <1>2. /\ Pwrite(e.file, start, len, value) \in Blob
        /\ Pwrite(e.file, start, len, value).size
              = IF e.file.size < start + len THEN start + len ELSE e.file.size
    BY <1>1, PwriteType
  <1>3. /\ MapSet(e.map, start, len, TRUE) \in PageMaps
        /\ MapSet(e.map, start, len, TRUE).size
              = IF e.map.size < start + len THEN start + len ELSE e.map.size
    BY <1>1, MapSetType
  <1>4. len = 0 => ~ (e.map.size < start + len)
    BY <1>1 DEF Size
  <1> DEFINE map == IF 0 < len THEN MapSet(e.map, start, len, TRUE) ELSE e.map
             file == Pwrite(e.file, start, len, value)
  <1>5. Written(e, start, len, value)
          = [file |-> file, map |-> map, size_orgmeta |-> e.size_orgmeta, is_modify |-> TRUE]
    BY DEF Written
  <1>6. /\ map \in PageMaps
        /\ map.size = IF e.map.size < start + len THEN start + len ELSE e.map.size
    <2>1. CASE 0 < len
      BY <1>3, <2>1
    <2>2. CASE len = 0
      BY <1>1, <1>4, <2>2
    <2>3. 0 < len \/ len = 0
      BY DEF Size
    <2> QED BY <2>1, <2>2, <2>3
  <1> HIDE DEF map, file
  <1>7. file \in Blob /\ file.size = map.size
    BY <1>1, <1>2, <1>6 DEF file
  <1>8. Written(e, start, len, value) \in WellSized
    BY <1>1, <1>5, <1>6, <1>7 DEF WellSized, Entity
  <1>9. Grows(Written(e, start, len, value), e, start + len)
    BY <1>5, <1>6 DEF Grows
  <1> QED BY <1>8, <1>9

LEMMA UploadTypes ==
    ASSUME NEW e \in WellSized, NEW o \in Blob
    PROVE  /\ e.file \in Blob
           /\ Uploaded(e) \in WellSized
           /\ \A r \in UploadFails(e, o) :
                 r.ent \in WellSized /\ r.obj \in Blob
  <1>1. /\ e.file \in Blob /\ e.map \in PageMaps /\ e.file.size \in Size
        /\ e.size_orgmeta \in Size /\ e.is_modify \in BOOLEAN /\ e.map.size = e.file.size
    BY DEF WellSized, Entity, Blob
  <1>2. Uploaded(e) \in WellSized /\ UploadFailed(e) \in WellSized
    BY <1>1 DEF Uploaded, UploadFailed, WellSized, Entity
  <1>3. ASSUME NEW r \in UploadFails(e, o) PROVE r.ent \in WellSized /\ r.obj \in Blob
    <2>1. \/ r = [ent |-> e, obj |-> o]
          \/ r = [ent |-> UploadFailed(e), obj |-> o]
          \/ r = [ent |-> UploadFailed(e), obj |-> e.file]
      BY <1>3 DEF UploadFails
    <2> QED BY <1>1, <1>2, <2>1
  <1> QED BY <1>1, <1>2, <1>3
-----------------------------------------------------------------------------
(***************************************************************************)
(* The invariant.  Good: the entity e, over the object o, stands for the   *)
(* content w.  A byte that is not loaded is what Load would put there.     *)
(***************************************************************************)
Missing(e) == Span(0, e.map.size) \ e.map.loaded

Good(e, o, w) ==
    /\ e.map.size = w.size
    /\ \A i \in e.map.loaded : e.file.data[i] = w.data[i]
    /\ \A i \in Missing(e) :
          IF i < e.size_orgmeta THEN i < o.size /\ o.data[i] = w.data[i]
                                ELSE w.data[i] = Zero

\* No missing byte is beyond what is known of the object: Load need not fill,
\* and does not clear the dirty flag.
NoOver(e) == \A i \in Missing(e) : i < e.size_orgmeta

(***************************************************************************)
(* The inductive invariant of an open entity nothing has broken.  Besides  *)
(* the properties: a clean file's size_orgmeta is the size of the object   *)
(* (so that DropPages loses nothing), no file is smaller than its          *)
(* size_orgmeta (so that growing it adds zeros), and the size s3fs_truncate *)
(* takes from the stat cache is right as long as something is missing.     *)
(***************************************************************************)
OpenInv(e, o, w, metasize) ==
    /\ Good(e, o, w)
    /\ NoOver(e)
    /\ e.is_modify => Missing(e) = {}
    /\ ~ e.is_modify => o = w /\ e.size_orgmeta = o.size
    /\ e.size_orgmeta <= e.map.size
    /\ Missing(e) = {} \/ metasize = o.size

\* Loading some of the missing bytes and spoiling others keeps Good.
LEMMA GoodLoadedUpTo ==
    ASSUME NEW e \in WellSized, NEW o \in Blob, NEW w \in Blob, Good(e, o, w),
           NEW done \in SUBSET Missing(e), NEW part \in SUBSET Missing(e),
           NEW value \in [Offset -> Byte], done \cap part = {}
    PROVE  LET r == LoadedUpTo(e, o, done, part, value)
           IN  /\ Good(r, o, w)
               /\ Missing(r) = Missing(e) \ done
               /\ NoOver(e) => r.is_modify = e.is_modify /\ NoOver(r)
  <1> DEFINE r == LoadedUpTo(e, o, done, part, value)
  <1>1. /\ r.map.size = e.map.size /\ r.map.loaded = e.map.loaded \cup done
        /\ r.size_orgmeta = e.size_orgmeta
        /\ r.is_modify = (e.is_modify /\ \A i \in done : i < e.size_orgmeta)
        /\ r.file.data = [i \in Offset |-> IF i \in done THEN Fetched(e, o, i)
                                          ELSE IF i \in part THEN value[i]
                                          ELSE e.file.data[i]]
    BY DEF LoadedUpTo
  <1>2. e.map.loaded \subseteq Offset /\ done \subseteq Offset /\ e.is_modify \in BOOLEAN
    BY DEF Missing, Span, WellSized, Entity, PageMaps
  <1> HIDE DEF r
  <1>3. Missing(r) = Missing(e) \ done
    BY <1>1 DEF Missing
  <1>4. \A i \in done : Fetched(e, o, i) = w.data[i]
    BY DEF Good, Fetched
  <1>5. \A i \in r.map.loaded : r.file.data[i] = w.data[i]
    <2> SUFFICES ASSUME NEW i \in e.map.loaded \cup done PROVE r.file.data[i] = w.data[i]
      BY <1>1
    <2>1. CASE i \in done
      BY <1>1, <1>2, <1>4, <2>1
    <2>2. CASE i \notin done
      <3>1. i \in e.map.loaded /\ i \notin part
        BY <2>2 DEF Missing
      <3> QED BY <1>1, <1>2, <2>2, <3>1 DEF Good
    <2> QED BY <2>1, <2>2
  <1>6. Good(r, o, w)
    BY <1>1, <1>3, <1>5 DEF Good
  <1>7. NoOver(e) => r.is_modify = e.is_modify /\ NoOver(r)
    BY <1>1, <1>2, <1>3 DEF NoOver
  <1> QED BY <1>3, <1>6, <1>7 DEF r

\* FdEntity::Load, whether it succeeds or fails, keeps Good.
LEMMA GoodLoad ==
    ASSUME NEW e \in WellSized, NEW o \in Blob, NEW w \in Blob, Good(e, o, w),
           NEW start \in Nat, NEW len \in Nat,
           NEW r \in Load(e, o, start, len)
    PROVE  /\ Good(r, o, w)
           /\ Missing(r) = Missing(e) \ Todo(e, start, len)
           /\ NoOver(e) => r.is_modify = e.is_modify /\ NoOver(r)
  <1> DEFINE todo == Todo(e, start, len)
  <1>1. todo \subseteq Missing(e)
    BY DEF Todo, Unloaded, Missing
  <1>2. r = LoadedUpTo(e, o, todo, {}, e.file.data)
    BY DEF Load
  <1>3. e.file.data \in [Offset -> Byte]
    BY DEF WellSized, Entity, Blob
  <1>4. {} \in SUBSET Missing(e) /\ todo \cap {} = {}
    OBVIOUS
  <1> HIDE DEF todo
  <1>5. /\ Good(LoadedUpTo(e, o, todo, {}, e.file.data), o, w)
        /\ Missing(LoadedUpTo(e, o, todo, {}, e.file.data)) = Missing(e) \ todo
        /\ NoOver(e) => /\ LoadedUpTo(e, o, todo, {}, e.file.data).is_modify = e.is_modify
                        /\ NoOver(LoadedUpTo(e, o, todo, {}, e.file.data))
    BY <1>1, <1>3, <1>4, GoodLoadedUpTo
  <1> QED BY <1>2, <1>5 DEF todo

LEMMA GoodLoadFails ==
    ASSUME NEW e \in WellSized, NEW o \in Blob, NEW w \in Blob, Good(e, o, w),
           NEW start \in Nat, NEW len \in Nat,
           NEW r \in LoadFails(e, o, start, len)
    PROVE  /\ Good(r, o, w)
           /\ Missing(r) \subseteq Missing(e)
           /\ NoOver(e) => r.is_modify = e.is_modify /\ NoOver(r)
           /\ Missing(e) # {}
  <1> DEFINE todo == Todo(e, start, len)
  <1>1. todo \subseteq Missing(e) /\ todo \subseteq Int
    BY DEF Todo, Unloaded, Missing, Span, Offset
  <1>2. PICK f \in todo : StoppedAt(e, o, todo, f, r)
    BY LoadFailsShape
  <1>3. PICK part \in SUBSET AreaFrom(todo, f),
             body \in {o.data} \cup {[i \in Offset |-> b] : b \in Byte} :
                r = LoadedUpTo(e, o, {i \in todo : i < f}, part, body)
    BY <1>2 DEF StoppedAt
  <1>4. body \in [Offset -> Byte]
    <2>1. o.data \in [Offset -> Byte]
      BY DEF Blob
    <2> QED BY <2>1
  <1> HIDE DEF todo
  <1> DEFINE done == {i \in todo : i < f}
  <1>5. part \subseteq Missing(e) /\ done \subseteq Missing(e) /\ done \cap part = {}
    <2>1. \A i \in part : i \in todo /\ f <= i
      BY DEF AreaFrom
    <2>2. \A i \in done : i \in todo /\ i < f
      OBVIOUS
    <2>3. \A i \in done : i \notin part
      BY <1>1, <2>1, <2>2
    <2> QED BY <1>1, <2>1, <2>2, <2>3
  <1>6. r = LoadedUpTo(e, o, done, part, body)
    BY <1>3
  <1> HIDE DEF done
  <1>7. /\ Good(LoadedUpTo(e, o, done, part, body), o, w)
        /\ Missing(LoadedUpTo(e, o, done, part, body)) = Missing(e) \ done
        /\ NoOver(e) => /\ LoadedUpTo(e, o, done, part, body).is_modify = e.is_modify
                        /\ NoOver(LoadedUpTo(e, o, done, part, body))
    BY <1>4, <1>5, GoodLoadedUpTo
  <1> QED BY <1>1, <1>6, <1>7

\* When only space runs out, no Load of a good entity fails.
LEMMA NoLoadFails ==
    ASSUME NEW e \in WellSized, NEW o \in Blob, NEW w \in Blob, Good(e, o, w),
           NEW start \in Nat, NEW len \in Nat, Faults = {"space"}
    PROVE  LoadFails(e, o, start, len) = {}
  <1> SUFFICES ASSUME NEW r \in LoadFails(e, o, start, len) PROVE FALSE
    OBVIOUS
  <1>1. PICK f \in Todo(e, start, len) : AreaFails(e, o, AreaFrom(Todo(e, start, len), f), f)
    BY LoadFailsShape
  <1>2. PastObject(e, o, f)
    BY <1>1 DEF AreaFails
  <1>3. f \in Missing(e) /\ f \in Int /\ o.size \in Int
    BY DEF Todo, Unloaded, Missing, Span, Offset, Blob, Size
  <1> QED BY <1>2, <1>3 DEF PastObject, Good

\* A good entity with nothing missing holds exactly the content.
LEMMA GoodComplete ==
    ASSUME NEW e \in WellSized, NEW o, NEW w \in Blob, Good(e, o, w), Missing(e) = {}
    PROVE  e.file = w
  <1>1. /\ e.file \in Blob /\ e.file.size = w.size /\ e.map.size = w.size
    BY DEF WellSized, Entity, Good
  <1>2. \A i \in Offset : e.file.data[i] = w.data[i]
    <2> SUFFICES ASSUME NEW i \in Offset PROVE e.file.data[i] = w.data[i]
      OBVIOUS
    <2>0. i \in Int /\ w.size \in Int /\ 0 <= i
      BY DEF Offset, Blob, Size
    <2>1. CASE i < w.size
      <3>1. i \in Span(0, e.map.size)
        BY <1>1, <2>0, <2>1 DEF Span
      <3>2. i \in e.map.loaded
        BY <3>1 DEF Missing
      <3> QED BY <3>2 DEF Good
    <2>2. CASE w.size <= i
      BY <1>1, <2>2 DEF Blob
    <2> QED BY <2>0, <2>1, <2>2
  <1>3. e.file.data \in [Offset -> Byte] /\ w.data \in [Offset -> Byte]
    BY <1>1 DEF Blob
  <1>4. e.file.data = w.data
    BY <1>2, <1>3
  <1>5. e.file = [data |-> e.file.data, size |-> e.file.size] /\ w = [data |-> w.data, size |-> w.size]
    BY <1>1 DEF Blob
  <1> QED BY <1>1, <1>4, <1>5

\* Dropping the pages of a clean file keeps Good, when the object has all the
\* content up to size_orgmeta and the rest of it is zeros.
LEMMA GoodReserved ==
    ASSUME NEW e \in WellSized, NEW o \in Blob, NEW w \in Blob, Good(e, o, w),
           NEW r \in Reserved(e),
           ~ e.is_modify => \A i \in Span(0, e.map.size) :
                IF i < e.size_orgmeta THEN i < o.size /\ o.data[i] = w.data[i]
                                      ELSE w.data[i] = Zero
    PROVE  Good(r, o, w)
  <1>1. CASE r = e
    BY <1>1
  <1>2. CASE r = DropPages(e) /\ ~ e.is_modify
    <2>1. r.map = [size |-> e.map.size, loaded |-> {}] /\ r.size_orgmeta = e.size_orgmeta
      BY <1>2 DEF DropPages, MapInit, WellSized, Entity
    <2>2. Missing(r) = Span(0, e.map.size)
      BY <2>1 DEF Missing
    <2> QED BY <1>2, <2>1, <2>2 DEF Good
  <1> QED BY <1>1, <1>2 DEF Reserved

\* Write's ftruncate to start adds missing bytes that are zeros.
LEMMA GoodGrowTo ==
    ASSUME NEW e \in WellSized, NEW o \in Blob, NEW w \in Blob, Good(e, o, w),
           NEW start \in Size, e.size_orgmeta <= e.map.size
    PROVE  /\ Good(GrowTo(e, start), o, IF w.size < start THEN Ftruncate(w, start) ELSE w)
           /\ start <= e.map.size => GrowTo(e, start) = e
  <1> DEFINE g == GrowTo(e, start)
             v == Ftruncate(w, start)
  <1>0. e.map.size \in Nat /\ start \in Nat /\ e.size_orgmeta \in Nat /\ w.size = e.map.size
    BY DEF WellSized, Entity, PageMaps, Size, Good
  <1>1. CASE w.size < start
    <2>1. g.map = MapSet(e.map, e.map.size, start - e.map.size, FALSE)
          /\ g.file = Ftruncate(e.file, start) /\ g.size_orgmeta = e.size_orgmeta
      BY <1>0, <1>1 DEF GrowTo, WellSized, Entity
    <2>2. g.map.size = start
      BY <1>0, <1>1, <2>1 DEF MapSet
    <2>3. e.map.loaded \subseteq Span(0, e.map.size)
      BY DEF WellSized, Entity, PageMaps
    <2>4. g.map.loaded = e.map.loaded
      <3>1. g.map.loaded = e.map.loaded \ Span(e.map.size, start - e.map.size)
        BY <2>1 DEF MapSet
      <3>2. \A i \in e.map.loaded : i \notin Span(e.map.size, start - e.map.size)
        BY <1>0, <2>3 DEF Span, Offset
      <3> QED BY <3>1, <3>2
    <2>5. \A i \in Offset : v.data[i] = w.data[i]
      BY <1>0, <1>1 DEF Ftruncate, Blob, Offset
    <2>6. \A i \in g.map.loaded : g.file.data[i] = v.data[i]
      <3> SUFFICES ASSUME NEW i \in e.map.loaded PROVE g.file.data[i] = v.data[i]
        BY <2>4
      <3>1. i \in Offset /\ i < start
        BY <1>0, <1>1, <2>3 DEF Span, Offset
      <3>2. g.file.data[i] = e.file.data[i]
        BY <2>1, <3>1 DEF Ftruncate
      <3> QED BY <2>5, <3>1, <3>2 DEF Good
    <2>7. ASSUME NEW i \in Missing(g)
          PROVE  IF i < g.size_orgmeta THEN i < o.size /\ o.data[i] = v.data[i]
                                       ELSE v.data[i] = Zero
      <3>1. i \in Offset /\ i \in Nat /\ i \notin e.map.loaded
        BY <2>4 DEF Missing, Span, Offset
      <3>2. CASE i < e.map.size
        <4>1. i \in Missing(e)
          BY <1>0, <3>1, <3>2 DEF Missing, Span
        <4> QED BY <4>1, <2>1, <2>5, <3>1 DEF Good
      <3>3. CASE e.map.size <= i
        <4>1. w.data[i] = Zero /\ ~ (i < e.size_orgmeta)
          BY <1>0, <3>1, <3>3 DEF Blob
        <4> QED BY <4>1, <2>1, <2>5, <3>1
      <3> QED BY <1>0, <3>1, <3>2, <3>3
    <2>8. v.size = start
      BY DEF Ftruncate
    <2> HIDE DEF g, v
    <2>9. Good(g, o, v)
      BY <2>2, <2>6, <2>7, <2>8 DEF Good
    <2> QED BY <1>0, <1>1, <2>9 DEF g, v
  <1>2. CASE ~ (w.size < start)
    BY <1>0, <1>2 DEF GrowTo
  <1> QED BY <1>1, <1>2

\* pwrite makes the written bytes loaded.
LEMMA GoodWritten ==
    ASSUME NEW e \in WellSized, NEW o \in Blob, NEW w \in Blob, Good(e, o, w),
           NEW start \in Size, NEW len \in Size, start + len <= MaxSize,
           start <= e.map.size, NEW value \in Byte
    PROVE  /\ Good(Written(e, start, len, value), o, Pwrite(w, start, len, value))
           /\ Missing(Written(e, start, len, value)) = Missing(e) \ Span(start, len)
  <1> DEFINE g == Written(e, start, len, value)
             v == Pwrite(w, start, len, value)
  <1>0. /\ e.map.size \in Nat /\ start \in Nat /\ len \in Nat /\ w.size = e.map.size
        /\ e.map.loaded \subseteq Span(0, e.map.size) /\ e.file.data \in [Offset -> Byte]
    BY DEF WellSized, Entity, PageMaps, Size, Good, Blob
  <1>1. /\ g.file.data = [i \in Offset |-> IF i \in Span(start, len) THEN value ELSE e.file.data[i]]
        /\ v.data = [i \in Offset |-> IF i \in Span(start, len) THEN value ELSE w.data[i]]
        /\ g.size_orgmeta = e.size_orgmeta
    BY DEF Written, Pwrite
  <1>2. len = 0 => Span(start, len) = {}
    BY <1>0 DEF Span, Offset
  <1>3. g.map.loaded = e.map.loaded \cup Span(start, len)
    <2>1. CASE 0 < len
      BY <2>1 DEF Written, MapSet
    <2>2. CASE len = 0
      BY <2>2, <1>2 DEF Written
    <2>3. 0 < len \/ len = 0
      BY <1>0
    <2> QED BY <2>1, <2>2, <2>3
  <1>4. g.map.size = IF e.map.size < start + len THEN start + len ELSE e.map.size
    BY WrittenType DEF Grows
  <1>5. v.size = g.map.size
    BY <1>0, <1>4 DEF Pwrite
  <1> HIDE DEF g, v
  <1>6. Missing(g) = Missing(e) \ Span(start, len)
    <2>1. ASSUME NEW i \in Missing(g) PROVE i \in Missing(e) /\ i \notin Span(start, len)
      <3>1. i \in Offset /\ 0 <= i /\ i < g.map.size /\ i \notin Span(start, len) /\ i \notin e.map.loaded
        BY <1>0, <1>3, <1>4 DEF Missing, Span, Offset
      <3>2. i < e.map.size
        BY <1>0, <1>4, <3>1 DEF Span, Offset
      <3> QED BY <1>0, <3>1, <3>2 DEF Missing, Span
    <2>2. ASSUME NEW i \in Missing(e), i \notin Span(start, len) PROVE i \in Missing(g)
      BY <1>0, <1>3, <1>4, <2>2 DEF Missing, Span, Offset
    <2> QED BY <2>1, <2>2
  <1>7. \A i \in g.map.loaded : g.file.data[i] = v.data[i]
    BY <1>0, <1>1, <1>3 DEF Good, Span
  <1>8. \A i \in Missing(g) : i \in Offset /\ v.data[i] = w.data[i]
    BY <1>0, <1>1, <1>6 DEF Missing, Span
  <1>9. Good(g, o, v)
    BY <1>1, <1>5, <1>6, <1>7, <1>8 DEF Good
  <1> QED BY <1>6, <1>9 DEF g, v

\* Writing after a gap is writing after the gap was made zeros.
LEMMA PwriteGap ==
    ASSUME NEW w \in Blob, NEW start \in Size, NEW len \in Size, w.size < start
    PROVE  \A value : Pwrite(Ftruncate(w, start), start, len, value) = Pwrite(w, start, len, value)
  <1> SUFFICES ASSUME NEW value
               PROVE  Pwrite(Ftruncate(w, start), start, len, value) = Pwrite(w, start, len, value)
    OBVIOUS
  <1>1. \A i \in Offset : Ftruncate(w, start).data[i] = w.data[i]
    BY DEF Ftruncate, Blob, Offset, Size
  <1>2. Ftruncate(w, start).size = start
    BY DEF Ftruncate
  <1>3. w.size \in Nat /\ start \in Nat /\ len \in Nat
    BY DEF Blob, Size
  <1>4. (IF start < start + len THEN start + len ELSE start)
          = (IF w.size < start + len THEN start + len ELSE w.size)
    BY <1>3
  <1> QED BY <1>1, <1>2, <1>4 DEF Pwrite

-----------------------------------------------------------------------------
(***************************************************************************)
(* FdEntity::Write as a whole.                                             *)
(***************************************************************************)
LEMMA WriteTypes ==
    ASSUME NEW e \in WellSized, obj \in Blob, NEW start \in Size, NEW len \in Size,
           NEW written \in Size, written <= len, start + len <= MaxSize, NEW value \in Byte,
           NEW r \in Reserved(GrowTo(e, start)),
           NEW f \in LoadBefore(r, start)
    PROVE  /\ r \in WellSized
           /\ f \in WellSized
           /\ Written(f, start, written, value) \in WellSized
           /\ r.map.size = IF e.map.size < start THEN start ELSE e.map.size
           /\ f.map.size = r.map.size
           /\ f.size_orgmeta = e.size_orgmeta /\ r.size_orgmeta = e.size_orgmeta
           /\ r.is_modify = e.is_modify
           /\ \A x \in LoadAfter(Written(f, start, written, value), start + len) :
                 x \in WellSized
  <1>1. /\ r \in WellSized /\ r.map.size = IF e.map.size < start THEN start ELSE e.map.size
        /\ r.size_orgmeta = e.size_orgmeta /\ r.is_modify = e.is_modify
    BY GrowToType, ReservedType
  <1>2. start \in Nat /\ len \in Nat /\ written \in Nat /\ 0 \in Nat /\ e.map.size \in Nat
    BY DEF Size, WellSized, Entity, PageMaps
  <1>3. f \in WellSized /\ f.map.size = r.map.size /\ f.size_orgmeta = r.size_orgmeta
    BY <1>1, <1>2, LoadType DEF LoadBefore
  <1>4. start <= f.map.size /\ start + written <= MaxSize
    BY <1>1, <1>2, <1>3
  <1>5. Written(f, start, written, value) \in WellSized
    BY <1>3, <1>4, WrittenType
  <1> DEFINE g == Written(f, start, written, value)
  <1>6. g.map.size \in Nat
    BY <1>5 DEF Size, WellSized, Entity, PageMaps
  <1> HIDE DEF g
  <1>7. g \in WellSized
    BY <1>5 DEF g
  <1>8. start + len \in Nat
    BY <1>2
  <1>9. \A x \in LoadAfter(g, start + len) : x \in WellSized
    BY <1>6, <1>7, <1>8, LoadType DEF LoadAfter
  <1> QED BY <1>1, <1>3, <1>5, <1>9 DEF g

\* Until pwrite: the entity stands for the content extended to start, and if
\* there was no gap nothing is beyond size_orgmeta.
LEMMA ReserveGood ==
    ASSUME NEW e \in WellSized, NEW o \in Blob, NEW w \in Blob, NEW metasize,
           OpenInv(e, o, w, metasize),
           NEW start \in Size, NEW r \in Reserved(GrowTo(e, start))
    PROVE  /\ Good(r, o, IF w.size < start THEN Ftruncate(w, start) ELSE w)
           /\ start <= e.map.size => NoOver(r)
  <1> DEFINE g == GrowTo(e, start)
             v == IF w.size < start THEN Ftruncate(w, start) ELSE w
  <1>0. /\ start \in Nat /\ e.map.size \in Nat /\ e.size_orgmeta \in Nat
        /\ w.size = e.map.size
    BY DEF Size, WellSized, Entity, PageMaps, OpenInv, Good
  <1>1. Good(g, o, v) /\ (start <= e.map.size => g = e)
    BY GoodGrowTo DEF OpenInv
  <1>2. g \in WellSized /\ g.size_orgmeta = e.size_orgmeta /\ g.is_modify = e.is_modify
    BY GrowToType
  <1>3. v \in Blob
    BY BlobTypes
  <1>4. \A i \in Offset : v.data[i] = w.data[i]
    BY <1>0 DEF Ftruncate, Blob, Offset
  <1> HIDE DEF g, v
  <1>5. ~ g.is_modify => \A i \in Span(0, g.map.size) :
             IF i < g.size_orgmeta THEN i < o.size /\ o.data[i] = v.data[i]
                                   ELSE v.data[i] = Zero
    <2> SUFFICES ASSUME ~ g.is_modify, NEW i \in Span(0, g.map.size)
                 PROVE  IF i < g.size_orgmeta THEN i < o.size /\ o.data[i] = v.data[i]
                                              ELSE v.data[i] = Zero
      OBVIOUS
    <2>1. o = w /\ e.size_orgmeta = o.size
      BY <1>2 DEF OpenInv
    <2>2. i \in Offset /\ i \in Int
      BY DEF Span, Offset
    <2>3. ~ (i < o.size) => w.data[i] = Zero
      BY <1>0, <2>1, <2>2 DEF Blob
    <2> QED BY <1>2, <1>4, <2>1, <2>2, <2>3
  <1>6. Good(r, o, v)
    BY <1>1, <1>2, <1>3, <1>5, GoodReserved DEF g
  <1>7. ASSUME start <= e.map.size PROVE NoOver(r)
    <2>1. r \in Reserved(e)
      BY <1>1, <1>7 DEF g
    <2>2. CASE r = e
      BY <2>2 DEF OpenInv
    <2>3. CASE r = DropPages(e) /\ ~ e.is_modify
      <3>1. r.map.size = e.map.size /\ r.size_orgmeta = e.size_orgmeta
        BY <2>1, ReservedType
      <3>2. e.size_orgmeta = e.map.size
        BY <2>3, <1>0 DEF OpenInv
      <3> QED BY <3>1, <3>2, <1>0 DEF NoOver, Missing, Span
    <2> QED BY <2>1, <2>2, <2>3 DEF Reserved
  <1> QED BY <1>6, <1>7 DEF v

\* A write that succeeds leaves the new content, dirty, with nothing missing:
\* whatever was dropped for lack of space has been loaded again.
LEMMA WriteGood ==
    ASSUME NEW e \in WellSized, obj \in Blob, NEW w \in Blob, NEW metasize,
           OpenInv(e, obj, w, metasize),
           NEW start \in Size, NEW len \in Size, start + len <= MaxSize, NEW value \in Byte,
           NEW r \in Reserved(GrowTo(e, start)),
           NEW f \in LoadBefore(r, start),
           NEW x \in LoadAfter(Written(f, start, len, value), start + len)
    PROVE  \A ms : OpenInv(x, obj, Pwrite(w, start, len, value), ms)
  <1> DEFINE v == IF w.size < start THEN Ftruncate(w, start) ELSE w
             g == Written(f, start, len, value)
             u == Pwrite(w, start, len, value)
  <1>0. /\ start \in Nat /\ len \in Nat /\ 0 \in Nat /\ start + len \in Nat
        /\ e.map.size \in Nat /\ w.size = e.map.size /\ e.size_orgmeta \in Nat
        /\ start <= MaxSize /\ MaxSize \in Nat
    BY DEF Size, WellSized, Entity, PageMaps, OpenInv, Good
  <1>1. /\ r \in WellSized /\ f \in WellSized /\ g \in WellSized /\ x \in WellSized
        /\ r.map.size = IF e.map.size < start THEN start ELSE e.map.size
        /\ f.map.size = r.map.size
        /\ f.size_orgmeta = e.size_orgmeta /\ r.size_orgmeta = e.size_orgmeta
    BY <1>0, WriteTypes
  <1>2. Good(r, obj, v) /\ (start <= e.map.size => NoOver(r))
    BY ReserveGood
  <1>3. v \in Blob
    BY BlobTypes
  <1> HIDE DEF v
  <1>4. /\ Good(f, obj, v)
        /\ Missing(f) \subseteq Missing(r)
        /\ \A i \in Missing(f) : start <= i
    <2>1. CASE 0 < start
      <3>1. f \in Load(r, obj, 0, start)
        BY <2>1 DEF LoadBefore
      <3>2. Good(f, obj, v) /\ Missing(f) = Missing(r) \ Todo(r, 0, start)
        BY <1>0, <1>1, <1>2, <1>3, <3>1, GoodLoad
      <3>3. \A i \in Missing(r) : i < start => i \in Todo(r, 0, start)
        BY <1>0, <2>1 DEF Missing, Todo, Unloaded, Span, Offset
      <3>4. \A i \in Missing(r) : i \in Int
        BY DEF Missing, Span, Offset
      <3> QED BY <1>0, <3>2, <3>3, <3>4
    <2>2. CASE start = 0
      <3>1. f = r
        BY <2>2 DEF LoadBefore
      <3> QED BY <1>2, <2>2, <3>1 DEF Missing, Span, Offset
    <2> QED BY <1>0, <2>1, <2>2
  <1>5. start <= f.map.size
    BY <1>0, <1>1
  <1>6. /\ Good(g, obj, Pwrite(v, start, len, value))
        /\ Missing(g) = Missing(f) \ Span(start, len)
        /\ g.map.size = IF f.map.size < start + len THEN start + len ELSE f.map.size
        /\ g.size_orgmeta = e.size_orgmeta /\ g.is_modify = TRUE
    <2>1. /\ Good(g, obj, Pwrite(v, start, len, value))
          /\ Missing(g) = Missing(f) \ Span(start, len)
      BY <1>1, <1>3, <1>4, <1>5, GoodWritten
    <2>2. /\ g.map.size = IF f.map.size < start + len THEN start + len ELSE f.map.size
          /\ g.size_orgmeta = f.size_orgmeta /\ g.is_modify = TRUE
      <3>1. f \in WellSized
        BY <1>1
      <3> HIDE DEF u
      <3>2. Grows(Written(f, start, len, value), f, start + len)
        BY <1>5, <3>1, WrittenType
      <3> QED BY <3>2 DEF Grows
    <2> QED BY <1>1, <2>1, <2>2
  <1>7. Pwrite(v, start, len, value) = u
    BY PwriteGap DEF v
  <1>8. u \in Blob /\ u.size = IF w.size < start + len THEN start + len ELSE w.size
    BY PwriteType
  <1> HIDE DEF g, u
  <1>9. \A i \in Missing(g) : start + len <= i /\ i < g.map.size /\ i \in Int
    BY <1>0, <1>1, <1>4, <1>6 DEF Missing, Span, Offset
  <1>10. Good(x, obj, u) /\ Missing(x) = {} /\ x.is_modify = TRUE /\ x.size_orgmeta = e.size_orgmeta
    <2>1. CASE start + len < g.map.size
      <3>1. x \in Load(g, obj, start + len, g.map.size)
        BY <2>1 DEF LoadAfter, g
      <3>2. g.map.size \in Nat /\ g.map.size > 0
        BY <1>0, <2>1, <1>1 DEF WellSized, Entity, PageMaps, Size
      <3>3. start <= e.map.size
        BY <1>0, <1>1, <1>6, <2>1
      <3>4. NoOver(g)
        BY <1>1, <1>2, <1>4, <1>6, <3>3 DEF NoOver
      <3>5. /\ Good(x, obj, u)
            /\ Missing(x) = Missing(g) \ Todo(g, start + len, g.map.size)
            /\ x.is_modify = g.is_modify
        BY <1>0, <1>1, <1>6, <1>7, <1>8, <3>1, <3>2, <3>4, GoodLoad
      <3>6. \A i \in Missing(g) : i \in Todo(g, start + len, g.map.size)
        BY <1>0, <1>9, <3>2 DEF Missing, Todo, Unloaded, Span, Offset
      <3>7. x.size_orgmeta = g.size_orgmeta
        BY <1>0, <1>1, <3>1, <3>2, LoadType
      <3> QED BY <1>6, <3>5, <3>6, <3>7
    <2>2. CASE ~ (start + len < g.map.size)
      <3>1. x = g
        BY <2>2 DEF LoadAfter, g
      <3>2. Missing(g) = {}
        <4> SUFFICES ASSUME NEW i \in Missing(g) PROVE FALSE
          OBVIOUS
        <4>1. g.map.size \in Int
          BY <1>1 DEF WellSized, Entity, PageMaps, Size
        <4> QED BY <1>0, <1>9, <2>2, <4>1
      <3> QED BY <1>6, <1>7, <3>1, <3>2
    <2> QED BY <2>1, <2>2
  <1>11. x.size_orgmeta <= x.map.size
    <2>1. x.map.size = u.size /\ e.size_orgmeta <= w.size
      BY <1>0, <1>10 DEF Good, OpenInv
    <2> QED BY <1>0, <1>8, <1>10, <2>1
  <1>12. NoOver(x)
    BY <1>10 DEF NoOver
  <1> QED BY <1>10, <1>11, <1>12 DEF OpenInv, u

-----------------------------------------------------------------------------
(***************************************************************************)
(* s3fs_truncate until the upload.  Resizing keeps Good because what is    *)
(* missing is below the size the stat cache reports, or nothing is missing. *)
(***************************************************************************)
LEMMA GoodReopen ==
    ASSUME NEW e \in WellSized, NEW o \in Blob, NEW w \in Blob, NEW metasize \in Size,
           OpenInv(e, o, w, metasize), NEW size \in Size
    PROVE  Good(Reopen(e, size, metasize), o, Ftruncate(w, size))
  <1> DEFINE g == Reopen(e, size, metasize)
             v == Ftruncate(w, size)
  <1>0. /\ size \in Nat /\ e.map.size \in Nat /\ e.size_orgmeta \in Nat /\ metasize \in Nat
        /\ w.size = e.map.size /\ e.size_orgmeta <= e.map.size /\ e.file.size = e.map.size
        /\ o.size \in Nat
        /\ e.map.loaded \subseteq Span(0, e.map.size)
    BY DEF Size, WellSized, Entity, PageMaps, OpenInv, Good, Blob
  <1>1. /\ g.map = IF e.map.size # size THEN MapResize(e.map, size, FALSE) ELSE e.map
        /\ g.file = IF e.map.size # size THEN Ftruncate(e.file, size) ELSE e.file
        /\ g.size_orgmeta = IF metasize < e.size_orgmeta THEN metasize ELSE e.size_orgmeta
    BY DEF Reopen, WellSized, Entity
  <1>2. g.map.size = size
    BY ReopenType
  <1>3. g.map.loaded = {i \in e.map.loaded : i < size}
    BY <1>0, <1>1 DEF MapResize, Span, Offset
  <1>4. v.size = size /\ \A i \in Offset : i < size => v.data[i] = w.data[i]
    BY DEF Ftruncate
  <1>5. \A i \in Offset : i < size => g.file.data[i] = e.file.data[i]
    BY <1>1 DEF Ftruncate
  <1> HIDE DEF g, v
  <1>6. \A i \in g.map.loaded : g.file.data[i] = v.data[i]
    BY <1>0, <1>3, <1>4, <1>5 DEF OpenInv, Good, Span
  <1>7. ASSUME NEW i \in Missing(g)
        PROVE  IF i < g.size_orgmeta THEN i < o.size /\ o.data[i] = v.data[i]
                                     ELSE v.data[i] = Zero
    <2>1. i \in Offset /\ i \in Nat /\ i < size /\ i \notin e.map.loaded
      BY <1>0, <1>2, <1>3 DEF Missing, Span, Offset
    <2>2. v.data[i] = w.data[i]
      BY <1>4, <2>1
    <2>3. CASE i < e.map.size
      <3>1. i \in Missing(e)
        BY <1>0, <2>1, <2>3 DEF Missing, Span
      <3>2. metasize = o.size
        BY <3>1 DEF OpenInv
      <3>3. i < e.size_orgmeta
        BY <3>1 DEF OpenInv, NoOver
      <3>4. i < o.size /\ o.data[i] = w.data[i]
        BY <3>1, <3>3 DEF OpenInv, Good
      <3> QED BY <1>0, <1>1, <2>1, <2>2, <3>2, <3>3, <3>4
    <2>4. CASE e.map.size <= i
      <3>1. w.data[i] = Zero
        BY <1>0, <2>1, <2>4 DEF Blob
      <3>2. ~ (i < g.size_orgmeta)
        BY <1>0, <1>1, <2>1, <2>4
      <3> QED BY <2>2, <3>1, <3>2
    <2> QED BY <1>0, <2>1, <2>3, <2>4
  <1>8. Good(g, o, v)
    BY <1>2, <1>4, <1>6, <1>7 DEF Good
  <1> QED BY <1>8 DEF g, v

\* After the load nothing is missing, so the truncated content is uploaded.
LEMMA TruncateGood ==
    ASSUME NEW e \in WellSized, NEW o \in Blob, NEW w \in Blob, NEW metasize \in Size,
           OpenInv(e, o, w, metasize), NEW size \in Size,
           NEW x \in Load(Reopen(e, size, metasize), o, 0, size)
    PROVE  x.file = Ftruncate(w, size) /\ Missing(x) = {}
  <1> DEFINE g == Reopen(e, size, metasize)
             v == Ftruncate(w, size)
  <1>1. g \in WellSized /\ g.map.size = size /\ v \in Blob /\ Good(g, o, v)
    BY ReopenType, BlobTypes, GoodReopen
  <1>2. size \in Nat /\ 0 \in Nat /\ MaxSize \in Nat /\ size <= MaxSize
    BY DEF Size
  <1> HIDE DEF g, v
  <1>3. x \in WellSized
    BY <1>1, <1>2, LoadType DEF g
  <1>4. Good(x, o, v) /\ Missing(x) = Missing(g) \ Todo(g, 0, size)
    BY <1>1, <1>2, GoodLoad DEF g
  <1>5. Missing(g) \subseteq Todo(g, 0, size)
    BY <1>1, <1>2 DEF Missing, Todo, Unloaded, Span, Offset
  <1>6. Missing(x) = {}
    BY <1>4, <1>5
  <1> QED BY <1>1, <1>3, <1>4, <1>6, GoodComplete DEF v

-----------------------------------------------------------------------------
(***************************************************************************)
(* Reads, and writes that fail before pwrite, change what is loaded only.  *)
(***************************************************************************)
LEMMA KeepOpenInv ==
    ASSUME NEW e \in WellSized, NEW o, NEW w, NEW metasize, OpenInv(e, o, w, metasize),
           NEW x \in WellSized, Good(x, o, w), NoOver(x),
           x.is_modify = e.is_modify, x.size_orgmeta = e.size_orgmeta,
           x.map.size = e.map.size,
           Missing(x) \subseteq Missing(e) \/ Missing(e) # {}
    PROVE  OpenInv(x, o, w, metasize)
  <1>1. x.is_modify => Missing(x) = {}
    BY DEF OpenInv
  <1>2. Missing(x) = {} \/ metasize = o.size
    BY DEF OpenInv
  <1> QED BY <1>1, <1>2 DEF OpenInv

LEMMA ReserveForRead ==
    ASSUME NEW e \in WellSized, NEW o \in Blob, NEW w \in Blob, NEW metasize,
           OpenInv(e, o, w, metasize), NEW r \in Reserved(e)
    PROVE  /\ r \in WellSized /\ Good(r, o, w) /\ NoOver(r)
           /\ r.is_modify = e.is_modify /\ r.size_orgmeta = e.size_orgmeta
           /\ r.map.size = e.map.size
  <1>1. 0 \in Size /\ e.map.size \in Nat /\ w.size \in Nat
    BY DEF Size, WellSized, Entity, PageMaps, Blob
  <1>2. GrowTo(e, 0) = e
    BY <1>1 DEF GrowTo
  <1>3. ~ (w.size < 0) /\ 0 <= e.map.size
    BY <1>1
  <1>4. Good(r, o, w) /\ NoOver(r)
    BY <1>1, <1>2, <1>3, ReserveGood
  <1> QED BY <1>4, ReservedType

\* What Read asks Load for covers the range that was asked of Read.
LEMMA LoadSizeCovers ==
    ASSUME NEW e \in WellSized, NEW start \in Size, NEW len \in Size, 0 < len,
           start < e.map.size
    PROVE  /\ LoadSize(e, start, len) \in Nat \ {0}
           /\ \A i \in Span(0, e.map.size) : i \in Span(start, len)
                => i \in Span(start, LoadSize(e, start, len))
  <1>1. start \in Nat /\ len \in Nat /\ e.map.size \in Nat
    BY DEF Size, WellSized, Entity, PageMaps
  <1>2. /\ LoadSize(e, start, len) \in Nat \ {0}
        /\ \/ len <= LoadSize(e, start, len)
           \/ start + LoadSize(e, start, len) = e.map.size
    BY <1>1 DEF LoadSize
  <1> QED BY <1>1, <1>2 DEF Span, Offset

LEMMA ReadGood ==
    ASSUME NEW e \in WellSized, NEW o \in Blob, NEW w \in Blob, NEW metasize,
           OpenInv(e, o, w, metasize), NEW start \in Size, NEW len \in Size,
           Unloaded(e.map, start, len) # {}, NEW r \in Reserved(e)
    PROVE  /\ \A x \in Load(r, o, start, LoadSize(r, start, len)) :
                 /\ x \in WellSized /\ OpenInv(x, o, w, metasize)
                 /\ Missing(x) \cap Span(start, len) = {}
           /\ \A x \in LoadFails(r, o, start, LoadSize(r, start, len)) :
                 x \in WellSized /\ OpenInv(x, o, w, metasize)
  <1>1. PICK i \in Missing(e) : i \in Span(start, len)
    BY DEF Unloaded, Missing
  <1>2. 0 < len /\ start < e.map.size
    BY <1>1 DEF Missing, Span, Offset, Size, WellSized, Entity, PageMaps
  <1>3. /\ r \in WellSized /\ Good(r, o, w) /\ NoOver(r)
        /\ r.is_modify = e.is_modify /\ r.size_orgmeta = e.size_orgmeta
        /\ r.map.size = e.map.size
    BY ReserveForRead
  <1> DEFINE ls == LoadSize(r, start, len)
  <1>4. /\ ls \in Nat \ {0} /\ start \in Nat
        /\ \A j \in Span(0, r.map.size) : j \in Span(start, len) => j \in Span(start, ls)
    BY <1>2, <1>3, LoadSizeCovers DEF Size
  <1> HIDE DEF ls
  <1>5. ASSUME NEW x \in Load(r, o, start, ls)
        PROVE  /\ x \in WellSized /\ OpenInv(x, o, w, metasize)
               /\ Missing(x) \cap Span(start, len) = {}
    <2>1. x \in WellSized /\ x.map.size = r.map.size /\ x.size_orgmeta = r.size_orgmeta
      BY <1>3, <1>4, LoadType
    <2>2. /\ Good(x, o, w) /\ Missing(x) = Missing(r) \ Todo(r, start, ls)
          /\ x.is_modify = r.is_modify /\ NoOver(x)
      BY <1>3, <1>4, GoodLoad
    <2>3. Missing(x) \cap Span(start, len) = {}
      BY <1>4, <2>2 DEF Missing, Todo, Unloaded
    <2>4. OpenInv(x, o, w, metasize)
      BY <1>1, <1>3, <2>1, <2>2, KeepOpenInv
    <2> QED BY <2>1, <2>3, <2>4
  <1>6. ASSUME NEW x \in LoadFails(r, o, start, ls)
        PROVE  x \in WellSized /\ OpenInv(x, o, w, metasize)
    <2>1. x \in WellSized /\ x.map.size = r.map.size /\ x.size_orgmeta = r.size_orgmeta
      BY <1>3, <1>4, LoadFailsType
    <2>2. Good(x, o, w) /\ x.is_modify = r.is_modify /\ NoOver(x)
      BY <1>3, <1>4, GoodLoadFails
    <2>3. OpenInv(x, o, w, metasize)
      BY <1>1, <1>3, <2>1, <2>2, KeepOpenInv
    <2> QED BY <2>1, <2>3
  <1> QED BY <1>5, <1>6 DEF ls

(***************************************************************************)
(* The faults the safety theorem allows: space never runs out, or nothing  *)
(* else fails.                                                             *)
(***************************************************************************)
FaultsApart == "space" \notin Faults \/ Faults = {"space"}

LEMMA WriteFailsGood ==
    ASSUME FaultsApart, NEW e \in WellSized, obj \in Blob, NEW w \in Blob, NEW metasize,
           OpenInv(e, obj, w, metasize), NEW start \in Size, start <= e.map.size,
           NEW r \in Reserved(GrowTo(e, start)),
           NEW x \in WellSized,
           \/ 0 < start /\ x \in LoadFails(r, obj, 0, start)
           \/ "disk" \in Faults /\ x \in LoadBefore(r, start)
    PROVE  OpenInv(x, obj, w, metasize)
  <1>0. start \in Nat /\ 0 \in Nat /\ e.map.size \in Nat /\ w.size = e.map.size
    BY DEF Size, WellSized, Entity, PageMaps, OpenInv, Good
  <1>1. GrowTo(e, start) = e
    BY <1>0 DEF GrowTo
  <1>2. r \in WellSized /\ Good(r, obj, w) /\ NoOver(r)
        /\ r.is_modify = e.is_modify /\ r.size_orgmeta = e.size_orgmeta
        /\ r.map.size = e.map.size
    BY <1>1, ReserveForRead
  <1>3. r = e
    <2>1. CASE "space" \notin Faults
      BY <1>1, <2>1 DEF Reserved
    <2>2. CASE Faults = {"space"}
      <3>1. LoadFails(r, obj, 0, start) = {}
        BY <1>0, <1>2, <2>2, NoLoadFails
      <3> QED BY <2>2, <3>1
    <2> QED BY <2>1, <2>2 DEF FaultsApart
  <1>4. CASE 0 < start /\ x \in LoadFails(r, obj, 0, start)
    <2>1. x.map.size = r.map.size /\ x.size_orgmeta = r.size_orgmeta
      BY <1>0, <1>2, <1>4, LoadFailsType
    <2>2. /\ Good(x, obj, w) /\ Missing(x) \subseteq Missing(r)
          /\ x.is_modify = r.is_modify /\ NoOver(x)
      BY <1>0, <1>2, <1>4, GoodLoadFails
    <2> QED BY <1>3, <2>1, <2>2, KeepOpenInv
  <1>5. CASE x \in LoadBefore(r, start) /\ 0 < start
    <2>0. x \in Load(r, obj, 0, start)
      BY <1>5 DEF LoadBefore
    <2>1. x.map.size = r.map.size /\ x.size_orgmeta = r.size_orgmeta
      BY <1>0, <1>2, <2>0, LoadType
    <2>2. /\ Good(x, obj, w) /\ Missing(x) \subseteq Missing(r)
          /\ x.is_modify = r.is_modify /\ NoOver(x)
      BY <1>0, <1>2, <2>0, GoodLoad
    <2> QED BY <1>3, <2>1, <2>2, KeepOpenInv
  <1>6. CASE x \in LoadBefore(r, start) /\ ~ (0 < start)
    BY <1>3, <1>6 DEF LoadBefore
  <1> QED BY <1>4, <1>5, <1>6

-----------------------------------------------------------------------------
(***************************************************************************)
(* Types and sizes, whatever fails.                                        *)
(***************************************************************************)
LEMMA TypeInit == Init => TypeOK /\ SizesAgree
  <1> SUFFICES ASSUME Init PROVE TypeOK /\ SizesAgree
    OBVIOUS
  <1>1. 0 \in Size
    BY DEF Size
  <1>2. ent \in WellSized
    BY <1>1, NewEntityType DEF Init
  <1> QED BY <1>2 DEF Init, TypeOK, SizesAgree, WellSized, NoStat

\* Each action keeps the types, and the page list as long as the file.
LEMMA TypeStep == TypeOK /\ SizesAgree /\ [Next]_vars => (TypeOK /\ SizesAgree)'
  <1> SUFFICES ASSUME TypeOK, SizesAgree, [Next]_vars PROVE (TypeOK /\ SizesAgree)'
    OBVIOUS
  <1> DEFINE Same == obj' \in Blob /\ want' \in Blob /\ ent' \in WellSized
  <1>0. /\ obj \in Blob /\ want \in Blob /\ ent \in WellSized
        /\ obj.size \in Size /\ 0 \in Size /\ MetaSize \in Size
    BY DEF TypeOK, SizesAgree, WellSized, Blob, Size, MetaSize, NoStat
  <1>e. Empty \in Blob /\ NewEntity(0, 0) \in WellSized
    BY <1>0, BlobTypes, NewEntityType
  <1>t. ASSUME Same,
               statsize' \in Size \cup {NoStat}, opened' \in BOOLEAN, acked' \in BOOLEAN,
               broken' \in BOOLEAN, readback' \in {"none", "right", "wrong"}
        PROVE  (TypeOK /\ SizesAgree)'
    BY <1>t DEF TypeOK, SizesAgree, WellSized
  <1>1. CASE Open
    BY <1>0, <1>1, <1>t, NewEntityType DEF Open
  <1>2. CASE OpenTrunc
    BY <1>0, <1>e, <1>2, <1>t, NewEntityType, UploadTypes DEF OpenTrunc
  <1>3. CASE OpenTruncFails
    BY <1>0, <1>e, <1>3, <1>t DEF OpenTruncFails, TypeOK
  <1>4. CASE Getattr
    BY <1>0, <1>4, <1>t DEF Getattr, TypeOK
  <1>5. ASSUME NEW start \in Size, NEW len \in Size, start + len <= MaxSize,
               Read(start, len) \/ ReadFails(start, len)
        PROVE  (TypeOK /\ SizesAgree)'
    <2>1. \A r \in Reserved(ent) :
            /\ r \in WellSized
            /\ Unloaded(ent.map, start, len) # {} => LoadSize(r, start, len) \in Nat
      <3> SUFFICES ASSUME NEW r \in Reserved(ent), Unloaded(ent.map, start, len) # {}
                   PROVE  r \in WellSized /\ LoadSize(r, start, len) \in Nat
        BY <1>0, ReservedType
      <3>1. r \in WellSized /\ r.map.size = ent.map.size
        BY <1>0, ReservedType
      <3>2. 0 < len /\ start < ent.map.size
        BY <1>0 DEF Unloaded, Span, Offset, Size, WellSized, Entity, PageMaps
      <3> QED BY <3>1, <3>2, LoadSizeCovers
    <2>2. start \in Nat
      BY DEF Size
    <2>3. ent' \in WellSized
      BY <1>0, <1>5, <2>1, <2>2, LoadType, LoadFailsType DEF Read, ReadFails
    <2> QED BY <1>0, <1>5, <1>t, <2>3 DEF Read, ReadFails, TypeOK
  <1>6. ASSUME NEW start \in Size, NEW len \in Size, start + len <= MaxSize,
               NEW value \in Byte,
               \/ Write(start, len, value)
               \/ \E written \in 1 .. (len - 1) : WriteShort(start, len, written, value)
        PROVE  (TypeOK /\ SizesAgree)'
    <2>1. PICK written \in Size :
            /\ written <= len
            /\ \E r \in Reserved(GrowTo(ent, start)) : \E f \in LoadBefore(r, start) :
                  ent' \in LoadAfter(Written(f, start, written, value), start + len)
            /\ want' = Pwrite(want, start, written, value)
      BY <1>6 DEF Write, WriteShort, Size
    <2>2. ent' \in WellSized
      BY <1>0, <1>6, <2>1, WriteTypes
    <2>3. start + written <= MaxSize
      BY <1>6, <2>1 DEF Size
    <2>4. want' \in Blob
      BY <1>0, <2>1, <2>3, PwriteType
    <2> QED BY <1>0, <1>6, <1>t, <2>2, <2>4 DEF Write, WriteShort, TypeOK
  <1>7. ASSUME NEW start \in Size, NEW len \in Size, start + len <= MaxSize,
               NEW value \in Byte, WriteTailFails(start, len, value)
        PROVE  (TypeOK /\ SizesAgree)'
    <2>1. PICK r \in Reserved(GrowTo(ent, start)) : \E f \in LoadBefore(r, start) :
             ent' \in LoadFails(Written(f, start, len, value), obj, start + len,
                               Written(f, start, len, value).map.size)
      BY <1>7 DEF WriteTailFails
    <2>2. PICK f \in LoadBefore(r, start) :
             ent' \in LoadFails(Written(f, start, len, value), obj, start + len,
                               Written(f, start, len, value).map.size)
      BY <2>1
    <2> DEFINE g == Written(f, start, len, value)
    <2>3. len <= len
      BY DEF Size
    <2>4. g \in WellSized
      BY <1>0, <1>7, <2>3, WriteTypes
    <2> HIDE DEF g
    <2>5. g.map.size \in Nat /\ start + len \in Nat
      BY <2>4 DEF WellSized, Entity, PageMaps, Size
    <2>6. ent' \in WellSized
      BY <1>0, <2>2, <2>4, <2>5, LoadFailsType DEF g
    <2>7. want' \in Blob
      BY <1>0, <1>7, PwriteType DEF WriteTailFails
    <2> QED BY <1>0, <1>7, <1>t, <2>6, <2>7 DEF WriteTailFails, TypeOK
  <1>8. ASSUME NEW start \in Size, WriteFails(start)
        PROVE  (TypeOK /\ SizesAgree)'
    <2>1. PICK r \in Reserved(GrowTo(ent, start)) :
             \/ ent' \in LoadFails(r, obj, 0, start)
             \/ ent' \in LoadBefore(r, start)
      BY <1>8 DEF WriteFails
    <2>2. r \in WellSized /\ start \in Nat /\ 0 \in Nat
      BY <1>0, GrowToType, ReservedType DEF Size
    <2>3. ent' \in WellSized
      BY <1>0, <2>1, <2>2, LoadType, LoadFailsType DEF LoadBefore
    <2> QED BY <1>0, <1>8, <1>t, <2>3 DEF WriteFails, TypeOK
  <1>9. CASE Flush
    <2>1. ent' \in WellSized /\ obj' \in Blob
      BY <1>0, <1>9, UploadTypes DEF Flush
    <2> QED BY <1>0, <1>9, <1>t, <2>1 DEF Flush, TypeOK
  <1>10. CASE FlushFails
    <2>1. ent' \in WellSized /\ obj' \in Blob
      BY <1>0, <1>10, UploadTypes DEF FlushFails
    <2> QED BY <1>0, <1>10, <1>t, <2>1 DEF FlushFails, TypeOK
  <1>11. ASSUME NEW size \in Size, Truncate(size) \/ TruncateFails(size)
         PROVE  (TypeOK /\ SizesAgree)'
    <2> DEFINE g == Reopen(ent, size, MetaSize)
    <2>1. g \in WellSized /\ size \in Nat /\ 0 \in Nat
      BY <1>0, ReopenType DEF Size
    <2>2. want' \in Blob
      BY <1>0, <1>11, BlobTypes DEF Truncate, TruncateFails
    <2> HIDE DEF g
    <2>3. \A e \in Load(g, obj, 0, size) : e \in WellSized
      BY <1>0, <2>1, LoadType
    <2>4. \A e \in LoadFails(g, obj, 0, size) : e \in WellSized
      BY <1>0, <2>1, LoadFailsType
    <2>5. CASE Truncate(size)
      <3>1. PICK e \in Load(g, obj, 0, size) : ent' = Uploaded(e) /\ obj' = e.file
        BY <2>5 DEF Truncate, g
      <3>2. ent' \in WellSized /\ obj' \in Blob
        BY <1>0, <2>3, <3>1, UploadTypes
      <3> QED BY <1>0, <1>t, <2>2, <2>5, <3>2 DEF Truncate, TypeOK
    <2>6. CASE TruncateFails(size)
      <3>1. \/ ent' \in LoadFails(g, obj, 0, size) /\ obj' = obj
            \/ \E e \in Load(g, obj, 0, size) :
                  \E u \in UploadFails(e, obj) : ent' = u.ent /\ obj' = u.obj
        BY <2>6 DEF TruncateFails, g
      <3>2. ent' \in WellSized /\ obj' \in Blob
        BY <1>0, <2>3, <2>4, <3>1, UploadTypes
      <3> QED BY <1>0, <1>t, <2>2, <2>6, <3>2 DEF TruncateFails, TypeOK
    <2> QED BY <1>11, <2>5, <2>6
  <1>12. CASE Close
    <2>1. obj' \in Blob
      BY <1>0, <1>12, UploadTypes DEF Close
    <2> QED BY <1>0, <1>e, <1>12, <1>t, <2>1 DEF Close, Gone, TypeOK
  <1>13. CASE CloseFails
    <2>1. obj' \in Blob
      BY <1>0, <1>13, UploadTypes DEF CloseFails
    <2> QED BY <1>0, <1>e, <1>13, <1>t, <2>1 DEF CloseFails, Gone, TypeOK
  <1>14. CASE Killed
    BY <1>0, <1>e, <1>14, <1>t DEF Killed, Gone, TypeOK
  <1>15. CASE UNCHANGED vars
    BY <1>0, <1>15, <1>t DEF vars, TypeOK
  <1> QED
    BY <1>1, <1>2, <1>3, <1>4, <1>5, <1>6, <1>7, <1>8, <1>9, <1>10, <1>11, <1>12, <1>13,
       <1>14, <1>15 DEF Next

LEMMA TypeAlways == Spec => [](TypeOK /\ SizesAgree)
  BY TypeInit, TypeStep, PTL DEF Spec

(***************************************************************************)
(* The state keeps its type through every handler of s3fs.cpp and every    *)
(* failure inside it.                                                      *)
(***************************************************************************)
THEOREM EntityTypes == Spec => []TypeOK
  BY TypeAlways, PTL

(***************************************************************************)
(* The page list and the cache file have one size, however a load, a write *)
(* or a truncate fails, for any combination of faults.                     *)
(***************************************************************************)
THEOREM SizesAlwaysAgree == Spec => []SizesAgree
  BY TypeAlways, PTL

-----------------------------------------------------------------------------
(***************************************************************************)
(* Safety, while a write or a truncate has not failed half way.            *)
(***************************************************************************)
Inv ==
    /\ TypeOK /\ SizesAgree
    /\ opened /\ ~ broken => OpenInv(ent, obj, want, MetaSize)
    /\ ~ opened /\ ~ broken => obj = want
    /\ ReadsBack

LEMMA InvImplies == Inv => Coherent /\ DirtyIsComplete /\ CleanIsDurable /\ ReadsBack
  <1> SUFFICES ASSUME Inv PROVE Coherent /\ DirtyIsComplete /\ CleanIsDurable /\ ReadsBack
    OBVIOUS
  <1>1. Coherent
    BY DEF Inv, Coherent, OpenInv, Good, NoOver, Missing
  <1>2. DirtyIsComplete
    BY DEF Inv, DirtyIsComplete, OpenInv, Missing, Complete
  <1>3. CleanIsDurable
    BY DEF Inv, CleanIsDurable, OpenInv
  <1> QED BY <1>1, <1>2, <1>3 DEF Inv

\* A new entity has nothing loaded and everything on S3.
LEMMA NewEntityGood ==
    ASSUME NEW o \in Blob
    PROVE  OpenInv(NewEntity(o.size, o.size), o, o, o.size)
  <1> DEFINE e == NewEntity(o.size, o.size)
             m == MapResize(MapInit(0, FALSE), o.size, FALSE)
  <1>a. o.size \in Size
    BY DEF Blob
  <1>b. o.size \in Nat
    BY <1>a DEF Size
  <1>c. m.size = o.size /\ m.loaded = {}
    BY <1>b, MaxSizeAssumption DEF MapResize, MapInit, Span, Offset
  <1> HIDE DEF m
  <1>d. e.map = m /\ e.size_orgmeta = o.size /\ e.is_modify = FALSE
    BY DEF NewEntity, m
  <1>1. /\ e.size_orgmeta = o.size /\ e.is_modify = FALSE
        /\ e.map.size = o.size /\ e.map.loaded = {} /\ o.size \in Nat
    BY <1>b, <1>c, <1>d
  <1> HIDE DEF e
  <1>2. \A i \in Missing(e) : i < o.size
    BY <1>1 DEF Missing, Span
  <1> QED BY <1>1, <1>2 DEF OpenInv, Good, NoOver, e

\* An uploaded entity is clean and the object is its file.
LEMMA UploadedGood ==
    ASSUME NEW e \in WellSized, Missing(e) = {}
    PROVE  \A ms : OpenInv(Uploaded(e), e.file, e.file, ms)
  <1>1. /\ e.file \in Blob /\ e.map.size = e.file.size /\ e.file.size \in Nat
        /\ e.map.loaded \subseteq Offset
    BY DEF WellSized, Entity, Blob, Size, PageMaps
  <1>2. /\ Uploaded(e).map = e.map /\ Uploaded(e).file = e.file
        /\ Uploaded(e).size_orgmeta = e.file.size /\ Uploaded(e).is_modify = FALSE
    BY DEF Uploaded, WellSized, Entity
  <1>3. Missing(Uploaded(e)) = {}
    BY <1>2 DEF Missing
  <1> QED BY <1>1, <1>2, <1>3 DEF OpenInv, Good, NoOver

LEMMA InvInit == Init => Inv
  <1> SUFFICES ASSUME Init PROVE Inv
    OBVIOUS
  <1>1. TypeOK /\ SizesAgree
    BY TypeInit
  <1> QED BY <1>1 DEF Init, Inv, ReadsBack

LEMMA InvStep == FaultsApart /\ Inv /\ [Next]_vars => Inv'
  <1> SUFFICES ASSUME FaultsApart, Inv, [Next]_vars PROVE Inv'
    OBVIOUS
  <1>1. (TypeOK /\ SizesAgree)'
    BY TypeStep DEF Inv
  <1>2. /\ obj \in Blob /\ want \in Blob /\ ent \in WellSized /\ ent' \in WellSized
        /\ obj.size \in Size /\ MetaSize \in Size
    BY <1>1 DEF Inv, TypeOK, SizesAgree, WellSized, Blob, Size, MetaSize, NoStat
  <1>b. ASSUME broken' PROVE Inv'
    BY <1>1, <1>b DEF Inv, ReadsBack
  <1>o. ASSUME opened', OpenInv(ent', obj', want', MetaSize'), readback' # "wrong" PROVE Inv'
    BY <1>1, <1>o DEF Inv, ReadsBack
  <1>c. ASSUME ~ opened', obj' = want', readback' # "wrong" PROVE Inv'
    BY <1>1, <1>c DEF Inv, ReadsBack
  <1>3. CASE Open
    BY <1>2, <1>3, <1>o, NewEntityGood DEF Open, MetaSize, NoStat, Size
  <1>4. CASE OpenTrunc
    <2>1. /\ NewEntity(0, obj.size) \in WellSized
          /\ NewEntity(0, obj.size).file = Ftruncate(Empty, 0)
          /\ NewEntity(0, obj.size).map.size = 0
      <3>1. 0 \in Size
        BY DEF Size
      <3>2. NewEntity(0, obj.size) \in WellSized
        BY <1>2, <3>1, NewEntityType
      <3>3. MapResize(MapInit(0, FALSE), 0, FALSE).size = 0
        BY DEF MapResize
      <3> QED BY <3>2, <3>3 DEF NewEntity
    <2>2. Ftruncate(Empty, 0) = Empty
      BY DEF Ftruncate, Empty
    <2>3. Missing(NewEntity(0, obj.size)) = {}
      BY <2>1 DEF Missing, Span, Offset
    <2> QED BY <1>4, <1>o, <2>1, <2>2, <2>3, UploadedGood DEF OpenTrunc
  <1>5. CASE OpenTruncFails
    BY <1>5, <1>c DEF OpenTruncFails
  <1>6. CASE Getattr
    <2>1. MetaSize' = MetaSize
      BY <1>2, <1>6 DEF Getattr, MetaSize, NoStat, Size
    <2> QED BY <1>1, <1>6, <2>1 DEF Getattr, Inv, ReadsBack
  <1>7. ASSUME NEW start \in Size, NEW len \in Size, start + len <= MaxSize,
               Read(start, len) \/ ReadFails(start, len)
        PROVE  Inv'
    <2>0. MetaSize' = MetaSize /\ opened' /\ opened
      BY <1>7 DEF Read, ReadFails, MetaSize
    <2> SUFFICES ASSUME ~ broken, ~ broken' PROVE Inv'
      BY <1>7, <1>b DEF Read, ReadFails
    <2>1. OpenInv(ent, obj, want, MetaSize)
      BY <2>0 DEF Inv
    <2>2. CASE ReadFails(start, len)
      <3>1. PICK r \in Reserved(ent) : ent' \in LoadFails(r, obj, start, LoadSize(r, start, len))
        BY <2>2 DEF ReadFails
      <3>2. OpenInv(ent', obj, want, MetaSize)
        BY <1>2, <2>1, <2>2, <3>1, ReadGood DEF ReadFails
      <3> QED BY <1>o, <2>0, <2>2, <3>2 DEF ReadFails
    <2>3. CASE Read(start, len)
      <3>1. OpenInv(ent', obj, want, MetaSize) /\ Missing(ent') \cap Span(start, len) = {}
        <4>1. CASE Unloaded(ent.map, start, len) # {}
          <5>1. PICK r \in Reserved(ent) : ent' \in Load(r, obj, start, LoadSize(r, start, len))
            BY <2>3, <4>1 DEF Read
          <5> QED BY <1>2, <2>1, <4>1, <5>1, ReadGood
        <4>2. CASE Unloaded(ent.map, start, len) = {}
          BY <2>1, <2>3, <4>2 DEF Read, Unloaded, Missing
        <4> QED BY <4>1, <4>2
      <3>2. ReadsRight(ent', start, len)
        <4>1. ent'.file.size = want.size /\ ent'.map.size = want.size
          BY <1>2, <3>1 DEF OpenInv, Good, WellSized
        <4>2. ASSUME NEW i \in Span(start, len) PROVE ent'.file.data[i] = want.data[i]
          <5>0. i \in Offset /\ i \in Nat /\ want.size \in Nat
            BY <1>2 DEF Span, Offset, Blob, Size
          <5>1. CASE i < want.size
            <6>1. i \in Span(0, ent'.map.size)
              BY <4>1, <5>0, <5>1 DEF Span
            <6>2. i \in ent'.map.loaded
              BY <3>1, <6>1 DEF Missing
            <6> QED BY <3>1, <6>2 DEF OpenInv, Good
          <5>2. CASE want.size <= i
            <6>1. ent'.file \in Blob
              BY <1>2 DEF WellSized, Entity
            <6> QED BY <1>2, <4>1, <5>0, <5>2, <6>1 DEF Blob
          <5> QED BY <5>0, <5>1, <5>2
        <4> QED BY <4>1, <4>2 DEF ReadsRight
      <3> QED BY <1>o, <2>0, <2>3, <3>1, <3>2 DEF Read
    <2> QED BY <1>7, <2>2, <2>3
  <1>8. ASSUME NEW start \in Size, NEW len \in Size, start + len <= MaxSize,
               NEW value \in Byte, Write(start, len, value)
        PROVE  Inv'
    <2> SUFFICES ASSUME ~ broken PROVE Inv'
      BY <1>8, <1>b DEF Write
    <2>1. OpenInv(ent, obj, want, MetaSize)
      BY <1>8 DEF Inv, Write
    <2>2. PICK r \in Reserved(GrowTo(ent, start)) : \E f \in LoadBefore(r, start) :
             ent' \in LoadAfter(Written(f, start, len, value), start + len)
      BY <1>8 DEF Write
    <2>3. PICK f \in LoadBefore(r, start) :
             ent' \in LoadAfter(Written(f, start, len, value), start + len)
      BY <2>2
    <2>4. \A ms : OpenInv(ent', obj, Pwrite(want, start, len, value), ms)
      BY <1>2, <1>8, <2>1, <2>3, WriteGood
    <2> QED BY <1>8, <1>o, <2>4 DEF Write
  <1>9. ASSUME NEW start \in Size, NEW len \in Size, NEW value \in Byte,
               \/ WriteTailFails(start, len, value)
               \/ \E written \in 1 .. (len - 1) : WriteShort(start, len, written, value)
        PROVE  Inv'
    BY <1>9, <1>b DEF WriteTailFails, WriteShort
  <1>10. ASSUME NEW start \in Size, WriteFails(start)
         PROVE  Inv'
    <2> SUFFICES ASSUME ~ broken' PROVE Inv'
      BY <1>b
    <2>1. ~ broken /\ start <= ent.map.size /\ opened
      <3>1. opened /\ broken' = (broken \/ ent.map.size < start)
        BY <1>10 DEF WriteFails
      <3>2. ~ (broken \/ ent.map.size < start)
        BY <3>1
      <3>3. start \in Int /\ ent.map.size \in Int
        BY <1>2 DEF WellSized, Entity, PageMaps, Size
      <3> QED BY <3>1, <3>2, <3>3
    <2>2. OpenInv(ent, obj, want, MetaSize)
      BY <2>1 DEF Inv
    <2>3. PICK r \in Reserved(GrowTo(ent, start)) :
             \/ 0 < start /\ ent' \in LoadFails(r, obj, 0, start)
             \/ "disk" \in Faults /\ ent' \in LoadBefore(r, start)
      BY <1>10 DEF WriteFails
    <2>4. OpenInv(ent', obj, want, MetaSize)
      BY <1>2, <2>1, <2>2, <2>3, WriteFailsGood
    <2>5. MetaSize' = MetaSize
      BY <1>10 DEF WriteFails, MetaSize
    <2> QED BY <1>10, <1>o, <2>4, <2>5 DEF WriteFails
  <1>11. CASE Flush
    <2> SUFFICES ASSUME ~ broken PROVE Inv'
      BY <1>11, <1>b DEF Flush
    <2>1. OpenInv(ent, obj, want, MetaSize)
      BY <1>11 DEF Inv, Flush
    <2>2. CASE ent.is_modify
      <3>1. Missing(ent) = {} /\ ent.file = want
        BY <1>2, <2>1, <2>2, GoodComplete DEF OpenInv
      <3>2. \A ms : OpenInv(Uploaded(ent), want, want, ms)
        BY <1>2, <3>1, UploadedGood
      <3> QED BY <1>11, <1>o, <2>2, <3>1, <3>2 DEF Flush
    <2>3. CASE ~ ent.is_modify
      <3>1. MetaSize' = MetaSize
        BY <1>2, <1>11 DEF Flush, MetaSize, NoStat, Size
      <3> QED BY <1>11, <1>o, <2>1, <2>3, <3>1 DEF Flush
    <2> QED BY <2>2, <2>3
  <1>12. CASE FlushFails
    <2> SUFFICES ASSUME ~ broken PROVE Inv'
      BY <1>12, <1>b DEF FlushFails
    <2>1. OpenInv(ent, obj, want, MetaSize) /\ ent.is_modify
      BY <1>12 DEF Inv, FlushFails
    <2>2. Missing(ent) = {} /\ ent.file = want
      BY <1>2, <2>1, GoodComplete DEF OpenInv
    <2>3. /\ ent'.map = ent.map /\ ent'.file = ent.file /\ ent'.is_modify = ent.is_modify
          /\ ent'.size_orgmeta \in {ent.size_orgmeta, ent.file.size}
      <3>1. ent' \in {ent, UploadFailed(ent)}
        BY <1>12 DEF FlushFails, UploadFails
      <3>2. ent \in [file : Blob, map : PageMaps, size_orgmeta : Size, is_modify : BOOLEAN]
        BY <1>2 DEF WellSized, Entity
      <3>3. /\ UploadFailed(ent).map = ent.map /\ UploadFailed(ent).file = ent.file
            /\ UploadFailed(ent).is_modify = ent.is_modify
            /\ UploadFailed(ent).size_orgmeta = ent.file.size
        BY <3>2 DEF UploadFailed
      <3>4. CASE ent' = ent
        BY <3>4
      <3>5. CASE ent' = UploadFailed(ent)
        BY <3>3, <3>5
      <3> QED BY <3>1, <3>4, <3>5
    <2>4. Missing(ent') = {}
      BY <2>2, <2>3 DEF Missing
    <2>5. ent'.size_orgmeta <= ent'.map.size
      BY <1>2, <2>1, <2>3 DEF OpenInv, WellSized, Entity, Blob, Size
    <2>6. OpenInv(ent', obj', want, MetaSize')
      BY <2>1, <2>3, <2>4, <2>5 DEF OpenInv, Good, NoOver
    <2> QED BY <1>12, <1>o, <2>6 DEF FlushFails
  <1>13. ASSUME NEW size \in Size, Truncate(size)
         PROVE  Inv'
    <2> SUFFICES ASSUME ~ broken PROVE Inv'
      BY <1>13, <1>b DEF Truncate
    <2>1. OpenInv(ent, obj, want, MetaSize)
      BY <1>13 DEF Inv, Truncate
    <2>2. PICK e \in Load(Reopen(ent, size, MetaSize), obj, 0, size) :
             ent' = Uploaded(e) /\ obj' = e.file
      BY <1>13 DEF Truncate
    <2>3. e.file = Ftruncate(want, size) /\ Missing(e) = {}
      BY <1>2, <2>1, TruncateGood
    <2>4. Reopen(ent, size, MetaSize) \in WellSized /\ size \in Nat /\ 0 \in Nat
      BY <1>2, ReopenType DEF Size
    <2>5. e \in WellSized
      BY <1>2, <2>4, LoadType
    <2>6. \A ms : OpenInv(ent', obj', want', ms)
      BY <1>13, <2>2, <2>3, <2>5, UploadedGood DEF Truncate
    <2> QED BY <1>13, <1>o, <2>6 DEF Truncate
  <1>14. ASSUME NEW size \in Size, TruncateFails(size)
         PROVE  Inv'
    BY <1>14, <1>b DEF TruncateFails
  <1>15. CASE Close
    <2> SUFFICES ASSUME ~ broken PROVE Inv'
      BY <1>15, <1>b DEF Close
    <2>1. OpenInv(ent, obj, want, MetaSize)
      BY <1>15 DEF Inv, Close
    <2>2. obj' = want
      BY <1>2, <1>15, <2>1, GoodComplete DEF Close, OpenInv
    <2> QED BY <1>15, <1>c, <2>2 DEF Close, Gone
  <1>16. CASE CloseFails \/ Killed
    BY <1>16, <1>c DEF CloseFails, Killed, Gone
  <1>17. CASE UNCHANGED vars
    <2>1. MetaSize' = MetaSize
      BY <1>17 DEF vars, MetaSize
    <2> QED BY <1>1, <1>17, <2>1 DEF vars, Inv, ReadsBack
  <1> QED
    BY <1>3, <1>4, <1>5, <1>6, <1>7, <1>8, <1>9, <1>10, <1>11, <1>12, <1>13, <1>14, <1>15,
       <1>16, <1>17 DEF Next

(***************************************************************************)
(* The theorems that follow hold whatever file is opened and whatever is   *)
(* read, written, flushed and truncated afterwards, unless a write or      *)
(* truncate fails half way.  Either downloads, uploads and cache file      *)
(* writes may fail, or the disk may be short, but not both: together the   *)
(* stale size in the StatCache breaks them (README).                       *)
(***************************************************************************)
LEMMA InvAlways == ASSUME FaultsApart PROVE Spec => []Inv
  <1>1. Init => Inv
    BY InvInit
  <1>2. Inv /\ [Next]_vars => Inv'
    BY InvStep
  <1> QED BY <1>1, <1>2, PTL DEF Spec

(***************************************************************************)
(* What the page list calls loaded is in the cache file, and the rest is   *)
(* where Load will look for it: on S3 and below size_orgmeta.              *)
(***************************************************************************)
THEOREM EntityIsCoherent == ASSUME FaultsApart PROVE Spec => []Coherent
  BY InvAlways, InvImplies, PTL

(***************************************************************************)
(* A file with acknowledged writes has no holes when RowFlush uploads it,  *)
(* although RowFlush is told that nothing is left to load.                 *)
(***************************************************************************)
THEOREM DirtyFilesAreComplete == ASSUME FaultsApart PROVE Spec => []DirtyIsComplete
  BY InvAlways, InvImplies, PTL

(***************************************************************************)
(* A file whose is_modify is clear, or that is closed, is on S3: the flag, *)
(* which Load, Write and RowFlush all change, is not cleared too early.    *)
(***************************************************************************)
THEOREM CleanFilesAreDurable == ASSUME FaultsApart PROVE Spec => []CleanIsDurable
  BY InvAlways, InvImplies, PTL

(***************************************************************************)
(* FdEntity::Read returns the acknowledged bytes, from the cache file or   *)
(* downloaded, after any sequence of handlers.                             *)
(***************************************************************************)
THEOREM ReadsReturnWhatWasWritten == ASSUME FaultsApart PROVE Spec => []ReadsBack
  BY InvAlways, InvImplies, PTL

\* A failing upload leaves the object alone or replaces it by the cache file.
LEMMA UploadFailsObj ==
    ASSUME NEW e, NEW o, NEW r \in UploadFails(e, o)
    PROVE  r.obj = o \/ r.obj = e.file
  BY DEF UploadFails

LEMMA WholeStep ==
    ASSUME FaultsApart, Inv, [Next]_vars, obj' # obj, ~ broken'
    PROVE  obj' = want'
  <1>2. /\ obj \in Blob /\ want \in Blob /\ ent \in WellSized /\ MetaSize \in Size
    BY DEF Inv, TypeOK, SizesAgree, WellSized, Blob, Size, MetaSize, NoStat
  <1>3. ASSUME opened, ~ broken, ent.is_modify PROVE ent.file = want
    <2>1. OpenInv(ent, obj, want, MetaSize)
      BY <1>3 DEF Inv
    <2> QED BY <1>2, <1>3, <2>1, GoodComplete DEF OpenInv
  <1>4. CASE OpenTrunc \/ OpenTruncFails \/ Open \/ Getattr
    BY <1>4 DEF OpenTrunc, OpenTruncFails, Open, Getattr
  <1>5. ASSUME NEW start \in Size, NEW len \in Size,
               \/ Read(start, len) \/ ReadFails(start, len) \/ WriteFails(start)
               \/ \E value \in Byte :
                     \/ Write(start, len, value) \/ WriteTailFails(start, len, value)
                     \/ \E written \in 1 .. (len - 1) : WriteShort(start, len, written, value)
        PROVE  FALSE
    BY <1>5 DEF Read, ReadFails, WriteFails, Write, WriteTailFails, WriteShort
  <1>6. CASE Flush \/ FlushFails
    <2>1. /\ opened /\ ent.is_modify /\ want' = want /\ broken' = broken
          /\ obj' = ent.file \/ \E r \in UploadFails(ent, obj) : obj' = r.obj
      BY <1>6 DEF Flush, FlushFails
    <2>2. obj' = ent.file
      BY <2>1, UploadFailsObj
    <2> QED BY <1>3, <2>1, <2>2
  <1>7. ASSUME NEW size \in Size, Truncate(size)
        PROVE  obj' = want'
    <2>1. OpenInv(ent, obj, want, MetaSize)
      BY <1>7 DEF Inv, Truncate
    <2>2. PICK e \in Load(Reopen(ent, size, MetaSize), obj, 0, size) : obj' = e.file
      BY <1>7 DEF Truncate
    <2>3. e.file = Ftruncate(want, size)
      BY <1>2, <2>1, TruncateGood
    <2> QED BY <1>7, <2>2, <2>3 DEF Truncate
  <1>8. ASSUME NEW size \in Size, TruncateFails(size)
        PROVE  FALSE
    BY <1>8 DEF TruncateFails
  <1>9. CASE Close
    <2>1. opened /\ ~ broken /\ ent.is_modify /\ obj' = ent.file /\ want' = want
      BY <1>9 DEF Close
    <2> QED BY <1>3, <2>1
  <1>10. CASE CloseFails \/ Killed \/ UNCHANGED vars
    BY <1>10 DEF CloseFails, Killed, vars
  <1>11. \A start \in Size : WriteFails(start) => 0 \in Size
    BY DEF Size
  <1> QED
    BY <1>4, <1>5, <1>6, <1>7, <1>8, <1>9, <1>10, <1>11 DEF Next

(***************************************************************************)
(* RowFlush, and the uploads of s3fs_truncate and of a close, only ever    *)
(* replace the object by the whole current content of the file, even when  *)
(* the upload reports an error, for the same faults.                       *)
(***************************************************************************)
THEOREM WholeUploads == ASSUME FaultsApart PROVE Spec => UploadsAreWhole
  <1>1. Init => Inv
    BY InvInit
  <1>2. Inv /\ [Next]_vars => Inv'
    BY InvStep
  <1>3. Inv /\ [Next]_vars => [obj' # obj /\ ~ broken' => obj' = want']_vars
    BY WholeStep
  <1> QED BY <1>1, <1>2, <1>3, PTL DEF Spec, UploadsAreWhole
=============================================================================
