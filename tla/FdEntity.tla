------------------------------ MODULE FdEntity ------------------------------
(***************************************************************************)
(* class FdEntity of src/src/protocols/s3/fdcache.{h,cpp}, driven by the   *)
(* s3fs_* operations that S3Io calls: one object on S3, the local cache    *)
(* file that mirrors it, the page list that says which bytes of the cache  *)
(* file are loaded, and the dirty flag.                                    *)
(*                                                                         *)
(* One multifs process serves one file and runs its handlers one after the *)
(* other, so a handler is one step.  Inside it every call that can fail    *)
(* has all its outcomes: downloads that stop in the middle of a list of    *)
(* areas, uploads that fail before or after the object was replaced, short *)
(* or failing writes to the cache file, and a disk too full to reserve     *)
(* space on.  The process is alone in its cache directory, so its own      *)
(* cache file is still listed there when FdEntity::ReserveDiskSpace comes  *)
(* to FdManager::CleanupCacheDir: that call never returns (FdManager.tla), *)
(* and the multipart mode without a cache that would follow is not entered. *)
(***************************************************************************)
EXTENDS PageMapOps

CONSTANTS
    Byte,                   \* the values of a byte
    Zero,                   \* what ftruncate and FillFile write
    Prefetch,               \* GetMultipartSize() * GetMaxParallelCount()
    Faults                  \* which calls may fail

ASSUME ByteAssumption == Zero \in Byte
ASSUME PrefetchAssumption == Prefetch \in Nat
ASSUME FaultsAssumption == Faults \subseteq {"net", "disk", "space"}

VARIABLES
    obj,                    \* the object on S3
    opened,                 \* S3Io::open succeeded, the process serves it
    ent,                    \* the FdEntity
    statsize,               \* size in the StatCache entry, NoStat if none
    want,                   \* what the acknowledged operations made of the file
    acked,                  \* an acknowledged write is not uploaded yet
    readback,               \* did the last read return the bytes of want
    broken                  \* a write or truncate failed half way

vars == << obj, opened, ent, statsize, want, acked, readback, broken >>

NoStat == -1
-----------------------------------------------------------------------------
(***************************************************************************)
(* File contents: bytes at or after the size are Zero, as a read of a file *)
(* that is extended later would find them.                                 *)
(***************************************************************************)
Blob == {b \in [data : [Offset -> Byte], size : Size] :
            \A i \in Offset : b.size <= i => b.data[i] = Zero}

Empty == [data |-> [i \in Offset |-> Zero], size |-> 0]

\* ftruncate(fd, size)
Ftruncate(b, size) ==
    [data |-> [i \in Offset |-> IF i < size THEN b.data[i] ELSE Zero], size |-> size]

\* pwrite(fd, bytes, len, start), all bytes having the same value
Pwrite(b, start, len, value) ==
    [data |-> [i \in Offset |-> IF i \in Span(start, len) THEN value ELSE b.data[i]],
     size |-> IF b.size < start + len THEN start + len ELSE b.size]
-----------------------------------------------------------------------------
Entity == [file : Blob,             \* the cache file behind fd
           map : PageMaps,          \* pagelist
           size_orgmeta : Size,     \* size of the object, as far as is known
           is_modify : BOOLEAN]     \* dirty

Complete(m) == Span(0, m.size) \subseteq m.loaded

\* FdEntity::Open on a new entity: an empty cache file is extended to size.
NewEntity(size, orgsize) ==
    [file |-> Ftruncate(Empty, size), map |-> MapResize(MapInit(0, FALSE), size, FALSE),
     size_orgmeta |-> orgsize, is_modify |-> FALSE]

\* FdEntity::Open on an open entity: resize, and lower size_orgmeta.
Reopen(e, size, metasize) ==
    [e EXCEPT !.file = IF e.map.size # size THEN Ftruncate(@, size) ELSE @,
              !.map = IF e.map.size # size THEN MapResize(@, size, FALSE) ELSE @,
              !.size_orgmeta = IF metasize < @ THEN metasize ELSE @]

(***************************************************************************)
(* FdEntity::ReserveDiskSpace when it returns: there is space, or there is *)
(* after the loaded pages of a clean file have been dropped (ftruncate of  *)
(* the open cache file is taken to succeed here).                          *)
(***************************************************************************)
DropPages(e) ==
    [e EXCEPT !.file = Ftruncate(Empty, e.map.size), !.map = MapInit(e.map.size, FALSE)]

Reserved(e) ==
    {e} \cup (IF "space" \in Faults /\ ~ e.is_modify THEN {DropPages(e)} ELSE {})
-----------------------------------------------------------------------------
(***************************************************************************)
(* FdEntity::Load.  The unloaded areas of the range are handled in order.  *)
(* The part of an area below size_orgmeta is downloaded (an object shorter *)
(* than that gives fewer bytes, and an error if it ends before the area),  *)
(* the part above is filled with zeros, and then the area is loaded.       *)
(***************************************************************************)
Todo(e, start, len) ==
    Unloaded(e.map, start, IF len = 0 THEN MaxSize ELSE len)

Fetched(e, o, i) ==
    IF i < e.size_orgmeta
    THEN IF i < o.size THEN o.data[i] ELSE e.file.data[i]
    ELSE Zero

\* Faulty: the failing area is marked loaded as well.
LoadedEarly(e, o, done, part, value) ==
    [e EXCEPT !.file.data = [i \in Offset |-> IF i \in done THEN Fetched(e, o, i)
                                              ELSE IF i \in part THEN value[i]
                                              ELSE e.file.data[i]],
              !.map.loaded = @ \cup done \cup part]

\* The entity after the areas in done were loaded and the bytes in part of the
\* next one were overwritten.
LoadedUpTo(e, o, done, part, value) ==
    [file |-> [data |-> [i \in Offset |-> IF i \in done THEN Fetched(e, o, i)
                                          ELSE IF i \in part THEN value[i]
                                          ELSE e.file.data[i]],
               size |-> e.file.size],
     map |-> [size |-> e.map.size, loaded |-> e.map.loaded \cup done],
     size_orgmeta |-> e.size_orgmeta,
     is_modify |-> e.is_modify /\ \A i \in done : i < e.size_orgmeta]

FirstBytes(todo) == {i \in todo : i - 1 \notin todo}

AreaFrom(todo, first) == {i \in todo : first <= i /\ \A j \in first .. i : j \in todo}

\* An area whose download asks only for bytes the object does not have.
PastObject(e, o, first) == first < e.size_orgmeta /\ o.size <= first

Load(e, o, start, len) ==
    LET todo == Todo(e, start, len)
    IN  IF \E f \in FirstBytes(todo) : PastObject(e, o, f) THEN {}
        ELSE {LoadedUpTo(e, o, todo, {}, e.file.data)}

(***************************************************************************)
(* FdEntity::Load when it returns an error: the areas before the failing   *)
(* one are loaded.  In the failing one some bytes may have been written:   *)
(* a part of the object, or the body of an error response.                 *)
(***************************************************************************)
AreaFails(e, o, area, first) ==
    \/ PastObject(e, o, first)
    \/ "net" \in Faults /\ first < e.size_orgmeta
    \/ "disk" \in Faults /\ \E i \in area : e.size_orgmeta <= i

LoadFails(e, o, start, len) ==
    LET todo == Todo(e, start, len)
    IN  UNION {LET area == AreaFrom(todo, f)
               IN  {LoadedUpTo(e, o, {i \in todo : i < f}, part, body) :
                        part \in SUBSET area,
                        body \in {o.data} \cup {[i \in Offset |-> b] : b \in Byte}} :
                  f \in {g \in FirstBytes(todo) : AreaFails(e, o, AreaFrom(todo, g), g)}}
-----------------------------------------------------------------------------
(***************************************************************************)
(* FdEntity::RowFlush, from the upload on.  GetTotalUnloadedPageSize() of  *)
(* the whole list is 0 (PageList.tla), so nothing is loaded before.        *)
(***************************************************************************)
Uploaded(e) == [e EXCEPT !.size_orgmeta = e.file.size, !.is_modify = FALSE]

\* Faulty: the file is clean although the upload failed.
UploadForgotten(e) == [e EXCEPT !.size_orgmeta = e.file.size, !.is_modify = FALSE]

UploadFailed(e) == [e EXCEPT !.size_orgmeta = e.file.size]

\* What a failing upload leaves: nothing happened, or the request failed and
\* the object is the old or already the new one.
UploadFails(e, o) ==
    IF "net" \in Faults
    THEN {[ent |-> e, obj |-> o],
          [ent |-> UploadFailed(e), obj |-> o],
          [ent |-> UploadFailed(e), obj |-> e.file]}
    ELSE {}

\* The size get_object_attribute reports.
MetaSize == IF statsize = NoStat THEN obj.size ELSE statsize
-----------------------------------------------------------------------------
Init ==
    /\ obj \in Blob
    /\ opened = FALSE
    /\ ent = NewEntity(0, 0)
    /\ statsize = NoStat
    /\ want = obj
    /\ acked = FALSE
    /\ readback = "none"
    /\ broken = FALSE

\* s3fs_open, without O_TRUNC or of an object that is empty.
Open ==
    /\ ~ opened
    /\ opened' = TRUE
    /\ ent' = NewEntity(obj.size, obj.size)
    /\ statsize' = obj.size
    /\ want' = obj /\ acked' = FALSE /\ readback' = "none" /\ broken' = FALSE
    /\ UNCHANGED obj

\* s3fs_open with O_TRUNC: the empty file is uploaded at once.
OpenTrunc ==
    /\ ~ opened /\ obj.size # 0
    /\ opened' = TRUE
    /\ ent' = Uploaded(NewEntity(0, obj.size))
    /\ obj' = Empty
    /\ statsize' = obj.size
    /\ want' = Empty /\ acked' = FALSE /\ readback' = "none" /\ broken' = FALSE

OpenTruncFails ==
    /\ ~ opened /\ obj.size # 0 /\ "net" \in Faults
    /\ obj' \in {obj, Empty}
    /\ want' = obj' /\ acked' = FALSE /\ readback' = "none" /\ broken' = FALSE
    /\ UNCHANGED << opened, ent, statsize >>

\* s3fs_getattr
Getattr ==
    /\ opened
    /\ statsize' = MetaSize
    /\ UNCHANGED << obj, opened, ent, want, acked, readback, broken >>

(***************************************************************************)
(* s3fs_read and FdEntity::Read.                                           *)
(***************************************************************************)
\* Faulty: the offset of the last byte is taken for the size.
LoadSizeShort(e, start, len) == e.map.size - start - 1

LoadSize(e, start, len) ==
    LET ahead == IF len < Prefetch THEN Prefetch ELSE len
    IN  IF start + len < e.map.size
        THEN IF start + ahead < e.map.size THEN ahead ELSE e.map.size - start
        ELSE len

\* pread returned what the acknowledged operations made of the range.
ReadsRight(e, start, len) ==
    /\ Span(0, e.file.size) \cap Span(start, len) = Span(0, want.size) \cap Span(start, len)
    /\ \A i \in Span(start, len) : e.file.data[i] = want.data[i]

Read(start, len) ==
    /\ opened /\ ent.file.size # 0
    /\ IF Unloaded(ent.map, start, len) # {}
       THEN \E e \in Reserved(ent) : ent' \in Load(e, obj, start, LoadSize(e, start, len))
       ELSE ent' = ent
    /\ readback' = IF ReadsRight(ent', start, len) THEN "right" ELSE "wrong"
    /\ UNCHANGED << obj, opened, statsize, want, acked, broken >>

ReadFails(start, len) ==
    /\ opened /\ ent.file.size # 0
    /\ Unloaded(ent.map, start, len) # {}
    /\ \E e \in Reserved(ent) : ent' \in LoadFails(e, obj, start, LoadSize(e, start, len))
    /\ readback' = "none"
    /\ UNCHANGED << obj, opened, statsize, want, acked, broken >>
-----------------------------------------------------------------------------
(***************************************************************************)
(* s3fs_write and FdEntity::Write: grow the file to start, load what is    *)
(* before start, write, and load what is after the written bytes.          *)
(***************************************************************************)
\* Faulty: the page list is not told that the file grew.
GrowFile(e, start) ==
    IF e.map.size < start THEN [e EXCEPT !.file = Ftruncate(@, start)] ELSE e

GrowTo(e, start) ==
    IF e.map.size < start
    THEN [e EXCEPT !.file = Ftruncate(@, start),
                   !.map = MapSet(@, e.map.size, start - e.map.size, FALSE)]
    ELSE e

\* Faulty: what precedes the written bytes is not loaded.
LoadNoneBefore(e, start) == {e}

LoadBefore(e, start) == IF 0 < start THEN Load(e, obj, 0, start) ELSE {e}

Written(e, start, len, value) ==
    [file |-> Pwrite(e.file, start, len, value),
     map |-> IF 0 < len THEN MapSet(e.map, start, len, TRUE) ELSE e.map,
     size_orgmeta |-> e.size_orgmeta,
     is_modify |-> TRUE]

\* Faulty: what follows the written bytes is not loaded.
LoadNoneAfter(e, stop) == {e}

LoadAfter(e, stop) == IF stop < e.map.size THEN Load(e, obj, stop, e.map.size) ELSE {e}

Write(start, len, value) ==
    /\ opened
    /\ \E e \in Reserved(GrowTo(ent, start)) :
         \E f \in LoadBefore(e, start) :
            ent' \in LoadAfter(Written(f, start, len, value), start + len)
    /\ want' = Pwrite(want, start, len, value)
    /\ acked' = TRUE /\ readback' = "none"
    /\ UNCHANGED << obj, opened, statsize, broken >>

\* pwrite wrote only some of the bytes; the caller is told how many.
WriteShort(start, len, written, value) ==
    /\ opened /\ "disk" \in Faults
    /\ \E e \in Reserved(GrowTo(ent, start)) :
         \E f \in LoadBefore(e, start) :
            ent' \in LoadAfter(Written(f, start, written, value), start + len)
    /\ want' = Pwrite(want, start, written, value)
    /\ acked' = TRUE /\ readback' = "none" /\ broken' = TRUE
    /\ UNCHANGED << obj, opened, statsize >>

\* The download before the write failed, or the write did.
WriteFails(start) ==
    /\ opened
    /\ \E e \in Reserved(GrowTo(ent, start)) :
          \/ 0 < start /\ ent' \in LoadFails(e, obj, 0, start)
          \/ "disk" \in Faults /\ ent' \in LoadBefore(e, start)
    /\ broken' = (broken \/ ent.map.size < start)
    /\ readback' = "none"
    /\ UNCHANGED << obj, opened, statsize, want, acked >>

\* The bytes were written, and the download after them failed.
WriteTailFails(start, len, value) ==
    /\ opened
    /\ \E e \in Reserved(GrowTo(ent, start)) :
         \E f \in LoadBefore(e, start) :
            LET g == Written(f, start, len, value)
            IN  /\ start + len < g.map.size
                /\ ent' \in LoadFails(g, obj, start + len, g.map.size)
    /\ want' = Pwrite(want, start, len, value)
    /\ readback' = "none" /\ broken' = TRUE
    /\ UNCHANGED << obj, opened, statsize, acked >>
-----------------------------------------------------------------------------
(***************************************************************************)
(* s3fs_flush: the attributes are looked up, and so cached, first.         *)
(***************************************************************************)
Flush ==
    /\ opened
    /\ statsize' = MetaSize
    /\ IF ent.is_modify
       THEN ent' = Uploaded(ent) /\ obj' = ent.file
       ELSE UNCHANGED << ent, obj >>
    /\ acked' = FALSE /\ readback' = "none"
    /\ UNCHANGED << opened, want, broken >>

FlushFails ==
    /\ opened /\ ent.is_modify
    /\ statsize' = MetaSize
    /\ \E r \in UploadFails(ent, obj) : ent' = r.ent /\ obj' = r.obj
    /\ readback' = "none"
    /\ UNCHANGED << opened, want, acked, broken >>

(***************************************************************************)
(* s3fs_truncate: resize the open entity, load the rest, upload.           *)
(***************************************************************************)
Truncate(size) ==
    /\ opened
    /\ \E e \in Load(Reopen(ent, size, MetaSize), obj, 0, size) :
          ent' = Uploaded(e) /\ obj' = e.file
    /\ statsize' = NoStat
    /\ want' = Ftruncate(want, size)
    /\ acked' = FALSE /\ readback' = "none"
    /\ UNCHANGED << opened, broken >>

TruncateFails(size) ==
    /\ opened
    /\ LET r == Reopen(ent, size, MetaSize)
       IN  \/ ent' \in LoadFails(r, obj, 0, size) /\ UNCHANGED obj
           \/ \E e \in Load(r, obj, 0, size) :
                 \E u \in UploadFails(e, obj) : ent' = u.ent /\ obj' = u.obj
    /\ statsize' = MetaSize
    /\ want' = Ftruncate(want, size)
    /\ readback' = "none" /\ broken' = TRUE
    /\ UNCHANGED << opened, acked >>
-----------------------------------------------------------------------------
\* The process ends: S3Io::close flushed and returned 0, it returned an error
\* and what was not uploaded is given up, or the process was killed (or its
\* close failed before the upload).  A flush, truncate or getattr that fails
\* in its attribute lookup changes nothing.
Gone == /\ opened' = FALSE
        /\ ent' = NewEntity(0, 0) /\ statsize' = NoStat
        /\ acked' = FALSE /\ readback' = "none"

Close ==
    /\ opened
    /\ obj' = IF ent.is_modify THEN ent.file ELSE obj
    /\ UNCHANGED << want, broken >>
    /\ Gone

CloseFails ==
    /\ opened /\ ent.is_modify
    /\ \E r \in UploadFails(ent, obj) : obj' = r.obj
    /\ want' = obj' /\ broken' = FALSE
    /\ Gone

Killed ==
    /\ opened
    /\ want' = obj /\ broken' = FALSE
    /\ UNCHANGED obj
    /\ Gone

Next ==
    \/ Open \/ OpenTrunc \/ OpenTruncFails \/ Getattr
    \/ \E start, len \in Size :
          /\ start + len <= MaxSize
          /\ \/ Read(start, len) \/ ReadFails(start, len)
             \/ \E value \in Byte :
                   \/ Write(start, len, value)
                   \/ WriteTailFails(start, len, value)
                   \/ \E written \in 1 .. (len - 1) : WriteShort(start, len, written, value)
    \/ \E start \in Size : WriteFails(start)
    \/ Flush \/ FlushFails
    \/ \E size \in Size : Truncate(size) \/ TruncateFails(size)
    \/ Close \/ CloseFails \/ Killed

Spec == Init /\ [][Next]_vars
-----------------------------------------------------------------------------
\* The type invariant.
TypeOK ==
    /\ obj \in Blob /\ want \in Blob
    /\ ent \in Entity
    /\ statsize \in Size \cup {NoStat}
    /\ opened \in BOOLEAN /\ acked \in BOOLEAN /\ broken \in BOOLEAN
    /\ readback \in {"none", "right", "wrong"}

(***************************************************************************)
(* The page list and the cache file always have the same size, whatever    *)
(* fails: Read, Write and RowFlush use the one where the other is meant.   *)
(***************************************************************************)
SizesAgree == ent.map.size = ent.file.size

(***************************************************************************)
(* Until a write or a truncate fails half way, the entity is the file the  *)
(* caller made: a loaded byte is in the cache file, and a byte that is not *)
(* loaded is still on S3 and below size_orgmeta, so that Load will fetch it. *)
(***************************************************************************)
Coherent ==
    opened /\ ~ broken =>
        /\ ent.map.size = want.size
        /\ \A i \in ent.map.loaded : ent.file.data[i] = want.data[i]
        /\ \A i \in Span(0, ent.map.size) \ ent.map.loaded :
              /\ i < ent.size_orgmeta /\ i < obj.size
              /\ obj.data[i] = want.data[i]

(***************************************************************************)
(* A dirty file is completely loaded.  This is why RowFlush may upload the *)
(* cache file although it never finds anything to load first.              *)
(***************************************************************************)
DirtyIsComplete == opened /\ ~ broken /\ ent.is_modify => Complete(ent.map)

(***************************************************************************)
(* The dirty flag is right: when RowFlush has nothing to upload, or after  *)
(* a close that returned 0, the object on S3 is what the caller wrote.     *)
(***************************************************************************)
CleanIsDurable ==
    /\ opened /\ ~ broken /\ ~ ent.is_modify => obj = want
    /\ ~ opened /\ ~ broken => obj = want

(***************************************************************************)
(* A read that succeeds returns the bytes of the acknowledged writes and   *)
(* truncates, no matter what was prefetched, dropped for lack of space or  *)
(* left by failed downloads before.                                        *)
(***************************************************************************)
ReadsBack == ~ broken => readback # "wrong"

(***************************************************************************)
(* The object on S3 is only ever replaced by the whole current content,    *)
(* even by an upload that reports an error.                                *)
(***************************************************************************)
UploadsAreWhole == [][obj' # obj /\ ~ broken' => obj' = want']_vars

(***************************************************************************)
(* fdcache.h says of is_modify "if file is changed, this flag is true": as *)
(* long as an acknowledged write is not on S3, the flag is set, so that a  *)
(* later flush or close uploads it.                                        *)
(***************************************************************************)
ChangedIsModify == opened /\ acked => ent.is_modify
=============================================================================
