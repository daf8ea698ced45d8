--------------------------- MODULE NoCacheUpload ---------------------------
(***************************************************************************)
(* The multipart mode of class FdEntity (src/src/protocols/s3/fdcache.cpp) *)
(* for a file that does not fit on the disk: NoCacheLoadAndPost and its    *)
(* helpers, with the parts of Write, Read and RowFlush that lead to them.  *)
(* A write that cannot reserve space begins a multipart upload, posts what *)
(* is before it, and from then on the cache file holds only what the next  *)
(* part is made of.  The upload is completed by a flush.                   *)
(*                                                                         *)
(* The cleanup of the cache directory that comes before has returned:      *)
(* another process has deleted the own cache file (see FdManager.tla).     *)
(* Calls that can fail return a set of outcomes, each an entity and        *)
(* whether the call succeeded.                                             *)
(***************************************************************************)
EXTENDS PageMapOps, SequencesExt

CONSTANTS
    Bytes,                  \* values of bytes: of the object and of writes
    Zero,                   \* what ftruncate and FillFile write
    MultipartSize,          \* S3fsCurl::GetMultipartSize()
    MinPart,                \* MIN_MULTIPART_SIZE, which the service insists on
    MaxParts,               \* bound on the parts of an upload
    Faults                  \* lack of space ("space"), failing requests ("net")

ASSUME NoCacheSizes ==
    MinPart \in Nat \ {0} /\ MultipartSize \in Nat /\ MinPart <= MultipartSize /\ MaxParts \in Nat
ASSUME NoCacheFaults == Zero \in Bytes /\ Faults \subseteq {"space", "net"}

VARIABLES
    object,                 \* the object on S3
    ent,                    \* the FdEntity
    want,                   \* what the acknowledged writes made of the file
    history                 \* "last": the mode has ended or its flush has failed
                            \* "bent": more than appending to the file was done in it

vars == << object, ent, want, history >>

\* Files are sequences of bytes; an area may be short.
Area(file, start, stop) == SubSeq(file, start + 1, IF Len(file) < stop THEN Len(file) ELSE stop)

Ftruncate(file, size) == [i \in 1 .. size |-> IF i <= Len(file) THEN file[i] ELSE Zero]

Pwrite(file, start, bytes) ==
    LET size == IF Len(file) < start + Len(bytes) THEN start + Len(bytes) ELSE Len(file)
    IN  [i \in 1 .. size |-> IF start < i /\ i <= start + Len(bytes) THEN bytes[i - start]
                             ELSE IF i <= Len(file) THEN file[i] ELSE Zero]

\* FdEntity::Open.  etaglist holds, for every part, what was posted and whether its ETag came.
NewEntity(size) ==
    [file |-> Ftruncate(<<>>, size), map |-> MapInit(size, FALSE),
     size_orgmeta |-> size, is_modify |-> FALSE,
     upload_id |-> FALSE, etaglist |-> <<>>, mp_start |-> 0, mp_size |-> 0]

Init ==
    /\ object \in {[i \in 1 .. n |-> b] : n \in Size \cap 0 .. 3, b \in Bytes \ {Zero}}
    /\ ent = NewEntity(Len(object)) /\ want = object /\ history = "straight"
-----------------------------------------------------------------------------
Ok(e) == [ent |-> e, ok |-> TRUE]
Error(e) == [ent |-> e, ok |-> FALSE]
Fails(outcomes) == IF "net" \in Faults THEN outcomes ELSE {}

\* Where a call has succeeded the next one is made.
Then(outcomes, call(_)) == UNION {IF o.ok THEN call(o.ent) ELSE {o} : o \in outcomes}

\* What Load puts at offset i.
Fetched(e, i) == IF i < e.size_orgmeta /\ i < Len(object) THEN object[i + 1] ELSE Zero

\* Zeros above the size of the object clear is_modify.
Clean(e, filled) == [e EXCEPT !.is_modify = @ /\ \A i \in filled : i < e.size_orgmeta]

\* The unloaded bytes in the set get their values; the file becomes as long as needed.
Loaded(e, bytes) ==
    LET stop == IF bytes = {} THEN 0 ELSE Max(bytes) + 1
        size == IF Len(e.file) < stop THEN stop ELSE Len(e.file)
    IN  Clean([e EXCEPT !.map.loaded = @ \cup bytes,
                        !.file = [i \in 1 .. size |-> IF i - 1 \in bytes THEN Fetched(e, i - 1)
                                                      ELSE Ftruncate(e.file, size)[i]]], bytes)

\* Areas are loaded in order, up to one whose download fails.
Load(e, start, len) ==
    LET todo == Unloaded(e.map, start, len)
    IN  {Ok(Loaded(e, todo))} \cup
        Fails({Error(Loaded(e, {i \in todo : i < f})) : f \in {i \in todo : i - 1 \notin todo}})

DropPages(e) ==
    [e EXCEPT !.map = MapInit(e.map.size, FALSE), !.file = Ftruncate(<<>>, e.map.size)]

\* There is space at once, or when the pages of a clean file are dropped.
Reserved(e) == {e} \cup (IF "space" \in Faults /\ ~e.is_modify THEN {DropPages(e)} ELSE {})

\* There is none although they are dropped.
NotReserved(e) ==
    IF "space" \notin Faults THEN {} ELSE {IF e.is_modify THEN e ELSE DropPages(e)}
-----------------------------------------------------------------------------
(***************************************************************************)
(* The multipart upload.                                                   *)
(***************************************************************************)
NoCachePreMultipartPost(e) ==
    {Ok([e EXCEPT !.upload_id = TRUE, !.etaglist = <<>>])} \cup Fails({Error([e EXCEPT !.etaglist = <<>>])})

\* A part is in the list before it is sent, and stays there if that fails,
\* as it does when there are fewer bytes than its size says.
NoCacheMultipartPost(e, body, size) ==
    LET sent == {Ok([e EXCEPT !.etaglist = Append(@, [body |-> body, etag |-> TRUE])])}
        unsent == {Error([e EXCEPT !.etaglist = Append(@, [body |-> body, etag |-> FALSE])])}
    IN  IF Len(body) < size THEN unsent ELSE sent \cup Fails(unsent)

\* The pages of the list: runs of bytes with the same flag.
PageStarts(m) == {i \in Span(0, m.size) : i = 0 \/ (i \in m.loaded) # (i - 1 \in m.loaded)}
PageEnd(m, at) == Min({i \in PageStarts(m) \cup {m.size} : at < i})

\* A page is cut into parts; a rest that is too small goes with the last one.
PartEnd(m, at) ==
    IF PageEnd(m, at) - (at + MultipartSize) < MinPart THEN PageEnd(m, at) ELSE at + MultipartSize

\* Faulty: the flag of the page is not looked at.
PostPartFromObject(e, m, at) ==
    LET stop == PartEnd(m, at)
        get == {Ok(Clean(e, at .. stop - 1))} \cup Fails({Error(e)})
    IN  Then(get, LAMBDA f :
            NoCacheMultipartPost(f, [i \in 1 .. stop - at |-> Fetched(f, at + i - 1)], stop - at))

\* A loaded part comes from the cache file, another one from the object
\* through a temporary file.
PostPart(e, m, at) ==
    LET stop == PartEnd(m, at)
        get == {Ok(Clean(e, at .. stop - 1))} \cup Fails({Error(e)})
    IN  IF at \in m.loaded THEN NoCacheMultipartPost(e, Area(e.file, at, stop), stop - at)
        ELSE Then(get, LAMBDA f :
                NoCacheMultipartPost(f, [i \in 1 .. stop - at |-> Fetched(f, at + i - 1)], stop - at))

\* A page that has been posted counts as loaded, up to size (all of it if size
\* is 0), like those before it.
SetLoaded(m, at, size, e) ==
    IF PartEnd(m, at) < PageEnd(m, at) THEN e
    ELSE [e EXCEPT !.map.loaded = @ \cup {i \in Span(0, PageEnd(m, at)) : size = 0 \/ i < size}]

\* The loop ends before the first page that begins at size or after it.
Over(m, at, size) == at = m.size \/ (at \in PageStarts(m) /\ size # 0 /\ size <= at)

Round(m, size, round) ==
    IF Over(m, round.at, size) THEN round
    ELSE [at |-> PartEnd(m, round.at),
          outcomes |-> Then(Then(round.outcomes, LAMBDA f : PostPart(f, m, round.at)),
                            LAMBDA f : {Ok(SetLoaded(m, round.at, size, f))})]

\* NoCacheLoadAndPost(0, size).  The parts of m are posted one after the other.
NoCacheLoadAndPost(e, size) ==
    LET m == e.map
        round[n \in 0 .. m.size] == IF n = 0 THEN [at |-> 0, outcomes |-> {Ok(e)}]
                                    ELSE Round(m, size, round[n - 1])
    IN  Then(round[m.size].outcomes, LAMBDA f : {Ok([f EXCEPT !.file = <<>>])})

\* Without a part, or with one that has no ETag, nothing is sent.
Complete(e) == e.etaglist # <<>> /\ \A i \in DOMAIN e.etaglist : e.etaglist[i].etag

Bodies(list) == FlattenSeq([i \in DOMAIN list |-> list[i].body])

\* What the service insists on: only the last part may be small.
Acceptable(e) == \A i \in 1 .. Len(e.etaglist) - 1 : Len(e.etaglist[i].body) >= MinPart

\* With the reset and the truncation that follow in RowFlush.  A lost answer
\* leaves the object made and the upload open.
NoCacheCompleteMultipartPost(e) ==
    \/ /\ Complete(e) /\ Acceptable(e) /\ Len(Bodies(e.etaglist)) <= MaxSize
       /\ object' = Bodies(e.etaglist)
       /\ ent' = [e EXCEPT !.upload_id = FALSE, !.etaglist = <<>>, !.mp_start = 0, !.mp_size = 0,
                           !.file = <<>>, !.is_modify = FALSE]
    \/ /\ ~Complete(e) \/ ~Acceptable(e)
       /\ ent' = e /\ UNCHANGED object
    \/ /\ "net" \in Faults /\ Complete(e) /\ Acceptable(e) /\ Len(Bodies(e.etaglist)) <= MaxSize
       /\ ent' = e /\ object' \in {object, Bodies(e.etaglist)}
-----------------------------------------------------------------------------
(***************************************************************************)
(* FdEntity::Write.                                                        *)
(***************************************************************************)
GrowTo(e, start) ==
    IF e.map.size < start
    THEN [e EXCEPT !.file = Ftruncate(@, start), !.map = MapSet(@, e.map.size, start - e.map.size, FALSE)]
    ELSE e

LoadBefore(e, start) == IF 0 < start THEN Load(e, 0, start) ELSE {Ok(e)}

\* Without space the upload begins with all that is before the write.
BeginUpload(e, start) ==
    Then(Then(NoCachePreMultipartPost(e), LAMBDA f : NoCacheLoadAndPost(f, start)),
         LAMBDA f : {Ok([f EXCEPT !.mp_start = start, !.mp_size = 0])})

Prepare(e, start) ==
    IF e.upload_id THEN {Ok(e)}
    ELSE (UNION {LoadBefore(f, start) : f \in Reserved(e)})
         \cup (UNION {BeginUpload(f, start) : f \in NotReserved(e)})

Written(e, start, bytes) ==
    [e EXCEPT !.file = Pwrite(@, start, bytes), !.is_modify = TRUE, !.map = MapSet(@, start, Len(bytes), TRUE)]

LoadAfter(e, stop) == IF stop < e.map.size THEN Load(e, stop, e.map.size) ELSE {Ok(e)}

\* Faulty: the bytes that were posted still count.
PostWrittenKept(e, len) ==
    LET f == [e EXCEPT !.mp_size = @ + len]
        stop == f.mp_start + f.mp_size
    IN  IF ~e.upload_id THEN {Ok(e)}
        ELSE IF f.mp_size < MultipartSize THEN {Ok(f)}
        ELSE Then(NoCacheMultipartPost(f, Area(f.file, f.mp_start, stop), f.mp_size), LAMBDA g :
                {Ok([g EXCEPT !.file = Ftruncate(<<>>, stop), !.mp_start = stop])})

\* When the written bytes are enough for a part it is posted.
PostWritten(e, len) ==
    LET f == [e EXCEPT !.mp_size = @ + len]
        stop == f.mp_start + f.mp_size
    IN  IF ~e.upload_id THEN {Ok(e)}
        ELSE IF f.mp_size < MultipartSize THEN {Ok(f)}
        ELSE Then(NoCacheMultipartPost(f, Area(f.file, f.mp_start, stop), f.mp_size), LAMBDA g :
                {Ok([g EXCEPT !.file = Ftruncate(<<>>, stop), !.mp_start = stop, !.mp_size = 0])})

Write(start, bytes) ==
    /\ Len(ent.etaglist) < MaxParts
    /\ \E o \in Then(Then(Prepare(GrowTo(ent, start), start), LAMBDA e :
                       LoadAfter(Written(e, start, bytes), start + Len(bytes))), LAMBDA e :
                         PostWritten(e, Len(bytes))) :
          /\ ent' = o.ent
          /\ want' = IF o.ok THEN Pwrite(want, start, bytes) ELSE want
          /\ history' = IF /\ o.ok /\ history = "straight"
                           /\ o.ent.upload_id => start >= ent.map.size
                           /\ ent.upload_id => start = ent.map.size
                        THEN "straight" ELSE "bent"
    /\ UNCHANGED object

\* FdEntity::Read, as far as it loads: all that follows, which the prefetch
\* size allows, or what is asked for if there is no space for more.
Read(start, len) ==
    /\ Unloaded(ent.map, start, len) # {}
    /\ \/ \E e \in Reserved(ent), size \in {ent.map.size - start} \cup (IF "space" \in Faults THEN {len} ELSE {}) :
             \E o \in Load(e, start, size) : ent' = o.ent
       \/ ent' \in NotReserved(ent)
    /\ UNCHANGED << object, want, history >>

(***************************************************************************)
(* FdEntity::RowFlush.                                                     *)
(***************************************************************************)
PutRequest ==
    /\ ~ent.upload_id
    /\ \/ object' = ent.file /\ ent' = [ent EXCEPT !.size_orgmeta = Len(ent.file), !.is_modify = FALSE]
       \/ /\ "net" \in Faults
          /\ object' \in {object, ent.file}
          /\ ent' = [ent EXCEPT !.size_orgmeta = Len(ent.file)]
    /\ UNCHANGED history

PostRest(e) ==
    IF e.mp_size = 0 THEN {Ok(e)}
    ELSE Then(NoCacheMultipartPost(e, Area(e.file, e.mp_start, e.mp_start + e.mp_size), e.mp_size),
              LAMBDA f : {Ok([f EXCEPT !.mp_start = 0, !.mp_size = 0])})

CompleteUpload ==
    /\ ent.upload_id /\ Len(ent.etaglist) < MaxParts
    /\ \E o \in PostRest(ent) :
          \/ o.ok /\ NoCacheCompleteMultipartPost(o.ent)
          \/ ~o.ok /\ ent' = o.ent /\ UNCHANGED object
    /\ history' = IF history = "straight" THEN "last" ELSE history

Flush == ent.is_modify /\ (PutRequest \/ CompleteUpload) /\ UNCHANGED want

\* FdEntity::Close gives up what is not saved; the file is opened again.
Close ==
    /\ ent # NewEntity(Len(object))
    /\ ent' = NewEntity(Len(object)) /\ want' = object /\ history' = "straight"
    /\ UNCHANGED object

Next ==
    \/ \E start \in Size, len \in 1 .. 2, b \in Bytes \ {Zero} :
          start + len <= MaxSize /\ Write(start, [i \in 1 .. len |-> b])
    \/ \E start \in Offset, len \in 1 .. 2 : Read(start, len)
    \/ Flush
    \/ Close

Spec == Init /\ [][Next]_vars
-----------------------------------------------------------------------------
(***************************************************************************)
(* Properties.                                                             *)
(***************************************************************************)
\* The state has its type.  As long as the mode is only used to append, the
\* cache file is no longer than the file and no part begins after its end; in
\* the straight use no part is empty and less than a part waits to be posted.
TypeOK ==
    /\ object \in Seq(Bytes) /\ Len(object) <= MaxSize
    /\ want \in Seq(Bytes) /\ Len(want) <= MaxSize
    /\ ent.map \in PageMaps /\ ent.file \in Seq(Bytes)
    /\ ent.size_orgmeta \in Size /\ ent.is_modify \in BOOLEAN /\ ent.upload_id \in BOOLEAN
    /\ ent.mp_start \in Nat /\ ent.mp_size \in Nat
    /\ history \in {"straight", "last", "bent"}
    /\ history # "bent" => Len(ent.file) <= ent.map.size /\ ent.mp_start <= ent.map.size
    /\ history = "straight" => /\ ent.mp_size < MultipartSize
                               /\ \A i \in DOMAIN ent.etaglist : ent.etaglist[i].body # <<>>

\* A file that counts as saved is on S3, whenever the disk runs full between
\* writes, as long as the mode is used to append and ends with a flush: the
\* bytes before the first such write, loaded or not, and all later ones are
\* posted once and in order.
SavedIsFile == history # "bent" /\ ~ent.is_modify => object = want
=============================================================================
