-------------------------- MODULE TransferProofs --------------------------
(***************************************************************************)
(* Proofs about Transfer, for every number of parts, units, threads,       *)
(* handles and retries, and for every set of faults: the threads of        *)
(* MultiPerform stay inside it, every curl handle is accounted for, and    *)
(* the requests do to the object what ObjectStore promises.                *)
(***************************************************************************)
EXTENDS Transfer, TLAPS, FiniteSetTheorems, SequenceTheorems

(***************************************************************************)
(* The inductive invariant.                                                *)
(***************************************************************************)
Rounds == {"MultiPerform", "drain"}
Alive(s) == s \in {"setup", "perform", "post"}
Living == {p \in Part : Alive(thread[p])}
Performing == {p \in Part : thread[p] = "perform"}

\* The function the main thread is in belongs to the operation that runs,
\* and only a single request has a handle.
Control ==
    /\ op = "idle" <=> pc = "idle"
    /\ pc = "PutRequest" => op = "put"
    /\ pc = "DeleteRequest" => op = "delete"
    /\ pc = "GetObjectRequest" => op = "get"
    /\ pc \in {"PreMultipartPostRequest", "ParallelMultipartUploadRequest",
               "CompleteMultipartPostRequest", "AbortMultipartUpload"} => op = "upload"
    /\ pc = "PreGetObjectRequest" => op = "download"
    /\ pc \in Rounds \cup {"MultiRead", "Clear"} => op \in {"upload", "download"}
    /\ handle => pc \in Requests

\* What is written is what was asked for: there is no "partial" object, for
\* the upload is completed with every part or not at all.  A single download
\* starts at the first byte and is tried once.
Promise ==
    /\ object \in Contents \cup {Gone}
    /\ op = "delete" => want = Gone
    /\ pc = "CompleteMultipartPostRequest" => list = Part
    /\ pc = "GetObjectRequest" => part[1].startpos = 0

\* No part is in a list twice, and what has to be repeated was read.
NoneTwice(s) == \A i, j \in DOMAIN s : s[i] = s[j] => i = j
Lists ==
    /\ NoneTwice(clist_req) /\ NoneTwice(clist_all)
    /\ pc \in {"MultiPerform", "MultiRead"} => it <= Len(clist_req) + 1
    /\ pc # "drain" => it <= Parts + 1
    /\ pc = "MultiRead" =>
          /\ Len(clist_all) < it
          /\ \A i \in DOMAIN clist_all : \E j \in DOMAIN clist_req : j < it /\ clist_req[j] = clist_all[i]
    /\ pc \in Rounds => clist_all = <<>> /\ freed = {}

\* A thread is one of a request the loop has come to, and waits in
\* completed_tids once it is done.
Threads ==
    /\ completed_tids = {p \in Part : thread[p] = "done"}
    /\ \A p \in Part : thread[p] # "none" =>
          /\ pc \in Rounds
          /\ \E i \in DOMAIN clist_req : clist_req[i] = p /\ (pc = "MultiPerform" => i < it)

\* Every permit of the semaphore is free, with a thread that has not posted,
\* taken by the last loop, or lost with a thread that was not created.
Permits ==
    /\ pc \in Rounds =>
          sem + Cardinality(Living) + (IF pc = "drain" THEN it - 1 ELSE 0) + (IF success THEN 0 ELSE 1)
             = MaxParallel
    /\ pc = "MultiPerform" => success

Handles == live = pool + InUse /\ live <= MaxHandlers

Inv == TypeOK /\ Control /\ Promise /\ Lists /\ Threads /\ Permits /\ Handles
-----------------------------------------------------------------------------
(***************************************************************************)
(* Facts about the parameters, the lists and the sets of threads.          *)
(***************************************************************************)
LEMMA Sizes ==
    /\ Parts \in Nat /\ PartSize \in Nat /\ MaxParallel \in Nat /\ MaxHandlers \in Nat /\ Retries \in Nat
    /\ Parts > 0 /\ PartSize > 0 /\ MaxParallel > 0 /\ Retries > 0 /\ MaxParallel <= MaxHandlers
  BY SizesAssumption

\* Any set of parts can be counted.
LEMMA PartsFinite ==
    ASSUME NEW S \in SUBSET Part
    PROVE  IsFiniteSet(S) /\ Cardinality(S) \in Nat
  <1>1. IsFiniteSet(Part)
    BY Sizes, FS_Interval DEF Part
  <1> QED BY <1>1, FS_Subset, FS_CardinalityType

\* The lists of S3fsMultiCurl, as TypeOK has them, are sequences of parts.
List == UNION {[1 .. n -> Part] : n \in 0 .. Parts}

LEMMA ListIsSeq ==
    ASSUME NEW s
    PROVE  s \in List <=> s \in Seq(Part) /\ Len(s) <= Parts
  <1>1. ASSUME s \in List PROVE s \in Seq(Part) /\ Len(s) <= Parts
    <2>1. PICK n \in 0 .. Parts : s \in [1 .. n -> Part]
      BY <1>1 DEF List
    <2>2. n \in Nat
      BY Sizes
    <2>3. s \in Seq(Part)
      BY <2>1, <2>2, SeqDef
    <2>4. Len(s) = n
      BY <2>1, <2>2, <2>3, LenProperties
    <2> QED BY <2>3, <2>4, Sizes
  <1>2. ASSUME s \in Seq(Part), Len(s) <= Parts PROVE s \in List
    <2>1. s \in [1 .. Len(s) -> Part] /\ Len(s) \in Nat
      BY <1>2, LenProperties
    <2>2. Len(s) \in 0 .. Parts
      BY <1>2, <2>1, Sizes
    <2> QED BY <2>1, <2>2 DEF List
  <1> QED BY <1>1, <1>2

LEMMA ListFacts ==
    ASSUME NEW s \in List
    PROVE  /\ s \in Seq(Part) /\ Len(s) \in Nat /\ Len(s) <= Parts /\ DOMAIN s = 1 .. Len(s)
           /\ \A i \in 1 .. Len(s) : s[i] \in Part
  <1>1. s \in Seq(Part) /\ Len(s) <= Parts
    BY ListIsSeq
  <1> QED BY <1>1, LenProperties

\* The requests of a download are the next parts, at most MaxParallel.
LEMMA BatchFacts ==
    ASSUME NEW rest \in 1 .. Parts
    PROVE  /\ Batch(rest) \in List /\ NoneTwice(Batch(rest))
           /\ Len(Batch(rest)) \in 1 .. rest
  <1> DEFINE n == IF rest < MaxParallel THEN rest ELSE MaxParallel
             b == [i \in 1 .. n |-> Parts - rest + i]
  <1>1. n \in Nat /\ n \in 1 .. rest /\ n \in 0 .. Parts
    BY Sizes
  <1> HIDE DEF n
  <1>2. b \in [1 .. n -> Part]
    BY <1>1, Sizes DEF Part
  <1>3. b \in List
    BY <1>1, <1>2 DEF List
  <1>4. Len(b) = n
    BY <1>1, <1>2, <1>3, ListFacts, LenProperties
  <1>5. NoneTwice(b)
    BY <1>1, Sizes DEF NoneTwice
  <1> QED BY <1>1, <1>3, <1>4, <1>5 DEF Batch, n

\* The first round of an upload has every part.
LEMMA AllPartsFacts ==
    LET s == [p \in Part |-> p] IN s \in List /\ NoneTwice(s)
  <1> DEFINE s == [p \in Part |-> p]
  <1>1. s \in [1 .. Parts -> Part] /\ Parts \in 0 .. Parts
    BY Sizes DEF Part
  <1>2. s \in List
    BY <1>1 DEF List
  <1>3. NoneTwice(s)
    BY DEF NoneTwice
  <1> QED BY <1>2, <1>3

LEMMA EmptyList == <<>> \in List /\ Len(<<>>) = 0 /\ NoneTwice(<<>>)
  <1>1. <<>> \in Seq(Part) /\ Len(<<>>) = 0
    BY EmptySeq
  <1>2. \A i \in DOMAIN <<>> : FALSE
    OBVIOUS
  <1>3. <<>> \in List
    <2>1. 0 <= Parts
      BY Sizes
    <2> QED BY <1>1, <2>1, ListIsSeq, Zenon
  <1>4. NoneTwice(<<>>)
    BY <1>2, Zenon DEF NoneTwice
  <1> QED BY <1>1, <1>3, <1>4

\* A thread that goes from one state to another.
LEMMA ThreadMoves ==
    ASSUME NEW p \in Part, \A q \in Part : q # p => thread'[q] = thread[q]
    PROVE  /\ Cardinality(Living') = Cardinality(Living)
                + (IF Alive(thread'[p]) THEN 1 ELSE 0) - (IF Alive(thread[p]) THEN 1 ELSE 0)
           /\ Cardinality(Living) \in Nat /\ (Alive(thread[p]) => Cardinality(Living) >= 1)
  <1>1. Living' = IF Alive(thread'[p]) THEN Living \cup {p} ELSE Living \ {p}
    BY DEF Living
  <1>2. IsFiniteSet(Living) /\ Cardinality(Living) \in Nat
    BY PartsFinite DEF Living
  <1>3. p \in Living <=> Alive(thread[p])
    BY DEF Living
  <1>4. Cardinality(Living \cup {p}) = IF p \in Living THEN Cardinality(Living) ELSE Cardinality(Living) + 1
    BY <1>2, FS_AddElement
  <1>5. Cardinality(Living \ {p}) = IF p \in Living THEN Cardinality(Living) - 1 ELSE Cardinality(Living)
    BY <1>2, FS_RemoveElement
  <1>6. p \in Living => Cardinality(Living) # 0
    BY <1>2, FS_EmptySet
  <1> QED BY <1>1, <1>2, <1>3, <1>4, <1>5, <1>6

LEMMA PerformingMoves ==
    ASSUME NEW p \in Part, \A q \in Part : q # p => thread'[q] = thread[q]
    PROVE  /\ Cardinality(Performing') = Cardinality(Performing)
                + (IF thread'[p] = "perform" THEN 1 ELSE 0) - (IF thread[p] = "perform" THEN 1 ELSE 0)
           /\ Cardinality(Performing) \in Nat
           /\ thread[p] = "perform" => Cardinality(Performing) >= 1
  <1>1. Performing' = IF thread'[p] = "perform" THEN Performing \cup {p} ELSE Performing \ {p}
    BY DEF Performing
  <1>2. IsFiniteSet(Performing) /\ Cardinality(Performing) \in Nat
    BY PartsFinite DEF Performing
  <1>3. p \in Performing <=> thread[p] = "perform"
    BY DEF Performing
  <1>4. Cardinality(Performing \cup {p})
           = IF p \in Performing THEN Cardinality(Performing) ELSE Cardinality(Performing) + 1
    BY <1>2, FS_AddElement
  <1>5. Cardinality(Performing \ {p})
           = IF p \in Performing THEN Cardinality(Performing) - 1 ELSE Cardinality(Performing)
    BY <1>2, FS_RemoveElement
  <1>6. p \in Performing => Cardinality(Performing) # 0
    BY <1>2, FS_EmptySet
  <1> QED BY <1>1, <1>2, <1>3, <1>4, <1>5, <1>6

-----------------------------------------------------------------------------
(***************************************************************************)
(* The control.                                                            *)
(***************************************************************************)
LEMMA ControlStep == ASSUME Inv, Next PROVE Control'
  <1> USE DEF Inv, Control, Requests, Rounds, main, handles, Go, Return, Finish, DestroyCurlHandle
  <1>1. CASE Begin
    BY <1>1 DEF Begin, Entry, TypeOK
  <1>2. CASE CreateCurlHandle
    BY <1>2 DEF CreateCurlHandle, TypeOK
  <1>3. CASE PutRequest \/ DeleteRequest
    BY <1>3 DEF PutRequest, DeleteRequest, Request, RequestPerform, TypeOK
  <1>4. CASE GetObjectRequest
    BY <1>4 DEF GetObjectRequest, Request, RequestPerform, TypeOK
  <1>5. CASE PreMultipartPostRequest
    BY <1>5 DEF PreMultipartPostRequest, Request, RequestPerform, TypeOK
  <1>6. CASE CompleteMultipartPostRequest
    BY <1>6 DEF CompleteMultipartPostRequest, Request, RequestPerform, TypeOK
  <1>7. CASE AbortMultipartUpload
    BY <1>7 DEF AbortMultipartUpload, Request, RequestPerform, TypeOK
  <1>8. CASE ParallelMultipartUploadRequest
    BY <1>8 DEF ParallelMultipartUploadRequest
  <1>12. CASE PreGetObjectRequest
    BY <1>12 DEF PreGetObjectRequest
  <1>13. CASE RequestReturns
    BY <1>13 DEF RequestReturns
  <1>9. CASE MultiPerform \/ AllCreated \/ Drain \/ JoinRest
    BY <1>9 DEF MultiPerform, AllCreated, Drain, JoinRest
  <1>10. CASE MultiReadSettled \/ MultiReadRetry \/ MultiReadFails \/ Clear
    BY <1>10 DEF MultiReadSettled, MultiReadRetry, MultiReadFails, Clear, Read
  <1>11. ASSUME NEW p \in Part, RequestPerformWrapper(p) PROVE Control'
    BY <1>11 DEF RequestPerformWrapper, LazySetup, Perform, Post
  <1> QED
    BY <1>1, <1>2, <1>3, <1>4, <1>5, <1>6, <1>7, <1>8, <1>12, <1>13, <1>9, <1>10, <1>11 DEF Next, MainThread

-----------------------------------------------------------------------------
(***************************************************************************)
(* The lists of S3fsMultiCurl.                                             *)
(***************************************************************************)
LEMMA ListTypes ==
    ASSUME TypeOK
    PROVE  clist_all \in List /\ clist_req \in List /\ it \in Nat /\ it >= 1
  BY Sizes DEF TypeOK, List

\* A request that is repeated is not in the list yet.
LEMMA RetryList ==
    ASSUME Inv, NEW p \in Part, Read(p), clist_all' = Append(clist_all, p), it' = it + 1,
           clist_req' = clist_req, pc' = pc
    PROVE  /\ clist_all' \in List /\ NoneTwice(clist_all') /\ Len(clist_all') < it'
           /\ \A i \in DOMAIN clist_all' : \E j \in DOMAIN clist_req' : j < it' /\ clist_req'[j] = clist_all'[i]
  <1>1. /\ clist_all \in Seq(Part) /\ Len(clist_all) \in Nat /\ DOMAIN clist_all = 1 .. Len(clist_all)
        /\ clist_req \in Seq(Part) /\ Len(clist_req) \in Nat /\ DOMAIN clist_req = 1 .. Len(clist_req)
        /\ Len(clist_req) <= Parts /\ it \in Nat /\ it >= 1
    BY ListTypes, ListFacts DEF Inv
  <1>2. /\ it <= Len(clist_req) /\ p = clist_req[it] /\ Len(clist_all) < it
        /\ NoneTwice(clist_req) /\ NoneTwice(clist_all)
        /\ \A i \in DOMAIN clist_all : \E j \in DOMAIN clist_req : j < it /\ clist_req[j] = clist_all[i]
    BY DEF Inv, Lists, Read
  <1>3. /\ clist_all' \in Seq(Part) /\ Len(clist_all') = Len(clist_all) + 1
        /\ DOMAIN clist_all' = 1 .. Len(clist_all) + 1
        /\ \A i \in 1 .. Len(clist_all) : clist_all'[i] = clist_all[i]
        /\ clist_all'[Len(clist_all) + 1] = p
    BY <1>1
  <1>4. Len(clist_all') <= Parts /\ Len(clist_all') < it'
    BY <1>1, <1>2, <1>3, Sizes
  <1>5. clist_all' \in List
    BY <1>3, <1>4, ListIsSeq
  <1>6. ASSUME NEW i \in 1 .. Len(clist_all), clist_all[i] = p PROVE FALSE
    <2>1. PICK j \in DOMAIN clist_req : j < it /\ clist_req[j] = clist_all[i]
      BY <1>1, <1>2
    <2>2. it \in DOMAIN clist_req /\ clist_req[j] = clist_req[it]
      BY <1>1, <1>2, <1>6, <2>1
    <2>3. j = it
      BY <1>2, <2>2 DEF NoneTwice
    <2> QED BY <1>1, <2>1, <2>3
  <1>7. NoneTwice(clist_all')
    <2> SUFFICES ASSUME NEW i \in 1 .. Len(clist_all) + 1, NEW j \in 1 .. Len(clist_all) + 1,
                        clist_all'[i] = clist_all'[j]
                 PROVE  i = j
      BY <1>3 DEF NoneTwice
    <2>1. CASE i \in 1 .. Len(clist_all) /\ j \in 1 .. Len(clist_all)
      <3>1. clist_all[i] = clist_all[j]
        BY <1>3, <2>1
      <3>2. i \in DOMAIN clist_all /\ j \in DOMAIN clist_all
        BY <1>1, <2>1
      <3> QED BY <1>2, <3>1, <3>2 DEF NoneTwice
    <2>2. \A k \in 1 .. Len(clist_all) + 1 :
             k \in 1 .. Len(clist_all) \/ k = Len(clist_all) + 1
      BY <1>1
    <2>3. i \in 1 .. Len(clist_all) => j \in 1 .. Len(clist_all)
      BY <1>3, <1>6, <2>2
    <2>4. j \in 1 .. Len(clist_all) => i \in 1 .. Len(clist_all)
      BY <1>3, <1>6, <2>2
    <2> QED BY <2>1, <2>2, <2>3, <2>4
  <1>8. ASSUME NEW i \in DOMAIN clist_all'
        PROVE  \E j \in DOMAIN clist_req' : j < it' /\ clist_req'[j] = clist_all'[i]
    <2>1. CASE i \in 1 .. Len(clist_all)
      <3>1. PICK j \in DOMAIN clist_req : j < it /\ clist_req[j] = clist_all[i]
        BY <1>1, <1>2, <2>1
      <3>2. j < it' /\ j \in DOMAIN clist_req' /\ clist_req'[j] = clist_all'[i]
        BY <1>1, <1>3, <2>1, <3>1
      <3> QED BY <3>2
    <2>2. CASE i = Len(clist_all) + 1
      BY <1>1, <1>2, <1>3, <2>2
    <2> QED BY <1>1, <1>3, <2>1, <2>2
  <1> QED BY <1>4, <1>5, <1>7, <1>8

ListsTyped ==
    /\ clist_all \in List /\ clist_req \in List
    /\ it \in 1 .. Parts + MaxParallel + 1 /\ freed \subseteq Part

\* A round starts with a list that has no part twice.
LEMMA RoundStarts ==
    ASSUME Inv, NEW s \in List, NoneTwice(s), StartRound(s), pc' = "MultiPerform"
    PROVE  Lists' /\ ListsTyped'
  <1>1. Len(s) \in Nat
    BY ListFacts
  <1>2. 1 \in 1 .. Parts + MaxParallel + 1
    BY Sizes
  <1>3. ListsTyped'
    BY <1>2, EmptyList DEF StartRound, ListsTyped
  <1>4. NoneTwice(clist_req') /\ NoneTwice(clist_all') /\ it' <= Len(clist_req') + 1 /\ it' <= Parts + 1
    BY <1>1, EmptyList, Sizes DEF StartRound
  <1> QED BY <1>3, <1>4 DEF Lists, StartRound

LEMMA ListsStep == ASSUME Inv, Next PROVE Lists' /\ ListsTyped'
  <1> USE Sizes DEF Go, Return, Finish
  <1>1. /\ clist_all \in List /\ clist_req \in List /\ it \in Nat /\ it >= 1
        /\ freed \subseteq Part /\ it \in 1 .. Parts + MaxParallel + 1
        /\ Len(clist_req) \in Nat /\ Len(clist_req) <= Parts /\ Len(clist_all) \in Nat
    BY ListTypes, ListFacts DEF Inv, TypeOK
  <1>2. ASSUME UNCHANGED lists, pc' = pc \/ (pc # "drain" /\ pc' \notin Rounds \cup {"MultiRead"})
        PROVE  Lists' /\ ListsTyped'
    <2>1. ListsTyped'
      BY <1>1, <1>2 DEF lists, ListsTyped
    <2>2. Lists'
      BY <1>2 DEF Inv, Lists, lists, Rounds
    <2> QED BY <2>1, <2>2
  <1>3. CASE Begin
    <2>1. UNCHANGED lists /\ pc = "idle" /\ pc' \notin Rounds \cup {"MultiRead"}
      BY <1>3 DEF Begin, Entry, Rounds
    <2> QED BY <1>2, <2>1
  <1>4. CASE CreateCurlHandle \/ PutRequest \/ DeleteRequest
    <2>1. UNCHANGED lists /\ pc \in Requests /\ (pc' = pc \/ pc' = "idle")
      BY <1>4 DEF CreateCurlHandle, PutRequest, DeleteRequest, Request, RequestPerform, Requests
    <2> QED BY <1>2, <2>1 DEF Requests, Rounds
  <1>5. CASE GetObjectRequest
    <2>1. UNCHANGED lists /\ pc \in Requests /\ (pc' = pc \/ pc' = "idle")
      BY <1>5 DEF GetObjectRequest, Request, RequestPerform, Requests
    <2> QED BY <1>2, <2>1 DEF Requests, Rounds
  <1>6. CASE PreMultipartPostRequest
    <2>1. UNCHANGED lists /\ pc \in Requests /\ pc' \in {pc, "idle", "ParallelMultipartUploadRequest"}
      BY <1>6 DEF PreMultipartPostRequest, Request, RequestPerform, Requests
    <2> QED BY <1>2, <2>1 DEF Requests, Rounds
  <1>7. CASE CompleteMultipartPostRequest \/ AbortMultipartUpload
    <2>1. UNCHANGED lists /\ pc \in Requests /\ (pc' = pc \/ pc' = "idle")
      BY <1>7 DEF CompleteMultipartPostRequest, AbortMultipartUpload, Request, RequestPerform, Requests
    <2> QED BY <1>2, <2>1 DEF Requests, Rounds
  <1>8. CASE ParallelMultipartUploadRequest
    <2>1. CASE StartRound([p \in Part |-> p]) /\ pc' = "MultiPerform"
      BY <2>1, AllPartsFacts, RoundStarts
    <2>2. CASE UNCHANGED lists /\ pc' = "idle" /\ pc # "drain"
      BY <1>2, <2>2 DEF Rounds
    <2> QED BY <1>8, <2>1, <2>2 DEF ParallelMultipartUploadRequest
  <1>9. CASE PreGetObjectRequest
    <2>1. CASE remaining # 0 /\ StartRound(Batch(remaining)) /\ pc' = "MultiPerform"
      <3>1. remaining \in 1 .. Parts
        BY <2>1 DEF Inv, TypeOK
      <3> QED BY <2>1, <3>1, BatchFacts, RoundStarts
    <2>2. CASE UNCHANGED lists /\ pc' = "idle" /\ pc # "drain"
      BY <1>2, <2>2 DEF Rounds
    <2> QED BY <1>9, <2>1, <2>2 DEF PreGetObjectRequest
  <1>10. CASE RequestReturns
    <2>1. CASE StartRound(clist_all) /\ pc' = "MultiPerform"
      BY <1>1, <2>1, RoundStarts DEF Inv, Lists
    <2>2. CASE /\ clist_req' = <<>> /\ clist_all' = clist_all /\ freed' = {} /\ it' = 1
               /\ pc' \notin Rounds \cup {"MultiRead"}
      <3>1. ListsTyped'
        BY <1>1, <2>2, EmptyList DEF ListsTyped
      <3>2. NoneTwice(clist_req') /\ NoneTwice(clist_all') /\ it' <= Parts + 1
        BY <2>2, EmptyList DEF Inv, Lists
      <3> QED BY <2>2, <3>1, <3>2 DEF Lists, Rounds
    <2> QED BY <1>10, <2>1, <2>2 DEF RequestReturns, Rounds
  <1>11. CASE MultiPerform
    <2>1. /\ clist_all' = clist_all /\ clist_req' = clist_req /\ freed' = freed
          /\ pc = "MultiPerform" /\ it <= Len(clist_req)
          /\ (pc' = pc /\ it' = it + 1) \/ (pc' = "drain" /\ it' = 1)
      BY <1>11 DEF MultiPerform
    <2>2. ListsTyped'
      BY <1>1, <2>1 DEF ListsTyped
    <2> QED BY <1>1, <2>1, <2>2 DEF Inv, Lists, Rounds
  <1>12. CASE AllCreated \/ Drain \/ JoinRest
    <2>1. /\ clist_all' = clist_all /\ clist_req' = clist_req /\ freed' = freed
          /\ pc \in Rounds
          /\ \/ pc' = "drain" /\ (it' = 1 \/ (it <= MaxParallel /\ it' = it + 1))
             \/ pc' \in {"MultiRead", "Clear"} /\ it' = 1
      BY <1>12 DEF AllCreated, Drain, JoinRest, DrainLoop, main, Rounds
    <2>2. ListsTyped'
      BY <1>1, <2>1 DEF ListsTyped
    <2>3. clist_all' = <<>> /\ Len(clist_all') = 0 /\ \A i \in DOMAIN clist_all' : FALSE
      <3>1. clist_all = <<>>
        BY <2>1 DEF Inv, Lists
      <3> QED BY <2>1, <3>1
    <2> QED BY <1>1, <2>1, <2>2, <2>3 DEF Inv, Lists, Rounds
  <1>13. CASE MultiReadSettled
    <2>1. PICK p \in Part : /\ Read(p) /\ clist_all' = clist_all /\ clist_req' = clist_req
                            /\ freed' = freed \cup {p} /\ it' = it + 1 /\ pc' = pc
      BY <1>13 DEF MultiReadSettled, main
    <2>2. pc = "MultiRead" /\ it <= Len(clist_req)
      BY <2>1 DEF Read
    <2>3. ListsTyped'
      BY <1>1, <2>1, <2>2 DEF ListsTyped
    <2>4. \A i \in DOMAIN clist_all : \E j \in DOMAIN clist_req : j < it + 1 /\ clist_req[j] = clist_all[i]
      <3>1. \A j \in DOMAIN clist_req : j < it => j < it + 1
        BY <1>1, ListFacts
      <3> QED BY <2>2, <3>1 DEF Inv, Lists
    <2> QED BY <1>1, <2>1, <2>2, <2>3, <2>4 DEF Inv, Lists, Rounds
  <1>14. CASE MultiReadRetry
    <2>1. PICK p \in Part : /\ Read(p) /\ clist_all' = Append(clist_all, p) /\ clist_req' = clist_req
                            /\ freed' = freed \cup {p} /\ it' = it + 1 /\ pc' = pc
      BY <1>14 DEF MultiReadRetry, main
    <2>2. pc = "MultiRead" /\ it <= Len(clist_req)
      BY <2>1 DEF Read
    <2>3. /\ clist_all' \in List /\ NoneTwice(clist_all') /\ Len(clist_all') < it'
          /\ \A i \in DOMAIN clist_all' : \E j \in DOMAIN clist_req' : j < it' /\ clist_req'[j] = clist_all'[i]
      BY <2>1, RetryList
    <2>4. ListsTyped'
      BY <1>1, <2>1, <2>2, <2>3 DEF ListsTyped
    <2> QED BY <1>1, <2>1, <2>2, <2>3, <2>4 DEF Inv, Lists, Rounds
  <1>15. CASE MultiReadFails
    <2>1. UNCHANGED lists /\ pc = "MultiRead" /\ pc' = "Clear"
      BY <1>15 DEF MultiReadFails, Read
    <2> QED BY <1>2, <2>1 DEF Rounds
  <1>16. CASE Clear
    <2>1. /\ clist_req' = <<>> /\ clist_all' = <<>> /\ freed' = {} /\ it' = 1
          /\ pc' \in {"crashed", "AbortMultipartUpload", "idle"}
      BY <1>16 DEF Clear
    <2>2. ListsTyped'
      BY <2>1, EmptyList DEF ListsTyped
    <2>3. NoneTwice(clist_req') /\ NoneTwice(clist_all') /\ it' <= Parts + 1
      BY <2>1, EmptyList
    <2> QED BY <2>1, <2>2, <2>3 DEF Lists, Rounds
  <1>17. ASSUME NEW p \in Part, RequestPerformWrapper(p) PROVE Lists' /\ ListsTyped'
    <2>1. UNCHANGED lists /\ pc' = pc
      BY <1>17 DEF RequestPerformWrapper, LazySetup, Perform, Post, main
    <2> QED BY <1>2, <2>1
  <1> QED
    BY <1>3, <1>4, <1>5, <1>6, <1>7, <1>8, <1>9, <1>10, <1>11, <1>12, <1>13, <1>14, <1>15, <1>16, <1>17
       DEF Next, MainThread
-----------------------------------------------------------------------------
(***************************************************************************)
(* The threads and the semaphore.                                          *)
(***************************************************************************)
ThreadStates == {"none", "setup", "perform", "post", "done"}

ThreadsTyped ==
    /\ thread \in [Part -> ThreadStates] /\ completed_tids \subseteq Part
    /\ sem \in 0 .. MaxParallel /\ success \in BOOLEAN

\* The main thread outside of MultiPerform: no thread is there.
LEMMA OutsideRounds ==
    ASSUME Inv, pc \notin Rounds, UNCHANGED << thread, completed_tids >>,
           \/ pc' = "MultiPerform" /\ sem' = MaxParallel /\ success' = TRUE
           \/ pc' \notin Rounds /\ UNCHANGED << sem, success >>
    PROVE  Threads' /\ Permits' /\ ThreadsTyped'
  <1>1. \A p \in Part : thread[p] = "none"
    BY DEF Inv, Threads
  <1>2. ThreadsTyped'
    <2>1. success' \in BOOLEAN
      BY Zenon DEF Inv, TypeOK
    <2>2. sem' \in 0 .. MaxParallel
      BY Sizes DEF Inv, TypeOK
    <2> QED BY <2>1, <2>2 DEF Inv, TypeOK, ThreadsTyped, ThreadStates
  <1>3. Threads'
    BY <1>1 DEF Inv, Threads
  <1>4. Living' = {} /\ Cardinality({}) = 0
    BY <1>1, FS_EmptySet DEF Living, Alive
  <1>5. Permits'
    BY <1>4, Sizes DEF Permits, Rounds
  <1> QED BY <1>2, <1>3, <1>5

\* The request the loop has come to has no thread yet, for no part is in the
\* list twice.
LEMMA NextHasNoThread ==
    ASSUME Inv, pc = "MultiPerform", it \in DOMAIN clist_req, clist_req[it] \in Part
    PROVE  thread[clist_req[it]] = "none"
  <1> SUFFICES ASSUME thread[clist_req[it]] # "none" PROVE FALSE
    OBVIOUS
  <1>1. PICK i \in DOMAIN clist_req : clist_req[i] = clist_req[it] /\ i < it
    BY DEF Inv, Threads
  <1>2. i = it
    BY <1>1 DEF Inv, Lists, NoneTwice
  <1> QED BY <1>1, <1>2, ListTypes DEF Inv

\* A thread is created for a request that has none, when the threads that
\* are done have been joined.
LEMMA ThreadCreated ==
    ASSUME Inv, MultiPerform PROVE Threads' /\ Permits' /\ ThreadsTyped'
  <1> DEFINE joined == [p \in Part |-> IF p \in completed_tids THEN "none" ELSE thread[p]]
             new == clist_req[it]
  <1>1. /\ pc = "MultiPerform" /\ it <= Len(clist_req) /\ sem > 0 /\ sem' = sem - 1
        /\ completed_tids' = {} /\ clist_req' = clist_req
        /\ \/ thread' = [joined EXCEPT ![new] = "setup"] /\ it' = it + 1 /\ UNCHANGED << success, pc >>
           \/ thread' = joined /\ success' = FALSE /\ pc' = "drain" /\ it' = 1
    BY DEF MultiPerform, Wait
  <1>2. /\ clist_req \in List /\ it \in Nat /\ it >= 1 /\ Len(clist_req) \in Nat
        /\ DOMAIN clist_req = 1 .. Len(clist_req) /\ new \in Part /\ it \in DOMAIN clist_req
    BY <1>1, ListTypes, ListFacts DEF Inv
  <1>3. /\ completed_tids = {p \in Part : thread[p] = "done"} /\ thread \in [Part -> ThreadStates]
        /\ \A p \in Part : thread[p] # "none" => \E i \in DOMAIN clist_req : clist_req[i] = p /\ i < it
    BY <1>1 DEF Inv, Threads, TypeOK, ThreadStates
  <1>4. thread[new] = "none"
    BY <1>1, <1>2, NextHasNoThread
  <1>5. /\ joined \in [Part -> ThreadStates] /\ joined[new] = "none"
        /\ \A p \in Part : joined[p] # "done" /\ (joined[p] # "none" => joined[p] = thread[p])
        /\ {p \in Part : Alive(joined[p])} = Living
    BY <1>2, <1>3, <1>4 DEF ThreadStates, Living, Alive
  <1>6. IsFiniteSet(Living) /\ Cardinality(Living) \in Nat /\ new \notin Living
    BY <1>4, PartsFinite DEF Living, Alive
  <1>7. /\ sem \in Nat /\ MaxParallel \in Nat /\ success = TRUE
        /\ sem + Cardinality(Living) = MaxParallel
    <2>1. sem \in Nat /\ success \in BOOLEAN
      BY Sizes DEF Inv, TypeOK
    <2> QED BY <1>1, <1>6, <2>1, Sizes DEF Inv, Permits, Rounds
  <1> HIDE DEF joined, new
  <1>8. CASE thread' = [joined EXCEPT ![new] = "setup"] /\ it' = it + 1 /\ UNCHANGED << success, pc >>
    <2>1. ThreadsTyped'
      <3>1. sem' \in 0 .. MaxParallel
        BY <1>1, <1>6, <1>7
      <3>2. success' \in BOOLEAN
        BY <1>7, <1>8
      <3>3. thread' \in [Part -> ThreadStates]
        BY <1>2, <1>5, <1>8 DEF ThreadStates
      <3> QED BY <1>1, <3>1, <3>2, <3>3 DEF ThreadsTyped
    <2>2. ASSUME NEW p \in Part, thread'[p] # "none"
          PROVE  \E i \in DOMAIN clist_req : clist_req[i] = p /\ i < it'
      <3>1. CASE p = new
        BY <1>2, <1>8, <3>1 DEF new
      <3>2. CASE p # new
        <4>1. thread[p] # "none"
          BY <1>5, <1>8, <2>2, <3>2
        <4>2. PICK i \in DOMAIN clist_req : clist_req[i] = p /\ i < it
          BY <1>3, <4>1
        <4>3. i < it'
          BY <1>2, <1>8, <4>2
        <4> QED BY <4>2, <4>3
      <3> QED BY <3>1, <3>2
    <2>3. \A p \in Part : thread'[p] # "done"
      BY <1>5, <1>8
    <2>4. Threads'
      BY <1>1, <1>8, <2>2, <2>3 DEF Threads, Rounds
    <2>5. Living' = Living \cup {new}
      <3>1. \A p \in Part : thread'[p] = IF p = new THEN "setup" ELSE joined[p]
        BY <1>5, <1>8
      <3>2. \A p \in Part : Alive(joined[p]) <=> p \in Living
        BY <1>5
      <3> QED BY <1>2, <3>1, <3>2 DEF Living, Alive
    <2>6. Cardinality(Living') = Cardinality(Living) + 1
      BY <1>6, <2>5, FS_AddElement
    <2>7. Permits'
      BY <1>1, <1>6, <1>7, <1>8, <2>6 DEF Permits, Rounds
    <2> QED BY <2>1, <2>4, <2>7
  <1>9. CASE thread' = joined /\ success' = FALSE /\ pc' = "drain" /\ it' = 1
    <2>1. ThreadsTyped'
      <3>1. sem' \in 0 .. MaxParallel
        BY <1>1, <1>6, <1>7
      <3> QED BY <1>1, <1>5, <1>9, <3>1 DEF ThreadsTyped
    <2>2. Threads'
      BY <1>1, <1>3, <1>5, <1>9 DEF Threads, Rounds
    <2>3. Living' = Living
      BY <1>5, <1>9 DEF Living
    <2>4. Permits'
      BY <1>1, <1>6, <1>7, <1>9, <2>3 DEF Permits, Rounds
    <2> QED BY <2>1, <2>2, <2>4
  <1> QED BY <1>1, <1>8, <1>9

\* When the last loop has taken every permit no thread is left that has not
\* posted, and all can be joined.
LEMMA AllJoined ==
    ASSUME Inv, JoinRest
    PROVE  /\ Threads' /\ Permits' /\ ThreadsTyped'
           /\ success /\ \A p \in Part : thread[p] \in {"none", "done"}
  <1>1. /\ pc = "drain" /\ it > MaxParallel /\ UNCHANGED << sem, success >>
        /\ thread' = [p \in Part |-> IF p \in completed_tids THEN "none" ELSE thread[p]]
        /\ completed_tids' = {} /\ pc' \notin Rounds
    BY DEF JoinRest, DrainLoop, Rounds
  <1>2. /\ it \in Nat /\ sem \in Nat /\ MaxParallel \in Nat /\ success \in BOOLEAN
        /\ thread \in [Part -> ThreadStates] /\ completed_tids = {p \in Part : thread[p] = "done"}
        /\ sem \in 0 .. MaxParallel
    BY Sizes DEF Inv, TypeOK, ThreadStates, Threads
  <1>3. IsFiniteSet(Living) /\ Cardinality(Living) \in Nat
    BY PartsFinite DEF Living
  <1>4. Cardinality(Living) = 0 /\ success
    <2>1. sem + Cardinality(Living) + (it - 1) + (IF success THEN 0 ELSE 1) = MaxParallel
      BY <1>1 DEF Inv, Permits, Rounds
    <2>2. CASE success
      <3>1. sem + Cardinality(Living) + (it - 1) + 0 = MaxParallel
        BY <2>1, <2>2
      <3>2. \A c, m, n, k \in Nat : m + c + (k - 1) + 0 = n /\ k > n => c = 0
        OBVIOUS
      <3>3. Cardinality(Living) = 0
        BY <1>1, <1>2, <1>3, <3>1, <3>2
      <3> QED BY <2>2, <3>3, Zenon
    <2>3. CASE ~ success
      BY <1>1, <1>2, <1>3, <2>1, <2>3
    <2> QED BY <2>2, <2>3
  <1>5. \A p \in Part : thread[p] \in {"none", "done"}
    <2>1. Living = {}
      BY <1>3, <1>4, FS_EmptySet
    <2> QED BY <1>2, <2>1 DEF Living, Alive, ThreadStates
  <1>6. \A p \in Part : thread'[p] = "none"
    BY <1>1, <1>2, <1>5
  <1>7. ThreadsTyped'
    BY <1>1, <1>2 DEF ThreadsTyped, ThreadStates
  <1> QED BY <1>1, <1>4, <1>5, <1>6, <1>7 DEF Threads, Permits

\* A thread goes on; its permit comes back with the last step.
LEMMA ThreadGoesOn ==
    ASSUME Inv, NEW p \in Part, RequestPerformWrapper(p)
    PROVE  Threads' /\ Permits' /\ ThreadsTyped' /\ pc \in Rounds
  <1>1. /\ UNCHANGED << pc, it, clist_req, success >> /\ Alive(thread[p])
        /\ \E s \in ThreadStates \ {"none"} : thread' = [thread EXCEPT ![p] = s]
        /\ \/ UNCHANGED << completed_tids, sem >> /\ Alive(thread'[p])
           \/ /\ sem' = sem + 1 /\ completed_tids' = completed_tids \cup {p}
              /\ thread'[p] = "done"
    BY DEF Inv, TypeOK, RequestPerformWrapper, LazySetup, Perform, Post, main, lists, Alive, ThreadStates
  <1>2. PICK s \in ThreadStates \ {"none"} : thread' = [thread EXCEPT ![p] = s]
    BY <1>1
  <1>3. /\ it \in Nat /\ sem \in Nat /\ MaxParallel \in Nat /\ success \in BOOLEAN /\ it >= 1
        /\ thread \in [Part -> ThreadStates] /\ completed_tids = {q \in Part : thread[q] = "done"}
    BY Sizes DEF Inv, TypeOK, ThreadStates, Threads
  <1>4. /\ Cardinality(Living') = Cardinality(Living) + (IF Alive(s) THEN 1 ELSE 0) - 1
        /\ Cardinality(Living) \in Nat /\ Cardinality(Living) >= 1 /\ thread'[p] = s
    <2>1. thread'[p] = s /\ \A q \in Part : q # p => thread'[q] = thread[q]
      BY <1>2, <1>3
    <2> QED BY <1>1, <2>1, ThreadMoves
  <1>5. pc \in Rounds
    BY <1>1 DEF Inv, Threads, Alive
  <1>6. sem + Cardinality(Living) + (IF pc = "drain" THEN it - 1 ELSE 0) + (IF success THEN 0 ELSE 1)
             = MaxParallel
    BY <1>5 DEF Inv, Permits
  <1>7. ThreadsTyped'
    <2>1. sem' \in 0 .. MaxParallel
      BY <1>1, <1>3, <1>4, <1>6
    <2> QED BY <1>1, <1>2, <1>3, <2>1 DEF ThreadsTyped
  <1>8. Threads'
    <2>1. completed_tids' = {q \in Part : thread'[q] = "done"}
      BY <1>1, <1>2, <1>3 DEF Alive
    <2>2. ASSUME NEW q \in Part, thread'[q] # "none" PROVE thread[q] # "none"
      BY <1>1, <1>2, <1>3, <2>2 DEF Alive
    <2> QED BY <1>1, <2>1, <2>2 DEF Inv, Threads
  <1>9. Permits'
    BY <1>1, <1>3, <1>4, <1>5, <1>6 DEF Inv, Permits, Alive
  <1> QED BY <1>5, <1>7, <1>8, <1>9

LEMMA ThreadsStep == ASSUME Inv, Next PROVE Threads' /\ Permits' /\ ThreadsTyped'
  <1> USE DEF Go, Return, Finish
  <1>1. CASE Begin
    <2>1. /\ pc = "idle" /\ pc' \in {"PutRequest", "PreMultipartPostRequest", "DeleteRequest",
                                     "GetObjectRequest", "PreGetObjectRequest"}
          /\ UNCHANGED threads
      BY <1>1 DEF Begin, Entry
    <2> QED BY <2>1, OutsideRounds DEF Rounds, threads
  <1>2. CASE CreateCurlHandle \/ PutRequest \/ DeleteRequest
    <2>1. UNCHANGED threads /\ pc \in Requests /\ (pc' = pc \/ pc' = "idle")
      BY <1>2 DEF CreateCurlHandle, PutRequest, DeleteRequest, Request, RequestPerform, Requests
    <2> QED BY <2>1, OutsideRounds DEF Requests, Rounds, threads
  <1>3. CASE GetObjectRequest
    <2>1. UNCHANGED threads /\ pc \in Requests /\ (pc' = pc \/ pc' = "idle")
      BY <1>3 DEF GetObjectRequest, Request, RequestPerform, Requests
    <2> QED BY <2>1, OutsideRounds DEF Requests, Rounds, threads
  <1>4. CASE PreMultipartPostRequest
    <2>1. UNCHANGED threads /\ pc \in Requests /\ pc' \in {pc, "idle", "ParallelMultipartUploadRequest"}
      BY <1>4 DEF PreMultipartPostRequest, Request, RequestPerform, Requests
    <2> QED BY <2>1, OutsideRounds DEF Requests, Rounds, threads
  <1>5. CASE CompleteMultipartPostRequest \/ AbortMultipartUpload
    <2>1. UNCHANGED threads /\ pc \in Requests /\ (pc' = pc \/ pc' = "idle")
      BY <1>5 DEF CompleteMultipartPostRequest, AbortMultipartUpload, Request, RequestPerform, Requests
    <2> QED BY <2>1, OutsideRounds DEF Requests, Rounds, threads
  <1>6. CASE ParallelMultipartUploadRequest
    BY <1>6, OutsideRounds DEF ParallelMultipartUploadRequest, StartRound, Rounds
  <1>7. CASE PreGetObjectRequest
    BY <1>7, OutsideRounds DEF PreGetObjectRequest, StartRound, Rounds
  <1>8. CASE RequestReturns
    BY <1>8, OutsideRounds DEF RequestReturns, StartRound, Rounds
  <1>9. CASE AllCreated
    <2>1. /\ pc = "MultiPerform" /\ pc' = "drain" /\ it' = 1 /\ clist_req' = clist_req
          /\ UNCHANGED << thread, completed_tids, sem, success >>
      BY <1>9 DEF AllCreated, threads
    <2>2. ThreadsTyped'
      BY <2>1 DEF Inv, TypeOK, ThreadsTyped, ThreadStates
    <2>3. Threads'
      BY <2>1 DEF Inv, Threads, Rounds
    <2>4. Living' = Living
      BY <2>1 DEF Living
    <2> QED BY <2>1, <2>2, <2>3, <2>4 DEF Inv, Permits, Rounds
  <1>10. CASE Drain
    <2>1. /\ pc = "drain" /\ pc' = pc /\ it' = it + 1 /\ clist_req' = clist_req /\ sem > 0 /\ sem' = sem - 1
          /\ UNCHANGED << thread, completed_tids, success >>
      BY <1>10 DEF Drain, Wait, main
    <2>2. it \in Nat /\ sem \in 0 .. MaxParallel /\ MaxParallel \in Nat /\ Cardinality(Living) \in Nat
      BY Sizes, PartsFinite DEF Inv, TypeOK, Living
    <2>3. ThreadsTyped'
      <3>1. sem' \in 0 .. MaxParallel
        BY <2>1, <2>2
      <3> QED BY <2>1, <3>1 DEF Inv, TypeOK, ThreadsTyped, ThreadStates
    <2>4. Threads'
      BY <2>1 DEF Inv, Threads, Rounds
    <2>5. Living' = Living
      BY <2>1 DEF Living
    <2>6. Permits'
      <3>1. sem + Cardinality(Living) + (it - 1) + (IF success THEN 0 ELSE 1) = MaxParallel
        BY <2>1 DEF Inv, Permits, Rounds
      <3>2. (sem - 1) + Cardinality(Living) + it + (IF success THEN 0 ELSE 1) = MaxParallel
        BY <2>2, <3>1
      <3>3. (it + 1) - 1 = it
        BY <2>2
      <3> QED BY <2>1, <2>5, <3>2, <3>3 DEF Permits, Rounds
    <2> QED BY <2>3, <2>4, <2>6
  <1>11. CASE MultiReadSettled \/ MultiReadRetry \/ MultiReadFails \/ Clear
    <2>1. UNCHANGED threads /\ pc \notin Rounds /\ pc' \notin Rounds
      BY <1>11 DEF MultiReadSettled, MultiReadRetry, MultiReadFails, Clear, Read, main, Rounds
    <2> QED BY <2>1, OutsideRounds DEF threads
  <1> QED
    BY <1>1, <1>2, <1>3, <1>4, <1>5, <1>6, <1>7, <1>8, <1>9, <1>10, <1>11,
       ThreadCreated, AllJoined, ThreadGoesOn DEF Next, MainThread
-----------------------------------------------------------------------------
(***************************************************************************)
(* The curl handles.                                                       *)
(***************************************************************************)
HandlesTyped == pool \in 0 .. MaxHandlers /\ live \in 0 .. MaxHandlers

LEMMA HandleTaken ==
    ASSUME NEW n \in Nat, HandlesTyped, live = pool + n, live <= MaxHandlers, n < MaxHandlers, GetHandler
    PROVE  HandlesTyped' /\ live' = pool' + (n + 1) /\ live' <= MaxHandlers
  BY Sizes DEF HandlesTyped, GetHandler

LEMMA HandleGivenBack ==
    ASSUME NEW n \in Nat, HandlesTyped, live = pool + (n + 1), live <= MaxHandlers, ReturnHandler
    PROVE  HandlesTyped' /\ live' = pool' + n /\ live' <= MaxHandlers
  BY Sizes DEF HandlesTyped, ReturnHandler

\* The main thread outside of MultiPerform is the only one with a handle.
LEMMA MainHandle ==
    ASSUME Inv, pc \notin Rounds, thread' = thread, handle' \in BOOLEAN,
           \/ UNCHANGED handles
           \/ ~ handle /\ GetHandler /\ handle'
           \/ handle /\ ReturnHandler /\ ~ handle'
    PROVE  Handles' /\ HandlesTyped'
  <1>1. Performing = {} /\ Performing' = {} /\ Cardinality({}) = 0
    BY FS_EmptySet DEF Inv, Threads, Performing
  <1>2. handle \in BOOLEAN /\ HandlesTyped /\ live <= MaxHandlers
    BY DEF Inv, TypeOK, HandlesTyped, Handles
  <1>3. live = pool + (IF handle THEN 1 ELSE 0)
    <2>1. InUse = IF handle THEN 1 ELSE 0
      BY <1>1 DEF InUse, Performing
    <2> QED BY <2>1 DEF Inv, Handles
  <1>4. InUse' = IF handle' THEN 1 ELSE 0
    BY <1>1 DEF InUse, Performing
  <1>5. CASE UNCHANGED handles
    BY <1>2, <1>3, <1>4, <1>5 DEF handles, Handles, HandlesTyped
  <1>6. CASE ~ handle /\ GetHandler /\ handle'
    <2>1. live = pool + 0 /\ 0 < MaxHandlers
      BY <1>2, <1>3, <1>6, Sizes DEF HandlesTyped
    <2>2. HandlesTyped' /\ live' = pool' + (0 + 1) /\ live' <= MaxHandlers
      BY <1>2, <1>6, <2>1, HandleTaken
    <2>3. InUse' = 0 + 1
      BY <1>4, <1>6
    <2> QED BY <2>2, <2>3 DEF Handles
  <1>7. CASE handle /\ ReturnHandler /\ ~ handle'
    <2>1. live = pool + (0 + 1)
      BY <1>3, <1>7
    <2>2. HandlesTyped' /\ live' = pool' + 0 /\ live' <= MaxHandlers
      BY <1>2, <1>7, <2>1, HandleGivenBack
    <2>3. InUse' = 0
      BY <1>4, <1>7
    <2> QED BY <2>2, <2>3 DEF Handles
  <1> QED BY <1>5, <1>6, <1>7

\* What threads have taken the permits allow: there is a handle left for one
\* more when a thread is about to take it.
LEMMA ThreadHandle ==
    ASSUME Inv, NEW p \in Part, RequestPerformWrapper(p)
    PROVE  Handles' /\ HandlesTyped'
  <1> DEFINE n == Cardinality(Performing)
  <1>1. /\ HandlesTyped /\ live <= MaxHandlers /\ thread \in [Part -> ThreadStates]
    BY DEF Inv, TypeOK, HandlesTyped, Handles, ThreadStates
  <1>2. ~ handle /\ handle' = handle
    BY ThreadGoesOn DEF Inv, Control, Requests, Rounds,
       RequestPerformWrapper, LazySetup, Perform, Post, handles
  <1>3. live = pool + n /\ InUse' = Cardinality(Performing') /\ n \in Nat
    <2>1. n \in Nat /\ Performing' \in SUBSET Part
      BY PartsFinite DEF Performing
    <2>2. Cardinality(Performing') \in Nat
      BY <2>1, PartsFinite
    <2>3. InUse = n + 0 /\ InUse' = Cardinality(Performing') + 0
      BY <1>2 DEF InUse, Performing
    <2> QED BY <2>1, <2>2, <2>3 DEF Inv, Handles
  <1> HIDE DEF n
  <1>4. CASE LazySetup(p) /\ GetHandler
    <2>1. thread[p] = "setup" /\ thread' = [thread EXCEPT ![p] = "perform"]
      <3>1. ~ UNCHANGED << pool, live >>
        BY <1>1, <1>4, Sizes DEF GetHandler, HandlesTyped
      <3> QED BY <1>4, <3>1 DEF LazySetup
    <2>2. Cardinality(Performing') = n + 1
      BY <1>1, <1>3, <2>1, PerformingMoves DEF n
    <2>3. n < Cardinality(Living)
      <3>1. /\ p \in Living /\ p \notin Performing /\ Performing \subseteq Living
        BY <2>1 DEF Living, Performing, Alive
      <3>2. IsFiniteSet(Living) /\ Cardinality(Living) \in Nat
        BY PartsFinite DEF Living
      <3>3. Cardinality(Performing) <= Cardinality(Living) /\ Cardinality(Performing) # Cardinality(Living)
        BY <3>1, <3>2, FS_Subset
      <3> QED BY <1>3, <3>2, <3>3 DEF n
    <2>4. Cardinality(Living) <= MaxParallel
      <3>1. /\ sem + Cardinality(Living) + (IF pc = "drain" THEN it - 1 ELSE 0)
                 + (IF success THEN 0 ELSE 1) = MaxParallel
            /\ sem \in Nat /\ it \in Nat /\ it >= 1 /\ MaxParallel \in Nat
        BY ThreadGoesOn, Sizes DEF Inv, Permits, TypeOK
      <3>2. Cardinality(Living) \in Nat
        BY PartsFinite DEF Living
      <3> QED BY <3>1, <3>2
    <2>5. n < MaxHandlers
      <3>1. Cardinality(Living) \in Nat
        BY PartsFinite DEF Living
      <3> QED BY <1>3, <2>3, <2>4, <3>1, Sizes
    <2> QED BY <1>1, <1>3, <1>4, <2>2, <2>5, HandleTaken DEF Handles
  <1>5. CASE LazySetup(p) /\ ~ GetHandler
    <2>1. thread[p] = "setup" /\ thread' = [thread EXCEPT ![p] = "post"] /\ UNCHANGED << pool, live >>
      BY <1>5 DEF LazySetup
    <2>2. Cardinality(Performing') = n
      BY <1>1, <1>3, <2>1, PerformingMoves DEF n
    <2> QED BY <1>1, <1>3, <2>1, <2>2 DEF Handles, HandlesTyped
  <1>6. CASE Perform(p)
    <2>1. thread[p] = "perform" /\ thread' = [thread EXCEPT ![p] = "post"] /\ ReturnHandler
      BY <1>6 DEF Perform
    <2>2. Cardinality(Performing') = n - 1 /\ n >= 1
      BY <1>1, <1>3, <2>1, PerformingMoves DEF n
    <2>3. n - 1 \in Nat /\ n = (n - 1) + 1
      BY <1>3, <2>2
    <2> QED BY <1>1, <1>3, <2>1, <2>2, <2>3, HandleGivenBack DEF Handles
  <1>7. CASE Post(p)
    <2>1. thread[p] = "post" /\ thread' = [thread EXCEPT ![p] = "done"] /\ UNCHANGED << pool, live >>
      BY <1>7 DEF Post, handles
    <2>2. Cardinality(Performing') = n
      BY <1>1, <1>3, <2>1, PerformingMoves DEF n
    <2> QED BY <1>1, <1>3, <2>1, <2>2 DEF Handles, HandlesTyped
  <1> QED BY <1>4, <1>5, <1>6, <1>7 DEF RequestPerformWrapper

LEMMA HandlesStep == ASSUME Inv, Next PROVE Handles' /\ HandlesTyped'
  <1> USE DEF Go, Return, Finish, DestroyCurlHandle
  <1>0. handle \in BOOLEAN
    BY DEF Inv, TypeOK
  <1>1. CASE Begin
    BY <1>0, <1>1, MainHandle DEF Begin, handles, threads, Rounds
  <1>2. CASE CreateCurlHandle
    BY <1>0, <1>2, MainHandle DEF CreateCurlHandle, handles, threads, Rounds, Requests
  <1>3. CASE PutRequest \/ DeleteRequest
    <2>1. /\ pc \in Requests /\ handle /\ thread' = thread
          /\ UNCHANGED handles \/ (handle' = FALSE /\ ReturnHandler)
      BY <1>3 DEF PutRequest, DeleteRequest, Request, RequestPerform, threads, Requests
    <2> QED BY <1>0, <2>1, MainHandle DEF handles, Rounds, Requests
  <1>4. CASE GetObjectRequest
    <2>1. /\ pc \in Requests /\ handle /\ thread' = thread
          /\ UNCHANGED handles \/ (handle' = FALSE /\ ReturnHandler)
      BY <1>4 DEF GetObjectRequest, Request, RequestPerform, threads, Requests
    <2> QED BY <1>0, <2>1, MainHandle DEF handles, Rounds, Requests
  <1>5. CASE PreMultipartPostRequest
    <2>1. /\ pc \in Requests /\ handle /\ thread' = thread
          /\ UNCHANGED handles \/ (handle' = FALSE /\ ReturnHandler)
      BY <1>5 DEF PreMultipartPostRequest, Request, RequestPerform, threads, Requests
    <2> QED BY <1>0, <2>1, MainHandle DEF handles, Rounds, Requests
  <1>6. CASE CompleteMultipartPostRequest \/ AbortMultipartUpload
    <2>1. /\ pc \in Requests /\ handle /\ thread' = thread
          /\ UNCHANGED handles \/ (handle' = FALSE /\ ReturnHandler)
      BY <1>6 DEF CompleteMultipartPostRequest, AbortMultipartUpload, Request, RequestPerform, threads, Requests
    <2> QED BY <1>0, <2>1, MainHandle DEF handles, Rounds, Requests
  <1>7. CASE ParallelMultipartUploadRequest \/ PreGetObjectRequest \/ RequestReturns
    <2>1. pc \notin Rounds /\ UNCHANGED << thread, handles >>
      BY <1>7 DEF ParallelMultipartUploadRequest, PreGetObjectRequest, RequestReturns, Rounds
    <2> QED BY <1>0, <2>1, MainHandle DEF handles
  <1>8. CASE MultiReadSettled \/ MultiReadRetry \/ MultiReadFails \/ Clear
    <2>1. pc \notin Rounds /\ UNCHANGED << thread, handles >>
      BY <1>8 DEF MultiReadSettled, MultiReadRetry, MultiReadFails, Clear, Read, Rounds, threads
    <2> QED BY <1>0, <2>1, MainHandle DEF handles
  <1>9. ASSUME UNCHANGED handles, Performing' = Performing PROVE Handles' /\ HandlesTyped'
    <2>1. InUse' = InUse
      BY <1>9 DEF InUse, Performing, handles
    <2> QED BY <1>9, <2>1 DEF Inv, Handles, TypeOK, HandlesTyped, handles
  <1>10. CASE AllCreated \/ Drain
    BY <1>9, <1>10 DEF AllCreated, Drain, threads, Performing
  <1>11. CASE JoinRest
    <2>1. Performing' = Performing
      BY <1>11, AllJoined DEF JoinRest, Performing
    <2> QED BY <1>9, <1>11, <2>1 DEF JoinRest
  <1>12. CASE MultiPerform
    <2> DEFINE joined == [p \in Part |-> IF p \in completed_tids THEN "none" ELSE thread[p]]
               new == clist_req[it]
    <2>1. /\ pc = "MultiPerform" /\ it <= Len(clist_req) /\ UNCHANGED handles
          /\ \/ thread' = [joined EXCEPT ![new] = "setup"]
             \/ thread' = joined
      BY <1>12 DEF MultiPerform
    <2>2. /\ it \in DOMAIN clist_req /\ new \in Part /\ completed_tids = {p \in Part : thread[p] = "done"}
      BY <2>1, ListTypes, ListFacts DEF Inv, Threads
    <2>3. thread[new] = "none"
      BY <2>1, <2>2, NextHasNoThread
    <2>4. \A p \in Part : joined[p] = "perform" <=> thread[p] = "perform"
      BY <2>2
    <2>5. \A p \in Part : thread'[p] = "perform" <=> thread[p] = "perform"
      <3> HIDE DEF joined, new
      <3>1. \A p \in Part : thread'[p] = joined[p] \/ (p = new /\ thread'[p] = "setup")
        BY <2>1, <2>2 DEF joined
      <3>2. \A p \in Part : p # new => thread'[p] = joined[p]
        BY <2>1, <2>2 DEF joined
      <3> QED BY <2>3, <2>4, <3>1, <3>2
    <2> QED BY <1>9, <2>1, <2>5 DEF Performing
  <1> QED
    BY <1>1, <1>2, <1>3, <1>4, <1>5, <1>6, <1>7, <1>8, <1>10, <1>11, <1>12, ThreadHandle DEF Next, MainThread
-----------------------------------------------------------------------------
(***************************************************************************)
(* The other types, and what the operations have promised.                 *)
(***************************************************************************)
Answer == {"none", "ok", "404", "503", "other"}

LEMMA AnswersAre == Answers \subseteq Answer
  BY DEF Answers, Answer

MainTyped ==
    /\ op \in DOMAIN Entry \cup {"idle"} /\ ret \in {"ok", "error"}
    /\ pc \in Requests \cup {"idle", "crashed", "ParallelMultipartUploadRequest", "PreGetObjectRequest",
                             "MultiPerform", "drain", "MultiRead", "Clear"}
    /\ retrycnt \in 0 .. Retries - 1 /\ handle \in BOOLEAN

LEMMA MainStep == ASSUME Inv, Next PROVE MainTyped'
  <1> DEFINE Attempt ==
                /\ op' \in {op, "idle"} /\ ret' \in {ret, "ok", "error"}
                /\ pc' \in {pc, "idle", "ParallelMultipartUploadRequest"}
                /\ handle' \in {handle, TRUE, FALSE}
                /\ \/ retrycnt' \in {retrycnt, 0}
                   \/ retrycnt + 1 < Retries /\ retrycnt' = retrycnt + 1
  <1> USE DEF Requests, Entry, main, handles, Go, Return, Finish, DestroyCurlHandle
  <1>0. MainTyped
    BY DEF Inv, TypeOK, MainTyped
  <1>14. ASSUME Attempt PROVE MainTyped'
    <2>1. retrycnt' \in 0 .. Retries - 1
      BY <1>0, <1>14, Sizes DEF MainTyped
    <2>2. handle' \in BOOLEAN
      BY <1>0, <1>14, Zenon DEF MainTyped
    <2> QED BY <1>0, <1>14, <2>1, <2>2 DEF MainTyped
  <1>15. 0 \in 0 .. Retries - 1
    BY Sizes
  <1> HIDE DEF Attempt
  <1>1. CASE Begin
    <2>1. op' \in DOMAIN Entry /\ pc' = Entry[op'] /\ UNCHANGED << ret, retrycnt, handles >>
      BY <1>1 DEF Begin
    <2> QED BY <1>0, <2>1 DEF MainTyped
  <1>2. CASE CreateCurlHandle
    <2>1. Attempt
      BY <1>2 DEF CreateCurlHandle, Attempt
    <2> QED BY <1>14, <2>1
  <1>3. CASE PutRequest \/ DeleteRequest
    <2>1. Attempt
      BY <1>3 DEF PutRequest, DeleteRequest, Request, RequestPerform, Attempt
    <2> QED BY <1>14, <2>1
  <1>4. CASE GetObjectRequest
    <2>1. Attempt
      BY <1>4 DEF GetObjectRequest, Request, RequestPerform, Attempt
    <2> QED BY <1>14, <2>1
  <1>5. CASE PreMultipartPostRequest
    <2>1. Attempt
      BY <1>5 DEF PreMultipartPostRequest, Request, RequestPerform, Attempt
    <2> QED BY <1>14, <2>1
  <1>6. CASE CompleteMultipartPostRequest
    <2>1. Attempt
      BY <1>6 DEF CompleteMultipartPostRequest, Request, RequestPerform, Attempt
    <2> QED BY <1>14, <2>1
  <1>7. CASE AbortMultipartUpload
    <2>1. Attempt
      BY <1>7 DEF AbortMultipartUpload, Request, RequestPerform, Attempt
    <2> QED BY <1>14, <2>1
  <1>8. CASE ParallelMultipartUploadRequest
    BY <1>0, <1>8, <1>15 DEF MainTyped, ParallelMultipartUploadRequest
  <1>9. CASE PreGetObjectRequest
    BY <1>0, <1>9, <1>15 DEF MainTyped, PreGetObjectRequest
  <1>10. CASE RequestReturns
    BY <1>0, <1>10, <1>15 DEF MainTyped, RequestReturns
  <1>11. CASE MultiPerform \/ AllCreated \/ Drain \/ JoinRest
    BY <1>0, <1>11, <1>15 DEF MainTyped, MultiPerform, AllCreated, Drain, JoinRest
  <1>12. CASE MultiReadSettled \/ MultiReadRetry \/ MultiReadFails \/ Clear
    BY <1>0, <1>12, <1>15 DEF MainTyped, MultiReadSettled, MultiReadRetry, MultiReadFails, Clear
  <1>13. ASSUME NEW p \in Part, RequestPerformWrapper(p) PROVE MainTyped'
    BY <1>0, <1>13, <1>15 DEF MainTyped, RequestPerformWrapper, LazySetup, Perform, Post
  <1> QED
    BY <1>1, <1>2, <1>3, <1>4, <1>5, <1>6, <1>7, <1>8, <1>9, <1>10, <1>11, <1>12, <1>13 DEF Next, MainThread

\* The request objects and the cache file.
Curl == [retry_count : 0 .. Retries, code : Answer, etag : BOOLEAN, startpos : 0 .. PartSize]
Bytes == [Part -> [Unit -> {"hole", "object", "error"}]]
PartsTyped == part \in [Part -> Curl] /\ data \in Bytes

LEMMA NewPartTyped == NewPart \in Curl /\ NewPart.startpos = 0
  BY Sizes DEF NewPart, Curl, Answer

\* An attempt writes what is left to write, or less.
LEMMA DownloadTyped ==
    ASSUME PartsTyped, NEW p \in Part, NEW answer \in Answer, Download(p, answer)
    PROVE  PartsTyped'
  <1>1. /\ part[p] \in Curl /\ part[p].startpos \in 0 .. PartSize /\ Left(p) \in 0 .. PartSize
        /\ part[p].startpos + Left(p) = PartSize
    BY Sizes DEF PartsTyped, Curl, Left
  <1>2. PICK bytes \in 0 .. Left(p), what \in {"object", "error"} :
          /\ data' = DownloadWriteCallback(p, bytes, what)
          /\ part' = [part EXCEPT ![p].startpos = @ + bytes, ![p].code = answer]
    <2>1. (Left(p) = 0 => answer = "none") /\ Left(p) \in 0 .. Left(p)
      BY <1>1 DEF Download
    <2>2. CASE answer = "ok"
      BY <2>1, <2>2 DEF Download
    <2>3. CASE answer = "none"
      BY <2>3 DEF Download
    <2>4. CASE answer \notin {"ok", "none"}
      <3>1. 1 \in 0 .. Left(p)
        BY <1>1, <2>1, <2>4
      <3> QED BY <2>4, <3>1 DEF Download
    <2> QED BY <2>2, <2>3, <2>4
  <1>3. data' \in Bytes
    BY <1>2 DEF PartsTyped, Bytes, DownloadWriteCallback
  <1>4. part[p].startpos + bytes \in 0 .. PartSize
    BY <1>1, <1>2
  <1>5. part' \in [Part -> Curl]
    BY <1>2, <1>4 DEF PartsTyped, Curl
  <1> QED BY <1>3, <1>5 DEF PartsTyped

LEMMA PartsStep == ASSUME Inv, Next PROVE PartsTyped'
  <1>0. PartsTyped
    BY DEF Inv, TypeOK, PartsTyped, Curl, Answer, Bytes
  <1>1. ASSUME UNCHANGED << part, data >> PROVE PartsTyped'
    BY <1>0, <1>1 DEF PartsTyped
  <1>2. ASSUME part' = [p \in Part |-> NewPart], data' \in Bytes PROVE PartsTyped'
    BY <1>2, NewPartTyped DEF PartsTyped
  <1>3. CASE Begin
    <2>1. [p \in Part |-> [u \in Unit |-> "hole"]] \in Bytes
      BY DEF Bytes
    <2> QED BY <1>2, <1>3, <2>1 DEF Begin
  <1>4. CASE CreateCurlHandle \/ PutRequest \/ DeleteRequest
    BY <1>1, <1>4 DEF CreateCurlHandle, PutRequest, DeleteRequest, transfer
  <1>5. CASE GetObjectRequest
    <2>1. PICK answer \in Answers : Download(1, answer)
      BY <1>5 DEF GetObjectRequest
    <2>2. 1 \in Part /\ answer \in Answer
      BY AnswersAre, Sizes DEF Part
    <2> QED BY <1>0, <2>1, <2>2, DownloadTyped
  <1>6. CASE PreMultipartPostRequest \/ CompleteMultipartPostRequest \/ AbortMultipartUpload
    BY <1>1, <1>6 DEF PreMultipartPostRequest, CompleteMultipartPostRequest, AbortMultipartUpload, transfer
  <1>7. CASE ParallelMultipartUploadRequest
    BY <1>0, <1>1, <1>2, <1>7 DEF ParallelMultipartUploadRequest, PartsTyped
  <1>8. CASE PreGetObjectRequest \/ RequestReturns \/ MultiPerform \/ AllCreated \/ Drain \/ JoinRest
    BY <1>1, <1>8 DEF PreGetObjectRequest, RequestReturns, MultiPerform, AllCreated, Drain, JoinRest, transfer
  <1>9. CASE MultiReadSettled
    <2>1. PICK p \in Part : part' = [part EXCEPT ![p] = NewPart] /\ data' = data
      BY <1>9 DEF MultiReadSettled
    <2> QED BY <1>0, <2>1, NewPartTyped DEF PartsTyped
  <1>10. CASE MultiReadRetry
    <2>1. PICK p \in Part :
             /\ part[p].retry_count < Retries /\ data' = data
             /\ part' = [part EXCEPT ![p] = IF op = "upload" THEN UploadMultipartPostRetryCallback(p)
                                                            ELSE ParallelGetObjectRetryCallback(p)]
      BY <1>10 DEF MultiReadRetry
    <2>2. part[p].retry_count + 1 \in 0 .. Retries /\ part[p].startpos \in 0 .. PartSize
      BY <1>0, <2>1, Sizes DEF PartsTyped, Curl
    <2>3. /\ UploadMultipartPostRetryCallback(p) \in Curl
          /\ ParallelGetObjectRetryCallback(p) \in Curl
      <3>1. \A r \in Curl, n \in 0 .. Retries, m \in 0 .. PartSize :
               [r EXCEPT !.retry_count = n] \in Curl /\ [r EXCEPT !.retry_count = n, !.startpos = m] \in Curl
        BY DEF Curl
      <3> QED BY <2>2, <3>1, NewPartTyped DEF UploadMultipartPostRetryCallback, ParallelGetObjectRetryCallback
    <2> QED BY <1>0, <2>1, <2>3 DEF PartsTyped
  <1>11. CASE MultiReadFails
    BY <1>1, <1>11 DEF MultiReadFails, transfer
  <1>12. CASE Clear
    BY <1>0, <1>2, <1>12 DEF Clear, PartsTyped
  <1>13. ASSUME NEW p \in Part, LazySetup(p) \/ Post(p) PROVE PartsTyped'
    BY <1>1, <1>13 DEF LazySetup, Post, transfer
  <1>14. ASSUME NEW p \in Part, Perform(p) PROVE PartsTyped'
    <2>1. ASSUME NEW answer \in Answers, UploadPart(p, answer) PROVE PartsTyped'
      <3>1. answer \in Answer
        BY AnswersAre
      <3>2. data' = data /\ \E etag \in BOOLEAN : part' = [part EXCEPT ![p].code = answer, ![p].etag = etag]
        BY <2>1 DEF UploadPart
      <3> QED BY <1>0, <3>1, <3>2 DEF PartsTyped, Curl
    <2>2. ASSUME NEW answer \in Answers \cup {"none"}, Download(p, answer) PROVE PartsTyped'
      <3>1. answer \in Answer
        BY AnswersAre DEF Answer
      <3> QED BY <1>0, <2>2, <3>1, DownloadTyped
    <2> QED BY <1>14, <2>1, <2>2 DEF Perform
  <1> QED
    BY <1>3, <1>4, <1>5, <1>6, <1>7, <1>8, <1>9, <1>10, <1>11, <1>12, <1>13, <1>14
       DEF Next, MainThread, RequestPerformWrapper

\* The ETags, the parts to ask for, and the service.
ServiceTyped ==
    /\ list \subseteq Part /\ remaining \in 0 .. Parts
    /\ want \in Contents \cup {Gone} /\ object \in Contents \cup {Gone}
    /\ upload \in {"none", "open"} /\ stored \subseteq Part

LEMMA ServiceStep == ASSUME Inv, Next PROVE ServiceTyped'
  <1>0. ServiceTyped
    BY DEF Inv, TypeOK, Promise, ServiceTyped
  <1> USE DEF service, transfer, main
  <1>1. CASE Begin
    <2>1. /\ UNCHANGED << object, upload, stored, list >> /\ remaining' = Parts
          /\ want' \in CASE op' \in {"put", "upload"} -> Contents \ {object}
                        [] op' = "delete" -> {Gone}
                        [] OTHER -> {object}
      BY <1>1 DEF Begin
    <2>2. want' \in Contents \cup {Gone}
      <3>1. CASE op' \in {"put", "upload"}
        BY <2>1, <3>1
      <3>2. CASE op' = "delete"
        BY <2>1, <3>2
      <3>3. CASE op' \notin {"put", "upload", "delete"}
        BY <1>0, <2>1, <3>3 DEF ServiceTyped
      <3> QED BY <3>1, <3>2, <3>3
    <2> QED BY <1>0, <2>1, <2>2, Sizes DEF ServiceTyped
  <1>2. CASE CreateCurlHandle
    BY <1>0, <1>2 DEF CreateCurlHandle, ServiceTyped
  <1>3. CASE PutRequest
    BY <1>0, <1>3 DEF PutRequest, Effect, ServiceTyped
  <1>4. CASE DeleteRequest
    BY <1>0, <1>4 DEF DeleteRequest, Effect, ServiceTyped
  <1>5. CASE GetObjectRequest
    BY <1>0, <1>5 DEF GetObjectRequest, ServiceTyped
  <1>6. CASE PreMultipartPostRequest
    BY <1>0, <1>6 DEF PreMultipartPostRequest, Effect, ServiceTyped
  <1>7. CASE CompleteMultipartPostRequest
    <2>1. list = Part
      BY <1>7 DEF CompleteMultipartPostRequest, Request, Inv, Promise
    <2> QED BY <1>0, <1>7, <2>1 DEF CompleteMultipartPostRequest, Effect, CompleteMultipartUpload, ServiceTyped
  <1>8. CASE AbortMultipartUpload
    BY <1>0, <1>8 DEF AbortMultipartUpload, Effect, ServiceTyped
  <1>9. CASE ParallelMultipartUploadRequest
    BY <1>0, <1>9 DEF ParallelMultipartUploadRequest, ServiceTyped
  <1>10. CASE PreGetObjectRequest
    <2>1. CASE remaining = 0
      BY <1>0, <1>10, <2>1 DEF PreGetObjectRequest, ServiceTyped
    <2>2. CASE remaining # 0
      <3>1. remaining \in 1 .. Parts
        BY <1>0, <2>2 DEF ServiceTyped
      <3>2. Len(Batch(remaining)) \in 1 .. remaining /\ remaining' = remaining - Len(Batch(remaining))
        BY <1>10, <2>2, <3>1, BatchFacts DEF PreGetObjectRequest
      <3>3. remaining' \in 0 .. Parts
        BY <3>1, <3>2, Sizes
      <3> QED BY <1>0, <1>10, <3>3 DEF PreGetObjectRequest, ServiceTyped
    <2> QED BY <2>1, <2>2
  <1>11. CASE RequestReturns \/ MultiPerform \/ AllCreated \/ Drain \/ JoinRest
    BY <1>0, <1>11 DEF RequestReturns, MultiPerform, AllCreated, Drain, JoinRest, ServiceTyped
  <1>12. CASE MultiReadSettled \/ MultiReadRetry \/ MultiReadFails \/ Clear
    BY <1>0, <1>12 DEF MultiReadSettled, MultiReadRetry, MultiReadFails, Clear, ServiceTyped
  <1>13. ASSUME NEW p \in Part, RequestPerformWrapper(p) PROVE ServiceTyped'
    BY <1>0, <1>13 DEF RequestPerformWrapper, LazySetup, Perform, UploadPart, Post, ServiceTyped
  <1> QED
    BY <1>1, <1>2, <1>3, <1>4, <1>5, <1>6, <1>7, <1>8, <1>9, <1>10, <1>11, <1>12, <1>13 DEF Next, MainThread

\* Only RequestReturns goes on to complete an upload, and it has looked at
\* the ETag of every part.
LEMMA PromiseStep == ASSUME Inv, Next PROVE Promise'
  <1>0. object' \in Contents \cup {Gone}
    BY ServiceStep DEF ServiceTyped
  <1>1. (op' = op /\ want' = want) \/ op' # "delete" \/ want' = Gone
    <2>1. CASE Begin
      <3>1. want' \in CASE op' \in {"put", "upload"} -> Contents \ {object}
                       [] op' = "delete" -> {Gone}
                       [] OTHER -> {object}
        BY <2>1 DEF Begin
      <3>2. CASE op' = "delete"
        BY <3>1, <3>2
      <3> QED BY <3>2
    <2>2. CASE CreateCurlHandle \/ PutRequest \/ DeleteRequest \/ GetObjectRequest
      BY <2>2 DEF CreateCurlHandle, PutRequest, DeleteRequest, GetObjectRequest, RequestPerform, Return, Finish
    <2>3. CASE PreMultipartPostRequest \/ CompleteMultipartPostRequest \/ AbortMultipartUpload
      BY <2>3 DEF PreMultipartPostRequest, CompleteMultipartPostRequest, AbortMultipartUpload, RequestPerform,
                  Return, Finish, Go
    <2>4. CASE ParallelMultipartUploadRequest \/ PreGetObjectRequest \/ RequestReturns
      BY <2>4 DEF ParallelMultipartUploadRequest, PreGetObjectRequest, RequestReturns, Return, Go
    <2>5. CASE MultiPerform \/ AllCreated \/ Drain \/ JoinRest
      BY <2>5 DEF MultiPerform, AllCreated, Drain, JoinRest, main
    <2>6. CASE MultiReadSettled \/ MultiReadRetry \/ MultiReadFails \/ Clear
      BY <2>6 DEF MultiReadSettled, MultiReadRetry, MultiReadFails, Clear, main, Return, Go
    <2>7. ASSUME NEW p \in Part, RequestPerformWrapper(p) PROVE op' = op /\ want' = want
      BY <2>7 DEF RequestPerformWrapper, LazySetup, Perform, Post, main
    <2> QED BY <2>1, <2>2, <2>3, <2>4, <2>5, <2>6, <2>7 DEF Next, MainThread
  <1>2. /\ pc' = "CompleteMultipartPostRequest" => (pc' = pc \/ list = Part) /\ list' = list
        /\ pc' = "GetObjectRequest" => part'[1].startpos = 0
    <2> USE DEF main, transfer, Go, Return, Finish
    <2>1. CASE Begin
      <3>1. 1 \in Part
        BY Sizes DEF Part
      <3> QED BY <2>1, <3>1, NewPartTyped DEF Begin, Entry
    <2>2. CASE CreateCurlHandle \/ PutRequest \/ DeleteRequest
      BY <2>2 DEF CreateCurlHandle, PutRequest, DeleteRequest, Request, RequestPerform, Requests, Inv, Promise
    <2>3. CASE GetObjectRequest
      BY <2>3 DEF GetObjectRequest, Request, RequestPerform, RemakeHandle
    <2>4. CASE PreMultipartPostRequest \/ CompleteMultipartPostRequest \/ AbortMultipartUpload
      BY <2>4 DEF PreMultipartPostRequest, CompleteMultipartPostRequest, AbortMultipartUpload, Request, RequestPerform
    <2>5. CASE ParallelMultipartUploadRequest
      BY <2>5 DEF ParallelMultipartUploadRequest
    <2>6. CASE PreGetObjectRequest
      BY <2>6 DEF PreGetObjectRequest
    <2>7. CASE RequestReturns
      BY <2>7 DEF RequestReturns, Finished
    <2>8. CASE MultiPerform \/ AllCreated \/ Drain \/ JoinRest
      BY <2>8 DEF MultiPerform, AllCreated, Drain, JoinRest
    <2>9. CASE MultiReadSettled \/ MultiReadRetry \/ MultiReadFails \/ Clear
      BY <2>9 DEF MultiReadSettled, MultiReadRetry, MultiReadFails, Clear, Read
    <2>10. ASSUME NEW p \in Part, RequestPerformWrapper(p) PROVE pc' = pc /\ pc \in Rounds
      BY <2>10, ThreadGoesOn DEF RequestPerformWrapper, LazySetup, Perform, Post
    <2> QED BY <2>1, <2>2, <2>3, <2>4, <2>5, <2>6, <2>7, <2>8, <2>9, <2>10 DEF Next, MainThread, Rounds
  <1> QED BY <1>0, <1>1, <1>2 DEF Inv, Promise
-----------------------------------------------------------------------------
(***************************************************************************)
(* The invariant holds.                                                    *)
(***************************************************************************)
LEMMA TypesTogether ==
    MainTyped /\ PartsTyped /\ ListsTyped /\ ThreadsTyped /\ HandlesTyped /\ ServiceTyped => TypeOK
  BY DEF MainTyped, PartsTyped, Curl, Answer, Bytes, ListsTyped, List, ThreadsTyped, ThreadStates,
         HandlesTyped, ServiceTyped, TypeOK

LEMMA InvInit == Init => Inv
  <1> SUFFICES ASSUME Init PROVE Inv
    OBVIOUS
  <1> USE DEF Init
  <1>1. MainTyped
    <2>1. 0 \in 0 .. Retries - 1
      BY Sizes
    <2> QED BY <2>1 DEF MainTyped
  <1>2. PartsTyped
    BY NewPartTyped DEF PartsTyped, Bytes
  <1>3. ListsTyped
    BY EmptyList, Sizes DEF ListsTyped
  <1>4. ThreadsTyped
    BY Sizes DEF ThreadsTyped, ThreadStates
  <1>5. HandlesTyped
    BY Sizes DEF HandlesTyped
  <1>6. ServiceTyped
    <2>1. 0 \in 0 .. Parts
      BY Sizes
    <2> QED BY <2>1 DEF ServiceTyped
  <1>7. Control /\ Promise
    <2>1. Promise
      BY DEF Promise
    <2>2. Control
      BY Zenon DEF Control, Rounds
    <2> QED BY <2>1, <2>2
  <1>8. Lists
    <2>1. it <= Parts + 1
      BY Sizes
    <2> QED BY <2>1, EmptyList DEF Lists, Rounds
  <1>9. Threads /\ Permits
    BY DEF Threads, Permits, Rounds
  <1>10. Handles
    <2>1. Performing = {} /\ Cardinality({}) = 0
      BY FS_EmptySet DEF Performing
    <2>2. handle = FALSE /\ live = pool /\ pool = MaxHandlers
      OBVIOUS
    <2> HIDE DEF Init
    <2>3. InUse = 0
      BY <2>1, <2>2 DEF InUse, Performing
    <2> QED BY <2>2, <2>3, Sizes DEF Handles
  <1> QED BY <1>1, <1>2, <1>3, <1>4, <1>5, <1>6, <1>7, <1>8, <1>9, <1>10, TypesTogether DEF Inv

LEMMA InvStep == Inv /\ [Next]_vars => Inv'
  <1> SUFFICES ASSUME Inv, [Next]_vars PROVE Inv'
    OBVIOUS
  <1>1. CASE Next
    <2>1. /\ MainTyped' /\ PartsTyped' /\ ListsTyped' /\ ThreadsTyped' /\ HandlesTyped' /\ ServiceTyped'
      BY <1>1, MainStep, PartsStep, ListsStep, ThreadsStep, HandlesStep, ServiceStep
    <2>2. TypeOK'
      BY <2>1, TypesTogether, PTL
    <2> QED
      BY <1>1, <2>2, ControlStep, PromiseStep, ListsStep, ThreadsStep, HandlesStep DEF Inv
  <1>2. CASE UNCHANGED vars
    <2> USE <1>2 DEF vars, main, handles, lists, threads, service, transfer, Inv
    <2>1. TypeOK'
      BY DEF TypeOK
    <2>2. Control' /\ Promise'
      BY DEF Control, Promise
    <2>3. Lists' /\ Threads'
      BY DEF Lists, Threads
    <2>4. Permits'
      BY DEF Permits, Living
    <2>5. Handles'
      BY DEF Handles, InUse
    <2> QED BY <2>1, <2>2, <2>3, <2>4, <2>5
  <1> QED BY <1>1, <1>2

LEMMA InvAlways == Spec => []Inv
  BY InvInit, InvStep, PTL DEF Spec

\* The state of the request layer has its type, whatever fails: no count of
\* retries, handles or permits leaves its range.
THEOREM TransferTypes == Spec => []TypeOK
  <1>1. Inv => TypeOK
    BY DEF Inv
  <1> QED BY <1>1, InvAlways, PTL

\* Every curl handle is in the pool or in use by one request, no operation
\* keeps one, and the threads of MultiPerform never make more of them than
\* CurlHandlerPool was made for.
THEOREM HandlesAreAccounted == Spec => []HandlesAccounted
  <1>1. Inv => HandlesAccounted
    <2> SUFFICES ASSUME Inv, op = "idle" PROVE InUse = 0
      BY DEF Inv, Handles, HandlesAccounted
    <2>1. pc = "idle" /\ ~ handle
      BY DEF Inv, Control, Requests
    <2>2. Performing = {} /\ Cardinality({}) = 0
      BY <2>1, FS_EmptySet DEF Inv, Threads, Rounds, Performing
    <2> QED BY <2>1, <2>2 DEF InUse, Performing
  <1> QED BY <1>1, InvAlways, PTL

\* No thread of RequestPerformWrapper outlives the MultiPerform that started
\* it, or the request object it works on.
THEOREM ThreadsAreInside == Spec => []ThreadsStayInside
  <1>1. Inv => ThreadsStayInside
    BY DEF Inv, Threads, Lists, Rounds, ThreadsStayInside
  <1> QED BY <1>1, InvAlways, PTL
-----------------------------------------------------------------------------
(***************************************************************************)
(* The requests implement ObjectStore.                                     *)
(***************************************************************************)
Whole == \A u \in Unit : data[1][u] = "object"

\* What a step of an operation that runs does to the object and the file.
LEMMA Changes ==
    ASSUME \/ op \in {"put", "upload", "delete"} /\ object' \in {object, want} /\ data' = data
           \/ op \in {"get", "download"} /\ object' = object
    PROVE  Store!Change
  <1>1. CASE op \in {"put", "upload", "delete"}
    <2>1. (\A u \in Unit : data[1][u] = "object")' = (\A u \in Unit : data[1][u] = "object")
      BY <1>1
    <2>2. op \notin {"get", "download"}
      BY <1>1
    <2> QED BY <1>1, <2>1, <2>2 DEF Store!Change, Store!Writes, Store!Reads
  <1>2. CASE op \in {"get", "download"}
    <2>1. (\A u \in Unit : data[1][u] = "object")' \in BOOLEAN
      OBVIOUS
    <2>2. op \notin {"put", "upload", "delete"}
      BY <1>2
    <2> QED BY <1>2, <2>1, <2>2 DEF Store!Change, Store!Writes, Store!Reads
  <1> QED BY <1>1, <1>2

\* A step that shows nothing to the caller.
LEMMA Hidden ==
    ASSUME UNCHANGED << object, op, want, data, ret >>
    PROVE  UNCHANGED Store!vars
  BY DEF Store!vars

LEMMA Works ==
    ASSUME op # "idle", UNCHANGED << op, want, ret >>,
           \/ op \in {"put", "upload", "delete"} /\ object' \in {object, want} /\ data' = data
           \/ op \in {"get", "download"} /\ object' = object
    PROVE  Store!Next
  BY Changes DEF Store!Work, Store!Next

\* An operation that returns success has done what was asked for.
LEMMA Returns ==
    ASSUME op' = "idle", want' = want, ret' \in {"ok", "error"},
           \/ op \in {"put", "upload", "delete"} /\ object' \in {object, want} /\ data' = data
           \/ op \in {"get", "download"} /\ object' = object,
           ret' = "ok" => /\ op \in {"put", "upload", "delete"} => object' = want
                          /\ op = "get" => Whole'
    PROVE  Store!Next
  <1>1. Store!Change /\ op # "idle"
    BY Changes
  <1> QED BY <1>1 DEF Store!Return, Store!Next, Store!Writes, Whole

LEMMA StoreBegin == ASSUME Begin PROVE Store!Next
  <1>1. /\ op = "idle" /\ op' \in {"put", "upload", "delete", "get", "download"}
        /\ want' \in CASE op' \in {"put", "upload"} -> Contents \ {object}
                      [] op' = "delete" -> {Gone}
                      [] OTHER -> {object}
        /\ data' = [p \in Part |-> [u \in Unit |-> "hole"]]
        /\ UNCHANGED << object, ret >>
    BY DEF Begin, Entry, service
  <1>2. (\A u \in Unit : data[1][u] = "object")' = FALSE
    <2>1. 1 \in Part /\ 1 \in Unit
      BY Sizes DEF Part, Unit
    <2>2. data'[1][1] = "hole"
      BY <1>1, <2>1
    <2> QED BY <2>1, <2>2
  <1>3. CASE op' \in {"put", "upload"}
    <2>1. want' \in Contents \ {object}
      BY <1>1, <1>3
    <2> QED BY <1>1, <1>2, <1>3, <2>1 DEF Store!Begin, Store!Next
  <1>4. CASE op' = "delete"
    <2>1. want' = Gone
      BY <1>1, <1>4
    <2> QED BY <1>1, <1>2, <1>4, <2>1 DEF Store!Begin, Store!Next
  <1>5. CASE op' \in {"get", "download"}
    <2>1. want' = object
      BY <1>1, <1>5
    <2> QED BY <1>1, <1>2, <1>5, <2>1 DEF Store!Begin, Store!Next, Store!Reads
  <1> QED BY <1>1, <1>3, <1>4, <1>5

\* A request that writes the object has written it when it is answered well.
LEMMA StoreWrites ==
    ASSUME Inv, NEW answer,
           \/ answer \in {"ok", "none"} /\ object' = want
           \/ answer # "ok" /\ object' = object,
           op \in {"put", "upload", "delete"}, UNCHANGED << want, data >>,
           RequestPerform(answer, FALSE, Finish("ok"), Finish("error"))
    PROVE  Store!Next
  <1>1. CASE op' = "idle"
    <2>1. ret' \in {"ok", "error"} /\ (ret' = "ok" => answer = "ok")
      BY <1>1 DEF RequestPerform, Finish, Return
    <2> QED BY <1>1, <2>1, Returns
  <1>2. CASE op' # "idle"
    <2>1. UNCHANGED << op, ret >>
      BY <1>2 DEF RequestPerform, Finish, Return
    <2> QED BY <2>1, Works
  <1> QED BY <1>1, <1>2

LEMMA StoreStep == ASSUME Inv, Next PROVE Store!Next \/ UNCHANGED Store!vars
  <1> USE DEF service, transfer, main
  <1>0. op \in {"put", "upload", "delete", "get", "download", "idle"} /\ ret \in {"ok", "error"}
    BY DEF Inv, TypeOK, Entry
  <1>1. CASE CreateCurlHandle
    <2>1. UNCHANGED << object, want, data >> /\ op # "idle"
      BY <1>1 DEF CreateCurlHandle, Inv, Control, Requests
    <2>2. CASE UNCHANGED << op, ret >>
      BY <2>1, <2>2, Hidden
    <2>3. CASE Return("error")
      BY <1>0, <2>1, <2>3, Returns DEF Return
    <2> QED BY <1>1, <2>2, <2>3 DEF CreateCurlHandle
  <1>2. CASE PutRequest
    <2>1. op = "put"
      BY <1>2 DEF PutRequest, Request, Inv, Control
    <2> QED BY <1>2, <2>1, StoreWrites DEF PutRequest, Effect
  <1>3. CASE DeleteRequest
    <2>1. op = "delete" /\ want = Gone
      BY <1>3 DEF DeleteRequest, Request, Inv, Control, Promise
    <2> QED BY <1>3, <2>1, StoreWrites DEF DeleteRequest, Effect
  <1>4. CASE CompleteMultipartPostRequest
    <2>1. op = "upload" /\ list = Part
      BY <1>4 DEF CompleteMultipartPostRequest, Request, Inv, Control, Promise
    <2> QED BY <1>4, <2>1, StoreWrites DEF CompleteMultipartPostRequest, Effect, CompleteMultipartUpload
  <1>5. CASE AbortMultipartUpload \/ PreMultipartPostRequest
    <2>1. op = "upload" /\ UNCHANGED << object, want, data >>
      BY <1>5 DEF AbortMultipartUpload, PreMultipartPostRequest, Request, Inv, Control, Effect
    <2>2. UNCHANGED << op, ret >> \/ (op' = "idle" /\ ret' = "error")
      BY <1>5 DEF AbortMultipartUpload, PreMultipartPostRequest, RequestPerform, Finish, Return, Go
    <2>3. CASE UNCHANGED << op, ret >>
      BY <2>1, <2>3, Hidden
    <2>4. CASE op' = "idle" /\ ret' = "error"
      BY <2>1, <2>4, Returns
    <2> QED BY <2>2, <2>3, <2>4
  <1>6. CASE GetObjectRequest
    <2>1. /\ op = "get" /\ part[1].startpos = 0 /\ UNCHANGED << object, want >>
      BY <1>6 DEF GetObjectRequest, Request, Inv, Control, Promise
    <2>2. PICK answer \in Answers :
             Download(1, answer) /\ RequestPerform(answer, TRUE, Finish("ok"), Finish("error"))
      BY <1>6 DEF GetObjectRequest
    <2>3. op' = "idle" /\ ret' \in {"ok", "error"} /\ (ret' = "ok" => answer = "ok")
      BY <2>2 DEF RequestPerform, RemakeHandle, Finish, Return
    <2>4. answer = "ok" => Whole'
      <3> SUFFICES ASSUME answer = "ok" PROVE Whole'
        OBVIOUS
      <3>1. data' = DownloadWriteCallback(1, Left(1), "object")
        BY <2>2 DEF Download
      <3>2. Left(1) = PartSize /\ 1 \in Part /\ data \in Bytes
        BY <2>1, Sizes DEF Left, Part, Inv, TypeOK, Bytes
      <3>3. \A u \in Unit : 0 < u /\ u <= 0 + PartSize
        BY Sizes DEF Unit
      <3>4. \A u \in Unit : data'[1][u] = "object"
        BY <2>1, <3>1, <3>2, <3>3 DEF DownloadWriteCallback, Bytes
      <3> QED BY <3>4 DEF Whole
    <2> QED BY <2>1, <2>3, <2>4, Returns
  <1>7. CASE ParallelMultipartUploadRequest
    <2>1. op = "upload" /\ UNCHANGED << object, want, data >>
      BY <1>7 DEF ParallelMultipartUploadRequest, Inv, Control
    <2>2. UNCHANGED << op, ret >> \/ (op' = "idle" /\ ret' = "error")
      BY <1>7 DEF ParallelMultipartUploadRequest, Return, Go
    <2>3. CASE UNCHANGED << op, ret >>
      BY <2>1, <2>3, Hidden
    <2>4. CASE op' = "idle" /\ ret' = "error"
      BY <2>1, <2>4, Returns
    <2> QED BY <2>2, <2>3, <2>4
  <1>8. CASE PreGetObjectRequest
    <2>1. op = "download" /\ UNCHANGED << object, want, data >>
      BY <1>8 DEF PreGetObjectRequest, Inv, Control
    <2>2. UNCHANGED << op, ret >> \/ (op' = "idle" /\ ret' = "ok")
      BY <1>8 DEF PreGetObjectRequest, Return, Go
    <2>3. CASE UNCHANGED << op, ret >>
      BY <2>1, <2>3, Hidden
    <2>4. CASE op' = "idle" /\ ret' = "ok"
      BY <2>1, <2>4, Returns
    <2> QED BY <2>2, <2>3, <2>4
  <1>9. CASE RequestReturns \/ Clear
    <2>1. op \in {"upload", "download"} /\ UNCHANGED << object, want, data >>
      BY <1>9 DEF RequestReturns, Clear, Inv, Control
    <2>2. UNCHANGED << op, ret >> \/ (op' = "idle" /\ ret' = "error")
      BY <1>9 DEF RequestReturns, Clear, Return, Go
    <2>3. CASE UNCHANGED << op, ret >>
      BY <2>1, <2>3, Hidden
    <2>4. CASE op' = "idle" /\ ret' = "error"
      BY <2>1, <2>4, Returns
    <2> QED BY <2>2, <2>3, <2>4
  <1>10. CASE MultiPerform \/ AllCreated \/ Drain \/ JoinRest
    BY <1>10, Hidden DEF MultiPerform, AllCreated, Drain, JoinRest
  <1>11. CASE MultiReadSettled \/ MultiReadRetry \/ MultiReadFails
    BY <1>11, Hidden DEF MultiReadSettled, MultiReadRetry, MultiReadFails
  <1>12. ASSUME NEW p \in Part, RequestPerformWrapper(p) PROVE Store!Next \/ UNCHANGED Store!vars
    <2>1. CASE LazySetup(p) \/ Post(p)
      BY <2>1, Hidden DEF LazySetup, Post
    <2>2. CASE Perform(p)
      <3>1. /\ op \in {"upload", "download"} /\ UNCHANGED << object, op, want, ret >>
            /\ op = "upload" => data' = data
        BY <2>2 DEF Perform, UploadPart
      <3> QED BY <3>1, Works
    <2> QED BY <1>12, <2>1, <2>2 DEF RequestPerformWrapper
  <1> QED
    BY <1>1, <1>2, <1>3, <1>4, <1>5, <1>6, <1>7, <1>8, <1>9, <1>10, <1>11, <1>12, StoreBegin DEF Next, MainThread

(***************************************************************************)
(* S3fsCurl and S3fsMultiCurl implement ObjectStore, for every number of   *)
(* parts and threads and whatever requests, answers, ETags or threads      *)
(* fail: the object changes at once, from what it was to what the          *)
(* operation that runs shall make of it, and success means that it has.    *)
(***************************************************************************)
THEOREM RequestsImplementObjectStore == Spec => ImplementsObjectStore
  <1>1. Init => Store!Init
    <2> SUFFICES ASSUME Init PROVE Store!Init
      OBVIOUS
    <2>1. (\A u \in Unit : data[1][u] = "object") = FALSE
      BY Sizes DEF Init, Part, Unit
    <2> QED BY <2>1 DEF Init, Store!Init
  <1>2. Inv /\ [Next]_vars => [Store!Next]_Store!vars
    <2>1. UNCHANGED vars => UNCHANGED Store!vars
      BY Hidden DEF vars, main, service, transfer
    <2> QED BY <2>1, StoreStep
  <1> QED BY <1>1, <1>2, InvAlways, PTL DEF Spec, ImplementsObjectStore, Store!Spec
=============================================================================
