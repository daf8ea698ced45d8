------------------------------ MODULE Transfer ------------------------------
(***************************************************************************)
(* The requests of src/src/protocols/s3/curl.cpp by which FdEntity moves   *)
(* an object: class S3fsCurl with its retries, the parallel multipart      *)
(* upload and the parallel download with class S3fsMultiCurl and its       *)
(* threads, the pool of curl handles and the service they talk to.         *)
(*                                                                         *)
(* The main thread runs one operation at a time; pc is the function it is  *)
(* in.  Every part of a parallel operation has one S3fsCurl object at a    *)
(* time, and a thread while MultiPerform runs.  An attempt (one call of    *)
(* curl_easy_perform) ends with an answer of the service, or without one   *)
(* after it has taken effect or not; what it does it has done when the     *)
(* call returns.  Bytes of a part are counted in units, of which the body  *)
(* of an error answer fills one.                                           *)
(***************************************************************************)
EXTENDS Naturals, Sequences, FiniteSets

CONSTANTS
    Contents,               \* contents of the object
    Parts,                  \* how many parts the file is cut into
    PartSize,               \* units in a part
    MaxParallel,            \* S3fsCurl::max_parallel_cnt
    MaxHandlers,            \* CurlHandlerPool::mMaxHandlers
    Retries,                \* S3fsCurl::retries
    Faults                  \* what may go wrong

ASSUME SizesAssumption ==
    /\ {Parts, PartSize, MaxParallel, MaxHandlers, Retries} \subseteq Nat \ {0}
    /\ MaxParallel <= MaxHandlers
ASSUME TransferFaults == Faults \subseteq {"net", "http", "missing", "etag", "setup", "init", "thread"}

Part == 1 .. Parts
Unit == 1 .. PartSize
Gone == "gone"

VARIABLES
    op, want, ret,          \* the operation, what it shall make of the object, its result
    pc,                     \* where the main thread is
    retrycnt,               \* attempts of RequestPerform that failed
    handle,                 \* the main thread's S3fsCurl has a curl handle
    pool, live,             \* curl handles in the pool, and in all
    part,                   \* the S3fsCurl of each part
    clist_all, clist_req,   \* S3fsMultiCurl: requests to make, requests made
    freed,                  \* parts whose object in clist_req is deleted
    it,                     \* iterator over clist_req, or sem.wait()s of the last loop
    thread,                 \* the thread of each part
    completed_tids,         \* threads that wait to be joined
    sem,                    \* permits of the semaphore
    success,                \* every thread could be created
    list,                   \* parts whose ETag is known
    remaining,              \* parts not yet asked for in a download
    data,                   \* what the cache file holds
    object, upload, stored  \* the service: object, multipart upload, its parts

main == << op, want, ret, pc, retrycnt >>
handles == << handle, pool, live >>
lists == << clist_all, clist_req, freed, it >>
threads == << thread, completed_tids, sem, success >>
service == << object, upload, stored >>
transfer == << part, list, remaining, data >>
vars == << main, handles, lists, threads, service, transfer >>

\* retry_count; LastResponseCode by what it leads to; ETag in the headers; partdata.startpos
NewPart == [retry_count |-> 0, code |-> "none", etag |-> FALSE, startpos |-> 0]

Init ==
    /\ op = "idle" /\ ret = "ok" /\ pc = "idle" /\ retrycnt = 0
    /\ handle = FALSE /\ pool = MaxHandlers /\ live = MaxHandlers
    /\ part = [p \in Part |-> NewPart]
    /\ clist_all = <<>> /\ clist_req = <<>> /\ freed = {} /\ it = 1
    /\ thread = [p \in Part |-> "none"] /\ completed_tids = {} /\ sem = MaxParallel /\ success = TRUE
    /\ list = {} /\ remaining = 0
    /\ data = [p \in Part |-> [u \in Unit |-> "hole"]]
    /\ object \in Contents /\ want = object /\ upload = "none" /\ stored = {}
-----------------------------------------------------------------------------
(***************************************************************************)
(* CurlHandlerPool.  A handle that comes back to a pool of MaxHandlers - 1 *)
(* others makes the oldest one go.                                         *)
(***************************************************************************)
GetHandler ==
    \/ pool > 0 /\ pool' = pool - 1 /\ UNCHANGED live
    \/ pool = 0 /\ live' = live + 1 /\ UNCHANGED pool

NoHandler == pool = 0 /\ "init" \in Faults

\* Faulty: a handle too many is forgotten instead of freed.
ReturnHandlerForgotten ==
    /\ pool' = IF pool + 1 >= MaxHandlers THEN MaxHandlers - 1 ELSE pool + 1
    /\ UNCHANGED live

ReturnHandler ==
    LET kept == IF pool + 1 >= MaxHandlers THEN MaxHandlers - 1 ELSE pool + 1 IN
    /\ pool' = kept
    /\ live' = live - (pool + 1 - kept)

DestroyCurlHandle == handle' = FALSE /\ ReturnHandler
-----------------------------------------------------------------------------
(***************************************************************************)
(* S3fsCurl::RequestPerform.  A lazily set up request has lost its type in *)
(* CreateCurlHandle, RemakeHandle refuses it and it is not repeated.       *)
(***************************************************************************)
Answers ==
    {"ok"} \cup (IF "http" \in Faults THEN {"503", "other"} ELSE {})
           \cup (IF "missing" \in Faults THEN {"404"} ELSE {})
           \cup (IF "net" \in Faults THEN {"none"} ELSE {})

RemakeHandle(lazy) == ~lazy

RequestPerform(answer, lazy, succeed, fail) ==
    \/ answer = "ok" /\ succeed
    \/ answer \in {"404", "other"} /\ fail
    \/ /\ answer \in {"503", "none"}
       /\ IF RemakeHandle(lazy) /\ retrycnt + 1 < Retries
             THEN retrycnt' = retrycnt + 1 /\ UNCHANGED << op, ret, pc, handles >>
             ELSE fail

\* An attempt that is answered well has had its effect, any other may have had it.
Effect(answer, change) ==
    \/ answer \in {"ok", "none"} /\ change
    \/ answer # "ok" /\ UNCHANGED service

Go(next) == pc' = next /\ retrycnt' = 0 /\ UNCHANGED << op, ret >>

Return(rc) == op' = "idle" /\ pc' = "idle" /\ ret' = rc /\ retrycnt' = 0

\* The destructor of S3fsCurl gives the handle back.
Finish(rc) == DestroyCurlHandle /\ Return(rc)

Request(name) == pc = name /\ handle
Requests == {"PutRequest", "DeleteRequest", "GetObjectRequest", "PreMultipartPostRequest",
             "CompleteMultipartPostRequest", "AbortMultipartUpload"}

CreateCurlHandle ==
    /\ pc \in Requests /\ ~handle
    /\ \/ GetHandler /\ handle' = TRUE /\ UNCHANGED << op, ret, pc, retrycnt >>
       \/ NoHandler /\ Return("error") /\ UNCHANGED handles
    /\ UNCHANGED << want, lists, threads, service, transfer >>

PutRequest ==
    /\ Request("PutRequest")
    /\ \E answer \in Answers :
          /\ Effect(answer, object' = want /\ UNCHANGED << upload, stored >>)
          /\ RequestPerform(answer, FALSE, Finish("ok"), Finish("error"))
    /\ UNCHANGED << want, lists, threads, transfer >>

DeleteRequest ==
    /\ Request("DeleteRequest")
    /\ \E answer \in Answers :
          /\ Effect(answer, object' = Gone /\ UNCHANGED << upload, stored >>)
          /\ RequestPerform(answer, FALSE, Finish("ok"), Finish("error"))
    /\ UNCHANGED << want, lists, threads, transfer >>
-----------------------------------------------------------------------------
(***************************************************************************)
(* Downloads.  DownloadWriteCallback writes any body into the file, that   *)
(* of an error answer too, and moves startpos on; when nothing is left to  *)
(* write it refuses the body, which curl reports as a write error.         *)
(***************************************************************************)
DownloadWriteCallback(p, bytes, what) ==
    [data EXCEPT ![p] = [u \in Unit |->
        IF part[p].startpos < u /\ u <= part[p].startpos + bytes THEN what ELSE @[u]]]

Left(p) == PartSize - part[p].startpos

\* One attempt to get what is left of part p.
Download(p, answer) ==
    /\ Left(p) = 0 => answer = "none"
    /\ \E bytes \in CASE answer = "ok" -> {Left(p)}
                     [] answer = "none" -> 0 .. Left(p)
                     [] OTHER -> {1} :
          /\ data' = DownloadWriteCallback(p, bytes, IF answer \in {"ok", "none"} THEN "object" ELSE "error")
          /\ part' = [part EXCEPT ![p].startpos = @ + bytes, ![p].code = answer]

GetObjectRequest ==
    /\ Request("GetObjectRequest")
    /\ \E answer \in Answers :
          /\ Download(1, answer)
          /\ RequestPerform(answer, TRUE, Finish("ok"), Finish("error"))
    /\ UNCHANGED << want, lists, threads, service, list, remaining >>
-----------------------------------------------------------------------------
(***************************************************************************)
(* S3fsMultiCurl::Request and MultiPerform: a thread for every request, at *)
(* most MaxParallel of them at a time, all joined at the end.  A permit    *)
(* that was taken for a thread that could not be created never comes back. *)
(***************************************************************************)
Wait == sem > 0 /\ sem' = sem - 1

StartRound(all) ==
    /\ clist_req' = all /\ clist_all' = <<>> /\ freed' = {} /\ it' = 1
    /\ sem' = MaxParallel /\ success' = TRUE

MultiPerform ==
    /\ pc = "MultiPerform" /\ it <= Len(clist_req)
    /\ Wait
    /\ completed_tids' = {}
    /\ LET joined == [p \in Part |-> IF p \in completed_tids THEN "none" ELSE thread[p]] IN
       \/ /\ thread' = [joined EXCEPT ![clist_req[it]] = "setup"]
          /\ it' = it + 1
          /\ UNCHANGED << success, pc >>
       \/ /\ "thread" \in Faults
          /\ thread' = joined
          /\ success' = FALSE
          /\ pc' = "drain" /\ it' = 1
    /\ UNCHANGED << op, want, ret, retrycnt, handles, clist_all, clist_req, freed, service, transfer >>

AllCreated ==
    /\ pc = "MultiPerform" /\ it > Len(clist_req)
    /\ pc' = "drain" /\ it' = 1
    /\ UNCHANGED << op, want, ret, retrycnt, handles, clist_all, clist_req, freed, threads, service, transfer >>

\* Faulty: the last loop ends one permit early.
DrainLoopShort == MaxParallel - 1

DrainLoop == MaxParallel

Drain ==
    /\ pc = "drain" /\ it <= DrainLoop
    /\ Wait
    /\ it' = it + 1
    /\ UNCHANGED << main, handles, clist_all, clist_req, freed, thread, completed_tids, success, service, transfer >>

JoinRest ==
    /\ pc = "drain" /\ it > DrainLoop
    /\ thread' = [p \in Part |-> IF p \in completed_tids THEN "none" ELSE thread[p]]
    /\ completed_tids' = {}
    /\ it' = 1
    /\ pc' = IF success THEN "MultiRead" ELSE "Clear"
    /\ UNCHANGED << op, want, ret, retrycnt, handles, clist_all, clist_req, freed, sem, success, service, transfer >>
-----------------------------------------------------------------------------
(***************************************************************************)
(* S3fsMultiCurl::RequestPerformWrapper, the thread of part p.             *)
(***************************************************************************)
LazySetup(p) ==
    /\ thread[p] = "setup"
    /\ \/ GetHandler /\ thread' = [thread EXCEPT ![p] = "perform"]
       \/ NoHandler /\ thread' = [thread EXCEPT ![p] = "post"] /\ UNCHANGED << pool, live >>
    /\ UNCHANGED << main, handle, lists, completed_tids, sem, success, service, transfer >>

UploadPart(p, answer) ==
    /\ \/ answer \in {"ok", "none"} /\ stored' = stored \cup {p}
       \/ answer # "ok" /\ UNCHANGED stored
    /\ \E etag \in IF answer = "ok" THEN {TRUE} \cup (IF "etag" \in Faults THEN {FALSE} ELSE {}) ELSE {FALSE} :
          part' = [part EXCEPT ![p].code = answer, ![p].etag = etag]
    /\ UNCHANGED << data, object, upload >>

Perform(p) ==
    /\ thread[p] = "perform"
    /\ \/ op = "upload" /\ \E answer \in Answers : UploadPart(p, answer)
       \/ op = "download" /\ UNCHANGED service
          /\ \E answer \in IF Left(p) = 0 THEN {"none"} ELSE Answers : Download(p, answer)
    /\ ReturnHandler
    /\ thread' = [thread EXCEPT ![p] = "post"]
    /\ UNCHANGED << main, handle, lists, completed_tids, sem, success, list, remaining >>

\* Faulty: the semaphore is posted twice.
PostTwice(p) ==
    /\ thread[p] = "post"
    /\ thread' = [thread EXCEPT ![p] = "done"]
    /\ completed_tids' = completed_tids \cup {p}
    /\ sem' = sem + 2
    /\ UNCHANGED << main, handles, lists, success, service, transfer >>

Post(p) ==
    /\ thread[p] = "post"
    /\ thread' = [thread EXCEPT ![p] = "done"]
    /\ completed_tids' = completed_tids \cup {p}
    /\ sem' = sem + 1
    /\ UNCHANGED << main, handles, lists, success, service, transfer >>

RequestPerformWrapper(p) == LazySetup(p) \/ Perform(p) \/ Post(p)
-----------------------------------------------------------------------------
(***************************************************************************)
(* S3fsMultiCurl::MultiRead, one request at a time.  No answer counts as   *)
(* an answer below 400, and 404 is not an error.                           *)
(***************************************************************************)
Read(p) == pc = "MultiRead" /\ it <= Len(clist_req) /\ p = clist_req[it]

Settled(code) == code \in {"ok", "none", "404"}

\* The success callback of an upload keeps an ETag that came and is right.
UploadMultipartPostComplete(p) == part[p].etag

MultiReadSettled ==
    \E p \in Part :
        /\ Read(p) /\ Settled(part[p].code)
        /\ list' = IF part[p].code # "404" /\ UploadMultipartPostComplete(p) THEN list \cup {p} ELSE list
        /\ part' = [part EXCEPT ![p] = NewPart]
        /\ freed' = freed \cup {p}
        /\ it' = it + 1
        /\ UNCHANGED << main, handles, clist_all, clist_req, threads, service, remaining, data >>

\* Faulty: the new request does not know how often it was tried.
RetryCallbackForgets(p) == NewPart

UploadMultipartPostRetryCallback(p) ==
    [NewPart EXCEPT !.retry_count = part[p].retry_count + 1]

\* It goes on where the failed request has left startpos.
ParallelGetObjectRetryCallback(p) ==
    [NewPart EXCEPT !.retry_count = part[p].retry_count + 1, !.startpos = part[p].startpos]

MultiReadRetry ==
    \E p \in Part :
        /\ Read(p) /\ ~Settled(part[p].code) /\ part[p].retry_count < Retries
        /\ part' = [part EXCEPT ![p] = IF op = "upload" THEN UploadMultipartPostRetryCallback(p)
                                                       ELSE ParallelGetObjectRetryCallback(p)]
        /\ clist_all' = Append(clist_all, p)
        /\ freed' = freed \cup {p}
        /\ it' = it + 1
        /\ UNCHANGED << main, handles, clist_req, threads, service, list, remaining, data >>

MultiReadFails ==
    \E p \in Part :
        /\ Read(p) /\ ~Settled(part[p].code)
        /\ part[p].retry_count >= Retries \/ "setup" \in Faults
        /\ pc' = "Clear"
        /\ UNCHANGED << op, want, ret, retrycnt, handles, lists, threads, service, transfer >>

\* Clear deletes what is in the lists.  An object that MultiRead has deleted
\* is deleted again, which may go unnoticed or end the process.
Clear ==
    /\ pc = "Clear"
    /\ \/ freed # {} /\ pc' = "crashed" /\ UNCHANGED << op, ret, retrycnt >>
       \/ op = "upload" /\ Go("AbortMultipartUpload")
       \/ op = "download" /\ Return("error")
    /\ clist_req' = <<>> /\ clist_all' = <<>> /\ freed' = {} /\ it' = 1
    /\ part' = [p \in Part |-> NewPart]
    /\ UNCHANGED << want, handles, threads, service, list, remaining, data >>
-----------------------------------------------------------------------------
(***************************************************************************)
(* ParallelMultipartUploadRequest.                                         *)
(***************************************************************************)
PreMultipartPostRequest ==
    /\ Request("PreMultipartPostRequest")
    /\ \E answer \in Answers :
          /\ Effect(answer, upload' = "open" /\ stored' = {} /\ UNCHANGED object)
          /\ RequestPerform(answer, FALSE, DestroyCurlHandle /\ Go("ParallelMultipartUploadRequest"), Finish("error"))
    /\ UNCHANGED << want, lists, threads, transfer >>

\* ETag of the part and the options of its request, which may fail.
UploadMultipartPostSetup(ok) == ok \/ "setup" \in Faults

\* A part that cannot be set up ends the upload, which stays open.
ParallelMultipartUploadRequest ==
    /\ pc = "ParallelMultipartUploadRequest"
    /\ \E ok \in BOOLEAN :
          /\ UploadMultipartPostSetup(ok)
          /\ IF ok THEN /\ part' = [p \in Part |-> NewPart]
                         /\ list' = {}
                         /\ StartRound([p \in Part |-> p])
                         /\ Go("MultiPerform")
                    ELSE Return("error") /\ UNCHANGED << part, list, lists, sem, success >>
    /\ UNCHANGED << want, handles, thread, completed_tids, service, remaining, data >>

\* Faulty: the loop that looks for an empty ETag is left out.
FinishedAnyway == TRUE

\* No part is without its ETag.
Finished == list = Part

\* The parts with an ETag make the object if the upload is still open.
CompleteMultipartUpload ==
    /\ upload = "open" /\ list \subseteq stored
    /\ object' = IF list = Part THEN want ELSE "partial"
    /\ upload' = "none" /\ stored' = {}

CompleteMultipartPostRequest ==
    /\ Request("CompleteMultipartPostRequest")
    /\ \E answer \in IF upload = "open" THEN Answers ELSE (Answers \cup {"404"}) \ {"ok"} :
          /\ Effect(answer, CompleteMultipartUpload)
          /\ RequestPerform(answer, FALSE, Finish("ok"), Finish("error"))
    /\ UNCHANGED << want, lists, threads, transfer >>

AbortMultipartUpload ==
    /\ Request("AbortMultipartUpload")
    /\ \E answer \in IF upload = "open" THEN Answers ELSE (Answers \cup {"404"}) \ {"ok"} :
          /\ Effect(answer, upload' = "none" /\ stored' = {} /\ UNCHANGED object)
          /\ RequestPerform(answer, FALSE, Finish("error"), Finish("error"))
    /\ UNCHANGED << want, lists, threads, transfer >>

(***************************************************************************)
(* ParallelGetObjectRequest: an S3fsMultiCurl for every MaxParallel parts. *)
(***************************************************************************)
Batch(rest) ==
    LET n == IF rest < MaxParallel THEN rest ELSE MaxParallel
    IN  [i \in 1 .. n |-> Parts - rest + i]

PreGetObjectRequest ==
    /\ pc = "PreGetObjectRequest"
    /\ IF remaining = 0
          THEN Return("ok") /\ UNCHANGED << lists, sem, success, remaining >>
          ELSE /\ StartRound(Batch(remaining))
               /\ remaining' = remaining - Len(Batch(remaining))
               /\ Go("MultiPerform")
    /\ UNCHANGED << want, handles, thread, completed_tids, service, part, list, data >>

\* Request has read all answers: it repeats what has to be, or returns 0.
RequestReturns ==
    /\ pc = "MultiRead" /\ it > Len(clist_req)
    /\ IF clist_all # <<>>
          THEN StartRound(clist_all) /\ Go("MultiPerform")
          ELSE /\ clist_req' = <<>> /\ freed' = {} /\ it' = 1 /\ UNCHANGED << clist_all, sem, success >>
               /\ \/ op = "download" /\ Go("PreGetObjectRequest")
                  \/ op = "upload" /\ Finished /\ Go("CompleteMultipartPostRequest")
                  \/ op = "upload" /\ ~Finished /\ Return("error")
    /\ UNCHANGED << want, handles, thread, completed_tids, service, transfer >>
-----------------------------------------------------------------------------
(***************************************************************************)
(* FdEntity asks for an operation.                                         *)
(***************************************************************************)
Entry ==
    [put |-> "PutRequest", upload |-> "PreMultipartPostRequest", delete |-> "DeleteRequest",
     get |-> "GetObjectRequest", download |-> "PreGetObjectRequest"]

Begin ==
    /\ op = "idle" /\ pc = "idle"
    /\ op' \in DOMAIN Entry /\ pc' = Entry[op']
    /\ want' \in CASE op' \in {"put", "upload"} -> Contents \ {object}
                  [] op' = "delete" -> {Gone}
                  [] OTHER -> {object}
    /\ object = Gone => op' \in {"put", "upload"}
    /\ data' = [p \in Part |-> [u \in Unit |-> "hole"]]
    /\ part' = [p \in Part |-> NewPart]
    /\ remaining' = Parts
    /\ UNCHANGED << ret, retrycnt, handles, lists, threads, service, list >>

MainThread ==
    \/ Begin
    \/ CreateCurlHandle \/ PutRequest \/ DeleteRequest \/ GetObjectRequest
    \/ PreMultipartPostRequest \/ ParallelMultipartUploadRequest
    \/ CompleteMultipartPostRequest \/ AbortMultipartUpload \/ PreGetObjectRequest
    \/ MultiPerform \/ AllCreated \/ Drain \/ JoinRest
    \/ MultiReadSettled \/ MultiReadRetry \/ MultiReadFails \/ RequestReturns \/ Clear

Next == MainThread \/ \E p \in Part : RequestPerformWrapper(p)

(***************************************************************************)
(* Threads run, and every attempt ends: curl gives up connecting after     *)
(* connect_timeout and CurlProgress aborts a transfer that stands still.   *)
(***************************************************************************)
Fairness ==
    /\ WF_vars(MainThread)
    /\ \A p \in Part : WF_vars(RequestPerformWrapper(p))

Spec == Init /\ [][Next]_vars /\ Fairness
-----------------------------------------------------------------------------
(***************************************************************************)
(* Properties.                                                             *)
(***************************************************************************)
\* The state has its type: pc is a function the main thread can be in, no
\* count leaves its range.
TypeOK ==
    /\ op \in DOMAIN Entry \cup {"idle"} /\ ret \in {"ok", "error"}
    /\ pc \in Requests \cup {"idle", "crashed", "ParallelMultipartUploadRequest", "PreGetObjectRequest",
                             "MultiPerform", "drain", "MultiRead", "Clear"}
    /\ retrycnt \in 0 .. Retries - 1 /\ handle \in BOOLEAN
    /\ pool \in 0 .. MaxHandlers /\ live \in 0 .. MaxHandlers
    /\ part \in [Part -> [retry_count : 0 .. Retries, code : {"none", "ok", "404", "503", "other"},
                          etag : BOOLEAN, startpos : 0 .. PartSize]]
    /\ {clist_all, clist_req} \subseteq UNION {[1 .. n -> Part] : n \in 0 .. Parts}
    /\ freed \subseteq Part /\ it \in 1 .. Parts + MaxParallel + 1
    /\ thread \in [Part -> {"none", "setup", "perform", "post", "done"}]
    /\ completed_tids \subseteq Part /\ sem \in 0 .. MaxParallel /\ success \in BOOLEAN
    /\ list \subseteq Part /\ remaining \in 0 .. Parts
    /\ data \in [Part -> [Unit -> {"hole", "object", "error"}]]
    /\ want \in Contents \cup {Gone} /\ object \in Contents \cup {Gone, "partial"}
    /\ upload \in {"none", "open"} /\ stored \subseteq Part

\* Every curl handle is in the pool or in use by one request, none is kept
\* by an operation that has returned, and the threads never make more of
\* them than the pool is made for.
InUse == Cardinality({p \in Part : thread[p] = "perform"}) + (IF handle THEN 1 ELSE 0)
HandlesAccounted ==
    /\ live = pool + InUse /\ live <= MaxHandlers
    /\ op = "idle" => InUse = 0

\* A thread uses the request objects, the semaphore and the list of finished
\* threads of the S3fsMultiCurl that started it: while one has not been
\* joined MultiPerform has not returned, its request is in clist_req and
\* has not been deleted.
ThreadsStayInside ==
    \A p \in Part : thread[p] # "none" =>
        /\ pc \in {"MultiPerform", "drain"}
        /\ \E i \in DOMAIN clist_req : clist_req[i] = p
        /\ p \notin freed

\* With the bytes it has brought, every operation does what ObjectStore
\* says: the object changes at once and only for an operation that runs,
\* although a multipart upload takes many requests, any of which may fail,
\* be repeated or have its answer lost.
Store == INSTANCE ObjectStore WITH whole <- \A u \in Unit : data[1][u] = "object"
ImplementsObjectStore == Store!Spec

\* An operation returns, unless a thread could not be created (the main
\* thread then waits for its permit for ever) or the process has crashed.
OperationReturns == op # "idle" ~> (op = "idle" \/ ~success \/ pc = "crashed")

\* MultiRead repeats every request that failed, so a parallel download that
\* returns 0 has brought every byte of the object.
DownloadIsComplete ==
    [][op = "download" /\ op' = "idle" /\ ret' = "ok" =>
        \A p \in Part : \A u \in Unit : data[p][u] = "object"]_vars
=============================================================================
