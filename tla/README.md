# Verification of multifs

multifs gives a parent process access to one file behind a protocol, today an
object on S3. The parent starts a process for every file it opens and speaks a
request/answer protocol with it over a socket pair. The S3 side is s3fs without
FUSE: a local cache file mirrors the object, a page list says which bytes are
loaded, and a dirty file is uploaded as a whole.

This directory models the parts of it where state, failures and ordering meet,
checks the models with TLC on small instances, and proves with TLAPS, for every
value of the constants, the safety properties of all of them: the page list, the
file cache, its multipart mode, the manager of its entities, the request layer, the
stat cache, the life of a process and the protocol.
`PROJECT.json` lists the runs, the theorems, the source lines each definition
stands for, and the hazards the properties are for.

## Inventory

| Component | Source | State | Operations | What makes it correct |
| --- | --- | --- | --- | --- |
| Process and protocol | `main.cpp`, `multifs_proto.h`, `ifile.h`, `multifs-test.cpp` | the global `file`, the socket | ten commands, `dspcmd`, the loop of `main` | one answer for each request, in order; announced lengths are what the parent reads; a result that is 0 only on success |
| S3Io | `s3io.cpp` | `open_success`, `file_info`, `is_first_write` | open, close, read, write, flush, truncate, remove, getstat | operations only on an open file; close returns 0 only when the file is on S3 |
| Options, init, uninit | `s3fs.cpp`, `curl.cpp` | bucket, host, keys, endpoint, signature, cache directory, curl | `init`, `my_fuse_opt_proc`, `s3fs_init`, `s3fs_check_service`, `s3fs_destroy`, `uninit` | a file is used with its own settings; the cache of earlier processes is removed, and nothing else; settings the service accepts are found |
| SmbIo, FtpIo | `smbio.cpp`, `ftpio.cpp` | none | stubs | - |
| PageList | `fdcache.cpp` | list of pages | Init, Resize, SetPageLoadedStatus and four queries | the pages tile the file; queries are exact |
| FdEntity | `fdcache.cpp` | cache file, page list, `size_orgmeta`, `is_modify`, references, `upload_id`, `etaglist`, `mp_start`, `mp_size` | Open, Load, Read, Write, RowFlush, ReserveDiskSpace, Close, NoCacheLoadAndPost | no acknowledged byte is lost or replaced by a byte that was not loaded; parts are posted once and in order |
| FdManager | `fdcache.cpp` | `fent`, mutexes, `free_disk_space` | Open, ExistOpen, Close, CleanupCacheDir, ReserveDiskSpace | references and locks are balanced; no deadlock; an open file's cache file is kept |
| CacheFileStat | `fdcache.cpp` | stat files under `.bucket.stat` | Open, Serialize, Delete | a page list read back never calls a byte loaded that is not |
| StatCache | `cache.cpp` | attributes by path, negative entries | GetStat, AddStat, DelStat, TruncateCache | bounded, fresh when a file is opened, nothing kept of what the process has deleted or truncated, never locks itself |
| s3fs operations | `s3fs.cpp` | options | getattr, open, read, write, flush, truncate, unlink and the rest of s3fs | caches are cleared before they are relied on and after effects |
| Requests | `curl.cpp` | handles, retries, multipart state | RequestPerform, Get, Put, Delete, multipart upload | a retry is harmless; the object is the old or the new one |
| Parallel requests | `curl.cpp`, `psemaphore.h` | threads, semaphore, finished list, handle pool | MultiPerform, MultiRead, Request | every thread is joined; handles are given back |
| Headers, strings, signatures | `addhead.cpp`, `string_util.cpp`, `*_auth.cpp` | configuration | parsing, signing | not modelled: conversions of strings |

How they interact: `dspcmd` calls the `IFile` behind `file`; `S3Io` calls the
`s3fs_*` operations; each of these looks up attributes (StatCache, then a HEAD
request), finds the `FdEntity` through `FdManager::ExistOpen`, which takes a
reference, and gives it back with `FdManager::Close`. An entity asks
`FdManager` for disk space, and `FdManager`, when it cleans the cache
directory, opens and closes entities: a cycle, under the entity's own mutex.
Entities load and upload through `S3fsCurl`, which for large files starts
threads that share a pool of curl handles. Processes share the cache directory
of a bucket; a process that opens a file or closes it deletes all of it.

What is hard here: failure in the middle of an operation (a download in a list
of downloads, an upload whose effect is unknown), state in several places that
must agree (page list, cache file, `size_orgmeta`, dirty flag, cached
attributes), re-entry (the cleanup), threads inside a transfer, other processes
in the cache directory, processes that end anywhere, and the exact agreement of
two processes on lengths in a byte stream.

## Modules

### File cache

`PageMapOps` - the page map: the size of a file and the set of loaded offsets,
with the operations Init, Resize, SetPageLoadedStatus and GetUnloadedPages on it.

`PageMap` - the abstract specification of `PageList`, a state machine over a
page map.

`PageList` - the list itself. The methods are operators on a sequence of pages;
`Reinit`, `ResizeTo` and `SetStatus` apply the mutating ones with any argument.
`ImplementsPageMap` is the refinement, with the list's size and loaded offsets
as the mapping; `call` holds the arguments of the last method in both, so that a
method is compared with its counterpart for the same arguments. The loops of the
methods are recursive functions whose steps are operators of their own (`Merge`,
`Cut`, `Count`, `Add`).

`FdEntity` - one object, its entity, and the operations of one process after
another: open (with and without `O_TRUNC`), getattr, read, write, flush,
truncate, close, and the end of the process. It keeps the page map instead of
the list, which the refinement justifies. A handler is one step, because one
thread runs them one after the other and no other process writes the same
object (the parent has one process for a file). A call that fails is an action
of its own (`ReadFails`, `WriteTailFails`, ...) with every state it can leave
behind. `want` is the file the caller made by its acknowledged operations;
`broken` is set once an operation failed half way (a short write, a write whose
trailing download failed, a truncate that failed after the resize), where
"what the caller made" has no answer any more. `statsize` is the size in the
stat cache: it is refreshed only where the code deletes the entry.

`NoCacheUpload` - the multipart mode an entity enters when a write finds no
space: NoCachePreMultipartPost, NoCacheLoadAndPost with its cutting of pages
into parts, NoCacheMultipartPost and NoCacheCompleteMultipartPost, with the
parts of Read, Write and RowFlush around them. A handler is one step, computed
as a set of outcomes. The loop of NoCacheLoadAndPost over pages and parts is the
recursive function `round`, whose step `Round` posts one part. A part has its bytes
and whether the service gave it an ETag. Writes are of one or two bytes and end at
`MaxSize`; a completion that would make a larger object is not followed. `history`
is "straight" as long as the mode is used to append, "last" after the flush that
ends it, "bent" after anything else.

`FdManager` - the map of entities, their reference counts, the mutexes and the
cleanup of the cache directory. The thread is a stack of calls that are still
to be made; a step replaces the top call by what the function does next, and an
`AutoLock` puts a Lock and an Unlock around its calls. A thread that locks a
mutex it holds does not move again, as the build uses default mutexes.
`OtherProcess` changes the cache directory at any time.

### Requests

`ObjectStore` - what the request layer promises to the file cache: an operation
changes the object at once, from the old to the wanted content, at most once
and only while it runs; success means that it has changed, failure says nothing.

`Transfer` - `PutRequest`, `DeleteRequest`, `GetObjectRequest`,
`ParallelMultipartUploadRequest` and `ParallelGetObjectRequest` down to the
single attempt of `RequestPerform`, the threads of `MultiPerform` with their
semaphore and list of finished threads, `MultiRead` with the two retry callbacks,
and `CurlHandlerPool`. The main thread and the thread of each part interleave.
An attempt is answered well, with an error, or not at all; without an answer it
may have had its effect. `ImplementsObjectStore` is the refinement.

### Attributes

`StatCache` - the cache with expiry, hit counts, pinned and negative entries, and
the handlers that use it: `s3fs_getattr`, `s3fs_open`, `s3fs_flush`,
`s3fs_unlink` and `s3fs_truncate`, as lists of steps (`todo`), each lookup being
GetStat, IsNoObjectCache and one request for every name `get_object_attribute`
tries. `s3fs_open` calls `s3fs_flush` when HasStat finds an old stat, and uploads
the emptied file for `O_TRUNC`. `opened` has the files it has left with an entity;
S3Io calls the other operations for these only. Each entry remembers whether its
object was deleted or replaced by the process since (`before`).
Time passes and other clients change the bucket between any two steps. The
options for expiry and negative entries are chosen at the start: S3Io leaves
them at their defaults (no expiry, no negative entries), the other values are
those of s3fs's own options.

### Process

`Session` - one process after another on one cache directory: OPEN, STAT,
REMOVE, WRITE, FLUSH and CLOSE through S3Io::open, `init` with its options and
checks, `s3fs_init`, the check of the service, `s3fs_open`, `uninit`,
`s3fs_destroy` and the exit. A process may be killed at every step. The globals
are a record; a path names keys, host and bucket, or lacks them. `old` is what
earlier processes left on the disk.

`Multifs` - `main` and `dspcmd` with the file types, and a parent that may send
requests ahead of the answers. A header and its payload are items on the
socket; the parent reads a header and, if it announces a payload, one struct of
the size it expects. Undefined behaviour (`delete[]` of a header on the stack)
is a choice between going on and ending.

### For TLC and TLAPS

`MCPageList`, `MCFdEntity`, `MCNoCacheUpload`, `MCFdManager`, `MCTransfer`,
`MCStatCache`, `MCSession`, `MCMultifs`. `MCFdEntity` adds the constraint
`NotBroken` and `MCNoCacheUpload` the constraint `NotBent`, since the properties
say nothing of what follows.

`PageListProofs`, `FdEntityProofs`, `NoCacheUploadProofs`, `FdManagerProofs`,
`TransferProofs`, `StatCacheProofs`, `SessionProofs`, `MultifsProofs` - the theorems
about the module each is named for, with the inductive invariant at its head or
before its steps.

Operators introduced by "Faulty:" are what a plausible mistake would make of the
definition after them. No specification uses them: they show which mistake each
property would catch.

## Runs

| Run | Bounds | Shows |
| --- | --- | --- |
| page_list | files of up to 7 bytes | the list tiles the file, its queries are exact, it implements the page map |
| entity_transfer_faults | 4 bytes, values 0 and 1, failing downloads, uploads and writes | SizesAgree, Coherent, DirtyIsComplete, CleanIsDurable, ReadsBack, UploadsAreWhole |
| entity_modify_flag | 2 bytes | Load clears the dirty flag of unsaved data (finding) |
| no_cache | 5 bytes, parts of 2, 4 parts, full disk and failing requests | SavedIsFile: the parts make the file |
| manager | the served file and two others; opens, links, resizes and transfers fail, the disk is full | references, locks and reservations are given back, handlers return, with two exceptions stated by SelfLocksOnlyInCleanup and NeverUnderflows |
| manager_cleanup_under_lock | the disk is full | the thread waits for itself (finding) |
| transfer | 3 parts, 2 in parallel, 2 handles, 2 attempts, all faults | handles and threads are accounted for, ObjectStore is implemented, operations return |
| transfer_download | 2 bytes a part, error answers | a repeated download leaves out bytes (finding) |
| stat_cache | two files in a directory of two kinds, room for 1 entry, 1 tick of time, four sets of options | OpenIsFresh, OwnChangesSeen, CacheBounded, HandlersEnd |
| session | two objects and two wrong paths, 2 opens a process, any number of processes, all faults | OpenSurvives, ClosedIsFlushed, StaleCacheUnused, ServiceFound |
| session_removes_other_files | the same paths, no fault | files that are no cache are removed (finding) |
| protocol | 3 requests, 2 ahead, an s3 and an smb path | answers in order, in step, for every request |

Why the bounds are enough. For the list, 7 bytes allow four pages with both
flags and every way a range can meet them; more bytes only repeat the pattern.
For the entity, 4 bytes allow an area before, inside and after a written range,
two separate unloaded areas with a loaded byte between them, and `size_orgmeta`
inside an area; two byte values tell a zero from data; the theorems below lift
the size bound. In `NoCacheUpload` 5 bytes and parts of 2 allow pages that are
one part, two, or one with a rest joined to it, before a written part and a rest;
the theorems lift the bounds on sizes and parts there too.
For the manager, two files besides the served one are enough to leave an entity
behind, meet it again and go on. Three parts on two threads make one part
wait for a permit and a second round of two; two attempts allow a failure, a
repetition and giving up. For the stat cache, two files and their directory
overflow a cache of one entry in every order. The directory has an object of its
own, or one that a HEAD cannot tell from a file's and a listing must; the other two
kinds take the same branches. The four sets of options are none, negative entries
with and without expiry, and expiry by the last use; the two that are left out,
expiry by age without negative entries and by use with them, differ from these only
in which date expires. Two opens are enough to find the
globals of another object; a third meets the same state. For the protocol, three
requests allow a failure between two others.

Constants that are bounds: `MaxSize` (size of a file), `MaxParts` (parts of an
upload), `MaxTime`, `MaxOpens`, `MaxRequests`, `MaxPending`. `Prefetch`,
`MultipartSize`, `MinPart`, `Parts`, `PartSize`, `MaxParallel`, `MaxHandlers`,
`Retries` and `CacheSize` are parameters of the code, here small.

Deadlock is checked except where the system may stop: the parent of `Multifs`
stops after `MaxRequests`, a process of `Transfer` crashes or waits for ever for
a thread that was not created, a thread of `StatCache` locks itself out.

### Fairness

`FdManager` assumes weak fairness of `Run`, the steps of the one thread inside a
handler: the scheduler runs a thread that is not blocked. `Transfer` assumes it
of the main thread and of the thread of each part; that an attempt ends is
justified by `connect_timeout` and by `CurlProgress`, which aborts a transfer
that stands still. `StatCache` assumes it of the handler's thread; requests end
for the same reason. `Multifs` assumes it of `Serve` (the process reads what is
on its socket) and of `Receive` (the parent reads the answers it waits for, as
`multifs-test.cpp` does after every request). Nothing is assumed of other
processes, of time or of new requests.

### How the modules fit together

`FdEntity` assumes of an upload what `ObjectStore` promises: the object is
replaced as a whole or not at all, and an error says nothing. It assumes of a
download that an error is reported; `ObjectStore` promises this for a single
request only, and transfer_download shows that a parallel one does not keep it.
`FdEntity` and `FdManager` model one OPEN in the life of a process; `Session`
says what a second one does. `Multifs` lets every open fail with an answer;
`Session` shows that one whose first `init` fails ends the process instead.
That `s3fs_open` finds the size of the object is `OpenIsFresh`, as long as no
request for attributes is lost (see below). That a new entity starts with an
empty cache file is `StaleCacheUnused`.

## What the models show beyond the findings

Behaviours TLC found, or that the models have by translation, which no run lists
as a violation. They bound what the properties say.

* File cache. RowFlush asks `GetTotalUnloadedPageSize()` what is left to load; that
  method has no case for its default size and returns 0. So after a write whose
  trailing download failed, the next flush uploads zeros for bytes that were never
  loaded, under the comment "If there is no loading all of the area, loading all
  area." The properties of `FdEntity` hold until such an operation (`broken`).
* The entity properties hold for network and cache file faults, and for lack of
  space, but not for both together: `s3fs_truncate` lowers `size_orgmeta` to a size
  in the stat cache that is older than the last upload, pages dropped for lack of
  space are then filled with zeros above it, and a truncate uploads them. With a
  lack of space alone they are theorems (`EntityIsCoherent` and those after it).
* The multipart mode is right for appending only. A write at an offset below the
  end posts whole pages, also those after it, and a write at offset 0 posts all of
  the old file first. A switch that failed leaves `upload_id` set and `mp_start` 0,
  and a completion that failed resets both counters, so later acknowledged writes
  post the wrong bytes. A hole made by a write beyond the end is skipped once the
  mode has begun. Pages that were posted count as loaded although the cache file
  no longer has them, so reads return zeros, and a write after the completed upload
  uploads zeros for the rest. The branch of RowFlush that calls
  NoCacheLoadAndPost is never taken, for the reason in the first item. The mode
  can be entered only if the cleanup before it returns, which needs that another
  process has deleted the process's own cache file; any OPEN on the bucket does so.
* A cleanup whose open of a foreign file fails, and which later cannot link the
  mirror file of the same one, closes an entity that nobody counted: the process
  aborts ("reference count underflow").
* A parallel upload leaves the multipart upload open at the service when a part
  cannot be set up or the completion fails, and a thread that cannot be created
  keeps its permit, so that the main thread waits for ever. The result of the
  completion is its status; an error in the body of a 200 answer is not seen.
* An expired negative entry that is found by IsNoObjectCache makes the thread
  lock the stat cache twice (`HandlersEnd` states the exception). A negative entry is
  added after any failure, a lost request too. A pinned entry can be evicted.
* A request for attributes that is lost, followed by a 404 for the other names an
  object may have, gives -ENOENT for an object that exists; an OPEN that may create
  then takes the object for a new empty file.
* `s3fs_flush`, an open with `O_TRUNC` and a truncate whose upload replaced the object
  but reported an error leave the old stat in the cache. `s3fs_fsync`, which S3Io does
  not call, forgets it after the same upload ("Issue 320: Delete stat cache entry
  because st_size may have changed."). `OwnChangesSeen` says that this happens for an
  open file only; there the size comes from the entity, and an open forgets the stat
  first. In the multipart mode, after
  `ChangeEntityToTempPath`, the entity is not found by path and STAT answers with the
  old size.
* `init` refuses to start curl twice, so the options of a second OPEN are not
  applied: its object is looked for in the bucket, on the host and with the keys of
  the first. STAT on an open file answers for that file whatever path it names.
  If the first `init` fails, its result is ignored and the process crashes on the
  missing handle pool. A missing stat directory keeps the cache directory of the
  bucket from being removed, and `~FdManager` makes the stat file again after it was
  removed. A flush that fails in CLOSE ends the process with data that only the
  cache has, which the next OPEN of the bucket deletes.
* A STAT of an unknown protocol is answered with the payload length of the request,
  and the parent loses step; an OPEN of one is acknowledged without a file
  (`msg_out->error == -1;` in `main.cpp` compares). `protocol` uses known protocols.

Assumptions that are not the code's: `ftruncate` that drops the pages of an open
cache file does not fail; `curl_times`, which threads write without a lock, is left
out because it serves timeouts only.

## Proofs

Each theorem states a property that a run checks, for every value of the
constants that satisfies the named assumptions of its module. The assumptions are
those of the code: sizes, counts and bounds are numbers, some of them not 0 (a
file of up to `MaxSize` bytes, at least one part, thread, handle and attempt, no
more threads than handles, as `CurlHandlerPool` and `MultiPerform` are set up),
the faults are among the modelled ones, paths of different protocols differ, a
path without a host has no bucket, other processes serve other files. Three kinds
of theorem have a hypothesis besides: `FaultsApart` in `FdEntityProofs` (a lack of
space is not combined with other faults), in `MultifsProofs` that STAT is sent for
known protocols only, and in `NoSelfLockWithSpace` that the disk does not run full.
Without them the properties are false, as told above.

TLC checked every property before it was proved. The proof that a step keeps the
invariant has one case for each action, and lemmas say once what an operator
returns.

### PageList

`PageListTypes`, `PagesTileTheFile`, `ListImplementsMap` (the refinement of
`PageMap`), `UnloadedPagesAreExact`, `QueriesAgree`.

The invariant is `Proper(pages)`: the pages follow one another from 0 (`Chain`),
neighbours differ in their flag (`Alternates`), and no page is empty but the one
of an empty file. What a list says of the bytes is kept apart from it: `Agrees(ps,
L)`, its loaded pages lie inside the set L and the others outside. For each loop
a lemma says what one round does to a list that is a chain and agrees with L
(`MergePage`, `CutPage`, `AddPage`), and an induction over the rounds gives the
whole loop. The loops are recursive functions, so that they have values at all
must be shown: `LoopStates` builds the states of a loop one after the other, and
induction is the absence of a least counterexample (`Least`, from the
well-foundedness of the naturals), as the prover cannot use an induction rule
that takes a predicate. Parse and the marking loop are the delicate pair: the
marking loop changes whole pages, which is right only because Parse has left
none that reaches over either end of the range (`Split`), the second Parse
included. The count of missing bytes is a cardinality, from disjoint intervals.

The theorem `ListImplementsMap` is what lets `FdEntity` keep a map instead of a
list.

### FdEntity

`EntityTypes` and `SizesAlwaysAgree`, for any set of faults and also after
operations that failed half way; under `FaultsApart` `EntityIsCoherent`,
`DirtyFilesAreComplete`, `CleanFilesAreDurable`, `ReadsReturnWhatWasWritten` and
the action property `WholeUploads`.

None of the invariants is inductive. RowFlush uploads the cache file as it is,
so that a clean file is on S3 needs that a dirty file is completely loaded
(`Missing = {}`). That needs Load to restore what a write has around it, and so
`Good`: an unloaded byte is what Load would put there, the object's byte below
`size_orgmeta` and a zero above it; and `NoOver`: no unloaded byte is above
`size_orgmeta`, for filling one clears the dirty flag. Dropping the pages of a
clean file keeps `Good` because then `size_orgmeta` is the size of the object,
and growing the file keeps it because `size_orgmeta` is never larger than the
file. s3fs_truncate lowers `size_orgmeta` to the cached size, so the last
conjunct of `OpenInv` says that the cached size is right as long as a byte is
unloaded. This is where `FaultsApart` is needed: a cached size becomes stale
with the first upload of a file that grew, when everything is loaded; pages
dropped after that are loaded again by the same write unless a download fails.
`Inv` adds the closed file and the reads.

### NoCacheUpload

`StateTypes` (`TypeOK`) and `SavedIsAlwaysFile` (`SavedIsFile`), for objects, files
and parts of any size, any set of bytes, any number of parts and any set of faults,
without a hypothesis. The sizes of single writes are those of the model.

Files are compared byte for byte, so everything is said of positions. `Shows(e, w)`:
a loaded byte of the file w is in the cache file, an unloaded one is what a download
would bring. `Covers(list, w, n)`: the parts posted so far are the first n bytes of w.
The invariant `Inv` has three parts. As long as the mode is used to append, either no
upload is open and the entity shows the wanted file (`Idle`), or the parts cover it up
to `mp_start` and the cache file has the `mp_size` bytes that follow, less than a part
of them (`Uploading`). After the flush (`Flushed`) the file is saved, or the upload is
still open and its parts are the wanted file or one of them was not sent (`Unsent`).
The last is what makes a repeated flush right: a part that failed stays in the list
without its ETag and keeps the upload from being completed for good. And an entity
that is not in an upload has a cache file no longer than its page list (`Fits`), also
after uses that are not appending: otherwise a PutRequest would set `size_orgmeta`
beyond the bound.

The delicate operation is the one that begins an upload. It has to hold for each
round of the loop that the parts cover the file up to where the round stands and that
the bytes behind are still shown, although pages are marked as loaded whose bytes the
cache file never had (`Loop`, `LoopPosts`); that no part crosses the end of its page
is what lets a part be taken from the file or from the object as a whole. A write
then goes from `Idle` or `Uploading` through `Appending` (the parts and the file are
what precedes the write) and `Ready` (its bytes are in the file and not counted) to
`Uploading`. Loop, outcomes and the concatenation of the parts (`FlattenSeq`) are
recursive functions or sets built by operators that take operators; the proof lists
their states one by one as that of `PageList` does (`LoopStates`), with an induction
over the members of a set (`Induction`), and expands `Then` where it is used.

### FdManager

`Types`, `HandlersRelease` (`Released`), `ClosedOnlyInUse` (`InUse`),
`UnderflowsOnlyInCleanup` (`NeverUnderflows`), `SelfLocksInCleanup`
(`SelfLocksOnlyInCleanup`), `NoSelfLockWithSpace` and the action property
`OwnFileStays` (`OwnFileKept`), for any set of files of other processes and any set
of faults.

The state of the thread is a stack of calls, and an invariant that counted for each
entity the closes on it, and for each mutex the unlocks, would have to know every
place a function is called from. Instead the proof is a Floyd-Hoare proof. `Pre` and
`Post` give every function a precondition and a postcondition over the mutexes, the
entities, the reservation and the result (`State`). `Runs(s, a, Q)` says that the
calls of s, made one after the other from state a, each find their precondition
whatever the earlier ones do within their postconditions, and end in a state of Q.
The invariant `Inv` says that the stack runs like this from the present state to a
state in which no handler runs (`Final`). A step either returns, and then it has to
satisfy its postcondition, or replaces the call by others, which have to run from
here to the postcondition of the call they replace; so every function is proved
once (the lemmas named `...Runs`), with two rules, one for a list after another
(`RunsAppend`) and one for calls under an AutoLock (`RunsAutoLock`).

`State` has two ghosts, existentially quantified in `Inv`. `cleaning` is true from
the moment a scanned file is opened to its CleanupFile; it is what may find the
mutex of the served file locked by its own thread, and what may meet an entity
without a counted reference. `exiting` is true while a process whose first upload
failed closes the entity, the only time the served file loses its last reference.
The delicate entities are those of other files that a failed open left in `fent`
(`Idle`): opened again they are found, get a reference of FdManager::Open's own and
lose it, so that they end up with one reference or none (`OpenedOnce`), and Erase or
the next cleanup meets both. `OwnFileStays` follows because a cleanup that could open
the served file finds three references, the open file's, the handler's and its own.
That no call of Close is left for an entity that is gone is what `Pre` says of the
next call and what `Inv` says of those below it.

`Runs` speaks of every sequence of states a list of calls may go through, so TLC does
not evaluate `Inv`; it checks the properties that follow from it.

### Transfer

`TransferTypes`, `HandlesAreAccounted`, `ThreadsAreInside` and
`RequestsImplementObjectStore` (the refinement), for any number of parts, threads,
handles and attempts.

`Permits` accounts for the semaphore: every permit is free, held by a thread that
has not posted, taken by the loop that waits for all of them, or lost with the one
thread that could not be created. When that loop has all permits no thread is
alive, so all have posted and are in `completed_tids` (`Threads`), and the join
that follows waits for all of them. That a thread's request still exists needs
`Lists`: no part is in a list of requests twice, or it would have two threads, and
a request is repeated only after it was read. `Handles` counts a handle for the
single request or for every thread between its setup and its post; `MaxParallel <=
MaxHandlers` bounds them. For the refinement `Promise` says that the completion is
sent only with all parts in the list of ETags, and that a single download is tried
from position 0; an attempt that had its effect without an answer is the step of
`ObjectStore` that changes the object, a repetition of it is a stutter.

### StatCache

`StatCacheTypes`, `OpensAreFresh`, `OwnChangesAreSeen`, `CacheIsBounded`, for any
files, cache size, time and options.

`Queue` describes the steps a handler has left: a deletion or upload is followed
by DelStat of the same file, a lookup that pins by the use of what it found.
`Entries` says that a path has one entry, under the name with the slash or without
it: two would let a stale one survive the deletion of the other. `Opening` says
that once the step that forgets the old stat is over (it is not `Pending`) the
entries for the file are new. `Outdated` says that entries older than a deletion or
an acknowledged truncation exist only before the DelStat that comes next, and those
older than another upload only for an open file. A lookup may replace the steps that
are left: `Follows` says what it keeps of them, and is what `Opening` and `Outdated`
need. The bound is a separate argument: TruncateCache is called when the cache is full,
counts the first entry of the map whatever its hits are and pinned or not, so
that it always erases one, and AddStat adds one.

### Session

`SessionTypes`, `OpenFilesSurvive`, `ClosedFilesAreFlushed`,
`StaleCachesAreUnused` and the action property `ServiceIsFound`, for any paths and
number of opens, and a process that is killed at any step.

`Started` says that only the first open gets past InitGlobalCurl, so that every
later `init` fails before it could stop what the first one started. `StatRemoved`
follows the stat directory, which is removed before the cache directory; for this
the bucket and `del_cache` must be set together (`Configured`, the order of the
options). `Settings` says that signature version 2 is used only where the service
takes it, whatever the previous opens tried.

### Multifs

`MultifsTypes` without a hypothesis; `AnswersComeInOrder` and `ParentStaysInSync` if
STAT is sent for known protocols only; for any number of requests, sent ahead in
any number.

`Numbered` says which of the pending requests `main` has not read, `Framed` that a
header on the socket is followed by what it announces, `InOrder` that the answers on
the socket are those of the requests read and not yet answered to the parent, each
once, except the one `main` crashed on.

### Only model-checked

* Liveness (`HandlersReturn`, `OperationReturns`, `HandlersEnd`,
  `EveryRequestAnswered`): the prover has no rule for fairness or ENABLED.
* The findings: they are counterexamples.

## Not modelled

* The FUSE operations that are compiled and that S3Io never calls: mknod, create,
  mkdir, rmdir, symlink, readlink, rename, chmod, chown, utimens, readdir, statfs,
  release and fsync (so their DelStat and ChangeNoTruncateFlag too), extended attributes, and what only they use (copy requests,
  `MultipartHeadRequest`, `MultipartRenameRequest`, `FdManager::Rename`, listing
  with markers).
* Options S3Io does not pass: credentials files and roles, server side encryption,
  creating a bucket, additional headers, utility mode.
* The contents of cache stat files. `s3fs_init` removes them before every open
  (`StaleCacheUnused`), so that `Serialize` is read back only after that failed.
* `ChangeEntityToTempPath`, by which the multipart mode changes the key of an entity:
  a truncate by path then opens a second entity for the same file.
* Access checks by user and group (an error of the lookup stands for them), the
  building and signing of requests, XML and strings.
* The socket as a byte stream: short reads, malformed requests, and the end of file,
  at which `main` reads for ever.

## What is left

Every safety invariant, action property and refinement that a run checks is a
theorem. Left to TLC are the liveness properties and the findings. The next step would
be to model more: the operations under "Not modelled", of which the renaming with its
`ChangeEntityToTempPath`, and the stat files with a cache directory that survives,
would meet the file cache and its manager.
