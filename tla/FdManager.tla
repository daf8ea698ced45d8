----------------------------- MODULE FdManager -----------------------------
(***************************************************************************)
(* class FdManager of src/src/protocols/s3/fdcache.{h,cpp} and the life of *)
(* its FdEntity objects: the map fent, the reference counts, the mutexes,  *)
(* the reserved disk space and the cleanup of the cache directory.  What   *)
(* the entities do to the bytes is FdEntity.tla.                           *)
(*                                                                         *)
(* One thread runs the handlers.  A call on top of the stack is one step,  *)
(* which replaces it by what the function does next: lock, call, unlock.   *)
(* All mutexes are default mutexes, and AutoLock waits for them unless it  *)
(* is told not to, so a thread that locks a mutex it holds stops for ever. *)
(*                                                                         *)
(* Every open file of a caller has a process of its own, and they share    *)
(* the cache directory of the bucket: other processes put files there and  *)
(* delete all of it when they start (option del_cache).                    *)
(***************************************************************************)
EXTENDS Naturals, Sequences

CONSTANTS
    Own,                    \* the file the process serves
    Others,                 \* the files of the other processes
    Faults                  \* which calls may fail

ASSUME FilesAssumption == Own \notin Others
ASSUME FaultsAssumption == Faults \subseteq {"open", "link", "resize", "net", "full"}

File == Others \cup {Own}

VARIABLES
    stack,                  \* the calls still to be made, the next one first
    held,                   \* the mutexes that are locked
    ent,                    \* the FdEntity of each file
    dir,                    \* the files in the cache directory
    scan,                   \* what readdir has still to return
    ok,                     \* did the last call that can fail succeed
    reserved,               \* reservations in free_disk_space
    serving                 \* S3Io::open succeeded

vars == << stack, held, ent, dir, scan, ok, reserved, serving >>

\* In fent; fd # -1; reference count; is_modify.
NoEntity == [mapped |-> FALSE, fd |-> FALSE, refcnt |-> 0, is_modify |-> FALSE]

\* A call of function fn for file f, and what its arguments ask for.
Call(fn, f, how) == [fn |-> fn, file |-> f, how |-> how]

fd_manager_lock == << "fd_manager", Own >>
cache_cleanup_lock == << "cache_cleanup", Own >>
fdent_lock(f) == << "fdent", f >>
fdent_data_lock(f) == << "fdent_data", f >>

\* The calls made while an AutoLock on the mutex lives.
AutoLock(mutex, calls) ==
    << Call("Lock", mutex[2], mutex[1]) >> \o calls \o << Call("Unlock", mutex[2], mutex[1]) >>

At(fn) == stack # <<>> /\ Head(stack).fn = fn
F == Head(stack).file
How == Head(stack).how
Do(calls) == stack' = calls \o Tail(stack)
Return == stack' = Tail(stack)
-----------------------------------------------------------------------------
Init ==
    /\ stack = <<>> /\ held = {}
    /\ ent = [f \in File |-> NoEntity]
    /\ dir \in SUBSET Others /\ scan = {}
    /\ ok = TRUE /\ reserved = 0 /\ serving = FALSE

Lock ==
    /\ At("Lock") /\ << How, F >> \notin held
    /\ held' = held \cup {<< How, F >>}
    /\ Return
    /\ UNCHANGED << ent, dir, scan, ok, reserved, serving >>

Unlock ==
    /\ At("Unlock")
    /\ held' = held \ {<< How, F >>}
    /\ Return
    /\ UNCHANGED << ent, dir, scan, ok, reserved, serving >>
-----------------------------------------------------------------------------
(***************************************************************************)
(* FdManager::Open.  An entity that is found is kept open by a reference   *)
(* of its own while FdEntity::Open runs.                                   *)
(***************************************************************************)
Open ==
    /\ At("Open")
    /\ Do(AutoLock(fd_manager_lock, << Call("Search", F, How) >>))
    /\ UNCHANGED << held, ent, dir, scan, ok, reserved, serving >>

\* Faulty: a new entity is closed like one that was found.
SearchCloses ==
    /\ At("Search")
    /\ ent' = [ent EXCEPT ![F].mapped = TRUE]
    /\ Do(<< Call("EntityOpen", F, How), Call("EntityClose", F, "") >>)
    /\ UNCHANGED << held, dir, scan, ok, reserved, serving >>

Search ==
    /\ At("Search")
    /\ IF ent[F].mapped
       THEN /\ Do(AutoLock(fdent_lock(F), << Call("Dup", F, "") >>)
                    \o << Call("EntityOpen", F, How), Call("EntityClose", F, "") >>)
            /\ UNCHANGED << ent, ok >>
       ELSE IF How # "exist"
       THEN /\ ent' = [ent EXCEPT ![F].mapped = TRUE]
            /\ Do(<< Call("EntityOpen", F, How) >>)
            /\ UNCHANGED ok
       ELSE Return /\ ok' = FALSE /\ UNCHANGED ent
    /\ UNCHANGED << held, dir, scan, reserved, serving >>

Dup ==
    /\ At("Dup")
    /\ ent' = [ent EXCEPT ![F].refcnt = IF ent[F].fd THEN @ + 1 ELSE @]
    /\ Return
    /\ UNCHANGED << held, dir, scan, ok, reserved, serving >>

\* FdEntity::Open: fdent_lock, which "nowait" only tries, and fdent_data_lock.
EntityOpen ==
    /\ At("EntityOpen")
    /\ IF How = "nowait" /\ fdent_lock(F) \in held
       THEN Return /\ ok' = FALSE
       ELSE /\ Do(AutoLock(fdent_lock(F),
                    AutoLock(fdent_data_lock(F), << Call("Opened", F, How) >>)))
            /\ UNCHANGED ok
    /\ UNCHANGED << held, ent, dir, scan, reserved, serving >>

\* Faulty: the reference is taken without lock_already_held.
OpenedLocks ==
    /\ At("Opened")
    /\ IF ent[F].fd
       THEN /\ Do(AutoLock(fdent_lock(F), << Call("Dup", F, "") >>))
            /\ UNCHANGED ent
       ELSE /\ ent' = [ent EXCEPT ![F] = [@ EXCEPT !.fd = TRUE, !.refcnt = 1]]
            /\ Return
    /\ ok' = TRUE
    /\ UNCHANGED << held, dir, scan, reserved, serving >>

Opened ==
    /\ At("Opened")
    /\ IF ent[F].fd
       THEN ent' = [ent EXCEPT ![F].refcnt = @ + 1] /\ UNCHANGED dir
       ELSE /\ ent' = [ent EXCEPT ![F] = [@ EXCEPT !.fd = TRUE, !.refcnt = 1, !.is_modify = FALSE]]
            /\ dir' = dir \cup {F}
    /\ ok' = TRUE /\ Return
    /\ UNCHANGED << held, scan, reserved, serving >>

\* ftruncate of an open entity failed; the reference is given back.
ResizeFails ==
    /\ At("Opened") /\ ent[F].fd /\ How = "resize" /\ "resize" \in Faults
    /\ ok' = FALSE /\ Return
    /\ UNCHANGED << held, ent, dir, scan, reserved, serving >>

\* The cache file could not be opened, truncated or wrapped in a FILE.
OpenFails ==
    /\ At("Opened") /\ ~ ent[F].fd /\ "open" \in Faults
    /\ dir' \in {dir, dir \cup {F}}
    /\ ok' = FALSE /\ Return
    /\ UNCHANGED << held, ent, scan, reserved, serving >>

\* The mirror file could not be linked: fd stays, the reference is not counted.
LinkFails ==
    /\ At("Opened") /\ ~ ent[F].fd /\ "link" \in Faults
    /\ ent' = [ent EXCEPT ![F].fd = TRUE]
    /\ dir' = dir \cup {F}
    /\ ok' = FALSE /\ Return
    /\ UNCHANGED << held, scan, reserved, serving >>
-----------------------------------------------------------------------------
\* FdEntity::Close
EntityClose ==
    /\ At("EntityClose")
    /\ Do(AutoLock(fdent_lock(F), << Call("Decrement", F, "") >>))
    /\ UNCHANGED << held, ent, dir, scan, ok, reserved, serving >>

\* It aborts the process if the count is already 0.
Decrement ==
    /\ At("Decrement") /\ (ent[F].fd => 0 < ent[F].refcnt)
    /\ IF ent[F].fd
       THEN /\ ent' = [ent EXCEPT ![F].refcnt = @ - 1]
            /\ IF ent[F].refcnt = 1
               THEN Do(AutoLock(fdent_data_lock(F), << Call("CloseFile", F, "") >>))
               ELSE Return
       ELSE Return /\ UNCHANGED ent
    /\ UNCHANGED << held, dir, scan, ok, reserved, serving >>

CloseFile ==
    /\ At("CloseFile")
    /\ ent' = [ent EXCEPT ![F].fd = FALSE]
    /\ Return
    /\ UNCHANGED << held, dir, scan, ok, reserved, serving >>

\* FdManager::Close: the entity leaves fent and is deleted when it is closed.
Close ==
    /\ At("Close")
    /\ Do(AutoLock(fd_manager_lock,
            IF ent[F].mapped THEN << Call("EntityClose", F, ""), Call("Erase", F, "") >>
                             ELSE <<>>))
    /\ UNCHANGED << held, ent, dir, scan, ok, reserved, serving >>

\* Faulty: the entity is deleted although it is still open.
EraseOpen ==
    /\ At("Erase")
    /\ ent' = [ent EXCEPT ![F] = NoEntity]
    /\ Return
    /\ UNCHANGED << held, dir, scan, ok, reserved, serving >>

Erase ==
    /\ At("Erase")
    /\ IF ent[F].fd
       THEN Return /\ UNCHANGED ent
       ELSE /\ ent' = [ent EXCEPT ![F] = NoEntity]
            /\ Do(AutoLock(fdent_lock(F), AutoLock(fdent_data_lock(F), <<>>)))
    /\ UNCHANGED << held, dir, scan, ok, reserved, serving >>
-----------------------------------------------------------------------------
(***************************************************************************)
(* FdManager::CleanupCacheDir: every file that is listed is opened, and    *)
(* deleted if nobody else in this process has it open.                     *)
(***************************************************************************)
CleanupCacheDir ==
    /\ At("CleanupCacheDir")
    /\ scan' = dir
    /\ Do(AutoLock(cache_cleanup_lock, << Call("Scan", Own, "") >>))
    /\ UNCHANGED << held, ent, dir, ok, reserved, serving >>

\* Faulty: the directory is read from the start after every file.
ScanRewinds ==
    /\ At("Scan") /\ \E f \in dir :
          Do(<< Call("Open", f, "nowait"), Call("CleanupFile", f, ""), Call("Scan", Own, "") >>)
    /\ scan' = dir
    /\ UNCHANGED << held, ent, dir, ok, reserved, serving >>

Scan ==
    /\ At("Scan")
    /\ \E f \in scan :
          IF f \in dir
          THEN /\ scan' = scan \ {f}
               /\ Do(<< Call("Open", f, "nowait"), Call("CleanupFile", f, ""),
                        Call("Scan", Own, "") >>)
          ELSE scan' = {} /\ Return                 \* lstat fails
    /\ UNCHANGED << held, ent, dir, ok, reserved, serving >>

ScanEnd ==
    /\ At("Scan") /\ scan = {}
    /\ Return
    /\ UNCHANGED << held, ent, dir, scan, ok, reserved, serving >>

\* Faulty: a file that is open elsewhere is not skipped.
CleanupOpened ==
    /\ At("CleanupFile")
    /\ IF ok THEN Do(<< Call("Close", F, "") >>) ELSE Return
    /\ dir' = IF ok /\ ~ ent[F].is_modify THEN dir \ {F} ELSE dir
    /\ UNCHANGED << held, ent, scan, ok, reserved, serving >>

\* IsMultiOpened and FdEntity::CleanupCache
CleanupFile ==
    /\ At("CleanupFile")
    /\ IF ok THEN Do(<< Call("Close", F, "") >>) ELSE Return
    /\ dir' = IF /\ ok /\ ent[F].refcnt <= 1
                 /\ ~ ent[F].is_modify /\ fdent_lock(F) \notin held
              THEN dir \ {F} ELSE dir
    /\ UNCHANGED << held, ent, scan, ok, reserved, serving >>
-----------------------------------------------------------------------------
(***************************************************************************)
(* FdEntity::ReserveDiskSpace.                                             *)
(***************************************************************************)
\* Faulty: the bytes are counted twice.
ReserveTwice ==
    /\ At("Reserve")
    /\ ok' = TRUE /\ reserved' = reserved + 2 /\ Return
    /\ UNCHANGED << held, ent, dir, scan, serving >>

Reserve ==
    /\ At("Reserve")
    /\ ok' = TRUE /\ reserved' = reserved + 1 /\ Return
    /\ UNCHANGED << held, ent, dir, scan, serving >>

ReserveFull ==
    /\ At("Reserve") /\ "full" \in Faults
    /\ Do(<< Call("CleanupCacheDir", Own, ""), Call("ReserveAgain", F, "") >>)
    /\ UNCHANGED << held, ent, dir, scan, ok, reserved, serving >>

ReserveAgain ==
    /\ At("ReserveAgain")
    /\ ok' \in BOOLEAN
    /\ reserved' = IF ok' THEN reserved + 1 ELSE reserved
    /\ Return
    /\ UNCHANGED << held, ent, dir, scan, serving >>

\* Faulty: the reservation is kept when the load fails.
LoadMayKeep ==
    /\ At("LoadAndFree")
    /\ reserved' \in {reserved} \cup {reserved - 1}
    /\ Return
    /\ UNCHANGED << held, ent, dir, scan, ok, serving >>

\* The load between the reservation and FreeReservedDiskSpace.
LoadAndFree ==
    /\ At("LoadAndFree")
    /\ IF ok THEN /\ reserved' = reserved - 1
                  /\ ok' \in {TRUE} \cup {f \in {FALSE} : "net" \in Faults}
             ELSE UNCHANGED << ok, reserved >>
    /\ Return
    /\ UNCHANGED << held, ent, dir, scan, serving >>
-----------------------------------------------------------------------------
(***************************************************************************)
(* The handlers.  s3fs_read, s3fs_write, s3fs_flush and s3fs_getattr find  *)
(* the entity with FdManager::ExistOpen, s3fs_truncate with a new size.    *)
(***************************************************************************)
Handlers == {"s3fs_getattr", "s3fs_read", "s3fs_write", "s3fs_flush", "s3fs_truncate"}

Handler(h) ==
    << Call("Open", Own, IF h = "s3fs_truncate" THEN "resize" ELSE "exist"), Call(h, Own, "") >>

Start ==
    /\ stack = <<>> /\ serving
    /\ \E h \in Handlers : stack' = Handler(h)
    /\ UNCHANGED << held, ent, dir, scan, ok, reserved, serving >>

\* What a handler does with the entity it was given, before it closes it.
Body(h) ==
    CASE h = "s3fs_getattr" -> AutoLock(fdent_lock(Own), <<>>)
      [] h = "s3fs_read" ->
            AutoLock(fdent_lock(Own), <<>>) \o
            AutoLock(fdent_data_lock(Own), << Call("Read", Own, "") >>)
      [] h = "s3fs_write" ->
            << Call("CheckSpace", Own, "") >> \o
            AutoLock(fdent_data_lock(Own), << Call("Reserve", Own, ""),
                     Call("LoadAndFree", Own, ""), Call("Pwrite", Own, "") >>)
      [] h = "s3fs_flush" ->
            AutoLock(fdent_lock(Own), <<>>) \o
            AutoLock(fdent_data_lock(Own), << Call("RowFlush", Own, "") >>)
      [] h = "s3fs_truncate" ->
            AutoLock(fdent_lock(Own), AutoLock(fdent_data_lock(Own), << Call("Load", Own, "") >>))
            \o << Call("FlushLoaded", Own, "") >>

Handle ==
    /\ stack # <<>> /\ Head(stack).fn \in Handlers
    /\ IF ok THEN Do(Body(Head(stack).fn) \o << Call("Close", Own, "") >>) ELSE Return
    /\ UNCHANGED << held, ent, dir, scan, ok, reserved, serving >>

\* FdEntity::Read: only bytes that are not loaded need space.
Read ==
    /\ At("Read")
    /\ \/ Return
       \/ Do(<< Call("Reserve", Own, ""), Call("ReserveSize", Own, ""),
                Call("LoadAndFree", Own, "") >>)
    /\ UNCHANGED << held, ent, dir, scan, ok, reserved, serving >>

\* Without space for the prefetch, it is tried for the requested bytes.
ReserveSize ==
    /\ At("ReserveSize")
    /\ IF ok THEN Return ELSE Do(<< Call("Reserve", Own, "") >>)
    /\ UNCHANGED << held, ent, dir, scan, ok, reserved, serving >>

\* FdEntity::Write, "check if not enough disk space left BEFORE locking fd"
CheckSpace ==
    /\ At("CheckSpace")
    /\ Return \/ Do(<< Call("CleanupCacheDir", Own, "") >>)
    /\ UNCHANGED << held, ent, dir, scan, ok, reserved, serving >>

\* FdEntity::Write, when the load before it succeeded
Pwrite ==
    /\ At("Pwrite")
    /\ ent' = [ent EXCEPT ![Own].is_modify = @ \/ ok]
    /\ Return
    /\ UNCHANGED << held, dir, scan, ok, reserved, serving >>

Load ==
    /\ At("Load")
    /\ ok' \in {TRUE} \cup {f \in {FALSE} : "net" \in Faults}
    /\ Return
    /\ UNCHANGED << held, ent, dir, scan, reserved, serving >>

\* s3fs_truncate flushes what it could load.
FlushLoaded ==
    /\ At("FlushLoaded")
    /\ IF ok THEN Do(AutoLock(fdent_data_lock(Own), << Call("RowFlush", Own, "") >>)) ELSE Return
    /\ UNCHANGED << held, ent, dir, scan, ok, reserved, serving >>

RowFlush ==
    /\ At("RowFlush")
    /\ \/ ok' = TRUE /\ ent' = [ent EXCEPT ![Own].is_modify = FALSE]
       \/ "net" \in Faults /\ ok' = FALSE /\ UNCHANGED ent
    /\ Return
    /\ UNCHANGED << held, dir, scan, reserved, serving >>
-----------------------------------------------------------------------------
(***************************************************************************)
(* S3Io::open: s3fs_init deletes the cache directory, s3fs_open opens the  *)
(* entity and uploads it if it was truncated, s3fs_getattr follows.  When  *)
(* one of them fails the process ends.                                     *)
(***************************************************************************)
StartOpen ==
    /\ stack = <<>> /\ ~ serving
    /\ dir' = {}
    /\ stack' = << Call("Open", Own, "create"), Call("s3fs_open", Own, "") >>
    /\ UNCHANGED << held, ent, scan, ok, reserved, serving >>

S3fsOpen ==
    /\ At("s3fs_open")
    /\ \/ ok /\ Do(Handler("s3fs_getattr") \o << Call("OpenSuccess", Own, "") >>)
       \/ ok /\ Do(AutoLock(fdent_data_lock(Own), << Call("RowFlush", Own, "") >>)
                     \o << Call("s3fs_open_flushed", Own, "") >>)
       \/ ~ ok /\ Do(<< Call("Exit", Own, "") >>)
    /\ UNCHANGED << held, ent, dir, scan, ok, reserved, serving >>

S3fsOpenFlushed ==
    /\ At("s3fs_open_flushed")
    /\ Do(IF ok THEN Handler("s3fs_getattr") \o << Call("OpenSuccess", Own, "") >>
                ELSE << Call("Close", Own, ""), Call("Exit", Own, "") >>)
    /\ UNCHANGED << held, ent, dir, scan, ok, reserved, serving >>

OpenSuccess ==
    /\ At("OpenSuccess")
    /\ serving' = TRUE /\ Return
    /\ UNCHANGED << held, ent, dir, scan, ok, reserved >>

\* The process ends, and another one is started for the next file.  S3Io::close
\* deletes the cache directory when its flush succeeded.
Exit ==
    /\ At("Exit") \/ (stack = <<>> /\ serving)
    /\ stack' = <<>> /\ held' = {} /\ scan' = {}
    /\ ent' = [f \in File |-> NoEntity]
    /\ ok' = TRUE /\ reserved' = 0 /\ serving' = FALSE
    /\ dir' \in {dir, {}}

\* Another process opens a file, removes one, or starts and deletes them all.
OtherProcess ==
    /\ \/ \E f \in Others : dir' = dir \cup {f} \/ dir' = dir \ {f}
       \/ dir' = {}
    /\ UNCHANGED << stack, held, ent, scan, ok, reserved, serving >>

\* The steps of the thread once a handler was called.
Run ==
    \/ Lock \/ Unlock
    \/ Open \/ Search \/ Dup \/ EntityOpen \/ Opened \/ ResizeFails \/ OpenFails \/ LinkFails
    \/ EntityClose \/ Decrement \/ CloseFile \/ Close \/ Erase
    \/ CleanupCacheDir \/ Scan \/ ScanEnd \/ CleanupFile
    \/ Reserve \/ ReserveFull \/ ReserveAgain \/ LoadAndFree
    \/ Handle \/ Read \/ ReserveSize \/ CheckSpace \/ Pwrite \/ Load \/ FlushLoaded \/ RowFlush
    \/ S3fsOpen \/ S3fsOpenFlushed \/ OpenSuccess \/ (At("Exit") /\ Exit)

Next == Run \/ Start \/ StartOpen \/ Exit \/ OtherProcess

\* The thread runs as long as it does not wait for a mutex.
Spec == Init /\ [][Next]_vars /\ WF_vars(Run)
-----------------------------------------------------------------------------
\* The type invariant.  A file has at most four references at a time: the
\* open file's, the handler's, the cleanup's and the one FdManager::Open takes.
TypeOK ==
    /\ \A i \in DOMAIN stack : stack[i].file \in File
    /\ held \subseteq {fd_manager_lock, cache_cleanup_lock}
                        \cup {fdent_lock(f) : f \in File} \cup {fdent_data_lock(f) : f \in File}
    /\ ent \in [File -> [mapped : BOOLEAN, fd : BOOLEAN, refcnt : 0 .. 4, is_modify : BOOLEAN]]
    /\ dir \subseteq File /\ scan \subseteq File
    /\ ok \in BOOLEAN /\ serving \in BOOLEAN /\ reserved \in 0 .. 1

(***************************************************************************)
(* Whatever failed in it, a handler that returns has released every mutex, *)
(* every byte of disk space it reserved and its reference to the entity;   *)
(* the open file keeps exactly one.                                        *)
(***************************************************************************)
Released ==
    stack = <<>> =>
        /\ held = {} /\ reserved = 0
        /\ serving => ent[Own].mapped /\ ent[Own].fd /\ ent[Own].refcnt = 1
        /\ \A f \in Others : ent[f].refcnt = 0

(***************************************************************************)
(* An entity whose pointer somebody still has to pass to FdManager::Close  *)
(* is in fent, so it was not deleted; the file that is served stays open   *)
(* even if a cleanup of the cache directory opens and closes it meanwhile. *)
(***************************************************************************)
InUse ==
    \A i \in DOMAIN stack :
        stack[i].fn = "Close" => /\ ent[stack[i].file].mapped
                                 /\ stack[i].file = Own => ent[Own].fd

(***************************************************************************)
(* FdEntity::Close aborts rather than take away a reference that was not   *)
(* counted ("reference count underflow").  That never happens to the file  *)
(* that is served.  It does to one that only a cleanup opens: an open that *)
(* failed leaves its entity in fent, and when the mirror file of the next  *)
(* one cannot be linked, fd is set without a reference.                    *)
(***************************************************************************)
Aborted == At("Decrement") /\ ent[F].fd /\ ent[F].refcnt = 0
NeverUnderflows == Aborted => /\ F # Own /\ {"open", "link"} \subseteq Faults
                              /\ \E i \in DOMAIN stack : stack[i].fn = "CleanupFile"

(***************************************************************************)
(* CleanupCacheDirInternal skips what is locked or opened ("skipping       *)
(* locked file", "skipping opened file"), and so the thread never waits    *)
(* for a mutex that it holds itself.                                       *)
(***************************************************************************)
SelfLocked == At("Lock") /\ << How, F >> \in held
NoSelfLock == ~SelfLocked

(***************************************************************************)
(* The one place where it does: a cleanup of the cache directory that was  *)
(* begun for lack of space while the entity is locked, and comes to the    *)
(* entity's own file.  No handler, and no failure in one, makes it wait    *)
(* for itself elsewhere.                                                   *)
(***************************************************************************)
SelfLocksOnlyInCleanup ==
    SelfLocked => /\ F = Own /\ "full" \in Faults
                  /\ \E i \in DOMAIN stack : stack[i].fn = "CleanupFile"

(***************************************************************************)
(* A cleanup of the cache directory never deletes the cache file of the    *)
(* file that the process has open.                                         *)
(***************************************************************************)
OwnFileKept == [][At("CleanupFile") /\ Own \in dir /\ stack' # stack => Own \in dir']_vars

(***************************************************************************)
(* Every handler returns, for all the failures inside it and whatever the  *)
(* other processes do to the cache directory while it is being cleaned,    *)
(* unless it waits for itself or the process has aborted.                  *)
(***************************************************************************)
HandlersReturn == stack # <<>> ~> (stack = <<>> \/ SelfLocked \/ Aborted)
=============================================================================
