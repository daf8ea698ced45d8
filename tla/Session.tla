------------------------------ MODULE Session ------------------------------
(***************************************************************************)
(* What a multifs process does to open an object and to end: S3Io::open,   *)
(* close, remove and getstat of src/src/protocols/s3/s3io.cpp with init,   *)
(* s3fs_init and uninit of s3fs.cpp, which start and stop curl, set the    *)
(* globals from the path, clear the cache directory and look for a region  *)
(* and a signature the service accepts.  Processes may be killed, and the  *)
(* next one finds the cache directory they left.                           *)
(*                                                                         *)
(* Nothing is reset when a process opens a second time, and the results of *)
(* init and s3fs_init are not looked at.                                   *)
(***************************************************************************)
EXTENDS Naturals, Sequences, FiniteSets

CONSTANTS
    Paths,                  \* what split_path finds in the paths of the requests
    MaxOpens,               \* calls of S3Io::open in a process
    Faults                  \* what may go wrong

Missing == "missing"
ASSUME PathParts ==
    \A p \in Paths : /\ DOMAIN p = {"keys", "host", "bucket"}
                     /\ p.keys = Missing => p.host = Missing
                     /\ p.host = Missing => p.bucket = Missing
ASSUME SessionFaults ==
    Faults \subseteq {"libs", "config", "space", "dirs", "net", "moved", "kill"}
ASSUME OpensBound == MaxOpens \in Nat \ {0}

Full(p) == p.bucket # Missing

\* Bucket names set_bucket refuses, and ones init refuses.
Refused == "name:x"
Illegal == "name?"
Bucket == {p.bucket : p \in Paths} \ {Missing, Refused, Illegal}

VARIABLES
    proc,                   \* "running" or "crashed"
    pc, cmd,                \* where the process is, and for which command
    file,                   \* the S3Io of main
    arg,                    \* the argument init has come to
    lib,                    \* what is initialised of curl and SSL
    global,                 \* the settings, globals of s3fs.cpp and S3fsCurl
    dirty,                  \* objects with writes that are not uploaded
    entities,               \* objects FdManager has a cache file for
    past,                   \* what has happened in this process
    disk, old,              \* the cache directory, and what was there before the process
    service                 \* what the service accepts

vars == << proc, pc, cmd, file, arg, lib, global, dirty, entities, past, disk, old, service >>

\* path is what is being opened; object is object_name, the path that named
\* it; conf is what config_cache and log_level were given.
NoPath == [keys |-> Missing, host |-> Missing, bucket |-> Missing]
NoFile == [path |-> NoPath, object |-> NoPath, conf |-> "good", open_success |-> FALSE]

NewGlobal ==
    [keys |-> Missing, host |-> "aws", bucket |-> Missing, is_remove_cache |-> FALSE,
     cache_dir |-> "there", is_sigv4 |-> TRUE, endpoint |-> "us-east-1"]
NewPast == [opens |-> 0, opened |-> FALSE, unanswered |-> FALSE, statkept |-> FALSE]

OtherFile == << Missing, "file" >>

Init ==
    /\ proc = "running" /\ pc = "idle" /\ cmd = "none" /\ file = NoFile /\ arg = 1
    /\ lib = {} /\ global = NewGlobal /\ dirty = {} /\ entities = {} /\ past = NewPast
    /\ disk = {OtherFile} /\ old = disk
    /\ service \in [region : {"us-east-1", "eu"}, sigs : {{"v2"}, {"v4"}, {"v2", "v4"}},
                    allowed : {{}, {<< p.keys, p.bucket >> : p \in {q \in Paths : q.bucket \in Bucket}}}]

At(where) == proc = "running" /\ pc = where
-----------------------------------------------------------------------------
(***************************************************************************)
(* init: curl, the arguments, the checks.  A failure after curl has been   *)
(* started stops it again.                                                 *)
(***************************************************************************)
InitSteps == << "global", "share", "crypt", "pool" >>
Done(n) == {InitSteps[i] : i \in 1 .. n}

\* InitGlobalCurl and InitShareCurl refuse to do it twice.
Refuses(step) == step \in {"global", "share"} /\ step \in lib

\* Faulty: what was done is undone when a step fails.
InitS3fsCurlUndone(n, ok) ==
    /\ \A step \in Done(n) : ~Refuses(step)
    /\ ok => n = Len(InitSteps)
    /\ ~ok => "libs" \in Faults \/ (n < Len(InitSteps) /\ Refuses(InitSteps[n + 1]))
    /\ lib' = IF ok THEN lib \cup Done(n) ELSE {}

\* The steps that are done are not undone when the next one fails; a pool
\* that could not make its handles is there, and makes them later.
InitS3fsCurl(n, ok) ==
    /\ \A step \in Done(n) : ~Refuses(step)
    /\ ok => n = Len(InitSteps)
    /\ ~ok => "libs" \in Faults \/ (n < Len(InitSteps) /\ Refuses(InitSteps[n + 1]))
    /\ lib' = lib \cup Done(n)

DestroyS3fsCurl == lib' = {}

init ==
    /\ At("init")
    /\ \E n \in 0 .. Len(InitSteps), ok \in BOOLEAN :
          /\ InitS3fsCurl(n, ok)
          /\ pc' = IF ok THEN "my_fuse_opt_proc" ELSE "s3fs_init"
    /\ UNCHANGED << proc, cmd, file, arg, global, dirty, entities, past, disk, old, service >>

InitFails ==
    /\ DestroyS3fsCurl
    /\ pc' = "s3fs_init" /\ arg' = 1

\* The list of S3Io::open: the parts split_path finds in the path, the fixed
\* options (here del_cache and, with it, use_cache), the log level.
Options == << "ak_sk", "url", "bucket_name", "del_cache", "dbglevel" >>
Given(o) ==
    CASE o = "ak_sk" -> file.path.keys # Missing
      [] o = "url" -> file.path.host # Missing
      [] o = "bucket_name" -> file.path.bucket # Missing
      [] o = "dbglevel" -> file.conf = "unknown level"
      [] OTHER -> TRUE

\* The arguments that are left.
Arguments == {i \in arg .. Len(Options) : Given(Options[i])}

\* ak_sk without a key is refused and sets nothing.
SetAccessKey(keys) == keys # "empty"

set_bucket(bucket) == bucket # Refused

my_fuse_opt_proc ==
    /\ At("my_fuse_opt_proc")
    /\ \E i \in Arguments :
       LET o == Options[i]
           p == file.path
       IN  /\ \A j \in Arguments : i <= j
           /\ global' = CASE o = "ak_sk" /\ SetAccessKey(p.keys) -> [global EXCEPT !.keys = p.keys]
                          [] o = "url" -> [global EXCEPT !.host = p.host]
                          [] o = "bucket_name" -> [global EXCEPT !.bucket = p.bucket]
                          [] o = "del_cache" -> [global EXCEPT !.is_remove_cache = TRUE,
                                                   !.cache_dir = IF file.conf = "no cache dir" THEN "absent" ELSE "there"]
                          [] OTHER -> global
           /\ IF \/ o = "ak_sk" /\ ~SetAccessKey(p.keys)
                 \/ o = "bucket_name" /\ ~set_bucket(p.bucket)
                 \/ o = "dbglevel"
              THEN InitFails
              ELSE arg' = i + 1 /\ UNCHANGED << lib, pc >>
    /\ UNCHANGED << proc, cmd, file, dirty, entities, past, disk, old, service >>

\* The keys are set when there is a bucket: both come from the path.
CheckOptions ==
    /\ At("my_fuse_opt_proc") /\ Arguments = {}
    /\ \/ global.bucket \in {Missing, Illegal} /\ InitFails
       \/ global.cache_dir = "absent" /\ InitFails
       \/ "space" \in Faults /\ InitFails
       \/ global.bucket \notin {Missing, Illegal} /\ global.cache_dir = "there"
          /\ pc' = "s3fs_init" /\ arg' = 1 /\ UNCHANGED lib
    /\ UNCHANGED << proc, cmd, file, global, dirty, entities, past, disk, old, service >>
-----------------------------------------------------------------------------
(***************************************************************************)
(* s3fs_init and s3fs_destroy remove the cache: the directory of the stat  *)
(* files of the bucket and, if there was one, that of its cache files.     *)
(* With no bucket the latter is the cache directory itself.                *)
(***************************************************************************)
Stat(b) == << b, "stat" >>
Cache(b) == << b, "cache" >>

Remove(items) == disk' = disk \ items /\ old' = old \ items

\* opendir finds the directory.
Exists(item) == item \in disk /\ global.cache_dir = "there"

\* Faulty: the stat files are left when there is nothing else to delete.
DeleteStatWithCache(where, next, after) ==
    /\ At(where)
    /\ pc' = IF global.is_remove_cache THEN next ELSE after
    /\ UNCHANGED << proc, cmd, file, arg, lib, global, dirty, entities, past, disk, old, service >>

DeleteCacheFileStatDirectory(where, next, after) ==
    /\ At(where)
    /\ LET b == global.bucket IN
       \/ /\ global.is_remove_cache /\ (b = Missing \/ Exists(Stat(b)))
          /\ Remove({Stat(b)}) /\ pc' = next /\ UNCHANGED past
       \/ /\ global.is_remove_cache /\ Exists(Stat(b)) /\ "dirs" \in Faults
          /\ pc' = after /\ past' = [past EXCEPT !.statkept = TRUE] /\ UNCHANGED << disk, old >>
       \/ /\ global.is_remove_cache => b # Missing /\ ~Exists(Stat(b))
          /\ pc' = after /\ UNCHANGED << past, disk, old >>
    /\ UNCHANGED << proc, cmd, file, arg, lib, global, dirty, entities, service >>

DeleteCacheDirectory(where, after) ==
    /\ At(where)
    /\ \/ Remove({item \in disk : Exists(item) /\ (global.bucket = Missing \/ item = Cache(global.bucket))})
       \/ "dirs" \in Faults /\ UNCHANGED << disk, old >>
    /\ pc' = after
    /\ UNCHANGED << proc, cmd, file, arg, lib, global, dirty, entities, past, service >>

s3fs_init ==
    \/ DeleteCacheFileStatDirectory("s3fs_init", "s3fs_init cache", "CheckBucket")
    \/ DeleteCacheDirectory("s3fs_init cache", "CheckBucket")

s3fs_destroy ==
    \/ DeleteCacheFileStatDirectory("s3fs_destroy", "s3fs_destroy cache", "exit")
    \/ DeleteCacheDirectory("s3fs_destroy cache", "exit")
-----------------------------------------------------------------------------
(***************************************************************************)
(* s3fs_check_service: a wrong region is corrected once, then signature    *)
(* version 2 is tried.  The settings keep what was tried last.             *)
(***************************************************************************)
Accepted ==
    IF << global.keys, global.bucket >> \notin service.allowed THEN {"403", "404"}
    ELSE IF ~global.is_sigv4 THEN (IF "v2" \in service.sigs THEN {"200"} ELSE {"400"})
    ELSE IF "v4" \notin service.sigs THEN {"400"}
    ELSE IF global.endpoint # service.region THEN {"region"}
    ELSE {"200"}

Lost == (IF "net" \in Faults THEN {"none"} ELSE {}) \cup (IF "moved" \in Faults THEN {"301"} ELSE {})

\* 400 with the error AuthorizationHeaderMalformed and the region
check_region_error(answer) == answer = "region"

\* Faulty: the host is changed, the endpoint of the signature is not.
SwitchRegionHost ==
    global' = [global EXCEPT !.host = IF @ = "aws" /\ global.is_sigv4 THEN "aws of the region" ELSE @]

SwitchRegion ==
    global' = [global EXCEPT !.endpoint = service.region,
                             !.host = IF @ = "aws" /\ global.is_sigv4 THEN "aws of the region" ELSE @]

SwitchSignature == global' = [global EXCEPT !.is_sigv4 = FALSE]

\* No pool: the null pointer is used.
Crash ==
    /\ pc = "CheckBucket" /\ proc = "running" /\ "pool" \notin lib
    /\ proc' = "crashed"
    /\ UNCHANGED << pc, cmd, file, arg, lib, global, dirty, entities, past, disk, old, service >>

Tries == {"CheckBucket", "CheckBucket in region", "CheckBucket with v2"}

s3fs_check_service ==
    /\ pc \in Tries /\ At(pc) /\ "pool" \in lib
    /\ \E answer \in Accepted \cup Lost :
          /\ past' = [past EXCEPT !.unanswered = @ \/ answer \in Lost]
          /\ \/ /\ check_region_error(answer) /\ pc = "CheckBucket"
                /\ SwitchRegion /\ pc' = "CheckBucket in region"
             \/ /\ ~check_region_error(answer) \/ pc # "CheckBucket"
                /\ IF answer \in {"400", "403", "region"} /\ global.is_sigv4
                      THEN SwitchSignature /\ pc' = "CheckBucket with v2"
                      ELSE UNCHANGED global /\ pc' = "s3fs_open"
    /\ UNCHANGED << proc, cmd, file, arg, lib, dirty, entities, disk, old, service >>
-----------------------------------------------------------------------------
(***************************************************************************)
(* The rest of S3Io::open, and what main does with its result.             *)
(***************************************************************************)
\* The path is done with, and so is the configuration: a file that OPEN has
\* configured is open now, or the process ends.
OpenReturns(rc) ==
    /\ file' = [file EXCEPT !.path = NoPath, !.conf = "good", !.open_success = @ \/ rc = 0]
    /\ past' = [past EXCEPT !.opened = @ \/ rc = 0, !.unanswered = FALSE, !.statkept = FALSE]
    /\ pc' = IF cmd = "STAT" \/ (cmd = "OPEN" /\ rc = 0) THEN "idle"
             ELSE IF cmd = "REMOVE" /\ rc = 0 THEN "s3fs_unlink"
             ELSE "exit"

\* A file that is not found may be opened to be created.  An earlier open of
\* the same object, if its stat is cached, is flushed.
s3fs_open ==
    /\ At("s3fs_open")
    /\ \/ OpenReturns(1) /\ UNCHANGED << entities, dirty, disk >>
       \/ /\ Accepted \cap {"200", "404"} # {}
          /\ dirty' \in {dirty, dirty \ {file.object}}
          /\ entities' = entities \cup {file.object}
          /\ disk' = IF global.bucket \in Bucket THEN disk \cup {Stat(global.bucket), Cache(global.bucket)} ELSE disk
          /\ pc' = "s3fs_getattr"
          /\ UNCHANGED << file, past >>
    /\ UNCHANGED << proc, cmd, arg, lib, global, old, service >>

s3fs_getattr ==
    /\ At("s3fs_getattr")
    /\ \/ Accepted = {"200"} /\ OpenReturns(0)
       \/ OpenReturns(1)
    /\ UNCHANGED << proc, cmd, arg, lib, global, dirty, entities, disk, old, service >>

s3fs_unlink ==
    /\ At("s3fs_unlink")
    /\ pc' = "exit"
    /\ UNCHANGED << proc, cmd, file, arg, lib, global, dirty, entities, past, disk, old, service >>

uninit ==
    /\ At("uninit")
    /\ DestroyS3fsCurl
    /\ pc' = "s3fs_destroy"
    /\ UNCHANGED << proc, cmd, file, arg, global, dirty, entities, past, disk, old, service >>

\* Another process serves the next file.
NewProcess ==
    /\ proc' = "running" /\ pc' = "idle" /\ cmd' = "none" /\ file' = NoFile /\ arg' = 1
    /\ lib' = {} /\ global' = NewGlobal /\ dirty' = {} /\ entities' = {} /\ past' = NewPast
    /\ old' = disk'
    /\ UNCHANGED service

\* Faulty: a file outside of the cache is saved like one in it.
ExitSavesAll ==
    /\ At("exit")
    /\ disk' = IF entities # {} THEN disk \cup {Stat(global.bucket)} ELSE disk
    /\ NewProcess

\* ~FdManager saves the page lists in stat files, which it makes anew.
Exit ==
    /\ At("exit")
    /\ disk' = IF entities # {} /\ global.bucket \in Bucket THEN disk \cup {Stat(global.bucket)} ELSE disk
    /\ NewProcess

\* The process has crashed, or is killed wherever it is.
Restart ==
    /\ proc = "crashed" \/ "kill" \in Faults
    /\ UNCHANGED disk
    /\ NewProcess
-----------------------------------------------------------------------------
(***************************************************************************)
(* The commands.                                                           *)
(***************************************************************************)
Command(c, next) == At("idle") /\ cmd' = c /\ pc' = next

Opens == past.opens < MaxOpens /\ past' = [past EXCEPT !.opens = @ + 1]

S3IoOpen(f, p) == [f EXCEPT !.path = p, !.object = IF Full(p) THEN p ELSE @]

\* CACHE may have named a directory that does not exist, LOG a level that
\* does not; only OPEN hands this on.
OPEN(p) ==
    /\ Command("OPEN", "init") /\ Opens
    /\ \E conf \in {"good"} \cup (IF "config" \in Faults THEN {"no cache dir", "unknown level"} ELSE {}) :
          file' = [S3IoOpen(NoFile, p) EXCEPT !.conf = conf]
    /\ UNCHANGED << proc, arg, lib, global, dirty, entities, disk, old, service >>

STAT(p) ==
    /\ Command("STAT", "init") /\ Opens
    /\ ~file.open_success
    /\ file' = S3IoOpen(file, p)
    /\ UNCHANGED << proc, arg, lib, global, dirty, entities, disk, old, service >>

REMOVE(p) ==
    /\ IF file.open_success
          THEN Command("REMOVE", "s3fs_unlink") /\ UNCHANGED << file, past >>
          ELSE Command("REMOVE", "init") /\ Opens /\ file' = S3IoOpen(file, p)
    /\ UNCHANGED << proc, arg, lib, global, dirty, entities, disk, old, service >>

\* Faulty: a failed upload is not reported.
FlushedAnyway(rc) ==
    /\ rc = 0
    /\ dirty' \in {dirty} \cup {dirty \ {file.object}}

\* A result 0 of s3fs_flush means that the writes are uploaded.
Flushed(rc) ==
    /\ rc = 0 \/ "net" \in Faults
    /\ dirty' = IF rc = 0 THEN dirty \ {file.object} ELSE dirty

CLOSE ==
    /\ past.opens > 0
    /\ IF file.open_success
          THEN \E rc \in 0 .. 1 : Flushed(rc) /\ Command("CLOSE", IF rc = 0 THEN "uninit" ELSE "exit")
          ELSE Command("CLOSE", "exit") /\ UNCHANGED dirty
    /\ UNCHANGED << proc, file, arg, lib, global, entities, past, disk, old, service >>

FLUSH ==
    /\ At("idle") /\ file.open_success
    /\ \E rc \in 0 .. 1 : Flushed(rc)
    /\ UNCHANGED << proc, pc, cmd, file, arg, lib, global, entities, past, disk, old, service >>

WRITE ==
    /\ At("idle") /\ file.open_success
    /\ dirty' = dirty \cup {file.object}
    /\ UNCHANGED << proc, pc, cmd, file, arg, lib, global, entities, past, disk, old, service >>

Step ==
    \/ init \/ my_fuse_opt_proc \/ CheckOptions \/ s3fs_init \/ Crash \/ s3fs_check_service
    \/ s3fs_open \/ s3fs_getattr \/ s3fs_unlink \/ uninit \/ s3fs_destroy \/ Exit

Next ==
    \/ Step
    \/ \E p \in Paths : OPEN(p) \/ STAT(p) \/ REMOVE(p)
    \/ CLOSE \/ FLUSH \/ WRITE \/ Restart

Spec == Init /\ [][Next]_vars
-----------------------------------------------------------------------------
(***************************************************************************)
(* Properties.                                                             *)
(***************************************************************************)
\* The state has its type.
TypeOK ==
    /\ proc \in {"running", "crashed"}
    /\ pc \in Tries \cup {"idle", "init", "my_fuse_opt_proc", "s3fs_init", "s3fs_init cache", "s3fs_open",
                          "s3fs_getattr", "s3fs_unlink", "uninit", "s3fs_destroy", "s3fs_destroy cache", "exit"}
    /\ file.open_success \in BOOLEAN /\ {file.path, file.object} \subseteq Paths \cup {NoPath}
    /\ file.conf \in {"good", "no cache dir", "unknown level"}
    /\ arg \in 1 .. Len(Options) + 1
    /\ lib \subseteq Done(Len(InitSteps))
    /\ global.bucket \in Bucket \cup {Missing, Refused, Illegal}
    /\ dirty \subseteq Paths \cup {NoPath} /\ entities \subseteq Paths \cup {NoPath}
    /\ past.opens \in 0 .. MaxOpens
    /\ old \subseteq disk /\ disk \subseteq {OtherFile} \cup (Bucket \X {"stat", "cache"})

\* Once a file has been opened the process does not crash for want of curl,
\* although init fails in every later open: that failure stops nothing.
OpenSurvives ==
    past.opened => /\ proc # "crashed"
                   /\ cmd # "CLOSE" => "pool" \in lib

\* If the service accepts the keys at all, in whatever region or signature,
\* and answers every request, it accepts the settings s3fs_init leaves.
ServiceFound ==
    [][/\ pc \in Tries /\ pc' = "s3fs_open" /\ ~past'.unanswered
       /\ << global.keys, global.bucket >> \in service.allowed
       => Accepted' = {"200"}]_vars

\* The cache of a file is not removed at the end while writes to the file
\* wait to be uploaded.
ClosedIsFlushed == pc \in {"uninit", "s3fs_destroy", "s3fs_destroy cache"} => file.object \notin dirty

\* When s3fs_open comes to open the cache file no stat file of an earlier
\* process speaks for a cache file of an earlier process, wherever those
\* were killed, unless the stat directory could not be removed.
StaleCacheUnused ==
    At("s3fs_open") /\ global.bucket \in Bucket /\ ~past.statkept =>
        ~({Stat(global.bucket), Cache(global.bucket)} \subseteq old)

\* del_cache deletes the local file cache when s3fs starts and exits, and no
\* other file.
OnlyCacheRemoved == [][(OtherFile \in disk) => (OtherFile \in disk')]_vars
=============================================================================
