--------------------------- MODULE SessionProofs ---------------------------
(***************************************************************************)
(* Proofs about Session.tla, for any paths, any number of opens and any    *)
(* combination of faults.                                                  *)
(***************************************************************************)
EXTENDS Session, TLAPS

(***************************************************************************)
(* The inductive invariant.  First the types of all fields of the records. *)
(***************************************************************************)
Path == Paths \cup {NoPath}
FileType ==
    [path : Path, object : Path, conf : {"good", "no cache dir", "unknown level"}, open_success : BOOLEAN]
GlobalType ==
    [keys : {p.keys : p \in Paths} \cup {Missing},
     host : {p.host : p \in Paths} \cup {"aws", "aws of the region"},
     bucket : Bucket \cup {Missing, Refused, Illegal},
     is_remove_cache : BOOLEAN, cache_dir : {"there", "absent"}, is_sigv4 : BOOLEAN,
     endpoint : {"us-east-1", "eu"}]
PastType == [opens : 0 .. MaxOpens, opened : BOOLEAN, unanswered : BOOLEAN, statkept : BOOLEAN]
ServiceType ==
    [region : {"us-east-1", "eu"}, sigs : {{"v2"}, {"v4"}, {"v2", "v4"}},
     allowed : {{}, {<< p.keys, p.bucket >> : p \in {q \in Paths : q.bucket \in Bucket}}}]

Places ==
    Tries \cup {"idle", "init", "my_fuse_opt_proc", "s3fs_init", "s3fs_init cache", "s3fs_open",
                "s3fs_getattr", "s3fs_unlink", "uninit", "s3fs_destroy", "s3fs_destroy cache", "exit"}
Ending == {"uninit", "s3fs_destroy", "s3fs_destroy cache"}

Types ==
    /\ proc \in {"running", "crashed"} /\ pc \in Places
    /\ cmd \in {"none", "OPEN", "STAT", "REMOVE", "CLOSE"}
    /\ file \in FileType /\ global \in GlobalType /\ past \in PastType /\ service \in ServiceType
    /\ arg \in 1 .. 6 /\ lib \subseteq {"global", "share", "crypt", "pool"}
    /\ dirty \subseteq Path /\ entities \subseteq Path
    /\ old \subseteq disk /\ disk \subseteq {OtherFile} \cup (Bucket \X {"stat", "cache"})

\* CLOSE is the only way to the end through uninit.
Commands ==
    /\ cmd = "CLOSE" => pc \in Ending \cup {"exit"}
    /\ pc \in Ending => cmd = "CLOSE"

\* What is initialised: only init's failure and uninit stop curl, and init
\* gets past InitGlobalCurl in the first open only.
Started ==
    /\ "pool" \in lib => "global" \in lib
    /\ pc \in {"CheckBucket in region", "CheckBucket with v2", "s3fs_open", "s3fs_getattr"} => "pool" \in lib
    /\ past.opened /\ cmd # "CLOSE" => {"global", "pool"} \subseteq lib
    /\ past.opened => proc # "crashed" /\ pc # "my_fuse_opt_proc"

\* The options: a cache directory that is absent makes init fail, so the
\* requests that follow crash; a bucket comes with del_cache.
Configured ==
    /\ global.cache_dir = "absent" =>
          \/ pc = "my_fuse_opt_proc"
          \/ lib = {} /\ pc \in {"s3fs_init", "s3fs_init cache", "CheckBucket"}
    /\ global.bucket \in Bucket /\ ~global.is_remove_cache => pc = "my_fuse_opt_proc" /\ arg = 4

\* The stat files of earlier processes are gone once s3fs_init is past them.
StatRemoved ==
    /\ pc \in Tries \cup {"s3fs_init cache", "s3fs_open"}
    /\ global.bucket \in Bucket /\ ~past.statkept /\ global.cache_dir = "there"
    => Stat(global.bucket) \notin old

\* Signature version 2 is used only when it is right, if any is.
Settings ==
    /\ ~global.is_sigv4 => "global" \in lib \/ cmd = "CLOSE"
    /\ ~global.is_sigv4 => pc # "my_fuse_opt_proc"
    /\ ~global.is_sigv4 /\ << global.keys, global.bucket >> \in service.allowed => "v2" \in service.sigs
    /\ pc = "CheckBucket in region" => global.endpoint = service.region
    /\ pc = "CheckBucket with v2" => ~global.is_sigv4

Inv ==
    /\ Types /\ Commands /\ Started /\ Configured /\ ClosedIsFlushed /\ StatRemoved /\ Settings
-----------------------------------------------------------------------------
(***************************************************************************)
(* The steps that change the records, by what they leave in the fields.    *)
(***************************************************************************)
LEMMA OptionsAre ==
    /\ Len(Options) = 5 /\ Options[1] = "ak_sk" /\ Options[2] = "url" /\ Options[3] = "bucket_name"
    /\ Options[4] = "del_cache" /\ Options[5] = "dbglevel"
  BY DEF Options

LEMMA DoneIs ==
    /\ Len(InitSteps) = 4
    /\ Done(4) = {"global", "share", "crypt", "pool"}
    /\ \A n \in 0 .. 4 : Done(n) \subseteq {"global", "share", "crypt", "pool"}
    /\ \A n \in 0 .. 4 : n > 0 => "global" \in Done(n)
  <1>1. Len(InitSteps) = 4
    BY DEF InitSteps
  <1>2. Done(4) = {"global", "share", "crypt", "pool"}
    BY DEF InitSteps, Done
  <1>3. \A n \in 0 .. 4 : Done(n) \subseteq {"global", "share", "crypt", "pool"}
    BY DEF InitSteps, Done
  <1>4. \A n \in 0 .. 4 : n > 0 => "global" \in Done(n)
    BY DEF InitSteps, Done
  <1> QED BY <1>1, <1>2, <1>3, <1>4

LEMMA SettingsKept ==
    ASSUME NEW g \in GlobalType
    PROVE  /\ \A k \in {p.keys : p \in Paths} :
                 /\ [g EXCEPT !.keys = k] \in GlobalType
                 /\ [g EXCEPT !.keys = k].bucket = g.bucket
                 /\ [g EXCEPT !.keys = k].is_remove_cache = g.is_remove_cache
                 /\ [g EXCEPT !.keys = k].cache_dir = g.cache_dir
                 /\ [g EXCEPT !.keys = k].is_sigv4 = g.is_sigv4
           /\ \A h \in {p.host : p \in Paths} :
                 /\ [g EXCEPT !.host = h] \in GlobalType
                 /\ [g EXCEPT !.host = h].bucket = g.bucket
                 /\ [g EXCEPT !.host = h].is_remove_cache = g.is_remove_cache
                 /\ [g EXCEPT !.host = h].cache_dir = g.cache_dir
                 /\ [g EXCEPT !.host = h].is_sigv4 = g.is_sigv4
           /\ \A b \in Bucket \cup {Missing, Refused, Illegal} :
                 /\ [g EXCEPT !.bucket = b] \in GlobalType
                 /\ [g EXCEPT !.bucket = b].bucket = b
                 /\ [g EXCEPT !.bucket = b].is_remove_cache = g.is_remove_cache
                 /\ [g EXCEPT !.bucket = b].cache_dir = g.cache_dir
                 /\ [g EXCEPT !.bucket = b].is_sigv4 = g.is_sigv4
           /\ \A d \in {"there", "absent"} :
                 /\ [g EXCEPT !.is_remove_cache = TRUE, !.cache_dir = d] \in GlobalType
                 /\ [g EXCEPT !.is_remove_cache = TRUE, !.cache_dir = d].bucket = g.bucket
                 /\ [g EXCEPT !.is_remove_cache = TRUE, !.cache_dir = d].is_remove_cache = TRUE
                 /\ [g EXCEPT !.is_remove_cache = TRUE, !.cache_dir = d].is_sigv4 = g.is_sigv4
  BY DEF GlobalType

LEMMA GivenIs ==
    /\ Given("ak_sk") <=> file.path.keys # Missing
    /\ Given("url") <=> file.path.host # Missing
    /\ Given("bucket_name") <=> file.path.bucket # Missing
    /\ Given("del_cache")
  BY DEF Given

\* A step of init over the arguments fails or comes to the next one, and the
\* bucket is set just before del_cache.
LEMMA OptionStep ==
    ASSUME Types, Configured, my_fuse_opt_proc
    PROVE  /\ global' \in GlobalType /\ global'.is_sigv4 = global.is_sigv4
           /\ arg' \in 1 .. 6 /\ pc = "my_fuse_opt_proc" /\ proc = "running"
           /\ \/ lib' = {} /\ pc' = "s3fs_init"
              \/ lib' = lib /\ pc' = pc
           /\ global'.bucket \in Bucket /\ ~global'.is_remove_cache => pc' = pc /\ arg' = 4
           /\ UNCHANGED << proc, cmd, file, dirty, entities, past, disk, old, service >>
  <1>0. UNCHANGED << proc, cmd, file, dirty, entities, past, disk, old, service >>
    BY DEF my_fuse_opt_proc
  <1>a. SUFFICES
           /\ global' \in GlobalType /\ global'.is_sigv4 = global.is_sigv4
           /\ arg' \in 1 .. 6 /\ pc = "my_fuse_opt_proc" /\ proc = "running"
           /\ \/ lib' = {} /\ pc' = "s3fs_init"
              \/ lib' = lib /\ pc' = pc
           /\ global'.bucket \in Bucket /\ ~global'.is_remove_cache => pc' = pc /\ arg' = 4
    BY <1>0
  <1>1. PICK i \in Arguments :
           /\ \A j \in Arguments : i <= j
           /\ my_fuse_opt_proc!2!(i)
    BY DEF my_fuse_opt_proc
  <1>2. /\ pc = "my_fuse_opt_proc" /\ proc = "running" /\ global \in GlobalType
        /\ file \in FileType /\ arg \in 1 .. 6 /\ file' = file
    BY DEF my_fuse_opt_proc, At, Types
  <1>3. file.path \in Path /\ file.conf \in {"good", "no cache dir", "unknown level"}
    BY <1>2 DEF FileType
  <1>n. NoPath.keys = Missing /\ NoPath.host = Missing /\ NoPath.bucket = Missing
    BY DEF NoPath
  <1>4. i \in 1 .. 5 /\ arg <= i /\ Given(Options[i])
    BY <1>1, <1>2, OptionsAre DEF Arguments
  <1>5. global.bucket \in Bucket /\ ~global.is_remove_cache => arg = 4
    BY DEF Configured
  <1>6. arg <= 4 => i <= 4
    <2>1. ASSUME arg <= 4 PROVE 4 \in Arguments
      BY <1>2, <2>1, OptionsAre, GivenIs DEF Arguments
    <2> QED BY <1>1, <2>1
  <1>7. CASE i = 1
    <2>1. Given("ak_sk") /\ arg < 4
      BY <1>2, <1>4, <1>7, OptionsAre
    <2>2. file.path.keys \in {p.keys : p \in Paths}
      BY <1>n, <1>3, <2>1, GivenIs DEF Path
    <2>3. CASE SetAccessKey(file.path.keys)
      <3>1. global' = [global EXCEPT !.keys = file.path.keys] /\ arg' = 2 /\ lib' = lib /\ pc' = pc
        BY <1>1, <1>7, <2>3, OptionsAre
      <3>2. /\ global' \in GlobalType /\ global'.bucket = global.bucket
            /\ global'.is_remove_cache = global.is_remove_cache /\ global'.is_sigv4 = global.is_sigv4
        BY <1>2, <2>2, <3>1, SettingsKept
      <3> QED BY <1>2, <1>5, <2>1, <3>1, <3>2
    <2>4. CASE ~SetAccessKey(file.path.keys)
      <3>1. global' = global /\ lib' = {} /\ pc' = "s3fs_init" /\ arg' = 1
        BY <1>1, <1>7, <2>4, OptionsAre DEF InitFails, DestroyS3fsCurl
      <3> QED BY <1>2, <1>5, <2>1, <3>1
    <2> QED BY <2>3, <2>4
  <1>8. CASE i = 2
    <2>1. Given("url") /\ arg < 4
      BY <1>2, <1>4, <1>8, OptionsAre
    <2>2. file.path.host \in {p.host : p \in Paths}
      BY <1>n, <1>3, <2>1, GivenIs DEF Path
    <2>3. global' = [global EXCEPT !.host = file.path.host] /\ arg' = 3 /\ lib' = lib /\ pc' = pc
      BY <1>1, <1>8, OptionsAre
    <2>4. /\ global' \in GlobalType /\ global'.bucket = global.bucket
          /\ global'.is_remove_cache = global.is_remove_cache /\ global'.is_sigv4 = global.is_sigv4
      BY <1>2, <2>2, <2>3, SettingsKept
    <2> QED BY <1>2, <1>5, <2>1, <2>3, <2>4
  <1>9. CASE i = 3
    <2>1. Given("bucket_name") /\ arg < 4
      BY <1>2, <1>4, <1>9, OptionsAre
    <2>2. file.path.bucket \in Bucket \cup {Missing, Refused, Illegal}
      BY <1>n, <1>3, <2>1, GivenIs DEF Path, Bucket
    <2>3. global' = [global EXCEPT !.bucket = file.path.bucket]
      BY <1>1, <1>9, OptionsAre
    <2>6. /\ global' \in GlobalType /\ global'.bucket = file.path.bucket
          /\ global'.is_remove_cache = global.is_remove_cache /\ global'.is_sigv4 = global.is_sigv4
      BY <1>2, <2>2, <2>3, SettingsKept
    <2>4. CASE set_bucket(file.path.bucket)
      <3>1. arg' = 4 /\ lib' = lib /\ pc' = pc
        BY <1>1, <1>9, <2>4, OptionsAre
      <3> QED BY <1>2, <2>6, <3>1
    <2>5. CASE ~set_bucket(file.path.bucket)
      <3>1. lib' = {} /\ pc' = "s3fs_init" /\ arg' = 1
        BY <1>1, <1>9, <2>5, OptionsAre DEF InitFails, DestroyS3fsCurl
      <3>2. file.path.bucket \notin Bucket
        BY <2>5 DEF set_bucket, Bucket
      <3> QED BY <1>2, <2>6, <3>1, <3>2
    <2> QED BY <2>4, <2>5
  <1>10. CASE i = 4
    <2> DEFINE d == IF file.conf = "no cache dir" THEN "absent" ELSE "there"
    <2>1. /\ global' = [global EXCEPT !.is_remove_cache = TRUE, !.cache_dir = d]
          /\ arg' = 5 /\ lib' = lib /\ pc' = pc
      BY <1>1, <1>10, OptionsAre
    <2>2. d \in {"there", "absent"}
      OBVIOUS
    <2> HIDE DEF d
    <2>3. /\ global' \in GlobalType /\ global'.bucket = global.bucket
          /\ global'.is_remove_cache = TRUE /\ global'.is_sigv4 = global.is_sigv4
      BY <1>2, <2>1, <2>2, SettingsKept
    <2> QED BY <1>2, <2>1, <2>3
  <1>11. CASE i = 5
    <2>1. global' = global /\ lib' = {} /\ pc' = "s3fs_init" /\ arg' = 1
      BY <1>1, <1>11, OptionsAre DEF InitFails, DestroyS3fsCurl
    <2> QED BY <1>2, <1>5, <1>6, <1>11, <2>1
  <1> QED BY <1>4, <1>7, <1>8, <1>9, <1>10, <1>11

\* init refuses to start curl twice, and then changes nothing.
LEMMA CurlStep ==
    ASSUME init, lib \subseteq {"global", "share", "crypt", "pool"}
    PROVE  /\ lib' \subseteq {"global", "share", "crypt", "pool"} /\ lib \subseteq lib'
           /\ "pool" \in lib' => "pool" \in lib \/ "global" \in lib'
           /\ pc' \in {"my_fuse_opt_proc", "s3fs_init"}
           /\ pc' = "my_fuse_opt_proc" => "global" \notin lib
           /\ "global" \in lib => lib' = lib
  <1>1. PICK n \in 0 .. Len(InitSteps), ok \in BOOLEAN :
           InitS3fsCurl(n, ok) /\ pc' = IF ok THEN "my_fuse_opt_proc" ELSE "s3fs_init"
    BY DEF init
  <1>2. n \in 0 .. 4 /\ lib' = lib \cup Done(n) /\ (ok => n = 4)
    BY <1>1, DoneIs DEF InitS3fsCurl
  <1>3. "global" \in lib => n = 0
    BY <1>1, <1>2, DoneIs DEF InitS3fsCurl, Refuses
  <1>4. n = 0 => Done(n) = {}
    BY DEF Done
  <1>5. pc' = "my_fuse_opt_proc" => n = 4
    BY <1>1, <1>2
  <1>6. pc' \in {"my_fuse_opt_proc", "s3fs_init"}
    BY <1>1
  <1>7. "pool" \in lib' => "pool" \in lib \/ "global" \in lib'
    BY <1>2, <1>4, DoneIs
  <1>8. lib' \subseteq {"global", "share", "crypt", "pool"} /\ lib \subseteq lib'
    BY <1>2, DoneIs
  <1>9. "global" \in lib => lib' = lib
    BY <1>2, <1>3, <1>4
  <1> QED BY <1>3, <1>5, <1>6, <1>7, <1>8, <1>9

LEMMA SignatureSwitched ==
    \A g \in GlobalType :
        LET v == [g EXCEPT !.is_sigv4 = FALSE]
        IN  /\ v \in GlobalType /\ v.keys = g.keys /\ v.bucket = g.bucket
            /\ v.is_remove_cache = g.is_remove_cache /\ v.cache_dir = g.cache_dir
            /\ v.is_sigv4 = FALSE
  BY DEF GlobalType

LEMMA AnswerNoted ==
    \A r \in PastType, u \in BOOLEAN :
        LET q == [r EXCEPT !.unanswered = u]
        IN  q \in PastType /\ q.opened = r.opened /\ q.statkept = r.statkept /\ q.unanswered = u
  BY DEF PastType

LEMMA StatKeptNoted ==
    \A r \in PastType :
        LET q == [r EXCEPT !.statkept = TRUE]
        IN  q \in PastType /\ q.opened = r.opened /\ q.statkept = TRUE
  BY DEF PastType

LEMMA OpenNoted ==
    \A r \in PastType, o \in BOOLEAN :
        LET q == [r EXCEPT !.opened = o, !.unanswered = FALSE, !.statkept = FALSE]
        IN  q \in PastType /\ q.opened = o
  BY DEF PastType

LEMMA OpensCounted ==
    \A r \in PastType :
        r.opens < MaxOpens =>
            LET q == [r EXCEPT !.opens = @ + 1]
            IN  q \in PastType /\ q.opened = r.opened /\ q.statkept = r.statkept
  <1> SUFFICES ASSUME NEW r \in PastType, r.opens < MaxOpens
               PROVE  LET q == [r EXCEPT !.opens = @ + 1]
                      IN  q \in PastType /\ q.opened = r.opened /\ q.statkept = r.statkept
    OBVIOUS
  <1>1. r.opens + 1 \in 0 .. MaxOpens
    BY OpensBound DEF PastType
  <1> QED BY <1>1 DEF PastType

\* A request of s3fs_check_service: the region is corrected, the signature
\* is changed, or the check ends with the settings it has.
LEMMA CheckStep ==
    ASSUME Types, s3fs_check_service
    PROVE  /\ UNCHANGED << proc, cmd, file, arg, lib, dirty, entities, disk, old, service >>
           /\ pc \in Tries /\ proc = "running" /\ "pool" \in lib
           /\ global' \in GlobalType /\ global'.keys = global.keys /\ global'.bucket = global.bucket
           /\ global'.is_remove_cache = global.is_remove_cache /\ global'.cache_dir = global.cache_dir
           /\ past' \in PastType /\ past'.opened = past.opened /\ past'.statkept = past.statkept
           /\ \E answer \in Accepted \cup Lost :
                 /\ answer \in Lost => past'.unanswered
                 /\ \/ /\ answer = "region" /\ pc = "CheckBucket" /\ pc' = "CheckBucket in region"
                       /\ global'.endpoint = service.region /\ global'.is_sigv4 = global.is_sigv4
                    \/ /\ answer \in {"400", "403", "region"} /\ global.is_sigv4
                       /\ answer # "region" \/ pc # "CheckBucket"
                       /\ global'.is_sigv4 = FALSE /\ pc' = "CheckBucket with v2"
                    \/ /\ answer \notin {"400", "403", "region"} \/ ~global.is_sigv4
                       /\ global' = global /\ pc' = "s3fs_open"
  <1>1. PICK answer \in Accepted \cup Lost :
           /\ past' = [past EXCEPT !.unanswered = @ \/ answer \in Lost]
           /\ \/ /\ check_region_error(answer) /\ pc = "CheckBucket"
                 /\ SwitchRegion /\ pc' = "CheckBucket in region"
              \/ /\ ~check_region_error(answer) \/ pc # "CheckBucket"
                 /\ IF answer \in {"400", "403", "region"} /\ global.is_sigv4
                       THEN SwitchSignature /\ pc' = "CheckBucket with v2"
                       ELSE UNCHANGED global /\ pc' = "s3fs_open"
    BY DEF s3fs_check_service
  <1>2. /\ pc \in Tries /\ proc = "running" /\ "pool" \in lib
        /\ UNCHANGED << proc, cmd, file, arg, lib, dirty, entities, disk, old, service >>
    BY DEF s3fs_check_service, At
  <1>3. global \in GlobalType /\ past \in PastType /\ service.region \in {"us-east-1", "eu"}
    BY DEF Types, ServiceType
  <1>4. past' \in PastType /\ past'.opened = past.opened /\ past'.statkept = past.statkept
        /\ (answer \in Lost => past'.unanswered)
    <2>1. (past.unanswered \/ answer \in Lost) \in BOOLEAN
      OBVIOUS
    <2>2. past' = [past EXCEPT !.unanswered = (past.unanswered \/ answer \in Lost)]
      BY <1>1
    <2> QED BY <1>3, <2>1, <2>2, AnswerNoted
  <1>5. CASE check_region_error(answer) /\ pc = "CheckBucket" /\ SwitchRegion /\ pc' = "CheckBucket in region"
    <2> DEFINE h == IF global.host = "aws" /\ global.is_sigv4 THEN "aws of the region" ELSE global.host
    <2>1. global' = [global EXCEPT !.endpoint = service.region, !.host = h]
      BY <1>5 DEF SwitchRegion
    <2>2. h \in {p.host : p \in Paths} \cup {"aws", "aws of the region"}
      BY <1>3 DEF GlobalType
    <2> HIDE DEF h
    <2>3. /\ global' \in GlobalType /\ global'.keys = global.keys /\ global'.bucket = global.bucket
          /\ global'.is_remove_cache = global.is_remove_cache /\ global'.cache_dir = global.cache_dir
          /\ global'.endpoint = service.region /\ global'.is_sigv4 = global.is_sigv4
      <3>1. PICK host \in {p.host : p \in Paths} \cup {"aws", "aws of the region"} :
               global' = [global EXCEPT !.endpoint = service.region, !.host = host]
        BY <2>1, <2>2
      <3> DEFINE g == [global EXCEPT !.endpoint = service.region, !.host = host]
      <3>2. /\ g \in GlobalType /\ g.keys = global.keys /\ g.bucket = global.bucket
            /\ g.is_remove_cache = global.is_remove_cache /\ g.cache_dir = global.cache_dir
            /\ g.is_sigv4 = global.is_sigv4 /\ g.endpoint = service.region
        BY <1>3 DEF GlobalType
      <3> QED BY <3>1, <3>2
    <2> QED BY <1>2, <1>4, <1>5, <2>3 DEF check_region_error
  <1>6. CASE /\ ~check_region_error(answer) \/ pc # "CheckBucket"
             /\ answer \in {"400", "403", "region"} /\ global.is_sigv4
             /\ SwitchSignature /\ pc' = "CheckBucket with v2"
    <2>1. /\ global' \in GlobalType /\ global'.keys = global.keys /\ global'.bucket = global.bucket
          /\ global'.is_remove_cache = global.is_remove_cache /\ global'.cache_dir = global.cache_dir
          /\ global'.is_sigv4 = FALSE
      BY <1>3, <1>6, SignatureSwitched DEF SwitchSignature
    <2> QED BY <1>2, <1>4, <1>6, <2>1 DEF check_region_error
  <1>7. CASE /\ answer \notin {"400", "403", "region"} \/ ~global.is_sigv4
             /\ UNCHANGED global /\ pc' = "s3fs_open"
    BY <1>2, <1>3, <1>4, <1>7
  <1> QED BY <1>1, <1>5, <1>6, <1>7

\* What OpenReturns leaves of the file and of the past.
LEMMA OpenReturnsStep ==
    ASSUME Types, NEW rc \in 0 .. 1, OpenReturns(rc)
    PROVE  /\ file' \in FileType /\ file'.object = file.object
           /\ past' \in PastType /\ (past'.opened <=> past.opened \/ rc = 0)
           /\ pc' \in {"idle", "s3fs_unlink", "exit"}
  <1>1. file \in FileType /\ past \in PastType
    BY DEF Types
  <1>2. file' \in FileType /\ file'.object = file.object
    <2>1. \A f \in FileType, b \in BOOLEAN :
             LET q == [f EXCEPT !.path = NoPath, !.conf = "good", !.open_success = b]
             IN  q \in FileType /\ q.object = f.object
      BY DEF FileType, Path
    <2>2. (file.open_success \/ rc = 0) \in BOOLEAN
      OBVIOUS
    <2>3. file' = [file EXCEPT !.path = NoPath, !.conf = "good", !.open_success = (file.open_success \/ rc = 0)]
      BY DEF OpenReturns
    <2> QED BY <1>1, <2>1, <2>2, <2>3
  <1>3. past' \in PastType /\ (past'.opened <=> past.opened \/ rc = 0)
    <2>1. (past.opened \/ rc = 0) \in BOOLEAN
      OBVIOUS
    <2>2. past' = [past EXCEPT !.opened = (past.opened \/ rc = 0), !.unanswered = FALSE, !.statkept = FALSE]
      BY DEF OpenReturns
    <2> QED BY <1>1, <2>1, <2>2, OpenNoted
  <1> QED BY <1>2, <1>3 DEF OpenReturns

\* What the removal of the cache changes, at the start and at the end.
LEMMA DeleteStep ==
    ASSUME Types, s3fs_init \/ s3fs_destroy
    PROVE  /\ UNCHANGED << proc, cmd, file, arg, lib, global, dirty, entities, service >>
           /\ proc = "running"
           /\ past' \in PastType /\ past'.opened = past.opened
           /\ disk' \subseteq disk /\ old' \subseteq old /\ old' \subseteq disk'
           /\ \/ pc = "s3fs_init" /\ pc' \in {"s3fs_init cache", "CheckBucket"}
              \/ pc = "s3fs_init cache" /\ pc' = "CheckBucket"
              \/ pc = "s3fs_destroy" /\ pc' \in {"s3fs_destroy cache", "exit"}
              \/ pc = "s3fs_destroy cache" /\ pc' = "exit"
  <1>1. past \in PastType /\ old \subseteq disk
    BY DEF Types
  <1>2. ASSUME NEW where, NEW next, NEW after, DeleteCacheFileStatDirectory(where, next, after)
        PROVE  /\ UNCHANGED << proc, cmd, file, arg, lib, global, dirty, entities, service >>
               /\ proc = "running" /\ pc = where /\ pc' \in {next, after}
               /\ past' \in PastType /\ past'.opened = past.opened
               /\ disk' \subseteq disk /\ old' \subseteq old /\ old' \subseteq disk'
    <2>1. past' \in PastType /\ past'.opened = past.opened
      BY <1>1, <1>2, StatKeptNoted DEF DeleteCacheFileStatDirectory
    <2>2. disk' \subseteq disk /\ old' \subseteq old /\ old' \subseteq disk'
      BY <1>1, <1>2 DEF DeleteCacheFileStatDirectory, Remove
    <2> QED BY <1>2, <2>1, <2>2 DEF DeleteCacheFileStatDirectory, At
  <1>3. ASSUME NEW where, NEW after, DeleteCacheDirectory(where, after)
        PROVE  /\ UNCHANGED << proc, cmd, file, arg, lib, global, dirty, entities, service >>
               /\ proc = "running" /\ pc = where /\ pc' = after /\ past' = past
               /\ disk' \subseteq disk /\ old' \subseteq old /\ old' \subseteq disk'
    <2>1. disk' \subseteq disk /\ old' \subseteq old /\ old' \subseteq disk'
      BY <1>1, <1>3 DEF DeleteCacheDirectory, Remove
    <2> QED BY <1>3, <2>1 DEF DeleteCacheDirectory, At
  <1>4. CASE DeleteCacheFileStatDirectory("s3fs_init", "s3fs_init cache", "CheckBucket")
    BY <1>2, <1>4
  <1>5. CASE DeleteCacheDirectory("s3fs_init cache", "CheckBucket")
    BY <1>1, <1>3, <1>5
  <1>6. CASE DeleteCacheFileStatDirectory("s3fs_destroy", "s3fs_destroy cache", "exit")
    BY <1>2, <1>6
  <1>7. CASE DeleteCacheDirectory("s3fs_destroy cache", "exit")
    BY <1>1, <1>3, <1>7
  <1> QED BY <1>4, <1>5, <1>6, <1>7 DEF s3fs_init, s3fs_destroy

\* A command that opens, and one that uses the open file.
LEMMA CommandStep ==
    ASSUME Types, NEW p \in Paths, OPEN(p) \/ STAT(p) \/ REMOVE(p)
    PROVE  /\ UNCHANGED << proc, arg, lib, global, dirty, entities, disk, old, service >>
           /\ proc = "running" /\ pc = "idle" /\ pc' \in {"init", "s3fs_unlink"}
           /\ cmd' \in {"OPEN", "STAT", "REMOVE"}
           /\ file' \in FileType
           /\ past' \in PastType /\ past'.opened = past.opened
  <1>1. file \in FileType /\ past \in PastType
    BY DEF Types
  <1>2. ASSUME Opens PROVE past' \in PastType /\ past'.opened = past.opened
    BY <1>1, <1>2, OpensCounted DEF Opens
  <1>3. \A f \in FileType : S3IoOpen(f, p) \in FileType
    BY DEF FileType, Path, S3IoOpen
  <1>4. NoFile \in FileType
    BY DEF NoFile, FileType, Path
  <1>5. CASE OPEN(p)
    <2>1. PICK conf \in {"good", "no cache dir", "unknown level"} :
             file' = [S3IoOpen(NoFile, p) EXCEPT !.conf = conf]
      BY <1>5 DEF OPEN
    <2>2. \A f \in FileType : [f EXCEPT !.conf = conf] \in FileType
      BY DEF FileType
    <2>3. file' \in FileType
      BY <1>3, <1>4, <2>1, <2>2
    <2> QED BY <1>2, <1>5, <2>3 DEF OPEN, Command, At
  <1>6. CASE STAT(p)
    BY <1>1, <1>2, <1>3, <1>6 DEF STAT, Command, At
  <1>7. CASE REMOVE(p)
    <2>1. CASE file.open_success
      BY <1>1, <1>7, <2>1 DEF REMOVE, Command, At
    <2>2. CASE ~file.open_success
      BY <1>1, <1>2, <1>3, <1>7, <2>2 DEF REMOVE, Command, At
    <2> QED BY <2>1, <2>2
  <1> QED BY <1>5, <1>6, <1>7

LEMMA CloseStep ==
    ASSUME Types, CLOSE
    PROVE  /\ UNCHANGED << proc, file, arg, lib, global, entities, past, disk, old, service >>
           /\ proc = "running" /\ pc = "idle" /\ pc' \in {"uninit", "exit"} /\ cmd' = "CLOSE"
           /\ dirty' \subseteq dirty
           /\ pc' = "uninit" => file.object \notin dirty'
  <1>1. CASE file.open_success
    <2>1. PICK rc \in 0 .. 1 : Flushed(rc) /\ Command("CLOSE", IF rc = 0 THEN "uninit" ELSE "exit")
      BY <1>1 DEF CLOSE
    <2> QED BY <2>1 DEF CLOSE, Flushed, Command, At
  <1>2. CASE ~file.open_success
    BY <1>2 DEF CLOSE, Command, At
  <1> QED BY <1>1, <1>2

LEMMA FileStep ==
    ASSUME Types, FLUSH \/ WRITE
    PROVE  /\ UNCHANGED << proc, pc, cmd, file, arg, lib, global, entities, past, disk, old, service >>
           /\ proc = "running" /\ pc = "idle" /\ dirty' \subseteq Path
  <1>1. file.object \in Path /\ dirty \subseteq Path
    BY DEF Types, FileType
  <1>2. CASE FLUSH
    <2>1. PICK rc \in 0 .. 1 : Flushed(rc)
      BY <1>2 DEF FLUSH
    <2> QED BY <1>1, <1>2, <2>1 DEF FLUSH, Flushed, At
  <1>3. CASE WRITE
    BY <1>1, <1>3 DEF WRITE, At
  <1> QED BY <1>2, <1>3

\* The checks at the end of init, when no argument is left.
LEMMA OptionsChecked ==
    ASSUME Types, CheckOptions
    PROVE  /\ UNCHANGED << proc, cmd, file, global, dirty, entities, past, disk, old, service >>
           /\ proc = "running" /\ pc = "my_fuse_opt_proc" /\ pc' = "s3fs_init" /\ arg' = 1
           /\ arg # 4
           /\ lib' = {} \/ (lib' = lib /\ global.cache_dir = "there")
  <1>1. 4 \notin Arguments
    BY DEF CheckOptions
  <1>2. arg # 4
    BY <1>1, OptionsAre, GivenIs DEF Arguments
  <1> QED BY <1>2 DEF CheckOptions, InitFails, DestroyS3fsCurl, At

\* A process that is new, after an exit, a crash or a kill.
LEMMA NewProcessStep ==
    ASSUME Types, Exit \/ Restart
    PROVE  /\ proc' = "running" /\ pc' = "idle" /\ cmd' = "none" /\ arg' = 1
           /\ file' \in FileType /\ lib' = {} /\ dirty' = {} /\ entities' = {}
           /\ global' \in GlobalType /\ global'.bucket \notin Bucket /\ global'.is_sigv4 = TRUE
           /\ global'.cache_dir = "there"
           /\ past' \in PastType /\ past'.opened = FALSE
           /\ service' = service
           /\ old' = disk' /\ disk' \subseteq {OtherFile} \cup (Bucket \X {"stat", "cache"})
  <1>1. disk \subseteq {OtherFile} \cup (Bucket \X {"stat", "cache"})
    BY DEF Types
  <1>2. disk' \subseteq {OtherFile} \cup (Bucket \X {"stat", "cache"})
    BY <1>1 DEF Exit, Restart, Stat
  <1>3. NewProcess
    BY DEF Exit, Restart
  <1>4. NoFile \in FileType
    BY DEF NoFile, FileType, Path
  <1>5. NewGlobal \in GlobalType /\ NewGlobal.bucket \notin Bucket /\ NewGlobal.is_sigv4 = TRUE
        /\ NewGlobal.cache_dir = "there"
    BY DEF NewGlobal, GlobalType, Bucket
  <1>6. NewPast \in PastType /\ NewPast.opened = FALSE
    BY OpensBound DEF NewPast, PastType
  <1> QED BY <1>2, <1>3, <1>4, <1>5, <1>6 DEF NewProcess

\* What s3fs_open leaves when it opens a file.
LEMMA OpenedStep ==
    ASSUME Types, s3fs_open
    PROVE  /\ UNCHANGED << proc, cmd, arg, lib, global, old, service >>
           /\ proc = "running" /\ pc = "s3fs_open"
           /\ file' \in FileType /\ file'.object = file.object
           /\ past' \in PastType /\ past'.opened = past.opened
           /\ dirty' \subseteq dirty /\ entities' \subseteq Path
           /\ disk \subseteq disk' /\ disk' \subseteq {OtherFile} \cup (Bucket \X {"stat", "cache"})
           /\ pc' \in {"idle", "s3fs_unlink", "exit", "s3fs_getattr"}
  <1>1. /\ disk \subseteq {OtherFile} \cup (Bucket \X {"stat", "cache"}) /\ entities \subseteq Path
        /\ file \in FileType /\ past \in PastType /\ file.object \in Path
    BY DEF Types, FileType
  <1>2. CASE OpenReturns(1) /\ UNCHANGED << entities, dirty, disk >>
    <2>1. past'.opened \in BOOLEAN /\ past.opened \in BOOLEAN
      BY <1>1, <1>2, OpenReturnsStep DEF PastType
    <2>2. past'.opened = past.opened
      BY <1>2, <2>1, OpenReturnsStep
    <2> QED BY <1>1, <1>2, <2>2, OpenReturnsStep DEF s3fs_open, At
  <1>3. CASE ~(OpenReturns(1) /\ UNCHANGED << entities, dirty, disk >>)
    <2>1. /\ dirty' \subseteq dirty /\ entities' = entities \cup {file.object} /\ UNCHANGED << file, past >>
          /\ disk' = IF global.bucket \in Bucket THEN disk \cup {Stat(global.bucket), Cache(global.bucket)} ELSE disk
          /\ pc' = "s3fs_getattr"
      BY <1>3 DEF s3fs_open
    <2>2. disk \subseteq disk' /\ disk' \subseteq {OtherFile} \cup (Bucket \X {"stat", "cache"})
      BY <1>1, <2>1 DEF Stat, Cache
    <2> QED BY <1>1, <2>1, <2>2 DEF s3fs_open, At
  <1> QED BY <1>2, <1>3
-----------------------------------------------------------------------------
(***************************************************************************)
(* Every step keeps each part of the invariant.                            *)
(***************************************************************************)
\* The opening of a file that the service has ends.
LEMMA GetattrStep ==
    ASSUME Types, s3fs_getattr
    PROVE  /\ UNCHANGED << proc, cmd, arg, lib, global, dirty, entities, disk, old, service >>
           /\ proc = "running" /\ pc = "s3fs_getattr"
           /\ file' \in FileType /\ file'.object = file.object /\ past' \in PastType
           /\ pc' \in {"idle", "s3fs_unlink", "exit"}
  <1>1. PICK rc \in 0 .. 1 : OpenReturns(rc)
    BY DEF s3fs_getattr
  <1> QED BY <1>1, OpenReturnsStep DEF s3fs_getattr, At

\* Types.
LEMMA TypesStep == ASSUME Types, Configured, [Next]_vars PROVE Types'
  <1>1. CASE init
    BY <1>1, CurlStep DEF Types, Places, Tries, init, At
  <1>2. CASE my_fuse_opt_proc
    BY <1>2, OptionStep DEF Types, Places, Tries
  <1>3. CASE CheckOptions
    <2>1. /\ UNCHANGED << proc, cmd, file, global, dirty, entities, past, disk, old, service >>
          /\ pc' = "s3fs_init" /\ arg' = 1 /\ lib' \subseteq lib
      BY <1>3, OptionsChecked
    <2>2. arg' \in 1 .. 6
      BY <2>1
    <2>3. pc' \in Places
      BY <2>1 DEF Places
    <2> QED BY <2>1, <2>2, <2>3 DEF Types
  <1>4. CASE s3fs_init \/ s3fs_destroy
    BY <1>4, DeleteStep DEF Types, Places, Tries
  <1>5. CASE Crash
    BY <1>5 DEF Types, Places, Tries, Crash
  <1>6. CASE s3fs_check_service
    BY <1>6, CheckStep DEF Types, Places, Tries
  <1>7. CASE s3fs_open
    BY <1>7, OpenedStep DEF Types, Places, Tries
  <1>8. CASE s3fs_getattr
    BY <1>8, GetattrStep DEF Types, Places, Tries
  <1>9. CASE s3fs_unlink
    BY <1>9 DEF Types, Places, Tries, s3fs_unlink, At
  <1>10. CASE uninit
    BY <1>10 DEF Types, Places, Tries, uninit, DestroyS3fsCurl, At
  <1>11. CASE Exit \/ Restart
    <2>1. /\ proc' = "running" /\ pc' = "idle" /\ cmd' = "none" /\ arg' = 1
          /\ file' \in FileType /\ lib' = {} /\ dirty' = {} /\ entities' = {}
          /\ global' \in GlobalType /\ past' \in PastType /\ service' = service
          /\ old' = disk' /\ disk' \subseteq {OtherFile} \cup (Bucket \X {"stat", "cache"})
      BY <1>11, NewProcessStep
    <2>2. arg' \in 1 .. 6
      BY <2>1
    <2>3. pc' \in Places
      BY <2>1 DEF Places
    <2> QED BY <2>1, <2>2, <2>3 DEF Types
  <1>12. ASSUME NEW p \in Paths, OPEN(p) \/ STAT(p) \/ REMOVE(p) PROVE Types'
    BY <1>12, CommandStep DEF Types, Places, Tries
  <1>13. CASE CLOSE
    BY <1>13, CloseStep DEF Types, Places, Tries
  <1>14. CASE FLUSH \/ WRITE
    BY <1>14, FileStep DEF Types, Places, Tries
  <1>15. CASE UNCHANGED vars
    BY <1>15 DEF Types, Places, Tries, vars
  <1> QED
    BY <1>1, <1>2, <1>3, <1>4, <1>5, <1>6, <1>7, <1>8, <1>9, <1>10, <1>11, <1>12, <1>13, <1>14, <1>15 DEF Next, Step

\* Commands.
LEMMA CommandsStep == ASSUME Types, Configured, Commands, [Next]_vars PROVE Commands'
  <1>1. CASE init
    BY <1>1, CurlStep DEF Commands, Ending, Tries, init, At
  <1>2. CASE my_fuse_opt_proc
    BY <1>2, OptionStep DEF Commands, Ending, Tries
  <1>3. CASE CheckOptions
    BY <1>3, OptionsChecked DEF Commands, Ending, Tries
  <1>4. CASE s3fs_init \/ s3fs_destroy
    BY <1>4, DeleteStep DEF Commands, Ending, Tries
  <1>5. CASE Crash
    BY <1>5 DEF Commands, Ending, Tries, Crash
  <1>6. CASE s3fs_check_service
    BY <1>6, CheckStep DEF Commands, Ending, Tries
  <1>7. CASE s3fs_open
    BY <1>7, OpenedStep DEF Commands, Ending, Tries
  <1>8. CASE s3fs_getattr
    BY <1>8, GetattrStep DEF Commands, Ending, Tries
  <1>9. CASE s3fs_unlink
    BY <1>9 DEF Commands, Ending, Tries, s3fs_unlink, At
  <1>10. CASE uninit
    BY <1>10 DEF Commands, Ending, Tries, uninit, DestroyS3fsCurl, At
  <1>11. CASE Exit \/ Restart
    BY <1>11, NewProcessStep DEF Commands, Ending, Tries
  <1>12. ASSUME NEW p \in Paths, OPEN(p) \/ STAT(p) \/ REMOVE(p) PROVE Commands'
    BY <1>12, CommandStep DEF Commands, Ending, Tries
  <1>13. CASE CLOSE
    BY <1>13, CloseStep DEF Commands, Ending, Tries
  <1>14. CASE FLUSH \/ WRITE
    BY <1>14, FileStep DEF Commands, Ending, Tries
  <1>15. CASE UNCHANGED vars
    BY <1>15 DEF Commands, Ending, Tries, vars
  <1> QED
    BY <1>1, <1>2, <1>3, <1>4, <1>5, <1>6, <1>7, <1>8, <1>9, <1>10, <1>11, <1>12, <1>13, <1>14, <1>15 DEF Next, Step

\* Started.
LEMMA StartedStep == ASSUME Types, Commands, Started, Configured, [Next]_vars PROVE Started'
  <1>1. CASE init
    BY <1>1, CurlStep DEF Commands, Started, Ending, Tries, Types, PastType, init, At
  <1>2. CASE my_fuse_opt_proc
    BY <1>2, OptionStep DEF Commands, Started, Ending, Tries, Types, PastType
  <1>3. CASE CheckOptions
    BY <1>3, OptionsChecked DEF Commands, Started, Ending, Tries, Types, PastType
  <1>4. CASE s3fs_init \/ s3fs_destroy
    BY <1>4, DeleteStep DEF Commands, Started, Ending, Tries, Types, PastType
  <1>5. CASE Crash
    BY <1>5 DEF Commands, Started, Ending, Tries, Types, PastType, Crash
  <1>6. CASE s3fs_check_service
    BY <1>6, CheckStep DEF Commands, Started, Ending, Tries, Types, PastType
  <1>7. CASE s3fs_open
    BY <1>7, OpenedStep DEF Commands, Started, Ending, Tries, Types, PastType
  <1>8. CASE s3fs_getattr
    BY <1>8, GetattrStep DEF Commands, Started, Ending, Tries, Types, PastType
  <1>9. CASE s3fs_unlink
    BY <1>9 DEF Commands, Started, Ending, Tries, Types, PastType, s3fs_unlink, At
  <1>10. CASE uninit
    BY <1>10 DEF Commands, Started, Ending, Tries, Types, PastType, uninit, DestroyS3fsCurl, At
  <1>11. CASE Exit \/ Restart
    BY <1>11, NewProcessStep DEF Commands, Started, Ending, Tries, Types, PastType
  <1>12. ASSUME NEW p \in Paths, OPEN(p) \/ STAT(p) \/ REMOVE(p) PROVE Started'
    BY <1>12, CommandStep DEF Commands, Started, Ending, Tries, Types, PastType
  <1>13. CASE CLOSE
    BY <1>13, CloseStep DEF Commands, Started, Ending, Tries, Types, PastType
  <1>14. CASE FLUSH \/ WRITE
    BY <1>14, FileStep DEF Commands, Started, Ending, Tries, Types, PastType
  <1>15. CASE UNCHANGED vars
    BY <1>15 DEF Commands, Started, Ending, Tries, Types, PastType, vars
  <1> QED
    BY <1>1, <1>2, <1>3, <1>4, <1>5, <1>6, <1>7, <1>8, <1>9, <1>10, <1>11, <1>12, <1>13, <1>14, <1>15 DEF Next, Step

\* Configured.
LEMMA ConfiguredStep == ASSUME Types, Started, Configured, [Next]_vars PROVE Configured'
  <1>1. CASE init
    BY <1>1, CurlStep DEF Configured, Started, Tries, Types, init, At
  <1>2. CASE my_fuse_opt_proc
    BY <1>2, OptionStep DEF Configured, Started, Tries, Types
  <1>3. CASE CheckOptions
    BY <1>3, OptionsChecked DEF Configured, Started, Tries, Types
  <1>4. CASE s3fs_init \/ s3fs_destroy
    BY <1>4, DeleteStep DEF Configured, Started, Tries, Types
  <1>5. CASE Crash
    BY <1>5 DEF Configured, Started, Tries, Types, Crash
  <1>6. CASE s3fs_check_service
    BY <1>6, CheckStep DEF Configured, Started, Tries, Types
  <1>7. CASE s3fs_open
    BY <1>7, OpenedStep DEF Configured, Started, Tries, Types
  <1>8. CASE s3fs_getattr
    BY <1>8, GetattrStep DEF Configured, Started, Tries, Types
  <1>9. CASE s3fs_unlink
    BY <1>9 DEF Configured, Started, Tries, Types, s3fs_unlink, At
  <1>10. CASE uninit
    BY <1>10 DEF Configured, Started, Tries, Types, uninit, DestroyS3fsCurl, At
  <1>11. CASE Exit \/ Restart
    BY <1>11, NewProcessStep DEF Configured, Started, Tries, Types
  <1>12. ASSUME NEW p \in Paths, OPEN(p) \/ STAT(p) \/ REMOVE(p) PROVE Configured'
    BY <1>12, CommandStep DEF Configured, Started, Tries, Types
  <1>13. CASE CLOSE
    BY <1>13, CloseStep DEF Configured, Started, Tries, Types
  <1>14. CASE FLUSH \/ WRITE
    BY <1>14, FileStep DEF Configured, Started, Tries, Types
  <1>15. CASE UNCHANGED vars
    BY <1>15 DEF Configured, Started, Tries, Types, vars
  <1> QED
    BY <1>1, <1>2, <1>3, <1>4, <1>5, <1>6, <1>7, <1>8, <1>9, <1>10, <1>11, <1>12, <1>13, <1>14, <1>15 DEF Next, Step

\* ClosedIsFlushed.
LEMMA FlushedStep == ASSUME Types, Configured, ClosedIsFlushed, [Next]_vars PROVE ClosedIsFlushed'
  <1>1. CASE init
    BY <1>1, CurlStep DEF ClosedIsFlushed, Tries, init, At
  <1>2. CASE my_fuse_opt_proc
    BY <1>2, OptionStep DEF ClosedIsFlushed, Tries
  <1>3. CASE CheckOptions
    BY <1>3, OptionsChecked DEF ClosedIsFlushed, Tries
  <1>4. CASE s3fs_init \/ s3fs_destroy
    <2>1. /\ file' = file /\ dirty' = dirty
          /\ pc' \in {"uninit", "s3fs_destroy", "s3fs_destroy cache"} => pc = "s3fs_destroy"
      BY <1>4, DeleteStep
    <2> QED BY <2>1 DEF ClosedIsFlushed
  <1>5. CASE Crash
    BY <1>5 DEF ClosedIsFlushed, Tries, Crash
  <1>6. CASE s3fs_check_service
    BY <1>6, CheckStep DEF ClosedIsFlushed, Tries
  <1>7. CASE s3fs_open
    BY <1>7, OpenedStep DEF ClosedIsFlushed, Tries
  <1>8. CASE s3fs_getattr
    BY <1>8, GetattrStep DEF ClosedIsFlushed, Tries
  <1>9. CASE s3fs_unlink
    BY <1>9 DEF ClosedIsFlushed, Tries, s3fs_unlink, At
  <1>10. CASE uninit
    BY <1>10 DEF ClosedIsFlushed, Tries, uninit, DestroyS3fsCurl, At
  <1>11. CASE Exit \/ Restart
    BY <1>11, NewProcessStep DEF ClosedIsFlushed, Tries
  <1>12. ASSUME NEW p \in Paths, OPEN(p) \/ STAT(p) \/ REMOVE(p) PROVE ClosedIsFlushed'
    BY <1>12, CommandStep DEF ClosedIsFlushed, Tries
  <1>13. CASE CLOSE
    BY <1>13, CloseStep DEF ClosedIsFlushed, Tries
  <1>14. CASE FLUSH \/ WRITE
    BY <1>14, FileStep DEF ClosedIsFlushed, Tries
  <1>15. CASE UNCHANGED vars
    BY <1>15 DEF ClosedIsFlushed, Tries, vars
  <1> QED
    BY <1>1, <1>2, <1>3, <1>4, <1>5, <1>6, <1>7, <1>8, <1>9, <1>10, <1>11, <1>12, <1>13, <1>14, <1>15 DEF Next, Step

\* StatRemoved.
LEMMA StatStep == ASSUME Types, Configured, StatRemoved, [Next]_vars PROVE StatRemoved'
  <1>1. CASE init
    BY <1>1, CurlStep DEF StatRemoved, Tries, init, At
  <1>2. CASE my_fuse_opt_proc
    BY <1>2, OptionStep DEF StatRemoved, Tries
  <1>3. CASE CheckOptions
    BY <1>3, OptionsChecked DEF StatRemoved, Tries
  <1>4. CASE s3fs_init \/ s3fs_destroy
    <2>1. /\ global' = global /\ old' \subseteq old
          /\ pc' \in Tries \cup {"s3fs_init cache", "s3fs_open"} => pc \in {"s3fs_init", "s3fs_init cache"}
      BY <1>4, DeleteStep DEF Tries
    <2>2. CASE pc = "s3fs_init cache" /\ past' = past
      BY <2>1, <2>2 DEF StatRemoved, Stat
    <2>3. CASE DeleteCacheFileStatDirectory("s3fs_init", "s3fs_init cache", "CheckBucket")
      <3>1. /\ pc = "s3fs_init" /\ past \in PastType /\ old \subseteq disk
        BY <2>3 DEF DeleteCacheFileStatDirectory, At, Types
      <3>2. SUFFICES ASSUME global.bucket \in Bucket, ~past'.statkept, global.cache_dir = "there"
                     PROVE  Stat(global.bucket) \notin old'
        BY <2>1 DEF StatRemoved, Stat
      <3>3. global.is_remove_cache /\ global.bucket # Missing
        BY <3>1, <3>2 DEF Configured, Bucket
      <3>4. CASE past' = [past EXCEPT !.statkept = TRUE]
        BY <3>1, <3>2, <3>4, StatKeptNoted
      <3>5. CASE Remove({Stat(global.bucket)})
        BY <3>5 DEF Remove
      <3>6. CASE ~Exists(Stat(global.bucket)) /\ UNCHANGED << disk, old >>
        BY <3>1, <3>2, <3>6 DEF Exists
      <3> QED BY <2>3, <3>3, <3>4, <3>5, <3>6 DEF DeleteCacheFileStatDirectory
    <2>4. CASE DeleteCacheDirectory("s3fs_init cache", "CheckBucket")
      BY <2>2, <2>4 DEF DeleteCacheDirectory, At
    <2>5. CASE s3fs_destroy
      <3>1. pc \in {"s3fs_destroy", "s3fs_destroy cache"}
        BY <2>5 DEF s3fs_destroy, DeleteCacheFileStatDirectory, DeleteCacheDirectory, At
      <3> QED BY <2>1, <3>1 DEF StatRemoved
    <2> QED BY <1>4, <2>3, <2>4, <2>5 DEF s3fs_init
  <1>5. CASE Crash
    BY <1>5 DEF StatRemoved, Tries, Crash
  <1>6. CASE s3fs_check_service
    <2>1. /\ pc \in Tries /\ global'.bucket = global.bucket /\ global'.cache_dir = global.cache_dir
          /\ past'.statkept = past.statkept /\ old' = old
      BY <1>6, CheckStep
    <2> QED BY <2>1 DEF StatRemoved, Stat
  <1>7. CASE s3fs_open
    BY <1>7, OpenedStep DEF StatRemoved, Tries
  <1>8. CASE s3fs_getattr
    BY <1>8, GetattrStep DEF StatRemoved, Tries
  <1>9. CASE s3fs_unlink
    BY <1>9 DEF StatRemoved, Tries, s3fs_unlink, At
  <1>10. CASE uninit
    BY <1>10 DEF StatRemoved, Tries, uninit, DestroyS3fsCurl, At
  <1>11. CASE Exit \/ Restart
    BY <1>11, NewProcessStep DEF StatRemoved, Tries
  <1>12. ASSUME NEW p \in Paths, OPEN(p) \/ STAT(p) \/ REMOVE(p) PROVE StatRemoved'
    BY <1>12, CommandStep DEF StatRemoved, Tries
  <1>13. CASE CLOSE
    BY <1>13, CloseStep DEF StatRemoved, Tries
  <1>14. CASE FLUSH \/ WRITE
    BY <1>14, FileStep DEF StatRemoved, Tries
  <1>15. CASE UNCHANGED vars
    BY <1>15 DEF StatRemoved, Tries, vars
  <1> QED
    BY <1>1, <1>2, <1>3, <1>4, <1>5, <1>6, <1>7, <1>8, <1>9, <1>10, <1>11, <1>12, <1>13, <1>14, <1>15 DEF Next, Step

\* Settings.
LEMMA SettingsStep == ASSUME Types, Commands, Started, Configured, Settings, [Next]_vars PROVE Settings'
  <1>1. CASE init
    <2>1. /\ lib \subseteq lib' /\ pc' \in {"my_fuse_opt_proc", "s3fs_init"}
          /\ pc' = "my_fuse_opt_proc" => "global" \notin lib
      BY <1>1, CurlStep DEF Types
    <2>2. pc = "init" /\ UNCHANGED << cmd, global, service >>
      BY <1>1 DEF init, At
    <2>3. cmd # "CLOSE"
      BY <2>2 DEF Commands, Ending
    <2> QED BY <2>1, <2>2, <2>3 DEF Settings
  <1>2. CASE my_fuse_opt_proc
    BY <1>2, OptionStep DEF Settings, Commands, Started, Ending, Tries
  <1>3. CASE CheckOptions
    BY <1>3, OptionsChecked DEF Settings, Commands, Started, Ending, Tries
  <1>4. CASE s3fs_init \/ s3fs_destroy
    BY <1>4, DeleteStep DEF Settings, Commands, Started, Ending, Tries
  <1>5. CASE Crash
    BY <1>5 DEF Settings, Commands, Started, Ending, Tries, Crash
  <1>6. CASE s3fs_check_service
    <2>1. /\ UNCHANGED << cmd, lib, service >> /\ pc \in Tries /\ "pool" \in lib
          /\ global'.keys = global.keys /\ global'.bucket = global.bucket
      BY <1>6, CheckStep
    <2>2. "global" \in lib'
      BY <2>1 DEF Started
    <2>3. PICK answer \in Accepted \cup Lost :
             \/ /\ pc' = "CheckBucket in region"
                /\ global'.endpoint = service.region /\ global'.is_sigv4 = global.is_sigv4
             \/ /\ answer \in {"400", "403", "region"} /\ global.is_sigv4
                /\ answer # "region" \/ pc # "CheckBucket"
                /\ global'.is_sigv4 = FALSE /\ pc' = "CheckBucket with v2"
             \/ /\ global' = global /\ pc' = "s3fs_open"
      BY <1>6, CheckStep
    <2>4. CASE /\ pc' = "CheckBucket in region"
               /\ global'.endpoint = service.region /\ global'.is_sigv4 = global.is_sigv4
      BY <2>1, <2>2, <2>4 DEF Settings
    <2>5. CASE /\ answer \in {"400", "403", "region"} /\ global.is_sigv4
               /\ answer # "region" \/ pc # "CheckBucket"
               /\ global'.is_sigv4 = FALSE /\ pc' = "CheckBucket with v2"
      <3>1. ASSUME << global.keys, global.bucket >> \in service.allowed PROVE "v2" \in service.sigs
        <4>1. answer \notin Lost
          BY <2>5 DEF Lost
        <4>2. service.sigs \in {{"v2"}, {"v4"}, {"v2", "v4"}}
          BY DEF Types, ServiceType
        <4>3. pc # "CheckBucket" => global.endpoint = service.region
          BY <2>1, <2>5 DEF Settings, Tries
        <4>4. CASE "v4" \notin service.sigs
          BY <4>2, <4>4
        <4>5. CASE "v4" \in service.sigs
          <5>1. CASE global.endpoint # service.region
            BY <2>5, <3>1, <4>1, <4>3, <4>5, <5>1 DEF Accepted
          <5>2. CASE global.endpoint = service.region
            BY <2>5, <3>1, <4>1, <4>5, <5>2 DEF Accepted
          <5> QED BY <5>1, <5>2
        <4> QED BY <4>4, <4>5
      <3> QED BY <2>1, <2>2, <2>5, <3>1 DEF Settings
    <2>6. CASE global' = global /\ pc' = "s3fs_open"
      BY <2>1, <2>2, <2>6 DEF Settings
    <2> QED BY <2>3, <2>4, <2>5, <2>6
  <1>7. CASE s3fs_open
    BY <1>7, OpenedStep DEF Settings, Commands, Started, Ending, Tries
  <1>8. CASE s3fs_getattr
    BY <1>8, GetattrStep DEF Settings, Commands, Started, Ending, Tries
  <1>9. CASE s3fs_unlink
    BY <1>9 DEF Settings, Commands, Started, Ending, Tries, s3fs_unlink, At
  <1>10. CASE uninit
    BY <1>10 DEF Settings, Commands, Started, Ending, Tries, uninit, DestroyS3fsCurl, At
  <1>11. CASE Exit \/ Restart
    BY <1>11, NewProcessStep DEF Settings, Commands, Started, Ending, Tries
  <1>12. ASSUME NEW p \in Paths, OPEN(p) \/ STAT(p) \/ REMOVE(p) PROVE Settings'
    BY <1>12, CommandStep DEF Settings, Commands, Started, Ending, Tries
  <1>13. CASE CLOSE
    BY <1>13, CloseStep DEF Settings, Commands, Started, Ending, Tries
  <1>14. CASE FLUSH \/ WRITE
    BY <1>14, FileStep DEF Settings, Commands, Started, Ending, Tries
  <1>15. CASE UNCHANGED vars
    BY <1>15 DEF Settings, Commands, Started, Ending, Tries, vars
  <1> QED
    BY <1>1, <1>2, <1>3, <1>4, <1>5, <1>6, <1>7, <1>8, <1>9, <1>10, <1>11, <1>12, <1>13, <1>14, <1>15 DEF Next, Step

LEMMA InvInit == Init => Inv
  <1> SUFFICES ASSUME Init PROVE Inv
    OBVIOUS
  <1>1. NoFile \in FileType
    BY DEF NoFile, FileType, Path
  <1>2. NewGlobal \in GlobalType /\ NewGlobal.bucket \notin Bucket /\ NewGlobal.is_sigv4 = TRUE
        /\ NewGlobal.cache_dir = "there"
    BY DEF NewGlobal, GlobalType, Bucket
  <1>3. NewPast \in PastType /\ NewPast.opened = FALSE
    BY OpensBound DEF NewPast, PastType
  <1>4. /\ proc = "running" /\ pc = "idle" /\ cmd = "none" /\ file = NoFile /\ arg = 1
        /\ lib = {} /\ global = NewGlobal /\ dirty = {} /\ entities = {} /\ past = NewPast
        /\ disk = {OtherFile} /\ old = disk /\ service \in ServiceType
    BY DEF Init, ServiceType
  <1>5. Types
    <2>1. arg \in 1 .. 6
      BY <1>4
    <2>2. pc \in Places
      BY <1>4 DEF Places
    <2> QED BY <1>1, <1>2, <1>3, <1>4, <2>1, <2>2 DEF Types
  <1>6. Commands /\ ClosedIsFlushed
    BY <1>4 DEF Commands, ClosedIsFlushed, Ending
  <1>7. Started
    BY <1>3, <1>4 DEF Started
  <1>8. Configured /\ StatRemoved /\ Settings
    BY <1>2, <1>4 DEF Configured, StatRemoved, Settings, Tries
  <1> QED BY <1>5, <1>6, <1>7, <1>8 DEF Inv

LEMMA InvStep == Inv /\ [Next]_vars => Inv'
  BY TypesStep, CommandsStep, StartedStep, ConfiguredStep, FlushedStep, StatStep, SettingsStep DEF Inv

LEMMA InvAlways == Spec => []Inv
  BY InvInit, InvStep, PTL DEF Spec

-----------------------------------------------------------------------------
(***************************************************************************)
(* The theorems.                                                           *)
(***************************************************************************)
LEMMA TypesImply == Types => TypeOK
  <1> SUFFICES ASSUME Types PROVE TypeOK
    OBVIOUS
  <1>1. /\ proc \in {"running", "crashed"} /\ pc \in Places /\ arg \in 1 .. 6
        /\ lib \subseteq {"global", "share", "crypt", "pool"}
        /\ dirty \subseteq Path /\ entities \subseteq Path
        /\ old \subseteq disk /\ disk \subseteq {OtherFile} \cup (Bucket \X {"stat", "cache"})
    BY DEF Types
  <1>2. /\ file.open_success \in BOOLEAN /\ {file.path, file.object} \subseteq Path
        /\ file.conf \in {"good", "no cache dir", "unknown level"}
    BY DEF Types, FileType
  <1>3. global.bucket \in Bucket \cup {Missing, Refused, Illegal} /\ past.opens \in 0 .. MaxOpens
    BY DEF Types, GlobalType, PastType
  <1>4. arg \in 1 .. Len(Options) + 1 /\ lib \subseteq Done(Len(InitSteps))
    BY <1>1, OptionsAre, DoneIs
  <1> QED BY <1>1, <1>2, <1>3, <1>4 DEF TypeOK, Places, Path

(***************************************************************************)
(* S3Io, the globals of s3fs.cpp and the cache directory keep their types, *)
(* whatever fails and whenever the process is killed.                      *)
(***************************************************************************)
THEOREM SessionTypes == Spec => []TypeOK
  <1>1. Inv => TypeOK
    BY TypesImply DEF Inv
  <1> QED BY <1>1, InvAlways, PTL

(***************************************************************************)
(* After a successful S3Io::open the pool of handles is there until CLOSE, *)
(* so no later open crashes the process, although init fails in all of     *)
(* them: InitGlobalCurl refuses before anything is stopped.                *)
(***************************************************************************)
THEOREM OpenFilesSurvive == Spec => []OpenSurvives
  <1>1. Inv => OpenSurvives
    BY DEF Inv, Started, OpenSurvives
  <1> QED BY <1>1, InvAlways, PTL

(***************************************************************************)
(* S3Io::close comes to uninit and s3fs_destroy, which removes the cache,  *)
(* only when the writes to the file are uploaded.                          *)
(***************************************************************************)
THEOREM ClosedFilesAreFlushed == Spec => []ClosedIsFlushed
  <1>1. Inv => ClosedIsFlushed
    BY DEF Inv
  <1> QED BY <1>1, InvAlways, PTL

(***************************************************************************)
(* s3fs_open never finds the stat file of an earlier process next to its   *)
(* cache file, wherever that process was killed, unless the removal in     *)
(* s3fs_init failed.                                                       *)
(***************************************************************************)
THEOREM StaleCachesAreUnused == Spec => []StaleCacheUnused
  <1>1. ASSUME Inv PROVE StaleCacheUnused
    <2>1. SUFFICES ASSUME At("s3fs_open"), global.bucket \in Bucket, ~past.statkept
                   PROVE  Stat(global.bucket) \notin old
      BY DEF StaleCacheUnused
    <2>2. global.cache_dir = "there"
      <3>1. global.cache_dir \in {"there", "absent"}
        BY <1>1 DEF Inv, Types, GlobalType
      <3>2. global.cache_dir # "absent"
        BY <1>1, <2>1 DEF Inv, Configured, At
      <3> QED BY <3>1, <3>2
    <2> QED BY <1>1, <2>1, <2>2 DEF Inv, StatRemoved, At
  <1>2. Inv => StaleCacheUnused
    BY <1>1
  <1> QED BY <1>2, InvAlways, PTL

(***************************************************************************)
(* s3fs_check_service ends with a region and a signature the service       *)
(* accepts, if it accepts the keys in any and answers every request: the   *)
(* order region first, then signature, loses no service.                   *)
(***************************************************************************)
THEOREM ServiceIsFound == Spec => ServiceFound
  <1> DEFINE A == /\ pc \in Tries /\ pc' = "s3fs_open" /\ ~past'.unanswered
                  /\ << global.keys, global.bucket >> \in service.allowed
                  => Accepted' = {"200"}
  <1>1. ASSUME Inv, [Next]_vars PROVE [A]_vars
    <2>1. SUFFICES ASSUME pc \in Tries, pc' = "s3fs_open", ~past'.unanswered,
                          << global.keys, global.bucket >> \in service.allowed
                   PROVE  Accepted' = {"200"}
      OBVIOUS
    <2>2. s3fs_check_service
      <3>t. Types
        BY <1>1 DEF Inv
      <3>1. pc # "s3fs_open" /\ pc \notin {"idle", "init", "my_fuse_opt_proc", "s3fs_getattr", "s3fs_unlink",
                                            "uninit", "s3fs_init", "s3fs_destroy", "exit", "s3fs_init cache",
                                            "s3fs_destroy cache"}
        BY <2>1 DEF Tries
      <3>2. ~(init \/ my_fuse_opt_proc \/ CheckOptions \/ s3fs_open \/ s3fs_getattr \/ s3fs_unlink \/ uninit)
        BY <3>1 DEF init, my_fuse_opt_proc, CheckOptions, s3fs_open, s3fs_getattr, s3fs_unlink, uninit, At
      <3>3. ~(s3fs_init \/ s3fs_destroy)
        BY <3>1, <3>t, DeleteStep
      <3>4. ~Crash /\ ~(Exit \/ Restart)
        BY <2>1, <3>1, <3>t, NewProcessStep DEF Crash
      <3>5. \A p \in Paths : ~(OPEN(p) \/ STAT(p) \/ REMOVE(p))
        BY <3>1, <3>t, CommandStep
      <3>6. ~CLOSE /\ ~(FLUSH \/ WRITE) /\ ~(UNCHANGED vars)
        BY <2>1, <3>1, <3>t, CloseStep, FileStep DEF vars
      <3> QED BY <1>1, <3>2, <3>3, <3>4, <3>5, <3>6 DEF Next, Step
    <2>3. PICK answer \in Accepted \cup Lost :
             /\ answer \in Lost => past'.unanswered
             /\ answer \notin {"400", "403", "region"} \/ ~global.is_sigv4
             /\ global' = global
      BY <1>1, <2>1, <2>2, CheckStep DEF Inv
    <2>4. service' = service
      BY <2>2 DEF s3fs_check_service
    <2>5. Accepted' = Accepted
      BY <2>3, <2>4 DEF Accepted
    <2>6. answer \in Accepted
      BY <2>1, <2>3
    <2>7. CASE ~global.is_sigv4
      <3>1. "v2" \in service.sigs
        BY <1>1, <2>1, <2>7 DEF Inv, Settings
      <3>2. Accepted = IF "v2" \in service.sigs THEN {"200"} ELSE {"400"}
        BY <2>1, <2>7 DEF Accepted
      <3> QED BY <2>5, <3>1, <3>2
    <2>8. CASE global.is_sigv4
      <3>1. "v4" \in service.sigs
        BY <2>1, <2>3, <2>6, <2>8 DEF Accepted
      <3>2. global.endpoint = service.region
        BY <2>1, <2>3, <2>6, <2>8, <3>1 DEF Accepted
      <3> QED BY <2>1, <2>5, <2>8, <3>1, <3>2 DEF Accepted
    <2> QED BY <2>7, <2>8
  <1>2. Inv /\ [Next]_vars => [A]_vars
    BY <1>1
  <1> QED BY <1>2, InvAlways, PTL DEF Spec, ServiceFound
=============================================================================
