----------------------------- MODULE StatCache -----------------------------
(***************************************************************************)
(* class StatCache of src/src/protocols/s3/cache.{h,cpp} and the lookups   *)
(* of s3fs.cpp that go through it: get_object_attribute and the handlers   *)
(* that call it, for files in one directory.                               *)
(*                                                                         *)
(* One thread runs the handlers.  A handler is a list of steps; a lookup   *)
(* gives the lock of the cache back between its calls, while time passes   *)
(* and other processes create and delete objects.  S3Io mounts with umask  *)
(* 0, so an access check fails only when its lookup fails; it calls no     *)
(* other operation for a file than s3fs_open before that has returned 0.   *)
(***************************************************************************)
EXTENDS Naturals, Sequences, FiniteSets

CONSTANTS
    Dir,                    \* the directory the files are in
    DirKinds,               \* the kinds of object that may stand for it
    Files,                  \* the files asked for, in the order of their paths
    CacheSize,              \* StatCache::CacheSize
    Options,                \* the options the process may be started with
    MaxTime,                \* when the clock stops
    None,                   \* no entry in the map
    Faults                  \* lost answers ("net"), other processes ("others")

ASSUME StatCacheSizes == CacheSize \in Nat /\ MaxTime \in Nat
ASSUME StatCacheOptions == \A o \in Options :
    o \in [expire : BOOLEAN, interval : BOOLEAN, noobj : BOOLEAN] /\ (o.interval => o.expire)
ASSUME StatCacheDir == DirKinds \subseteq {{"object/"}, {"object_$folder$"}, {"children"}, {"object", "children"}}
ASSUME StatCacheFaults == Faults \subseteq {"net", "others"}

File == {Files[i] : i \in DOMAIN Files}
Name == File \cup {Dir}

ASSUME StatCacheFiles == Files \in Seq(File)

\* Keys of the cache: a path, or the path with a slash at its end; and the
\* order of the map.
Key == Name \X {"path", "path/"}
Place(k) ==
    2 * (IF k[1] = Dir THEN 0 ELSE CHOOSE i \in DOMAIN Files : Files[i] = k[1]) + (IF k[2] = "path/" THEN 1 ELSE 0)

\* The objects that make a path exist, in the order they are asked for.
Kinds == << "object", "object/", "object_$folder$", "children" >>

VARIABLES
    opt,                    \* the options, fixed when the process starts
    stat_cache,             \* the map
    now,                    \* the clock
    there,                  \* the kinds of object the service has for a path
    opened,                 \* the files s3fs_open has left with an entity
    todo,                   \* steps the handler has still to take
    at,                     \* where the lookup that runs is
    failed,                 \* the result of its last HEAD
    stuck                   \* the thread waits for a lock it holds

vars == << opt, stat_cache, now, there, opened, todo, at, failed, stuck >>

Keys(cache) == {k \in Key : cache[k] # None}

\* fresh: the entry was made by the handler that runs.
\* before: the process has changed the object since, by a handler that is to
\* forget the entry ("changed") or by another upload ("uploaded").
Entry(noobj, pin) ==
    [noobjcache |-> noobj, cache_date |-> now, hit_count |-> 0,
     notruncate |-> IF pin THEN 1 ELSE 0, fresh |-> TRUE, before |-> "no"]

\* A step for path n.  A lookup may keep its stat in the cache although its
\* result does not matter ("pin"), or go on without an object ("create",
\* "flush"); a file that is opened may be a new one ("create").
Step(do, n) == [do |-> do, name |-> n, how |-> "usual"]
Lookup(n) == Step("lookup", n)

Init ==
    /\ opt \in Options
    /\ stat_cache = [k \in Key |-> None] /\ now = 0 /\ opened = {}
    /\ there \in [Name -> DirKinds \cup {{}, {"object"}}]
    /\ there[Dir] \in DirKinds /\ \A f \in File : there[f] \in {{}, {"object"}}
    /\ todo = <<>> /\ at = "GetStat" /\ failed = "ok" /\ stuck = FALSE
-----------------------------------------------------------------------------
(***************************************************************************)
(* StatCache.                                                              *)
(***************************************************************************)
IsExpireStatCacheTime(e) == opt.expire /\ e.cache_date < now

\* The entry that answers for a path: that of the path with a slash first.
Find(cache, n) ==
    IF cache[<< n, "path/" >>] # None THEN << n, "path/" >> ELSE << n, "path" >>

DelStat(cache, n) == [cache EXCEPT ![<< n, "path" >>] = None, ![<< n, "path/" >>] = None]

\* hit, and what becomes of the cache
GetStat(cache, n) ==
    LET k == Find(cache, n) IN
    IF cache[k] = None THEN [hit |-> FALSE, cache |-> cache]
    ELSE IF IsExpireStatCacheTime(cache[k]) THEN [hit |-> FALSE, cache |-> DelStat(cache, n)]
    ELSE IF cache[k].noobjcache THEN [hit |-> FALSE, cache |-> cache]
    ELSE [hit |-> TRUE,
          cache |-> [cache EXCEPT ![k].hit_count = 1,
                                  ![k].cache_date = IF opt.interval THEN now ELSE @]]

\* Faulty: the unsigned count is lowered below 0.
ChangeFlagUnchecked(cache, n, pin) ==
    IF cache[<< n, "path" >>] = None THEN cache
    ELSE [cache EXCEPT ![<< n, "path" >>].notruncate = IF pin THEN @ + 1 ELSE @ - 1]

ChangeNoTruncateFlag(cache, n, pin) ==
    IF cache[<< n, "path" >>] = None THEN cache
    ELSE [cache EXCEPT ![<< n, "path" >>].notruncate = IF pin THEN @ + 1 ELSE IF @ > 0 THEN @ - 1 ELSE 0]

\* sort_statiterlist: the older date, then the fewer hits, then the map's order
Older(cache, j, k) ==
    \/ cache[j].cache_date < cache[k].cache_date
    \/ /\ cache[j].cache_date = cache[k].cache_date
       /\ \/ cache[j].hit_count < cache[k].hit_count
          \/ cache[j].hit_count = cache[k].hit_count /\ Place(j) < Place(k)

\* The loop over the map keeps the oldest entries it has seen.  They are one
\* more with every turn until it has as many as it wants, and it wants one
\* less with every entry marked notruncate; that mark does not save an entry
\* from being one of the oldest.
EraseCount(cache) ==
    LET wanted == Cardinality(Keys(cache)) + 1 - CacheSize
        seen(k) == {j \in Keys(cache) : Place(j) <= Place(k)}
        marked(k) == {j \in seen(k) : cache[j].notruncate > 0}
    IN  Cardinality({k \in Keys(cache) : Cardinality(seen(k)) + Cardinality(marked(k)) <= wanted})

EraseOldest(cache) ==
    [k \in Key |-> IF cache[k] # None
                      /\ Cardinality({j \in Keys(cache) : Older(cache, j, k)}) < EraseCount(cache)
                   THEN None ELSE cache[k]]

EraseExpired(cache) ==
    [k \in Key |-> IF cache[k] # None /\ cache[k].notruncate = 0 /\ IsExpireStatCacheTime(cache[k])
                   THEN None ELSE cache[k]]

\* Faulty: only what has expired goes.
TruncateExpired(cache) == EraseExpired(cache)

TruncateCache(cache) ==
    IF Cardinality(Keys(EraseExpired(cache))) < CacheSize THEN EraseExpired(cache)
    ELSE EraseOldest(EraseExpired(cache))

MakeRoom(cache, k) ==
    IF cache[k] # None THEN DelStat(cache, k[1])
    ELSE IF Cardinality(Keys(cache)) > CacheSize THEN TruncateCache(cache)
    ELSE cache

AddStat(cache, k, pin) ==
    IF ~pin /\ CacheSize < 1 THEN cache
    ELSE [MakeRoom(cache, k) EXCEPT ![k] = Entry(FALSE, pin)]

AddNoObjectCache(cache, k) ==
    IF ~opt.noobj \/ CacheSize < 1 THEN cache
    ELSE [MakeRoom(cache, k) EXCEPT ![k] = Entry(TRUE, FALSE)]
-----------------------------------------------------------------------------
(***************************************************************************)
(* get_object_attribute of the path in the first step.                     *)
(***************************************************************************)
N == Head(todo).name
Looking(where) == todo # <<>> /\ ~stuck /\ Head(todo).do = "lookup" /\ at = where

check_parent_object_access == Lookup(Dir)

Pin == Head(todo).how = "pin"

\* A lookup that fails ends the handler, but not the s3fs_open that has called
\* s3fs_flush and is to refresh the stat.
AfterFailure ==
    IF \E i \in DOMAIN todo : todo[i].do = "refresh"
    THEN SubSeq(todo, CHOOSE i \in DOMAIN todo : todo[i].do = "refresh", Len(todo))
    ELSE <<>>

\* s3fs_flush goes on when the object does not exist, s3fs_open when its mode
\* has O_CREAT.
LookupReturns(rc) ==
    /\ at' = "GetStat" /\ failed' = "ok"
    /\ \/ (rc = "ok" \/ Pin) /\ todo' = Tail(todo)
       \/ /\ rc = "ENOENT" /\ Head(todo).how = "create"
          /\ todo' = << check_parent_object_access, [Lookup(N) EXCEPT !.how = "pin"],
                        [Step("opened", N) EXCEPT !.how = "create"] >>
       \/ /\ rc = "ENOENT" /\ Head(todo).how = "flush"
          /\ todo' = << check_parent_object_access >> \o Tail(todo)
       \/ /\ rc # "ok" /\ ~Pin /\ ~(rc = "ENOENT" /\ Head(todo).how = "flush")
          /\ todo' = AfterFailure

LookupGetStat ==
    /\ Looking("GetStat")
    /\ LET got == GetStat(stat_cache, N) IN
       \/ /\ got.hit
          /\ stat_cache' = ChangeNoTruncateFlag(got.cache, N, Pin)
          /\ LookupReturns("ok")
       \/ /\ ~got.hit
          /\ stat_cache' = got.cache
          /\ at' = "IsNoObjectCache"
          /\ UNCHANGED << todo, failed >>
    /\ UNCHANGED << opt, now, there, opened, stuck >>

\* Faulty: the entry is deleted under the lock whether negative entries are
\* cached or not.
IsNoObjectCacheAlways ==
    /\ Looking("IsNoObjectCache")
    /\ LET k == Find(stat_cache, N) IN
       /\ stuck' = (stat_cache[k] # None)
       /\ at' = IF stuck' THEN at ELSE "object"
    /\ UNCHANGED << opt, now, there, opened, stat_cache, todo, failed >>

\* On an entry that is too old it calls DelStat, which takes the lock again.
IsNoObjectCache ==
    /\ Looking("IsNoObjectCache")
    /\ LET k == Find(stat_cache, N) IN
       \/ /\ opt.noobj /\ stat_cache[k] # None /\ IsExpireStatCacheTime(stat_cache[k])
          /\ stuck' = TRUE
          /\ UNCHANGED << stat_cache, todo, at, failed >>
       \/ /\ opt.noobj /\ stat_cache[k] # None /\ ~IsExpireStatCacheTime(stat_cache[k])
          /\ stat_cache[k].noobjcache
          /\ stat_cache' = [stat_cache EXCEPT ![k].cache_date = now]
          /\ LookupReturns("ENOENT")
          /\ UNCHANGED stuck
       \/ /\ opt.noobj /\ stat_cache[k] # None =>
                ~IsExpireStatCacheTime(stat_cache[k]) /\ ~stat_cache[k].noobjcache
          /\ at' = "object"
          /\ UNCHANGED << stat_cache, todo, failed, stuck >>
    /\ UNCHANGED << opt, now, there, opened >>

Found(k) ==
    /\ stat_cache' = IF Pin \/ CacheSize # 0
                     THEN GetStat(AddStat(stat_cache, k, Pin), k[1]).cache
                     ELSE stat_cache
    /\ LookupReturns("ok")

\* The listing of what is below the path, cut to two keys.
list_bucket ==
    {IF "children" \in there[N] THEN "ENOTEMPTY" ELSE "empty"} \cup (IF "net" \in Faults THEN {"EIO"} ELSE {})

\* An object that stands for a directory with children has no attributes,
\* and the listing has to tell it from a file.
is_need_check_obj_detail == "children" \in there[N]

\* HEAD of the path, the path with a slash and the path with _$folder$, until
\* one is there.  No answer is a failure like any other.
HeadRequest ==
    \E i \in 1 .. 3 :
        /\ Looking(Kinds[i])
        /\ \/ /\ Kinds[i] \in there[N]
              /\ \E listed \in list_bucket :
                    Found(<< N, IF i > 1 \/ (is_need_check_obj_detail /\ listed = "ENOTEMPTY") THEN "path/" ELSE "path" >>)
           \/ /\ Kinds[i] \notin there[N] \/ "net" \in Faults
              /\ failed' = IF Kinds[i] \notin there[N] THEN "ENOENT" ELSE "EIO"
              /\ at' = Kinds[i + 1]
              /\ UNCHANGED << stat_cache, todo >>
        /\ UNCHANGED << opt, now, there, opened, stuck >>

\* The result is that of the last HEAD, whatever the others failed with.
directory_empty ==
    /\ Looking("children")
    /\ \E listed \in list_bucket :
          \/ listed = "ENOTEMPTY" /\ Found(<< N, "path/" >>)
          \/ /\ listed # "ENOTEMPTY"
             /\ stat_cache' = AddNoObjectCache(stat_cache, << N, "path" >>)
             /\ LookupReturns(failed)
    /\ UNCHANGED << opt, now, there, opened, stuck >>
-----------------------------------------------------------------------------
(***************************************************************************)
(* The handlers.                                                           *)
(***************************************************************************)
Begin(steps) ==
    /\ todo = <<>> /\ ~stuck
    /\ todo' = steps
    /\ stat_cache' = [k \in Key |-> IF stat_cache[k] = None THEN None ELSE [stat_cache[k] EXCEPT !.fresh = FALSE]]
    /\ UNCHANGED << opt, now, there, opened, at, failed, stuck >>

\* Its caller, S3Io, wants an open file.
s3fs_getattr(f) == f \in opened /\ Begin(<< check_parent_object_access, Lookup(f) >>)

s3fs_open(f) ==
    Begin(<< Step("HasStat", f), check_parent_object_access, [Lookup(f) EXCEPT !.how = "create"],
             [Lookup(f) EXCEPT !.how = "pin"], Step("opened", f) >>)

FlushSteps(f) == << check_parent_object_access, [Lookup(f) EXCEPT !.how = "flush"], Step("flush", f) >>

s3fs_flush(f) == f \in opened /\ Begin(FlushSteps(f))

\* Faulty: the stat of the deleted file is kept.
s3fs_unlink_keeps(f) ==
    f \in opened /\ Begin(<< check_parent_object_access, check_parent_object_access, Step("remove", f) >>)

s3fs_unlink(f) ==
    /\ f \in opened
    /\ Begin(<< check_parent_object_access, check_parent_object_access, Step("remove", f), Step("DelStat", f) >>)

s3fs_truncate(f) ==
    /\ f \in opened
    /\ Begin(<< check_parent_object_access, Lookup(f), Lookup(f), Step("upload", f), Step("DelStat", f) >>)

Doing(do) == todo # <<>> /\ ~stuck /\ Head(todo).do = do

\* Faulty: the stat that is found is kept.
HasStatKept ==
    /\ Doing("HasStat")
    /\ stat_cache' = GetStat(stat_cache, N).cache
    /\ todo' = Tail(todo)
    /\ UNCHANGED << opt, now, there, opened, at, failed, stuck >>

\* s3fs_open flushes and forgets a stat it finds.
HasStat ==
    /\ Doing("HasStat")
    /\ LET got == GetStat(stat_cache, N) IN
       /\ stat_cache' = got.cache
       /\ todo' = IF got.hit THEN FlushSteps(N) \o << Step("refresh", N) >> \o Tail(todo) ELSE Tail(todo)
    /\ UNCHANGED << opt, now, there, opened, at, failed, stuck >>

\* What the cache says of the object is no longer so.
Outdate(n, how) == [k \in Key |->
    IF k[1] = n /\ stat_cache[k] # None THEN [stat_cache[k] EXCEPT !.before = how] ELSE stat_cache[k]]

Replaced(how) ==
    /\ there' = [there EXCEPT ![N] = {"object"}]
    /\ stat_cache' = Outdate(N, how)

\* FdManager::Open fails, or returns the entity.  With O_TRUNC a file that was
\* not empty is uploaded empty, and closed again when that fails.
Opened ==
    /\ Doing("opened")
    /\ \/ stat_cache' = DelStat(stat_cache, N) /\ UNCHANGED << there, opened >>
       \/ opened' = opened \cup {N} /\ UNCHANGED << there, stat_cache >>
       \/ Head(todo).how # "create" /\ Replaced("uploaded") /\ opened' = opened \cup {N}
       \/ /\ Head(todo).how # "create" /\ "net" \in Faults
          /\ there' = [there EXCEPT ![N] = {"object"}]
          /\ stat_cache' = DelStat(stat_cache, N)
          /\ UNCHANGED opened
    /\ todo' = Tail(todo)
    /\ UNCHANGED << opt, now, at, failed, stuck >>

\* s3fs_flush uploads a file that is open and has been written; it forgets no
\* stat, and its caller s3fs_open does not mind a failure.
Flush ==
    /\ Doing("flush")
    /\ \/ N \in opened /\ Replaced("uploaded")
       \/ UNCHANGED << there, stat_cache >>
    /\ todo' = Tail(todo)
    /\ UNCHANGED << opt, now, opened, at, failed, stuck >>

\* A DELETE whose answer is lost may have removed the object.
Remove ==
    /\ Doing("remove")
    /\ \/ there' = [there EXCEPT ![N] = {}] /\ stat_cache' = Outdate(N, "changed")
       \/ "net" \in Faults /\ UNCHANGED << there, stat_cache >>
    /\ todo' = Tail(todo)
    /\ UNCHANGED << opt, now, opened, at, failed, stuck >>

\* A failed upload ends s3fs_truncate before it calls DelStat, whether the
\* object was replaced or not.
Upload ==
    /\ Doing("upload")
    /\ \/ Replaced("changed") /\ todo' = Tail(todo)
       \/ /\ "net" \in Faults
          /\ Replaced("uploaded") \/ UNCHANGED << there, stat_cache >>
          /\ todo' = <<>>
    /\ UNCHANGED << opt, now, opened, at, failed, stuck >>

Forget ==
    /\ Doing("DelStat") \/ Doing("refresh")
    /\ stat_cache' = DelStat(stat_cache, N)
    /\ todo' = Tail(todo)
    /\ UNCHANGED << opt, now, there, opened, at, failed, stuck >>
-----------------------------------------------------------------------------
Tick ==
    /\ now < MaxTime /\ now' = now + 1
    /\ UNCHANGED << opt, stat_cache, there, opened, todo, at, failed, stuck >>

\* Another process creates or deletes a file.
Others ==
    /\ "others" \in Faults
    /\ \E f \in File : there' = [there EXCEPT ![f] = IF @ = {} THEN {"object"} ELSE {}]
    /\ UNCHANGED << opt, stat_cache, now, opened, todo, at, failed, stuck >>

Thread ==
    \/ LookupGetStat \/ IsNoObjectCache \/ HeadRequest \/ directory_empty
    \/ HasStat \/ Flush \/ Opened \/ Remove \/ Upload \/ Forget

Next ==
    \/ Thread
    \/ \E f \in File : s3fs_getattr(f) \/ s3fs_open(f) \/ s3fs_flush(f) \/ s3fs_unlink(f) \/ s3fs_truncate(f)
    \/ Tick \/ Others

\* The thread runs, and every request ends.
Spec == Init /\ [][Next]_vars /\ WF_vars(Thread)
-----------------------------------------------------------------------------
(***************************************************************************)
(* Properties.                                                             *)
(***************************************************************************)
\* The state has its type.
TypeOK ==
    /\ opt \in Options
    /\ stat_cache \in [Key -> {None} \cup
          [noobjcache : BOOLEAN, cache_date : 0 .. now, hit_count : 0 .. 1, notruncate : 0 .. 1,
           fresh : BOOLEAN, before : {"no", "changed", "uploaded"}]]
    /\ now \in 0 .. MaxTime /\ opened \subseteq File
    /\ at \in {"GetStat", "IsNoObjectCache"} \cup {Kinds[i] : i \in DOMAIN Kinds}
    /\ {failed} \subseteq {"ok", "ENOENT", "EIO"} /\ stuck \in BOOLEAN

\* s3fs_open uses attributes it has asked the service for, although lookups
\* of earlier handlers have filled the cache: when it opens a file, what the
\* cache says of it was added by this very call.
OpenIsFresh ==
    Doing("opened") => LET k == Find(stat_cache, N) IN
        stat_cache[k] # None => stat_cache[k].fresh \/ stat_cache[k].noobjcache

\* Between handlers the cache says nothing of an object that was so only
\* before s3fs_unlink has deleted it, whatever was answered, or s3fs_truncate
\* has reported that it is replaced.  Another upload of the process, such as
\* that of s3fs_flush, may leave the old stat only while the file is open:
\* s3fs_open, which has no open file yet, forgets it when the upload fails.
OwnChangesSeen == todo = <<>> =>
    \A k \in Keys(stat_cache) :
        stat_cache[k].before = "no" \/ (stat_cache[k].before # "changed" /\ k[1] \in opened)

\* The cache never has more than CacheSize + 1 entries, however handlers, time
\* and errors have filled it and whichever files are open: when there are more
\* than CacheSize, TruncateCache finds one to erase, although it wants one less
\* for every entry that is marked.
CacheBounded == Cardinality(Keys(stat_cache)) <= CacheSize + 1

\* A handler ends.  With negative entries that expire it may not: when one
\* expires between GetStat and IsNoObjectCache the thread locks itself out.
HandlersEnd == todo # <<>> ~> (todo = <<>> \/ (stuck /\ opt.noobj /\ opt.expire))
=============================================================================
