-------------------------- MODULE StatCacheProofs --------------------------
(***************************************************************************)
(* Proofs about StatCache.tla, for any number of files, any size of the    *)
(* cache and any time.                                                     *)
(***************************************************************************)
EXTENDS StatCache, SequenceTheorems, FiniteSetTheorems, WellFoundedInduction, TLAPS

(***************************************************************************)
(* The inductive invariant.                                                *)
(***************************************************************************)
EntryType ==
    [noobjcache : BOOLEAN, cache_date : 0 .. now, hit_count : 0 .. 1, notruncate : 0 .. 1,
     fresh : BOOLEAN, before : {"no", "changed", "uploaded"}]
CacheType == [Key -> {None} \cup EntryType]
StepType ==
    [do : {"lookup", "HasStat", "refresh", "flush", "opened", "remove", "upload", "DelStat"}, name : Name,
     how : {"usual", "create", "flush", "pin"}]

\* The old stat of a file that is opened is still to be forgotten.
Pending(steps) == \E i \in DOMAIN steps : steps[i].do \in {"HasStat", "refresh"}

\* The steps a handler has left: the stat of a changed object is forgotten in
\* the next step, the stat of an opened file is pinned just before, and the
\* lookup that may find it missing comes after the old stat is forgotten.
Queue(steps) ==
    /\ steps \in Seq(StepType)
    /\ \A i \in DOMAIN steps :
          /\ steps[i].do = "opened" => i = Len(steps) /\ steps[i].name \in File
          /\ steps[i].how = "pin" =>
                /\ steps[i].do = "lookup" /\ i < Len(steps)
                /\ steps[i + 1].do = "opened" /\ steps[i + 1].name = steps[i].name
          /\ steps[i].do = "lookup" /\ steps[i].how = "create" =>
                /\ \E j \in DOMAIN steps : j > i /\ steps[j].how = "pin" /\ steps[j].name = steps[i].name
                /\ \A j \in DOMAIN steps : j > i => steps[j].do \notin {"HasStat", "refresh"}
          /\ steps[i].do \in {"remove", "upload"} =>
                i < Len(steps) /\ steps[i + 1] = Step("DelStat", steps[i].name)
          /\ steps[i].do \in {"HasStat", "refresh"} =>
                \A j \in DOMAIN steps : steps[j].do = "opened" => steps[j].name = steps[i].name

\* A lookup that is past GetStat has found nothing, or a negative entry that
\* IsNoObjectCache is to see; past that it has found nothing.
Lookups ==
    at # "GetStat" =>
        /\ todo # <<>> /\ Head(todo).do = "lookup"
        /\ LET e == stat_cache[Find(stat_cache, N)]
           IN  e # None => at = "IsNoObjectCache" /\ e.noobjcache

\* A path has one entry, with the slash or without; negative entries have none.
Entries ==
    /\ \A k \in Key : stat_cache[k] # None /\ stat_cache[k].noobjcache =>
          opt.noobj /\ k[2] = "path" /\ stat_cache[k].notruncate = 0
    /\ \A n \in Name : stat_cache[<< n, "path" >>] = None \/ stat_cache[<< n, "path/" >>] = None

\* While s3fs_open runs, after it has forgotten the old stat, the entries for
\* its file are new, and pinned only by the lookup that is to do it.
Opening ==
    ~Pending(todo) =>
        \A i \in DOMAIN todo, k \in Key :
            stat_cache[k] # None /\ k[1] = todo[i].name =>
                /\ todo[i].do = "opened" => stat_cache[k].fresh \/ stat_cache[k].noobjcache
                /\ todo[i].how = "pin" => stat_cache[k].notruncate = 0

\* An outdated entry is forgotten in the next step, or it is of an open file;
\* only an open file is truncated.
Outdated ==
    /\ \A k \in Key : stat_cache[k] # None =>
          /\ stat_cache[k].before = "changed" =>
                todo # <<>> /\ Head(todo).do = "DelStat" /\ Head(todo).name = k[1]
          /\ stat_cache[k].before = "uploaded" => k[1] \in opened
    /\ \A i \in DOMAIN todo : todo[i].do = "upload" => todo[i].name \in opened

Inv == TypeOK /\ Queue(todo) /\ Lookups /\ Entries /\ Opening /\ Outdated
-----------------------------------------------------------------------------
(***************************************************************************)
(* The operations of the cache, by what they may do to an entry.           *)
(***************************************************************************)
Same(d, e) ==
    /\ e.noobjcache = d.noobjcache /\ e.fresh = d.fresh /\ e.before = d.before
    /\ e.notruncate = d.notruncate

\* d has the entries of c, or fewer, up to their dates and hits.
Less(c, d) ==
    /\ d \in CacheType
    /\ \A k \in Key : d[k] # None => c[k] # None /\ Same(c[k], d[k])

LEMMA LessSelf == \A c \in CacheType : Less(c, c)
  BY DEF Less, Same

LEMMA LessTwice == ASSUME NEW c, NEW d, NEW e, Less(c, d), Less(d, e) PROVE Less(c, e)
  BY DEF Less, Same

LEMMA KeysOf ==
    /\ \A n \in Name : << n, "path" >> \in Key /\ << n, "path/" >> \in Key
    /\ \A k \in Key : k[1] \in Name /\ (k = << k[1], "path" >> \/ k = << k[1], "path/" >>)
    /\ \A n \in Name : << n, "path" >>[1] = n /\ << n, "path/" >>[1] = n
    /\ \A n \in Name : << n, "path" >>[2] = "path" /\ << n, "path/" >>[2] = "path/"
    /\ \A n \in Name, m \in Name : << n, "path" >> # << m, "path/" >>
  <1>1. \A n \in Name : << n, "path" >> \in Key /\ << n, "path/" >> \in Key
    BY DEF Key
  <1>2. ASSUME NEW k \in Key
        PROVE  k[1] \in Name /\ (k = << k[1], "path" >> \/ k = << k[1], "path/" >>)
    <2>1. PICK n \in Name, s \in {"path", "path/"} : k = << n, s >>
      BY DEF Key
    <2>2. k[1] = n
      BY <2>1
    <2> QED BY <2>1, <2>2
  <1>3. \A n \in Name : << n, "path" >>[1] = n /\ << n, "path/" >>[1] = n
    OBVIOUS
  <1>4. \A n \in Name : << n, "path" >>[2] = "path" /\ << n, "path/" >>[2] = "path/"
    OBVIOUS
  <1>5. \A n \in Name, m \in Name : << n, "path" >> # << m, "path/" >>
    OBVIOUS
  <1> QED BY <1>1, <1>2, <1>3, <1>4, <1>5

LEMMA FindIs ==
    ASSUME NEW c, NEW n \in Name
    PROVE  /\ Find(c, n) \in Key /\ Find(c, n)[1] = n
           /\ c[Find(c, n)] = None => \A k \in Key : k[1] = n => c[k] = None
  <1>1. << n, "path" >> \in Key /\ << n, "path/" >> \in Key /\ << n, "path" >>[1] = n /\ << n, "path/" >>[1] = n
    BY KeysOf
  <1>2. Find(c, n) \in Key /\ Find(c, n)[1] = n
    BY <1>1 DEF Find
  <1>3. ASSUME c[Find(c, n)] = None, NEW k \in Key, k[1] = n PROVE c[k] = None
    <2>1. k = << n, "path" >> \/ k = << n, "path/" >>
      BY <1>3, KeysOf
    <2>2. c[<< n, "path/" >>] = None /\ c[<< n, "path" >>] = None
      BY <1>3 DEF Find
    <2> QED BY <2>1, <2>2
  <1> QED BY <1>2, <1>3

LEMMA DelStatIs ==
    ASSUME NEW c \in CacheType, NEW n \in Name
    PROVE  /\ Less(c, DelStat(c, n))
           /\ \A k \in Key : DelStat(c, n)[k] = IF k[1] = n THEN None ELSE c[k]
  <1>1. \A k \in Key : DelStat(c, n)[k] = IF k[1] = n THEN None ELSE c[k]
    BY KeysOf DEF DelStat, CacheType
  <1>2. DelStat(c, n) \in CacheType
    BY DEF DelStat, CacheType
  <1> QED BY <1>1, <1>2 DEF Less, Same

\* GetStat misses when there is no entry, or leaves a negative one.
LEMMA GetStatIs ==
    ASSUME now \in Nat, NEW c \in CacheType, NEW n \in Name
    PROVE  /\ Less(c, GetStat(c, n).cache)
           /\ GetStat(c, n).hit => ~c[Find(c, n)].noobjcache /\ c[Find(c, n)] # None
           /\ ~GetStat(c, n).hit =>
                 LET d == GetStat(c, n).cache
                 IN  /\ \A k \in Key : d[k] = c[k] \/ d[k] = None
                     /\ d[Find(d, n)] # None => d[Find(d, n)].noobjcache
  <1> DEFINE k == Find(c, n)
  <1>1. k \in Key /\ k[1] = n
    BY FindIs
  <1>2. c[k] # None => c[k] \in EntryType
    BY <1>1 DEF CacheType
  <1>3. CASE c[k] = None
    <2>1. GetStat(c, n) = [hit |-> FALSE, cache |-> c]
      BY <1>3 DEF GetStat
    <2> QED BY <1>3, <2>1, LessSelf
  <1>4. CASE c[k] # None /\ IsExpireStatCacheTime(c[k])
    <2> DEFINE d == DelStat(c, n)
    <2>1. GetStat(c, n) = [hit |-> FALSE, cache |-> d]
      BY <1>4 DEF GetStat
    <2>2. \A j \in Key : d[j] = IF j[1] = n THEN None ELSE c[j]
      BY DelStatIs
    <2>3. Find(d, n) \in Key /\ Find(d, n)[1] = n
      BY FindIs
    <2>4. Less(c, d)
      BY DelStatIs
    <2> HIDE DEF d
    <2> QED BY <2>1, <2>2, <2>3, <2>4
  <1>5. CASE c[k] # None /\ ~IsExpireStatCacheTime(c[k]) /\ c[k].noobjcache
    <2>1. GetStat(c, n) = [hit |-> FALSE, cache |-> c]
      BY <1>5 DEF GetStat
    <2> QED BY <1>5, <2>1, LessSelf
  <1>6. CASE c[k] # None /\ ~IsExpireStatCacheTime(c[k]) /\ ~c[k].noobjcache
    <2> DEFINE t == IF opt.interval THEN now ELSE c[k].cache_date
               e == [c[k] EXCEPT !.hit_count = 1, !.cache_date = t]
               d == [c EXCEPT ![k] = e]
    <2>1. GetStat(c, n) = [hit |-> TRUE, cache |-> d]
      BY <1>1, <1>2, <1>6 DEF GetStat, CacheType, EntryType
    <2>2. t \in 0 .. now
      BY <1>2, <1>6 DEF EntryType
    <2> HIDE DEF t, k
    <2>3. e \in EntryType /\ Same(c[k], e)
      <3>1. c[k] \in EntryType
        BY <1>2, <1>6
      <3>2. e \in EntryType
        <4>1. \A x \in EntryType, h \in 0 .. 1, date \in 0 .. now :
                 [x EXCEPT !.hit_count = h, !.cache_date = date] \in EntryType
          BY DEF EntryType
        <4>2. 1 \in 0 .. 1
          OBVIOUS
        <4> QED BY <2>2, <3>1, <4>1, <4>2, Zenon
      <3>3. Same(c[k], e)
        BY <3>1 DEF EntryType, Same
      <3> QED BY <3>2, <3>3
    <2> HIDE DEF e
    <2>4. Less(c, d)
      BY <1>1, <1>6, <2>3 DEF Less, CacheType, Same
    <2> HIDE DEF d
    <2> QED BY <1>6, <2>1, <2>4 DEF k
  <1> QED BY <1>3, <1>4, <1>5, <1>6

LEMMA EraseLess ==
    ASSUME NEW c \in CacheType
    PROVE  Less(c, EraseExpired(c)) /\ Less(c, EraseOldest(c))
  <1>1. Less(c, EraseExpired(c))
    BY DEF Less, EraseExpired, CacheType, Same
  <1>2. Less(c, EraseOldest(c))
    BY DEF Less, EraseOldest, CacheType, Same
  <1> QED BY <1>1, <1>2

LEMMA MakeRoomLess ==
    ASSUME NEW c \in CacheType, NEW k \in Key
    PROVE  Less(c, MakeRoom(c, k))
  <1>1. Less(c, EraseExpired(c)) /\ EraseExpired(c) \in CacheType
    BY EraseLess DEF Less
  <1>2. Less(EraseExpired(c), EraseOldest(EraseExpired(c)))
    BY <1>1, EraseLess
  <1>3. Less(c, EraseOldest(EraseExpired(c)))
    BY <1>1, <1>2, LessTwice
  <1>4. Less(c, TruncateCache(c))
    BY <1>1, <1>3 DEF TruncateCache
  <1>5. Less(c, DelStat(c, k[1]))
    BY DelStatIs, KeysOf
  <1> QED BY <1>4, <1>5, LessSelf DEF MakeRoom

\* d has a new entry for k, and of the others those of c, or fewer.
Adds(c, d, k, noobj, pin) ==
    /\ d \in CacheType
    /\ \A j \in Key : j # k /\ d[j] # None => c[j] # None /\ Same(c[j], d[j])
    /\ d[k] # None =>
          /\ d[k].noobjcache = noobj /\ d[k].fresh = TRUE /\ d[k].before = "no"
          /\ d[k].notruncate = IF pin THEN 1 ELSE 0

LEMMA EntryIsNew ==
    ASSUME now \in Nat, NEW c \in CacheType, NEW k \in Key, NEW noobj \in BOOLEAN, NEW pin \in BOOLEAN
    PROVE  Adds(c, [MakeRoom(c, k) EXCEPT ![k] = Entry(noobj, pin)], k, noobj, pin)
  <1> DEFINE m == MakeRoom(c, k)
             e == Entry(noobj, pin)
  <1>1. m \in CacheType /\ \A j \in Key : m[j] # None => c[j] # None /\ Same(c[j], m[j])
    BY MakeRoomLess DEF Less
  <1>2. /\ e \in EntryType /\ e.noobjcache = noobj /\ e.fresh = TRUE /\ e.before = "no"
        /\ e.notruncate = IF pin THEN 1 ELSE 0
    BY DEF Entry, EntryType
  <1> HIDE DEF m, e
  <1>3. [m EXCEPT ![k] = e] \in CacheType
    BY <1>1, <1>2 DEF CacheType
  <1>4. \A j \in Key : [m EXCEPT ![k] = e][j] = IF j = k THEN e ELSE m[j]
    BY <1>1 DEF CacheType
  <1>5. Adds(c, [m EXCEPT ![k] = e], k, noobj, pin)
    BY <1>1, <1>2, <1>3, <1>4 DEF Adds
  <1> QED BY <1>5 DEF m, e

LEMMA AddsThenLess ==
    ASSUME NEW c, NEW d, NEW e, NEW k \in Key, NEW noobj, NEW pin, Adds(c, d, k, noobj, pin), Less(d, e)
    PROVE  Adds(c, e, k, noobj, pin)
  BY DEF Adds, Less, Same

\* The mark of the path without a slash is raised once, and never lowered
\* below 0.
LEMMA ChangeFlagIs ==
    ASSUME NEW c \in CacheType, NEW n \in Name, NEW pin \in BOOLEAN,
           pin /\ c[<< n, "path" >>] # None => c[<< n, "path" >>].notruncate = 0
    PROVE  LET d == ChangeNoTruncateFlag(c, n, pin)
           IN  /\ d \in CacheType
               /\ \A k \in Key : k # << n, "path" >> \/ c[k] = None => d[k] = c[k]
               /\ \A k \in Key : d[k] # None =>
                     /\ c[k] # None
                     /\ d[k].noobjcache = c[k].noobjcache /\ d[k].fresh = c[k].fresh /\ d[k].before = c[k].before
                     /\ ~pin /\ c[k].notruncate = 0 => d[k].notruncate = 0
  <1> DEFINE k == << n, "path" >>
  <1>1. k \in Key
    BY KeysOf
  <1>2. CASE c[k] = None
    BY <1>2 DEF ChangeNoTruncateFlag
  <1>3. CASE c[k] # None
    <2> DEFINE t == IF pin THEN c[k].notruncate + 1
                    ELSE IF c[k].notruncate > 0 THEN c[k].notruncate - 1 ELSE 0
               e == [c[k] EXCEPT !.notruncate = t]
               d == [c EXCEPT ![k] = e]
    <2>1. c[k] \in EntryType
      BY <1>1, <1>3 DEF CacheType
    <2>2. c[k].notruncate \in 0 .. 1
      BY <2>1 DEF EntryType
    <2>3. t \in 0 .. 1 /\ (~pin /\ c[k].notruncate = 0 => t = 0)
      BY <1>3, <2>2
    <2>4. ChangeNoTruncateFlag(c, n, pin) = d
      BY <1>3, <2>1 DEF ChangeNoTruncateFlag, EntryType, CacheType
    <2> HIDE DEF t
    <2>5. /\ e \in EntryType /\ e.noobjcache = c[k].noobjcache /\ e.fresh = c[k].fresh
          /\ e.before = c[k].before /\ e.notruncate = t
      BY <2>1, <2>3 DEF EntryType
    <2> HIDE DEF e, k
    <2>6. d \in CacheType /\ \A j \in Key : d[j] = IF j = k THEN e ELSE c[j]
      BY <1>1, <2>5 DEF CacheType
    <2> HIDE DEF d
    <2>7. /\ d \in CacheType
          /\ \A j \in Key : j # k \/ c[j] = None => d[j] = c[j]
          /\ \A j \in Key : d[j] # None =>
                     /\ c[j] # None
                     /\ d[j].noobjcache = c[j].noobjcache /\ d[j].fresh = c[j].fresh /\ d[j].before = c[j].before
                     /\ ~pin /\ c[j].notruncate = 0 => d[j].notruncate = 0
      BY <1>3, <2>3, <2>5, <2>6
    <2> QED BY <2>4, <2>7 DEF k
  <1> QED BY <1>2, <1>3
-----------------------------------------------------------------------------
(***************************************************************************)
(* The steps of the handlers.                                              *)
(***************************************************************************)
LEMMA StepsTyped ==
    /\ Dir \in Name /\ \A f \in File : f \in Name
    /\ \A n \in Name : Step("lookup", n) \in StepType /\ Step("HasStat", n) \in StepType
    /\ \A n \in Name : Step("refresh", n) \in StepType /\ Step("flush", n) \in StepType
    /\ \A n \in Name : Step("opened", n) \in StepType /\ Step("remove", n) \in StepType
    /\ \A n \in Name : Step("upload", n) \in StepType /\ Step("DelStat", n) \in StepType
    /\ \A n \in Name, how \in {"usual", "create", "flush", "pin"} : [Lookup(n) EXCEPT !.how = how] \in StepType
    /\ \A n \in Name : [Step("opened", n) EXCEPT !.how = "create"] \in StepType
  BY DEF Name, Step, Lookup, StepType

LEMMA StepIs ==
    /\ \A do, n : Step(do, n).do = do /\ Step(do, n).how = "usual" /\ Step(do, n).name = n
    /\ \A n : Lookup(n).do = "lookup" /\ Lookup(n).how = "usual" /\ Lookup(n).name = n
    /\ \A n, how : LET l == [Lookup(n) EXCEPT !.how = how] IN l.do = "lookup" /\ l.how = how /\ l.name = n
    /\ \A do, n, how : LET l == [Step(do, n) EXCEPT !.how = how] IN l.do = do /\ l.how = how /\ l.name = n
  BY DEF Step, Lookup

LEMMA NothingLeft == Queue(<<>>)
  <1>1. <<>> \in Seq(StepType) /\ DOMAIN <<>> = {}
    OBVIOUS
  <1> QED BY <1>1 DEF Queue

\* The steps that are left after the first.
LEMMA RestIs ==
    ASSUME NEW s \in Seq(StepType), s # <<>>
    PROVE  /\ Head(s) = s[1] /\ 1 \in DOMAIN s /\ Head(s) \in StepType
           /\ Tail(s) \in Seq(StepType) /\ Len(Tail(s)) = Len(s) - 1 /\ Len(s) \in Nat
           /\ DOMAIN s = 1 .. Len(s) /\ DOMAIN Tail(s) = 1 .. (Len(s) - 1)
           /\ \A i \in 1 .. (Len(s) - 1) : Tail(s)[i] = s[i + 1]
           /\ \A i \in DOMAIN Tail(s) : i + 1 \in DOMAIN s /\ Tail(s)[i] = s[i + 1]
  OBVIOUS

\* The last steps of a handler are what a handler may have left.
LEMMA QueueSuffix ==
    ASSUME NEW s, Queue(s), NEW k \in Nat, k <= Len(s),
           NEW t \in Seq(StepType), Len(t) = Len(s) - k, \A i \in 1 .. Len(t) : t[i] = s[i + k]
    PROVE  Queue(t)
  <1>1. /\ s \in Seq(StepType) /\ Len(s) \in Nat /\ Len(t) \in Nat
        /\ DOMAIN s = 1 .. Len(s) /\ DOMAIN t = 1 .. Len(t)
    BY DEF Queue
  <1>2. \A i \in DOMAIN t : i \in Nat /\ i + k \in DOMAIN s /\ t[i] = s[i + k]
    BY <1>1
  <1>3. \A j \in DOMAIN s : j > k => j \in Nat /\ j - k \in DOMAIN t /\ t[j - k] = s[j]
    <2>1. ASSUME NEW j \in DOMAIN s, j > k PROVE j \in Nat /\ j - k \in DOMAIN t /\ t[j - k] = s[j]
      <3>1. j - k \in 1 .. Len(t) /\ (j - k) + k = j
        BY <1>1, <2>1
      <3> QED BY <1>1, <3>1
    <2> QED BY <2>1
  <1>4. ASSUME NEW i \in DOMAIN t
        PROVE  /\ t[i].do = "opened" => i = Len(t) /\ t[i].name \in File
               /\ t[i].how = "pin" =>
                     /\ t[i].do = "lookup" /\ i < Len(t)
                     /\ t[i + 1].do = "opened" /\ t[i + 1].name = t[i].name
               /\ t[i].do \in {"remove", "upload"} =>
                     i < Len(t) /\ t[i + 1] = Step("DelStat", t[i].name)
    <2>1. i \in Nat /\ i + k \in DOMAIN s /\ t[i] = s[i + k]
      BY <1>2
    <2>2. i < Len(t) <=> i + k < Len(s)
      BY <1>1, <2>1
    <2>3. i = Len(t) <=> i + k = Len(s)
      BY <1>1, <2>1
    <2>4. i < Len(t) => t[i + 1] = s[(i + k) + 1]
      BY <1>1, <2>1
    <2> QED BY <2>1, <2>2, <2>3, <2>4 DEF Queue
  <1>5. ASSUME NEW i \in DOMAIN t, t[i].do = "lookup", t[i].how = "create"
        PROVE  /\ \E j \in DOMAIN t : j > i /\ t[j].how = "pin" /\ t[j].name = t[i].name
               /\ \A j \in DOMAIN t : j > i => t[j].do \notin {"HasStat", "refresh"}
    <2>1. i \in Nat /\ i + k \in DOMAIN s /\ t[i] = s[i + k]
      BY <1>2
    <2>2. PICK j \in DOMAIN s : j > i + k /\ s[j].how = "pin" /\ s[j].name = s[i + k].name
      BY <1>5, <2>1 DEF Queue
    <2>3. j \in Nat /\ j > k
      BY <1>1, <2>1, <2>2
    <2>4. j - k \in DOMAIN t /\ t[j - k] = s[j] /\ j - k > i
      BY <1>3, <2>1, <2>2, <2>3
    <2>5. \A n \in DOMAIN s : n > i + k => s[n].do \notin {"HasStat", "refresh"}
      BY <1>5, <2>1 DEF Queue
    <2>6. ASSUME NEW n \in DOMAIN t, n > i PROVE t[n].do \notin {"HasStat", "refresh"}
      <3>1. n \in Nat /\ n + k \in DOMAIN s /\ t[n] = s[n + k] /\ n + k > i + k
        BY <1>2, <2>1, <2>6
      <3> QED BY <2>5, <3>1
    <2> QED BY <2>1, <2>2, <2>4, <2>6
  <1>6. ASSUME NEW i \in DOMAIN t, t[i].do \in {"HasStat", "refresh"}, NEW j \in DOMAIN t, t[j].do = "opened"
        PROVE  t[j].name = t[i].name
    BY <1>2, <1>6 DEF Queue
  <1> QED BY <1>4, <1>5, <1>6 DEF Queue

LEMMA QueueTail ==
    ASSUME NEW s, Queue(s), s # <<>>
    PROVE  Queue(Tail(s)) /\ \A i \in DOMAIN Tail(s) : \E j \in DOMAIN s : Tail(s)[i] = s[j]
  <1>1. s \in Seq(StepType)
    BY DEF Queue
  <1>2. /\ Tail(s) \in Seq(StepType) /\ Len(Tail(s)) = Len(s) - 1 /\ Len(s) \in Nat /\ 1 <= Len(s)
        /\ DOMAIN s = 1 .. Len(s) /\ DOMAIN Tail(s) = 1 .. (Len(s) - 1)
        /\ \A i \in 1 .. (Len(s) - 1) : Tail(s)[i] = s[i + 1]
    BY <1>1, RestIs
  <1>3. \A i \in DOMAIN Tail(s) : \E j \in DOMAIN s : Tail(s)[i] = s[j]
    BY <1>1, RestIs
  <1>4. Queue(Tail(s))
    BY <1>2, QueueSuffix
  <1> QED BY <1>3, <1>4

\* Lookups, a flush and the step that forgets the old stat may come before.
Precedes(p, q) ==
    /\ p \in Seq(StepType)
    /\ \A i \in DOMAIN p :
          /\ p[i].do \in {"lookup", "flush", "refresh"} /\ p[i].how \in {"usual", "flush"}
          /\ p[i].do = "refresh" => \A j \in DOMAIN q : q[j].do = "opened" => q[j].name = p[i].name

\* t has the steps of p and of q, and no others.
Joins(t, p, q) ==
    /\ \A i \in DOMAIN t : (\E j \in DOMAIN p : t[i] = p[j]) \/ (\E j \in DOMAIN q : t[i] = q[j])
    /\ \A j \in DOMAIN p : \E i \in DOMAIN t : t[i] = p[j]
    /\ \A j \in DOMAIN q : \E i \in DOMAIN t : t[i] = q[j]

LEMMA QueuePrefix ==
    ASSUME NEW p, NEW q, Queue(q), Precedes(p, q)
    PROVE  Queue(p \o q) /\ Joins(p \o q, p, q)
  <1> DEFINE t == p \o q
             n == Len(p)
  <1>1. q \in Seq(StepType) /\ Len(q) \in Nat /\ n \in Nat /\ DOMAIN q = 1 .. Len(q) /\ DOMAIN p = 1 .. n
        /\ p \in Seq(StepType)
    BY DEF Queue, Precedes
  <1>2. /\ t \in Seq(StepType) /\ Len(t) = n + Len(q) /\ DOMAIN t = 1 .. (n + Len(q))
        /\ \A i \in 1 .. n : t[i] = p[i]
        /\ \A i \in 1 .. Len(q) : t[i + n] = q[i]
    <2>1. t \in Seq(StepType) /\ Len(t) = n + Len(q) /\ DOMAIN t = 1 .. (n + Len(q))
      BY <1>1
    <2>2. \A i \in 1 .. n : t[i] = p[i]
      BY <1>1
    <2>3. \A i \in 1 .. Len(q) : t[i + n] = q[i]
      BY <1>1
    <2> QED BY <2>1, <2>2, <2>3
  <1> HIDE DEF t, n
  <1>3. \A i \in DOMAIN t : \/ i \in DOMAIN p /\ t[i] = p[i]
                            \/ i \in Nat /\ i > n /\ i - n \in DOMAIN q /\ t[i] = q[i - n]
    <2>1. ASSUME NEW i \in DOMAIN t, i > n PROVE i \in Nat /\ i - n \in DOMAIN q /\ t[i] = q[i - n]
      <3>1. i - n \in 1 .. Len(q) /\ (i - n) + n = i /\ i \in Nat
        BY <1>1, <1>2, <2>1
      <3> QED BY <1>1, <1>2, <3>1
    <2> QED BY <1>1, <1>2, <2>1
  <1>4. \A j \in DOMAIN q : j \in Nat /\ j + n \in DOMAIN t /\ t[j + n] = q[j]
    BY <1>1, <1>2
  <1>5. ASSUME NEW i \in DOMAIN t
        PROVE  /\ t[i].do = "opened" => i = Len(t) /\ t[i].name \in File
               /\ t[i].how = "pin" =>
                     /\ t[i].do = "lookup" /\ i < Len(t)
                     /\ t[i + 1].do = "opened" /\ t[i + 1].name = t[i].name
               /\ t[i].do \in {"remove", "upload"} =>
                     i < Len(t) /\ t[i + 1] = Step("DelStat", t[i].name)
               /\ t[i].do = "lookup" /\ t[i].how = "create" =>
                     /\ \E j \in DOMAIN t : j > i /\ t[j].how = "pin" /\ t[j].name = t[i].name
                     /\ \A j \in DOMAIN t : j > i => t[j].do \notin {"HasStat", "refresh"}
    <2>1. CASE i \in DOMAIN p /\ t[i] = p[i]
      BY <2>1 DEF Precedes
    <2>2. CASE i \in Nat /\ i > n /\ i - n \in DOMAIN q /\ t[i] = q[i - n]
      <3> DEFINE m == i - n
      <3>1. m \in Nat /\ m \in DOMAIN q /\ t[i] = q[m] /\ i = m + n
        BY <1>1, <2>2
      <3> HIDE DEF m
      <3>2. (m = Len(q) <=> i = Len(t)) /\ (m < Len(q) <=> i < Len(t))
        <4>1. Len(t) = n + Len(q) /\ n \in Nat /\ Len(q) \in Nat /\ m \in Nat /\ i = m + n
          BY <1>1, <1>2, <3>1
        <4> HIDE DEF t, m
        <4> QED BY <4>1
      <3>3. m < Len(q) => m + 1 \in DOMAIN q /\ t[i + 1] = q[m + 1]
        <4>1. m < Len(q) => m + 1 \in DOMAIN q /\ i + 1 = (m + 1) + n
          BY <1>1, <3>1
        <4> QED BY <1>4, <4>1
      <3>4. ASSUME q[m].do = "lookup", q[m].how = "create"
            PROVE  /\ \E j \in DOMAIN t : j > i /\ t[j].how = "pin" /\ t[j].name = t[i].name
                   /\ \A j \in DOMAIN t : j > i => t[j].do \notin {"HasStat", "refresh"}
        <4>1. PICK j \in DOMAIN q : j > m /\ q[j].how = "pin" /\ q[j].name = q[m].name
          BY <3>1, <3>4 DEF Queue
        <4>2. j + n \in DOMAIN t /\ t[j + n] = q[j] /\ j + n > i
          BY <1>1, <1>4, <3>1, <4>1
        <4>3. \A l \in DOMAIN q : l > m => q[l].do \notin {"HasStat", "refresh"}
          BY <3>1, <3>4 DEF Queue
        <4>4. ASSUME NEW l \in DOMAIN t, l > i PROVE t[l].do \notin {"HasStat", "refresh"}
          <5>1. l \notin DOMAIN p
            BY <1>1, <1>2, <3>1, <4>4
          <5>2. l - n \in DOMAIN q /\ t[l] = q[l - n] /\ l - n > m
            BY <1>1, <1>3, <3>1, <4>4, <5>1
          <5> QED BY <4>3, <5>2
        <4> QED BY <3>1, <4>1, <4>2, <4>4
      <3> QED BY <3>1, <3>2, <3>3, <3>4 DEF Queue
    <2> QED BY <1>3, <2>1, <2>2
  <1>6. ASSUME NEW i \in DOMAIN t, t[i].do \in {"HasStat", "refresh"}, NEW j \in DOMAIN t, t[j].do = "opened"
        PROVE  t[j].name = t[i].name
    <2>1. PICK l \in DOMAIN q : t[j] = q[l]
      BY <1>3, <1>6 DEF Precedes
    <2>2. CASE i \in DOMAIN p /\ t[i] = p[i]
      BY <1>6, <2>1, <2>2 DEF Precedes
    <2>3. CASE i - n \in DOMAIN q /\ t[i] = q[i - n]
      BY <1>6, <2>1, <2>3 DEF Queue
    <2> QED BY <1>3, <2>2, <2>3
  <1>7. Queue(t)
    BY <1>2, <1>5, <1>6 DEF Queue
  <1>8. \A j \in DOMAIN p : j \in DOMAIN t /\ t[j] = p[j]
    BY <1>1, <1>2
  <1> QED BY <1>3, <1>4, <1>7, <1>8 DEF t, Joins

\* What the steps t that a handler has left have of the steps s it had.
Follows(t, s) ==
    /\ \A i \in DOMAIN t :
          /\ t[i].do = "opened" => \E j \in DOMAIN s : s[j].do = "opened" /\ s[j].name = t[i].name
          /\ t[i].how = "pin" => \E j \in DOMAIN s : s[j].how = "pin" /\ s[j].name = t[i].name
          /\ t[i].do = "upload" => \E j \in DOMAIN s : s[j].do = "upload" /\ s[j].name = t[i].name
    /\ Pending(s) => Pending(t) \/ t = <<>>

LEMMA TailFollows ==
    ASSUME NEW s, Queue(s), s # <<>>, Head(s).do \notin {"HasStat", "refresh"}
    PROVE  Follows(Tail(s), s)
  <1>1. \A i \in DOMAIN Tail(s) : \E j \in DOMAIN s : Tail(s)[i] = s[j]
    BY QueueTail
  <1>2. ASSUME Pending(s) PROVE Pending(Tail(s))
    <2>1. s \in Seq(StepType)
      BY DEF Queue
    <2>2. PICK j \in DOMAIN s : s[j].do \in {"HasStat", "refresh"}
      BY <1>2 DEF Pending
    <2>3. j # 1 /\ DOMAIN s = 1 .. Len(s) /\ Len(s) \in Nat /\ DOMAIN Tail(s) = 1 .. (Len(s) - 1)
          /\ \A i \in 1 .. (Len(s) - 1) : Tail(s)[i] = s[i + 1]
      BY <2>1, <2>2, RestIs
    <2>4. j - 1 \in DOMAIN Tail(s) /\ Tail(s)[j - 1] = s[j]
      <3>1. j - 1 \in 1 .. (Len(s) - 1) /\ (j - 1) + 1 = j
        BY <2>3
      <3> QED BY <2>3, <3>1
    <2> QED BY <2>2, <2>4 DEF Pending
  <1> QED BY <1>1, <1>2 DEF Follows

LEMMA NothingFollows == ASSUME NEW s PROVE Follows(<<>>, s)
  <1>1. DOMAIN <<>> = {}
    OBVIOUS
  <1> QED BY <1>1 DEF Follows

LEMMA ParentFollows ==
    ASSUME NEW s, Queue(s), s # <<>>, Head(s).do \notin {"HasStat", "refresh"}
    PROVE  /\ Queue(<< check_parent_object_access >> \o Tail(s))
           /\ Follows(<< check_parent_object_access >> \o Tail(s), s)
  <1> DEFINE p == << check_parent_object_access >>
             t == p \o Tail(s)
  <1>1. /\ check_parent_object_access \in StepType /\ check_parent_object_access.do = "lookup"
        /\ check_parent_object_access.how = "usual"
    BY StepsTyped, StepIs DEF check_parent_object_access, Lookup
  <1>2. p \in Seq(StepType) /\ \A i \in DOMAIN p : p[i] = check_parent_object_access
    BY <1>1
  <1>3. Queue(Tail(s)) /\ Follows(Tail(s), s)
    BY QueueTail, TailFollows
  <1> HIDE DEF p
  <1>4. Precedes(p, Tail(s))
    BY <1>1, <1>2 DEF Precedes
  <1>5. Queue(t) /\ Joins(t, p, Tail(s))
    BY <1>3, <1>4, QueuePrefix, Zenon
  <1> HIDE DEF t
  <1>6. \A i \in DOMAIN t : t[i] = check_parent_object_access \/ \E j \in DOMAIN Tail(s) : t[i] = Tail(s)[j]
    BY <1>2, <1>5 DEF Joins
  <1>7. Pending(s) => Pending(t)
    <2>1. ASSUME Pending(s) PROVE Pending(t)
      <3>1. s \in Seq(StepType) /\ \E j \in DOMAIN s : s[j].do \in {"HasStat", "refresh"}
        BY <2>1 DEF Queue, Pending
      <3>2. PICK j \in DOMAIN s : s[j].do \in {"HasStat", "refresh"}
        BY <3>1
      <3>3. Head(s) = s[1] /\ DOMAIN s = 1 .. Len(s)
        BY <3>1, RestIs
      <3>4. Tail(s) # <<>>
        <4>1. j # 1 /\ j \in 1 .. Len(s) /\ Len(s) \in Nat /\ Len(Tail(s)) = Len(s) - 1
          BY <3>1, <3>2, <3>3, RestIs
        <4> QED BY <3>1, <4>1
      <3>5. Pending(Tail(s))
        BY <1>3, <2>1, <3>4 DEF Follows
      <3> QED BY <1>5, <3>5 DEF Pending, Joins
    <2> QED BY <2>1
  <1>8. Follows(t, s)
    BY <1>1, <1>3, <1>6, <1>7 DEF Follows
  <1> QED BY <1>5, <1>8 DEF t, p

\* A lookup that fails.
LEMMA FailureFollows == ASSUME Queue(todo) PROVE Queue(AfterFailure) /\ Follows(AfterFailure, todo)
  <1>1. CASE \E i \in DOMAIN todo : todo[i].do = "refresh"
    <2> DEFINE k == CHOOSE i \in DOMAIN todo : todo[i].do = "refresh"
               t == SubSeq(todo, k, Len(todo))
    <2>1. k \in DOMAIN todo /\ todo[k].do = "refresh"
      BY <1>1
    <2> HIDE DEF k
    <2>2. todo \in Seq(StepType) /\ Len(todo) \in Nat /\ DOMAIN todo = 1 .. Len(todo)
      BY DEF Queue
    <2>3. k \in Nat /\ k >= 1 /\ k <= Len(todo)
      BY <2>1, <2>2
    <2>4. /\ t \in Seq(StepType) /\ Len(t) = Len(todo) - (k - 1) /\ DOMAIN t = 1 .. Len(t)
          /\ \A i \in 1 .. Len(t) : t[i] = todo[i + (k - 1)]
      <3>1. \A i \in k .. Len(todo) : todo[i] \in StepType
        BY <2>2, <2>3
      <3>2. t = [i \in 1 .. (Len(todo) - k + 1) |-> todo[i + k - 1]]
        BY <2>2, <2>3
      <3>3. Len(todo) - k + 1 \in Nat
        BY <2>2, <2>3
      <3>4. \A i \in 1 .. (Len(todo) - k + 1) : i + k - 1 \in k .. Len(todo) /\ i + k - 1 = i + (k - 1)
        BY <2>2, <2>3
      <3>5. t \in Seq(StepType) /\ Len(t) = Len(todo) - k + 1
        BY <2>2, <2>3, SubSeqProperties
      <3> QED BY <2>2, <2>3, <3>2, <3>3, <3>4, <3>5
    <2>5. k - 1 \in Nat /\ k - 1 <= Len(todo)
      BY <2>2, <2>3
    <2>6. Queue(t)
      <3> DEFINE m == k - 1
      <3> HIDE DEF m, t
      <3>1. m \in Nat /\ m <= Len(todo) /\ Len(t) = Len(todo) - m /\ \A i \in 1 .. Len(t) : t[i] = todo[i + m]
        BY <2>4, <2>5 DEF m, t
      <3> QED BY <2>4, <3>1, QueueSuffix DEF t
    <2>7. \A i \in DOMAIN t : \E j \in DOMAIN todo : t[i] = todo[j]
      <3>1. \A i \in 1 .. Len(t) : i + (k - 1) \in 1 .. Len(todo)
        BY <2>2, <2>3, <2>4
      <3> HIDE DEF t
      <3> QED BY <2>2, <2>4, <3>1 DEF t
    <2>8. Pending(t)
      <3>1. 1 \in DOMAIN t /\ t[1] = todo[k]
        BY <2>2, <2>3, <2>4
      <3> HIDE DEF t
      <3> QED BY <2>1, <3>1 DEF Pending
    <2>9. AfterFailure = t
      BY <1>1 DEF AfterFailure, k
    <2> HIDE DEF t
    <2> QED BY <2>6, <2>7, <2>8, <2>9 DEF Follows
  <1>2. CASE ~(\E i \in DOMAIN todo : todo[i].do = "refresh")
    BY <1>2, NothingLeft, NothingFollows DEF AfterFailure
  <1> QED BY <1>1, <1>2

\* The lookup of s3fs_open finds no object, and the file may be created.
LEMMA CreateFollows ==
    ASSUME NEW s, Queue(s), s # <<>>, Head(s).do = "lookup", Head(s).how = "create", NEW n, n = Head(s).name
    PROVE  LET t == << check_parent_object_access, [Lookup(n) EXCEPT !.how = "pin"],
                       [Step("opened", n) EXCEPT !.how = "create"] >>
           IN  Queue(t) /\ Follows(t, s)
  <1> DEFINE a == [Lookup(n) EXCEPT !.how = "pin"]
             b == [Step("opened", n) EXCEPT !.how = "create"]
             t == << Lookup(Dir), a, b >>
  <1>1. s \in Seq(StepType) /\ Head(s) = s[1] /\ 1 \in DOMAIN s /\ s[1] \in StepType /\ DOMAIN s = 1 .. Len(s)
    BY RestIs DEF Queue
  <1>2. PICK j \in DOMAIN s : j > 1 /\ s[j].how = "pin" /\ s[j].name = n
    BY <1>1 DEF Queue
  <1>3. j + 1 \in DOMAIN s /\ s[j + 1].do = "opened" /\ s[j + 1].name = n
    BY <1>1, <1>2 DEF Queue
  <1>4. n \in File /\ n \in Name
    BY <1>3, StepsTyped DEF Queue
  <1>5. ~Pending(s)
    <2>1. \A i \in DOMAIN s : i > 1 => s[i].do \notin {"HasStat", "refresh"}
      BY <1>1 DEF Queue
    <2>2. \A i \in DOMAIN s : i = 1 \/ i > 1
      BY <1>1
    <2> QED BY <1>1, <2>1, <2>2 DEF Pending
  <1>6. Lookup(Dir) \in StepType /\ a \in StepType /\ b \in StepType
    BY <1>4, StepsTyped DEF Lookup
  <1>7. /\ a.do = "lookup" /\ a.how = "pin" /\ a.name = n
        /\ b.do = "opened" /\ b.how = "create" /\ b.name = n
    BY StepIs
  <1> HIDE DEF a, b
  <1>8. t \in Seq(StepType) /\ Len(t) = 3 /\ DOMAIN t = 1 .. 3 /\ t[1] = Lookup(Dir) /\ t[2] = a /\ t[3] = b
    BY <1>6
  <1> HIDE DEF t
  <1>9. ASSUME NEW i \in DOMAIN t
        PROVE  /\ t[i].do = "opened" => i = 3
               /\ t[i].how = "pin" => i = 2
               /\ t[i].do \notin {"remove", "upload", "HasStat", "refresh"}
               /\ ~(t[i].do = "lookup" /\ t[i].how = "create")
    BY <1>7, <1>8, StepIs
  <1>10. Queue(t)
    BY <1>4, <1>7, <1>8, <1>9 DEF Queue
  <1>11. Follows(t, s)
    BY <1>2, <1>3, <1>5, <1>7, <1>8, <1>9 DEF Follows
  <1> QED BY <1>10, <1>11 DEF t, a, b, check_parent_object_access

FlushTyped(p, n) ==
    /\ p \in Seq(StepType) /\ p # <<>>
    /\ \A i \in DOMAIN p :
          p[i].do \in {"lookup", "flush", "refresh"} /\ p[i].how \in {"usual", "flush"}
          /\ (p[i].do = "refresh" => p[i].name = n)

LEMMA FlushIs ==
    ASSUME NEW n \in Name
    PROVE  /\ FlushTyped(FlushSteps(n), n) /\ \A i \in DOMAIN FlushSteps(n) : FlushSteps(n)[i].do # "refresh"
           /\ FlushTyped(FlushSteps(n) \o << Step("refresh", n) >>, n)
           /\ Pending(FlushSteps(n) \o << Step("refresh", n) >>)
  <1> DEFINE a == [Lookup(n) EXCEPT !.how = "flush"]
             b == Step("flush", n)
             c == Step("refresh", n)
             p == << Lookup(Dir), a, b >>
             q == p \o << c >>
  <1>1. Lookup(Dir) \in StepType /\ a \in StepType /\ b \in StepType /\ c \in StepType
    BY StepsTyped DEF Lookup
  <1>2. /\ a.do = "lookup" /\ a.how = "flush" /\ b.do = "flush" /\ b.how = "usual"
        /\ c.do = "refresh" /\ c.how = "usual" /\ c.name = n
    BY StepIs
  <1>3. FlushSteps(n) = p
    BY DEF FlushSteps, check_parent_object_access
  <1> HIDE DEF a, b, c
  <1>4. /\ p \in Seq(StepType) /\ p # <<>> /\ Len(p) = 3 /\ DOMAIN p = 1 .. 3
        /\ p[1] = Lookup(Dir) /\ p[2] = a /\ p[3] = b
    BY <1>1
  <1> HIDE DEF p
  <1>5. /\ q \in Seq(StepType) /\ q # <<>> /\ DOMAIN q = 1 .. 4
        /\ q[1] = Lookup(Dir) /\ q[2] = a /\ q[3] = b /\ q[4] = c
    <2> DEFINE r == << c >>
    <2>1. r \in Seq(StepType) /\ Len(r) = 1 /\ DOMAIN r = 1 .. 1 /\ r[1] = c
      BY <1>1
    <2> HIDE DEF r
    <2>2. /\ p \o r \in Seq(StepType) /\ Len(p \o r) = 4 /\ DOMAIN (p \o r) = 1 .. 4
          /\ (p \o r)[1] = p[1] /\ (p \o r)[2] = p[2] /\ (p \o r)[3] = p[3] /\ (p \o r)[4] = r[1]
      <3> DEFINE t == p \o r
      <3>1. /\ t \in Seq(StepType) /\ Len(t) = Len(p) + Len(r)
            /\ \A i \in 1 .. Len(p) + Len(r) : t[i] = IF i <= Len(p) THEN p[i] ELSE r[i - Len(p)]
        BY <1>4, <2>1, ConcatProperties, Zenon
      <3> HIDE DEF t
      <3>2. Len(t) = 4 /\ DOMAIN t = 1 .. 4
        BY <1>4, <2>1, <3>1
      <3>3. t[1] = p[1] /\ t[2] = p[2] /\ t[3] = p[3] /\ t[4] = r[1]
        BY <1>4, <2>1, <3>1
      <3> QED BY <3>1, <3>2, <3>3 DEF t
    <2>3. q = p \o r
      BY DEF r
    <2> HIDE DEF q
    <2>4. Len(q) = 4 /\ q \in Seq(StepType)
      BY <2>2, <2>3
    <2>5. q # <<>>
      BY <2>4
    <2> QED BY <1>4, <2>1, <2>2, <2>3, <2>5
  <1> HIDE DEF q
  <1>6. FlushTyped(p, n) /\ \A i \in DOMAIN p : p[i].do # "refresh"
    BY <1>2, <1>4, StepIs DEF FlushTyped
  <1>7. FlushTyped(q, n) /\ Pending(q)
    BY <1>2, <1>5, StepIs DEF FlushTyped, Pending
  <1> QED BY <1>3, <1>6, <1>7 DEF q, c

\* s3fs_open finds an old stat, and calls s3fs_flush before it forgets it.
LEMMA HasStatFollows ==
    ASSUME NEW s, Queue(s), s # <<>>, Head(s).do = "HasStat", NEW n, n = Head(s).name
    PROVE  LET t == FlushSteps(n) \o << Step("refresh", n) >> \o Tail(s)
           IN  Queue(t) /\ Follows(t, s) /\ Pending(t)
  <1> DEFINE p == FlushSteps(n) \o << Step("refresh", n) >>
             t == p \o Tail(s)
  <1>1. s \in Seq(StepType) /\ Head(s) = s[1] /\ 1 \in DOMAIN s /\ s[1] \in StepType
    BY RestIs DEF Queue
  <1>2. n \in Name
    BY <1>1 DEF StepType
  <1>3. FlushTyped(p, n) /\ Pending(p)
    BY <1>2, FlushIs
  <1>4. Queue(Tail(s)) /\ \A i \in DOMAIN Tail(s) : \E j \in DOMAIN s : Tail(s)[i] = s[j]
    BY QueueTail
  <1>5. \A j \in DOMAIN Tail(s) : Tail(s)[j].do = "opened" => Tail(s)[j].name = n
    <2>1. \A j \in DOMAIN s : s[j].do = "opened" => s[j].name = n
      BY <1>1 DEF Queue
    <2> QED BY <1>4, <2>1
  <1> HIDE DEF p
  <1>6. Queue(t) /\ Joins(t, p, Tail(s))
    <2>1. Precedes(p, Tail(s))
      BY <1>3, <1>5 DEF FlushTyped, Precedes
    <2> QED BY <1>4, <2>1, QueuePrefix, Zenon
  <1> HIDE DEF t
  <1>7. Pending(t)
    BY <1>3, <1>6 DEF Pending, Joins
  <1>8. Follows(t, s)
    <2>1. ASSUME NEW i \in DOMAIN t
          PROVE  (t[i].do \notin {"opened", "upload"} /\ t[i].how # "pin") \/ \E j \in DOMAIN s : t[i] = s[j]
      <3>1. CASE \E j \in DOMAIN p : t[i] = p[j]
        BY <1>3, <3>1 DEF FlushTyped
      <3>2. CASE \E j \in DOMAIN Tail(s) : t[i] = Tail(s)[j]
        BY <1>4, <3>2
      <3> QED BY <1>6, <3>1, <3>2 DEF Joins
    <2> QED BY <1>7, <2>1 DEF Follows
  <1> QED BY <1>6, <1>7, <1>8 DEF t, p

\* When the stat of an opened file is pinned the old one is forgotten.
LEMMA PinIsLate ==
    ASSUME NEW s, Queue(s), s # <<>>, Head(s).do = "opened" \/ Head(s).how = "pin"
    PROVE  ~Pending(s)
  <1>1. s \in Seq(StepType) /\ Head(s) = s[1] /\ 1 \in DOMAIN s /\ DOMAIN s = 1 .. Len(s) /\ Len(s) \in Nat
    BY RestIs DEF Queue
  <1>2. CASE s[1].do = "opened"
    <2>1. Len(s) = 1
      BY <1>1, <1>2 DEF Queue
    <2> QED BY <1>1, <1>2, <2>1 DEF Pending
  <1>3. CASE s[1].how = "pin"
    <2>1. s[1].do = "lookup" /\ 1 < Len(s) /\ s[2].do = "opened"
      BY <1>1, <1>3 DEF Queue
    <2>2. 2 \in DOMAIN s
      BY <1>1, <2>1
    <2>3. Len(s) = 2
      BY <2>1, <2>2 DEF Queue
    <2> QED BY <1>1, <2>1, <2>3 DEF Pending
  <1> QED BY <1>1, <1>2, <1>3

\* Steps of a handler that opens no file, and uploads none but f.
OpensNothing(s, f) ==
    \A i \in DOMAIN s : s[i].do # "opened" /\ s[i].how # "pin" /\ (s[i].do = "upload" => s[i].name = f)

LEMMA GetattrQueue ==
    ASSUME NEW f \in File
    PROVE  Queue(<< Lookup(Dir), Lookup(f) >>) /\ OpensNothing(<< Lookup(Dir), Lookup(f) >>, f)
  <1> DEFINE s == << Lookup(Dir), Lookup(f) >>
  <1>1. Lookup(Dir) \in StepType /\ Lookup(f) \in StepType
    BY StepsTyped DEF Lookup
  <1>2. s \in Seq(StepType) /\ DOMAIN s = 1 .. 2 /\ s[1] = Lookup(Dir) /\ s[2] = Lookup(f)
    BY <1>1
  <1> HIDE DEF s
  <1>3. ASSUME NEW i \in DOMAIN s PROVE s[i].do = "lookup" /\ s[i].how = "usual"
    BY <1>2, StepIs
  <1>4. Queue(s) /\ OpensNothing(s, f)
    BY <1>2, <1>3 DEF Queue, OpensNothing
  <1> QED BY <1>4 DEF s

LEMMA FlushQueue ==
    ASSUME NEW f \in File
    PROVE  Queue(FlushSteps(f)) /\ OpensNothing(FlushSteps(f), f)
  <1>1. FlushTyped(FlushSteps(f), f) /\ \A i \in DOMAIN FlushSteps(f) : FlushSteps(f)[i].do # "refresh"
    BY FlushIs, StepsTyped
  <1> QED BY <1>1 DEF FlushTyped, Queue, OpensNothing

LEMMA OpenQueue ==
    ASSUME NEW f \in File
    PROVE  LET s == << Step("HasStat", f), Lookup(Dir), [Lookup(f) EXCEPT !.how = "create"],
                       [Lookup(f) EXCEPT !.how = "pin"], Step("opened", f) >>
           IN  Queue(s) /\ Pending(s) /\ \A i \in DOMAIN s : s[i].do # "upload"
  <1> DEFINE a == [Lookup(f) EXCEPT !.how = "create"]
             b == [Lookup(f) EXCEPT !.how = "pin"]
             s == << Step("HasStat", f), Lookup(Dir), a, b, Step("opened", f) >>
  <1>1. /\ a \in StepType /\ b \in StepType /\ Step("HasStat", f) \in StepType
        /\ Step("opened", f) \in StepType /\ Lookup(Dir) \in StepType
    BY StepsTyped DEF Lookup
  <1>2. a.do = "lookup" /\ a.how = "create" /\ a.name = f /\ b.do = "lookup" /\ b.how = "pin" /\ b.name = f
    BY StepIs
  <1> HIDE DEF a, b
  <1>3. /\ s \in Seq(StepType) /\ Len(s) = 5 /\ DOMAIN s = 1 .. 5
        /\ s[1] = Step("HasStat", f) /\ s[2] = Lookup(Dir) /\ s[3] = a /\ s[4] = b /\ s[5] = Step("opened", f)
    BY <1>1
  <1> HIDE DEF s
  <1>4. ASSUME NEW i \in DOMAIN s
        PROVE  /\ s[i].do = "opened" => i = 5
               /\ s[i].how = "pin" => i = 4
               /\ s[i].how = "create" => i = 3
               /\ s[i].do = "HasStat" => i = 1
               /\ s[i].do \notin {"remove", "upload", "refresh"}
    BY <1>2, <1>3, StepIs
  <1>5. s[4].do = "lookup" /\ s[4].name = f /\ s[1].name = f /\ s[5].name = f /\ s[1].do = "HasStat"
        /\ s[5].do = "opened" /\ s[3].name = f /\ s[4].how = "pin"
    BY <1>2, <1>3, StepIs
  <1>6. Queue(s)
    <2>1. ASSUME NEW i \in DOMAIN s, s[i].do = "lookup", s[i].how = "create"
          PROVE  /\ \E j \in DOMAIN s : j > i /\ s[j].how = "pin" /\ s[j].name = s[i].name
                 /\ \A j \in DOMAIN s : j > i => s[j].do \notin {"HasStat", "refresh"}
      <3>1. i = 3 /\ 4 \in DOMAIN s /\ s[i].name = f
        BY <1>3, <1>4, <1>5, <2>1
      <3> QED BY <1>4, <1>5, <3>1
    <2>2. ASSUME NEW i \in DOMAIN s
          PROVE  /\ s[i].do = "opened" => i = Len(s) /\ s[i].name \in File
                 /\ s[i].how = "pin" =>
                       /\ s[i].do = "lookup" /\ i < Len(s)
                       /\ s[i + 1].do = "opened" /\ s[i + 1].name = s[i].name
                 /\ s[i].do \in {"HasStat", "refresh"} =>
                       \A j \in DOMAIN s : s[j].do = "opened" => s[j].name = s[i].name
      BY <1>3, <1>4, <1>5
    <2> QED BY <1>3, <1>4, <2>1, <2>2 DEF Queue
  <1>7. Pending(s)
    BY <1>3, <1>5 DEF Pending
  <1> QED BY <1>4, <1>6, <1>7 DEF s, a, b

LEMMA UnlinkQueue ==
    ASSUME NEW f \in File
    PROVE  LET s == << Lookup(Dir), Lookup(Dir), Step("remove", f), Step("DelStat", f) >>
           IN  Queue(s) /\ OpensNothing(s, f)
  <1> DEFINE s == << Lookup(Dir), Lookup(Dir), Step("remove", f), Step("DelStat", f) >>
  <1>1. Lookup(Dir) \in StepType /\ Step("remove", f) \in StepType /\ Step("DelStat", f) \in StepType
    BY StepsTyped DEF Lookup
  <1>2. /\ s \in Seq(StepType) /\ Len(s) = 4 /\ DOMAIN s = 1 .. 4
        /\ s[1] = Lookup(Dir) /\ s[2] = Lookup(Dir) /\ s[3] = Step("remove", f) /\ s[4] = Step("DelStat", f)
    BY <1>1
  <1> HIDE DEF s
  <1>3. ASSUME NEW i \in DOMAIN s
        PROVE  /\ s[i].do \notin {"opened", "HasStat", "refresh", "upload"} /\ s[i].how = "usual"
               /\ s[i].do = "remove" => i = 3
    BY <1>2, StepIs
  <1>4. Queue(s) /\ OpensNothing(s, f)
    BY <1>2, <1>3, StepIs DEF Queue, OpensNothing
  <1> QED BY <1>4 DEF s

LEMMA TruncateQueue ==
    ASSUME NEW f \in File
    PROVE  LET s == << Lookup(Dir), Lookup(f), Lookup(f), Step("upload", f), Step("DelStat", f) >>
           IN  Queue(s) /\ OpensNothing(s, f)
  <1> DEFINE s == << Lookup(Dir), Lookup(f), Lookup(f), Step("upload", f), Step("DelStat", f) >>
  <1>1. /\ Lookup(Dir) \in StepType /\ Lookup(f) \in StepType
        /\ Step("upload", f) \in StepType /\ Step("DelStat", f) \in StepType
    BY StepsTyped DEF Lookup
  <1>2. /\ s \in Seq(StepType) /\ Len(s) = 5 /\ DOMAIN s = 1 .. 5
        /\ s[1] = Lookup(Dir) /\ s[2] = Lookup(f) /\ s[3] = Lookup(f)
        /\ s[4] = Step("upload", f) /\ s[5] = Step("DelStat", f)
    BY <1>1
  <1> HIDE DEF s
  <1>3. ASSUME NEW i \in DOMAIN s
        PROVE  /\ s[i].do \notin {"opened", "HasStat", "refresh", "remove"} /\ s[i].how = "usual"
               /\ s[i].do = "upload" => i = 4
    BY <1>2, StepIs
  <1>4. Queue(s) /\ OpensNothing(s, f)
    BY <1>2, <1>3, StepIs DEF Queue, OpensNothing
  <1> QED BY <1>4 DEF s

\* A lookup that returns goes on, skips or ends the handler; nothing is pinned
\* twice.
LEMMA ReturnsTo ==
    ASSUME Queue(todo), todo # <<>>, Head(todo).do = "lookup", NEW rc, LookupReturns(rc)
    PROVE  /\ Queue(todo') /\ at' = "GetStat" /\ failed' = "ok" /\ Follows(todo', todo)
           /\ Pin => \A i \in DOMAIN todo' : todo'[i].how # "pin"
  <1>1. at' = "GetStat" /\ failed' = "ok"
    BY DEF LookupReturns
  <1>2. CASE (rc = "ok" \/ Pin) /\ todo' = Tail(todo)
    <2>1. ASSUME Pin, NEW i \in DOMAIN Tail(todo) PROVE Tail(todo)[i].how # "pin"
      <3>1. /\ todo[1].how = "pin" /\ 1 \in DOMAIN todo /\ todo \in Seq(StepType)
            /\ DOMAIN todo = 1 .. Len(todo) /\ Len(todo) \in Nat
            /\ i + 1 \in DOMAIN todo /\ Tail(todo)[i] = todo[i + 1]
        BY <2>1, RestIs DEF Pin, Queue
      <3>2. todo[2].do = "opened" /\ 2 \in DOMAIN todo
        BY <3>1 DEF Queue
      <3>3. Len(todo) = 2 /\ todo[2].how # "pin"
        BY <3>2 DEF Queue
      <3>4. i + 1 = 2
        BY <2>1, <3>1, <3>3, RestIs DEF Queue
      <3> QED BY <3>1, <3>3, <3>4
    <2>2. Queue(Tail(todo)) /\ Follows(Tail(todo), todo)
      BY QueueTail, TailFollows
    <2> QED BY <1>1, <1>2, <2>1, <2>2
  <1>3. CASE /\ Head(todo).how = "create"
             /\ todo' = << check_parent_object_access, [Lookup(N) EXCEPT !.how = "pin"],
                           [Step("opened", N) EXCEPT !.how = "create"] >>
    <2>1. ~Pin
      BY <1>3 DEF Pin
    <2>2. Queue(todo') /\ Follows(todo', todo)
      BY <1>3, CreateFollows DEF N
    <2> QED BY <1>1, <2>1, <2>2
  <1>4. CASE Head(todo).how = "flush" /\ todo' = << check_parent_object_access >> \o Tail(todo)
    <2>1. ~Pin
      BY <1>4 DEF Pin
    <2>2. Queue(todo') /\ Follows(todo', todo)
      BY <1>4, ParentFollows
    <2> QED BY <1>1, <2>1, <2>2
  <1>5. CASE ~Pin /\ todo' = AfterFailure
    BY <1>1, <1>5, FailureFollows
  <1> QED BY <1>2, <1>3, <1>4, <1>5 DEF LookupReturns
-----------------------------------------------------------------------------
(***************************************************************************)
(* The lookups keep the invariant.                                         *)
(***************************************************************************)
\* d after a step of a lookup, from c: entries become fresh, none becomes
\* outdated, and none is pinned unless the lookup pins.
Moved(c, d, pins) ==
    /\ d \in CacheType
    /\ \A k \in Key : d[k] # None =>
          /\ (c[k] # None => c[k].fresh \/ c[k].noobjcache) => d[k].fresh \/ d[k].noobjcache
          /\ (c[k] # None => c[k].notruncate = 0) => d[k].notruncate = 0 \/ pins
          /\ d[k].before # "no" => c[k] # None /\ c[k].before = d[k].before

EntriesOf(c) ==
    /\ \A k \in Key : c[k] # None /\ c[k].noobjcache => opt.noobj /\ k[2] = "path" /\ c[k].notruncate = 0
    /\ \A n \in Name : c[<< n, "path" >>] = None \/ c[<< n, "path/" >>] = None

LEMMA LessMoved ==
    ASSUME NEW c, NEW d, Less(c, d), NEW pins
    PROVE  Moved(c, d, pins) /\ (EntriesOf(c) => EntriesOf(d))
  <1>1. Moved(c, d, pins)
    BY DEF Less, Same, Moved
  <1>2. EntriesOf(c) => EntriesOf(d)
    <2>1. SUFFICES ASSUME EntriesOf(c) PROVE EntriesOf(d)
      OBVIOUS
    <2>2. ASSUME NEW k \in Key, d[k] # None, d[k].noobjcache
          PROVE  opt.noobj /\ k[2] = "path" /\ d[k].notruncate = 0
      BY <2>1, <2>2 DEF EntriesOf, Less, Same
    <2>3. ASSUME NEW n \in Name PROVE d[<< n, "path" >>] = None \/ d[<< n, "path/" >>] = None
      BY <2>1, KeysOf DEF EntriesOf, Less
    <2> QED BY <2>2, <2>3 DEF EntriesOf
  <1> QED BY <1>1, <1>2

LEMMA AddsMoved ==
    ASSUME NEW c, NEW d, NEW k \in Key, NEW noobj \in BOOLEAN, NEW pin \in BOOLEAN, Adds(c, d, k, noobj, pin),
           noobj => opt.noobj /\ k[2] = "path" /\ ~pin,
           EntriesOf(c), \A j \in Key : j[1] = k[1] => c[j] = None
    PROVE  Moved(c, d, pin) /\ EntriesOf(d)
  <1>1. Moved(c, d, pin)
    BY DEF Adds, Same, Moved
  <1>2. ASSUME NEW j \in Key, d[j] # None, d[j].noobjcache
        PROVE  opt.noobj /\ j[2] = "path" /\ d[j].notruncate = 0
    BY <1>2 DEF EntriesOf, Adds, Same
  <1>3. ASSUME NEW n \in Name PROVE d[<< n, "path" >>] = None \/ d[<< n, "path/" >>] = None
    <2>1. /\ << n, "path" >> \in Key /\ << n, "path/" >> \in Key /\ << n, "path" >> # << n, "path/" >>
          /\ << n, "path" >>[1] = n /\ << n, "path/" >>[1] = n
      BY KeysOf
    <2>2. CASE n = k[1]
      <3>1. c[<< n, "path" >>] = None /\ c[<< n, "path/" >>] = None
        BY <2>1, <2>2
      <3> QED BY <2>1, <3>1 DEF Adds
    <2>3. CASE n # k[1]
      <3>1. << n, "path" >> # k /\ << n, "path/" >> # k
        BY <2>1, <2>3
      <3> QED BY <2>1, <3>1 DEF EntriesOf, Adds
    <2> QED BY <2>2, <2>3
  <1> QED BY <1>1, <1>2, <1>3 DEF EntriesOf

LEMMA LookupKeeps ==
    ASSUME Inv, todo # <<>>, Head(todo).do = "lookup", UNCHANGED << opt, now, opened >>,
           NEW pins \in BOOLEAN, Moved(stat_cache, stat_cache', pins), Follows(todo', todo),
           pins => \A i \in DOMAIN todo' : todo'[i].how # "pin"
    PROVE  Opening' /\ Outdated'
  <1>1. Outdated'
    <2>1. ASSUME NEW k \in Key, stat_cache'[k] # None
          PROVE  /\ stat_cache'[k].before # "changed"
                 /\ stat_cache'[k].before = "uploaded" => k[1] \in opened
      BY <2>1 DEF Inv, Outdated, Moved
    <2>2. \A i \in DOMAIN todo' : todo'[i].do = "upload" => todo'[i].name \in opened
      BY DEF Inv, Outdated, Follows
    <2> QED BY <2>1, <2>2 DEF Outdated
  <1>2. ASSUME ~Pending(todo'), NEW i \in DOMAIN todo', NEW k \in Key, stat_cache'[k] # None, k[1] = todo'[i].name
        PROVE  /\ todo'[i].do = "opened" => stat_cache'[k].fresh \/ stat_cache'[k].noobjcache
               /\ todo'[i].how = "pin" => stat_cache'[k].notruncate = 0
    <2>1. ~Pending(todo)
      <3>1. todo' # <<>>
        BY <1>2
      <3> QED BY <1>2, <3>1 DEF Follows
    <2>2. ASSUME todo'[i].do = "opened" PROVE stat_cache'[k].fresh \/ stat_cache'[k].noobjcache
      <3>1. PICK j \in DOMAIN todo : todo[j].do = "opened" /\ todo[j].name = todo'[i].name
        BY <2>2 DEF Follows
      <3>2. stat_cache[k] # None => stat_cache[k].fresh \/ stat_cache[k].noobjcache
        BY <1>2, <2>1, <3>1 DEF Inv, Opening
      <3> QED BY <1>2, <3>2 DEF Moved
    <2>3. ASSUME todo'[i].how = "pin" PROVE stat_cache'[k].notruncate = 0
      <3>1. PICK j \in DOMAIN todo : todo[j].how = "pin" /\ todo[j].name = todo'[i].name
        BY <2>3 DEF Follows
      <3>2. stat_cache[k] # None => stat_cache[k].notruncate = 0
        BY <1>2, <2>1, <3>1 DEF Inv, Opening
      <3> QED BY <1>2, <2>3, <3>2 DEF Moved
    <2> QED BY <2>2, <2>3
  <1>3. Opening'
    BY <1>2 DEF Opening, Pending
  <1> QED BY <1>1, <1>3

\* A lookup that goes on leaves the steps as they are.
LEMMA SameFollows == ASSUME UNCHANGED todo PROVE Follows(todo', todo)
  BY DEF Follows

LEMMA InvFacts ==
    ASSUME Inv
    PROVE  /\ now \in Nat /\ stat_cache \in CacheType /\ EntriesOf(stat_cache)
           /\ todo # <<>> => N \in Name /\ Head(todo) = todo[1] /\ 1 \in DOMAIN todo
  <1>1. now \in Nat
    BY StatCacheSizes DEF Inv, TypeOK
  <1>2. stat_cache \in CacheType
    BY DEF Inv, TypeOK, CacheType, EntryType
  <1>3. EntriesOf(stat_cache)
    BY DEF Inv, Entries, EntriesOf
  <1>4. ASSUME todo # <<>> PROVE N \in Name /\ Head(todo) = todo[1] /\ 1 \in DOMAIN todo
    <2>1. todo \in Seq(StepType)
      BY DEF Inv, Queue
    <2>2. Head(todo) \in StepType /\ Head(todo) = todo[1] /\ 1 \in DOMAIN todo
      BY <1>4, <2>1, RestIs
    <2> QED BY <2>2 DEF N, StepType
  <1> QED BY <1>1, <1>2, <1>3, <1>4

LEMMA EntriesAfter == EntriesOf(stat_cache)' => Entries'
  BY DEF EntriesOf, Entries

\* A lookup that returns with a cache that has moved.
LEMMA ReturnKeeps ==
    ASSUME Inv, todo # <<>>, Head(todo).do = "lookup", UNCHANGED << opt, now, opened >>, stuck' \in BOOLEAN,
           Moved(stat_cache, stat_cache', Pin), EntriesOf(stat_cache)',
           NEW rc \in {"ok", "ENOENT", "EIO"}, LookupReturns(rc)
    PROVE  Inv'
  <1>1. Queue(todo)
    BY DEF Inv
  <1>2. /\ Queue(todo)' /\ at' = "GetStat" /\ failed' = "ok" /\ Follows(todo', todo)
        /\ Pin => \A i \in DOMAIN todo' : todo'[i].how # "pin"
    BY <1>1, ReturnsTo DEF Queue, StepType
  <1>3. Pin \in BOOLEAN
    BY DEF Pin
  <1>4. Opening' /\ Outdated'
    BY <1>2, <1>3, LookupKeeps
  <1>5. stat_cache' \in CacheType
    BY DEF Moved
  <1>6. TypeOK'
    BY <1>2, <1>5 DEF TypeOK, Inv, CacheType, EntryType
  <1>7. Lookups'
    BY <1>2 DEF Lookups
  <1> QED BY <1>2, <1>4, <1>6, <1>7, EntriesAfter DEF Inv

LEMMA GetStatKeeps == ASSUME Inv, LookupGetStat PROVE Inv'
  <1> DEFINE got == GetStat(stat_cache, N)
  <1>1. /\ todo # <<>> /\ Head(todo).do = "lookup" /\ at = "GetStat"
        /\ UNCHANGED << opt, now, there, opened, stuck >>
    BY DEF LookupGetStat, Looking
  <1>2. now \in Nat /\ stat_cache \in CacheType /\ EntriesOf(stat_cache) /\ N \in Name
    BY <1>1, InvFacts
  <1>3. Less(stat_cache, got.cache)
    BY <1>2, GetStatIs
  <1>4. stuck \in BOOLEAN
    BY DEF Inv, TypeOK
  <1>5. CASE got.hit /\ stat_cache' = ChangeNoTruncateFlag(got.cache, N, Pin) /\ LookupReturns("ok")
    <2> DEFINE c == got.cache
               d == ChangeNoTruncateFlag(c, N, Pin)
               k == << N, "path" >>
    <2>1. c \in CacheType /\ EntriesOf(c) /\ k \in Key /\ k[1] = N /\ Pin \in BOOLEAN
      BY <1>2, <1>3, LessMoved, KeysOf DEF Less, Pin
    <2>2. Pin /\ stat_cache[k] # None => stat_cache[k].notruncate = 0
      <3>1. Head(todo) = todo[1] /\ 1 \in DOMAIN todo
        BY <1>1, InvFacts
      <3>2. Pin => ~Pending(todo)
        BY <1>1, PinIsLate DEF Inv, Pin
      <3> QED BY <1>1, <2>1, <3>1, <3>2 DEF Inv, Opening, Pin, N
    <2>3. Pin /\ c[k] # None => c[k].notruncate = 0
      BY <1>3, <2>1, <2>2 DEF Less, Same
    <2>4. c[k] # None => ~c[k].noobjcache
      <3>1. ASSUME c[k] # None, c[k].noobjcache PROVE FALSE
        <4>1. stat_cache[k] # None /\ stat_cache[k].noobjcache
          BY <1>3, <2>1, <3>1 DEF Less, Same
        <4>2. stat_cache[<< N, "path/" >>] = None
          BY <1>2, <4>1 DEF EntriesOf
        <4>3. Find(stat_cache, N) = k
          BY <4>2 DEF Find
        <4> QED BY <1>2, <1>5, <4>1, <4>3, GetStatIs
      <3> QED BY <3>1
    <2> HIDE DEF c, k
    <2>5. /\ d \in CacheType
          /\ \A j \in Key : j # k \/ c[j] = None => d[j] = c[j]
          /\ \A j \in Key : d[j] # None =>
                /\ c[j] # None
                /\ d[j].noobjcache = c[j].noobjcache /\ d[j].fresh = c[j].fresh /\ d[j].before = c[j].before
                /\ ~Pin /\ c[j].notruncate = 0 => d[j].notruncate = 0
      BY <1>2, <2>1, <2>3, ChangeFlagIs DEF k
    <2> HIDE DEF d
    <2>6. Moved(stat_cache, d, Pin)
      <3>1. \A j \in Key : c[j] # None => stat_cache[j] # None /\ Same(stat_cache[j], c[j])
        BY <1>3 DEF Less, c
      <3> QED BY <2>5, <3>1 DEF Moved, Same
    <2>7. EntriesOf(d)
      <3>1. ASSUME NEW j \in Key, d[j] # None, d[j].noobjcache
            PROVE  opt.noobj /\ j[2] = "path" /\ d[j].notruncate = 0
        BY <2>1, <2>4, <2>5, <3>1 DEF EntriesOf
      <3>2. ASSUME NEW n \in Name PROVE d[<< n, "path" >>] = None \/ d[<< n, "path/" >>] = None
        BY <2>1, <2>5, KeysOf DEF EntriesOf
      <3> QED BY <3>1, <3>2 DEF EntriesOf
    <2>8. stat_cache' = d
      BY <1>5 DEF d, c
    <2>9. EntriesOf(stat_cache)'
      BY <1>1, <2>7, <2>8 DEF EntriesOf
    <2> QED BY <1>1, <1>4, <1>5, <2>6, <2>8, <2>9, ReturnKeeps
  <1>6. CASE ~got.hit /\ stat_cache' = got.cache /\ at' = "IsNoObjectCache" /\ UNCHANGED << todo, failed >>
    <2>1. Moved(stat_cache, stat_cache', FALSE) /\ EntriesOf(got.cache)
      BY <1>2, <1>3, <1>6, LessMoved
    <2>2. EntriesOf(stat_cache)'
      BY <1>1, <1>6, <2>1 DEF EntriesOf
    <2>3. Opening' /\ Outdated'
      BY <1>1, <1>6, <2>1, SameFollows, LookupKeeps
    <2>4. Lookups'
      <3>1. got.cache[Find(got.cache, N)] # None => got.cache[Find(got.cache, N)].noobjcache
        BY <1>2, <1>6, GetStatIs
      <3>2. /\ todo' = todo /\ N' = N /\ at' = "IsNoObjectCache" /\ stat_cache' = got.cache
            /\ Find(stat_cache', N') = Find(got.cache, N)
        BY <1>6 DEF N
      <3> HIDE DEF got
      <3> QED BY <1>1, <3>1, <3>2 DEF Lookups, Find
    <2>5. stat_cache' \in CacheType
      BY <2>1 DEF Moved
    <2>6. TypeOK'
      BY <1>1, <1>6, <2>5 DEF Inv, TypeOK, CacheType, EntryType
    <2>7. Queue(todo)'
      BY <1>1, <1>6 DEF Inv, Queue
    <2> QED BY <2>2, <2>3, <2>4, <2>6, <2>7, EntriesAfter DEF Inv
  <1> QED BY <1>5, <1>6 DEF LookupGetStat

\* A step that leaves the handler in its lookup, and the cache alone.
LEMMA StayKeeps ==
    ASSUME Inv, todo # <<>>, Head(todo).do = "lookup", UNCHANGED << opt, now, opened, todo, stat_cache >>,
           stuck' \in BOOLEAN, failed' \in {"ok", "ENOENT", "EIO"},
           at' \in {"GetStat", "IsNoObjectCache", "object", "object/", "object_$folder$", "children"},
           at' # at => stat_cache[Find(stat_cache, N)] = None
    PROVE  Inv'
  <1>1. Moved(stat_cache, stat_cache', FALSE)
    BY InvFacts, LessSelf, LessMoved
  <1>2. Opening' /\ Outdated'
    BY <1>1, SameFollows, LookupKeeps
  <1>3. Entries'
    BY DEF Inv, Entries
  <1>4. Queue(todo)'
    BY DEF Inv, Queue
  <1>5. at' \in {"GetStat", "IsNoObjectCache"} \cup {Kinds[i] : i \in DOMAIN Kinds}
    BY DEF Kinds
  <1>6. TypeOK'
    BY <1>5 DEF Inv, TypeOK
  <1>7. N' = N /\ Find(stat_cache, N)' = Find(stat_cache, N)
    BY DEF N, Find
  <1>8. Lookups'
    BY <1>7 DEF Inv, Lookups
  <1> QED BY <1>2, <1>3, <1>4, <1>6, <1>8 DEF Inv

LEMMA NoObjectKeeps == ASSUME Inv, IsNoObjectCache PROVE Inv'
  <1> DEFINE k == Find(stat_cache, N)
  <1>1. /\ todo # <<>> /\ Head(todo).do = "lookup" /\ at = "IsNoObjectCache"
        /\ UNCHANGED << opt, now, there, opened >>
    BY DEF IsNoObjectCache, Looking
  <1>2. now \in Nat /\ stat_cache \in CacheType /\ EntriesOf(stat_cache) /\ N \in Name
    BY <1>1, InvFacts
  <1>3. k \in Key
    BY <1>2, FindIs
  <1>4. /\ stuck \in BOOLEAN /\ failed \in {"ok", "ENOENT", "EIO"}
        /\ at \in {"GetStat", "IsNoObjectCache", "object", "object/", "object_$folder$", "children"}
    BY DEF Inv, TypeOK, Kinds
  <1>5. CASE stuck' = TRUE /\ UNCHANGED << stat_cache, todo, at, failed >>
    BY <1>1, <1>4, <1>5, StayKeeps
  <1>6. CASE /\ stat_cache[k] # None /\ stat_cache' = [stat_cache EXCEPT ![k].cache_date = now]
             /\ LookupReturns("ENOENT") /\ UNCHANGED stuck
    <2> DEFINE e == [stat_cache[k] EXCEPT !.cache_date = now]
    <2>1. stat_cache[k] \in EntryType
      BY <1>2, <1>3, <1>6 DEF CacheType
    <2>2. now \in 0 .. now
      BY <1>2
    <2>3. \A x \in EntryType, t \in 0 .. now :
             [x EXCEPT !.cache_date = t] \in EntryType /\ Same(x, [x EXCEPT !.cache_date = t])
      BY DEF EntryType, Same
    <2>4. e \in EntryType /\ Same(stat_cache[k], e)
      BY <2>1, <2>2, <2>3
    <2>5. stat_cache' = [stat_cache EXCEPT ![k] = e]
      BY <1>2, <1>3, <1>6 DEF CacheType
    <2> HIDE DEF e, k
    <2>6. Less(stat_cache, stat_cache')
      BY <1>2, <1>3, <1>6, <2>4, <2>5 DEF Less, CacheType, Same
    <2>7. Moved(stat_cache, stat_cache', Pin) /\ EntriesOf(stat_cache')
      BY <1>2, <2>6, LessMoved
    <2>8. EntriesOf(stat_cache)'
      BY <1>1, <2>7 DEF EntriesOf
    <2> QED BY <1>1, <1>4, <1>6, <2>7, <2>8, ReturnKeeps
  <1>7. CASE /\ opt.noobj /\ stat_cache[k] # None => ~IsExpireStatCacheTime(stat_cache[k]) /\ ~stat_cache[k].noobjcache
             /\ at' = "object" /\ UNCHANGED << stat_cache, todo, failed, stuck >>
    <2>1. stat_cache[k] = None
      BY <1>1, <1>2, <1>3, <1>7 DEF Inv, Lookups, EntriesOf
    <2> QED BY <1>1, <1>4, <1>7, <2>1, StayKeeps
  <1> QED BY <1>5, <1>6, <1>7 DEF IsNoObjectCache

\* What a lookup found is added to the cache, or not.
LEMMA FoundKeeps ==
    ASSUME Inv, todo # <<>>, Head(todo).do = "lookup", UNCHANGED << opt, now, opened, stuck >>,
           stat_cache[Find(stat_cache, N)] = None,
           NEW k \in Key, k[1] = N, Found(k)
    PROVE  Inv'
  <1>1. now \in Nat /\ stat_cache \in CacheType /\ EntriesOf(stat_cache) /\ N \in Name
    BY InvFacts
  <1>2. stuck \in BOOLEAN /\ Pin \in BOOLEAN
    BY DEF Inv, TypeOK, Pin
  <1>3. Moved(stat_cache, stat_cache', Pin) /\ EntriesOf(stat_cache')
    <2>1. CASE Pin \/ CacheSize # 0
      <3> DEFINE c == [MakeRoom(stat_cache, k) EXCEPT ![k] = Entry(FALSE, Pin)]
                 d == GetStat(c, k[1]).cache
      <3>1. AddStat(stat_cache, k, Pin) = c
        BY <2>1, StatCacheSizes DEF AddStat
      <3>2. stat_cache' = d
        BY <2>1, <3>1 DEF Found
      <3>3. Adds(stat_cache, c, k, FALSE, Pin)
        BY <1>1, <1>2, EntryIsNew
      <3>4. c \in CacheType
        BY <3>3 DEF Adds
      <3> HIDE DEF c
      <3>5. Less(c, d)
        BY <1>1, <3>4, GetStatIs
      <3> HIDE DEF d
      <3>6. Adds(stat_cache, d, k, FALSE, Pin)
        BY <3>3, <3>5, AddsThenLess
      <3>7. \A j \in Key : j[1] = k[1] => stat_cache[j] = None
        BY <1>1, FindIs
      <3>8. Moved(stat_cache, d, Pin) /\ EntriesOf(d)
        <4>1. PICK no \in BOOLEAN, pin \in BOOLEAN : no = FALSE /\ pin = Pin
          BY <1>2
        <4>2. Adds(stat_cache, d, k, no, pin)
          BY <3>6, <4>1
        <4>3. no => opt.noobj /\ k[2] = "path" /\ ~pin
          BY <4>1
        <4>4. Moved(stat_cache, d, pin) /\ EntriesOf(d)
          BY <1>1, <3>7, <4>2, <4>3, AddsMoved
        <4> QED BY <4>1, <4>4
      <3> QED BY <3>2, <3>8
    <2>2. CASE ~(Pin \/ CacheSize # 0)
      BY <1>1, <2>2, LessSelf, LessMoved DEF Found
    <2> QED BY <2>1, <2>2
  <1>4. EntriesOf(stat_cache)'
    BY <1>3 DEF EntriesOf
  <1>5. LookupReturns("ok")
    BY DEF Found
  <1> QED BY <1>2, <1>3, <1>4, <1>5, ReturnKeeps

LEMMA HeadKeeps == ASSUME Inv, HeadRequest PROVE Inv'
  <1>1. PICK i \in 1 .. 3 : HeadRequest!(i)
    BY DEF HeadRequest
  <1>2. /\ todo # <<>> /\ Head(todo).do = "lookup" /\ at = Kinds[i]
        /\ UNCHANGED << opt, now, there, opened, stuck >>
    BY <1>1 DEF Looking
  <1>3. N \in Name /\ stuck \in BOOLEAN
    BY <1>2, InvFacts DEF Inv, TypeOK
  <1>4. stat_cache[Find(stat_cache, N)] = None
    <2>1. at # "GetStat" /\ at # "IsNoObjectCache"
      BY <1>2 DEF Kinds
    <2> QED BY <2>1 DEF Inv, Lookups
  <1>5. ASSUME NEW s \in {"path", "path/"}, Found(<< N, s >>) PROVE Inv'
    <2>1. << N, s >> \in Key /\ << N, s >>[1] = N
      BY <1>3 DEF Key
    <2> QED BY <1>2, <1>4, <1>5, <2>1, FoundKeeps
  <1>6. CASE \E listed \in list_bucket :
                Found(<< N, IF i > 1 \/ (is_need_check_obj_detail /\ listed = "ENOTEMPTY") THEN "path/" ELSE "path" >>)
    BY <1>5, <1>6
  <1>7. CASE /\ failed' = IF Kinds[i] \notin there[N] THEN "ENOENT" ELSE "EIO"
             /\ at' = Kinds[i + 1] /\ UNCHANGED << stat_cache, todo >>
    <2>1. at' \in {"GetStat", "IsNoObjectCache", "object", "object/", "object_$folder$", "children"}
      BY <1>7 DEF Kinds
    <2> QED BY <1>2, <1>3, <1>4, <1>7, <2>1, StayKeeps
  <1> QED BY <1>1, <1>6, <1>7

LEMMA EmptyKeeps == ASSUME Inv, directory_empty PROVE Inv'
  <1>1. /\ todo # <<>> /\ Head(todo).do = "lookup" /\ at = "children"
        /\ UNCHANGED << opt, now, there, opened, stuck >>
    BY DEF directory_empty, Looking
  <1>2. now \in Nat /\ stat_cache \in CacheType /\ EntriesOf(stat_cache) /\ N \in Name
    BY <1>1, InvFacts
  <1>3. stat_cache[Find(stat_cache, N)] = None
    BY <1>1 DEF Inv, Lookups
  <1>4. CASE Found(<< N, "path/" >>)
    <2>1. << N, "path/" >> \in Key /\ << N, "path/" >>[1] = N
      BY <1>2, KeysOf
    <2> QED BY <1>1, <1>3, <1>4, <2>1, FoundKeeps
  <1>5. CASE stat_cache' = AddNoObjectCache(stat_cache, << N, "path" >>) /\ LookupReturns(failed)
    <2> DEFINE k == << N, "path" >>
    <2>1. k \in Key /\ k[1] = N /\ k[2] = "path"
      BY <1>2, KeysOf
    <2> HIDE DEF k
    <2>2. Moved(stat_cache, stat_cache', FALSE) /\ EntriesOf(stat_cache')
      <3>1. CASE ~opt.noobj \/ CacheSize < 1
        <4>1. stat_cache' = stat_cache
          BY <1>5, <3>1 DEF AddNoObjectCache
        <4> QED BY <1>2, <4>1, LessSelf, LessMoved
      <3>2. CASE ~(~opt.noobj \/ CacheSize < 1)
        <4>1. stat_cache' = [MakeRoom(stat_cache, k) EXCEPT ![k] = Entry(TRUE, FALSE)]
          BY <1>5, <3>2 DEF AddNoObjectCache, k
        <4>2. Adds(stat_cache, stat_cache', k, TRUE, FALSE)
          BY <1>2, <2>1, <4>1, EntryIsNew
        <4>3. \A j \in Key : j[1] = k[1] => stat_cache[j] = None
          BY <1>2, <1>3, <2>1, FindIs
        <4> QED BY <1>2, <2>1, <3>2, <4>2, <4>3, AddsMoved
      <3> QED BY <3>1, <3>2
    <2>3. Moved(stat_cache, stat_cache', Pin)
      BY <2>2 DEF Moved
    <2>4. EntriesOf(stat_cache)'
      BY <1>1, <2>2 DEF EntriesOf
    <2>5. stuck \in BOOLEAN /\ failed \in {"ok", "ENOENT", "EIO"}
      BY DEF Inv, TypeOK
    <2> QED BY <1>1, <1>5, <2>3, <2>4, <2>5, ReturnKeeps
  <1> QED BY <1>4, <1>5 DEF directory_empty
-----------------------------------------------------------------------------
(***************************************************************************)
(* The other steps keep the invariant.                                     *)
(***************************************************************************)
\* A handler begins: no lookup runs, and no entry is known to be outdated.
LEMMA BeginKeeps ==
    ASSUME Inv, NEW steps, Begin(steps), Queue(steps), NEW f,
           OpensNothing(steps, f) \/ Pending(steps),
           \A i \in DOMAIN steps : steps[i].do = "upload" => steps[i].name \in opened
    PROVE  Inv'
  <1> DEFINE old(k) == [stat_cache[k] EXCEPT !.fresh = FALSE]
  <1>1. /\ todo = <<>> /\ todo' = steps /\ UNCHANGED << opt, now, there, opened, at, failed, stuck >>
        /\ stat_cache' = [k \in Key |-> IF stat_cache[k] = None THEN None ELSE old(k)]
    BY DEF Begin
  <1>2. stat_cache \in CacheType
    BY InvFacts
  <1>3. ASSUME NEW k \in Key, stat_cache[k] # None
        PROVE  /\ old(k) \in EntryType /\ old(k).noobjcache = stat_cache[k].noobjcache
               /\ old(k).notruncate = stat_cache[k].notruncate /\ old(k).before = stat_cache[k].before
    <2>1. stat_cache[k] \in EntryType
      BY <1>2, <1>3 DEF CacheType
    <2> QED BY <2>1 DEF EntryType
  <1> HIDE DEF old
  <1>4. \A k \in Key : stat_cache'[k] # None =>
           /\ stat_cache[k] # None /\ stat_cache'[k].noobjcache = stat_cache[k].noobjcache
           /\ stat_cache'[k].notruncate = stat_cache[k].notruncate /\ stat_cache'[k].before = stat_cache[k].before
    BY <1>1, <1>3
  <1>5. \A k \in Key : stat_cache[k] = None => stat_cache'[k] = None
    BY <1>1
  <1>6. stat_cache' \in CacheType
    BY <1>1, <1>3 DEF CacheType
  <1>7. TypeOK'
    BY <1>1, <1>6 DEF Inv, TypeOK, CacheType, EntryType
  <1>8. Lookups'
    BY <1>1 DEF Inv, Lookups
  <1>9. Entries'
    BY <1>1, <1>4, <1>5, KeysOf DEF Inv, Entries
  <1>10. Opening'
    BY <1>1 DEF Opening, OpensNothing, Pending
  <1>11. Outdated'
    <2>1. \A k \in Key : stat_cache'[k] # None =>
             /\ stat_cache'[k].before # "changed"
             /\ stat_cache'[k].before = "uploaded" => k[1] \in opened
      BY <1>1, <1>4 DEF Inv, Outdated
    <2> QED BY <1>1, <2>1 DEF Outdated
  <1>12. Queue(todo)'
    BY <1>1 DEF Queue, StepType
  <1> QED BY <1>7, <1>8, <1>9, <1>10, <1>11, <1>12 DEF Inv

LEMMA HandlersKeep ==
    ASSUME Inv, NEW f \in File,
           s3fs_getattr(f) \/ s3fs_open(f) \/ s3fs_flush(f) \/ s3fs_unlink(f) \/ s3fs_truncate(f)
    PROVE  Inv'
  <1>0. ASSUME NEW s, Begin(s), Queue(s), OpensNothing(s, f), f \in opened PROVE Inv'
    <2>1. \A i \in DOMAIN s : s[i].do = "upload" => s[i].name \in opened
      BY <1>0 DEF OpensNothing
    <2> QED BY <1>0, <2>1, BeginKeeps
  <1>1. CASE s3fs_getattr(f)
    <2>1. f \in opened /\ Begin(<< Lookup(Dir), Lookup(f) >>)
      BY <1>1 DEF s3fs_getattr, check_parent_object_access
    <2> QED BY <1>0, <2>1, GetattrQueue
  <1>2. CASE s3fs_open(f)
    <2> DEFINE s == << Step("HasStat", f), Lookup(Dir), [Lookup(f) EXCEPT !.how = "create"],
                       [Lookup(f) EXCEPT !.how = "pin"], Step("opened", f) >>
    <2>1. Begin(s) /\ Queue(s) /\ Pending(s) /\ \A i \in DOMAIN s : s[i].do # "upload"
      BY <1>2, OpenQueue DEF s3fs_open, check_parent_object_access
    <2> HIDE DEF s
    <2> QED BY <2>1, BeginKeeps
  <1>3. CASE s3fs_flush(f)
    <2>1. f \in opened /\ Begin(FlushSteps(f))
      BY <1>3 DEF s3fs_flush
    <2> QED BY <1>0, <2>1, FlushQueue
  <1>4. CASE s3fs_unlink(f)
    <2> DEFINE s == << Lookup(Dir), Lookup(Dir), Step("remove", f), Step("DelStat", f) >>
    <2>1. f \in opened /\ Begin(s) /\ Queue(s) /\ OpensNothing(s, f)
      BY <1>4, UnlinkQueue DEF s3fs_unlink, check_parent_object_access
    <2> HIDE DEF s
    <2> QED BY <1>0, <2>1
  <1>5. CASE s3fs_truncate(f)
    <2> DEFINE s == << Lookup(Dir), Lookup(f), Lookup(f), Step("upload", f), Step("DelStat", f) >>
    <2>1. f \in opened /\ Begin(s) /\ Queue(s) /\ OpensNothing(s, f)
      BY <1>5, TruncateQueue DEF s3fs_truncate, check_parent_object_access
    <2> HIDE DEF s
    <2> QED BY <1>0, <2>1
  <1> QED BY <1>1, <1>2, <1>3, <1>4, <1>5

\* A step of a handler that is no lookup: what it must show of the cache.
LEMMA StepKeeps ==
    ASSUME Inv, todo # <<>>, Head(todo).do # "lookup", UNCHANGED << opt, now, at, failed, stuck >>,
           Queue(todo'), opened' \in SUBSET File,
           stat_cache' \in CacheType, EntriesOf(stat_cache'),
           Opening', Outdated'
    PROVE  Inv'
  <1>1. at = "GetStat"
    BY DEF Inv, Lookups
  <1>2. Lookups'
    BY <1>1 DEF Lookups
  <1>3. Queue(todo)'
    BY DEF Queue, StepType
  <1>4. TypeOK'
    BY DEF Inv, TypeOK, CacheType, EntryType
  <1>5. Entries'
    BY DEF EntriesOf, Entries
  <1> QED BY <1>2, <1>3, <1>4, <1>5 DEF Inv

\* The steps that are left after one that forgets no old stat.
LEMMA StepFollows ==
    ASSUME Queue(todo), todo # <<>>, Head(todo).do \notin {"HasStat", "refresh"}, todo' = Tail(todo) \/ todo' = <<>>
    PROVE  Queue(todo') /\ Follows(todo', todo)
  BY QueueTail, TailFollows, NothingLeft, NothingFollows

\* A step that leaves the entries of the cache as fresh and as pinned as they
\* are, or erases some.
LEMMA OpeningKeeps ==
    ASSUME Inv, Follows(todo', todo),
           \A k \in Key : stat_cache'[k] # None =>
              /\ stat_cache[k] # None /\ stat_cache'[k].noobjcache = stat_cache[k].noobjcache
              /\ stat_cache'[k].notruncate = stat_cache[k].notruncate /\ stat_cache'[k].fresh = stat_cache[k].fresh
    PROVE  Opening'
  <1>1. ASSUME ~Pending(todo'), NEW i \in DOMAIN todo', NEW k \in Key, stat_cache'[k] # None, k[1] = todo'[i].name
        PROVE  /\ todo'[i].do = "opened" => stat_cache'[k].fresh \/ stat_cache'[k].noobjcache
               /\ todo'[i].how = "pin" => stat_cache'[k].notruncate = 0
    <2>1. ~Pending(todo)
      <3>1. todo' # <<>>
        BY <1>1
      <3> QED BY <1>1, <3>1 DEF Follows
    <2>2. ASSUME todo'[i].do = "opened" PROVE stat_cache'[k].fresh \/ stat_cache'[k].noobjcache
      <3>1. PICK j \in DOMAIN todo : todo[j].do = "opened" /\ todo[j].name = todo'[i].name
        BY <2>2 DEF Follows
      <3>2. stat_cache[k].fresh \/ stat_cache[k].noobjcache
        BY <1>1, <2>1, <3>1 DEF Inv, Opening
      <3> QED BY <1>1, <3>2
    <2>3. ASSUME todo'[i].how = "pin" PROVE stat_cache'[k].notruncate = 0
      <3>1. PICK j \in DOMAIN todo : todo[j].how = "pin" /\ todo[j].name = todo'[i].name
        BY <2>3 DEF Follows
      <3>2. stat_cache[k].notruncate = 0
        BY <1>1, <2>1, <3>1 DEF Inv, Opening
      <3> QED BY <1>1, <3>2
    <2> QED BY <2>2, <2>3
  <1> QED BY <1>1 DEF Opening, Pending

\* The steps that forget no old stat and have less in the cache.
LEMMA LessKeeps ==
    ASSUME Inv, todo # <<>>, Head(todo).do \notin {"lookup", "HasStat", "refresh"},
           UNCHANGED << opt, now, at, failed, stuck >>, opened' \in SUBSET File, opened \subseteq opened',
           todo' = Tail(todo) \/ todo' = <<>>, Less(stat_cache, stat_cache'),
           \A k \in Key : stat_cache'[k] # None => stat_cache'[k].before # "changed"
    PROVE  Inv'
  <1>1. EntriesOf(stat_cache') /\ stat_cache' \in CacheType
    BY InvFacts, LessMoved DEF Less
  <1>2. Queue(todo') /\ Follows(todo', todo)
    BY StepFollows DEF Inv
  <1>3. Opening'
    BY <1>2, OpeningKeeps DEF Less, Same
  <1>4. Outdated'
    <2>1. \A k \in Key : stat_cache'[k] # None /\ stat_cache'[k].before = "uploaded" =>
             k[1] \in opened'
      BY DEF Inv, Outdated, Less, Same
    <2>2. \A i \in DOMAIN todo' : todo'[i].do = "upload" => todo'[i].name \in opened'
      BY <1>2 DEF Inv, Outdated, Follows
    <2> QED BY <2>1, <2>2 DEF Outdated
  <1> QED BY <1>1, <1>2, <1>3, <1>4, StepKeeps

\* When the old stat is forgotten the cache has no entry for the file, or a
\* negative one.
LEMMA RefreshKeeps ==
    ASSUME Inv, todo # <<>>, Head(todo).do \in {"HasStat", "refresh"}, todo' = Tail(todo),
           UNCHANGED << opt, now, opened, at, failed, stuck >>, Less(stat_cache, stat_cache'),
           \A k \in Key : k[1] = N /\ stat_cache'[k] # None =>
              stat_cache'[k].noobjcache /\ stat_cache'[k].notruncate = 0
    PROVE  Inv'
  <1>1. EntriesOf(stat_cache') /\ stat_cache' \in CacheType
    BY InvFacts, LessMoved DEF Less
  <1>2. Queue(todo') /\ \A i \in DOMAIN todo' : \E j \in DOMAIN todo : todo'[i] = todo[j]
    BY QueueTail DEF Inv
  <1>3. ASSUME NEW j \in DOMAIN todo, todo[j].do = "opened" \/ todo[j].how = "pin"
        PROVE  todo[j].name = N
    <2>1. Head(todo) = todo[1] /\ 1 \in DOMAIN todo
      BY InvFacts
    <2>2. ASSUME NEW i \in DOMAIN todo, todo[i].do = "opened" PROVE todo[i].name = N
      BY <2>1, <2>2 DEF Inv, Queue, N
    <2>3. CASE todo[j].do = "opened"
      BY <2>2, <2>3
    <2>4. CASE todo[j].how = "pin"
      <3>1. /\ todo \in Seq(StepType) /\ j < Len(todo)
            /\ todo[j + 1].do = "opened" /\ todo[j + 1].name = todo[j].name
        BY <2>4 DEF Inv, Queue
      <3>2. j + 1 \in DOMAIN todo
        BY <3>1
      <3> QED BY <2>2, <3>1, <3>2
    <2> QED BY <1>3, <2>3, <2>4
  <1>4. Opening'
    <2>1. ASSUME NEW i \in DOMAIN todo', NEW k \in Key, stat_cache'[k] # None, k[1] = todo'[i].name
          PROVE  /\ todo'[i].do = "opened" => stat_cache'[k].fresh \/ stat_cache'[k].noobjcache
                 /\ todo'[i].how = "pin" => stat_cache'[k].notruncate = 0
      <3>1. PICK j \in DOMAIN todo : todo'[i] = todo[j]
        BY <1>2
      <3> QED BY <1>3, <2>1, <3>1
    <2> QED BY <2>1 DEF Opening
  <1>5. Outdated'
    <2>1. \A k \in Key : stat_cache'[k] # None =>
             /\ stat_cache'[k].before # "changed"
             /\ stat_cache'[k].before = "uploaded" => k[1] \in opened'
      BY DEF Inv, Outdated, Less, Same
    <2>2. \A i \in DOMAIN todo' : todo'[i].do = "upload" => todo'[i].name \in opened'
      BY <1>2 DEF Inv, Outdated
    <2> QED BY <2>1, <2>2 DEF Outdated
  <1> QED BY <1>1, <1>2, <1>4, <1>5, StepKeeps DEF Inv, TypeOK

\* A stat HasStat finds is flushed and forgotten before it matters; otherwise
\* there is none, or a negative one.
LEMMA HasStatKeeps == ASSUME Inv, HasStat PROVE Inv'
  <1> DEFINE got == GetStat(stat_cache, N)
             d == got.cache
  <1>1. /\ todo # <<>> /\ Head(todo).do = "HasStat"
        /\ UNCHANGED << opt, now, opened, at, failed, stuck >>
        /\ stat_cache' = d
        /\ todo' = IF got.hit THEN FlushSteps(N) \o << Step("refresh", N) >> \o Tail(todo) ELSE Tail(todo)
    BY DEF HasStat, Doing
  <1>2. now \in Nat /\ stat_cache \in CacheType /\ EntriesOf(stat_cache) /\ N \in Name
    BY <1>1, InvFacts
  <1>3. Less(stat_cache, d)
    BY <1>2, GetStatIs
  <1>4. EntriesOf(d) /\ d \in CacheType
    BY <1>2, <1>3, LessMoved DEF Less
  <1>5. CASE got.hit
    <2>1. Queue(todo') /\ Follows(todo', todo) /\ Pending(todo')
      BY <1>1, <1>5, HasStatFollows DEF Inv, N
    <2>2. Opening'
      BY <2>1 DEF Opening, Pending
    <2>3. Outdated'
      <3>1. \A k \in Key : stat_cache'[k] # None =>
               /\ stat_cache'[k].before # "changed"
               /\ stat_cache'[k].before = "uploaded" => k[1] \in opened'
        BY <1>1, <1>3 DEF Inv, Outdated, Less, Same
      <3>2. \A i \in DOMAIN todo' : todo'[i].do = "upload" => todo'[i].name \in opened'
        BY <1>1, <2>1 DEF Inv, Outdated, Follows
      <3> QED BY <3>1, <3>2 DEF Outdated
    <2>4. opened' \in SUBSET File
      BY <1>1 DEF Inv, TypeOK
    <2> HIDE DEF d, got
    <2> QED BY <1>1, <1>4, <2>1, <2>2, <2>3, <2>4, StepKeeps
  <1>6. CASE ~got.hit
    <2> DEFINE j == Find(d, N)
    <2>1. (d[j] # None => d[j].noobjcache) /\ j \in Key /\ j[1] = N
      BY <1>2, <1>6, GetStatIs, FindIs
    <2>2. d[j] = None => \A k \in Key : k[1] = N => d[k] = None
      BY <1>2, FindIs
    <2>3. ASSUME NEW k \in Key, k[1] = N, d[k] # None
          PROVE  d[k].noobjcache /\ d[k].notruncate = 0
      <3>1. d[j] # None
        BY <2>2, <2>3
      <3>2. j[2] = "path"
        BY <1>4, <2>1, <3>1 DEF EntriesOf
      <3>3. j = << N, "path" >>
        BY <1>2, <2>1, <3>2, KeysOf
      <3>4. d[<< N, "path/" >>] = None
        BY <1>2, <1>4, <3>1, <3>3 DEF EntriesOf
      <3>5. k = j
        BY <2>3, <3>3, <3>4, KeysOf
      <3> HIDE DEF d, j
      <3> QED BY <1>4, <2>1, <2>3, <3>5 DEF EntriesOf
    <2> HIDE DEF d
    <2> QED BY <1>1, <1>3, <1>6, <2>3, RefreshKeeps
  <1> QED BY <1>5, <1>6

\* An entry of the file that is open or to be deleted is marked, whatever else
\* the step has left.
LEMMA OutdateKeeps ==
    ASSUME Inv, todo # <<>>, Head(todo).do \in {"remove", "upload", "flush", "opened"},
           todo' = Tail(todo) \/ todo' = <<>>, UNCHANGED << opt, now, at, failed, stuck >>,
           opened' \in SUBSET File, opened \subseteq opened',
           NEW how \in {"changed", "uploaded"}, stat_cache' = Outdate(N, how),
           how = "changed" => Head(todo).do \in {"remove", "upload"} /\ todo' = Tail(todo),
           how # "changed" => N \in opened'
    PROVE  Inv'
  <1> DEFINE new(k) == [stat_cache[k] EXCEPT !.before = how]
  <1>1. stat_cache \in CacheType /\ EntriesOf(stat_cache) /\ N \in Name /\ Head(todo) = todo[1] /\ 1 \in DOMAIN todo
    BY InvFacts
  <1>2. stat_cache' = [k \in Key |-> IF k[1] = N /\ stat_cache[k] # None THEN new(k) ELSE stat_cache[k]]
    BY DEF Outdate
  <1>3. ASSUME NEW k \in Key, stat_cache[k] # None
        PROVE  /\ new(k) \in EntryType /\ new(k).noobjcache = stat_cache[k].noobjcache
               /\ new(k).notruncate = stat_cache[k].notruncate /\ new(k).fresh = stat_cache[k].fresh
               /\ new(k).before = how
    <2>1. stat_cache[k] \in EntryType
      BY <1>1, <1>3 DEF CacheType
    <2> QED BY <2>1 DEF EntryType
  <1> HIDE DEF new
  <1>4. /\ stat_cache' \in CacheType
        /\ \A k \in Key : stat_cache[k] = None => stat_cache'[k] = None
        /\ \A k \in Key : stat_cache'[k] # None =>
              /\ stat_cache[k] # None /\ stat_cache'[k].noobjcache = stat_cache[k].noobjcache
              /\ stat_cache'[k].notruncate = stat_cache[k].notruncate /\ stat_cache'[k].fresh = stat_cache[k].fresh
              /\ stat_cache'[k].before = IF k[1] = N THEN how ELSE stat_cache[k].before
    <2>1. stat_cache' \in CacheType
      BY <1>1, <1>2, <1>3 DEF CacheType
    <2>2. \A k \in Key : stat_cache'[k] # None =>
              /\ stat_cache[k] # None /\ stat_cache'[k].noobjcache = stat_cache[k].noobjcache
              /\ stat_cache'[k].notruncate = stat_cache[k].notruncate /\ stat_cache'[k].fresh = stat_cache[k].fresh
      BY <1>2, <1>3
    <2>3. \A k \in Key : stat_cache'[k] # None /\ k[1] # N => stat_cache'[k] = stat_cache[k]
      BY <1>2
    <2>4. \A k \in Key : stat_cache'[k] # None /\ k[1] = N => stat_cache'[k].before = how
      BY <1>2, <1>3
    <2> QED BY <1>2, <2>1, <2>2, <2>3, <2>4
  <1>5. EntriesOf(stat_cache')
    BY <1>1, <1>4, KeysOf DEF EntriesOf
  <1>6. Queue(todo') /\ Follows(todo', todo)
    BY StepFollows DEF Inv
  <1>7. Outdated'
    <2>1. ASSUME how = "changed" PROVE todo' # <<>> /\ Head(todo') = Step("DelStat", N)
      <3>1. todo \in Seq(StepType) /\ 1 < Len(todo) /\ todo[2] = Step("DelStat", N)
        BY <1>1, <2>1 DEF Inv, Queue, N
      <3>2. /\ Tail(todo) \in Seq(StepType) /\ Len(Tail(todo)) = Len(todo) - 1 /\ Len(todo) \in Nat
            /\ \A i \in 1 .. (Len(todo) - 1) : Tail(todo)[i] = todo[i + 1]
        BY <3>1, RestIs
      <3> DEFINE q == Tail(todo)
      <3>3. q \in Seq(StepType) /\ Len(q) # 0 /\ q[1] = todo[2]
        BY <3>1, <3>2
      <3> HIDE DEF q
      <3>4. q # <<>> /\ Head(q) = q[1]
        BY <3>3
      <3> QED BY <2>1, <3>1, <3>3, <3>4 DEF q
    <2>2. ASSUME NEW k \in Key, stat_cache'[k] # None
          PROVE  /\ stat_cache'[k].before = "changed" =>
                       todo' # <<>> /\ Head(todo').do = "DelStat" /\ Head(todo').name = k[1]
                 /\ stat_cache'[k].before = "uploaded" => k[1] \in opened'
      <3>1. CASE k[1] = N
        BY <1>4, <2>1, <2>2, <3>1, StepIs
      <3>2. CASE k[1] # N
        BY <1>4, <2>2, <3>2 DEF Inv, Outdated
      <3> QED BY <3>1, <3>2
    <2>3. \A i \in DOMAIN todo' : todo'[i].do = "upload" => todo'[i].name \in opened'
      BY <1>6 DEF Inv, Outdated, Follows
    <2> QED BY <2>2, <2>3 DEF Outdated
  <1>8. Opening'
    BY <1>4, <1>6, OpeningKeeps
  <1> QED BY <1>4, <1>5, <1>6, <1>7, <1>8, StepKeeps

LEMMA OpenedKeeps == ASSUME Inv, Opened PROVE Inv'
  <1>1. /\ todo # <<>> /\ Head(todo).do = "opened" /\ todo' = Tail(todo)
        /\ UNCHANGED << opt, now, at, failed, stuck >>
        /\ \/ stat_cache' = DelStat(stat_cache, N) /\ opened' = opened
           \/ stat_cache' = stat_cache /\ opened' = opened \cup {N}
           \/ stat_cache' = Outdate(N, "uploaded") /\ opened' = opened \cup {N}
    BY DEF Opened, Replaced, Doing
  <1>2. stat_cache \in CacheType /\ N \in Name /\ Head(todo) = todo[1] /\ 1 \in DOMAIN todo
    BY <1>1, InvFacts
  <1>3. N \in File
    BY <1>1, <1>2 DEF Inv, Queue, N
  <1>4. opened' \in SUBSET File /\ opened \subseteq opened'
    BY <1>1, <1>3 DEF Inv, TypeOK
  <1>5. CASE stat_cache' = DelStat(stat_cache, N) \/ stat_cache' = stat_cache
    <2>1. Less(stat_cache, stat_cache')
      BY <1>2, <1>5, DelStatIs, LessSelf
    <2>2. \A k \in Key : stat_cache'[k] # None => stat_cache'[k].before # "changed"
      BY <1>1, <2>1 DEF Inv, Outdated, Less, Same
    <2> QED BY <1>1, <1>4, <2>1, <2>2, LessKeeps
  <1>6. CASE stat_cache' = Outdate(N, "uploaded") /\ opened' = opened \cup {N}
    BY <1>1, <1>4, <1>6, OutdateKeeps
  <1> QED BY <1>1, <1>5, <1>6

\* DelStat of the path whose entries are outdated.
LEMMA ForgetKeeps == ASSUME Inv, Forget PROVE Inv'
  <1>1. /\ todo # <<>> /\ Head(todo).do \in {"DelStat", "refresh"} /\ todo' = Tail(todo)
        /\ UNCHANGED << opt, now, opened, at, failed, stuck >> /\ stat_cache' = DelStat(stat_cache, N)
    BY DEF Forget, Doing
  <1>2. stat_cache \in CacheType /\ N \in Name
    BY <1>1, InvFacts
  <1>3. /\ Less(stat_cache, stat_cache')
        /\ \A k \in Key : stat_cache'[k] = IF k[1] = N THEN None ELSE stat_cache[k]
    BY <1>1, <1>2, DelStatIs
  <1>4. CASE Head(todo).do = "DelStat"
    <2>1. \A k \in Key : stat_cache'[k] # None => stat_cache'[k].before # "changed"
      BY <1>1, <1>3 DEF Inv, Outdated, N
    <2>2. opened' \in SUBSET File /\ opened \subseteq opened'
      BY <1>1 DEF Inv, TypeOK
    <2> QED BY <1>1, <1>3, <1>4, <2>1, <2>2, LessKeeps
  <1>5. CASE Head(todo).do = "refresh"
    BY <1>1, <1>3, <1>5, RefreshKeeps
  <1> QED BY <1>1, <1>4, <1>5

\* The steps that change the object.
LEMMA ChangeKeeps == ASSUME Inv, Remove \/ Upload \/ Flush PROVE Inv'
  <1>1. /\ todo # <<>> /\ Head(todo).do \in {"remove", "upload", "flush"}
        /\ UNCHANGED << opt, now, opened, at, failed, stuck >>
    BY DEF Remove, Upload, Flush, Doing
  <1>2. opened' \in SUBSET File /\ opened \subseteq opened' /\ Head(todo) = todo[1] /\ 1 \in DOMAIN todo
    BY <1>1, InvFacts DEF Inv, TypeOK
  <1>3. CASE stat_cache' = stat_cache /\ (todo' = Tail(todo) \/ todo' = <<>>)
    <2>1. Less(stat_cache, stat_cache')
      BY <1>3, InvFacts, LessSelf
    <2>2. \A k \in Key : stat_cache'[k] # None => stat_cache'[k].before # "changed"
      BY <1>1, <1>3 DEF Inv, Outdated
    <2> QED BY <1>1, <1>2, <1>3, <2>1, <2>2, LessKeeps
  <1>4. CASE Remove
    <2>1. Head(todo).do = "remove" /\ todo' = Tail(todo)
          /\ (stat_cache' = Outdate(N, "changed") \/ stat_cache' = stat_cache)
      BY <1>4 DEF Remove, Doing
    <2>2. CASE stat_cache' = Outdate(N, "changed")
      BY <1>1, <1>2, <2>1, <2>2, OutdateKeeps
    <2> QED BY <1>3, <2>1, <2>2
  <1>5. CASE Upload
    <2>1. /\ Head(todo).do = "upload"
          /\ \/ stat_cache' = Outdate(N, "changed") /\ todo' = Tail(todo)
             \/ stat_cache' = Outdate(N, "uploaded") /\ todo' = <<>>
             \/ stat_cache' = stat_cache /\ todo' = <<>>
      BY <1>5 DEF Upload, Replaced, Doing
    <2>2. N \in opened'
      BY <1>1, <1>2, <2>1 DEF Inv, Outdated, N
    <2>3. CASE stat_cache' = Outdate(N, "changed") /\ todo' = Tail(todo)
      BY <1>1, <1>2, <2>1, <2>3, OutdateKeeps
    <2>4. CASE stat_cache' = Outdate(N, "uploaded") /\ todo' = <<>>
      BY <1>1, <1>2, <2>2, <2>4, OutdateKeeps
    <2> QED BY <1>3, <2>1, <2>3, <2>4
  <1>6. CASE Flush
    <2>1. todo' = Tail(todo) /\ (stat_cache' = stat_cache \/ (stat_cache' = Outdate(N, "uploaded") /\ N \in opened))
      BY <1>6 DEF Flush, Replaced
    <2>2. CASE stat_cache' = Outdate(N, "uploaded") /\ N \in opened
      BY <1>1, <1>2, <2>1, <2>2, OutdateKeeps
    <2> QED BY <1>3, <2>1, <2>2
  <1> QED BY <1>4, <1>5, <1>6

LEMMA TickKeeps == ASSUME Inv, Tick PROVE Inv'
  <1>1. now' = now + 1 /\ now < MaxTime /\ UNCHANGED << opt, stat_cache, there, opened, todo, at, failed, stuck >>
    BY DEF Tick
  <1>2. now \in 0 .. MaxTime /\ now' \in 0 .. MaxTime /\ now \in Nat
    BY <1>1, StatCacheSizes DEF Inv, TypeOK
  <1>3. stat_cache' \in CacheType'
    <2>1. stat_cache \in CacheType
      BY InvFacts
    <2>2. \A e \in EntryType : e \in EntryType'
      BY <1>1, <1>2 DEF EntryType
    <2> QED BY <1>1, <2>1, <2>2 DEF CacheType
  <1>4. TypeOK'
    BY <1>1, <1>2, <1>3 DEF Inv, TypeOK, CacheType, EntryType
  <1>5. Queue(todo)' /\ Lookups'
    BY <1>1 DEF Inv, Queue, Lookups, Find, N
  <1>6. Entries' /\ Opening' /\ Outdated'
    BY <1>1 DEF Inv, Entries, Opening, Outdated
  <1> QED BY <1>4, <1>5, <1>6 DEF Inv
-----------------------------------------------------------------------------
LEMMA InvInit == Init => Inv
  <1> SUFFICES ASSUME Init PROVE Inv
    OBVIOUS
  <1>1. /\ stat_cache = [k \in Key |-> None] /\ now = 0 /\ todo = <<>> /\ at = "GetStat"
        /\ failed = "ok" /\ opened = {} /\ stuck = FALSE
    BY DEF Init
  <1>2. \A k \in Key : stat_cache[k] = None
    BY <1>1
  <1>3. TypeOK
    <2>1. now \in 0 .. MaxTime
      BY <1>1, StatCacheSizes
    <2> QED BY <1>1, <2>1 DEF Init, TypeOK
  <1>4. Queue(todo) /\ Lookups
    BY <1>1, NothingLeft DEF Lookups
  <1>5. Entries /\ Opening /\ Outdated
    BY <1>1, <1>2, KeysOf DEF Entries, Opening, Outdated
  <1> QED BY <1>3, <1>4, <1>5 DEF Inv

LEMMA InvStep == Inv /\ [Next]_vars => Inv'
  <1> SUFFICES ASSUME Inv, [Next]_vars PROVE Inv'
    OBVIOUS
  <1>1. CASE LookupGetStat
    BY <1>1, GetStatKeeps
  <1>2. CASE IsNoObjectCache
    BY <1>2, NoObjectKeeps
  <1>3. CASE HeadRequest
    BY <1>3, HeadKeeps
  <1>4. CASE directory_empty
    BY <1>4, EmptyKeeps
  <1>5. CASE HasStat
    BY <1>5, HasStatKeeps
  <1>6. CASE Opened
    BY <1>6, OpenedKeeps
  <1>7. CASE Remove \/ Upload \/ Flush
    BY <1>7, ChangeKeeps
  <1>8. CASE Forget
    BY <1>8, ForgetKeeps
  <1>9. CASE \E f \in File :
                s3fs_getattr(f) \/ s3fs_open(f) \/ s3fs_flush(f) \/ s3fs_unlink(f) \/ s3fs_truncate(f)
    BY <1>9, HandlersKeep
  <1>10. CASE Tick
    BY <1>10, TickKeeps
  <1>11. CASE UNCHANGED << opt, stat_cache, now, opened, todo, at, failed, stuck >>
    <2>1. TypeOK' /\ Queue(todo)' /\ Lookups'
      BY <1>11 DEF Inv, TypeOK, Queue, Lookups, Find, N
    <2>2. Entries' /\ Opening' /\ Outdated'
      BY <1>11 DEF Inv, Entries, Opening, Outdated
    <2> QED BY <2>1, <2>2 DEF Inv
  <1> QED
    BY <1>1, <1>2, <1>3, <1>4, <1>5, <1>6, <1>7, <1>8, <1>9, <1>10, <1>11 DEF Next, Thread, Others, vars

LEMMA InvAlways == Spec => []Inv
  BY InvInit, InvStep, PTL DEF Spec

\* The state of the cache, the clock and the lookup has its type at any time;
\* the count that pins an entry never exceeds one and is never lowered below
\* 0, as ChangeNoTruncateFlag requires of its callers.
THEOREM StatCacheTypes == Spec => []TypeOK
  BY InvAlways, PTL DEF Inv

\* When s3fs_open uses the attributes of the file, what the cache says of it
\* was added by this very call of s3fs_open, or is a negative entry.
THEOREM OpensAreFresh == Spec => []OpenIsFresh
  <1>1. Inv => OpenIsFresh
    <2> SUFFICES ASSUME Inv, Doing("opened"), stat_cache[Find(stat_cache, N)] # None
                 PROVE  stat_cache[Find(stat_cache, N)].fresh \/ stat_cache[Find(stat_cache, N)].noobjcache
      BY DEF OpenIsFresh
    <2> DEFINE k == Find(stat_cache, N)
    <2>1. todo # <<>> /\ Head(todo).do = "opened"
      BY DEF Doing
    <2>2. N \in Name /\ Head(todo) = todo[1] /\ 1 \in DOMAIN todo
      BY <2>1, InvFacts
    <2>3. k \in Key /\ k[1] = N
      BY <2>2, FindIs
    <2>4. ~Pending(todo)
      BY <2>1, PinIsLate DEF Inv
    <2> QED BY <2>1, <2>2, <2>3, <2>4 DEF Inv, Opening, N
  <1> QED BY <1>1, InvAlways, PTL

\* Between handlers no entry of the cache is older than a deletion of its
\* object by s3fs_unlink or an acknowledged s3fs_truncate, and one that is
\* older than another upload of the process is that of an open file.
THEOREM OwnChangesAreSeen == Spec => []OwnChangesSeen
  <1>1. Inv => OwnChangesSeen
    <2> SUFFICES ASSUME Inv, todo = <<>>, NEW k \in Keys(stat_cache)
                 PROVE  stat_cache[k].before = "no" \/ (stat_cache[k].before # "changed" /\ k[1] \in opened)
      BY DEF OwnChangesSeen
    <2>1. k \in Key /\ stat_cache[k] # None
      BY DEF Keys
    <2>2. stat_cache[k].before \in {"no", "changed", "uploaded"}
      BY <2>1, InvFacts DEF CacheType, EntryType
    <2> QED BY <2>1, <2>2 DEF Inv, Outdated
  <1> QED BY <1>1, InvAlways, PTL
-----------------------------------------------------------------------------
(***************************************************************************)
(* The size of the cache.                                                  *)
(***************************************************************************)
\* A set of numbers that is not empty has a least one.
LEMMA LeastNumber ==
    ASSUME NEW T \in SUBSET Nat, T # {}
    PROVE  \E x \in T : \A y \in T : x <= y
  <1>1. PICK x \in T : \A y \in T : << y, x >> \notin OpToRel(<, Nat)
    BY NatLessThanWellFounded, WFMin
  <1>2. \A y \in T : y \in Nat /\ x \in Nat
    OBVIOUS
  <1>3. \A y \in T : ~(y < x)
    BY <1>1, <1>2 DEF OpToRel
  <1> QED BY <1>2, <1>3

\* The keys have different places in the map.
LEMMA PlacesDiffer ==
    /\ IsFiniteSet(Key)
    /\ \A k \in Key : Place(k) \in Nat
    /\ \A j, k \in Key : Place(j) = Place(k) => j = k
  <1> DEFINE nr(n) == IF n = Dir THEN 0 ELSE CHOOSE i \in DOMAIN Files : Files[i] = n
  <1>1. DOMAIN Files = 1 .. Len(Files) /\ Len(Files) \in Nat
    BY StatCacheFiles
  <1>2. ASSUME NEW n \in Name
        PROVE  nr(n) \in 0 .. Len(Files) /\ (n # Dir => nr(n) # 0 /\ Files[nr(n)] = n) /\ (n = Dir => nr(n) = 0)
    <2>1. CASE n = Dir
      BY <1>1, <2>1
    <2>2. CASE n # Dir
      <3>1. \E i \in DOMAIN Files : Files[i] = n
        BY <2>2 DEF Name, File
      <3>2. nr(n) \in DOMAIN Files /\ Files[nr(n)] = n
        BY <2>2, <3>1
      <3> HIDE DEF nr
      <3> QED BY <1>1, <2>2, <3>2
    <2> QED BY <2>1, <2>2
  <1>3. \A k \in Key : Place(k) = 2 * nr(k[1]) + (IF k[2] = "path/" THEN 1 ELSE 0)
    BY DEF Place
  <1> HIDE DEF nr
  <1>4. \A k \in Key : Place(k) \in 0 .. (2 * Len(Files) + 1) /\ Place(k) \in Nat
    BY <1>1, <1>2, <1>3, KeysOf
  <1>5. ASSUME NEW j \in Key, NEW k \in Key, Place(j) = Place(k) PROVE j = k
    <2>1. PICK n \in Name, s \in {"path", "path/"} : j = << n, s >>
      BY DEF Key
    <2>2. PICK m \in Name, t \in {"path", "path/"} : k = << m, t >>
      BY DEF Key
    <2>3. j[1] = n /\ j[2] = s /\ k[1] = m /\ k[2] = t
      BY <2>1, <2>2
    <2>4. nr(n) \in Nat /\ nr(m) \in Nat
      BY <1>1, <1>2
    <2>5. 2 * nr(n) + (IF s = "path/" THEN 1 ELSE 0) = 2 * nr(m) + (IF t = "path/" THEN 1 ELSE 0)
      BY <1>3, <1>5, <2>3
    <2>6. nr(n) = nr(m) /\ s = t
      BY <2>4, <2>5
    <2>7. n = m
      BY <1>2, <2>6
    <2> QED BY <2>1, <2>2, <2>6, <2>7
  <1>6. IsFiniteSet(Key)
    <2> DEFINE f == [k \in Key |-> Place(k)]
               T == 0 .. (2 * Len(Files) + 1)
    <2>1. f \in Injection(Key, T)
      BY <1>4, <1>5 DEF Injection, IsInjective
    <2>2. IsFiniteSet(T)
      BY <1>1, FS_Interval
    <2> HIDE DEF f, T
    <2> QED BY <2>1, <2>2, FS_Injection
  <1> QED BY <1>4, <1>5, <1>6

LEMMA KeysCount ==
    ASSUME NEW c
    PROVE  IsFiniteSet(Keys(c)) /\ Cardinality(Keys(c)) \in Nat
  <1>1. Keys(c) \in SUBSET Key /\ IsFiniteSet(Key)
    BY PlacesDiffer DEF Keys
  <1> QED BY <1>1, FS_Subset, FS_CardinalityType

LEMMA FewerKeys ==
    ASSUME NEW c, NEW d, Keys(d) \subseteq Keys(c)
    PROVE  Cardinality(Keys(d)) <= Cardinality(Keys(c))
  BY KeysCount, FS_Subset

LEMMA LessKeys == ASSUME NEW c, NEW d, Less(c, d) PROVE Keys(d) \subseteq Keys(c)
  BY DEF Less, Keys

\* There is an entry that no other is older than.
LEMMA OneIsOldest ==
    ASSUME now \in Nat, NEW c \in CacheType, Keys(c) # {}
    PROVE  \E k \in Keys(c) : \A j \in Keys(c) : ~Older(c, j, k)
  <1> DEFINE K == Keys(c)
             Date == {c[k].cache_date : k \in K}
  <1>1. \A k \in K : k \in Key /\ c[k].cache_date \in Nat /\ c[k].hit_count \in Nat /\ Place(k) \in Nat
    BY PlacesDiffer DEF CacheType, EntryType, Keys
  <1> HIDE DEF K
  <1>2. PICK k1 \in K : \A j \in K : c[k1].cache_date <= c[j].cache_date
    <2>1. Date \in SUBSET Nat /\ Date # {}
      BY <1>1 DEF K
    <2>2. PICK x \in Date : \A y \in Date : x <= y
      BY <2>1, LeastNumber
    <2> QED BY <2>2
  <1> DEFINE K1 == {k \in K : c[k].cache_date = c[k1].cache_date}
             Hits == {c[k].hit_count : k \in K1}
  <1>3. PICK k2 \in K1 : \A j \in K1 : c[k2].hit_count <= c[j].hit_count
    <2>1. Hits \in SUBSET Nat /\ Hits # {}
      BY <1>1, <1>2
    <2>2. PICK x \in Hits : \A y \in Hits : x <= y
      BY <2>1, LeastNumber
    <2> QED BY <2>2
  <1> DEFINE K2 == {k \in K1 : c[k].hit_count = c[k2].hit_count}
             Places == {Place(k) : k \in K2}
  <1>4. PICK k3 \in K2 : \A j \in K2 : Place(k3) <= Place(j)
    <2>1. Places \in SUBSET Nat /\ Places # {}
      BY <1>1, <1>3
    <2>2. PICK x \in Places : \A y \in Places : x <= y
      BY <2>1, LeastNumber
    <2> QED BY <2>2
  <1>5. ASSUME NEW j \in K PROVE ~Older(c, j, k3)
    <2>1. /\ c[j].cache_date \in Nat /\ c[j].hit_count \in Nat /\ Place(j) \in Nat
          /\ c[k3].cache_date \in Nat /\ c[k3].hit_count \in Nat /\ Place(k3) \in Nat
      BY <1>1
    <2>2. c[k3].cache_date <= c[j].cache_date
      BY <1>2
    <2>3. c[j].cache_date = c[k3].cache_date => c[k3].hit_count <= c[j].hit_count
      BY <1>3
    <2>4. c[j].cache_date = c[k3].cache_date /\ c[j].hit_count = c[k3].hit_count => Place(k3) <= Place(j)
      BY <1>4
    <2> QED BY <2>1, <2>2, <2>3, <2>4 DEF Older
  <1> QED BY <1>5 DEF K

\* The loop of TruncateCache counts the first entry of the map, marked or not,
\* if there are more than CacheSize.
LEMMA OneIsCounted ==
    ASSUME NEW c, Cardinality(Keys(c)) > CacheSize
    PROVE  EraseCount(c) \in Nat /\ EraseCount(c) > 0
  <1> DEFINE K == Keys(c)
             wanted == Cardinality(K) + 1 - CacheSize
             seen(k) == {j \in K : Place(j) <= Place(k)}
             marked(k) == {j \in seen(k) : c[j].notruncate > 0}
             counted == {k \in K : Cardinality(seen(k)) + Cardinality(marked(k)) <= wanted}
             Places == {Place(k) : k \in K}
  <1>1. IsFiniteSet(K) /\ Cardinality(K) \in Nat /\ CacheSize \in Nat /\ K \subseteq Key
    BY KeysCount, StatCacheSizes DEF Keys
  <1>2. K # {}
    BY <1>1, FS_EmptySet
  <1>3. PICK k \in K : \A j \in K : Place(k) <= Place(j)
    <2>1. Places \in SUBSET Nat /\ Places # {}
      BY <1>1, <1>2, PlacesDiffer
    <2>2. PICK x \in Places : \A y \in Places : x <= y
      BY <2>1, LeastNumber
    <2> QED BY <2>2
  <1>4. seen(k) = {k}
    <2>1. ASSUME NEW j \in K, Place(j) <= Place(k) PROVE j = k
      <3>1. Place(j) \in Nat /\ Place(k) \in Nat /\ Place(k) <= Place(j)
        BY <1>1, <1>3, PlacesDiffer
      <3>2. Place(j) = Place(k)
        BY <2>1, <3>1
      <3> QED BY <1>1, <3>2, PlacesDiffer
    <2>2. Place(k) <= Place(k)
      BY <1>3
    <2> QED BY <2>1, <2>2
  <1>5. IsFiniteSet({k}) /\ Cardinality({k}) = 1
    BY FS_Singleton
  <1>6. Cardinality(seen(k)) = 1
    BY <1>4, <1>5, Zenon
  <1>7. Cardinality(marked(k)) \in Nat /\ Cardinality(marked(k)) <= 1
    <2>1. marked(k) \in SUBSET {k}
      BY <1>4
    <2> HIDE DEF marked
    <2> QED BY <1>5, <2>1, FS_Subset, FS_CardinalityType
  <1>8. Cardinality(seen(k)) + Cardinality(marked(k)) <= wanted
    <2> HIDE DEF seen, marked
    <2> QED BY <1>1, <1>6, <1>7
  <1>9. k \in counted /\ counted \in SUBSET K
    BY <1>8
  <1>10. EraseCount(c) = Cardinality(counted)
    BY DEF EraseCount
  <1> HIDE DEF counted, K
  <1>11. IsFiniteSet(counted) /\ counted # {}
    BY <1>1, <1>9, FS_Subset
  <1>12. Cardinality(counted) \in Nat /\ Cardinality(counted) # 0
    BY <1>11, FS_CardinalityType, FS_EmptySet
  <1> QED BY <1>10, <1>12

LEMMA OldestGoes ==
    ASSUME now \in Nat, NEW c \in CacheType, Cardinality(Keys(c)) > CacheSize
    PROVE  Cardinality(Keys(EraseOldest(c))) < Cardinality(Keys(c))
  <1>1. /\ IsFiniteSet(Keys(c)) /\ Cardinality(Keys(c)) \in Nat /\ CacheSize \in Nat
        /\ Cardinality(Keys(EraseOldest(c))) \in Nat
    BY KeysCount, StatCacheSizes
  <1>2. Keys(c) # {}
    BY <1>1, FS_EmptySet
  <1>3. PICK k \in Keys(c) : \A j \in Keys(c) : ~Older(c, j, k)
    BY <1>2, OneIsOldest
  <1>4. Cardinality({j \in Keys(c) : Older(c, j, k)}) < EraseCount(c)
    <2>1. {j \in Keys(c) : Older(c, j, k)} = {}
      BY <1>3
    <2>2. Cardinality({j \in Keys(c) : Older(c, j, k)}) = 0
      BY <2>1, FS_EmptySet, Zenon
    <2>3. EraseCount(c) \in Nat /\ EraseCount(c) > 0
      BY OneIsCounted
    <2> QED BY <2>2, <2>3
  <1>5. EraseOldest(c)[k] = None
    BY <1>3, <1>4 DEF EraseOldest, Keys
  <1>6. Keys(EraseOldest(c)) \in SUBSET (Keys(c) \ {k})
    BY <1>5, EraseLess, LessKeys DEF Keys
  <1>7. IsFiniteSet(Keys(c) \ {k}) /\ Cardinality(Keys(c) \ {k}) = Cardinality(Keys(c)) - 1
    BY <1>1, <1>3, FS_RemoveElement
  <1>8. Cardinality(Keys(EraseOldest(c))) <= Cardinality(Keys(c)) - 1
    BY <1>6, <1>7, FS_Subset
  <1> QED BY <1>1, <1>8

LEMMA RoomIsMade ==
    ASSUME now \in Nat, NEW c \in CacheType, NEW k \in Key, Cardinality(Keys(c)) <= CacheSize + 1
    PROVE  Cardinality(Keys(MakeRoom(c, k))) <= CacheSize
  <1> DEFINE x == EraseExpired(c)
  <1>1. \A d : Cardinality(Keys(d)) \in Nat /\ IsFiniteSet(Keys(d))
    BY KeysCount
  <1>2. CacheSize \in Nat
    BY StatCacheSizes
  <1>3. CASE c[k] # None
    <2> DEFINE d == DelStat(c, k[1])
    <2>1. d[k] = None /\ Keys(d) \subseteq Keys(c)
      BY KeysOf, DelStatIs, LessKeys
    <2>2. k \in Keys(c) /\ Keys(d) \in SUBSET (Keys(c) \ {k})
      BY <1>3, <2>1 DEF Keys
    <2>3. IsFiniteSet(Keys(c) \ {k}) /\ Cardinality(Keys(c) \ {k}) = Cardinality(Keys(c)) - 1
      BY <1>1, <2>2, FS_RemoveElement
    <2>4. Cardinality(Keys(d)) <= Cardinality(Keys(c)) - 1
      BY <2>2, <2>3, FS_Subset
    <2>5. MakeRoom(c, k) = d
      BY <1>3 DEF MakeRoom
    <2> HIDE DEF d
    <2> QED BY <1>1, <1>2, <2>4, <2>5
  <1>4. CASE c[k] = None /\ Cardinality(Keys(c)) > CacheSize
    <2>1. Less(c, x) /\ x \in CacheType
      BY EraseLess DEF Less
    <2>2. Cardinality(Keys(x)) <= Cardinality(Keys(c))
      BY <2>1, LessKeys, FewerKeys
    <2>3. Cardinality(Keys(EraseOldest(x))) <= Cardinality(Keys(x))
      BY <2>1, EraseLess, LessKeys, FewerKeys
    <2>4. Cardinality(Keys(x)) > CacheSize => Cardinality(Keys(EraseOldest(x))) < Cardinality(Keys(x))
      BY <2>1, OldestGoes
    <2>5. MakeRoom(c, k) = IF Cardinality(Keys(x)) < CacheSize THEN x ELSE EraseOldest(x)
      BY <1>4 DEF MakeRoom, TruncateCache
    <2> HIDE DEF x
    <2>6. CASE Cardinality(Keys(x)) < CacheSize
      <3>1. MakeRoom(c, k) = x
        BY <2>5, <2>6
      <3> QED BY <1>1, <1>2, <2>6, <3>1
    <2>7. CASE ~(Cardinality(Keys(x)) < CacheSize)
      <3>1. MakeRoom(c, k) = EraseOldest(x)
        BY <2>5, <2>7
      <3>2. Cardinality(Keys(EraseOldest(x))) <= CacheSize
        BY <1>1, <1>2, <2>2, <2>3, <2>4, <2>7
      <3> QED BY <3>1, <3>2
    <2> QED BY <2>6, <2>7
  <1>5. CASE c[k] = None /\ ~(Cardinality(Keys(c)) > CacheSize)
    BY <1>1, <1>2, <1>5 DEF MakeRoom
  <1> QED BY <1>3, <1>4, <1>5

LEMMA AddIsBounded ==
    ASSUME now \in Nat, NEW c \in CacheType, NEW k \in Key, NEW e, Cardinality(Keys(c)) <= CacheSize + 1
    PROVE  Cardinality(Keys([MakeRoom(c, k) EXCEPT ![k] = e])) <= CacheSize + 1
  <1> DEFINE m == MakeRoom(c, k)
             d == [m EXCEPT ![k] = e]
  <1>1. Cardinality(Keys(m)) <= CacheSize
    BY RoomIsMade
  <1>2. IsFiniteSet(Keys(m)) /\ Cardinality(Keys(m)) \in Nat /\ Cardinality(Keys(d)) \in Nat /\ CacheSize \in Nat
    BY KeysCount, StatCacheSizes
  <1>3. m \in CacheType
    BY MakeRoomLess DEF Less
  <1> HIDE DEF m
  <1>4. Keys(d) \in SUBSET (Keys(m) \cup {k})
    BY <1>3 DEF Keys, CacheType
  <1> HIDE DEF d
  <1>5. IsFiniteSet(Keys(m) \cup {k}) /\ Cardinality(Keys(m) \cup {k}) <= Cardinality(Keys(m)) + 1
        /\ Cardinality(Keys(m) \cup {k}) \in Nat
    <2>1. /\ IsFiniteSet(Keys(m) \cup {k})
          /\ Cardinality(Keys(m) \cup {k}) = IF k \in Keys(m) THEN Cardinality(Keys(m)) ELSE Cardinality(Keys(m)) + 1
      BY <1>2, FS_AddElement
    <2> QED BY <1>2, <2>1
  <1>6. Cardinality(Keys(d)) <= Cardinality(Keys(m) \cup {k})
    BY <1>4, <1>5, FS_Subset
  <1>7. Cardinality(Keys(d)) <= CacheSize + 1
    BY <1>1, <1>2, <1>5, <1>6
  <1> QED BY <1>7 DEF m, d

\* A step adds at most one entry, for which it has made room.
LEMMA BoundedStep == Inv /\ CacheBounded /\ [Next]_vars => CacheBounded'
  <1> SUFFICES ASSUME Inv, CacheBounded, [Next]_vars PROVE Cardinality(Keys(stat_cache')) <= CacheSize + 1
    BY DEF CacheBounded, Keys
  <1>1. now \in Nat /\ stat_cache \in CacheType /\ (todo # <<>> => N \in Name)
    BY InvFacts
  <1>2. Cardinality(Keys(stat_cache)) <= CacheSize + 1
    BY DEF CacheBounded
  <1>3. ASSUME Keys(stat_cache') \subseteq Keys(stat_cache) PROVE Cardinality(Keys(stat_cache')) <= CacheSize + 1
    <2>1. Cardinality(Keys(stat_cache')) <= Cardinality(Keys(stat_cache))
      BY <1>3, FewerKeys
    <2>2. Cardinality(Keys(stat_cache')) \in Nat /\ Cardinality(Keys(stat_cache)) \in Nat /\ CacheSize \in Nat
      BY KeysCount, StatCacheSizes
    <2> QED BY <1>2, <2>1, <2>2
  <1>4. CASE stat_cache' = stat_cache
    BY <1>3, <1>4
  <1>5. ASSUME todo # <<>>
        PROVE  /\ Keys(GetStat(stat_cache, N).cache) \subseteq Keys(stat_cache)
               /\ Keys(DelStat(stat_cache, N)) \subseteq Keys(stat_cache)
    BY <1>1, <1>5, GetStatIs, DelStatIs, LessKeys
  <1>6. CASE LookupGetStat
    <2> DEFINE c == GetStat(stat_cache, N).cache
    <2>1. todo # <<>> /\ (stat_cache' = c \/ stat_cache' = ChangeNoTruncateFlag(c, N, Pin))
      BY <1>6 DEF LookupGetStat, Looking
    <2>2. c \in CacheType
      BY <1>1, <2>1, GetStatIs DEF Less
    <2> HIDE DEF c
    <2>3. Keys(ChangeNoTruncateFlag(c, N, Pin)) \subseteq Keys(c)
      BY <2>2 DEF ChangeNoTruncateFlag, Keys, CacheType
    <2>4. Keys(stat_cache') \subseteq Keys(c)
      BY <2>1, <2>3
    <2> QED BY <1>3, <1>5, <2>1, <2>4 DEF c
  <1>7. CASE IsNoObjectCache
    <2>1. CASE stat_cache' = [stat_cache EXCEPT ![Find(stat_cache, N)].cache_date = now]
               /\ stat_cache[Find(stat_cache, N)] # None
      <3>1. Keys(stat_cache') \subseteq Keys(stat_cache)
        BY <1>1, <2>1 DEF Keys, CacheType
      <3> QED BY <1>3, <3>1
    <2> QED BY <1>4, <1>7, <2>1 DEF IsNoObjectCache
  <1>8. ASSUME NEW k \in Key, Found(k) PROVE Cardinality(Keys(stat_cache')) <= CacheSize + 1
    <2>1. CASE Pin \/ CacheSize # 0
      <3> DEFINE c == [MakeRoom(stat_cache, k) EXCEPT ![k] = Entry(FALSE, Pin)]
      <3>1. AddStat(stat_cache, k, Pin) = c
        BY <2>1, StatCacheSizes DEF AddStat
      <3>2. stat_cache' = GetStat(c, k[1]).cache
        BY <1>8, <2>1, <3>1 DEF Found
      <3>3. Cardinality(Keys(c)) <= CacheSize + 1
        BY <1>1, <1>2, AddIsBounded
      <3>4. c \in CacheType
        <4>1. Pin \in BOOLEAN
          BY DEF Pin
        <4> QED BY <1>1, <4>1, EntryIsNew DEF Adds
      <3> HIDE DEF c
      <3>5. Keys(stat_cache') \subseteq Keys(c)
        BY <1>1, <3>2, <3>4, GetStatIs, LessKeys, KeysOf
      <3>6. Cardinality(Keys(stat_cache')) <= Cardinality(Keys(c))
        BY <3>5, FewerKeys
      <3>7. Cardinality(Keys(stat_cache')) \in Nat /\ Cardinality(Keys(c)) \in Nat /\ CacheSize \in Nat
        BY KeysCount, StatCacheSizes
      <3> QED BY <3>3, <3>6, <3>7
    <2>2. CASE ~(Pin \/ CacheSize # 0)
      BY <1>4, <1>8, <2>2 DEF Found
    <2> QED BY <2>1, <2>2
  <1>9. CASE HeadRequest
    <2>1. todo # <<>> /\ (stat_cache' = stat_cache \/ \E s \in {"path", "path/"} : Found(<< N, s >>))
      BY <1>9 DEF HeadRequest, Looking
    <2>2. CASE \E s \in {"path", "path/"} : Found(<< N, s >>)
      <3>1. PICK s \in {"path", "path/"} : Found(<< N, s >>)
        BY <2>2
      <3>2. << N, s >> \in Key
        BY <1>1, <2>1 DEF Key
      <3> QED BY <1>8, <3>1, <3>2
    <2> QED BY <1>4, <2>1, <2>2
  <1>10. CASE directory_empty
    <2> DEFINE k == << N, "path" >>
    <2>1. todo # <<>> /\ (Found(<< N, "path/" >>) \/ stat_cache' = AddNoObjectCache(stat_cache, k))
      BY <1>10 DEF directory_empty, Looking
    <2>2. << N, "path/" >> \in Key /\ k \in Key
      BY <1>1, <2>1, KeysOf
    <2>3. CASE stat_cache' = AddNoObjectCache(stat_cache, k)
      <3>1. Cardinality(Keys([MakeRoom(stat_cache, k) EXCEPT ![k] = Entry(TRUE, FALSE)])) <= CacheSize + 1
        BY <1>1, <1>2, <2>2, AddIsBounded
      <3>2. stat_cache' = stat_cache \/ stat_cache' = [MakeRoom(stat_cache, k) EXCEPT ![k] = Entry(TRUE, FALSE)]
        BY <2>3 DEF AddNoObjectCache
      <3> HIDE DEF k
      <3> QED BY <1>4, <3>1, <3>2
    <2> QED BY <1>8, <2>1, <2>2, <2>3
  <1>11. CASE \E how : stat_cache' = Outdate(N, how)
    <2>1. Keys(stat_cache') \subseteq Keys(stat_cache)
      BY <1>11 DEF Outdate, Keys
    <2> QED BY <1>3, <2>1
  <1>12. CASE HasStat \/ Opened \/ Forget \/ Remove \/ Upload \/ Flush
    <2>1. CASE HasStat \/ Forget
      <3>1. todo # <<>> /\ stat_cache' \in {DelStat(stat_cache, N), GetStat(stat_cache, N).cache}
        BY <2>1 DEF HasStat, Forget, Doing
      <3> QED BY <1>3, <1>5, <3>1
    <2>2. CASE Opened
      <3>1. /\ todo # <<>>
            /\ stat_cache' = stat_cache \/ stat_cache' = DelStat(stat_cache, N) \/ stat_cache' = Outdate(N, "uploaded")
        BY <2>2 DEF Opened, Replaced, Doing
      <3> QED BY <1>3, <1>4, <1>5, <1>11, <3>1
    <2>3. CASE Remove \/ Upload \/ Flush
      <3>1. stat_cache' = stat_cache \/ stat_cache' = Outdate(N, "changed") \/ stat_cache' = Outdate(N, "uploaded")
        BY <2>3 DEF Remove, Upload, Flush, Replaced
      <3> QED BY <1>4, <1>11, <3>1
    <2> QED BY <1>12, <2>1, <2>2, <2>3
  <1>13. ASSUME NEW steps, Begin(steps) PROVE Cardinality(Keys(stat_cache')) <= CacheSize + 1
    <2>1. Keys(stat_cache') \subseteq Keys(stat_cache)
      BY <1>13 DEF Begin, Keys
    <2> QED BY <1>3, <2>1
  <1>14. CASE \E f \in File :
                 s3fs_getattr(f) \/ s3fs_open(f) \/ s3fs_flush(f) \/ s3fs_unlink(f) \/ s3fs_truncate(f)
    BY <1>13, <1>14 DEF s3fs_getattr, s3fs_open, s3fs_flush, s3fs_unlink, s3fs_truncate
  <1>15. CASE Tick \/ Others \/ UNCHANGED vars
    BY <1>4, <1>15 DEF Tick, Others, vars
  <1> QED
    BY <1>6, <1>7, <1>9, <1>10, <1>12, <1>14, <1>15 DEF Next, Thread

\* The cache never has more than CacheSize + 1 entries: whenever it has one too
\* many TruncateCache erases one before the next is added, marked or not.
THEOREM CacheIsBounded == Spec => []CacheBounded
  <1>1. Init => CacheBounded
    <2> SUFFICES ASSUME Init PROVE CacheBounded
      OBVIOUS
    <2>1. Keys(stat_cache) = {}
      BY DEF Init, Keys
    <2>2. Cardinality(Keys(stat_cache)) = 0
      BY <2>1, FS_EmptySet, Zenon
    <2> QED BY <2>2, StatCacheSizes DEF CacheBounded
  <1> QED BY <1>1, BoundedStep, InvAlways, PTL DEF Spec
=============================================================================
