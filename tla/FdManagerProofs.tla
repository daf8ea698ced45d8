-------------------------- MODULE FdManagerProofs --------------------------
(***************************************************************************)
(* Proofs about FdManager.tla, for any set of files of other processes and *)
(* any set of faults.                                                      *)
(*                                                                         *)
(* The proof is a Floyd-Hoare proof of the handlers.  Every function has a *)
(* precondition and a postcondition; the invariant says that the calls on  *)
(* the stack, made one after the other from the state the process is in,   *)
(* find their preconditions whatever the earlier ones do within their      *)
(* postconditions, and leave a state in which no handler runs.  So every   *)
(* function is proved once, and not once for every place it is called at.  *)
(***************************************************************************)
EXTENDS FdManager, SequenceTheorems, TLAPS

Mutexes == {fd_manager_lock, cache_cleanup_lock}
             \cup {fdent_lock(f) : f \in File} \cup {fdent_data_lock(f) : f \in File}

Entity == [mapped : BOOLEAN, fd : BOOLEAN, refcnt : 0 .. 4, is_modify : BOOLEAN]

\* The state the functions work on.  Two components are ghosts: cleaning holds
\* from the open of a file that is scanned until CleanupFile, exiting while
\* S3fsOpenFlushed closes the entity before the process ends.
State == [held : SUBSET Mutexes, ent : [File -> Entity], reserved : 0 .. 1, ok : BOOLEAN,
          serving : BOOLEAN, cleaning : BOOLEAN, exiting : BOOLEAN]

Now(cleaning, exiting) ==
    [held |-> held, ent |-> ent, reserved |-> reserved, ok |-> ok, serving |-> serving,
     cleaning |-> cleaning, exiting |-> exiting]

Names ==
    {"Lock", "Unlock", "Open", "Search", "Dup", "EntityOpen", "Opened", "EntityClose", "Decrement",
     "CloseFile", "Close", "Erase", "CleanupCacheDir", "Scan", "CleanupFile", "Reserve",
     "ReserveAgain", "LoadAndFree", "Read", "ReserveSize", "CheckSpace", "Pwrite", "Load",
     "FlushLoaded", "RowFlush", "s3fs_open", "s3fs_open_flushed", "OpenSuccess", "Exit"}
Arguments == {"", "exist", "nowait", "create", "resize"}
MutexNames == {"fd_manager", "cache_cleanup", "fdent", "fdent_data"}

Calls == {c \in [fn : Names \cup Handlers, file : File, how : Arguments \cup MutexNames] :
             c.fn = "Lock" => << c.how, c.file >> \in Mutexes}
-----------------------------------------------------------------------------
(***************************************************************************)
(* Preconditions and postconditions of the functions that work on the      *)
(* entity of one file.                                                     *)
(***************************************************************************)
IsOpen(e) == e.mapped /\ e.fd
Bit(b) == IF b THEN 1 ELSE 0

\* The entity of another process's file between two cleanups: nobody refers to
\* it, but an open that failed may have left it in fent.
Idle(e) == /\ e.refcnt = 0 /\ (e.fd => e.mapped)
           /\ (e.mapped /\ ~ e.fd => "open" \in Faults)

\* It was opened by a cleanup.  An entity that was left in fent without a
\* descriptor is opened, and then closed because FdManager::Open had found it.
OpenedOnce(e) == e.mapped /\ e.refcnt = Bit(e.fd)

\* Nothing but the entity of f changes, and ok.
Frame(a, b, f) ==
    /\ b.held = a.held /\ b.reserved = a.reserved /\ b.serving = a.serving
    /\ b.cleaning = a.cleaning /\ b.exiting = a.exiting
    /\ \A g \in File \ {f} : b.ent[g] = a.ent[g]

LockPre(m, a) == m \in a.held => m = fdent_data_lock(Own) /\ a.cleaning /\ "full" \in Faults
LockPost(m, a, b) == m \notin a.held /\ b = [a EXCEPT !.held = @ \cup {m}]
UnlockPost(m, a, b) == b = [a EXCEPT !.held = @ \ {m}]

DupPre(f, a) == a.ent[f].refcnt <= 2
DupPost(f, a, b) ==
    /\ Frame(a, b, f) /\ b.ok = a.ok
    /\ b.ent[f] = [a.ent[f] EXCEPT !.refcnt = IF a.ent[f].fd THEN @ + 1 ELSE @]

OpenedPre(f, a) == a.ent[f].refcnt <= 3
OpenedTo(how, e, e2, good) ==
    /\ e2.mapped = e.mapped
    /\ e.fd /\ good => e2.fd /\ e2.refcnt = e.refcnt + 1
    /\ e.fd /\ ~ good => e2.fd /\ e2.refcnt = e.refcnt /\ how = "resize"
    /\ ~ e.fd /\ good => e2.fd /\ e2.refcnt = 1
    /\ ~ e.fd /\ ~ good => /\ e2.refcnt = e.refcnt
                           /\ e2.fd => "link" \in Faults
                           /\ ~ e2.fd => "open" \in Faults
OpenedPost(f, how, a, b) == Frame(a, b, f) /\ OpenedTo(how, a.ent[f], b.ent[f], b.ok)

\* fdent_data_lock may be held already only if a cleanup comes to the file
\* that is served; then the call does not return.
DataFree(f, a) == fdent_data_lock(f) \in a.held => f = Own /\ a.cleaning /\ "full" \in Faults

EntityOpenPre(f, a) == fdent_lock(f) \notin a.held /\ DataFree(f, a) /\ OpenedPre(f, a)
EntityOpenPost(f, how, a, b) == fdent_data_lock(f) \notin a.held /\ OpenedPost(f, how, a, b)

SearchPre(f, how, a) ==
    LET e == a.ent[f]
    IN  /\ fdent_lock(f) \notin a.held /\ DataFree(f, a)
        /\ f = Own => \/ IsOpen(e) /\ e.refcnt \in 1 .. 2
                      \/ e = NoEntity /\ how = "create"
        /\ f # Own => Idle(e) /\ a.cleaning /\ how = "nowait"
OpenPre(f, how, a) == fd_manager_lock \notin a.held /\ SearchPre(f, how, a)
OpenPost(f, a, b) ==
    LET e == a.ent[f]  e2 == b.ent[f]
    IN  /\ Frame(a, b, f) /\ fdent_data_lock(f) \notin a.held
        /\ f = Own /\ IsOpen(e) => IsOpen(e2) /\ e2.refcnt = e.refcnt + Bit(b.ok)
        /\ f = Own /\ e = NoEntity /\ b.ok => IsOpen(e2) /\ e2.refcnt = 1
        /\ f # Own /\ b.ok => OpenedOnce(e2)
        /\ f # Own /\ ~ b.ok => Idle(e2)

DecrementPre(f, a) ==
    LET e == a.ent[f]
    IN  /\ e.fd /\ e.refcnt = 0 => f # Own /\ {"open", "link"} \subseteq Faults /\ a.cleaning
        /\ e.fd /\ e.refcnt = 1 => fdent_data_lock(f) \notin a.held
        /\ f = Own /\ e.fd => e.refcnt >= 2 \/ a.exiting
DecrementPost(f, a, b) ==
    LET e == a.ent[f]  e2 == b.ent[f]
    IN  /\ Frame(a, b, f) /\ b.ok = a.ok
        /\ ~ e.fd => e2 = e
        /\ e.fd => /\ e.refcnt > 0 /\ e2.mapped = e.mapped
                   /\ e2.refcnt = e.refcnt - 1 /\ (e2.fd <=> e.refcnt > 1)
EntityClosePre(f, a) == fdent_lock(f) \notin a.held /\ DecrementPre(f, a)

CloseFilePre(f, a) == f = Own => a.exiting
CloseFilePost(f, a, b) ==
    Frame(a, b, f) /\ b.ok = a.ok /\ b.ent[f] = [a.ent[f] EXCEPT !.fd = FALSE]

ErasePre(f, a) ==
    ~ a.ent[f].fd => fdent_lock(f) \notin a.held /\ fdent_data_lock(f) \notin a.held
ErasePost(f, a, b) ==
    /\ Frame(a, b, f) /\ b.ok = a.ok
    /\ b.ent[f] = IF a.ent[f].fd THEN a.ent[f] ELSE NoEntity

ClosePre(f, a) ==
    LET e == a.ent[f]
    IN  /\ fd_manager_lock \notin a.held /\ fdent_lock(f) \notin a.held
        /\ e.mapped /\ (e.fd => e.refcnt >= 1)
        /\ f = Own => e.fd /\ (e.refcnt >= 2 \/ a.exiting)
        /\ (e.fd /\ e.refcnt > 1) \/ fdent_data_lock(f) \notin a.held
ClosePost(f, a, b) ==
    LET e == a.ent[f]  e2 == b.ent[f]
    IN  /\ Frame(a, b, f) /\ b.ok = a.ok
        /\ e.fd /\ e.refcnt > 1 => IsOpen(e2) /\ e2.refcnt = e.refcnt - 1
        /\ ~ (e.fd /\ e.refcnt > 1) => e2 = NoEntity
-----------------------------------------------------------------------------
(***************************************************************************)
(* Preconditions and postconditions of what handlers do with the entity of *)
(* the file that is served, which has n references meanwhile.              *)
(***************************************************************************)
Steady(a, n) ==
    /\ IsOpen(a.ent[Own]) /\ a.ent[Own].refcnt = n
    /\ \A f \in Others : Idle(a.ent[f])
    /\ ~ a.cleaning /\ ~ a.exiting

data == fdent_data_lock(Own)

In(a, mutexes, n, space) == Steady(a, n) /\ a.held = mutexes /\ a.reserved = space

\* The mutexes that the handler's thread may hold when a cleanup begins.
Outside == {{}} \cup {mutexes \in {{data}} : "full" \in Faults}

\* A state in which no handler runs.
Final(a) ==
    /\ a.held = {} /\ a.reserved = 0 /\ ~ a.cleaning /\ ~ a.exiting
    /\ a.serving => Steady(a, 1)
    /\ ~ a.serving => a.ent = [f \in File |-> NoEntity]
Finals == {a \in State : Final(a)}

\* Mutexes, references and the process are as before.
Same(a, b) == In(b, a.held, a.ent[Own].refcnt, b.reserved) /\ b.serving = a.serving

CleanupFilePre(f, a) ==
    LET e == a.ent[f]
    IN  /\ a.cleaning /\ ~ a.exiting /\ a.reserved = 0
        /\ \E mutexes \in Outside : a.held = mutexes \cup {cache_cleanup_lock}
        /\ fdent_data_lock(f) \notin a.held
        /\ IsOpen(a.ent[Own])
        /\ a.ent[Own].refcnt = 2 + (IF f = Own THEN Bit(a.ok) ELSE 0)
        /\ \A g \in Others \ {f} : Idle(a.ent[g])
        /\ f # Own => (a.ok => OpenedOnce(e)) /\ (~ a.ok => Idle(e))
CleanupFilePost(a, b) == In(b, a.held, 2, 0) /\ b.serving = a.serving

\* What a function called with c may rely on when it begins in state a.
Pre(c, a) ==
    CASE c.fn = "Lock" -> LockPre(<< c.how, c.file >>, a)
      [] c.fn = "Open" -> OpenPre(c.file, c.how, a)
      [] c.fn = "Search" -> SearchPre(c.file, c.how, a)
      [] c.fn = "Dup" -> DupPre(c.file, a)
      [] c.fn = "EntityOpen" -> EntityOpenPre(c.file, a)
      [] c.fn = "Opened" -> OpenedPre(c.file, a)
      [] c.fn = "EntityClose" -> EntityClosePre(c.file, a)
      [] c.fn = "Decrement" -> DecrementPre(c.file, a)
      [] c.fn = "CloseFile" -> CloseFilePre(c.file, a)
      [] c.fn = "Close" -> ClosePre(c.file, a)
      [] c.fn = "Erase" -> ErasePre(c.file, a)
      [] c.fn = "CleanupFile" -> CleanupFilePre(c.file, a)
      [] c.fn = "CleanupCacheDir" -> \E mutexes \in Outside : In(a, mutexes, 2, 0)
      [] c.fn = "Scan" -> \E mutexes \in Outside : In(a, mutexes \cup {cache_cleanup_lock}, 2, 0)
      [] c.fn \in Handlers -> In(a, {}, 1 + Bit(a.ok), 0)
      [] c.fn \in {"CheckSpace", "FlushLoaded"} -> In(a, {}, 2, 0)
      [] c.fn \in {"Read", "Reserve", "ReserveAgain", "Pwrite"} -> In(a, {data}, 2, 0)
      [] c.fn \in {"ReserveSize", "LoadAndFree"} -> In(a, {data}, 2, Bit(a.ok))
      [] c.fn = "Load" -> In(a, {fdent_lock(Own), data}, 2, 0)
      [] c.fn = "RowFlush" -> \E n \in 1 .. 2 : In(a, {data}, n, 0)
      [] c.fn = "s3fs_open" -> a.ok => In(a, {}, 1, 0)
      [] c.fn \in {"s3fs_open_flushed", "OpenSuccess"} -> In(a, {}, 1, 0)
      [] OTHER -> TRUE

\* What holds of the state b in which it returns.
Post(c, a, b) ==
    CASE c.fn = "Lock" -> LockPost(<< c.how, c.file >>, a, b)
      [] c.fn = "Unlock" -> UnlockPost(<< c.how, c.file >>, a, b)
      [] c.fn \in {"Open", "Search"} -> OpenPost(c.file, a, b)
      [] c.fn = "Dup" -> DupPost(c.file, a, b)
      [] c.fn = "EntityOpen" -> EntityOpenPost(c.file, c.how, a, b)
      [] c.fn = "Opened" -> OpenedPost(c.file, c.how, a, b)
      [] c.fn \in {"EntityClose", "Decrement"} -> DecrementPost(c.file, a, b)
      [] c.fn = "CloseFile" -> CloseFilePost(c.file, a, b)
      [] c.fn = "Close" -> ClosePost(c.file, a, b)
      [] c.fn = "Erase" -> ErasePost(c.file, a, b)
      [] c.fn = "CleanupFile" -> CleanupFilePost(a, b)
      [] c.fn \in Handlers -> In(b, {}, 1, 0) /\ b.serving = a.serving
      [] c.fn \in {"Reserve", "ReserveAgain", "ReserveSize"} ->
            Same(a, b) /\ b.reserved = Bit(b.ok)
      [] c.fn \in {"CleanupCacheDir", "Scan", "CheckSpace", "FlushLoaded", "Read", "Pwrite",
                   "LoadAndFree", "Load", "RowFlush"} -> Same(a, b) /\ b.reserved = 0
      [] c.fn \in {"s3fs_open", "s3fs_open_flushed", "OpenSuccess", "Exit"} -> Final(b)
      [] OTHER -> FALSE

After(c, a) == {b \in State : Post(c, a, b)}
-----------------------------------------------------------------------------
(***************************************************************************)
(* Runs(s, a, Q): however the calls of s, made one after the other from    *)
(* the state a, go, each finds its precondition, and if all of them return *)
(* it is in a state of Q.                                                  *)
(***************************************************************************)
Trace(s, a, n, t) == t[1] = a /\ \A i \in 1 .. n : Post(s[i], t[i], t[i + 1])

Runs(s, a, Q) ==
    \A n \in 0 .. Len(s) : \A t \in [1 .. n + 1 -> State] :
        Trace(s, a, n, t) => IF n < Len(s) THEN Pre(s[n + 1], t[n + 1]) ELSE t[n + 1] \in Q

\* The next call finds its precondition.
LEMMA RunsPre ==
    ASSUME NEW s \in Seq(Calls), s # <<>>, NEW a \in State, NEW Q, Runs(s, a, Q)
    PROVE  Pre(Head(s), a)
  <1> DEFINE t == [i \in 1 .. 0 + 1 |-> a]
  <1>1. 0 \in 0 .. Len(s) /\ 0 < Len(s) /\ Head(s) = s[1]
    OBVIOUS
  <1>2. t \in [1 .. 0 + 1 -> State] /\ t[1] = a
    OBVIOUS
  <1>3. Trace(s, a, 0, t)
    BY <1>2 DEF Trace
  <1>4. Pre(s[0 + 1], t[0 + 1])
    <2> HIDE DEF t
    <2> QED BY <1>1, <1>2, <1>3 DEF Runs
  <1> QED BY <1>1, <1>2, <1>4

\* When nothing is left to call, the state is one of Q.
LEMMA RunsEnd ==
    ASSUME NEW a \in State, NEW Q
    PROVE  Runs(<<>>, a, Q) <=> a \in Q
  <1>1. ASSUME Runs(<<>>, a, Q) PROVE a \in Q
    <2> DEFINE t == [i \in 1 .. 0 + 1 |-> a]
    <2>1. t \in [1 .. 0 + 1 -> State] /\ t[1] = a
      OBVIOUS
    <2>2. Trace(<<>>, a, 0, t)
      BY <2>1 DEF Trace
    <2>3. Len(<<>>) = 0 /\ 0 \in 0 .. Len(<<>>) /\ ~ (0 < Len(<<>>))
      OBVIOUS
    <2>4. t[0 + 1] \in Q
      <3> HIDE DEF t
      <3> QED BY <1>1, <2>1, <2>2, <2>3 DEF Runs
    <2> QED BY <2>1, <2>4
  <1>2. ASSUME a \in Q PROVE Runs(<<>>, a, Q)
    BY <1>2 DEF Runs, Trace
  <1> QED BY <1>1, <1>2

\* One call.
LEMMA RunsOne ==
    ASSUME NEW x \in Calls, NEW a \in State, NEW Q,
           Pre(x, a), After(x, a) \subseteq Q
    PROVE  Runs(<< x >>, a, Q)
  <1> SUFFICES ASSUME NEW n \in 0 .. 1, NEW t \in [1 .. n + 1 -> State],
                      Trace(<< x >>, a, n, t)
               PROVE  IF n < 1 THEN Pre(<< x >>[n + 1], t[n + 1]) ELSE t[n + 1] \in Q
    BY DEF Runs
  <1>1. CASE n = 0
    BY <1>1 DEF Trace
  <1>2. CASE n = 1
    <2>1. t[2] \in State /\ t[1] = a /\ Post(x, t[1], t[2])
      BY <1>2 DEF Trace
    <2>2. t[2] \in Q
      BY <2>1 DEF After
    <2> QED BY <1>2, <2>2
  <1> QED BY <1>1, <1>2

\* One list of calls after another.
LEMMA RunsAppend ==
    ASSUME NEW s1 \in Seq(Calls), NEW s2 \in Seq(Calls), NEW a \in State, NEW P, NEW Q,
           Runs(s1, a, P), \A p \in P : p \in State => Runs(s2, p, Q)
    PROVE  Runs(s1 \o s2, a, Q)
  <1> DEFINE s == s1 \o s2
             k == Len(s1)
             m == Len(s2)
  <1>1. /\ k \in Nat /\ m \in Nat /\ Len(s) = k + m
        /\ \A i \in 1 .. k : s[i] = s1[i]
        /\ \A i \in 1 .. m : s[k + i] = s2[i]
    OBVIOUS
  <1> HIDE DEF s, k, m
  <1> SUFFICES ASSUME NEW n \in 0 .. k + m, NEW t \in [1 .. n + 1 -> State], Trace(s, a, n, t)
               PROVE  IF n < k + m THEN Pre(s[n + 1], t[n + 1]) ELSE t[n + 1] \in Q
    BY <1>1 DEF Runs, s
  <1>2. n \in Nat /\ t[1] = a /\ \A i \in 1 .. n : Post(s[i], t[i], t[i + 1])
    BY <1>1 DEF Trace
  <1>3. CASE n < k
    <2>1. Trace(s1, a, n, t)
      BY <1>1, <1>2, <1>3 DEF Trace
    <2>2. n \in 0 .. k
      BY <1>1, <1>2, <1>3
    <2>3. Pre(s1[n + 1], t[n + 1])
      BY <1>3, <2>1, <2>2 DEF Runs, k
    <2> QED BY <1>1, <1>2, <1>3, <2>3
  <1>4. CASE k <= n
    <2> DEFINE u == [i \in 1 .. k + 1 |-> t[i]]
               v == [i \in 1 .. (n - k) + 1 |-> t[k + i]]
    <2>1. \A i \in 1 .. n + 1 : t[i] \in State
      OBVIOUS
    <2>2. /\ u \in [1 .. k + 1 -> State] /\ u[1] = a /\ u[k + 1] = t[k + 1]
          /\ \A i \in 1 .. k : u[i] = t[i] /\ u[i + 1] = t[i + 1]
      <3>1. \A i \in 1 .. k + 1 : i \in 1 .. n + 1 /\ u[i] = t[i]
        BY <1>1, <1>2, <1>4
      <3>2. u \in [1 .. k + 1 -> State]
        BY <2>1, <3>1
      <3>3. /\ 1 \in 1 .. k + 1 /\ k + 1 \in 1 .. k + 1
            /\ \A i \in 1 .. k : i \in 1 .. k + 1 /\ i + 1 \in 1 .. k + 1
        BY <1>1
      <3> HIDE DEF u
      <3> QED BY <1>2, <3>1, <3>2, <3>3
    <2>3. /\ v \in [1 .. (n - k) + 1 -> State] /\ v[1] = t[k + 1] /\ v[(n - k) + 1] = t[n + 1]
          /\ \A i \in 1 .. n - k : v[i] = t[k + i] /\ v[i + 1] = t[(k + i) + 1]
      <3>1. n - k \in Nat /\ k + 1 \in 1 .. n + 1
        BY <1>1, <1>2, <1>4
      <3>2. \A i \in 1 .. (n - k) + 1 : k + i \in 1 .. n + 1
        BY <1>1, <1>2, <3>1
      <3>3. \A i \in 1 .. (n - k) + 1 : v[i] = t[k + i]
        OBVIOUS
      <3>4. v \in [1 .. (n - k) + 1 -> State]
        BY <2>1, <3>2
      <3>5. \A i \in 1 .. n - k : /\ i \in 1 .. (n - k) + 1 /\ i + 1 \in 1 .. (n - k) + 1
                                 /\ k + (i + 1) = (k + i) + 1
        BY <1>1, <3>1
      <3>6. /\ 1 \in 1 .. (n - k) + 1 /\ (n - k) + 1 \in 1 .. (n - k) + 1
            /\ k + ((n - k) + 1) = n + 1
        BY <1>1, <1>2, <3>1
      <3> HIDE DEF v
      <3> QED BY <3>3, <3>4, <3>5, <3>6
    <2>4. n - k \in 0 .. m /\ (n - k < m <=> n < k + m)
      BY <1>1, <1>2, <1>4
    <2> HIDE DEF u, v
    <2>5. Trace(s1, a, k, u)
      BY <1>1, <1>2, <1>4, <2>2 DEF Trace
    <2>6. k \in 0 .. k /\ ~ (k < k)
      BY <1>1
    <2>7. u[k + 1] \in P
      BY <2>2, <2>5, <2>6 DEF Runs, k
    <2>8. t[k + 1] \in P /\ t[k + 1] \in State
      BY <1>1, <1>2, <1>4, <2>1, <2>2, <2>7
    <2>9. Runs(s2, t[k + 1], Q)
      BY <2>8
    <2>10. Trace(s2, t[k + 1], n - k, v)
      <3> SUFFICES ASSUME NEW i \in 1 .. n - k PROVE Post(s2[i], v[i], v[i + 1])
        BY <2>3 DEF Trace
      <3>1. k + i \in 1 .. n /\ i \in 1 .. m
        BY <1>1, <1>2, <1>4, <2>4
      <3>2. Post(s[k + i], t[k + i], t[(k + i) + 1])
        BY <1>2, <3>1
      <3>3. s[k + i] = s2[i]
        BY <1>1, <3>1
      <3> QED BY <2>3, <3>2, <3>3
    <2>11. IF n - k < m THEN Pre(s2[(n - k) + 1], v[(n - k) + 1]) ELSE v[(n - k) + 1] \in Q
      BY <2>3, <2>4, <2>9, <2>10 DEF Runs, m
    <2>12. n < k + m => s[n + 1] = s2[(n - k) + 1]
      <3> SUFFICES ASSUME n < k + m PROVE s[n + 1] = s2[(n - k) + 1]
        OBVIOUS
      <3>1. (n - k) + 1 \in 1 .. m /\ k + ((n - k) + 1) = n + 1
        BY <1>1, <1>2, <1>4
      <3> QED BY <1>1, <3>1
    <2> QED BY <2>3, <2>4, <2>11, <2>12
  <1> QED BY <1>1, <1>2, <1>3, <1>4

\* What is left after the first call.
LEMMA RunsTail ==
    ASSUME NEW s \in Seq(Calls), s # <<>>, NEW a \in State, NEW b \in State, NEW Q,
           Runs(s, a, Q), Post(Head(s), a, b)
    PROVE  Runs(Tail(s), b, Q)
  <1> DEFINE r == Tail(s)
             m == Len(s) - 1
  <1>1. /\ m \in Nat /\ Len(s) = m + 1 /\ Len(r) = m /\ Head(s) = s[1]
        /\ \A i \in 1 .. m : r[i] = s[i + 1]
    OBVIOUS
  <1> HIDE DEF r, m
  <1> SUFFICES ASSUME NEW n \in 0 .. m, NEW t \in [1 .. n + 1 -> State], Trace(r, b, n, t)
               PROVE  IF n < m THEN Pre(r[n + 1], t[n + 1]) ELSE t[n + 1] \in Q
    BY <1>1 DEF Runs, r
  <1>2. n \in Nat /\ t[1] = b /\ \A i \in 1 .. n : Post(r[i], t[i], t[i + 1])
    BY <1>1 DEF Trace
  <1> DEFINE u == [i \in 1 .. (n + 1) + 1 |-> IF i = 1 THEN a ELSE t[i - 1]]
  <1>3. \A i \in 1 .. n + 1 : t[i] \in State
    OBVIOUS
  <1>4. /\ u \in [1 .. (n + 1) + 1 -> State] /\ u[1] = a /\ u[2] = b
        /\ \A i \in 1 .. n + 1 : u[i + 1] = t[i]
    <2>1. ASSUME NEW i \in 1 .. (n + 1) + 1
          PROVE  (IF i = 1 THEN a ELSE t[i - 1]) \in State
      <3>1. CASE i = 1
        BY <3>1
      <3>2. CASE i # 1
        <4>1. i - 1 \in 1 .. n + 1
          BY <1>2, <3>2
        <4> QED BY <1>3, <3>2, <4>1
      <3> QED BY <3>1, <3>2
    <2>2. 1 \in 1 .. (n + 1) + 1 /\ 2 \in 1 .. (n + 1) + 1
      BY <1>2
    <2>3. ASSUME NEW i \in 1 .. n + 1 PROVE u[i + 1] = t[i]
      <3>1. i + 1 \in 1 .. (n + 1) + 1 /\ i + 1 # 1 /\ (i + 1) - 1 = i
        BY <1>2
      <3> QED BY <3>1
    <2>4. u \in [1 .. (n + 1) + 1 -> State]
      BY <2>1
    <2> QED BY <1>2, <2>2, <2>3, <2>4
  <1> HIDE DEF u
  <1>5. Trace(s, a, n + 1, u)
    <2> SUFFICES ASSUME NEW i \in 1 .. n + 1 PROVE Post(s[i], u[i], u[i + 1])
      BY <1>4 DEF Trace
    <2>1. CASE i = 1
      BY <1>1, <1>4, <2>1
    <2>2. CASE i # 1
      <3>1. /\ i - 1 \in 1 .. n /\ i - 1 \in 1 .. m /\ (i - 1) + 1 = i
            /\ i - 1 \in 1 .. n + 1
        BY <1>1, <1>2, <2>2
      <3>2. Post(r[i - 1], t[i - 1], t[i])
        BY <1>2, <3>1
      <3>3. r[i - 1] = s[i] /\ u[i] = t[i - 1] /\ u[i + 1] = t[i]
        BY <1>1, <1>4, <3>1
      <3> QED BY <3>2, <3>3
    <2> QED BY <2>1, <2>2
  <1>6. n + 1 \in 0 .. Len(s) /\ (n + 1 < Len(s) <=> n < m)
    BY <1>1, <1>2
  <1>7. IF n + 1 < Len(s) THEN Pre(s[(n + 1) + 1], u[(n + 1) + 1]) ELSE u[(n + 1) + 1] \in Q
    BY <1>4, <1>5, <1>6 DEF Runs
  <1>8. u[(n + 1) + 1] = t[n + 1] /\ (n < m => s[(n + 1) + 1] = r[n + 1])
    BY <1>1, <1>2, <1>4
  <1> QED BY <1>6, <1>7, <1>8
-----------------------------------------------------------------------------
(***************************************************************************)
(* The tables Pre and Post, looked up.                                     *)
(***************************************************************************)

LEMMA AtLock ==
    ASSUME NEW c, c.fn = "Lock"
    PROVE  /\ \A a : Pre(c, a) <=> LockPre(<< c.how, c.file >>, a)
           /\ \A a, b : Post(c, a, b) <=> LockPost(<< c.how, c.file >>, a, b)
  BY DEF Pre, Post, Handlers

LEMMA AtUnlock ==
    ASSUME NEW c, c.fn = "Unlock"
    PROVE  /\ \A a : Pre(c, a) <=> TRUE
           /\ \A a, b : Post(c, a, b) <=> UnlockPost(<< c.how, c.file >>, a, b)
  BY DEF Pre, Post, Handlers

LEMMA AtOpen ==
    ASSUME NEW c, c.fn = "Open"
    PROVE  /\ \A a : Pre(c, a) <=> OpenPre(c.file, c.how, a)
           /\ \A a, b : Post(c, a, b) <=> OpenPost(c.file, a, b)
  BY DEF Pre, Post, Handlers

LEMMA AtSearch ==
    ASSUME NEW c, c.fn = "Search"
    PROVE  /\ \A a : Pre(c, a) <=> SearchPre(c.file, c.how, a)
           /\ \A a, b : Post(c, a, b) <=> OpenPost(c.file, a, b)
  BY DEF Pre, Post, Handlers

LEMMA AtDup ==
    ASSUME NEW c, c.fn = "Dup"
    PROVE  /\ \A a : Pre(c, a) <=> DupPre(c.file, a)
           /\ \A a, b : Post(c, a, b) <=> DupPost(c.file, a, b)
  BY DEF Pre, Post, Handlers

LEMMA AtEntityOpen ==
    ASSUME NEW c, c.fn = "EntityOpen"
    PROVE  /\ \A a : Pre(c, a) <=> EntityOpenPre(c.file, a)
           /\ \A a, b : Post(c, a, b) <=> EntityOpenPost(c.file, c.how, a, b)
  BY DEF Pre, Post, Handlers

LEMMA AtOpened ==
    ASSUME NEW c, c.fn = "Opened"
    PROVE  /\ \A a : Pre(c, a) <=> OpenedPre(c.file, a)
           /\ \A a, b : Post(c, a, b) <=> OpenedPost(c.file, c.how, a, b)
  BY DEF Pre, Post, Handlers

LEMMA AtEntityClose ==
    ASSUME NEW c, c.fn = "EntityClose"
    PROVE  /\ \A a : Pre(c, a) <=> EntityClosePre(c.file, a)
           /\ \A a, b : Post(c, a, b) <=> DecrementPost(c.file, a, b)
  BY DEF Pre, Post, Handlers

LEMMA AtDecrement ==
    ASSUME NEW c, c.fn = "Decrement"
    PROVE  /\ \A a : Pre(c, a) <=> DecrementPre(c.file, a)
           /\ \A a, b : Post(c, a, b) <=> DecrementPost(c.file, a, b)
  BY DEF Pre, Post, Handlers

LEMMA AtCloseFile ==
    ASSUME NEW c, c.fn = "CloseFile"
    PROVE  /\ \A a : Pre(c, a) <=> CloseFilePre(c.file, a)
           /\ \A a, b : Post(c, a, b) <=> CloseFilePost(c.file, a, b)
  BY DEF Pre, Post, Handlers

LEMMA AtClose ==
    ASSUME NEW c, c.fn = "Close"
    PROVE  /\ \A a : Pre(c, a) <=> ClosePre(c.file, a)
           /\ \A a, b : Post(c, a, b) <=> ClosePost(c.file, a, b)
  BY DEF Pre, Post, Handlers

LEMMA AtErase ==
    ASSUME NEW c, c.fn = "Erase"
    PROVE  /\ \A a : Pre(c, a) <=> ErasePre(c.file, a)
           /\ \A a, b : Post(c, a, b) <=> ErasePost(c.file, a, b)
  BY DEF Pre, Post, Handlers

LEMMA AtCleanupFile ==
    ASSUME NEW c, c.fn = "CleanupFile"
    PROVE  /\ \A a : Pre(c, a) <=> CleanupFilePre(c.file, a)
           /\ \A a, b : Post(c, a, b) <=> CleanupFilePost(a, b)
  BY DEF Pre, Post, Handlers

LEMMA AtCleanupCacheDir ==
    ASSUME NEW c, c.fn = "CleanupCacheDir"
    PROVE  /\ \A a : Pre(c, a) <=> (\E mutexes \in Outside : In(a, mutexes, 2, 0))
           /\ \A a, b : Post(c, a, b) <=> Same(a, b) /\ b.reserved = 0
  BY DEF Pre, Post, Handlers

LEMMA AtScan ==
    ASSUME NEW c, c.fn = "Scan"
    PROVE  /\ \A a : Pre(c, a) <=> (\E mutexes \in Outside : In(a, mutexes \cup {cache_cleanup_lock}, 2, 0))
           /\ \A a, b : Post(c, a, b) <=> Same(a, b) /\ b.reserved = 0
  BY DEF Pre, Post, Handlers

LEMMA AtCheckSpace ==
    ASSUME NEW c, c.fn \in {"CheckSpace", "FlushLoaded"}
    PROVE  /\ \A a : Pre(c, a) <=> In(a, {}, 2, 0)
           /\ \A a, b : Post(c, a, b) <=> Same(a, b) /\ b.reserved = 0
  BY DEF Pre, Post, Handlers

LEMMA AtRead ==
    ASSUME NEW c, c.fn \in {"Read", "Pwrite"}
    PROVE  /\ \A a : Pre(c, a) <=> In(a, {data}, 2, 0)
           /\ \A a, b : Post(c, a, b) <=> Same(a, b) /\ b.reserved = 0
  BY DEF Pre, Post, Handlers

LEMMA AtReserve ==
    ASSUME NEW c, c.fn \in {"Reserve", "ReserveAgain"}
    PROVE  /\ \A a : Pre(c, a) <=> In(a, {data}, 2, 0)
           /\ \A a, b : Post(c, a, b) <=> Same(a, b) /\ b.reserved = Bit(b.ok)
  BY DEF Pre, Post, Handlers

LEMMA AtReserveSize ==
    ASSUME NEW c, c.fn = "ReserveSize"
    PROVE  /\ \A a : Pre(c, a) <=> In(a, {data}, 2, Bit(a.ok))
           /\ \A a, b : Post(c, a, b) <=> Same(a, b) /\ b.reserved = Bit(b.ok)
  BY DEF Pre, Post, Handlers

LEMMA AtLoadAndFree ==
    ASSUME NEW c, c.fn = "LoadAndFree"
    PROVE  /\ \A a : Pre(c, a) <=> In(a, {data}, 2, Bit(a.ok))
           /\ \A a, b : Post(c, a, b) <=> Same(a, b) /\ b.reserved = 0
  BY DEF Pre, Post, Handlers

LEMMA AtLoad ==
    ASSUME NEW c, c.fn = "Load"
    PROVE  /\ \A a : Pre(c, a) <=> In(a, {fdent_lock(Own), data}, 2, 0)
           /\ \A a, b : Post(c, a, b) <=> Same(a, b) /\ b.reserved = 0
  BY DEF Pre, Post, Handlers

LEMMA AtRowFlush ==
    ASSUME NEW c, c.fn = "RowFlush"
    PROVE  /\ \A a : Pre(c, a) <=> (\E n \in 1 .. 2 : In(a, {data}, n, 0))
           /\ \A a, b : Post(c, a, b) <=> Same(a, b) /\ b.reserved = 0
  BY DEF Pre, Post, Handlers

LEMMA AtS3fsOpen ==
    ASSUME NEW c, c.fn = "s3fs_open"
    PROVE  /\ \A a : Pre(c, a) <=> (a.ok => In(a, {}, 1, 0))
           /\ \A a, b : Post(c, a, b) <=> Final(b)
  BY DEF Pre, Post, Handlers

LEMMA AtOpenSuccess ==
    ASSUME NEW c, c.fn \in {"s3fs_open_flushed", "OpenSuccess"}
    PROVE  /\ \A a : Pre(c, a) <=> In(a, {}, 1, 0)
           /\ \A a, b : Post(c, a, b) <=> Final(b)
  BY DEF Pre, Post, Handlers

LEMMA AtExit ==
    ASSUME NEW c, c.fn = "Exit"
    PROVE  /\ \A a : Pre(c, a) <=> TRUE
           /\ \A a, b : Post(c, a, b) <=> Final(b)
  BY DEF Pre, Post, Handlers

LEMMA AtHandler ==
    ASSUME NEW c, c.fn \in Handlers
    PROVE  /\ \A a : Pre(c, a) <=> In(a, {}, 1 + Bit(a.ok), 0)
           /\ \A a, b : Post(c, a, b) <=> In(b, {}, 1, 0) /\ b.serving = a.serving
  BY DEF Pre, Post, Handlers
-----------------------------------------------------------------------------
(***************************************************************************)
(* How the calls that the functions make are put together.                 *)
(***************************************************************************)
LEMMA CallType ==
    ASSUME NEW fn \in Names \cup Handlers, NEW f \in File, NEW how \in Arguments \cup MutexNames,
           fn = "Lock" => << how, f >> \in Mutexes
    PROVE  /\ Call(fn, f, how) \in Calls
           /\ Call(fn, f, how).fn = fn /\ Call(fn, f, how).file = f /\ Call(fn, f, how).how = how
  BY DEF Call, Calls

LEMMA MutexTypes ==
    /\ fd_manager_lock \in Mutexes /\ cache_cleanup_lock \in Mutexes
    /\ \A f \in File : fdent_lock(f) \in Mutexes /\ fdent_data_lock(f) \in Mutexes
    /\ \A m \in Mutexes : m[1] \in MutexNames /\ m[2] \in File /\ m = << m[1], m[2] >>
    /\ Own \in File
  <1>1. Own \in File
    BY DEF File
  <1>2. /\ fd_manager_lock \in Mutexes /\ cache_cleanup_lock \in Mutexes
        /\ \A f \in File : fdent_lock(f) \in Mutexes /\ fdent_data_lock(f) \in Mutexes
    BY DEF Mutexes
  <1>3. /\ fd_manager_lock = << "fd_manager", Own >> /\ cache_cleanup_lock = << "cache_cleanup", Own >>
        /\ \A f : fdent_lock(f) = << "fdent", f >> /\ fdent_data_lock(f) = << "fdent_data", f >>
    BY DEF fd_manager_lock, cache_cleanup_lock, fdent_lock, fdent_data_lock
  <1>4. \A m \in Mutexes : m[1] \in MutexNames /\ m[2] \in File /\ m = << m[1], m[2] >>
    <2> SUFFICES ASSUME NEW m \in Mutexes
                 PROVE  m[1] \in MutexNames /\ m[2] \in File /\ m = << m[1], m[2] >>
      OBVIOUS
    <2>1. CASE m = fd_manager_lock \/ m = cache_cleanup_lock
      BY <1>1, <1>3, <2>1 DEF MutexNames
    <2>2. ASSUME NEW f \in File, m = fdent_lock(f) \/ m = fdent_data_lock(f)
          PROVE  m[1] \in MutexNames /\ m[2] \in File /\ m = << m[1], m[2] >>
      BY <1>3, <2>2 DEF MutexNames
    <2> QED BY <2>1, <2>2 DEF Mutexes
  <1> QED BY <1>1, <1>2, <1>4

\* The mutexes are different ones.
LEMMA MutexesDiffer ==
    ASSUME NEW f \in File, NEW g \in File
    PROVE  /\ fd_manager_lock # cache_cleanup_lock
           /\ fd_manager_lock # fdent_lock(f) /\ fd_manager_lock # fdent_data_lock(f)
           /\ cache_cleanup_lock # fdent_lock(f) /\ cache_cleanup_lock # fdent_data_lock(f)
           /\ fdent_lock(f) # fdent_data_lock(g)
           /\ f # g => fdent_lock(f) # fdent_lock(g) /\ fdent_data_lock(f) # fdent_data_lock(g)
  BY DEF fd_manager_lock, cache_cleanup_lock, fdent_lock, fdent_data_lock

Locked(a, m) == [a EXCEPT !.held = @ \cup {m}]
Unlocked(a, m) == [a EXCEPT !.held = @ \ {m}]
Unlocking(m, Q) == {q \in State : Unlocked(q, m) \in Q}

LEMMA LockedType ==
    ASSUME NEW a \in State, NEW m \in Mutexes
    PROVE  /\ Locked(a, m) \in State /\ Unlocked(a, m) \in State
           /\ Locked(a, m).held = a.held \cup {m} /\ Unlocked(a, m).held = a.held \ {m}
           /\ \A b \in {Locked(a, m), Unlocked(a, m)} :
                 /\ b.ent = a.ent /\ b.reserved = a.reserved /\ b.ok = a.ok
                 /\ b.serving = a.serving /\ b.cleaning = a.cleaning /\ b.exiting = a.exiting
  BY DEF Locked, Unlocked, State

\* One call and then others.
LEMMA RunsThen ==
    ASSUME NEW x \in Calls, NEW s \in Seq(Calls), NEW a \in State, NEW Q,
           Pre(x, a), \A b \in After(x, a) : Runs(s, b, Q)
    PROVE  Runs(<< x >> \o s, a, Q)
  <1>1. Runs(<< x >>, a, After(x, a))
    BY RunsOne
  <1>2. << x >> \in Seq(Calls)
    OBVIOUS
  <1>3. \A p \in After(x, a) : p \in State => Runs(s, p, Q)
    OBVIOUS
  <1> QED BY <1>1, <1>2, <1>3, RunsAppend

\* The calls under an AutoLock: they are made with the mutex held, and it is
\* released after them.
LEMMA RunsAutoLock ==
    ASSUME NEW m \in Mutexes, NEW calls \in Seq(Calls), NEW a \in State, NEW Q,
           LockPre(m, a),
           m \notin a.held => Runs(calls, Locked(a, m), Unlocking(m, Q))
    PROVE  /\ AutoLock(m, calls) \in Seq(Calls)
           /\ Runs(AutoLock(m, calls), a, Q)
  <1> DEFINE x == Call("Lock", m[2], m[1])
             y == Call("Unlock", m[2], m[1])
  <1>1. m[1] \in MutexNames /\ m[2] \in File /\ << m[1], m[2] >> = m
    BY MutexTypes
  <1>2. /\ x \in Calls /\ x.fn = "Lock" /\ << x.how, x.file >> = m
        /\ y \in Calls /\ y.fn = "Unlock" /\ << y.how, y.file >> = m
    <2>1. "Lock" \in Names /\ "Unlock" \in Names
      BY DEF Names
    <2>2. m[1] \in Arguments \cup MutexNames
      BY <1>1
    <2> QED BY <1>1, <2>1, <2>2, CallType
  <1> DEFINE s == << x >> \o calls
  <1>3. AutoLock(m, calls) = s \o << y >>
    BY DEF AutoLock
  <1> HIDE DEF x, y
  <1>4. Pre(x, a) /\ Pre(y, a)
    BY <1>2, AtLock, AtUnlock
  <1>5. ASSUME NEW b \in After(x, a) PROVE Runs(calls, b, Unlocking(m, Q))
    <2>1. LockPost(m, a, b)
      BY <1>2, AtLock DEF After
    <2> QED BY <2>1 DEF LockPost, Locked
  <1>6. Runs(s, a, Unlocking(m, Q)) /\ s \in Seq(Calls)
    <2>1. \A b \in After(x, a) : Runs(calls, b, Unlocking(m, Q))
      BY <1>5
    <2>2. << x >> \in Seq(Calls)
      BY <1>2
    <2> QED BY <1>2, <1>4, <2>1, <2>2, RunsThen
  <1>7. ASSUME NEW q \in Unlocking(m, Q) PROVE q \in State => Runs(<< y >>, q, Q)
    <2>1. q \in State /\ Unlocked(q, m) \in Q
      BY DEF Unlocking
    <2>2. \A b \in After(y, q) : b = Unlocked(q, m)
      BY <1>2, AtUnlock DEF After, UnlockPost, Unlocked
    <2>3. Pre(y, q)
      BY <1>2, AtUnlock
    <2> QED BY <1>2, <2>1, <2>2, <2>3, RunsOne
  <1>8. << y >> \in Seq(Calls)
    BY <1>2
  <1> HIDE DEF s
  <1>9. Runs(s \o << y >>, a, Q)
    <2>1. \A q \in Unlocking(m, Q) : q \in State => Runs(<< y >>, q, Q)
      BY <1>7
    <2> QED BY <1>6, <1>8, <2>1, RunsAppend
  <1> QED BY <1>3, <1>6, <1>8, <1>9
-----------------------------------------------------------------------------
(***************************************************************************)
(* The functions that work on one entity: what each of them calls, from    *)
(* its precondition, reaches its postcondition.                            *)
(***************************************************************************)
\* Frame is about what the function does and not about the mutex around it.
LEMMA UnderLock ==
    ASSUME NEW a \in State, NEW m \in Mutexes, m \notin a.held, NEW q \in State, NEW f,
           Frame(Locked(a, m), q, f)
    PROVE  /\ Unlocked(q, m) \in State /\ Frame(a, Unlocked(q, m), f)
           /\ Unlocked(q, m).ok = q.ok /\ Unlocked(q, m).ent = q.ent
  <1>1. Unlocked(q, m) \in State /\ Unlocked(q, m).ok = q.ok /\ Unlocked(q, m).ent = q.ent
    BY LockedType
  <1>2. q.held = a.held \cup {m}
    BY LockedType DEF Frame
  <1>3. Unlocked(q, m).held = q.held \ {m}
    BY LockedType
  <1>4. Unlocked(q, m).held = a.held
    BY <1>2, <1>3
  <1> DEFINE l == Locked(a, m)
             u == Unlocked(q, m)
  <1>5. /\ l.ent = a.ent /\ l.reserved = a.reserved /\ l.serving = a.serving
        /\ l.cleaning = a.cleaning /\ l.exiting = a.exiting
    BY LockedType
  <1>6. /\ u.ent = q.ent /\ u.reserved = q.reserved /\ u.serving = q.serving
        /\ u.cleaning = q.cleaning /\ u.exiting = q.exiting
    BY LockedType
  <1> HIDE DEF l, u
  <1>7. Frame(l, q, f) /\ u.held = a.held
    BY <1>4 DEF l, u
  <1>8. Frame(a, u, f)
    BY <1>5, <1>6, <1>7 DEF Frame
  <1> QED BY <1>1, <1>8 DEF u

LEMMA EntityTypes ==
    ASSUME NEW a \in State, NEW f \in File
    PROVE  /\ a.ent[f] \in Entity /\ a.ent[f].mapped \in BOOLEAN /\ a.ent[f].fd \in BOOLEAN
           /\ a.ent[f].refcnt \in 0 .. 4 /\ a.ent[f].is_modify \in BOOLEAN /\ a.ok \in BOOLEAN
           /\ a.held \subseteq Mutexes
  BY DEF State, Entity

\* FdEntity::Close takes the last reference away: fdent_data_lock, close.
LEMMA DecrementRuns ==
    ASSUME NEW c \in Calls, c.fn = "Decrement", NEW f \in File, c.file = f,
           NEW a \in State, DecrementPre(f, a), a.ent[f].fd, a.ent[f].refcnt = 1,
           NEW b \in State, Frame(a, b, f), b.ok = a.ok,
           b.ent[f] = [a.ent[f] EXCEPT !.refcnt = @ - 1]
    PROVE  Runs(AutoLock(fdent_data_lock(f), << Call("CloseFile", f, "") >>), b, After(c, a))
  <1> DEFINE x == Call("CloseFile", f, "")
             m == fdent_data_lock(f)
             l == Locked(b, m)
  <1>1. x \in Calls /\ x.fn = "CloseFile" /\ x.file = f /\ << x >> \in Seq(Calls)
    <2>1. x \in Calls /\ x.fn = "CloseFile" /\ x.file = f
      BY DEF Call, Calls, Names, Arguments
    <2> HIDE DEF x
    <2> QED BY <2>1
  <1>2. m \in Mutexes /\ m \notin a.held /\ b.held = a.held /\ b.exiting = a.exiting
    BY MutexTypes DEF DecrementPre, Frame
  <1>3. l \in State /\ l.ent = b.ent /\ l.ok = b.ok /\ l.exiting = a.exiting
    BY <1>2, LockedType
  <1> HIDE DEF x, m, l
  <1>4. Pre(x, l)
    BY <1>1, <1>3, AtCloseFile DEF CloseFilePre, DecrementPre
  <1>5. ASSUME NEW q \in After(x, l) PROVE q \in Unlocking(m, After(c, a))
    <2>1. q \in State /\ CloseFilePost(f, l, q)
      BY <1>1, AtCloseFile DEF After
    <2> DEFINE u == Unlocked(q, m)
    <2>2. u \in State /\ Frame(b, u, f) /\ u.ok = q.ok /\ u.ent = q.ent
      BY <1>2, <2>1, UnderLock DEF CloseFilePost, l
    <2> HIDE DEF u
    <2>3. u.ok = a.ok /\ u.ent[f] = [b.ent[f] EXCEPT !.fd = FALSE]
      BY <1>3, <2>1, <2>2 DEF CloseFilePost
    <2>4. /\ u.ent[f].mapped = a.ent[f].mapped /\ u.ent[f].refcnt = a.ent[f].refcnt - 1
          /\ u.ent[f].fd = FALSE
      BY <2>3, EntityTypes DEF Entity
    <2>5. DecrementPost(f, a, u)
      BY <2>2, <2>3, <2>4 DEF DecrementPost, Frame
    <2>6. u \in After(c, a)
      BY <2>2, <2>5, AtDecrement DEF After
    <2> QED BY <2>1, <2>6 DEF Unlocking, u
  <1>6. Runs(<< x >>, l, Unlocking(m, After(c, a)))
    BY <1>1, <1>3, <1>4, <1>5, RunsOne
  <1> QED BY <1>1, <1>2, <1>6, RunsAutoLock DEF LockPre, l, m, x

\* FdEntity::Close
LEMMA EntityCloseRuns ==
    ASSUME NEW c \in Calls, c.fn = "EntityClose", NEW f \in File, c.file = f,
           NEW a \in State, EntityClosePre(f, a)
    PROVE  Runs(AutoLock(fdent_lock(f), << Call("Decrement", f, "") >>), a, After(c, a))
  <1> DEFINE x == Call("Decrement", f, "")
             m == fdent_lock(f)
             l == Locked(a, m)
  <1>1. x \in Calls /\ x.fn = "Decrement" /\ x.file = f /\ << x >> \in Seq(Calls)
    <2>1. x \in Calls /\ x.fn = "Decrement" /\ x.file = f
      BY DEF Call, Calls, Names, Arguments
    <2> HIDE DEF x
    <2> QED BY <2>1
  <1>2. m \in Mutexes /\ m \notin a.held
    BY MutexTypes DEF EntityClosePre
  <1>3. /\ l \in State /\ l.ent = a.ent /\ l.ok = a.ok /\ l.exiting = a.exiting
        /\ l.cleaning = a.cleaning /\ l.held = a.held \cup {m}
    BY <1>2, LockedType
  <1> HIDE DEF x, l
  <1>4. Pre(x, l)
    BY <1>1, <1>3, AtDecrement, MutexesDiffer DEF EntityClosePre, DecrementPre
  <1>5. ASSUME NEW q \in After(x, l) PROVE q \in Unlocking(m, After(c, a))
    <2>1. q \in State /\ DecrementPost(f, l, q)
      BY <1>1, AtDecrement DEF After
    <2> DEFINE u == Unlocked(q, m)
    <2>2. u \in State /\ Frame(a, u, f) /\ u.ok = q.ok /\ u.ent = q.ent
      BY <1>2, <2>1, UnderLock DEF DecrementPost, l
    <2> HIDE DEF u
    <2>3. DecrementPost(f, a, u)
      BY <1>3, <2>1, <2>2 DEF DecrementPost
    <2>4. u \in After(c, a)
      BY <2>2, <2>3, AtEntityClose DEF After
    <2> QED BY <2>1, <2>4 DEF Unlocking, u
  <1>6. Runs(<< x >>, l, Unlocking(m, After(c, a)))
    BY <1>1, <1>3, <1>4, <1>5, RunsOne
  <1> QED BY <1>1, <1>2, <1>6, RunsAutoLock DEF LockPre, l, m, x

\* FdEntity::Open
LEMMA EntityOpenRuns ==
    ASSUME NEW c \in Calls, c.fn = "EntityOpen", NEW f \in File, c.file = f, NEW how, c.how = how,
           NEW a \in State, EntityOpenPre(f, a)
    PROVE  Runs(AutoLock(fdent_lock(f), AutoLock(fdent_data_lock(f), << Call("Opened", f, how) >>)),
                a, After(c, a))
  <1> DEFINE x == Call("Opened", f, how)
             m == fdent_lock(f)
             d == fdent_data_lock(f)
             l == Locked(a, m)
             k == Locked(l, d)
             Q == Unlocking(m, After(c, a))
  <1>1. x \in Calls /\ x.fn = "Opened" /\ x.file = f /\ x.how = how /\ << x >> \in Seq(Calls)
    <2>1. x \in Calls /\ x.fn = "Opened" /\ x.file = f /\ x.how = how
      BY DEF Call, Calls, Names, Arguments
    <2> HIDE DEF x
    <2> QED BY <2>1
  <1>2. m \in Mutexes /\ m \notin a.held /\ d \in Mutexes /\ m # d
    BY MutexTypes, MutexesDiffer DEF EntityOpenPre
  <1>3. /\ l \in State /\ l.ent = a.ent /\ l.cleaning = a.cleaning /\ l.held = a.held \cup {m}
    BY <1>2, LockedType
  <1>4. d \in l.held <=> d \in a.held
    BY <1>2, <1>3
  <1>5. k \in State /\ k.ent = a.ent
    BY <1>2, <1>3, LockedType
  <1>6. LockPre(m, a) /\ LockPre(d, l)
    BY <1>2, <1>3, <1>4 DEF LockPre, EntityOpenPre, DataFree
  <1> HIDE DEF x, m, d, l, k
  <1>7. Pre(x, k)
    BY <1>1, <1>5, AtOpened DEF EntityOpenPre, OpenedPre
  <1>8. ASSUME d \notin l.held PROVE Runs(<< x >>, k, Unlocking(d, Q))
    <2>1. ASSUME NEW q \in After(x, k) PROVE q \in Unlocking(d, Q)
      <3>1. q \in State /\ OpenedPost(f, how, k, q)
        BY <1>1, AtOpened DEF After
      <3> DEFINE u == Unlocked(q, d)
                 v == Unlocked(u, m)
      <3>2. u \in State /\ Frame(l, u, f) /\ u.ok = q.ok /\ u.ent = q.ent
        BY <1>2, <1>3, <1>8, <3>1, UnderLock DEF OpenedPost, k
      <3>3. v \in State /\ Frame(a, v, f) /\ v.ok = q.ok /\ v.ent = q.ent
        BY <1>2, <3>2, UnderLock DEF l
      <3> HIDE DEF u, v
      <3>4. EntityOpenPost(f, how, a, v)
        BY <1>4, <1>5, <1>8, <3>1, <3>3 DEF EntityOpenPost, OpenedPost, d
      <3>5. v \in After(c, a)
        BY <3>3, <3>4, AtEntityOpen DEF After
      <3>6. u \in Q
        BY <3>2, <3>5 DEF Unlocking, v
      <3> QED BY <3>1, <3>6 DEF Unlocking, u
    <2> HIDE DEF Q
    <2> QED BY <1>1, <1>5, <1>7, <2>1, RunsOne
  <1>9. /\ AutoLock(d, << x >>) \in Seq(Calls)
        /\ Runs(AutoLock(d, << x >>), l, Q)
    <2> HIDE DEF Q
    <2> QED BY <1>1, <1>2, <1>3, <1>6, <1>8, RunsAutoLock DEF k
  <1>10. Runs(AutoLock(m, AutoLock(d, << x >>)), a, After(c, a))
    BY <1>2, <1>6, <1>9, RunsAutoLock DEF l
  <1> QED BY <1>10 DEF m, d, x

\* FdManager::Close deletes the entity: its destructor locks both mutexes.
LEMMA EraseRuns ==
    ASSUME NEW c \in Calls, c.fn = "Erase", NEW f \in File, c.file = f,
           NEW a \in State, ErasePre(f, a), ~ a.ent[f].fd,
           NEW b \in State, Frame(a, b, f), b.ok = a.ok, b.ent[f] = NoEntity
    PROVE  Runs(AutoLock(fdent_lock(f), AutoLock(fdent_data_lock(f), <<>>)), b, After(c, a))
  <1> DEFINE m == fdent_lock(f)
             d == fdent_data_lock(f)
             l == Locked(b, m)
             k == Locked(l, d)
             Q == Unlocking(m, After(c, a))
  <1>1. /\ m \in Mutexes /\ d \in Mutexes /\ m # d
        /\ m \notin a.held /\ d \notin a.held /\ b.held = a.held
    BY MutexTypes, MutexesDiffer DEF ErasePre, Frame
  <1>2. l \in State /\ l.held = a.held \cup {m} /\ d \notin l.held /\ l.ent = b.ent /\ l.ok = b.ok
    <2>1. l \in State /\ l.held = b.held \cup {m} /\ l.ent = b.ent /\ l.ok = b.ok
      BY <1>1, LockedType
    <2> HIDE DEF l, m, d
    <2> QED BY <1>1, <2>1
  <1>3. k \in State /\ k.ent = b.ent /\ k.ok = b.ok
    BY <1>1, <1>2, LockedType
  <1>4. LockPre(m, b) /\ LockPre(d, l)
    BY <1>1, <1>2 DEF LockPre
  <1> DEFINE u == Unlocked(k, d)
             v == Unlocked(u, m)
  <1>5. Frame(Locked(l, d), k, f)
    BY DEF Frame
  <1>6. u \in State /\ Frame(l, u, f) /\ u.ok = b.ok /\ u.ent = b.ent
    BY <1>1, <1>2, <1>3, <1>5, UnderLock
  <1>7. v \in State /\ Frame(b, v, f) /\ v.ok = b.ok /\ v.ent = b.ent
    BY <1>1, <1>6, UnderLock
  <1> HIDE DEF m, d, l, k, u, v
  <1>8. ErasePost(f, a, v)
    BY <1>7 DEF ErasePost, Frame
  <1>9. v \in After(c, a)
    BY <1>7, <1>8, AtErase DEF After
  <1>10. u \in Q
    BY <1>6, <1>9 DEF Unlocking, v
  <1>11. k \in Unlocking(d, Q)
    BY <1>3, <1>10 DEF Unlocking, u
  <1> HIDE DEF Q
  <1>12. Runs(<<>>, k, Unlocking(d, Q)) /\ <<>> \in Seq(Calls)
    BY <1>3, <1>11, RunsEnd
  <1>13. AutoLock(d, <<>>) \in Seq(Calls) /\ Runs(AutoLock(d, <<>>), l, Q)
    BY <1>1, <1>2, <1>4, <1>12, RunsAutoLock DEF k
  <1>14. Runs(AutoLock(m, AutoLock(d, <<>>)), b, After(c, a))
    BY <1>1, <1>4, <1>13, RunsAutoLock DEF l, Q
  <1> QED BY <1>14 DEF m, d

\* FdManager::Open
LEMMA OpenRuns ==
    ASSUME NEW c \in Calls, c.fn = "Open", NEW f \in File, c.file = f, NEW how, c.how = how,
           NEW a \in State, OpenPre(f, how, a)
    PROVE  Runs(AutoLock(fd_manager_lock, << Call("Search", f, how) >>), a, After(c, a))
  <1> DEFINE x == Call("Search", f, how)
             m == fd_manager_lock
             l == Locked(a, m)
  <1>1. x \in Calls /\ x.fn = "Search" /\ x.file = f /\ x.how = how /\ << x >> \in Seq(Calls)
    <2>1. x \in Calls /\ x.fn = "Search" /\ x.file = f /\ x.how = how
      BY DEF Call, Calls, Names, Arguments
    <2> HIDE DEF x
    <2> QED BY <2>1
  <1>2. m \in Mutexes /\ m \notin a.held /\ m # fdent_lock(f) /\ m # fdent_data_lock(f)
    BY MutexTypes, MutexesDiffer DEF OpenPre
  <1>3. /\ l \in State /\ l.ent = a.ent /\ l.cleaning = a.cleaning /\ l.held = a.held \cup {m}
    BY <1>2, LockedType
  <1> HIDE DEF x, m, l
  <1>4. Pre(x, l)
    BY <1>1, <1>2, <1>3, AtSearch DEF OpenPre, SearchPre, DataFree
  <1>5. ASSUME NEW q \in After(x, l) PROVE q \in Unlocking(m, After(c, a))
    <2>1. q \in State /\ OpenPost(f, l, q)
      BY <1>1, AtSearch DEF After
    <2> DEFINE u == Unlocked(q, m)
    <2>2. u \in State /\ Frame(a, u, f) /\ u.ok = q.ok /\ u.ent = q.ent
      BY <1>2, <2>1, UnderLock DEF OpenPost, l
    <2> HIDE DEF u
    <2>3. OpenPost(f, a, u)
      BY <1>3, <2>1, <2>2 DEF OpenPost
    <2>4. u \in After(c, a)
      BY <2>2, <2>3, AtOpen DEF After
    <2> QED BY <2>1, <2>4 DEF Unlocking, u
  <1>6. Runs(<< x >>, l, Unlocking(m, After(c, a)))
    BY <1>1, <1>3, <1>4, <1>5, RunsOne
  <1> QED BY <1>1, <1>2, <1>6, RunsAutoLock DEF LockPre, l, m, x

\* Two calls and three.
LEMMA TwoCalls ==
    ASSUME NEW x \in Calls, NEW y \in Calls
    PROVE  << x >> \o << y >> = << x, y >> /\ << x >> \o << y >> \in Seq(Calls)
  <1>1. << x >> \in Seq(Calls) /\ << y >> \in Seq(Calls)
    OBVIOUS
  <1>2. << x >> \o << y >> \in Seq(Calls)
    BY <1>1
  <1>3. << x >> \o << y >> = << x, y >>
    <2> DEFINE s == << x >> \o << y >>
               t == << x, y >>
    <2>1. /\ s \in Seq(Calls) /\ Len(s) = 2
          /\ \A i \in 1 .. 2 : s[i] = IF i <= 1 THEN << x >>[i] ELSE << y >>[i - 1]
      BY <1>1
    <2>2. t \in Seq(Calls) /\ Len(t) = 2 /\ t[1] = x /\ t[2] = y
      OBVIOUS
    <2>3. s[1] = x /\ s[2] = y
      BY <2>1
    <2> HIDE DEF s, t
    <2>4. \A i \in 1 .. Len(s) : s[i] = t[i]
      BY <2>1, <2>2, <2>3
    <2> QED BY <2>1, <2>2, <2>4, SeqEqual DEF s, t
  <1> QED BY <1>2, <1>3

LEMMA ThreeCalls ==
    ASSUME NEW x \in Calls, NEW y \in Calls, NEW z \in Calls
    PROVE  /\ << x >> \o (<< y >> \o << z >>) = << x, y, z >>
           /\ << x >> \o (<< y >> \o << z >>) \in Seq(Calls)
  <1>1. << x >> \in Seq(Calls) /\ << y >> \o << z >> \in Seq(Calls)
    BY TwoCalls
  <1>2. << x >> \o (<< y >> \o << z >>) \in Seq(Calls)
    BY <1>1
  <1>3. << x >> \o << y, z >> = << x, y, z >>
    <2> DEFINE s == << x >> \o << y, z >>
               t == << x, y, z >>
    <2>1. /\ s \in Seq(Calls) /\ Len(s) = 3
          /\ \A i \in 1 .. 3 : s[i] = IF i <= 1 THEN << x >>[i] ELSE << y, z >>[i - 1]
      OBVIOUS
    <2>2. t \in Seq(Calls) /\ Len(t) = 3 /\ t[1] = x /\ t[2] = y /\ t[3] = z
      OBVIOUS
    <2>3. s[1] = x /\ s[2] = y /\ s[3] = z
      BY <2>1
    <2> HIDE DEF s, t
    <2>4. \A i \in 1 .. Len(s) : s[i] = t[i]
      BY <2>1, <2>2, <2>3
    <2> QED BY <2>1, <2>2, <2>4, SeqEqual DEF s, t
  <1> QED BY <1>2, <1>3, TwoCalls

\* One call under an AutoLock.
LEMMA RunsLocked ==
    ASSUME NEW m \in Mutexes, NEW x \in Calls, NEW a \in State, NEW Q, LockPre(m, a),
           m \notin a.held => /\ Pre(x, Locked(a, m))
                              /\ \A q \in After(x, Locked(a, m)) : Unlocked(q, m) \in Q
    PROVE  /\ AutoLock(m, << x >>) \in Seq(Calls)
           /\ Runs(AutoLock(m, << x >>), a, Q)
  <1>1. ASSUME m \notin a.held PROVE Runs(<< x >>, Locked(a, m), Unlocking(m, Q))
    <2>1. Locked(a, m) \in State
      BY LockedType
    <2>2. After(x, Locked(a, m)) \subseteq Unlocking(m, Q)
      BY <1>1 DEF After, Unlocking
    <2> QED BY <1>1, <2>1, <2>2, RunsOne
  <1>2. << x >> \in Seq(Calls)
    OBVIOUS
  <1> QED BY <1>1, <1>2, RunsAutoLock

\* An AutoLock that only waits for what others do under the mutex.
LEMMA RunsWait ==
    ASSUME NEW m \in Mutexes, NEW a \in State, NEW Q, m \notin a.held, a \in Q
    PROVE  /\ AutoLock(m, <<>>) \in Seq(Calls)
           /\ Runs(AutoLock(m, <<>>), a, Q)
  <1> DEFINE l == Locked(a, m)
  <1>1. l \in State /\ Unlocked(l, m) = a
    <2>1. l \in State
      BY LockedType
    <2>2. Unlocked(l, m) = a
      BY DEF Locked, Unlocked, State
    <2> QED BY <2>1, <2>2
  <1> HIDE DEF l
  <1>2. l \in Unlocking(m, Q)
    BY <1>1 DEF Unlocking
  <1>3. Runs(<<>>, l, Unlocking(m, Q)) /\ <<>> \in Seq(Calls)
    BY <1>1, <1>2, RunsEnd
  <1> QED BY <1>3, RunsAutoLock DEF LockPre, l

\* FdManager::Open finds an entity: its own reference, the open, and the
\* reference given back.
LEMMA FoundEntity ==
    ASSUME NEW f \in File, NEW how, NEW a \in State, SearchPre(f, how, a), a.ent[f].mapped,
           NEW b \in State, DupPost(f, a, b),
           NEW q \in State, EntityOpenPost(f, how, b, q)
    PROVE  /\ EntityOpenPre(f, b) /\ EntityClosePre(f, q)
           /\ \A w \in State : DecrementPost(f, q, w) => OpenPost(f, a, w)
  <1> DEFINE e1 == a.ent[f]
             e2 == b.ent[f]
             e3 == q.ent[f]
  <1>1. /\ e1.mapped \in BOOLEAN /\ e1.fd \in BOOLEAN /\ e1.refcnt \in 0 .. 4
        /\ e2.mapped \in BOOLEAN /\ e2.fd \in BOOLEAN /\ e2.refcnt \in 0 .. 4
        /\ e3.mapped \in BOOLEAN /\ e3.fd \in BOOLEAN /\ e3.refcnt \in 0 .. 4
        /\ q.ok \in BOOLEAN
    BY EntityTypes
  <1>2. e1 \in Entity
    BY EntityTypes
  <1>3. /\ e2.mapped <=> e1.mapped
        /\ e2.fd <=> e1.fd
        /\ e2.refcnt = IF e1.fd THEN e1.refcnt + 1 ELSE e1.refcnt
    BY <1>2 DEF DupPost, Entity
  <1>4. OpenedTo(how, e2, e3, q.ok)
    BY DEF EntityOpenPost, OpenedPost
  <1>5. /\ f = Own => e1.fd /\ e1.refcnt \in 1 .. 2
        /\ f # Own => Idle(e1) /\ a.cleaning /\ how = "nowait"
    BY DEF SearchPre, IsOpen, NoEntity
  <1>6. /\ b.held = a.held /\ q.held = a.held /\ q.cleaning = a.cleaning /\ b.cleaning = a.cleaning
        /\ q.exiting = a.exiting
    BY DEF DupPost, EntityOpenPost, OpenedPost, Frame
  <1>7. fdent_lock(f) \notin a.held /\ DataFree(f, a) /\ fdent_data_lock(f) \notin b.held
    BY DEF SearchPre, EntityOpenPost
  <1> HIDE DEF e1, e2, e3
  <1>8. f # Own => e1.refcnt = 0 /\ (~ e1.fd => "open" \in Faults)
    BY <1>5 DEF Idle, e1
  <1>9. e2.refcnt <= 3
    BY <1>1, <1>3, <1>5, <1>8
  <1>10. EntityOpenPre(f, b)
    BY <1>6, <1>7, <1>9 DEF EntityOpenPre, DataFree, OpenedPre, e2
  <1>11. /\ e3.mapped
         /\ f = Own => e3.fd /\ e3.refcnt = e1.refcnt + 1 + Bit(q.ok)
         /\ f # Own /\ e1.fd => q.ok /\ e3.fd /\ e3.refcnt = 2
         /\ f # Own /\ ~ e1.fd /\ q.ok => e3.fd /\ e3.refcnt = 1
         /\ f # Own /\ ~ e1.fd /\ ~ q.ok => e3.refcnt = 0 /\ (e3.fd => "link" \in Faults)
    <2>1. e3.mapped
      BY <1>3, <1>4 DEF OpenedTo, e1
    <2>2. CASE f = Own
      BY <1>1, <1>3, <1>4, <1>5, <2>1, <2>2 DEF OpenedTo, Bit
    <2>3. CASE f # Own
      BY <1>1, <1>3, <1>4, <1>5, <1>8, <2>1, <2>3 DEF OpenedTo
    <2> QED BY <2>2, <2>3
  <1>12. Bit(q.ok) \in 0 .. 1
    BY DEF Bit
  <1>13. DecrementPre(f, q)
    <2>1. e3.fd /\ e3.refcnt = 0 => f # Own /\ {"open", "link"} \subseteq Faults /\ q.cleaning
      BY <1>1, <1>5, <1>6, <1>8, <1>11, <1>12
    <2>2. f = Own => e3.refcnt >= 2
      BY <1>1, <1>5, <1>11, <1>12
    <2> QED BY <1>6, <1>7, <2>1, <2>2 DEF DecrementPre, e3
  <1>14. EntityClosePre(f, q)
    BY <1>6, <1>7, <1>13 DEF EntityClosePre
  <1>15. ASSUME NEW w \in State, DecrementPost(f, q, w) PROVE OpenPost(f, a, w)
    <2> DEFINE e4 == w.ent[f]
    <2>1. Frame(a, w, f)
      BY <1>15 DEF DecrementPost, DupPost, EntityOpenPost, OpenedPost, Frame
    <2>2. /\ e4.mapped \in BOOLEAN /\ e4.fd \in BOOLEAN /\ e4.refcnt \in 0 .. 4
          /\ w.ok \in BOOLEAN
      BY EntityTypes
    <2>3. /\ w.ok <=> q.ok
          /\ ~ e3.fd => e4 = e3
          /\ e3.fd => /\ e3.refcnt > 0 /\ (e4.mapped <=> e3.mapped)
                      /\ e4.refcnt = e3.refcnt - 1 /\ (e4.fd <=> e3.refcnt > 1)
      BY <1>15 DEF DecrementPost, e3
    <2> HIDE DEF e4
    <2>4. fdent_data_lock(f) \notin a.held
      BY <1>6, <1>7
    <2>5. f = Own => e4.mapped /\ e4.fd /\ e4.refcnt = e1.refcnt + Bit(w.ok)
      <3> SUFFICES ASSUME f = Own PROVE e4.mapped /\ e4.fd /\ e4.refcnt = e1.refcnt + Bit(w.ok)
        OBVIOUS
      <3>1. Bit(q.ok) = Bit(w.ok)
        BY <2>3 DEF Bit
      <3> QED BY <1>1, <1>5, <1>11, <1>12, <2>2, <2>3, <3>1
    <2>6. f # Own /\ w.ok => e4.mapped /\ (e4.fd => e4.refcnt = 1) /\ (~ e4.fd => e4.refcnt = 0)
      BY <1>1, <1>11, <2>2, <2>3
    <2>7. f # Own /\ ~ w.ok => e4.refcnt = 0 /\ e4.mapped /\ "open" \in Faults
      BY <1>1, <1>8, <1>11, <2>2, <2>3
    <2>8. f # Own /\ w.ok => OpenedOnce(e4)
      BY <2>6 DEF OpenedOnce, Bit
    <2>9. f # Own /\ ~ w.ok => Idle(e4)
      BY <2>7 DEF Idle
    <2>10. e1 # NoEntity
      BY DEF e1, NoEntity
    <2> QED BY <2>1, <2>4, <2>5, <2>8, <2>9, <2>10 DEF OpenPost, IsOpen, e1, e4
  <1> QED BY <1>10, <1>14, <1>15

\* FdManager::Open, the entity is in fent.
LEMMA SearchFinds ==
    ASSUME NEW c \in Calls, c.fn = "Search", NEW f \in File, c.file = f, NEW how, c.how = how,
           NEW a \in State, SearchPre(f, how, a), a.ent[f].mapped
    PROVE  Runs(AutoLock(fdent_lock(f), << Call("Dup", f, "") >>)
                  \o << Call("EntityOpen", f, how), Call("EntityClose", f, "") >>,
                a, After(c, a))
  <1> DEFINE x == Call("Dup", f, "")
             y == Call("EntityOpen", f, how)
             z == Call("EntityClose", f, "")
             m == fdent_lock(f)
             l == Locked(a, m)
             P == {b \in State : DupPost(f, a, b)}
             Q == After(c, a)
  <1>1. x \in Calls /\ x.fn = "Dup" /\ x.file = f
    BY DEF Call, Calls, Names, Arguments
  <1>2. y \in Calls /\ y.fn = "EntityOpen" /\ y.file = f /\ y.how = how
    BY DEF Call, Calls, Names, Arguments
  <1>3. z \in Calls /\ z.fn = "EntityClose" /\ z.file = f
    BY DEF Call, Calls, Names, Arguments
  <1>4. m \in Mutexes /\ m \notin a.held
    BY MutexTypes DEF SearchPre
  <1>5. l \in State /\ l.ent = a.ent /\ l.ok = a.ok
    BY <1>4, LockedType
  <1> HIDE DEF x, y, z, m, l, Q
  <1>6. a.ent[f].refcnt <= 2
    BY EntityTypes DEF SearchPre, Idle, NoEntity
  <1>7. Pre(x, l)
    BY <1>1, <1>5, <1>6, AtDup DEF DupPre
  <1>8. ASSUME NEW q \in After(x, l) PROVE Unlocked(q, m) \in P
    <2>1. q \in State /\ DupPost(f, l, q)
      BY <1>1, AtDup DEF After
    <2> DEFINE u == Unlocked(q, m)
    <2>2. u \in State /\ Frame(a, u, f) /\ u.ok = q.ok /\ u.ent = q.ent
      BY <1>4, <2>1, UnderLock DEF DupPost, l
    <2> HIDE DEF u
    <2>3. DupPost(f, a, u)
      BY <1>5, <2>1, <2>2 DEF DupPost
    <2> QED BY <2>2, <2>3 DEF u
  <1>9. LockPre(m, a)
    BY <1>4 DEF LockPre
  <1>10. AutoLock(m, << x >>) \in Seq(Calls) /\ Runs(AutoLock(m, << x >>), a, P)
    <2> HIDE DEF P
    <2> QED BY <1>1, <1>4, <1>7, <1>8, <1>9, RunsLocked DEF l
  <1>11. ASSUME NEW b \in P PROVE b \in State => Runs(<< y >> \o << z >>, b, Q)
    <2>1. b \in State /\ DupPost(f, a, b)
      OBVIOUS
    <2>2. Pre(y, b)
      <3>1. fdent_lock(f) \notin a.held /\ DataFree(f, a)
        BY DEF SearchPre
      <3>2. b.held = a.held /\ b.cleaning = a.cleaning
        BY <2>1 DEF DupPost, Frame
      <3>3. a.ent[f] \in Entity /\ a.ent[f].refcnt \in 0 .. 4
        BY EntityTypes
      <3>4. b.ent[f].refcnt <= 3
        BY <1>6, <2>1, <3>3 DEF DupPost, Entity
      <3>5. EntityOpenPre(f, b)
        BY <3>1, <3>2, <3>4 DEF EntityOpenPre, DataFree, OpenedPre
      <3> QED BY <1>2, <3>5, AtEntityOpen
    <2>3. ASSUME NEW q \in After(y, b) PROVE Runs(<< z >>, q, Q)
      <3>1. q \in State /\ EntityOpenPost(f, how, b, q)
        BY <1>2, AtEntityOpen DEF After
      <3>2. EntityClosePre(f, q) /\ \A w \in State : DecrementPost(f, q, w) => OpenPost(f, a, w)
        BY <2>1, <3>1, FoundEntity
      <3>3. Pre(z, q)
        BY <1>3, <3>2, AtEntityClose
      <3>4. After(z, q) \subseteq Q
        BY <1>3, <3>2, AtEntityClose, AtSearch DEF After, Q
      <3> QED BY <1>3, <3>1, <3>3, <3>4, RunsOne
    <2>4. \A q \in After(y, b) : Runs(<< z >>, q, Q)
      BY <2>3
    <2>5. << z >> \in Seq(Calls)
      BY <1>3
    <2> QED BY <1>2, <2>1, <2>2, <2>4, <2>5, RunsThen
  <1>12. << y >> \o << z >> \in Seq(Calls) /\ << y >> \o << z >> = << y, z >>
    BY <1>2, <1>3, TwoCalls
  <1>13. Runs(AutoLock(m, << x >>) \o (<< y >> \o << z >>), a, Q)
    <2>1. \A b \in P : b \in State => Runs(<< y >> \o << z >>, b, Q)
      BY <1>11
    <2> HIDE DEF P
    <2> QED BY <1>10, <1>12, <2>1, RunsAppend
  <1> QED BY <1>12, <1>13 DEF x, y, z, m, Q

\* FdManager::Open, a new entity.
LEMMA SearchInserts ==
    ASSUME NEW c \in Calls, c.fn = "Search", NEW f \in File, c.file = f, NEW how, c.how = how,
           NEW a \in State, SearchPre(f, how, a), ~ a.ent[f].mapped,
           NEW b \in State, Frame(a, b, f), b.ok = a.ok,
           b.ent[f] = [a.ent[f] EXCEPT !.mapped = TRUE]
    PROVE  Runs(<< Call("EntityOpen", f, how) >>, b, After(c, a))
  <1> DEFINE y == Call("EntityOpen", f, how)
             e1 == a.ent[f]
             e2 == b.ent[f]
  <1>1. y \in Calls /\ y.fn = "EntityOpen" /\ y.file = f /\ y.how = how
    BY DEF Call, Calls, Names, Arguments
  <1>2. /\ e2.mapped /\ (e2.fd <=> e1.fd) /\ e2.refcnt = e1.refcnt
        /\ e1.refcnt \in 0 .. 4 /\ e1.fd \in BOOLEAN
    BY EntityTypes DEF Entity
  <1>3. ~ e1.fd /\ e1.refcnt = 0 /\ (f = Own => e1 = NoEntity)
    BY DEF SearchPre, IsOpen, NoEntity, Idle
  <1>4. /\ fdent_lock(f) \notin a.held /\ DataFree(f, a)
        /\ b.held = a.held /\ b.cleaning = a.cleaning
    BY DEF SearchPre, Frame
  <1> HIDE DEF y, e1, e2
  <1>5. EntityOpenPre(f, b)
    BY <1>2, <1>3, <1>4 DEF EntityOpenPre, DataFree, OpenedPre, e2
  <1>6. ASSUME NEW q \in After(y, b) PROVE q \in After(c, a)
    <2> DEFINE e3 == q.ent[f]
    <2>1. q \in State /\ EntityOpenPost(f, how, b, q)
      BY <1>1, AtEntityOpen DEF After
    <2>2. fdent_data_lock(f) \notin a.held /\ Frame(a, q, f) /\ OpenedTo(how, e2, e3, q.ok)
      BY <1>4, <2>1 DEF EntityOpenPost, OpenedPost, Frame, e2
    <2>3. /\ e3.mapped \in BOOLEAN /\ e3.fd \in BOOLEAN /\ e3.refcnt \in 0 .. 4
          /\ q.ok \in BOOLEAN
      BY <2>1, EntityTypes
    <2> HIDE DEF e3
    <2>4. /\ e3.mapped
          /\ q.ok => e3.fd /\ e3.refcnt = 1
          /\ ~ q.ok => e3.refcnt = 0 /\ (~ e3.fd => "open" \in Faults)
      BY <1>2, <1>3, <2>2, <2>3 DEF OpenedTo
    <2>5. q.ok => IsOpen(e3) /\ OpenedOnce(e3)
      BY <2>4 DEF IsOpen, OpenedOnce, Bit
    <2>6. ~ q.ok => Idle(e3)
      BY <2>4 DEF Idle
    <2>7. OpenPost(f, a, q)
      BY <1>3, <2>2, <2>4, <2>5, <2>6 DEF OpenPost, IsOpen, e1, e3
    <2> QED BY <2>1, <2>7, AtSearch DEF After
  <1>7. Pre(y, b)
    BY <1>1, <1>5, AtEntityOpen
  <1>8. After(y, b) \subseteq After(c, a)
    BY <1>6
  <1> QED BY <1>1, <1>7, <1>8, RunsOne DEF y

\* FdManager::Close
LEMMA CloseRuns ==
    ASSUME NEW c \in Calls, c.fn = "Close", NEW f \in File, c.file = f,
           NEW a \in State, ClosePre(f, a)
    PROVE  Runs(AutoLock(fd_manager_lock, << Call("EntityClose", f, ""), Call("Erase", f, "") >>),
                a, After(c, a))
  <1> DEFINE y == Call("EntityClose", f, "")
             z == Call("Erase", f, "")
             m == fd_manager_lock
             l == Locked(a, m)
             Q == Unlocking(m, After(c, a))
  <1>1. y \in Calls /\ y.fn = "EntityClose" /\ y.file = f
    BY DEF Call, Calls, Names, Arguments
  <1>2. z \in Calls /\ z.fn = "Erase" /\ z.file = f
    BY DEF Call, Calls, Names, Arguments
  <1>3. m \in Mutexes /\ m \notin a.held /\ m # fdent_lock(f) /\ m # fdent_data_lock(f)
    BY MutexTypes, MutexesDiffer DEF ClosePre
  <1>4. /\ l \in State /\ l.ent = a.ent /\ l.ok = a.ok /\ l.held = a.held \cup {m}
        /\ l.exiting = a.exiting /\ l.cleaning = a.cleaning
    BY <1>3, LockedType
  <1> HIDE DEF y, z, m, l
  <1> DEFINE e1 == a.ent[f]
  <1>5. e1.mapped \in BOOLEAN /\ e1.fd \in BOOLEAN /\ e1.refcnt \in 0 .. 4
    BY EntityTypes
  <1>6. /\ e1.mapped /\ (e1.fd => e1.refcnt >= 1)
        /\ f = Own => e1.fd /\ (e1.refcnt >= 2 \/ a.exiting)
        /\ (e1.fd /\ e1.refcnt > 1) \/ fdent_data_lock(f) \notin l.held
        /\ fdent_lock(f) \notin l.held
    BY <1>3, <1>4 DEF ClosePre
  <1> HIDE DEF e1
  <1>7. EntityClosePre(f, l)
    <2>1. l.ent[f] = e1
      BY <1>4 DEF e1
    <2> QED BY <1>4, <1>5, <1>6, <2>1 DEF EntityClosePre, DecrementPre
  <1>8. ASSUME NEW q \in After(y, l) PROVE Runs(<< z >>, q, Q)
    <2> DEFINE e2 == q.ent[f]
    <2>1. q \in State /\ DecrementPost(f, l, q)
      BY <1>1, AtEntityClose DEF After
    <2>2. /\ e2.mapped \in BOOLEAN /\ e2.fd \in BOOLEAN /\ e2.refcnt \in 0 .. 4
      BY <2>1, EntityTypes
    <2>3. /\ Frame(l, q, f) /\ q.ok = a.ok
          /\ ~ e1.fd => e2 = e1
          /\ e1.fd => /\ e1.refcnt > 0 /\ (e2.mapped <=> e1.mapped)
                      /\ e2.refcnt = e1.refcnt - 1 /\ (e2.fd <=> e1.refcnt > 1)
      BY <1>4, <2>1 DEF DecrementPost, e1
    <2> HIDE DEF e2
    <2>4. q.held = l.held
      BY <2>3 DEF Frame
    <2>5. ErasePre(f, q)
      <3>1. CASE e2.fd
        BY <3>1 DEF ErasePre, e2
      <3>2. CASE ~ e2.fd
        <4>1. ~ (e1.fd /\ e1.refcnt > 1)
          BY <2>3, <3>2
        <4> QED BY <1>6, <2>4, <4>1 DEF ErasePre
      <3> QED BY <3>1, <3>2
    <2>6. ASSUME NEW w \in After(z, q) PROVE w \in Q
      <3> DEFINE u == Unlocked(w, m)
      <3>1. w \in State /\ ErasePost(f, q, w)
        BY <1>2, AtErase DEF After
      <3>2. Frame(l, w, f) /\ w.ok = a.ok /\ w.ent[f] = IF e2.fd THEN e2 ELSE NoEntity
        BY <2>3, <3>1 DEF ErasePost, Frame, e2
      <3>3. u \in State /\ Frame(a, u, f) /\ u.ok = w.ok /\ u.ent = w.ent
        BY <1>3, <3>1, <3>2, UnderLock DEF l
      <3> HIDE DEF u
      <3>4. e1.fd /\ e1.refcnt > 1 => u.ent[f] = e2 /\ IsOpen(e2) /\ e2.refcnt = e1.refcnt - 1
        BY <1>6, <2>3, <3>2, <3>3 DEF IsOpen
      <3>5. ~ (e1.fd /\ e1.refcnt > 1) => u.ent[f] = NoEntity
        BY <2>3, <3>2, <3>3
      <3>6. ClosePost(f, a, u)
        BY <3>2, <3>3, <3>4, <3>5 DEF ClosePost, e1
      <3>7. u \in After(c, a)
        BY <3>3, <3>6, AtClose DEF After
      <3> QED BY <3>1, <3>7 DEF Unlocking, u
    <2>7. Pre(z, q)
      BY <1>2, <2>5, AtErase
    <2>8. After(z, q) \subseteq Q
      BY <2>6
    <2> HIDE DEF Q
    <2> QED BY <1>2, <2>1, <2>7, <2>8, RunsOne
  <1> HIDE DEF Q
  <1>9. Runs(<< y >> \o << z >>, l, Q)
    <2>1. Pre(y, l)
      BY <1>1, <1>7, AtEntityClose
    <2>2. \A q \in After(y, l) : Runs(<< z >>, q, Q)
      BY <1>8
    <2>3. << z >> \in Seq(Calls)
      BY <1>2
    <2> QED BY <1>1, <1>4, <2>1, <2>2, <2>3, RunsThen
  <1>10. << y >> \o << z >> = << y, z >> /\ << y, z >> \in Seq(Calls)
    BY <1>1, <1>2, TwoCalls
  <1>11. Runs(<< y, z >>, l, Q)
    BY <1>9, <1>10
  <1> QED BY <1>3, <1>10, <1>11, RunsAutoLock DEF LockPre, l, m, y, z, Q
-----------------------------------------------------------------------------
(***************************************************************************)
(* The functions that work on all entities, and the handlers.              *)
(***************************************************************************)
\* The states like a with these mutexes and n references to the open file.
Like(a, mutexes, n) == {b \in State : In(b, mutexes, n, 0) /\ b.serving = a.serving}

LEMMA InLocked ==
    ASSUME NEW a \in State, NEW m \in Mutexes, NEW mutexes, NEW n, NEW space
    PROVE  /\ In(a, mutexes, n, space) => In(Locked(a, m), mutexes \cup {m}, n, space)
           /\ m \notin mutexes /\ In(a, mutexes \cup {m}, n, space)
                => In(Unlocked(a, m), mutexes, n, space)
  <1> DEFINE l == Locked(a, m)
             u == Unlocked(a, m)
  <1>1. /\ l.held = a.held \cup {m} /\ l.ent = a.ent /\ l.reserved = a.reserved
        /\ l.cleaning = a.cleaning /\ l.exiting = a.exiting
    BY LockedType
  <1>2. /\ u.held = a.held \ {m} /\ u.ent = a.ent /\ u.reserved = a.reserved
        /\ u.cleaning = a.cleaning /\ u.exiting = a.exiting
    BY LockedType
  <1> HIDE DEF l, u
  <1>3. In(a, mutexes, n, space) => In(l, mutexes \cup {m}, n, space)
    BY <1>1 DEF In, Steady
  <1>4. ASSUME m \notin mutexes, In(a, mutexes \cup {m}, n, space)
        PROVE  In(u, mutexes, n, space)
    <2>1. u.held = mutexes
      BY <1>2, <1>4 DEF In
    <2> QED BY <1>2, <1>4, <2>1 DEF In, Steady
  <1> QED BY <1>3, <1>4 DEF l, u

\* A function that works under fdent_data_lock.
LEMMA UnderData ==
    ASSUME NEW x \in Calls, NEW n, NEW a \in State, In(a, {}, n, 0),
           \A b \in State : In(b, {data}, n, 0) => Pre(x, b),
           \A b \in State : \A q \in After(x, b) : Same(b, q) /\ q.reserved = 0
    PROVE  /\ AutoLock(data, << x >>) \in Seq(Calls)
           /\ Runs(AutoLock(data, << x >>), a, Like(a, {}, n))
  <1> DEFINE m == data
             l == Locked(a, m)
  <1>1. m \in Mutexes
    BY MutexTypes DEF data
  <1>2. l \in State /\ l.serving = a.serving /\ In(l, {} \cup {m}, n, 0)
    BY <1>1, InLocked, LockedType
  <1>3. LockPre(m, a)
    BY DEF In, LockPre
  <1>4. In(l, {m}, n, 0)
    <2>1. {} \cup {m} = {m}
      OBVIOUS
    <2> QED BY <1>2, <2>1
  <1> HIDE DEF l
  <1>5. Pre(x, l)
    BY <1>2, <1>4
  <1>6. ASSUME NEW q \in After(x, l) PROVE Unlocked(q, m) \in Like(a, {}, n)
    <2>1. q \in State /\ Same(l, q) /\ q.reserved = 0
      BY <1>2 DEF After
    <2>2. In(q, {} \cup {m}, n, 0) /\ q.serving = a.serving
      <3>1. l.held = {m} /\ l.ent[Own].refcnt = n /\ {} \cup {m} = {m}
        BY <1>4 DEF In, Steady
      <3> QED BY <1>2, <2>1, <3>1 DEF Same
    <2>3. In(Unlocked(q, m), {}, n, 0) /\ Unlocked(q, m) \in State /\ Unlocked(q, m).serving = q.serving
      BY <1>1, <2>1, <2>2, InLocked, LockedType
    <2> QED BY <2>2, <2>3 DEF Like
  <1> HIDE DEF m
  <1>7. AutoLock(m, << x >>) \in Seq(Calls) /\ Runs(AutoLock(m, << x >>), a, Like(a, {}, n))
    BY <1>1, <1>3, <1>5, <1>6, RunsLocked DEF l
  <1> QED BY <1>7 DEF m

\* FdManager::CleanupCacheDir
LEMMA CleanupCacheDirRuns ==
    ASSUME NEW c \in Calls, c.fn = "CleanupCacheDir",
           NEW a \in State, NEW mutexes \in Outside, In(a, mutexes, 2, 0)
    PROVE  Runs(AutoLock(cache_cleanup_lock, << Call("Scan", Own, "") >>), a, After(c, a))
  <1> DEFINE x == Call("Scan", Own, "")
             m == cache_cleanup_lock
             l == Locked(a, m)
  <1>1. x \in Calls /\ x.fn = "Scan"
    BY MutexTypes DEF Call, Calls, Names, Arguments
  <1>2. m \in Mutexes /\ m \notin mutexes
    BY MutexTypes, MutexesDiffer DEF Outside, data
  <1>3. l \in State /\ l.serving = a.serving /\ In(l, mutexes \cup {m}, 2, 0)
    BY <1>2, InLocked, LockedType
  <1>4. LockPre(m, a)
    BY <1>2 DEF In, LockPre
  <1> HIDE DEF x, l
  <1>5. Pre(x, l)
    BY <1>1, <1>3, AtScan
  <1>6. ASSUME NEW q \in After(x, l) PROVE Unlocked(q, m) \in After(c, a)
    <2> DEFINE u == Unlocked(q, m)
    <2>1. q \in State /\ Same(l, q) /\ q.reserved = 0
      BY <1>1, AtScan DEF After
    <2>2. In(q, mutexes \cup {m}, 2, 0) /\ q.serving = a.serving
      BY <1>3, <2>1 DEF Same, In, Steady
    <2>3. In(u, mutexes, 2, 0) /\ u \in State /\ u.serving = q.serving
      BY <1>2, <2>1, <2>2, InLocked, LockedType
    <2> HIDE DEF u
    <2>4. Same(a, u) /\ u.reserved = 0
      BY <2>2, <2>3 DEF Same, In, Steady
    <2>5. u \in After(c, a)
      BY <2>3, <2>4, AtCleanupCacheDir DEF After
    <2> QED BY <2>5 DEF u
  <1> HIDE DEF m
  <1>7. Runs(AutoLock(m, << x >>), a, After(c, a))
    BY <1>1, <1>2, <1>4, <1>5, <1>6, RunsLocked DEF l
  <1> QED BY <1>7 DEF m, x

\* The file that is scanned is opened.
LEMMA ScanOpens ==
    ASSUME NEW f \in File, NEW mutexes \in Outside, NEW a \in State, NEW b \in State,
           In(a, mutexes \cup {cache_cleanup_lock}, 2, 0), b = [a EXCEPT !.cleaning = TRUE]
    PROVE  /\ OpenPre(f, "nowait", b)
           /\ \A q \in State : OpenPost(f, b, q) => CleanupFilePre(f, q) /\ q.held = a.held
                                                      /\ q.serving = a.serving
  <1>1. /\ b.ent = a.ent /\ b.held = mutexes \cup {cache_cleanup_lock} /\ b.cleaning = TRUE
        /\ b.reserved = 0 /\ b.exiting = a.exiting /\ ~ b.exiting
        /\ b.held = a.held /\ b.serving = a.serving
    BY DEF State, In, Steady
  <1>2. /\ IsOpen(b.ent[Own]) /\ b.ent[Own].refcnt = 2
        /\ \A g \in Others : Idle(b.ent[g])
    BY <1>1 DEF In, Steady
  <1>3. /\ fd_manager_lock \notin b.held /\ fdent_lock(f) \notin b.held
        /\ fdent_data_lock(f) \in b.held => f = Own /\ "full" \in Faults
    BY <1>1, MutexTypes, MutexesDiffer DEF Outside, data
  <1>4. OpenPre(f, "nowait", b)
    BY <1>1, <1>2, <1>3 DEF OpenPre, SearchPre, DataFree, File
  <1>5. ASSUME NEW q \in State, OpenPost(f, b, q)
        PROVE  CleanupFilePre(f, q) /\ q.held = a.held /\ q.serving = a.serving
    <2>1. /\ q.held = b.held /\ q.reserved = 0 /\ q.cleaning = TRUE /\ ~ q.exiting
          /\ q.serving = a.serving
          /\ \A g \in File \ {f} : q.ent[g] = b.ent[g]
      BY <1>1, <1>5 DEF OpenPost, Frame
    <2>2. fdent_data_lock(f) \notin q.held
      BY <1>5, <2>1 DEF OpenPost
    <2>3. \A g \in Others \ {f} : Idle(q.ent[g])
      BY <1>2, <2>1 DEF File
    <2>4. f # Own => (q.ok => OpenedOnce(q.ent[f])) /\ (~ q.ok => Idle(q.ent[f]))
      BY <1>5 DEF OpenPost
    <2>5. /\ IsOpen(q.ent[Own])
          /\ q.ent[Own].refcnt = 2 + (IF f = Own THEN Bit(q.ok) ELSE 0)
      <3>1. CASE f = Own
        BY <1>2, <1>5, <3>1 DEF OpenPost
      <3>2. CASE f # Own
        BY <1>2, <2>1, <3>2 DEF File
      <3> QED BY <3>1, <3>2
    <2>6. CleanupFilePre(f, q)
      BY <1>1, <2>1, <2>2, <2>3, <2>4, <2>5 DEF CleanupFilePre
    <2> QED BY <1>1, <2>1, <2>6
  <1> QED BY <1>4, <1>5

\* The loop of CleanupCacheDirInternal
LEMMA ScanRuns ==
    ASSUME NEW c \in Calls, c.fn = "Scan", NEW f \in File, NEW mutexes \in Outside,
           NEW a \in State, In(a, mutexes \cup {cache_cleanup_lock}, 2, 0),
           NEW b \in State, b = [a EXCEPT !.cleaning = TRUE]
    PROVE  Runs(<< Call("Open", f, "nowait"), Call("CleanupFile", f, ""), Call("Scan", Own, "") >>,
                b, After(c, a))
  <1> DEFINE x == Call("Open", f, "nowait")
             y == Call("CleanupFile", f, "")
             z == Call("Scan", Own, "")
  <1>1. x \in Calls /\ x.fn = "Open" /\ x.file = f /\ x.how = "nowait"
    BY DEF Call, Calls, Names, Arguments
  <1>2. y \in Calls /\ y.fn = "CleanupFile" /\ y.file = f
    BY DEF Call, Calls, Names, Arguments
  <1>3. z \in Calls /\ z.fn = "Scan"
    BY MutexTypes DEF Call, Calls, Names, Arguments
  <1> HIDE DEF x, y, z
  <1>4. ASSUME NEW w \in State, In(w, mutexes \cup {cache_cleanup_lock}, 2, 0),
               w.serving = a.serving
        PROVE  Runs(<< z >>, w, After(c, a))
    <2>1. Pre(z, w)
      BY <1>3, <1>4, AtScan
    <2>2. ASSUME NEW q \in After(z, w) PROVE q \in After(c, a)
      <3>1. q \in State /\ Same(w, q) /\ q.reserved = 0
        BY <1>3, AtScan DEF After
      <3>2. Same(a, q)
        BY <1>4, <3>1 DEF Same, In, Steady
      <3> QED BY <3>1, <3>2, AtScan DEF After
    <2>3. After(z, w) \subseteq After(c, a)
      BY <2>2
    <2> QED BY <1>3, <2>1, <2>3, RunsOne
  <1>5. ASSUME NEW q \in After(x, b) PROVE Runs(<< y >> \o << z >>, q, After(c, a))
    <2>1. q \in State /\ OpenPost(f, b, q)
      BY <1>1, AtOpen DEF After
    <2>2. CleanupFilePre(f, q) /\ q.held = a.held /\ q.serving = a.serving
      BY <2>1, ScanOpens
    <2>3. Pre(y, q)
      BY <1>2, <2>2, AtCleanupFile
    <2>4. ASSUME NEW w \in After(y, q) PROVE Runs(<< z >>, w, After(c, a))
      <3>1. w \in State /\ CleanupFilePost(q, w)
        BY <1>2, AtCleanupFile DEF After
      <3>2. In(w, mutexes \cup {cache_cleanup_lock}, 2, 0) /\ w.serving = a.serving
        BY <2>2, <3>1 DEF CleanupFilePost, In
      <3> QED BY <1>4, <3>1, <3>2
    <2>5. \A w \in After(y, q) : Runs(<< z >>, w, After(c, a))
      BY <2>4
    <2>6. << z >> \in Seq(Calls)
      BY <1>3
    <2> QED BY <1>2, <2>1, <2>3, <2>5, <2>6, RunsThen
  <1>6. Pre(x, b)
    BY <1>1, AtOpen, ScanOpens
  <1>7. << y >> \o << z >> \in Seq(Calls)
    BY <1>2, <1>3, TwoCalls
  <1>8. \A q \in After(x, b) : Runs(<< y >> \o << z >>, q, After(c, a))
    BY <1>5
  <1>9. Runs(<< x >> \o (<< y >> \o << z >>), b, After(c, a))
    BY <1>1, <1>6, <1>7, <1>8, RunsThen
  <1>10. << x >> \o (<< y >> \o << z >>) = << x, y, z >>
    BY <1>1, <1>2, <1>3, ThreeCalls
  <1> QED BY <1>9, <1>10 DEF x, y, z

\* FdManager::CleanupCacheDirInternal is done with a file it could open.
LEMMA CleanupFileRuns ==
    ASSUME NEW c \in Calls, c.fn = "CleanupFile", NEW f \in File, c.file = f,
           NEW a \in State, CleanupFilePre(f, a),
           NEW b \in State, b = [a EXCEPT !.cleaning = FALSE]
    PROVE  /\ a.ok => Runs(<< Call("Close", f, "") >>, b, After(c, a))
           /\ ~ a.ok => Post(c, a, b)
  <1>1. /\ b.ent = a.ent /\ b.held = a.held /\ b.cleaning = FALSE /\ b.ok = a.ok
        /\ b.reserved = a.reserved /\ b.exiting = a.exiting /\ b.serving = a.serving
    BY DEF State
  <1>2. /\ b.reserved = 0 /\ ~ b.exiting /\ fdent_data_lock(f) \notin b.held
        /\ IsOpen(b.ent[Own])
        /\ b.ent[Own].refcnt = 2 + (IF f = Own THEN Bit(a.ok) ELSE 0)
        /\ \A g \in Others \ {f} : Idle(b.ent[g])
        /\ f # Own => (a.ok => OpenedOnce(b.ent[f])) /\ (~ a.ok => Idle(b.ent[f]))
    BY <1>1 DEF CleanupFilePre
  <1>3. ASSUME ~ a.ok PROVE Post(c, a, b)
    <2>1. b.ent[Own].refcnt = 2
      BY <1>2, <1>3 DEF Bit
    <2>2. \A g \in Others : Idle(b.ent[g])
      BY <1>2, <1>3, FilesAssumption
    <2>3. CleanupFilePost(a, b)
      BY <1>1, <1>2, <2>1, <2>2 DEF CleanupFilePost, In, Steady
    <2> QED BY <2>3, AtCleanupFile
  <1>4. ASSUME a.ok PROVE Runs(<< Call("Close", f, "") >>, b, After(c, a))
    <2> DEFINE x == Call("Close", f, "")
               e == b.ent[f]
    <2>1. x \in Calls /\ x.fn = "Close" /\ x.file = f
      BY DEF Call, Calls, Names, Arguments
    <2> HIDE DEF x, e
    <2>2. /\ fd_manager_lock \notin b.held /\ fdent_lock(f) \notin b.held
      BY <1>1, MutexTypes, MutexesDiffer DEF CleanupFilePre, Outside, data
    <2>3. /\ f = Own => e.mapped /\ e.fd /\ e.refcnt = 3
          /\ f # Own => e.mapped /\ e.refcnt = Bit(e.fd)
      BY <1>2, <1>4 DEF IsOpen, OpenedOnce, Bit, e
    <2>4. /\ e.mapped /\ (e.fd => e.refcnt >= 1)
          /\ f = Own => e.fd /\ e.refcnt >= 2
          /\ f # Own => ~ (e.fd /\ e.refcnt > 1)
      BY <2>3 DEF Bit
    <2>5. ClosePre(f, b)
      BY <1>2, <2>2, <2>4 DEF ClosePre, e
    <2>6. ASSUME NEW q \in After(x, b) PROVE q \in After(c, a)
      <3>1. q \in State /\ ClosePost(f, b, q)
        BY <2>1, AtClose DEF After
      <3>2. Frame(b, q, f)
        BY <3>1 DEF ClosePost
      <3>3. IsOpen(q.ent[Own]) /\ q.ent[Own].refcnt = 2
        <4>1. CASE f = Own
          BY <2>3, <3>1, <4>1 DEF ClosePost, e
        <4>2. CASE f # Own
          BY <1>2, <3>2, <4>2 DEF Frame, File
        <4> QED BY <4>1, <4>2
      <3>4. ASSUME NEW g \in Others PROVE Idle(q.ent[g])
        <4>1. CASE g = f
          <5>1. f # Own
            BY <4>1, FilesAssumption
          <5>2. q.ent[f] = NoEntity
            BY <2>4, <3>1, <5>1 DEF ClosePost, e
          <5> QED BY <4>1, <5>2 DEF Idle, NoEntity
        <4>2. CASE g # f
          BY <1>2, <3>2, <4>2 DEF Frame, File
        <4> QED BY <4>1, <4>2
      <3>5. CleanupFilePost(a, q)
        BY <1>1, <1>2, <3>2, <3>3, <3>4 DEF CleanupFilePost, In, Steady, Frame
      <3> QED BY <3>1, <3>5, AtCleanupFile DEF After
    <2>7. Pre(x, b)
      BY <2>1, <2>5, AtClose
    <2>8. After(x, b) \subseteq After(c, a)
      BY <2>6
    <2> QED BY <2>1, <2>7, <2>8, RunsOne DEF x
  <1> QED BY <1>3, <1>4

\* FdEntity::ReserveDiskSpace cleans up when the disk is full.
LEMMA ReserveRuns ==
    ASSUME NEW c \in Calls, c.fn = "Reserve", NEW f \in File,
           NEW a \in State, In(a, {data}, 2, 0), "full" \in Faults
    PROVE  Runs(<< Call("CleanupCacheDir", Own, ""), Call("ReserveAgain", f, "") >>, a, After(c, a))
  <1> DEFINE x == Call("CleanupCacheDir", Own, "")
             y == Call("ReserveAgain", f, "")
  <1>1. x \in Calls /\ x.fn = "CleanupCacheDir"
    BY MutexTypes DEF Call, Calls, Names, Arguments
  <1>2. y \in Calls /\ y.fn = "ReserveAgain"
    BY DEF Call, Calls, Names, Arguments
  <1> HIDE DEF x, y
  <1>3. Pre(x, a)
    BY <1>1, AtCleanupCacheDir DEF Outside
  <1>4. ASSUME NEW q \in After(x, a) PROVE Runs(<< y >>, q, After(c, a))
    <2>1. q \in State /\ Same(a, q) /\ q.reserved = 0
      BY <1>1, AtCleanupCacheDir DEF After
    <2>2. In(q, {data}, 2, 0) /\ q.serving = a.serving
      BY <2>1 DEF Same, In, Steady
    <2>3. Pre(y, q)
      BY <1>2, <2>2, AtReserve
    <2>4. ASSUME NEW w \in After(y, q) PROVE w \in After(c, a)
      <3>1. w \in State /\ Same(q, w) /\ w.reserved = Bit(w.ok)
        BY <1>2, AtReserve DEF After
      <3>2. Same(a, w)
        BY <2>2, <3>1 DEF Same, In, Steady
      <3> QED BY <3>1, <3>2, AtReserve DEF After
    <2>5. After(y, q) \subseteq After(c, a)
      BY <2>4
    <2> QED BY <1>2, <2>1, <2>3, <2>5, RunsOne
  <1>5. \A q \in After(x, a) : Runs(<< y >>, q, After(c, a))
    BY <1>4
  <1>6. << y >> \in Seq(Calls) /\ << x >> \o << y >> = << x, y >>
    BY <1>1, <1>2, TwoCalls
  <1>7. Runs(<< x >> \o << y >>, a, After(c, a))
    BY <1>1, <1>3, <1>5, <1>6, RunsThen
  <1> QED BY <1>6, <1>7 DEF x, y

\* Reserve and LoadAndFree, whatever fails.
LEMMA LoadRuns ==
    ASSUME NEW x \in Calls, x.fn \in {"Reserve", "ReserveSize"}, NEW s \in Seq(Calls), NEW Q,
           NEW a \in State, Pre(x, a), a.held = {data}, a.ent[Own].refcnt = 2,
           \A b \in State : In(b, {data}, 2, Bit(b.ok)) /\ b.serving = a.serving => Runs(s, b, Q)
    PROVE  Runs(<< x >> \o s, a, Q)
  <1>1. ASSUME NEW b \in After(x, a) PROVE Runs(s, b, Q)
    <2>1. b \in State /\ Same(a, b) /\ b.reserved = Bit(b.ok)
      BY AtReserve, AtReserveSize DEF After
    <2>2. In(b, {data}, 2, Bit(b.ok)) /\ b.serving = a.serving
      BY <2>1 DEF Same, In
    <2> QED BY <2>1, <2>2
  <1>2. \A b \in After(x, a) : Runs(s, b, Q)
    BY <1>1
  <1> QED BY <1>2, RunsThen

\* FdEntity::Read, bytes have to be loaded.
LEMMA ReadRuns ==
    ASSUME NEW c \in Calls, c.fn = "Read", NEW a \in State, In(a, {data}, 2, 0)
    PROVE  Runs(<< Call("Reserve", Own, ""), Call("ReserveSize", Own, ""),
                   Call("LoadAndFree", Own, "") >>, a, After(c, a))
  <1> DEFINE x == Call("Reserve", Own, "")
             y == Call("ReserveSize", Own, "")
             z == Call("LoadAndFree", Own, "")
  <1>1. x \in Calls /\ x.fn = "Reserve"
    BY MutexTypes DEF Call, Calls, Names, Arguments
  <1>2. y \in Calls /\ y.fn = "ReserveSize"
    BY MutexTypes DEF Call, Calls, Names, Arguments
  <1>3. z \in Calls /\ z.fn = "LoadAndFree"
    BY MutexTypes DEF Call, Calls, Names, Arguments
  <1> HIDE DEF x, y, z
  <1>4. ASSUME NEW b \in State, In(b, {data}, 2, Bit(b.ok)), b.serving = a.serving
        PROVE  Runs(<< z >>, b, After(c, a))
    <2>1. Pre(z, b)
      BY <1>3, <1>4, AtLoadAndFree
    <2>2. ASSUME NEW q \in After(z, b) PROVE q \in After(c, a)
      <3>1. q \in State /\ Same(b, q) /\ q.reserved = 0
        BY <1>3, AtLoadAndFree DEF After
      <3>2. Same(a, q)
        BY <1>4, <3>1 DEF Same, In, Steady
      <3> QED BY <3>1, <3>2, AtRead DEF After
    <2>3. After(z, b) \subseteq After(c, a)
      BY <2>2
    <2> QED BY <1>3, <2>1, <2>3, RunsOne
  <1>5. << z >> \in Seq(Calls) /\ << y >> \o << z >> \in Seq(Calls)
        /\ << x >> \o (<< y >> \o << z >>) = << x, y, z >>
    BY <1>1, <1>2, <1>3, ThreeCalls, TwoCalls
  <1>6. ASSUME NEW b \in State, In(b, {data}, 2, Bit(b.ok)), b.serving = a.serving
        PROVE  Runs(<< y >> \o << z >>, b, After(c, a))
    <2>1. Pre(y, b) /\ b.held = {data} /\ b.ent[Own].refcnt = 2
      BY <1>2, <1>6, AtReserveSize DEF In, Steady
    <2>2. \A q \in State : In(q, {data}, 2, Bit(q.ok)) /\ q.serving = b.serving
              => Runs(<< z >>, q, After(c, a))
      BY <1>4, <1>6
    <2> QED BY <1>2, <1>5, <2>1, <2>2, LoadRuns
  <1>7. Runs(<< x >> \o (<< y >> \o << z >>), a, After(c, a))
    <2>1. Pre(x, a) /\ a.held = {data} /\ a.ent[Own].refcnt = 2
      BY <1>1, AtReserve DEF In, Steady
    <2>2. \A q \in State : In(q, {data}, 2, Bit(q.ok)) /\ q.serving = a.serving
              => Runs(<< y >> \o << z >>, q, After(c, a))
      BY <1>6
    <2> QED BY <1>1, <1>5, <2>1, <2>2, LoadRuns
  <1> QED BY <1>5, <1>7 DEF x, y, z

\* It tries again without the prefetch.
LEMMA ReserveSizeRuns ==
    ASSUME NEW c \in Calls, c.fn = "ReserveSize", NEW a \in State, In(a, {data}, 2, 0)
    PROVE  Runs(<< Call("Reserve", Own, "") >>, a, After(c, a))
  <1> DEFINE x == Call("Reserve", Own, "")
  <1>1. x \in Calls /\ x.fn = "Reserve"
    BY MutexTypes DEF Call, Calls, Names, Arguments
  <1> HIDE DEF x
  <1>2. Pre(x, a) /\ After(x, a) \subseteq After(c, a)
    BY <1>1, AtReserve, AtReserveSize DEF After
  <1> QED BY <1>1, <1>2, RunsOne DEF x

\* FdEntity::Write cleans up when little space is left.
LEMMA CheckSpaceRuns ==
    ASSUME NEW c \in Calls, c.fn = "CheckSpace", NEW a \in State, In(a, {}, 2, 0)
    PROVE  Runs(<< Call("CleanupCacheDir", Own, "") >>, a, After(c, a))
  <1> DEFINE x == Call("CleanupCacheDir", Own, "")
  <1>1. x \in Calls /\ x.fn = "CleanupCacheDir"
    BY MutexTypes DEF Call, Calls, Names, Arguments
  <1> HIDE DEF x
  <1>2. Pre(x, a) /\ After(x, a) \subseteq After(c, a)
    BY <1>1, AtCleanupCacheDir, AtCheckSpace DEF After, Outside
  <1> QED BY <1>1, <1>2, RunsOne DEF x

\* FdEntity::RowFlush, under its mutex.
LEMMA FlushRuns ==
    ASSUME NEW a \in State, NEW n \in 1 .. 2, In(a, {}, n, 0)
    PROVE  /\ AutoLock(data, << Call("RowFlush", Own, "") >>) \in Seq(Calls)
           /\ Runs(AutoLock(data, << Call("RowFlush", Own, "") >>), a, Like(a, {}, n))
  <1> DEFINE x == Call("RowFlush", Own, "")
  <1>1. x \in Calls /\ x.fn = "RowFlush"
    BY MutexTypes DEF Call, Calls, Names, Arguments
  <1> HIDE DEF x
  <1>2. /\ \A b \in State : In(b, {data}, n, 0) => Pre(x, b)
        /\ \A b \in State : \A q \in After(x, b) : Same(b, q) /\ q.reserved = 0
    BY <1>1, AtRowFlush DEF After
  <1> QED BY <1>1, <1>2, UnderData DEF x

\* s3fs_truncate flushes.
LEMMA FlushLoadedRuns ==
    ASSUME NEW c \in Calls, c.fn = "FlushLoaded", NEW a \in State, In(a, {}, 2, 0)
    PROVE  Runs(AutoLock(data, << Call("RowFlush", Own, "") >>), a, After(c, a))
  <1>1. /\ AutoLock(data, << Call("RowFlush", Own, "") >>) \in Seq(Calls)
        /\ Runs(AutoLock(data, << Call("RowFlush", Own, "") >>), a, Like(a, {}, 2))
    <2>1. 2 \in 1 .. 2
      OBVIOUS
    <2> QED BY <2>1, FlushRuns
  <1>2. ASSUME NEW q \in Like(a, {}, 2) PROVE q \in After(c, a)
    <2>1. q \in State /\ In(q, {}, 2, 0) /\ q.serving = a.serving
      BY DEF Like
    <2>2. Same(a, q) /\ q.reserved = 0
      BY <2>1 DEF Same, In, Steady
    <2> QED BY <2>1, <2>2, AtCheckSpace DEF After
  <1>3. Like(a, {}, 2) \subseteq After(c, a)
    BY <1>2
  <1> QED BY <1>1, <1>3 DEF Runs
-----------------------------------------------------------------------------
\* What is like a state that is like a.
LEMMA LikeLike ==
    ASSUME NEW a \in State, NEW mutexes, NEW n, NEW b \in Like(a, mutexes, n), NEW others, NEW k
    PROVE  Like(b, others, k) = Like(a, others, k)
  BY DEF Like

\* A handler opens the file that is served and closes it again.
LEMMA HandlerRuns ==
    ASSUME NEW h \in Handlers, NEW a \in State, In(a, {}, 1, 0)
    PROVE  Handler(h) \in Seq(Calls) /\ Runs(Handler(h), a, Like(a, {}, 1))
  <1> DEFINE how == IF h = "s3fs_truncate" THEN "resize" ELSE "exist"
             x == Call("Open", Own, how)
             y == Call(h, Own, "")
  <1>1. how \in Arguments \cup MutexNames
    BY DEF Arguments
  <1> HIDE DEF how
  <1>2. x \in Calls /\ x.fn = "Open" /\ x.file = Own /\ x.how = how
    BY <1>1, MutexTypes DEF Call, Calls, Names
  <1>3. y \in Calls /\ y.fn = h
    <2>1. h # "Lock"
      BY DEF Handlers
    <2> QED BY <2>1, MutexTypes DEF Call, Calls, Arguments
  <1> HIDE DEF x, y
  <1>4. Pre(x, a)
    <2>1. fd_manager_lock \notin a.held /\ fdent_lock(Own) \notin a.held /\ DataFree(Own, a)
      BY DEF In, DataFree
    <2>2. IsOpen(a.ent[Own]) /\ a.ent[Own].refcnt \in 1 .. 2
      BY DEF In, Steady
    <2>3. OpenPre(Own, how, a)
      BY <2>1, <2>2 DEF OpenPre, SearchPre
    <2> QED BY <1>2, <2>3, AtOpen
  <1>5. ASSUME NEW q \in After(x, a) PROVE Runs(<< y >>, q, Like(a, {}, 1))
    <2>1. q \in State /\ OpenPost(Own, a, q)
      BY <1>2, AtOpen DEF After
    <2>2. Frame(a, q, Own) /\ IsOpen(q.ent[Own]) /\ q.ent[Own].refcnt = 1 + Bit(q.ok)
      BY <2>1 DEF OpenPost, In, Steady
    <2>3. \A f \in Others : q.ent[f] = a.ent[f]
      BY <2>2, FilesAssumption DEF Frame, File
    <2>4. In(q, {}, 1 + Bit(q.ok), 0) /\ q.serving = a.serving
      BY <2>2, <2>3 DEF In, Steady, Frame
    <2>5. Pre(y, q)
      BY <1>3, <2>4, AtHandler
    <2>6. After(y, q) \subseteq Like(a, {}, 1)
      BY <1>3, <2>4, AtHandler DEF After, Like
    <2> QED BY <1>3, <2>1, <2>5, <2>6, RunsOne
  <1>6. \A q \in After(x, a) : Runs(<< y >>, q, Like(a, {}, 1))
    BY <1>5
  <1>7. << y >> \in Seq(Calls)
    BY <1>3
  <1>8. Runs(<< x >> \o << y >>, a, Like(a, {}, 1))
    BY <1>2, <1>4, <1>6, <1>7, RunsThen
  <1>9. << x >> \o << y >> = << x, y >> /\ << x, y >> \in Seq(Calls)
    BY <1>2, <1>3, TwoCalls
  <1>10. Handler(h) = << x, y >>
    BY DEF Handler, x, y, how
  <1> QED BY <1>8, <1>9, <1>10

\* Two lists of calls that keep the references and release their mutexes.
LEMMA RunsLike ==
    ASSUME NEW a \in State, NEW n, NEW s1 \in Seq(Calls), NEW s2 \in Seq(Calls),
           Runs(s1, a, Like(a, {}, n)),
           \A b \in State : In(b, {}, n, 0) => Runs(s2, b, Like(b, {}, n))
    PROVE  s1 \o s2 \in Seq(Calls) /\ Runs(s1 \o s2, a, Like(a, {}, n))
  <1>1. \A b \in Like(a, {}, n) : b \in State => Runs(s2, b, Like(a, {}, n))
    <2> SUFFICES ASSUME NEW b \in Like(a, {}, n) PROVE Runs(s2, b, Like(a, {}, n))
      OBVIOUS
    <2>1. b \in State /\ In(b, {}, n, 0)
      BY DEF Like
    <2>2. Like(b, {}, n) = Like(a, {}, n)
      BY LikeLike
    <2> QED BY <2>1, <2>2
  <1>2. s1 \o s2 \in Seq(Calls)
    OBVIOUS
  <1>3. Runs(s1 \o s2, a, Like(a, {}, n))
    BY <1>1, RunsAppend
  <1> QED BY <1>2, <1>3

\* FdEntity::GetStats and others only wait for fdent_lock.
LEMMA WaitRuns ==
    ASSUME NEW a \in State, In(a, {}, 2, 0)
    PROVE  /\ AutoLock(fdent_lock(Own), <<>>) \in Seq(Calls)
           /\ Runs(AutoLock(fdent_lock(Own), <<>>), a, Like(a, {}, 2))
  <1>1. fdent_lock(Own) \in Mutexes /\ fdent_lock(Own) \notin a.held /\ a \in Like(a, {}, 2)
    BY MutexTypes DEF In, Like
  <1> QED BY <1>1, RunsWait

\* s3fs_read
LEMMA ReadBody ==
    ASSUME NEW a \in State, In(a, {}, 2, 0)
    PROVE  Body("s3fs_read") \in Seq(Calls) /\ Runs(Body("s3fs_read"), a, Like(a, {}, 2))
  <1> DEFINE x == Call("Read", Own, "")
  <1>1. x \in Calls /\ x.fn = "Read"
    BY MutexTypes DEF Call, Calls, Names, Arguments
  <1> HIDE DEF x
  <1>2. \A b \in State : In(b, {}, 2, 0)
          => AutoLock(data, << x >>) \in Seq(Calls) /\ Runs(AutoLock(data, << x >>), b, Like(b, {}, 2))
    <2>1. /\ \A b \in State : In(b, {data}, 2, 0) => Pre(x, b)
          /\ \A b \in State : \A q \in After(x, b) : Same(b, q) /\ q.reserved = 0
      BY <1>1, AtRead DEF After
    <2> QED BY <1>1, <2>1, UnderData
  <1>3. Body("s3fs_read") = AutoLock(fdent_lock(Own), <<>>) \o AutoLock(data, << x >>)
    BY DEF Body, data, x
  <1>4. /\ AutoLock(fdent_lock(Own), <<>>) \in Seq(Calls)
        /\ Runs(AutoLock(fdent_lock(Own), <<>>), a, Like(a, {}, 2))
    BY WaitRuns
  <1> QED BY <1>2, <1>3, <1>4, RunsLike

\* s3fs_flush
LEMMA FlushBody ==
    ASSUME NEW a \in State, In(a, {}, 2, 0)
    PROVE  Body("s3fs_flush") \in Seq(Calls) /\ Runs(Body("s3fs_flush"), a, Like(a, {}, 2))
  <1> DEFINE x == Call("RowFlush", Own, "")
  <1>1. \A b \in State : In(b, {}, 2, 0)
          => AutoLock(data, << x >>) \in Seq(Calls) /\ Runs(AutoLock(data, << x >>), b, Like(b, {}, 2))
    <2>1. 2 \in 1 .. 2
      OBVIOUS
    <2> QED BY <2>1, FlushRuns
  <1>2. Body("s3fs_flush") = AutoLock(fdent_lock(Own), <<>>) \o AutoLock(data, << x >>)
    BY DEF Body, data, x
  <1> HIDE DEF x
  <1>3. /\ AutoLock(fdent_lock(Own), <<>>) \in Seq(Calls)
        /\ Runs(AutoLock(fdent_lock(Own), <<>>), a, Like(a, {}, 2))
    BY WaitRuns
  <1> QED BY <1>1, <1>2, <1>3, RunsLike

\* FdEntity::Write under fdent_data_lock
LEMMA WriteLoads ==
    ASSUME NEW a \in State, In(a, {data}, 2, 0)
    PROVE  /\ << Call("Reserve", Own, ""), Call("LoadAndFree", Own, ""), Call("Pwrite", Own, "") >>
                \in Seq(Calls)
           /\ Runs(<< Call("Reserve", Own, ""), Call("LoadAndFree", Own, ""), Call("Pwrite", Own, "") >>,
                   a, Like(a, {data}, 2))
  <1> DEFINE x == Call("Reserve", Own, "")
             y == Call("LoadAndFree", Own, "")
             z == Call("Pwrite", Own, "")
             Q == Like(a, {data}, 2)
  <1>1. x \in Calls /\ x.fn = "Reserve"
    BY MutexTypes DEF Call, Calls, Names, Arguments
  <1>2. y \in Calls /\ y.fn = "LoadAndFree"
    BY MutexTypes DEF Call, Calls, Names, Arguments
  <1>3. z \in Calls /\ z.fn = "Pwrite"
    BY MutexTypes DEF Call, Calls, Names, Arguments
  <1> HIDE DEF x, y, z
  <1>4. ASSUME NEW b \in State, In(b, {data}, 2, 0), b.serving = a.serving
        PROVE  Runs(<< z >>, b, Q)
    <2>1. Pre(z, b)
      BY <1>3, <1>4, AtRead
    <2>2. ASSUME NEW q \in After(z, b) PROVE q \in Q
      <3>1. q \in State /\ Same(b, q) /\ q.reserved = 0
        BY <1>3, AtRead DEF After
      <3> QED BY <1>4, <3>1 DEF Same, In, Steady, Like
    <2>3. After(z, b) \subseteq Q
      BY <2>2
    <2> HIDE DEF Q
    <2> QED BY <1>3, <2>1, <2>3, RunsOne
  <1> HIDE DEF Q
  <1>5. << z >> \in Seq(Calls) /\ << y >> \o << z >> \in Seq(Calls)
        /\ << x >> \o (<< y >> \o << z >>) = << x, y, z >> /\ << x, y, z >> \in Seq(Calls)
    BY <1>1, <1>2, <1>3, ThreeCalls, TwoCalls
  <1>6. ASSUME NEW b \in State, In(b, {data}, 2, Bit(b.ok)), b.serving = a.serving
        PROVE  Runs(<< y >> \o << z >>, b, Q)
    <2>1. Pre(y, b)
      BY <1>2, <1>6, AtLoadAndFree
    <2>2. ASSUME NEW q \in After(y, b) PROVE Runs(<< z >>, q, Q)
      <3>1. q \in State /\ Same(b, q) /\ q.reserved = 0
        BY <1>2, AtLoadAndFree DEF After
      <3>2. In(q, {data}, 2, 0) /\ q.serving = a.serving
        BY <1>6, <3>1 DEF Same, In, Steady
      <3> QED BY <1>4, <3>1, <3>2
    <2>3. \A q \in After(y, b) : Runs(<< z >>, q, Q)
      BY <2>2
    <2> QED BY <1>2, <1>5, <2>1, <2>3, RunsThen
  <1>7. Runs(<< x >> \o (<< y >> \o << z >>), a, Q)
    <2>1. Pre(x, a) /\ a.held = {data} /\ a.ent[Own].refcnt = 2
      BY <1>1, AtReserve DEF In, Steady
    <2>2. \A q \in State : In(q, {data}, 2, Bit(q.ok)) /\ q.serving = a.serving
              => Runs(<< y >> \o << z >>, q, Q)
      BY <1>6
    <2> QED BY <1>1, <1>5, <2>1, <2>2, LoadRuns
  <1> QED BY <1>5, <1>7 DEF x, y, z, Q

\* s3fs_write
LEMMA WriteBody ==
    ASSUME NEW a \in State, In(a, {}, 2, 0)
    PROVE  Body("s3fs_write") \in Seq(Calls) /\ Runs(Body("s3fs_write"), a, Like(a, {}, 2))
  <1> DEFINE x == Call("CheckSpace", Own, "")
             s == << Call("Reserve", Own, ""), Call("LoadAndFree", Own, ""), Call("Pwrite", Own, "") >>
             m == data
  <1>1. x \in Calls /\ x.fn = "CheckSpace"
    BY MutexTypes DEF Call, Calls, Names, Arguments
  <1>2. m \in Mutexes
    BY MutexTypes DEF data
  <1>3. \A b \in State : In(b, {data}, 2, 0) => s \in Seq(Calls) /\ Runs(s, b, Like(b, {data}, 2))
    BY WriteLoads
  <1>4. Body("s3fs_write") = << x >> \o AutoLock(m, s)
    BY DEF Body, data
  <1> HIDE DEF x, s
  <1>5. ASSUME NEW b \in State, In(b, {}, 2, 0)
        PROVE  AutoLock(m, s) \in Seq(Calls) /\ Runs(AutoLock(m, s), b, Like(b, {}, 2))
    <2> DEFINE l == Locked(b, m)
    <2>1. l \in State /\ l.serving = b.serving /\ In(l, {} \cup {m}, 2, 0)
      BY <1>2, <1>5, InLocked, LockedType
    <2>2. In(l, {data}, 2, 0)
      <3>1. {} \cup {m} = {data}
        OBVIOUS
      <3> QED BY <2>1, <3>1
    <2> HIDE DEF l
    <2>3. s \in Seq(Calls) /\ Runs(s, l, Like(l, {data}, 2))
      BY <1>3, <2>1, <2>2
    <2>4. ASSUME NEW q \in Like(l, {data}, 2) PROVE q \in Unlocking(m, Like(b, {}, 2))
      <3>1. q \in State /\ In(q, {data}, 2, 0) /\ q.serving = b.serving
        BY <2>1 DEF Like
      <3>2. In(q, {} \cup {m}, 2, 0)
        <4>1. {} \cup {m} = {data}
          OBVIOUS
        <4> QED BY <3>1, <4>1
      <3>3. /\ In(Unlocked(q, m), {}, 2, 0) /\ Unlocked(q, m) \in State
            /\ Unlocked(q, m).serving = q.serving
        BY <1>2, <3>1, <3>2, InLocked, LockedType
      <3> QED BY <3>1, <3>3 DEF Like, Unlocking
    <2>5. Like(l, {data}, 2) \subseteq Unlocking(m, Like(b, {}, 2))
      BY <2>4
    <2>6. Runs(s, l, Unlocking(m, Like(b, {}, 2)))
      BY <2>3, <2>5 DEF Runs
    <2>7. LockPre(m, b)
      BY <1>5 DEF LockPre, In
    <2> HIDE DEF m
    <2> QED BY <1>2, <2>3, <2>6, <2>7, RunsAutoLock DEF l
  <1> HIDE DEF m
  <1>6. Runs(<< x >>, a, Like(a, {}, 2))
    <2>1. Pre(x, a)
      BY <1>1, AtCheckSpace
    <2>2. ASSUME NEW q \in After(x, a) PROVE q \in Like(a, {}, 2)
      <3>1. q \in State /\ Same(a, q) /\ q.reserved = 0
        BY <1>1, AtCheckSpace DEF After
      <3> QED BY <3>1 DEF Same, In, Steady, Like
    <2>3. After(x, a) \subseteq Like(a, {}, 2)
      BY <2>2
    <2> QED BY <1>1, <2>1, <2>3, RunsOne
  <1>7. /\ << x >> \in Seq(Calls) /\ AutoLock(m, s) \in Seq(Calls)
        /\ \A b \in State : In(b, {}, 2, 0) => Runs(AutoLock(m, s), b, Like(b, {}, 2))
    BY <1>1, <1>5
  <1> QED BY <1>4, <1>6, <1>7, RunsLike

\* s3fs_truncate
LEMMA TruncateBody ==
    ASSUME NEW a \in State, In(a, {}, 2, 0)
    PROVE  Body("s3fs_truncate") \in Seq(Calls) /\ Runs(Body("s3fs_truncate"), a, Like(a, {}, 2))
  <1> DEFINE x == Call("Load", Own, "")
             y == Call("FlushLoaded", Own, "")
             m == fdent_lock(Own)
             d == fdent_data_lock(Own)
             l == Locked(a, m)
             k == Locked(l, d)
             Q == Like(a, {}, 2)
             R == Unlocking(m, Q)
  <1>1. x \in Calls /\ x.fn = "Load"
    BY MutexTypes DEF Call, Calls, Names, Arguments
  <1>2. y \in Calls /\ y.fn = "FlushLoaded"
    BY MutexTypes DEF Call, Calls, Names, Arguments
  <1>3. m \in Mutexes /\ d \in Mutexes /\ m # d /\ d = data
    BY MutexTypes, MutexesDiffer DEF data
  <1>4. Body("s3fs_truncate") = AutoLock(m, AutoLock(d, << x >>)) \o << y >>
    BY DEF Body
  <1>5. l \in State /\ l.serving = a.serving /\ In(l, {} \cup {m}, 2, 0)
    BY <1>3, InLocked, LockedType
  <1>6. k \in State /\ k.serving = a.serving /\ In(k, ({} \cup {m}) \cup {d}, 2, 0)
    BY <1>3, <1>5, InLocked, LockedType
  <1>7. LockPre(m, a) /\ LockPre(d, l)
    BY <1>3, <1>5 DEF In, LockPre
  <1> HIDE DEF x, y, m, d, l, k, Q
  <1>8. Pre(x, k)
    <2>1. ({} \cup {m}) \cup {d} = {fdent_lock(Own), data}
      BY <1>3 DEF m
    <2> QED BY <1>1, <1>6, <2>1, AtLoad
  <1>9. ASSUME NEW q \in After(x, k) PROVE Unlocked(q, d) \in R
    <2> DEFINE u == Unlocked(q, d)
               v == Unlocked(u, m)
    <2>1. q \in State /\ Same(k, q) /\ q.reserved = 0
      BY <1>1, AtLoad DEF After
    <2>2. In(q, ({} \cup {m}) \cup {d}, 2, 0) /\ q.serving = a.serving
      <3>1. k.held = ({} \cup {m}) \cup {d} /\ k.ent[Own].refcnt = 2
        BY <1>6 DEF In, Steady
      <3> QED BY <1>6, <2>1, <3>1 DEF Same
    <2>3. d \notin {} \cup {m}
      BY <1>3
    <2>4. In(u, {} \cup {m}, 2, 0) /\ u \in State /\ u.serving = a.serving
      BY <1>3, <2>1, <2>2, <2>3, InLocked, LockedType
    <2> HIDE DEF u
    <2>5. In(v, {}, 2, 0) /\ v \in State /\ v.serving = a.serving
      BY <1>3, <2>4, InLocked, LockedType
    <2> QED BY <2>4, <2>5 DEF Unlocking, Like, Q, u
  <1> HIDE DEF R
  <1>10. AutoLock(d, << x >>) \in Seq(Calls) /\ Runs(AutoLock(d, << x >>), l, R)
    BY <1>1, <1>3, <1>5, <1>7, <1>8, <1>9, RunsLocked DEF k
  <1>11. /\ AutoLock(m, AutoLock(d, << x >>)) \in Seq(Calls)
         /\ Runs(AutoLock(m, AutoLock(d, << x >>)), a, Q)
    BY <1>3, <1>7, <1>10, RunsAutoLock DEF l, R
  <1>12. ASSUME NEW b \in State, In(b, {}, 2, 0) PROVE Runs(<< y >>, b, Like(b, {}, 2))
    <2>1. Pre(y, b)
      BY <1>2, <1>12, AtCheckSpace
    <2>2. ASSUME NEW q \in After(y, b) PROVE q \in Like(b, {}, 2)
      <3>1. q \in State /\ Same(b, q) /\ q.reserved = 0
        BY <1>2, AtCheckSpace DEF After
      <3> QED BY <1>12, <3>1 DEF Same, In, Steady, Like
    <2>3. After(y, b) \subseteq Like(b, {}, 2)
      BY <2>2
    <2> QED BY <1>2, <2>1, <2>3, RunsOne
  <1>13. /\ << y >> \in Seq(Calls)
         /\ \A b \in State : In(b, {}, 2, 0) => Runs(<< y >>, b, Like(b, {}, 2))
    BY <1>2, <1>12
  <1> QED BY <1>4, <1>11, <1>13, RunsLike DEF Q

\* What a handler does between FdManager::Open and FdManager::Close.
LEMMA BodyRuns ==
    ASSUME NEW h \in Handlers, NEW a \in State, In(a, {}, 2, 0)
    PROVE  Body(h) \in Seq(Calls) /\ Runs(Body(h), a, Like(a, {}, 2))
  <1>1. CASE h = "s3fs_getattr"
    <2>1. Body(h) = AutoLock(fdent_lock(Own), <<>>)
      BY <1>1 DEF Body
    <2> QED BY <2>1, WaitRuns
  <1>2. CASE h = "s3fs_read"
    BY <1>2, ReadBody
  <1>3. CASE h = "s3fs_write"
    BY <1>3, WriteBody
  <1>4. CASE h = "s3fs_flush"
    BY <1>4, FlushBody
  <1>5. CASE h = "s3fs_truncate"
    BY <1>5, TruncateBody
  <1> QED BY <1>1, <1>2, <1>3, <1>4, <1>5 DEF Handlers

\* A handler that could open the entity.
LEMMA HandleRuns ==
    ASSUME NEW c \in Calls, c.fn \in Handlers, NEW a \in State, In(a, {}, 2, 0)
    PROVE  /\ Body(c.fn) \o << Call("Close", Own, "") >> \in Seq(Calls)
           /\ Runs(Body(c.fn) \o << Call("Close", Own, "") >>, a, After(c, a))
  <1> DEFINE x == Call("Close", Own, "")
             s == Body(c.fn)
             Q == Like(a, {}, 2)
  <1>1. x \in Calls /\ x.fn = "Close" /\ x.file = Own
    BY MutexTypes DEF Call, Calls, Names, Arguments
  <1>2. s \in Seq(Calls) /\ Runs(s, a, Q)
    BY BodyRuns
  <1> HIDE DEF x, s
  <1>3. ASSUME NEW b \in Q PROVE b \in State => Runs(<< x >>, b, After(c, a))
    <2>1. b \in State /\ In(b, {}, 2, 0) /\ b.serving = a.serving
      BY DEF Like
    <2>2. ClosePre(Own, b)
      BY <2>1 DEF ClosePre, In, Steady, IsOpen
    <2>3. Pre(x, b)
      BY <1>1, <2>2, AtClose
    <2>4. ASSUME NEW q \in After(x, b) PROVE q \in After(c, a)
      <3>1. q \in State /\ ClosePost(Own, b, q)
        BY <1>1, AtClose DEF After
      <3>2. Frame(b, q, Own) /\ IsOpen(q.ent[Own]) /\ q.ent[Own].refcnt = 1
        BY <2>1, <3>1 DEF ClosePost, In, Steady, IsOpen
      <3>3. \A f \in Others : q.ent[f] = b.ent[f]
        BY <3>2, FilesAssumption DEF Frame, File
      <3>4. In(q, {}, 1, 0) /\ q.serving = a.serving
        BY <2>1, <3>2, <3>3 DEF In, Steady, Frame
      <3> QED BY <3>1, <3>4, AtHandler DEF After
    <2>5. After(x, b) \subseteq After(c, a)
      BY <2>4
    <2> QED BY <1>1, <2>1, <2>3, <2>5, RunsOne
  <1>4. << x >> \in Seq(Calls) /\ \A b \in Q : b \in State => Runs(<< x >>, b, After(c, a))
    BY <1>1, <1>3
  <1> HIDE DEF Q
  <1>5. s \o << x >> \in Seq(Calls) /\ Runs(s \o << x >>, a, After(c, a))
    <2>1. s \o << x >> \in Seq(Calls)
      BY <1>2, <1>4
    <2> QED BY <1>2, <1>4, <2>1, RunsAppend
  <1> QED BY <1>5 DEF s, x

\* S3Io::open calls s3fs_getattr and is done.
LEMMA GetattrRuns ==
    ASSUME NEW a \in State, In(a, {}, 1, 0)
    PROVE  /\ Handler("s3fs_getattr") \o << Call("OpenSuccess", Own, "") >> \in Seq(Calls)
           /\ Runs(Handler("s3fs_getattr") \o << Call("OpenSuccess", Own, "") >>, a, Finals)
  <1> DEFINE x == Call("OpenSuccess", Own, "")
             s == Handler("s3fs_getattr")
             Q == Like(a, {}, 1)
  <1>1. x \in Calls /\ x.fn = "OpenSuccess"
    BY MutexTypes DEF Call, Calls, Names, Arguments
  <1>2. s \in Seq(Calls) /\ Runs(s, a, Q)
    BY HandlerRuns DEF Handlers
  <1> HIDE DEF x, s
  <1>3. ASSUME NEW b \in Q PROVE b \in State => Runs(<< x >>, b, Finals)
    <2>1. b \in State /\ In(b, {}, 1, 0)
      BY DEF Like
    <2>2. Pre(x, b) /\ After(x, b) \subseteq Finals
      BY <1>1, <2>1, AtOpenSuccess DEF After, Finals
    <2> QED BY <1>1, <2>1, <2>2, RunsOne
  <1>4. << x >> \in Seq(Calls) /\ \A b \in Q : b \in State => Runs(<< x >>, b, Finals)
    BY <1>1, <1>3
  <1> HIDE DEF Q
  <1>5. s \o << x >> \in Seq(Calls) /\ Runs(s \o << x >>, a, Finals)
    <2>1. s \o << x >> \in Seq(Calls)
      BY <1>2, <1>4
    <2> QED BY <1>2, <1>4, <2>1, RunsAppend
  <1> QED BY <1>5 DEF s, x

\* s3fs_open uploads a file that was truncated.
LEMMA OpenFlushes ==
    ASSUME NEW a \in State, In(a, {}, 1, 0)
    PROVE  Runs(AutoLock(fdent_data_lock(Own), << Call("RowFlush", Own, "") >>)
                  \o << Call("s3fs_open_flushed", Own, "") >>, a, Finals)
  <1> DEFINE x == Call("s3fs_open_flushed", Own, "")
             s == AutoLock(data, << Call("RowFlush", Own, "") >>)
             Q == Like(a, {}, 1)
  <1>1. x \in Calls /\ x.fn = "s3fs_open_flushed"
    BY MutexTypes DEF Call, Calls, Names, Arguments
  <1>2. s \in Seq(Calls) /\ Runs(s, a, Q)
    <2>1. 1 \in 1 .. 2
      OBVIOUS
    <2> QED BY <2>1, FlushRuns
  <1> HIDE DEF x, s
  <1>3. ASSUME NEW b \in Q PROVE b \in State => Runs(<< x >>, b, Finals)
    <2>1. b \in State /\ In(b, {}, 1, 0)
      BY DEF Like
    <2>2. Pre(x, b) /\ After(x, b) \subseteq Finals
      BY <1>1, <2>1, AtOpenSuccess DEF After, Finals
    <2> QED BY <1>1, <2>1, <2>2, RunsOne
  <1>4. << x >> \in Seq(Calls) /\ \A b \in Q : b \in State => Runs(<< x >>, b, Finals)
    BY <1>1, <1>3
  <1> HIDE DEF Q
  <1>5. Runs(s \o << x >>, a, Finals)
    BY <1>2, <1>4, RunsAppend
  <1> QED BY <1>5 DEF s, x, data

\* s3fs_open failed.
LEMMA ExitRuns ==
    ASSUME NEW a \in State
    PROVE  Runs(<< Call("Exit", Own, "") >>, a, Finals)
  <1> DEFINE x == Call("Exit", Own, "")
  <1>1. x \in Calls /\ x.fn = "Exit"
    BY MutexTypes DEF Call, Calls, Names, Arguments
  <1> HIDE DEF x
  <1>2. Pre(x, a) /\ After(x, a) \subseteq Finals
    BY <1>1, AtExit DEF After, Finals
  <1> QED BY <1>1, <1>2, RunsOne DEF x

\* The upload failed: the entity is closed before the process ends.
LEMMA CloseAndExitRuns ==
    ASSUME NEW a \in State, In(a, {}, 1, 0), NEW b \in State, b = [a EXCEPT !.exiting = TRUE]
    PROVE  Runs(<< Call("Close", Own, ""), Call("Exit", Own, "") >>, b, Finals)
  <1> DEFINE x == Call("Close", Own, "")
             y == Call("Exit", Own, "")
  <1>1. x \in Calls /\ x.fn = "Close" /\ x.file = Own
    BY MutexTypes DEF Call, Calls, Names, Arguments
  <1>2. y \in Calls
    BY MutexTypes DEF Call, Calls, Names, Arguments
  <1>3. b.held = a.held /\ b.ent = a.ent /\ b.exiting
    BY DEF State
  <1>4. ClosePre(Own, b)
    BY <1>3 DEF ClosePre, In, Steady, IsOpen
  <1>5. \A q \in State : Runs(<< y >>, q, Finals)
    BY ExitRuns
  <1> HIDE DEF x, y
  <1>6. Pre(x, b)
    BY <1>1, <1>4, AtClose
  <1>7. << y >> \in Seq(Calls) /\ \A q \in After(x, b) : Runs(<< y >>, q, Finals)
    BY <1>2, <1>5 DEF After
  <1>8. Runs(<< x >> \o << y >>, b, Finals)
    BY <1>1, <1>6, <1>7, RunsThen
  <1> QED BY <1>1, <1>2, <1>8, TwoCalls DEF x, y

\* S3Io::open
LEMMA StartOpenRuns ==
    ASSUME NEW a \in State, Final(a), ~ a.serving
    PROVE  /\ << Call("Open", Own, "create"), Call("s3fs_open", Own, "") >> \in Seq(Calls)
           /\ Runs(<< Call("Open", Own, "create"), Call("s3fs_open", Own, "") >>, a, Finals)
  <1> DEFINE x == Call("Open", Own, "create")
             y == Call("s3fs_open", Own, "")
  <1>1. x \in Calls /\ x.fn = "Open" /\ x.file = Own /\ x.how = "create"
    BY MutexTypes DEF Call, Calls, Names, Arguments
  <1>2. y \in Calls /\ y.fn = "s3fs_open"
    BY MutexTypes DEF Call, Calls, Names, Arguments
  <1> HIDE DEF x, y
  <1>3. \A f \in File : a.ent[f] = NoEntity
    BY DEF Final
  <1>4. Own \in File
    BY MutexTypes
  <1>5. OpenPre(Own, "create", a)
    BY <1>3, <1>4 DEF Final, OpenPre, SearchPre, DataFree
  <1>6. ASSUME NEW q \in After(x, a) PROVE Runs(<< y >>, q, Finals)
    <2>1. q \in State /\ OpenPost(Own, a, q)
      BY <1>1, AtOpen DEF After
    <2>2. Frame(a, q, Own) /\ (q.ok => IsOpen(q.ent[Own]) /\ q.ent[Own].refcnt = 1)
      BY <1>3, <1>4, <2>1 DEF OpenPost
    <2>3. \A f \in Others : q.ent[f] = NoEntity
      BY <1>3, <2>2, FilesAssumption DEF Frame, File
    <2>4. \A f \in Others : Idle(q.ent[f])
      BY <2>3 DEF Idle, NoEntity
    <2>5. q.ok => In(q, {}, 1, 0)
      BY <2>2, <2>4 DEF In, Steady, Frame, Final
    <2>6. Pre(y, q) /\ After(y, q) \subseteq Finals
      BY <1>2, <2>5, AtS3fsOpen DEF After, Finals
    <2> QED BY <1>2, <2>1, <2>6, RunsOne
  <1>7. << y >> \in Seq(Calls) /\ \A q \in After(x, a) : Runs(<< y >>, q, Finals)
    BY <1>2, <1>6
  <1>8. Pre(x, a)
    BY <1>1, <1>5, AtOpen
  <1>9. Runs(<< x >> \o << y >>, a, Finals)
    BY <1>1, <1>7, <1>8, RunsThen
  <1> QED BY <1>1, <1>2, <1>9, TwoCalls DEF x, y
-----------------------------------------------------------------------------
(***************************************************************************)
(* The invariant.                                                          *)
(***************************************************************************)
\* The calls on a stack; all but the first; all but the last.
All(s) == {s[i] : i \in 1 .. Len(s)}
Rest(s) == {s[i] : i \in 2 .. Len(s)}
Front(s) == {s[i] : i \in 1 .. Len(s) - 1}

Opening == {"s3fs_open", "s3fs_open_flushed"}

Going(cleaning, exiting) ==
    /\ Now(cleaning, exiting) \in State
    /\ Runs(stack, Now(cleaning, exiting), Finals)
    /\ cleaning => \E c \in All(stack) : c.fn = "CleanupFile"
    /\ \A c \in Rest(stack) :
          c.fn = "Close" => c.file = Own /\ IsOpen(ent[Own]) /\ ~ exiting
    /\ \A c \in Front(stack) : c.fn \notin Opening

Typed == stack \in Seq(Calls) /\ dir \subseteq File /\ scan \subseteq File

Inv == Typed /\ \E cleaning, exiting \in BOOLEAN : Going(cleaning, exiting)

LEMMA Stacked ==
    ASSUME NEW s \in Seq(Calls), s # <<>>, NEW calls \in Seq(Calls)
    PROVE  /\ calls \o Tail(s) \in Seq(Calls)
           /\ All(s) = {Head(s)} \cup Rest(s)
           /\ All(calls \o Tail(s)) = All(calls) \cup Rest(s)
           /\ Rest(calls \o Tail(s)) \subseteq Rest(calls) \cup Rest(s)
           /\ Front(calls \o Tail(s)) \subseteq All(calls) \cup Front(s)
           /\ Head(s) \notin Front(s) => calls \o Tail(s) = calls
  <1> DEFINE t == calls \o Tail(s)
             k == Len(calls)
             n == Len(s)
  <1>1. /\ k \in Nat /\ n \in Nat \ {0} /\ Tail(s) \in Seq(Calls) /\ Len(Tail(s)) = n - 1
        /\ \A i \in 1 .. n - 1 : Tail(s)[i] = s[i + 1]
        /\ Head(s) = s[1]
    BY HeadTailProperties, EmptySeq
  <1>2. /\ t \in Seq(Calls) /\ Len(t) = k + (n - 1)
        /\ \A i \in 1 .. k + (n - 1) : t[i] = IF i <= k THEN calls[i] ELSE Tail(s)[i - k]
    BY <1>1, ConcatProperties
  <1> HIDE DEF t, k, n
  <1>3. \A i \in 1 .. k : i \in 1 .. Len(t) /\ t[i] = calls[i]
    BY <1>1, <1>2
  <1>4. \A i \in 2 .. n : (i - 1) + k \in 1 .. Len(t) /\ t[(i - 1) + k] = s[i]
    <2> SUFFICES ASSUME NEW i \in 2 .. n
                 PROVE  (i - 1) + k \in 1 .. Len(t) /\ t[(i - 1) + k] = s[i]
      OBVIOUS
    <2>1. /\ (i - 1) + k \in 1 .. k + (n - 1) /\ ~ ((i - 1) + k <= k)
          /\ ((i - 1) + k) - k = i - 1 /\ i - 1 \in 1 .. n - 1 /\ (i - 1) + 1 = i
      BY <1>1
    <2> QED BY <1>1, <1>2, <2>1
  <1>5. \A j \in k + 1 .. Len(t) : (j - k) + 1 \in 2 .. n /\ t[j] = s[(j - k) + 1]
    <2> SUFFICES ASSUME NEW j \in k + 1 .. Len(t)
                 PROVE  (j - k) + 1 \in 2 .. n /\ t[j] = s[(j - k) + 1]
      OBVIOUS
    <2>1. /\ j \in 1 .. k + (n - 1) /\ ~ (j <= k)
          /\ j - k \in 1 .. n - 1 /\ (j - k) + 1 \in 2 .. n
      BY <1>1, <1>2
    <2> QED BY <1>1, <1>2, <2>1
  <1>6. All(s) = {Head(s)} \cup Rest(s)
    <2>1. 1 .. n = {1} \cup 2 .. n
      BY <1>1
    <2> QED BY <1>1, <2>1 DEF All, Rest, n
  <1>7. All(t) = All(calls) \cup Rest(s)
    <2>1. All(t) \subseteq All(calls) \cup Rest(s)
      <3> SUFFICES ASSUME NEW j \in 1 .. Len(t) PROVE t[j] \in All(calls) \cup Rest(s)
        BY DEF All
      <3>1. CASE j <= k
        <4>1. j \in 1 .. k
          BY <1>1, <1>2, <3>1
        <4> QED BY <1>3, <4>1 DEF All, k
      <3>2. CASE ~ (j <= k)
        <4>1. j \in k + 1 .. Len(t)
          BY <1>1, <1>2, <3>2
        <4> QED BY <1>5, <4>1 DEF Rest, n
      <3> QED BY <3>1, <3>2
    <2>2. All(calls) \cup Rest(s) \subseteq All(t)
      <3>1. \A i \in 1 .. k : calls[i] \in All(t)
        BY <1>3 DEF All
      <3>2. \A i \in 2 .. n : s[i] \in All(t)
        BY <1>4 DEF All
      <3> QED BY <3>1, <3>2 DEF All, Rest, k, n
    <2> QED BY <2>1, <2>2
  <1>8. Rest(t) \subseteq Rest(calls) \cup Rest(s)
    <2> SUFFICES ASSUME NEW j \in 2 .. Len(t) PROVE t[j] \in Rest(calls) \cup Rest(s)
      BY DEF Rest
    <2>1. CASE j <= k
      <3>1. j \in 2 .. k /\ j \in 1 .. k
        BY <1>1, <1>2, <2>1
      <3> QED BY <1>3, <3>1 DEF Rest, k
    <2>2. CASE ~ (j <= k)
      <3>1. j \in k + 1 .. Len(t)
        BY <1>1, <1>2, <2>2
      <3> QED BY <1>5, <3>1 DEF Rest, n
    <2> QED BY <2>1, <2>2
  <1>9. Front(t) \subseteq All(calls) \cup Front(s)
    <2> SUFFICES ASSUME NEW j \in 1 .. Len(t) - 1 PROVE t[j] \in All(calls) \cup Front(s)
      BY DEF Front
    <2>1. CASE j <= k
      <3>1. j \in 1 .. k
        BY <1>1, <1>2, <2>1
      <3> QED BY <1>3, <3>1 DEF All, k
    <2>2. CASE ~ (j <= k)
      <3>1. j \in k + 1 .. Len(t) /\ (j - k) + 1 \in 1 .. n - 1
        BY <1>1, <1>2, <2>2
      <3> QED BY <1>5, <3>1 DEF Front, n
    <2> QED BY <2>1, <2>2
  <1>10. ASSUME Head(s) \notin Front(s) PROVE t = calls
    <2>1. n = 1
      <3> SUFFICES ASSUME n # 1 PROVE FALSE
        OBVIOUS
      <3>1. 1 \in 1 .. n - 1
        BY <1>1
      <3> QED BY <1>1, <1>10, <3>1 DEF Front, n
    <2>2. /\ Len(t) = k /\ \A i \in 1 .. k : t[i] = calls[i]
      BY <1>1, <1>2, <1>3, <2>1
    <2> QED BY <1>2, <2>2, SeqEqual DEF k
  <1> QED BY <1>2, <1>6, <1>7, <1>8, <1>9, <1>10 DEF t

\* The calls a function makes take its place.
LEMMA Calling ==
    ASSUME NEW cl \in BOOLEAN, NEW ex \in BOOLEAN, Typed, Going(cl, ex), stack # <<>>,
           NEW calls \in Seq(Calls), stack' = calls \o Tail(stack),
           dir' \subseteq File, scan' \subseteq File,
           NEW cl2 \in BOOLEAN, NEW ex2 \in BOOLEAN, Now(cl2, ex2)' \in State,
           Runs(calls, Now(cl2, ex2)', After(Head(stack), Now(cl, ex))),
           \/ cl2 => cl /\ Head(stack).fn # "CleanupFile"
           \/ \E c \in All(calls) : c.fn = "CleanupFile",
           \A c \in All(calls) : c.fn \notin Opening,
           \A c \in Rest(calls) : c.fn = "Close" => c.file = Own /\ IsOpen(ent'[Own]) /\ ~ ex2,
           (\E c \in Rest(stack) : c.fn = "Close") => IsOpen(ent'[Own]) /\ ~ ex2
    PROVE  Inv'
  <1> DEFINE a == Now(cl, ex)
             b == Now(cl2, ex2)'
             c == Head(stack)
             s == stack
             t == stack'
  <1>1. s \in Seq(Calls) /\ s # <<>> /\ t = calls \o Tail(s)
    BY DEF Typed
  <1>2. a \in State /\ Runs(s, a, Finals) /\ b \in State
    BY DEF Going
  <1>3. /\ t \in Seq(Calls) /\ Tail(s) \in Seq(Calls)
        /\ All(s) = {c} \cup Rest(s) /\ All(t) = All(calls) \cup Rest(s)
        /\ Rest(t) \subseteq Rest(calls) \cup Rest(s)
        /\ Front(t) \subseteq All(calls) \cup Front(s)
    BY <1>1, Stacked
  <1>4. /\ cl => \E d \in All(s) : d.fn = "CleanupFile"
        /\ \A d \in Rest(s) : d.fn = "Close" => d.file = Own
        /\ \A d \in Front(s) : d.fn \notin Opening
    BY DEF Going
  <1>5. Runs(t, b, Finals)
    <2> HIDE DEF a, b
    <2>1. \A q \in After(c, a) : q \in State => Runs(Tail(s), q, Finals)
      <3> SUFFICES ASSUME NEW q \in After(c, a) PROVE Runs(Tail(s), q, Finals)
        OBVIOUS
      <3>1. q \in State /\ Post(c, a, q)
        BY DEF After
      <3> QED BY <1>1, <1>2, <3>1, RunsTail
    <2>2. Runs(calls, b, After(c, a))
      BY DEF a, b
    <2>3. Runs(calls \o Tail(s), b, Finals)
      <3> DEFINE r == Tail(s)
                 P == After(c, a)
      <3>1. r \in Seq(Calls) /\ Runs(calls, b, P) /\ \A q \in P : q \in State => Runs(r, q, Finals)
        BY <1>3, <2>1, <2>2
      <3> HIDE DEF r, P, s, t, c
      <3> QED BY <1>2, <3>1, RunsAppend DEF r
    <2> QED BY <1>1, <2>3
  <1>6. cl2 => \E d \in All(t) : d.fn = "CleanupFile"
    BY <1>3, <1>4
  <1>7. \A d \in Rest(t) : d.fn = "Close" => d.file = Own /\ IsOpen(ent'[Own]) /\ ~ ex2
    BY <1>3, <1>4
  <1>8. \A d \in Front(t) : d.fn \notin Opening
    BY <1>3, <1>4
  <1>9. Going(cl2, ex2)'
    BY <1>2, <1>5, <1>6, <1>7, <1>8 DEF Going
  <1>10. Typed'
    BY <1>3 DEF Typed
  <1> QED BY <1>9, <1>10 DEF Inv

\* Most functions neither call FdManager::Close nor belong to S3Io::open.
PlainCalls == {c \in Calls : c.fn \notin Opening \cup {"Close"}}

LEMMA Plain ==
    ASSUME NEW calls \in Seq(PlainCalls)
    PROVE  /\ calls \in Seq(Calls)
           /\ \A c \in All(calls) : c.fn \notin Opening
           /\ \A c \in Rest(calls) : c.fn # "Close"
  <1>1. \A i \in 1 .. Len(calls) : calls[i] \in PlainCalls
    BY ElementOfSeq
  <1>2. calls \in Seq(Calls)
    <2>1. PlainCalls \subseteq Calls
      BY DEF PlainCalls
    <2> QED BY <2>1, SeqMonotonic
  <1>3. \A i \in 2 .. Len(calls) : i \in 1 .. Len(calls)
    BY LenProperties
  <1> QED BY <1>1, <1>2, <1>3 DEF All, Rest, PlainCalls

LEMMA PlainCall ==
    ASSUME NEW fn \in (Names \cup Handlers) \ (Opening \cup {"Lock", "Close"}), NEW f \in File,
           NEW how \in Arguments \cup MutexNames
    PROVE  /\ Call(fn, f, how) \in PlainCalls /\ Call(fn, f, how).fn = fn
           /\ Call(fn, f, how).file = f /\ Call(fn, f, how).how = how
  BY DEF PlainCalls, Call, Calls

LEMMA PlainAutoLock ==
    ASSUME NEW m \in Mutexes, NEW calls \in Seq(PlainCalls)
    PROVE  AutoLock(m, calls) \in Seq(PlainCalls)
  <1> DEFINE x == Call("Lock", m[2], m[1])
             y == Call("Unlock", m[2], m[1])
  <1>1. m[1] \in MutexNames /\ m[2] \in File /\ << m[1], m[2] >> = m
    BY MutexTypes
  <1>2. x \in PlainCalls
    BY <1>1 DEF PlainCalls, Call, Calls, Names, Opening
  <1>3. y \in PlainCalls
    BY <1>1 DEF PlainCalls, Call, Calls, Names, Opening
  <1>4. AutoLock(m, calls) = << x >> \o calls \o << y >>
    BY DEF AutoLock
  <1> HIDE DEF x, y
  <1> QED BY <1>2, <1>3, <1>4

\* The call on top of the stack finds its precondition.
LEMMA TopCall ==
    ASSUME NEW cl \in BOOLEAN, NEW ex \in BOOLEAN, Typed, Going(cl, ex), stack # <<>>
    PROVE  /\ Head(stack) \in Calls /\ F \in File /\ How \in Arguments \cup MutexNames
           /\ Now(cl, ex) \in State /\ Pre(Head(stack), Now(cl, ex))
  <1>1. stack \in Seq(Calls)
    BY DEF Typed
  <1>2. Head(stack) \in Calls
    BY <1>1
  <1>3. Pre(Head(stack), Now(cl, ex))
    BY <1>1, RunsPre DEF Going
  <1>4. F \in File /\ How \in Arguments \cup MutexNames
    BY <1>2 DEF F, How, Calls
  <1> QED BY <1>2, <1>3, <1>4 DEF Going

\* A step of a plain function.
LEMMA Stepping ==
    ASSUME NEW cl \in BOOLEAN, NEW ex \in BOOLEAN, Typed, Going(cl, ex), stack # <<>>,
           NEW calls \in Seq(PlainCalls), stack' = calls \o Tail(stack),
           dir' \subseteq File, scan' \subseteq File,
           NEW cl2 \in BOOLEAN, Now(cl2, ex)' \in State,
           Runs(calls, Now(cl2, ex)', After(Head(stack), Now(cl, ex))),
           \/ cl2 => cl /\ Head(stack).fn # "CleanupFile"
           \/ \E c \in All(calls) : c.fn = "CleanupFile",
           IsOpen(ent[Own]) /\ ~ ex => IsOpen(ent'[Own])
    PROVE  Inv'
  <1>1. /\ calls \in Seq(Calls)
        /\ \A c \in All(calls) : c.fn \notin Opening
        /\ \A c \in Rest(calls) : c.fn = "Close" => c.file = Own /\ IsOpen(ent'[Own]) /\ ~ ex
    BY Plain
  <1>2. (\E c \in Rest(stack) : c.fn = "Close") => IsOpen(ent'[Own]) /\ ~ ex
    BY DEF Going
  <1> QED BY <1>1, <1>2, Calling

\* It only calls others.
LEMMA Pushing ==
    ASSUME NEW cl \in BOOLEAN, NEW ex \in BOOLEAN, Typed, Going(cl, ex), stack # <<>>,
           Head(stack).fn # "CleanupFile",
           NEW calls \in Seq(PlainCalls), stack' = calls \o Tail(stack),
           Runs(calls, Now(cl, ex), After(Head(stack), Now(cl, ex))),
           UNCHANGED << held, ent, ok, reserved, serving, dir >>, scan' \subseteq File
    PROVE  Inv'
  <1>1. Now(cl, ex)' = Now(cl, ex) /\ dir' \subseteq File
    BY DEF Now, Typed
  <1>2. Now(cl, ex)' \in State /\ Runs(calls, Now(cl, ex)', After(Head(stack), Now(cl, ex)))
    BY <1>1 DEF Going
  <1>3. IsOpen(ent[Own]) /\ ~ ex => IsOpen(ent'[Own])
    OBVIOUS
  <1>4. \/ cl => cl /\ Head(stack).fn # "CleanupFile"
        \/ \E c \in All(calls) : c.fn = "CleanupFile"
    OBVIOUS
  <1> QED BY <1>1, <1>2, <1>3, <1>4, Stepping

\* It returns.
LEMMA Returning ==
    ASSUME NEW cl \in BOOLEAN, NEW ex \in BOOLEAN, Typed, Going(cl, ex), stack # <<>>,
           stack' = Tail(stack), dir' \subseteq File, scan' \subseteq File,
           NEW cl2 \in BOOLEAN, Now(cl2, ex)' \in State,
           Post(Head(stack), Now(cl, ex), Now(cl2, ex)'),
           cl2 => cl /\ Head(stack).fn # "CleanupFile",
           IsOpen(ent[Own]) /\ ~ ex => IsOpen(ent'[Own])
    PROVE  Inv'
  <1>1. stack' = <<>> \o Tail(stack)
    BY ConcatEmptySeq, HeadTailProperties DEF Typed
  <1>2. <<>> \in Seq(PlainCalls)
    OBVIOUS
  <1> DEFINE b == Now(cl2, ex)'
             Q == After(Head(stack), Now(cl, ex))
  <1>3. b \in State /\ b \in Q
    BY DEF After
  <1> HIDE DEF b, Q
  <1>4. Runs(<<>>, b, Q)
    BY <1>3, RunsEnd
  <1>5. Runs(<<>>, Now(cl2, ex)', After(Head(stack), Now(cl, ex)))
    BY <1>4 DEF b, Q
  <1> QED BY <1>1, <1>2, <1>5, Stepping

\* The entity of one file is assigned to.
Assigned(f, e) == ent' = [ent EXCEPT ![f] = e]

LEMMA Assigning ==
    ASSUME NEW cl, NEW ex, Now(cl, ex) \in State, NEW f \in File, NEW e, e \in Entity,
           Assigned(f, e), ok' \in BOOLEAN, UNCHANGED << held, reserved, serving >>
    PROVE  /\ Now(cl, ex)' \in State /\ Frame(Now(cl, ex), Now(cl, ex)', f)
           /\ Now(cl, ex)'.ent[f] = e /\ Now(cl, ex)'.ok = ok' /\ Now(cl, ex).ok = ok
           /\ Now(cl, ex).ent = ent
           /\ (f = Own => ent'[Own] = e) /\ (f # Own => ent'[Own] = ent[Own])
  <1>1. ent \in [File -> Entity]
    BY DEF Now, State
  <1>2. /\ ent' \in [File -> Entity] /\ ent'[f] = e
        /\ \A g \in File \ {f} : ent'[g] = ent[g]
    BY <1>1 DEF Assigned
  <1>3. Own \in File
    BY DEF File
  <1>4. Now(cl, ex)' \in State
    BY <1>2 DEF Now, State
  <1>5. Frame(Now(cl, ex), Now(cl, ex)', f)
    BY <1>2 DEF Now, Frame
  <1>6. /\ Now(cl, ex)'.ent[f] = e /\ Now(cl, ex)'.ok = ok' /\ Now(cl, ex).ok = ok
        /\ Now(cl, ex).ent = ent
    BY <1>2 DEF Now
  <1> QED BY <1>2, <1>3, <1>4, <1>5, <1>6
-----------------------------------------------------------------------------
(***************************************************************************)
(* Every step preserves it.  First the steps that work on one entity.      *)
(***************************************************************************)
\* States that differ in the mutexes only.
LEMMA OnlyHeld ==
    ASSUME NEW a \in State, NEW b \in State,
           b.ent = a.ent, b.reserved = a.reserved, b.ok = a.ok, b.serving = a.serving,
           b.cleaning = a.cleaning, b.exiting = a.exiting
    PROVE  \A h : b.held = h => b = [a EXCEPT !.held = h]
  BY DEF State

LEMMA LockStep ==
    ASSUME NEW cl \in BOOLEAN, NEW ex \in BOOLEAN, Typed, Going(cl, ex), Lock
    PROVE  Inv'
  <1> DEFINE c == Head(stack)
             a == Now(cl, ex)
             b == Now(cl, ex)'
             m == << How, F >>
  <1>1. /\ stack # <<>> /\ c.fn = "Lock" /\ m \notin held /\ held' = held \cup {m}
        /\ stack' = Tail(stack) /\ UNCHANGED << ent, dir, scan, ok, reserved, serving >>
    BY DEF Lock, At, Return
  <1>2. c \in Calls /\ a \in State
    BY <1>1, TopCall
  <1>3. m \in Mutexes /\ m = << c.how, c.file >>
    BY <1>1, <1>2 DEF Calls, How, F
  <1>4. b \in State
    BY <1>1, <1>2, <1>3 DEF Now, State
  <1> HIDE DEF m
  <1>5. LockPost(m, a, b)
    <2>1. m \notin a.held /\ a.held = held
      BY <1>1 DEF Now
    <2>2. /\ b.held = held \cup {m} /\ b.ent = a.ent /\ b.reserved = a.reserved
          /\ b.ok = a.ok /\ b.serving = a.serving /\ b.cleaning = a.cleaning
          /\ b.exiting = a.exiting
      BY <1>1 DEF Now
    <2> HIDE DEF a, b
    <2>3. b = [a EXCEPT !.held = a.held \cup {m}]
      BY <1>2, <1>4, <2>1, <2>2, OnlyHeld
    <2> QED BY <2>1, <2>3 DEF LockPost
  <1>6. Post(c, a, b)
    BY <1>1, <1>3, <1>5, AtLock
  <1>7. /\ dir' \subseteq File /\ scan' \subseteq File
        /\ IsOpen(ent[Own]) /\ ~ ex => IsOpen(ent'[Own])
        /\ cl => cl /\ c.fn # "CleanupFile"
    BY <1>1 DEF Typed
  <1> QED BY <1>1, <1>4, <1>6, <1>7, Returning

LEMMA UnlockStep ==
    ASSUME NEW cl \in BOOLEAN, NEW ex \in BOOLEAN, Typed, Going(cl, ex), Unlock
    PROVE  Inv'
  <1> DEFINE c == Head(stack)
             a == Now(cl, ex)
             b == Now(cl, ex)'
             m == << How, F >>
  <1>1. /\ stack # <<>> /\ c.fn = "Unlock" /\ held' = held \ {m}
        /\ stack' = Tail(stack) /\ UNCHANGED << ent, dir, scan, ok, reserved, serving >>
    BY DEF Unlock, At, Return
  <1>2. c \in Calls /\ a \in State
    BY <1>1, TopCall
  <1>3. m = << c.how, c.file >>
    BY DEF How, F
  <1>4. b \in State
    BY <1>1, <1>2 DEF Now, State
  <1> HIDE DEF m
  <1>5. UnlockPost(m, a, b)
    <2>1. a.held = held
      BY DEF Now
    <2>2. /\ b.held = held \ {m} /\ b.ent = a.ent /\ b.reserved = a.reserved
          /\ b.ok = a.ok /\ b.serving = a.serving /\ b.cleaning = a.cleaning
          /\ b.exiting = a.exiting
      BY <1>1 DEF Now
    <2> HIDE DEF a, b
    <2>3. b = [a EXCEPT !.held = a.held \ {m}]
      BY <1>2, <1>4, <2>1, <2>2, OnlyHeld
    <2> QED BY <2>3 DEF UnlockPost
  <1>6. Post(c, a, b)
    BY <1>1, <1>3, <1>5, AtUnlock
  <1>7. /\ dir' \subseteq File /\ scan' \subseteq File
        /\ IsOpen(ent[Own]) /\ ~ ex => IsOpen(ent'[Own])
        /\ cl => cl /\ c.fn # "CleanupFile"
    BY <1>1 DEF Typed
  <1> QED BY <1>1, <1>4, <1>6, <1>7, Returning

LEMMA OpenStep ==
    ASSUME NEW cl \in BOOLEAN, NEW ex \in BOOLEAN, Typed, Going(cl, ex), Open
    PROVE  Inv'
  <1> DEFINE c == Head(stack)
             a == Now(cl, ex)
             x == Call("Search", F, How)
             s == AutoLock(fd_manager_lock, << x >>)
  <1>1. /\ stack # <<>> /\ c.fn = "Open" /\ stack' = s \o Tail(stack)
        /\ UNCHANGED << held, ent, ok, reserved, serving, dir >> /\ scan' \subseteq File
    BY DEF Open, At, Do, Typed
  <1>2. /\ c \in Calls /\ F \in File /\ How \in Arguments \cup MutexNames
        /\ a \in State /\ Pre(c, a) /\ c.file = F /\ c.how = How
    BY <1>1, TopCall DEF F, How
  <1>3. s \in Seq(PlainCalls)
    <2>1. x \in PlainCalls
      <3>1. "Search" \in (Names \cup Handlers) \ (Opening \cup {"Lock", "Close"})
        BY DEF Names, Opening
      <3> QED BY <1>2, <3>1, PlainCall
    <2> HIDE DEF x
    <2>2. << x >> \in Seq(PlainCalls) /\ fd_manager_lock \in Mutexes
      BY <2>1, MutexTypes
    <2> QED BY <2>2, PlainAutoLock
  <1>4. Runs(s, a, After(c, a))
    <2>1. OpenPre(F, How, a)
      BY <1>1, <1>2, AtOpen
    <2> HIDE DEF a, c
    <2> QED BY <1>1, <1>2, <2>1, OpenRuns
  <1> HIDE DEF s
  <1> QED BY <1>1, <1>3, <1>4, Pushing

\* The open file is not found missing: that search is for a file that is open.
LEMMA SearchStep ==
    ASSUME NEW cl \in BOOLEAN, NEW ex \in BOOLEAN, Typed, Going(cl, ex), Search
    PROVE  Inv'
  <1> DEFINE c == Head(stack)
             a == Now(cl, ex)
             b == Now(cl, ex)'
             f == F
             how == How
             x == Call("Dup", f, "")
             y == Call("EntityOpen", f, how)
             z == Call("EntityClose", f, "")
             s == AutoLock(fdent_lock(f), << x >>) \o << y, z >>
  <1>1. /\ stack # <<>> /\ c.fn = "Search"
        /\ UNCHANGED << held, dir, scan, reserved, serving >> /\ scan' \subseteq File
        /\ dir' \subseteq File
    BY DEF Search, At, Typed
  <1>2. /\ c \in Calls /\ f \in File /\ how \in Arguments \cup MutexNames
        /\ a \in State /\ Pre(c, a) /\ c.file = f /\ c.how = how
    BY <1>1, TopCall DEF F, How
  <1>3. SearchPre(f, how, a) /\ a.ent = ent
    BY <1>1, <1>2, AtSearch DEF Now
  <1>4. x \in PlainCalls /\ y \in PlainCalls /\ z \in PlainCalls
    <2>1. "" \in Arguments \cup MutexNames
      BY DEF Arguments
    <2> HIDE DEF f, how
    <2> QED BY <1>2, <2>1, PlainCall DEF Names, Opening
  <1>5. \/ /\ ent[f].mapped /\ stack' = s \o Tail(stack) /\ UNCHANGED << ent, ok >>
        \/ /\ ~ ent[f].mapped /\ how # "exist" /\ ent' = [ent EXCEPT ![f].mapped = TRUE]
           /\ stack' = << y >> \o Tail(stack) /\ UNCHANGED ok
        \/ ~ ent[f].mapped /\ how = "exist"
    BY DEF Search, Do
  <1>6. CASE ent[f].mapped /\ stack' = s \o Tail(stack) /\ UNCHANGED << ent, ok >>
    <2>1. Runs(s, a, After(c, a))
      <3> HIDE DEF a, c, f, how
      <3> QED BY <1>1, <1>2, <1>3, <1>6, SearchFinds DEF x, y, z, s
    <2>2. s \in Seq(PlainCalls)
      <3> HIDE DEF x, y, z
      <3>1. AutoLock(fdent_lock(f), << x >>) \in Seq(PlainCalls)
        <4> HIDE DEF f
        <4> QED BY <1>2, <1>4, PlainAutoLock, MutexTypes
      <3>2. << y, z >> \in Seq(PlainCalls)
        BY <1>4
      <3> QED BY <3>1, <3>2
    <2> HIDE DEF s
    <2> QED BY <1>1, <1>6, <2>1, <2>2, Pushing
  <1>7. CASE /\ ~ ent[f].mapped /\ how # "exist" /\ ent' = [ent EXCEPT ![f].mapped = TRUE]
             /\ stack' = << y >> \o Tail(stack) /\ UNCHANGED ok
    <2> DEFINE e == [ent[f] EXCEPT !.mapped = TRUE]
    <2>1. e \in Entity /\ Assigned(f, e) /\ ent[f] \in Entity
      <3>1. ent \in [File -> Entity]
        BY <1>2, <1>3 DEF State
      <3> HIDE DEF f
      <3> QED BY <1>2, <1>7, <3>1 DEF Entity, Assigned
    <2>2. ok' \in BOOLEAN
      BY <1>2, <1>7 DEF Now, State
    <2>3. /\ b \in State /\ Frame(a, b, f) /\ b.ent[f] = e /\ b.ok = a.ok
          /\ f = Own => ent'[Own] = e
          /\ f # Own => ent'[Own] = ent[Own]
      <3> HIDE DEF f, e
      <3>1. Now(cl, ex).ok = ok /\ UNCHANGED << held, reserved, serving >>
        BY <1>1 DEF Now
      <3>2. /\ b \in State /\ Frame(a, b, f) /\ b.ent[f] = e /\ b.ok = ok'
            /\ f = Own => ent'[Own] = e
            /\ f # Own => ent'[Own] = ent[Own]
        BY <1>2, <2>1, <2>2, <3>1, Assigning
      <3> QED BY <1>7, <3>1, <3>2
    <2>4. IsOpen(ent[Own]) /\ ~ ex => IsOpen(ent'[Own])
      BY <2>1, <2>3 DEF IsOpen, Entity
    <2>5. Runs(<< y >>, b, After(c, a))
      <3> HIDE DEF a, b, c, f, how, y
      <3> QED BY <1>1, <1>2, <1>3, <1>7, <2>3, SearchInserts DEF y
    <2>6. << y >> \in Seq(PlainCalls)
      <3>1. y \in PlainCalls
        BY <1>4
      <3> HIDE DEF y, f, how
      <3> QED BY <3>1
    <2>7. cl => cl /\ c.fn # "CleanupFile"
      BY <1>1
    <2> DEFINE r == << y >>
    <2> HIDE DEF e, y
    <2>8. r \in Seq(PlainCalls) /\ stack' = r \o Tail(stack) /\ Runs(r, b, After(c, a))
      BY <1>7, <2>5, <2>6
    <2> HIDE DEF r
    <2> QED BY <1>1, <2>3, <2>4, <2>7, <2>8, Stepping
  <1>8. CASE ~ ent[f].mapped /\ how = "exist"
    <2>1. FALSE
      BY <1>3, <1>8 DEF SearchPre, IsOpen
    <2> QED BY <2>1
  <1> QED BY <1>5, <1>6, <1>7, <1>8

LEMMA DupStep ==
    ASSUME NEW cl \in BOOLEAN, NEW ex \in BOOLEAN, Typed, Going(cl, ex), Dup
    PROVE  Inv'
  <1> DEFINE c == Head(stack)
             a == Now(cl, ex)
             b == Now(cl, ex)'
             f == F
             e == [ent[f] EXCEPT !.refcnt = IF ent[f].fd THEN @ + 1 ELSE @]
  <1>1. /\ stack # <<>> /\ c.fn = "Dup" /\ stack' = Tail(stack)
        /\ ent' = [ent EXCEPT ![f].refcnt = IF ent[f].fd THEN @ + 1 ELSE @]
        /\ UNCHANGED << held, dir, scan, ok, reserved, serving >>
        /\ scan' \subseteq File /\ dir' \subseteq File
    BY DEF Dup, At, Return, Typed
  <1>2. c \in Calls /\ f \in File /\ a \in State /\ Pre(c, a) /\ c.file = f
    BY <1>1, TopCall DEF F
  <1>3. DupPre(f, a) /\ a.ent = ent
    BY <1>1, <1>2, AtDup DEF Now
  <1> HIDE DEF f
  <1>4. e \in Entity /\ Assigned(f, e) /\ ent[f] \in Entity /\ ok' \in BOOLEAN
    <2>1. ent \in [File -> Entity] /\ ent[f].refcnt <= 2 /\ ok \in BOOLEAN
      BY <1>2, <1>3 DEF State, DupPre, Now
    <2>2. e \in Entity /\ ent[f] \in Entity
      BY <1>2, <2>1 DEF Entity
    <2>3. Assigned(f, e)
      BY <1>1, <1>2, <2>1 DEF Assigned, Entity
    <2> QED BY <1>1, <2>1, <2>2, <2>3
  <1> HIDE DEF e
  <1>5. /\ b \in State /\ Frame(a, b, f) /\ b.ent[f] = e /\ b.ok = ok' /\ a.ok = ok
        /\ f = Own => ent'[Own] = e
        /\ f # Own => ent'[Own] = ent[Own]
    <2>1. UNCHANGED << held, reserved, serving >>
      BY <1>1
    <2> QED BY <1>2, <1>4, <2>1, Assigning
  <1>6. Post(c, a, b)
    <2>1. DupPost(f, a, b)
      BY <1>1, <1>3, <1>5 DEF DupPost, e
    <2> QED BY <1>1, <1>2, <2>1, AtDup
  <1>7. IsOpen(ent[Own]) /\ ~ ex => IsOpen(ent'[Own])
    BY <1>4, <1>5 DEF IsOpen, Entity, e
  <1>8. cl => cl /\ c.fn # "CleanupFile"
    BY <1>1
  <1> QED BY <1>1, <1>5, <1>6, <1>7, <1>8, Returning

LEMMA EntityOpenStep ==
    ASSUME NEW cl \in BOOLEAN, NEW ex \in BOOLEAN, Typed, Going(cl, ex), EntityOpen
    PROVE  Inv'
  <1> DEFINE c == Head(stack)
             a == Now(cl, ex)
             x == Call("Opened", F, How)
             s == AutoLock(fdent_lock(F), AutoLock(fdent_data_lock(F), << x >>))
  <1>1. /\ stack # <<>> /\ c.fn = "EntityOpen"
        /\ UNCHANGED << held, ent, reserved, serving, dir >> /\ scan' \subseteq File
    BY DEF EntityOpen, At, Typed
  <1>2. /\ c \in Calls /\ F \in File /\ How \in Arguments \cup MutexNames
        /\ a \in State /\ Pre(c, a) /\ c.file = F /\ c.how = How
    BY <1>1, TopCall DEF F, How
  <1>3. EntityOpenPre(F, a) /\ a.held = held
    BY <1>1, <1>2, AtEntityOpen DEF Now
  <1>4. stack' = s \o Tail(stack) /\ UNCHANGED ok
    BY <1>3 DEF EntityOpen, EntityOpenPre, Do
  <1>5. s \in Seq(PlainCalls)
    <2>1. x \in PlainCalls
      BY <1>2, PlainCall DEF Names, Opening
    <2> HIDE DEF x
    <2>2. AutoLock(fdent_data_lock(F), << x >>) \in Seq(PlainCalls)
      BY <1>2, <2>1, PlainAutoLock, MutexTypes
    <2> QED BY <1>2, <2>2, PlainAutoLock, MutexTypes
  <1>6. Runs(s, a, After(c, a))
    <2> HIDE DEF a, c
    <2> QED BY <1>1, <1>2, <1>3, EntityOpenRuns
  <1> HIDE DEF s
  <1> QED BY <1>1, <1>4, <1>5, <1>6, Pushing

\* Fields of an entity are assigned to.
LEMMA EntityUpdates ==
    ASSUME NEW e0 \in Entity
    PROVE  /\ LET e == [e0 EXCEPT !.fd = TRUE, !.refcnt = 1, !.is_modify = FALSE]
              IN  e \in Entity /\ e.fd /\ e.mapped = e0.mapped /\ e.refcnt = 1
           /\ \A n \in 0 .. 4 :
                LET e == [e0 EXCEPT !.refcnt = n]
                IN  e \in Entity /\ e.fd = e0.fd /\ e.mapped = e0.mapped /\ e.refcnt = n
  <1> DEFINE d == [e0 EXCEPT !.fd = TRUE]
             e == [d EXCEPT !.refcnt = 1]
             g == [e EXCEPT !.is_modify = FALSE]
  <1>1. d \in Entity /\ d.fd /\ d.mapped = e0.mapped
    BY DEF Entity
  <1>2. g = [e0 EXCEPT !.fd = TRUE, !.refcnt = 1, !.is_modify = FALSE]
    OBVIOUS
  <1> HIDE DEF d
  <1>3. e \in Entity /\ e.fd /\ e.mapped = e0.mapped /\ e.refcnt = 1
    BY <1>1 DEF Entity
  <1> HIDE DEF e
  <1>4. g \in Entity /\ g.fd /\ g.mapped = e0.mapped /\ g.refcnt = 1
    BY <1>3 DEF Entity
  <1> HIDE DEF g
  <1>5. \A n \in 0 .. 4 :
           LET h == [e0 EXCEPT !.refcnt = n]
           IN  h \in Entity /\ h.fd = e0.fd /\ h.mapped = e0.mapped /\ h.refcnt = n
    BY DEF Entity
  <1> QED BY <1>2, <1>4, <1>5

\* What the four outcomes of FdEntity::Open have in common.
LEMMA OpenedReturns ==
    ASSUME NEW cl \in BOOLEAN, NEW ex \in BOOLEAN, Typed, Going(cl, ex), At("Opened"),
           NEW e, e \in Entity, Assigned(F, e), OpenedTo(How, ent[F], e, ok'),
           ok' \in BOOLEAN, stack' = Tail(stack), dir' \subseteq dir \cup {F},
           UNCHANGED << held, scan, reserved, serving >>
    PROVE  Inv'
  <1> DEFINE c == Head(stack)
             a == Now(cl, ex)
             b == Now(cl, ex)'
             f == F
  <1>1. /\ stack # <<>> /\ c.fn = "Opened" /\ UNCHANGED << held, reserved, serving >>
        /\ scan' \subseteq File
    BY DEF At, Typed
  <1>2. c \in Calls /\ f \in File /\ a \in State /\ Pre(c, a) /\ c.file = f /\ c.how = How
    BY <1>1, TopCall DEF F, How
  <1>3. dir' \subseteq File
    BY <1>2 DEF Typed
  <1>4. Assigned(f, e) /\ OpenedTo(How, ent[f], e, ok')
    OBVIOUS
  <1> HIDE DEF f
  <1>5. /\ b \in State /\ Frame(a, b, f) /\ b.ent[f] = e /\ b.ok = ok' /\ a.ent = ent
        /\ f = Own => ent'[Own] = e
        /\ f # Own => ent'[Own] = ent[Own]
    BY <1>1, <1>2, <1>4, Assigning
  <1>6. Post(c, a, b)
    <2>1. OpenedPost(f, How, a, b)
      BY <1>4, <1>5 DEF OpenedPost
    <2> QED BY <1>1, <1>2, <2>1, AtOpened
  <1>7. IsOpen(ent[Own]) /\ ~ ex => IsOpen(ent'[Own])
    BY <1>4, <1>5 DEF IsOpen, OpenedTo
  <1>8. cl => cl /\ c.fn # "CleanupFile"
    BY <1>1
  <1> QED BY <1>1, <1>3, <1>5, <1>6, <1>7, <1>8, Returning

LEMMA OpenedStep ==
    ASSUME NEW cl \in BOOLEAN, NEW ex \in BOOLEAN, Typed, Going(cl, ex),
           Opened \/ ResizeFails \/ OpenFails \/ LinkFails
    PROVE  Inv'
  <1> DEFINE c == Head(stack)
             a == Now(cl, ex)
             f == F
             e0 == ent[f]
  <1>1. stack # <<>> /\ c.fn = "Opened" /\ At("Opened")
    BY DEF Opened, ResizeFails, OpenFails, LinkFails, At
  <1>2. c \in Calls /\ f \in File /\ a \in State /\ Pre(c, a) /\ c.file = f
    BY <1>1, TopCall DEF F
  <1>3. ent \in [File -> Entity] /\ e0.refcnt <= 3
    BY <1>1, <1>2, AtOpened DEF OpenedPre, Now, State
  <1>4. /\ e0 \in Entity /\ e0.refcnt \in 0 .. 4 /\ e0.fd \in BOOLEAN /\ e0.mapped \in BOOLEAN
        /\ e0.is_modify \in BOOLEAN
    <2>1. e0 \in Entity
      BY <1>2, <1>3
    <2> QED BY <2>1 DEF Entity
  <1>5. CASE Opened
    <2>1. /\ ok' = TRUE /\ stack' = Tail(stack)
          /\ UNCHANGED << held, scan, reserved, serving >>
      BY <1>5 DEF Opened, Return
    <2>2. CASE e0.fd
      <3> DEFINE e == [e0 EXCEPT !.refcnt = @ + 1]
      <3>1. e \in Entity /\ e.fd /\ e.mapped = e0.mapped /\ e.refcnt = e0.refcnt + 1
        BY <1>3, <1>4, <2>2 DEF Entity
      <3>2. Assigned(f, e) /\ dir' \subseteq dir \cup {f}
        BY <1>2, <1>3, <1>5, <2>2 DEF Opened, Assigned, Entity
      <3> HIDE DEF e
      <3>3. OpenedTo(How, e0, e, ok')
        BY <2>1, <2>2, <3>1 DEF OpenedTo
      <3>4. ok' \in BOOLEAN
        BY <2>1
      <3> QED BY <1>1, <2>1, <3>1, <3>2, <3>3, <3>4, OpenedReturns
    <2>3. CASE ~ e0.fd
      <3> DEFINE e == [e0 EXCEPT !.fd = TRUE, !.refcnt = 1, !.is_modify = FALSE]
      <3>1. e \in Entity /\ e.fd /\ e.mapped = e0.mapped /\ e.refcnt = 1
        <4> HIDE DEF e0
        <4> QED BY <1>4, EntityUpdates
      <3>2. Assigned(f, e) /\ dir' \subseteq dir \cup {f}
        BY <1>2, <1>3, <1>5, <2>3 DEF Opened, Assigned, Entity
      <3> HIDE DEF e
      <3>3. OpenedTo(How, e0, e, ok')
        BY <2>1, <2>3, <3>1 DEF OpenedTo
      <3>4. ok' \in BOOLEAN
        BY <2>1
      <3> QED BY <1>1, <2>1, <3>1, <3>2, <3>3, <3>4, OpenedReturns
    <2> QED BY <2>2, <2>3
  <1>6. CASE ResizeFails \/ OpenFails
    <2>1. /\ ok' = FALSE /\ stack' = Tail(stack) /\ dir' \subseteq dir \cup {f}
          /\ UNCHANGED << held, scan, reserved, serving >> /\ ent' = ent
      BY <1>6 DEF ResizeFails, OpenFails, Return
    <2>2. Assigned(f, e0)
      BY <1>2, <1>3, <2>1 DEF Assigned
    <2>3. OpenedTo(How, e0, e0, ok')
      BY <1>6, <2>1 DEF OpenedTo, ResizeFails, OpenFails
    <2>4. ok' \in BOOLEAN
      BY <2>1
    <2> HIDE DEF e0
    <2>5. OpenedTo(How, ent[F], e0, ok') /\ dir' \subseteq dir \cup {F} /\ Assigned(F, e0)
      BY <2>1, <2>2, <2>3 DEF e0
    <2> QED BY <1>1, <1>4, <2>1, <2>4, <2>5, OpenedReturns
  <1>7. CASE LinkFails
    <2>1. /\ ok' = FALSE /\ stack' = Tail(stack) /\ dir' \subseteq dir \cup {f}
          /\ UNCHANGED << held, scan, reserved, serving >> /\ ~ e0.fd /\ "link" \in Faults
          /\ ent' = [ent EXCEPT ![f].fd = TRUE]
      BY <1>7 DEF LinkFails, Return
    <2> DEFINE e == [e0 EXCEPT !.fd = TRUE]
    <2>2. e \in Entity /\ e.fd /\ e.mapped = e0.mapped /\ e.refcnt = e0.refcnt
      BY <1>3, <1>4 DEF Entity
    <2>3. Assigned(f, e)
      BY <1>2, <1>3, <2>1 DEF Assigned, Entity
    <2> HIDE DEF e
    <2>4. OpenedTo(How, e0, e, ok')
      BY <2>1, <2>2 DEF OpenedTo
    <2>5. ok' \in BOOLEAN
      BY <2>1
    <2> QED BY <1>1, <2>1, <2>2, <2>3, <2>4, <2>5, OpenedReturns
  <1> QED BY <1>5, <1>6, <1>7

LEMMA EntityCloseStep ==
    ASSUME NEW cl \in BOOLEAN, NEW ex \in BOOLEAN, Typed, Going(cl, ex), EntityClose
    PROVE  Inv'
  <1> DEFINE c == Head(stack)
             a == Now(cl, ex)
             x == Call("Decrement", F, "")
             s == AutoLock(fdent_lock(F), << x >>)
  <1>1. /\ stack # <<>> /\ c.fn = "EntityClose" /\ stack' = s \o Tail(stack)
        /\ UNCHANGED << held, ent, ok, reserved, serving, dir >> /\ scan' \subseteq File
    BY DEF EntityClose, At, Do, Typed
  <1>2. /\ c \in Calls /\ F \in File /\ a \in State /\ Pre(c, a) /\ c.file = F
    BY <1>1, TopCall DEF F
  <1>3. s \in Seq(PlainCalls)
    <2>1. x \in PlainCalls
      BY <1>2, PlainCall DEF Names, Opening, Arguments
    <2> HIDE DEF x
    <2>2. fdent_lock(F) \in Mutexes /\ << x >> \in Seq(PlainCalls)
      BY <1>2, <2>1, MutexTypes
    <2> QED BY <2>2, PlainAutoLock
  <1>4. Runs(s, a, After(c, a))
    <2>1. EntityClosePre(F, a)
      BY <1>1, <1>2, AtEntityClose
    <2> HIDE DEF a, c
    <2> QED BY <1>1, <1>2, <2>1, EntityCloseRuns
  <1> HIDE DEF s
  <1> QED BY <1>1, <1>3, <1>4, Pushing

LEMMA DecrementStep ==
    ASSUME NEW cl \in BOOLEAN, NEW ex \in BOOLEAN, Typed, Going(cl, ex), Decrement
    PROVE  Inv'
  <1> DEFINE c == Head(stack)
             a == Now(cl, ex)
             b == Now(cl, ex)'
             f == F
             e0 == ent[f]
             e == [e0 EXCEPT !.refcnt = @ - 1]
             x == Call("CloseFile", f, "")
             s == AutoLock(fdent_data_lock(f), << x >>)
  <1>1. /\ stack # <<>> /\ c.fn = "Decrement" /\ (e0.fd => 0 < e0.refcnt)
        /\ UNCHANGED << held, dir, scan, ok, reserved, serving >>
        /\ scan' \subseteq File /\ dir' \subseteq File
    BY DEF Decrement, At, Typed
  <1>2. /\ c \in Calls /\ f \in File /\ a \in State /\ Pre(c, a) /\ c.file = f
        /\ a.ent = ent /\ a.ok = ok
    BY <1>1, TopCall DEF F, Now
  <1>3. ent \in [File -> Entity] /\ DecrementPre(f, a) /\ ok' \in BOOLEAN
    BY <1>1, <1>2, AtDecrement DEF State
  <1>4. /\ e0 \in Entity /\ e0.refcnt \in 0 .. 4 /\ e0.fd \in BOOLEAN /\ e0.mapped \in BOOLEAN
    <2>1. e0 \in Entity
      BY <1>2, <1>3
    <2> QED BY <2>1 DEF Entity
  <1>5. cl => cl /\ c.fn # "CleanupFile"
    BY <1>1
  <1>6. CASE ~ e0.fd
    <2>1. stack' = Tail(stack) /\ ent' = ent
      BY <1>6 DEF Decrement, Return
    <2>2. b \in State /\ b = a
      BY <1>1, <1>2, <2>1 DEF Now
    <2>3. DecrementPost(f, a, b)
      BY <1>2, <1>6, <2>2 DEF DecrementPost, Frame
    <2>4. Post(c, a, b)
      BY <1>1, <1>2, <2>3, AtDecrement
    <2> QED BY <1>1, <1>5, <2>1, <2>2, <2>4, Returning
  <1>7. CASE e0.fd
    <2>1. /\ ent' = [ent EXCEPT ![f].refcnt = @ - 1]
          /\ e0.refcnt = 1 => stack' = s \o Tail(stack)
          /\ e0.refcnt # 1 => stack' = Tail(stack)
      BY <1>7 DEF Decrement, Return, Do
    <2>2. Assigned(f, e)
      BY <1>2, <1>3, <2>1 DEF Assigned, Entity
    <2>3. /\ e \in Entity /\ e.mapped = e0.mapped /\ e.fd = e0.fd /\ e.refcnt = e0.refcnt - 1
      <3>1. e0.refcnt - 1 \in 0 .. 4
        BY <1>1, <1>4, <1>7
      <3> HIDE DEF e0
      <3> QED BY <1>4, <3>1, EntityUpdates
    <2>4. /\ b \in State /\ Frame(a, b, f) /\ b.ent[f] = e /\ b.ok = a.ok
          /\ f = Own => ent'[Own] = e
          /\ f # Own => ent'[Own] = ent[Own]
      <3> HIDE DEF e, f
      <3>1. UNCHANGED << held, reserved, serving >> /\ ok' = ok
        BY <1>1
      <3>2. /\ b \in State /\ Frame(a, b, f) /\ b.ent[f] = e /\ b.ok = ok'
            /\ f = Own => ent'[Own] = e
            /\ f # Own => ent'[Own] = ent[Own]
        BY <1>2, <1>3, <2>2, <2>3, <3>1, Assigning
      <3> QED BY <1>2, <3>1, <3>2
    <2>5. IsOpen(ent[Own]) /\ ~ ex => IsOpen(ent'[Own])
      BY <2>3, <2>4 DEF IsOpen
    <2>6. CASE e0.refcnt = 1
      <3>1. s \in Seq(PlainCalls)
        <4>1. x \in PlainCalls
          BY <1>2, PlainCall DEF Names, Opening, Arguments
        <4> HIDE DEF x, f
        <4>2. fdent_data_lock(f) \in Mutexes /\ << x >> \in Seq(PlainCalls)
          BY <1>2, <4>1, MutexTypes
        <4> QED BY <4>2, PlainAutoLock
      <3>2. Runs(s, b, After(c, a))
        <4>1. a.ent[f].fd /\ a.ent[f].refcnt = 1 /\ b.ent[f] = [a.ent[f] EXCEPT !.refcnt = @ - 1]
          BY <1>2, <1>7, <2>4, <2>6
        <4> HIDE DEF a, b, c, f, e0
        <4> QED BY <1>1, <1>2, <1>3, <2>4, <4>1, DecrementRuns
      <3>3. stack' = s \o Tail(stack)
        BY <2>1, <2>6
      <3> HIDE DEF s
      <3> QED BY <1>1, <1>5, <2>4, <2>5, <3>1, <3>2, <3>3, Stepping
    <2>7. CASE e0.refcnt # 1
      <3>1. DecrementPost(f, a, b)
        <4>1. e0.refcnt > 1 /\ e.fd /\ e0.refcnt > 0
          BY <1>1, <1>4, <1>7, <2>3, <2>7
        <4> HIDE DEF e, f
        <4> QED BY <1>2, <1>7, <2>3, <2>4, <4>1 DEF DecrementPost
      <3>2. Post(c, a, b)
        BY <1>1, <1>2, <3>1, AtDecrement
      <3> QED BY <1>1, <1>5, <2>1, <2>4, <2>5, <2>7, <3>2, Returning
    <2> QED BY <2>6, <2>7
  <1> QED BY <1>6, <1>7

LEMMA CloseFileStep ==
    ASSUME NEW cl \in BOOLEAN, NEW ex \in BOOLEAN, Typed, Going(cl, ex), CloseFile
    PROVE  Inv'
  <1> DEFINE c == Head(stack)
             a == Now(cl, ex)
             b == Now(cl, ex)'
             f == F
             e == [ent[f] EXCEPT !.fd = FALSE]
  <1>1. /\ stack # <<>> /\ c.fn = "CloseFile" /\ stack' = Tail(stack)
        /\ ent' = [ent EXCEPT ![f].fd = FALSE]
        /\ UNCHANGED << held, dir, scan, ok, reserved, serving >>
        /\ scan' \subseteq File /\ dir' \subseteq File
    BY DEF CloseFile, At, Return, Typed
  <1>2. /\ c \in Calls /\ f \in File /\ a \in State /\ Pre(c, a) /\ c.file = f
        /\ a.ent = ent /\ a.ok = ok /\ a.exiting = ex
    BY <1>1, TopCall DEF F, Now
  <1>3. ent \in [File -> Entity] /\ CloseFilePre(f, a) /\ ok' \in BOOLEAN
    BY <1>1, <1>2, AtCloseFile DEF State
  <1> HIDE DEF f
  <1>4. e \in Entity /\ Assigned(f, e) /\ UNCHANGED << held, reserved, serving >> /\ ok' = ok
    <2>1. e \in Entity
      <3> DEFINE e0 == ent[f]
      <3>1. e0 \in Entity
        BY <1>2, <1>3
      <3> HIDE DEF e0
      <3>2. [e0 EXCEPT !.fd = FALSE] \in Entity
        BY <3>1 DEF Entity
      <3> QED BY <3>2 DEF e0
    <2>2. Assigned(f, e)
      BY <1>1 DEF Assigned
    <2>3. UNCHANGED << held, reserved, serving >> /\ ok' = ok
      BY <1>1
    <2> QED BY <2>1, <2>2, <2>3
  <1>5. /\ b \in State /\ Frame(a, b, f) /\ b.ent[f] = e /\ b.ok = a.ok
        /\ f # Own => ent'[Own] = ent[Own]
    <2> HIDE DEF e
    <2>1. /\ b \in State /\ Frame(a, b, f) /\ b.ent[f] = e /\ b.ok = ok'
          /\ f # Own => ent'[Own] = ent[Own]
      BY <1>2, <1>3, <1>4, Assigning
    <2> QED BY <1>2, <1>4, <2>1
  <1>6. Post(c, a, b)
    <2>1. CloseFilePost(f, a, b)
      BY <1>2, <1>5 DEF CloseFilePost
    <2> QED BY <1>1, <1>2, <2>1, AtCloseFile
  <1>7. IsOpen(ent[Own]) /\ ~ ex => IsOpen(ent'[Own])
    BY <1>2, <1>3, <1>5 DEF CloseFilePre
  <1>8. cl => cl /\ c.fn # "CleanupFile"
    BY <1>1
  <1> QED BY <1>1, <1>5, <1>6, <1>7, <1>8, Returning

LEMMA CloseStep ==
    ASSUME NEW cl \in BOOLEAN, NEW ex \in BOOLEAN, Typed, Going(cl, ex), Close
    PROVE  Inv'
  <1> DEFINE c == Head(stack)
             a == Now(cl, ex)
             x == Call("EntityClose", F, "")
             y == Call("Erase", F, "")
             s == AutoLock(fd_manager_lock, << x, y >>)
  <1>1. /\ stack # <<>> /\ c.fn = "Close"
        /\ UNCHANGED << held, ent, ok, reserved, serving, dir >> /\ scan' \subseteq File
    BY DEF Close, At, Typed
  <1>2. /\ c \in Calls /\ F \in File /\ a \in State /\ Pre(c, a) /\ c.file = F /\ a.ent = ent
    BY <1>1, TopCall DEF F, Now
  <1>3. ClosePre(F, a)
    BY <1>1, <1>2, AtClose
  <1>4. stack' = s \o Tail(stack)
    BY <1>2, <1>3 DEF Close, ClosePre, Do
  <1>5. s \in Seq(PlainCalls)
    <2>1. x \in PlainCalls /\ y \in PlainCalls
      BY <1>2, PlainCall DEF Names, Opening, Arguments
    <2> HIDE DEF x, y
    <2>2. fd_manager_lock \in Mutexes /\ << x, y >> \in Seq(PlainCalls)
      BY <2>1, MutexTypes
    <2> QED BY <2>2, PlainAutoLock
  <1>6. Runs(s, a, After(c, a))
    <2> HIDE DEF a, c
    <2> QED BY <1>1, <1>2, <1>3, CloseRuns
  <1> HIDE DEF s
  <1> QED BY <1>1, <1>4, <1>5, <1>6, Pushing

LEMMA EraseStep ==
    ASSUME NEW cl \in BOOLEAN, NEW ex \in BOOLEAN, Typed, Going(cl, ex), Erase
    PROVE  Inv'
  <1> DEFINE c == Head(stack)
             a == Now(cl, ex)
             b == Now(cl, ex)'
             f == F
             s == AutoLock(fdent_lock(f), AutoLock(fdent_data_lock(f), <<>>))
  <1>1. /\ stack # <<>> /\ c.fn = "Erase"
        /\ UNCHANGED << held, dir, scan, ok, reserved, serving >>
        /\ scan' \subseteq File /\ dir' \subseteq File
    BY DEF Erase, At, Typed
  <1>2. /\ c \in Calls /\ f \in File /\ a \in State /\ Pre(c, a) /\ c.file = f
        /\ a.ent = ent /\ a.ok = ok
    BY <1>1, TopCall DEF F, Now
  <1>3. ErasePre(f, a) /\ ok' \in BOOLEAN
    BY <1>1, <1>2, AtErase DEF State
  <1>4. cl => cl /\ c.fn # "CleanupFile"
    BY <1>1
  <1>5. CASE ent[f].fd
    <2>1. stack' = Tail(stack) /\ ent' = ent
      BY <1>5 DEF Erase, Return
    <2>2. b \in State /\ b = a
      BY <1>1, <1>2, <2>1 DEF Now
    <2>3. ErasePost(f, a, b)
      BY <1>2, <1>5, <2>2 DEF ErasePost, Frame
    <2>4. Post(c, a, b)
      BY <1>1, <1>2, <2>3, AtErase
    <2> QED BY <1>1, <1>4, <2>1, <2>2, <2>4, Returning
  <1>6. CASE ~ ent[f].fd
    <2>1. Assigned(f, NoEntity) /\ stack' = s \o Tail(stack)
      BY <1>6 DEF Erase, Do, Assigned
    <2>2. NoEntity \in Entity
      BY DEF NoEntity, Entity
    <2>3. /\ b \in State /\ Frame(a, b, f) /\ b.ent[f] = NoEntity /\ b.ok = a.ok
          /\ f # Own => ent'[Own] = ent[Own]
      <3> HIDE DEF f
      <3>1. UNCHANGED << held, reserved, serving >> /\ ok' = ok
        BY <1>1
      <3>2. /\ b \in State /\ Frame(a, b, f) /\ b.ent[f] = NoEntity /\ b.ok = ok'
            /\ f # Own => ent'[Own] = ent[Own]
        BY <1>2, <1>3, <2>1, <2>2, <3>1, Assigning
      <3> QED BY <1>2, <3>1, <3>2
    <2>4. IsOpen(ent[Own]) /\ ~ ex => IsOpen(ent'[Own])
      BY <1>6, <2>3 DEF IsOpen
    <2>5. s \in Seq(PlainCalls)
      <3> HIDE DEF f
      <3>1. <<>> \in Seq(PlainCalls) /\ fdent_lock(f) \in Mutexes /\ fdent_data_lock(f) \in Mutexes
        BY <1>2, MutexTypes
      <3>2. AutoLock(fdent_data_lock(f), <<>>) \in Seq(PlainCalls)
        BY <3>1, PlainAutoLock
      <3> QED BY <3>1, <3>2, PlainAutoLock
    <2>6. Runs(s, b, After(c, a))
      <3>1. ~ a.ent[f].fd
        BY <1>2, <1>6
      <3> HIDE DEF a, b, c, f
      <3> QED BY <1>1, <1>2, <1>3, <2>3, <3>1, EraseRuns
    <2> HIDE DEF s
    <2> QED BY <1>1, <1>4, <2>1, <2>3, <2>4, <2>5, <2>6, Stepping
  <1> QED BY <1>5, <1>6
-----------------------------------------------------------------------------
(***************************************************************************)
(* The steps of the cleanup of the cache directory.                        *)
(***************************************************************************)
LEMMA SameAsBefore ==
    ASSUME NEW a, NEW mutexes, NEW n, NEW space, In(a, mutexes, n, space)
    PROVE  Same(a, a) /\ a.reserved = space
  BY DEF Same, In, Steady

LEMMA CleanupCacheDirStep ==
    ASSUME NEW cl \in BOOLEAN, NEW ex \in BOOLEAN, Typed, Going(cl, ex), CleanupCacheDir
    PROVE  Inv'
  <1> DEFINE c == Head(stack)
             a == Now(cl, ex)
             x == Call("Scan", Own, "")
             s == AutoLock(cache_cleanup_lock, << x >>)
  <1>1. /\ stack # <<>> /\ c.fn = "CleanupCacheDir" /\ stack' = s \o Tail(stack)
        /\ UNCHANGED << held, ent, ok, reserved, serving, dir >> /\ scan' \subseteq File
    BY DEF CleanupCacheDir, At, Do, Typed
  <1>2. c \in Calls /\ a \in State /\ Pre(c, a)
    BY <1>1, TopCall
  <1>3. s \in Seq(PlainCalls)
    <2>1. x \in PlainCalls
      BY MutexTypes, PlainCall DEF Names, Opening, Arguments
    <2> HIDE DEF x
    <2>2. cache_cleanup_lock \in Mutexes /\ << x >> \in Seq(PlainCalls)
      BY <2>1, MutexTypes
    <2> QED BY <2>2, PlainAutoLock
  <1>4. Runs(s, a, After(c, a))
    <2>1. PICK mutexes \in Outside : In(a, mutexes, 2, 0)
      BY <1>1, <1>2, AtCleanupCacheDir
    <2> HIDE DEF a, c
    <2> QED BY <1>1, <1>2, <2>1, CleanupCacheDirRuns
  <1> HIDE DEF s
  <1> QED BY <1>1, <1>3, <1>4, Pushing

LEMMA ScanStep ==
    ASSUME NEW cl \in BOOLEAN, NEW ex \in BOOLEAN, Typed, Going(cl, ex), Scan \/ ScanEnd
    PROVE  Inv'
  <1> DEFINE c == Head(stack)
             a == Now(cl, ex)
  <1>1. /\ stack # <<>> /\ c.fn = "Scan"
        /\ UNCHANGED << held, ent, ok, reserved, serving, dir >> /\ dir' \subseteq File
    BY DEF Scan, ScanEnd, At, Typed
  <1>2. c \in Calls /\ a \in State /\ Pre(c, a)
    BY <1>1, TopCall
  <1>3. PICK mutexes \in Outside : In(a, mutexes \cup {cache_cleanup_lock}, 2, 0)
    BY <1>1, <1>2, AtScan
  <1>4. CASE stack' = Tail(stack) /\ scan' = {}
    <2>1. Now(cl, ex)' = a
      BY <1>1 DEF Now
    <2>2. Same(a, a) /\ a.reserved = 0
      <3> HIDE DEF a
      <3> QED BY <1>3, SameAsBefore
    <2>3. Post(c, a, a)
      BY <1>1, <2>2, AtScan
    <2>4. IsOpen(ent[Own]) /\ ~ ex => IsOpen(ent'[Own])
      BY <1>1
    <2>5. cl => cl /\ c.fn # "CleanupFile"
      BY <1>1
    <2>6. scan' \subseteq File
      BY <1>4
    <2> QED BY <1>1, <1>2, <1>4, <2>1, <2>3, <2>4, <2>5, <2>6, Returning
  <1>5. ASSUME NEW f \in scan, scan' = scan \ {f},
               stack' = << Call("Open", f, "nowait"), Call("CleanupFile", f, ""),
                           Call("Scan", Own, "") >> \o Tail(stack)
        PROVE  Inv'
    <2> DEFINE x == Call("Open", f, "nowait")
               y == Call("CleanupFile", f, "")
               z == Call("Scan", Own, "")
               s == << x, y, z >>
               b == Now(TRUE, ex)'
    <2>1. f \in File /\ scan' \subseteq File
      BY <1>5 DEF Typed
    <2>2. x \in PlainCalls /\ y \in PlainCalls /\ z \in PlainCalls /\ y.fn = "CleanupFile"
      <3>1. "" \in Arguments \cup MutexNames /\ "nowait" \in Arguments \cup MutexNames /\ Own \in File
        BY MutexTypes DEF Arguments
      <3>2. {"Open", "CleanupFile", "Scan"} \subseteq (Names \cup Handlers) \ (Opening \cup {"Lock", "Close"})
        BY DEF Names, Opening
      <3>3. x \in PlainCalls
        BY <2>1, <3>1, <3>2, PlainCall
      <3>4. y \in PlainCalls
        BY <2>1, <3>1, <3>2, PlainCall
      <3>5. z \in PlainCalls
        BY <3>1, <3>2, PlainCall
      <3>6. y.fn = "CleanupFile"
        BY DEF Call
      <3> QED BY <3>3, <3>4, <3>5, <3>6
    <2>3. s \in Seq(PlainCalls) /\ \E d \in All(s) : d.fn = "CleanupFile"
      <3> HIDE DEF x, y, z
      <3>1. s \in Seq(PlainCalls) /\ Len(s) = 3 /\ s[2] = y
        BY <2>2
      <3>2. y \in All(s)
        BY <3>1 DEF All
      <3> QED BY <2>2, <3>1, <3>2
    <2>4. /\ b.held = a.held /\ b.ent = a.ent /\ b.reserved = a.reserved /\ b.ok = a.ok
          /\ b.serving = a.serving /\ b.cleaning = TRUE /\ b.exiting = a.exiting
      BY <1>1 DEF Now
    <2>5. b \in State
      BY <1>1, <1>2 DEF Now, State
    <2>6. Runs(s, b, After(c, a))
      <3> HIDE DEF a, b, c
      <3>1. b = [a EXCEPT !.cleaning = TRUE]
        BY <1>2, <2>4, <2>5 DEF State
      <3> QED BY <1>1, <1>2, <1>3, <2>1, <2>5, <3>1, ScanRuns
    <2>7. IsOpen(ent[Own]) /\ ~ ex => IsOpen(ent'[Own])
      BY <1>1
    <2>8. stack' = s \o Tail(stack)
      BY <1>5
    <2> DEFINE cl2 == TRUE
    <2>9. cl2 \in BOOLEAN /\ Now(cl2, ex)' = b
      OBVIOUS
    <2> HIDE DEF s, cl2, b
    <2> QED BY <1>1, <2>1, <2>3, <2>5, <2>6, <2>7, <2>8, <2>9, Stepping
  <1> QED BY <1>4, <1>5 DEF Scan, ScanEnd, Do, Return

LEMMA CleanupFileStep ==
    ASSUME NEW cl \in BOOLEAN, NEW ex \in BOOLEAN, Typed, Going(cl, ex), CleanupFile
    PROVE  Inv'
  <1> DEFINE c == Head(stack)
             a == Now(cl, ex)
             f == F
             x == Call("Close", f, "")
             s == << x >>
  <1>1. PICK no \in BOOLEAN : no = FALSE
    OBVIOUS
  <1> DEFINE b == Now(no, ex)'
  <1>2. /\ stack # <<>> /\ c.fn = "CleanupFile"
        /\ UNCHANGED << held, ent, scan, ok, reserved, serving >>
        /\ dir' \subseteq File /\ scan' \subseteq File
        /\ ok => stack' = s \o Tail(stack)
        /\ ~ ok => stack' = Tail(stack)
    BY DEF CleanupFile, At, Typed, Do, Return
  <1>3. c \in Calls /\ f \in File /\ a \in State /\ Pre(c, a) /\ c.file = f
    BY <1>2, TopCall DEF F
  <1>4. CleanupFilePre(f, a)
    BY <1>2, <1>3, AtCleanupFile
  <1>5. /\ b.held = a.held /\ b.ent = a.ent /\ b.reserved = a.reserved /\ b.ok = a.ok
        /\ b.serving = a.serving /\ b.cleaning = FALSE /\ b.exiting = a.exiting /\ a.ok = ok
    BY <1>1, <1>2 DEF Now
  <1>6. b \in State
    BY <1>2, <1>3 DEF Now, State
  <1>7. /\ a.ok => Runs(s, b, After(c, a))
        /\ ~ a.ok => Post(c, a, b)
    <2> HIDE DEF a, b, c, f
    <2>1. b = [a EXCEPT !.cleaning = FALSE]
      BY <1>3, <1>5, <1>6 DEF State
    <2> QED BY <1>2, <1>3, <1>4, <1>6, <2>1, CleanupFileRuns
  <1>8. IsOpen(ent[Own]) /\ ~ ex => IsOpen(ent'[Own])
    BY <1>2
  <1>9. no => cl /\ c.fn # "CleanupFile"
    BY <1>1
  <1>10. CASE ~ ok
    BY <1>2, <1>5, <1>6, <1>7, <1>8, <1>9, <1>10, Returning
  <1>11. CASE ok
    <2>1. x \in Calls /\ x.fn = "Close"
      BY <1>3 DEF Call, Calls, Names, Arguments
    <2> HIDE DEF x
    <2>2. s \in Seq(Calls) /\ Len(s) = 1 /\ s[1] = x
      BY <2>1
    <2>3. All(s) = {x} /\ Rest(s) = {}
      <3>1. 1 .. Len(s) = {1} /\ 2 .. Len(s) = {}
        BY <2>2
      <3> HIDE DEF s
      <3> QED BY <2>2, <3>1 DEF All, Rest
    <2>4. \A d \in All(s) : d.fn \notin Opening
      BY <2>1, <2>3 DEF Opening
    <2>5. \A d \in Rest(s) : d.fn = "Close" => d.file = Own /\ IsOpen(ent'[Own]) /\ ~ ex
      BY <2>3
    <2>6. (\E d \in Rest(stack) : d.fn = "Close") => IsOpen(ent'[Own]) /\ ~ ex
      BY <1>2 DEF Going
    <2>7. stack' = s \o Tail(stack) /\ Runs(s, b, After(c, a))
      BY <1>2, <1>5, <1>7, <1>11
    <2> HIDE DEF s
    <2> QED BY <1>2, <1>6, <1>9, <2>2, <2>4, <2>5, <2>6, <2>7, Calling
  <1> QED BY <1>10, <1>11
-----------------------------------------------------------------------------
(***************************************************************************)
(* The steps of the handlers that return.                                  *)
(***************************************************************************)
\* The entity of the file that is served is written to or uploaded.
Modified(v) == ent' = [ent EXCEPT ![Own].is_modify = v]

LEMMA Staying ==
    ASSUME NEW cl \in BOOLEAN, NEW ex \in BOOLEAN, Now(cl, ex) \in State,
           NEW mutexes, NEW n, NEW space, In(Now(cl, ex), mutexes, n, space),
           ent' = ent \/ \E v \in BOOLEAN : Modified(v),
           ok' \in BOOLEAN, reserved' \in 0 .. 1, UNCHANGED << held, serving >>
    PROVE  /\ Now(cl, ex)' \in State /\ Same(Now(cl, ex), Now(cl, ex)')
           /\ Now(cl, ex)'.reserved = reserved' /\ Now(cl, ex)'.ok = ok'
           /\ IsOpen(ent[Own]) => IsOpen(ent'[Own])
  <1> DEFINE a == Now(cl, ex)
             b == Now(cl, ex)'
  <1>1. /\ ent \in [File -> Entity] /\ held \in SUBSET Mutexes /\ serving \in BOOLEAN
        /\ Own \in File /\ Others = File \ {Own}
    BY FilesAssumption DEF Now, State, File
  <1>2. /\ ent' \in [File -> Entity]
        /\ \A g \in Others : ent'[g] = ent[g]
        /\ ent'[Own].mapped = ent[Own].mapped /\ ent'[Own].fd = ent[Own].fd
        /\ ent'[Own].refcnt = ent[Own].refcnt
    <2>1. CASE ent' = ent
      BY <1>1, <2>1
    <2>2. ASSUME NEW v \in BOOLEAN, Modified(v)
          PROVE  <1>2
      <3> DEFINE e == ent[Own]
                 e2 == [e EXCEPT !.is_modify = v]
      <3>1. e \in Entity
        BY <1>1
      <3> HIDE DEF e
      <3>2. e2 \in Entity /\ e2.mapped = e.mapped /\ e2.fd = e.fd /\ e2.refcnt = e.refcnt
        BY <3>1 DEF Entity
      <3>3. ent' = [ent EXCEPT ![Own] = e2]
        BY <2>2 DEF Modified, e
      <3> HIDE DEF e2
      <3>4. ent' \in [File -> Entity] /\ ent'[Own] = e2 /\ \A g \in Others : ent'[g] = ent[g]
        BY <1>1, <3>2, <3>3
      <3> QED BY <3>2, <3>4 DEF e
    <2> QED BY <2>1, <2>2
  <1>3. b \in State
    BY <1>1, <1>2 DEF Now, State
  <1>4. /\ a.ent = ent /\ a.held = held /\ a.serving = serving
        /\ a.cleaning = cl /\ a.exiting = ex
        /\ b.ent = ent' /\ b.held = held /\ b.serving = serving /\ b.reserved = reserved'
        /\ b.ok = ok' /\ b.cleaning = cl /\ b.exiting = ex
    BY DEF Now
  <1> HIDE DEF a, b
  <1>5. Same(a, b)
    <2>1. In(a, mutexes, n, space)
      BY DEF a
    <2> QED BY <1>2, <1>4, <2>1 DEF Same, In, Steady, IsOpen
  <1>6. IsOpen(ent[Own]) => IsOpen(ent'[Own])
    BY <1>2 DEF IsOpen
  <1> QED BY <1>3, <1>4, <1>5, <1>6 DEF a, b

LEMMA HandlerReturns ==
    ASSUME NEW cl \in BOOLEAN, NEW ex \in BOOLEAN, Typed, Going(cl, ex), stack # <<>>,
           Head(stack).fn # "CleanupFile", stack' = Tail(stack),
           UNCHANGED << held, serving, dir, scan >>,
           NEW mutexes, NEW n, NEW space, In(Now(cl, ex), mutexes, n, space),
           ent' = ent \/ \E v \in BOOLEAN : Modified(v),
           ok' \in BOOLEAN, reserved' \in 0 .. 1,
           \A b \in State : Same(Now(cl, ex), b) /\ b.reserved = reserved' /\ b.ok = ok'
                              => Post(Head(stack), Now(cl, ex), b)
    PROVE  Inv'
  <1>1. /\ Now(cl, ex)' \in State /\ Same(Now(cl, ex), Now(cl, ex)')
        /\ Now(cl, ex)'.reserved = reserved' /\ Now(cl, ex)'.ok = ok'
        /\ IsOpen(ent[Own]) => IsOpen(ent'[Own])
    BY Staying DEF Going
  <1>2. Post(Head(stack), Now(cl, ex), Now(cl, ex)')
    BY <1>1
  <1>3. /\ dir' \subseteq File /\ scan' \subseteq File
        /\ IsOpen(ent[Own]) /\ ~ ex => IsOpen(ent'[Own])
        /\ cl => cl /\ Head(stack).fn # "CleanupFile"
    BY <1>1 DEF Typed
  <1> QED BY <1>1, <1>2, <1>3, Returning

LEMMA ReserveStep ==
    ASSUME NEW cl \in BOOLEAN, NEW ex \in BOOLEAN, Typed, Going(cl, ex), Reserve \/ ReserveAgain
    PROVE  Inv'
  <1> DEFINE c == Head(stack)
             a == Now(cl, ex)
  <1>1. /\ stack # <<>> /\ c.fn \in {"Reserve", "ReserveAgain"} /\ stack' = Tail(stack)
        /\ UNCHANGED << held, serving, dir, scan >> /\ ent' = ent
        /\ ok' \in BOOLEAN /\ reserved' = reserved + Bit(ok')
    <2>1. CASE Reserve
      BY <2>1 DEF Reserve, At, Return, Bit
    <2>2. CASE ReserveAgain
      <3>1. a \in State
        BY DEF Going
      <3>2. reserved \in 0 .. 1
        BY <3>1 DEF Now, State
      <3> QED BY <2>2, <3>2 DEF ReserveAgain, At, Return, Bit
    <2> QED BY <2>1, <2>2
  <1>2. a \in State /\ Pre(c, a)
    BY <1>1, TopCall
  <1>3. In(a, {data}, 2, 0)
    <2>1. c.fn \in {"Reserve", "ReserveAgain"}
      BY <1>1
    <2> HIDE DEF a, c
    <2>2. \A q : Pre(c, q) <=> In(q, {data}, 2, 0)
      BY <2>1, AtReserve
    <2> QED BY <1>2, <2>2
  <1>4. reserved' = Bit(ok') /\ reserved' \in 0 .. 1
    <2>1. reserved = 0
      BY <1>3 DEF In, Now
    <2> QED BY <1>1, <2>1 DEF Bit
  <1>5. \A b \in State : Same(a, b) /\ b.reserved = reserved' /\ b.ok = ok' => Post(c, a, b)
    BY <1>1, <1>4, AtReserve
  <1> QED BY <1>1, <1>3, <1>4, <1>5, HandlerReturns

LEMMA LoadAndFreeStep ==
    ASSUME NEW cl \in BOOLEAN, NEW ex \in BOOLEAN, Typed, Going(cl, ex), LoadAndFree
    PROVE  Inv'
  <1> DEFINE c == Head(stack)
             a == Now(cl, ex)
  <1>1. /\ stack # <<>> /\ c.fn = "LoadAndFree" /\ stack' = Tail(stack)
        /\ UNCHANGED << held, serving, dir, scan >> /\ ent' = ent
        /\ ok => reserved' = reserved - 1 /\ ok' \in BOOLEAN
        /\ ~ ok => UNCHANGED << ok, reserved >>
    BY DEF LoadAndFree, At, Return
  <1>2. a \in State /\ Pre(c, a)
    BY <1>1, TopCall
  <1>3. In(a, {data}, 2, Bit(a.ok)) /\ ok \in BOOLEAN /\ reserved = Bit(ok)
    <2>1. In(a, {data}, 2, Bit(a.ok))
      BY <1>1, <1>2, AtLoadAndFree
    <2>2. ok \in BOOLEAN
      BY <1>2 DEF Now, State
    <2> QED BY <2>1, <2>2 DEF In, Now
  <1>4. reserved' = 0 /\ ok' \in BOOLEAN
    BY <1>1, <1>3 DEF Bit
  <1>5. \A b \in State : Same(a, b) /\ b.reserved = reserved' /\ b.ok = ok' => Post(c, a, b)
    BY <1>1, <1>4, AtLoadAndFree
  <1>6. reserved' \in 0 .. 1
    BY <1>4
  <1> QED BY <1>1, <1>3, <1>4, <1>5, <1>6, HandlerReturns

LEMMA LoadStep ==
    ASSUME NEW cl \in BOOLEAN, NEW ex \in BOOLEAN, Typed, Going(cl, ex), Load
    PROVE  Inv'
  <1> DEFINE c == Head(stack)
             a == Now(cl, ex)
  <1>1. /\ stack # <<>> /\ c.fn = "Load" /\ stack' = Tail(stack)
        /\ UNCHANGED << held, serving, dir, scan >> /\ ent' = ent
        /\ reserved' = reserved /\ ok' \in BOOLEAN
    BY DEF Load, At, Return
  <1>2. a \in State /\ Pre(c, a)
    BY <1>1, TopCall
  <1>3. In(a, {fdent_lock(Own), data}, 2, 0) /\ reserved' = 0
    <2>1. In(a, {fdent_lock(Own), data}, 2, 0)
      BY <1>1, <1>2, AtLoad
    <2> QED BY <1>1, <2>1 DEF In, Now
  <1>4. \A b \in State : Same(a, b) /\ b.reserved = reserved' /\ b.ok = ok' => Post(c, a, b)
    BY <1>1, <1>3, AtLoad
  <1>5. reserved' \in 0 .. 1
    BY <1>3
  <1> QED BY <1>1, <1>3, <1>4, <1>5, HandlerReturns

LEMMA PwriteStep ==
    ASSUME NEW cl \in BOOLEAN, NEW ex \in BOOLEAN, Typed, Going(cl, ex), Pwrite
    PROVE  Inv'
  <1> DEFINE c == Head(stack)
             a == Now(cl, ex)
             v == ent[Own].is_modify \/ ok
  <1>1. /\ stack # <<>> /\ c.fn = "Pwrite" /\ stack' = Tail(stack)
        /\ UNCHANGED << held, serving, dir, scan >> /\ Modified(v)
        /\ UNCHANGED << ok, reserved >>
    BY DEF Pwrite, At, Return, Modified
  <1>2. a \in State /\ Pre(c, a)
    BY <1>1, TopCall
  <1>3. In(a, {data}, 2, 0) /\ reserved' = 0 /\ ok' \in BOOLEAN
    <2>1. In(a, {data}, 2, 0)
      <3>1. c.fn \in {"Read", "Pwrite"}
        BY <1>1
      <3> HIDE DEF a, c
      <3>2. \A q : Pre(c, q) <=> In(q, {data}, 2, 0)
        BY <3>1, AtRead
      <3> QED BY <1>2, <3>2
    <2>2. ok \in BOOLEAN
      BY <1>2 DEF Now, State
    <2> QED BY <1>1, <2>1, <2>2 DEF In, Now
  <1>4. \A b \in State : Same(a, b) /\ b.reserved = reserved' /\ b.ok = ok' => Post(c, a, b)
    BY <1>1, <1>3, AtRead
  <1>5. reserved' \in 0 .. 1
    BY <1>3
  <1>6. v \in BOOLEAN
    OBVIOUS
  <1> HIDE DEF v
  <1> QED BY <1>1, <1>3, <1>4, <1>5, <1>6, HandlerReturns

LEMMA RowFlushStep ==
    ASSUME NEW cl \in BOOLEAN, NEW ex \in BOOLEAN, Typed, Going(cl, ex), RowFlush
    PROVE  Inv'
  <1> DEFINE c == Head(stack)
             a == Now(cl, ex)
  <1>1. /\ stack # <<>> /\ c.fn = "RowFlush" /\ stack' = Tail(stack)
        /\ UNCHANGED << held, serving, dir, scan >>
        /\ ent' = ent \/ \E v \in BOOLEAN : Modified(v)
        /\ ok' \in BOOLEAN /\ reserved' = reserved
    BY DEF RowFlush, At, Return, Modified
  <1>2. a \in State /\ Pre(c, a)
    BY <1>1, TopCall
  <1>3. PICK n \in 1 .. 2 : In(a, {data}, n, 0)
    BY <1>1, <1>2, AtRowFlush
  <1>4. reserved' = 0
    BY <1>1, <1>3 DEF In, Now
  <1>5. \A b \in State : Same(a, b) /\ b.reserved = reserved' /\ b.ok = ok' => Post(c, a, b)
    BY <1>1, <1>4, AtRowFlush
  <1>6. reserved' \in 0 .. 1
    BY <1>4
  <1> QED BY <1>1, <1>3, <1>5, <1>6, HandlerReturns
-----------------------------------------------------------------------------
(***************************************************************************)
(* The steps of the handlers that call others.                             *)
(***************************************************************************)
\* What the bodies of the handlers are made of.
LEMMA BodyCall ==
    ASSUME NEW fn \in {"CleanupCacheDir", "Reserve", "ReserveAgain", "ReserveSize", "LoadAndFree",
                       "Read", "CheckSpace", "Pwrite", "Load", "FlushLoaded", "RowFlush"},
           NEW f \in File
    PROVE  Call(fn, f, "") \in PlainCalls
  <1>1. fn \in (Names \cup Handlers) \ (Opening \cup {"Lock", "Close"})
    BY DEF Names, Opening
  <1>2. "" \in Arguments \cup MutexNames
    BY DEF Arguments
  <1> QED BY <1>1, <1>2, PlainCall

LEMMA ReserveFullStep ==
    ASSUME NEW cl \in BOOLEAN, NEW ex \in BOOLEAN, Typed, Going(cl, ex), ReserveFull
    PROVE  Inv'
  <1> DEFINE c == Head(stack)
             a == Now(cl, ex)
             f == F
             x == Call("CleanupCacheDir", Own, "")
             y == Call("ReserveAgain", f, "")
             s == << x, y >>
  <1>1. /\ stack # <<>> /\ c.fn = "Reserve" /\ "full" \in Faults /\ stack' = s \o Tail(stack)
        /\ UNCHANGED << held, ent, ok, reserved, serving, dir >> /\ scan' \subseteq File
    BY DEF ReserveFull, At, Do, Typed
  <1>2. c \in Calls /\ f \in File /\ a \in State /\ Pre(c, a)
    BY <1>1, TopCall
  <1>3. s \in Seq(PlainCalls)
    <2>1. x \in PlainCalls
      BY MutexTypes, BodyCall
    <2>2. y \in PlainCalls
      BY <1>2, BodyCall
    <2> HIDE DEF x, y
    <2> QED BY <2>1, <2>2
  <1>4. Runs(s, a, After(c, a))
    <2>1. c.fn \in {"Reserve", "ReserveAgain"}
      BY <1>1
    <2> HIDE DEF a, c, f
    <2>2. \A q : Pre(c, q) <=> In(q, {data}, 2, 0)
      BY <2>1, AtReserve
    <2> QED BY <1>1, <1>2, <2>2, ReserveRuns
  <1> HIDE DEF s
  <1> QED BY <1>1, <1>3, <1>4, Pushing

\* A function that may do nothing at all.
LEMMA NothingDone ==
    ASSUME NEW cl \in BOOLEAN, NEW ex \in BOOLEAN, Typed, Going(cl, ex), stack # <<>>,
           Head(stack).fn # "CleanupFile", stack' = Tail(stack),
           UNCHANGED << held, ent, dir, scan, ok, reserved, serving >>,
           Post(Head(stack), Now(cl, ex), Now(cl, ex))
    PROVE  Inv'
  <1>1. Now(cl, ex)' = Now(cl, ex) /\ dir' \subseteq File /\ scan' \subseteq File
    BY DEF Now, Typed
  <1>2. Now(cl, ex)' \in State /\ Post(Head(stack), Now(cl, ex), Now(cl, ex)')
    BY <1>1 DEF Going
  <1>3. /\ cl => cl /\ Head(stack).fn # "CleanupFile"
        /\ IsOpen(ent[Own]) /\ ~ ex => IsOpen(ent'[Own])
    OBVIOUS
  <1> QED BY <1>1, <1>2, <1>3, Returning

LEMMA ReadStep ==
    ASSUME NEW cl \in BOOLEAN, NEW ex \in BOOLEAN, Typed, Going(cl, ex), Read
    PROVE  Inv'
  <1> DEFINE c == Head(stack)
             a == Now(cl, ex)
             x == Call("Reserve", Own, "")
             y == Call("ReserveSize", Own, "")
             z == Call("LoadAndFree", Own, "")
             s == << x, y, z >>
  <1>1. /\ stack # <<>> /\ c.fn = "Read"
        /\ stack' = Tail(stack) \/ stack' = s \o Tail(stack)
        /\ UNCHANGED << held, ent, dir, scan, ok, reserved, serving >>
    BY DEF Read, At, Do, Return
  <1>2. c \in Calls /\ a \in State /\ Pre(c, a)
    BY <1>1, TopCall
  <1>3. In(a, {data}, 2, 0) /\ \A b : Post(c, a, b) <=> Same(a, b) /\ b.reserved = 0
    <2>1. c.fn \in {"Read", "Pwrite"}
      BY <1>1
    <2> HIDE DEF a, c
    <2>2. \A q : Pre(c, q) <=> In(q, {data}, 2, 0)
      BY <2>1, AtRead
    <2> QED BY <1>2, <2>1, <2>2, AtRead
  <1>4. CASE stack' = Tail(stack)
    <2>1. Post(c, a, a)
      <3> HIDE DEF a, c
      <3> QED BY <1>3, SameAsBefore
    <2> QED BY <1>1, <1>4, <2>1, NothingDone
  <1>5. CASE stack' = s \o Tail(stack)
    <2>1. s \in Seq(PlainCalls)
      <3>1. x \in PlainCalls
        BY MutexTypes, BodyCall
      <3>2. y \in PlainCalls
        BY MutexTypes, BodyCall
      <3>3. z \in PlainCalls
        BY MutexTypes, BodyCall
      <3> HIDE DEF x, y, z
      <3> QED BY <3>1, <3>2, <3>3
    <2>2. Runs(s, a, After(c, a))
      <3> HIDE DEF a, c
      <3> QED BY <1>1, <1>2, <1>3, ReadRuns
    <2>3. scan' \subseteq File
      BY <1>1 DEF Typed
    <2> HIDE DEF s
    <2> QED BY <1>1, <1>5, <2>1, <2>2, <2>3, Pushing
  <1> QED BY <1>1, <1>4, <1>5

LEMMA ReserveSizeStep ==
    ASSUME NEW cl \in BOOLEAN, NEW ex \in BOOLEAN, Typed, Going(cl, ex), ReserveSize
    PROVE  Inv'
  <1> DEFINE c == Head(stack)
             a == Now(cl, ex)
             x == Call("Reserve", Own, "")
             s == << x >>
  <1>1. /\ stack # <<>> /\ c.fn = "ReserveSize"
        /\ stack' = IF ok THEN Tail(stack) ELSE s \o Tail(stack)
        /\ UNCHANGED << held, ent, dir, scan, ok, reserved, serving >>
    BY DEF ReserveSize, At, Do, Return
  <1>2. c \in Calls /\ a \in State /\ Pre(c, a) /\ a.ok = ok
    BY <1>1, TopCall DEF Now
  <1>3. In(a, {data}, 2, Bit(a.ok))
    BY <1>1, <1>2, AtReserveSize
  <1>4. CASE ok
    <2>1. Post(c, a, a)
      <3>1. Same(a, a) /\ a.reserved = Bit(a.ok)
        <4> HIDE DEF a
        <4> QED BY <1>3, SameAsBefore
      <3> HIDE DEF a, c
      <3> QED BY <1>1, <3>1, AtReserveSize
    <2> QED BY <1>1, <1>4, <2>1, NothingDone
  <1>5. CASE ~ ok
    <2>1. s \in Seq(PlainCalls)
      <3>1. x \in PlainCalls
        BY MutexTypes, BodyCall
      <3> HIDE DEF x
      <3> QED BY <3>1
    <2>2. Runs(s, a, After(c, a))
      <3> HIDE DEF a, c
      <3>1. In(a, {data}, 2, 0)
        BY <1>2, <1>3, <1>5 DEF Bit
      <3> QED BY <1>1, <1>2, <3>1, ReserveSizeRuns
    <2>3. scan' \subseteq File
      BY <1>1 DEF Typed
    <2> HIDE DEF s
    <2> QED BY <1>1, <1>5, <2>1, <2>2, <2>3, Pushing
  <1> QED BY <1>4, <1>5

LEMMA CheckSpaceStep ==
    ASSUME NEW cl \in BOOLEAN, NEW ex \in BOOLEAN, Typed, Going(cl, ex), CheckSpace
    PROVE  Inv'
  <1> DEFINE c == Head(stack)
             a == Now(cl, ex)
             x == Call("CleanupCacheDir", Own, "")
             s == << x >>
  <1>1. /\ stack # <<>> /\ c.fn = "CheckSpace"
        /\ stack' = Tail(stack) \/ stack' = s \o Tail(stack)
        /\ UNCHANGED << held, ent, dir, scan, ok, reserved, serving >>
    BY DEF CheckSpace, At, Do, Return
  <1>2. c \in Calls /\ a \in State /\ Pre(c, a)
    BY <1>1, TopCall
  <1>3. In(a, {}, 2, 0) /\ \A b : Post(c, a, b) <=> Same(a, b) /\ b.reserved = 0
    <2>1. c.fn \in {"CheckSpace", "FlushLoaded"}
      BY <1>1
    <2> HIDE DEF a, c
    <2>2. \A q : Pre(c, q) <=> In(q, {}, 2, 0)
      BY <2>1, AtCheckSpace
    <2> QED BY <1>2, <2>1, <2>2, AtCheckSpace
  <1>4. CASE stack' = Tail(stack)
    <2>1. Post(c, a, a)
      <3> HIDE DEF a, c
      <3> QED BY <1>3, SameAsBefore
    <2> QED BY <1>1, <1>4, <2>1, NothingDone
  <1>5. CASE stack' = s \o Tail(stack)
    <2>1. s \in Seq(PlainCalls)
      <3>1. x \in PlainCalls
        BY MutexTypes, BodyCall
      <3> HIDE DEF x
      <3> QED BY <3>1
    <2>2. Runs(s, a, After(c, a))
      <3> HIDE DEF a, c
      <3> QED BY <1>1, <1>2, <1>3, CheckSpaceRuns
    <2>3. scan' \subseteq File
      BY <1>1 DEF Typed
    <2> HIDE DEF s
    <2> QED BY <1>1, <1>5, <2>1, <2>2, <2>3, Pushing
  <1> QED BY <1>1, <1>4, <1>5

LEMMA FlushLoadedStep ==
    ASSUME NEW cl \in BOOLEAN, NEW ex \in BOOLEAN, Typed, Going(cl, ex), FlushLoaded
    PROVE  Inv'
  <1> DEFINE c == Head(stack)
             a == Now(cl, ex)
             x == Call("RowFlush", Own, "")
             s == AutoLock(data, << x >>)
  <1>1. /\ stack # <<>> /\ c.fn = "FlushLoaded"
        /\ stack' = IF ok THEN s \o Tail(stack) ELSE Tail(stack)
        /\ UNCHANGED << held, ent, dir, scan, ok, reserved, serving >>
    BY DEF FlushLoaded, At, Do, Return, data
  <1>2. c \in Calls /\ a \in State /\ Pre(c, a)
    BY <1>1, TopCall
  <1>3. In(a, {}, 2, 0) /\ \A b : Post(c, a, b) <=> Same(a, b) /\ b.reserved = 0
    <2>1. c.fn \in {"CheckSpace", "FlushLoaded"}
      BY <1>1
    <2> HIDE DEF a, c
    <2>2. \A q : Pre(c, q) <=> In(q, {}, 2, 0)
      BY <2>1, AtCheckSpace
    <2> QED BY <1>2, <2>1, <2>2, AtCheckSpace
  <1>4. CASE ~ ok
    <2>1. Post(c, a, a)
      <3> HIDE DEF a, c
      <3> QED BY <1>3, SameAsBefore
    <2> QED BY <1>1, <1>4, <2>1, NothingDone
  <1>5. CASE ok
    <2>1. s \in Seq(PlainCalls)
      <3>1. x \in PlainCalls
        BY MutexTypes, BodyCall
      <3> HIDE DEF x
      <3>2. << x >> \in Seq(PlainCalls) /\ data \in Mutexes
        BY <3>1, MutexTypes DEF data
      <3> QED BY <3>2, PlainAutoLock
    <2>2. Runs(s, a, After(c, a))
      <3> HIDE DEF a, c
      <3> QED BY <1>1, <1>2, <1>3, FlushLoadedRuns
    <2>3. scan' \subseteq File
      BY <1>1 DEF Typed
    <2> HIDE DEF s
    <2> QED BY <1>1, <1>5, <2>1, <2>2, <2>3, Pushing
  <1> QED BY <1>4, <1>5

LEMMA BodyPlain ==
    ASSUME NEW h \in Handlers
    PROVE  Body(h) \in Seq(PlainCalls)
  <1> DEFINE m == fdent_lock(Own)
             d == fdent_data_lock(Own)
             S == Seq(PlainCalls)
             k(fn) == Call(fn, Own, "")
  <1>1. m \in Mutexes /\ d \in Mutexes
    BY MutexTypes
  <1>2. \A fn \in {"Reserve", "LoadAndFree", "Read", "CheckSpace", "Pwrite", "Load", "FlushLoaded",
                   "RowFlush"} : k(fn) \in PlainCalls
    BY MutexTypes, BodyCall
  <1> HIDE DEF k
  <1>3. /\ << k("Reserve"), k("LoadAndFree"), k("Pwrite") >> \in S
        /\ << k("Read") >> \in S /\ << k("CheckSpace") >> \in S /\ << k("Load") >> \in S
        /\ << k("FlushLoaded") >> \in S /\ << k("RowFlush") >> \in S /\ <<>> \in S
    BY <1>2
  <1>4. \A s \in S : AutoLock(m, s) \in S /\ AutoLock(d, s) \in S
    BY <1>1, PlainAutoLock
  <1>5. \A s, t \in S : s \o t \in S
    BY ConcatProperties
  <1> SUFFICES Body(h) \in S
    OBVIOUS
  <1> HIDE DEF m, d, S
  <1>6. CASE h = "s3fs_getattr"
    <2>1. Body(h) = AutoLock(m, <<>>)
      BY <1>6 DEF Body, m
    <2> QED BY <1>3, <1>4, <2>1
  <1>7. CASE h = "s3fs_read"
    <2>1. Body(h) = AutoLock(m, <<>>) \o AutoLock(d, << k("Read") >>)
      BY <1>7 DEF Body, m, d, k
    <2> QED BY <1>3, <1>4, <1>5, <2>1
  <1>8. CASE h = "s3fs_write"
    <2>1. Body(h) = << k("CheckSpace") >>
                      \o AutoLock(d, << k("Reserve"), k("LoadAndFree"), k("Pwrite") >>)
      BY <1>8 DEF Body, m, d, k
    <2> QED BY <1>3, <1>4, <1>5, <2>1
  <1>9. CASE h = "s3fs_flush"
    <2>1. Body(h) = AutoLock(m, <<>>) \o AutoLock(d, << k("RowFlush") >>)
      BY <1>9 DEF Body, m, d, k
    <2> QED BY <1>3, <1>4, <1>5, <2>1
  <1>10. CASE h = "s3fs_truncate"
    <2>1. Body(h) = AutoLock(m, AutoLock(d, << k("Load") >>)) \o << k("FlushLoaded") >>
      BY <1>10 DEF Body, m, d, k
    <2> QED BY <1>3, <1>4, <1>5, <2>1
  <1> QED BY <1>6, <1>7, <1>8, <1>9, <1>10 DEF Handlers

\* Plain calls, and one that may not be.
LEMMA PlainThen ==
    ASSUME NEW s \in Seq(PlainCalls), NEW y \in Calls
    PROVE  /\ s \o << y >> \in Seq(Calls)
           /\ All(s \o << y >>) = All(s) \cup {y}
           /\ Rest(s \o << y >>) \subseteq All(s) \cup {y}
           /\ Front(s \o << y >>) = All(s)
           /\ \A c \in All(s) : c.fn \notin Opening \cup {"Close"}
  <1> DEFINE t == s \o << y >>
             k == Len(s)
  <1>1. s \in Seq(Calls) /\ << y >> \in Seq(Calls) /\ k \in Nat
    BY Plain
  <1>2. /\ t \in Seq(Calls) /\ Len(t) = k + 1 /\ t[k + 1] = y
        /\ \A i \in 1 .. k : t[i] = s[i]
    BY <1>1
  <1>3. \A i \in 1 .. k : s[i] \in PlainCalls
    BY ElementOfSeq
  <1> HIDE DEF t, k
  <1>4. Front(t) = All(s)
    BY <1>1, <1>2 DEF Front, All, k
  <1>5. All(t) = All(s) \cup {y}
    <2>1. 1 .. k + 1 = 1 .. k \cup {k + 1}
      BY <1>1
    <2> QED BY <1>2, <2>1 DEF All, k
  <1>6. Rest(t) \subseteq All(t)
    <2>1. \A i \in 2 .. Len(t) : i \in 1 .. Len(t)
      BY <1>1, <1>2
    <2> QED BY <2>1 DEF Rest, All
  <1>7. \A c \in All(s) : c.fn \notin Opening \cup {"Close"}
    BY <1>3 DEF All, PlainCalls, k
  <1> QED BY <1>2, <1>4, <1>5, <1>6, <1>7 DEF t

LEMMA HandleStep ==
    ASSUME NEW cl \in BOOLEAN, NEW ex \in BOOLEAN, Typed, Going(cl, ex), Handle
    PROVE  Inv'
  <1> DEFINE c == Head(stack)
             a == Now(cl, ex)
             y == Call("Close", Own, "")
             r == Body(c.fn)
             s == r \o << y >>
  <1>1. /\ stack # <<>> /\ c.fn \in Handlers
        /\ stack' = IF ok THEN s \o Tail(stack) ELSE Tail(stack)
        /\ UNCHANGED << held, ent, dir, scan, ok, reserved, serving >>
    BY DEF Handle, Do, Return
  <1>2. c \in Calls /\ a \in State /\ Pre(c, a) /\ a.ok = ok /\ a.ent = ent /\ a.exiting = ex
    BY <1>1, TopCall DEF Now
  <1>3. In(a, {}, 1 + Bit(a.ok), 0)
    <2> HIDE DEF a, c
    <2> QED BY <1>1, <1>2, AtHandler
  <1>4. CASE ~ ok
    <2>1. Post(c, a, a)
      <3> HIDE DEF a, c
      <3>1. In(a, {}, 1, 0)
        BY <1>2, <1>3, <1>4 DEF Bit
      <3> QED BY <1>1, <3>1, AtHandler
    <2>2. c.fn # "CleanupFile"
      BY <1>1 DEF Handlers
    <2> QED BY <1>1, <1>4, <2>1, <2>2, NothingDone
  <1>5. CASE ok
    <2>1. In(a, {}, 2, 0)
      <3> HIDE DEF a
      <3> QED BY <1>2, <1>3, <1>5 DEF Bit
    <2>2. s \in Seq(Calls) /\ Runs(s, a, After(c, a))
      <3> HIDE DEF a, c
      <3> QED BY <1>1, <1>2, <2>1, HandleRuns
    <2>3. Now(cl, ex)' = a
      BY <1>1 DEF Now
    <2>4. IsOpen(ent'[Own]) /\ ~ ex /\ ~ cl
      <3>1. IsOpen(ent[Own]) /\ ~ ex /\ ~ a.cleaning
        <4> HIDE DEF a
        <4> QED BY <1>2, <2>1 DEF In, Steady
      <3> QED BY <1>1, <3>1 DEF Now
    <2>5. /\ y \in Calls /\ y.fn = "Close" /\ y.file = Own
      BY MutexTypes DEF Call, Calls, Names, Arguments
    <2>6. r \in Seq(PlainCalls)
      BY <1>1, BodyPlain
    <2> HIDE DEF y, r
    <2>7. /\ \A d \in All(s) : d.fn \notin Opening
          /\ \A d \in Rest(s) : d.fn = "Close" => d.file = Own /\ IsOpen(ent'[Own]) /\ ~ ex
      <3>1. \A d \in All(s) \cup Rest(s) : d = y \/ d.fn \notin Opening \cup {"Close"}
        BY <2>5, <2>6, PlainThen
      <3>2. "Close" \notin Opening
        BY DEF Opening
      <3> HIDE DEF s
      <3> QED BY <2>4, <2>5, <3>1, <3>2
    <2>8. stack' = s \o Tail(stack) /\ dir' \subseteq File /\ scan' \subseteq File
      BY <1>1, <1>5 DEF Typed
    <2>9. Now(cl, ex)' \in State /\ Runs(s, Now(cl, ex)', After(c, a))
      BY <1>2, <2>2, <2>3
    <2>10. cl => cl /\ c.fn # "CleanupFile"
      BY <2>4
    <2> HIDE DEF s
    <2> QED BY <1>1, <2>2, <2>4, <2>7, <2>8, <2>9, <2>10, Calling
  <1> QED BY <1>4, <1>5
-----------------------------------------------------------------------------
(***************************************************************************)
(* The steps that begin and end a handler, an open or the process.         *)
(***************************************************************************)
\* The stack holds nothing but these calls.
LEMMA Fresh ==
    ASSUME NEW cl \in BOOLEAN, NEW ex \in BOOLEAN, ~ cl, NEW calls \in Seq(Calls), stack' = calls,
           dir' \subseteq File, scan' \subseteq File,
           Now(cl, ex)' \in State, Runs(calls, Now(cl, ex)', Finals),
           \A c \in Rest(calls) : c.fn # "Close", \A c \in Front(calls) : c.fn \notin Opening
    PROVE  Inv'
  <1>1. Going(cl, ex)'
    BY DEF Going
  <1>2. Typed'
    BY DEF Typed
  <1> QED BY <1>1, <1>2 DEF Inv

LEMMA FreshPlain ==
    ASSUME NEW calls \in Seq(PlainCalls)
    PROVE  /\ calls \in Seq(Calls)
           /\ \A c \in Rest(calls) : c.fn # "Close"
           /\ \A c \in Front(calls) : c.fn \notin Opening
  <1>1. \A i \in 1 .. Len(calls) - 1 : i \in 1 .. Len(calls)
    BY LenProperties
  <1>2. Front(calls) \subseteq All(calls)
    BY <1>1 DEF Front, All
  <1> QED BY <1>2, Plain

LEMMA HandlerPlain ==
    ASSUME NEW h \in Handlers
    PROVE  Handler(h) \in Seq(PlainCalls)
  <1> DEFINE how == IF h = "s3fs_truncate" THEN "resize" ELSE "exist"
             x == Call("Open", Own, how)
             y == Call(h, Own, "")
  <1>1. {"", how} \subseteq Arguments \cup MutexNames /\ Own \in File
    BY MutexTypes DEF Arguments
  <1>2. "Open" \in (Names \cup Handlers) \ (Opening \cup {"Lock", "Close"})
    BY DEF Names, Opening
  <1>3. h \in (Names \cup Handlers) \ (Opening \cup {"Lock", "Close"})
    BY DEF Handlers, Opening
  <1>4. Handler(h) = << x, y >>
    BY DEF Handler
  <1> HIDE DEF how
  <1>5. x \in PlainCalls
    BY <1>1, <1>2, PlainCall
  <1>6. y \in PlainCalls
    BY <1>1, <1>3, PlainCall
  <1> HIDE DEF x, y
  <1> QED BY <1>4, <1>5, <1>6

\* S3Io::open calls s3fs_getattr when the rest succeeded.
LEMMA GetattrPlain ==
    Handler("s3fs_getattr") \o << Call("OpenSuccess", Own, "") >> \in Seq(PlainCalls)
  <1> DEFINE s == Handler("s3fs_getattr")
             y == Call("OpenSuccess", Own, "")
  <1>1. s \in Seq(PlainCalls)
    BY HandlerPlain DEF Handlers
  <1>2. y \in PlainCalls
    <2>1. "OpenSuccess" \in (Names \cup Handlers) \ (Opening \cup {"Lock", "Close"})
      BY DEF Names, Opening
    <2>2. "" \in Arguments \cup MutexNames /\ Own \in File
      BY MutexTypes DEF Arguments
    <2> QED BY <2>1, <2>2, PlainCall
  <1> HIDE DEF s, y
  <1>3. s \o << y >> \in Seq(PlainCalls)
    BY <1>1, <1>2
  <1> QED BY <1>3 DEF s, y

LEMMA RunsMore ==
    ASSUME NEW s, NEW a, NEW P, NEW Q, Runs(s, a, P), P \subseteq Q
    PROVE  Runs(s, a, Q)
  BY DEF Runs

LEMMA S3fsOpenStep ==
    ASSUME NEW cl \in BOOLEAN, NEW ex \in BOOLEAN, Typed, Going(cl, ex), S3fsOpen
    PROVE  Inv'
  <1> DEFINE c == Head(stack)
             a == Now(cl, ex)
             s1 == Handler("s3fs_getattr") \o << Call("OpenSuccess", Own, "") >>
             r == AutoLock(fdent_data_lock(Own), << Call("RowFlush", Own, "") >>)
             y == Call("s3fs_open_flushed", Own, "")
             s2 == r \o << y >>
             s3 == << Call("Exit", Own, "") >>
  <1>1. /\ stack # <<>> /\ c.fn = "s3fs_open"
        /\ \/ ok /\ stack' = s1 \o Tail(stack)
           \/ ok /\ stack' = s2 \o Tail(stack)
           \/ ~ ok /\ stack' = s3 \o Tail(stack)
        /\ UNCHANGED << held, ent, dir, scan, ok, reserved, serving >>
    BY DEF S3fsOpen, At, Do
  <1>2. c \in Calls /\ a \in State /\ Pre(c, a) /\ a.ok = ok
    BY <1>1, TopCall DEF Now
  <1>3. dir' \subseteq File /\ scan' \subseteq File
    BY <1>1 DEF Typed
  <1>4. \A calls \in Seq(Calls) : calls \o Tail(stack) = calls
    <2>1. stack \in Seq(Calls) /\ c \notin Front(stack)
      BY <1>1 DEF Typed, Going, Opening
    <2> HIDE DEF c
    <2> QED BY <1>1, <2>1, Stacked DEF c
  <1>5. ok => In(a, {}, 1, 0) /\ ~ cl
    <2>1. a.cleaning = cl
      BY DEF Now
    <2> HIDE DEF a, c
    <2> QED BY <1>1, <1>2, <2>1, AtS3fsOpen DEF In, Steady
  <1>6. Now(cl, ex)' = a
    BY <1>1 DEF Now
  <1>7. CASE ok /\ stack' = s1 \o Tail(stack)
    <2>1. s1 \in Seq(PlainCalls)
      BY GetattrPlain
    <2>2. Runs(s1, a, Finals)
      <3> HIDE DEF a
      <3> QED BY <1>2, <1>5, <1>7, GetattrRuns
    <2> HIDE DEF s1
    <2>3. /\ s1 \in Seq(Calls) /\ stack' = s1
          /\ \A d \in Rest(s1) : d.fn # "Close"
          /\ \A d \in Front(s1) : d.fn \notin Opening
      BY <1>4, <1>7, <2>1, FreshPlain
    <2> QED BY <1>2, <1>3, <1>5, <1>6, <1>7, <2>2, <2>3, Fresh
  <1>8. CASE ok /\ stack' = s2 \o Tail(stack)
    <2>1. r \in Seq(PlainCalls)
      <3> DEFINE x == Call("RowFlush", Own, "")
      <3>1. x \in PlainCalls
        BY MutexTypes, BodyCall
      <3> HIDE DEF x
      <3>2. << x >> \in Seq(PlainCalls) /\ fdent_data_lock(Own) \in Mutexes
        BY <3>1, MutexTypes
      <3> QED BY <3>2, PlainAutoLock DEF x
    <2>2. y \in Calls /\ y.fn = "s3fs_open_flushed"
      BY MutexTypes DEF Call, Calls, Names, Arguments
    <2>3. Runs(s2, a, Finals)
      <3> HIDE DEF a
      <3> QED BY <1>2, <1>5, <1>8, OpenFlushes
    <2> HIDE DEF r, y
    <2>4. /\ s2 \in Seq(Calls)
          /\ \A d \in Rest(s2) : d.fn # "Close"
          /\ \A d \in Front(s2) : d.fn \notin Opening
      <3>1. /\ Rest(s2) \subseteq All(r) \cup {y} /\ Front(s2) = All(r) /\ s2 \in Seq(Calls)
            /\ \A d \in All(r) : d.fn \notin Opening \cup {"Close"}
        BY <2>1, <2>2, PlainThen
      <3> HIDE DEF s2
      <3> QED BY <2>2, <3>1
    <2> HIDE DEF s2
    <2>5. stack' = s2
      BY <1>4, <1>8, <2>4
    <2> QED BY <1>2, <1>3, <1>5, <1>6, <1>8, <2>3, <2>4, <2>5, Fresh
  <1>9. CASE ~ ok /\ stack' = s3 \o Tail(stack)
    <2>1. PICK no \in BOOLEAN : no = FALSE
      OBVIOUS
    <2> DEFINE b == Now(no, ex)'
    <2>2. b \in State
      BY <1>1, <1>2 DEF Now, State
    <2>3. Runs(s3, b, Finals)
      <3> HIDE DEF b
      <3> QED BY <2>2, ExitRuns
    <2>4. s3 \in Seq(PlainCalls)
      <3> DEFINE x == Call("Exit", Own, "")
      <3>1. "Exit" \in (Names \cup Handlers) \ (Opening \cup {"Lock", "Close"})
        BY DEF Names, Opening
      <3>2. "" \in Arguments \cup MutexNames /\ Own \in File
        BY MutexTypes DEF Arguments
      <3>3. x \in PlainCalls
        BY <3>1, <3>2, PlainCall
      <3> HIDE DEF x
      <3>4. << x >> \in Seq(PlainCalls)
        BY <3>3
      <3> QED BY <3>4 DEF x
    <2> HIDE DEF s3
    <2>5. /\ s3 \in Seq(Calls) /\ stack' = s3
          /\ \A d \in Rest(s3) : d.fn # "Close"
          /\ \A d \in Front(s3) : d.fn \notin Opening
      BY <1>4, <1>9, <2>4, FreshPlain
    <2> QED BY <1>3, <2>1, <2>2, <2>3, <2>5, Fresh
  <1> QED BY <1>1, <1>7, <1>8, <1>9

LEMMA S3fsOpenFlushedStep ==
    ASSUME NEW cl \in BOOLEAN, NEW ex \in BOOLEAN, Typed, Going(cl, ex), S3fsOpenFlushed
    PROVE  Inv'
  <1> DEFINE c == Head(stack)
             a == Now(cl, ex)
             s1 == Handler("s3fs_getattr") \o << Call("OpenSuccess", Own, "") >>
             x == Call("Close", Own, "")
             y == Call("Exit", Own, "")
             s2 == << x, y >>
  <1>1. /\ stack # <<>> /\ c.fn = "s3fs_open_flushed"
        /\ ok => stack' = s1 \o Tail(stack)
        /\ ~ ok => stack' = s2 \o Tail(stack)
        /\ UNCHANGED << held, ent, dir, scan, ok, reserved, serving >>
    BY DEF S3fsOpenFlushed, At, Do
  <1>2. c \in Calls /\ a \in State /\ Pre(c, a) /\ ok \in BOOLEAN
    <2>1. c \in Calls /\ a \in State /\ Pre(c, a)
      BY <1>1, TopCall
    <2> QED BY <2>1 DEF Now, State
  <1>3. dir' \subseteq File /\ scan' \subseteq File
    BY <1>1 DEF Typed
  <1>4. \A calls \in Seq(Calls) : calls \o Tail(stack) = calls
    <2>1. stack \in Seq(Calls) /\ c \notin Front(stack)
      BY <1>1 DEF Typed, Going, Opening
    <2> HIDE DEF c
    <2> QED BY <1>1, <2>1, Stacked DEF c
  <1>5. In(a, {}, 1, 0) /\ ~ cl
    <2>1. a.cleaning = cl
      BY DEF Now
    <2>2. c.fn \in {"s3fs_open_flushed", "OpenSuccess"}
      BY <1>1
    <2> HIDE DEF a, c
    <2>3. \A q : Pre(c, q) <=> In(q, {}, 1, 0)
      BY <2>2, AtOpenSuccess
    <2>4. In(a, {}, 1, 0)
      BY <1>2, <2>3
    <2> QED BY <2>1, <2>4 DEF In, Steady
  <1>6. CASE ok
    <2>1. s1 \in Seq(PlainCalls)
      BY GetattrPlain
    <2>2. Runs(s1, a, Finals)
      <3> HIDE DEF a
      <3> QED BY <1>2, <1>5, GetattrRuns
    <2>3. Now(cl, ex)' = a
      BY <1>1 DEF Now
    <2> HIDE DEF s1
    <2>4. /\ s1 \in Seq(Calls) /\ stack' = s1
          /\ \A d \in Rest(s1) : d.fn # "Close"
          /\ \A d \in Front(s1) : d.fn \notin Opening
      BY <1>1, <1>4, <1>6, <2>1, FreshPlain
    <2> QED BY <1>2, <1>3, <1>5, <2>2, <2>3, <2>4, Fresh
  <1>7. CASE ~ ok
    <2> DEFINE yes == TRUE
               b == Now(cl, yes)'
    <2>1. b \in State
      BY <1>1, <1>2 DEF Now, State
    <2>2. Runs(s2, b, Finals)
      <3>1. /\ b.held = a.held /\ b.ent = a.ent /\ b.reserved = a.reserved /\ b.ok = a.ok
            /\ b.serving = a.serving /\ b.cleaning = a.cleaning /\ b.exiting = TRUE
        BY <1>1 DEF Now
      <3> HIDE DEF a, b
      <3>2. b = [a EXCEPT !.exiting = TRUE]
        BY <1>2, <2>1, <3>1 DEF State
      <3> QED BY <1>2, <1>5, <2>1, <3>2, CloseAndExitRuns
    <2>3. x \in Calls /\ x.fn = "Close"
      BY MutexTypes DEF Call, Calls, Names, Arguments
    <2>4. y \in Calls /\ y.fn = "Exit"
      BY MutexTypes DEF Call, Calls, Names, Arguments
    <2>5. yes \in BOOLEAN
      OBVIOUS
    <2> HIDE DEF x, y, yes
    <2>6. s2 \in Seq(Calls) /\ Len(s2) = 2 /\ s2[1] = x /\ s2[2] = y
      BY <2>3, <2>4
    <2> HIDE DEF s2
    <2>7. /\ \A d \in Rest(s2) : d.fn # "Close"
          /\ \A d \in Front(s2) : d.fn \notin Opening
      <3>1. 2 .. Len(s2) = {2} /\ 1 .. Len(s2) - 1 = {1}
        BY <2>6
      <3>2. Rest(s2) = {y} /\ Front(s2) = {x}
        BY <2>6, <3>1 DEF Rest, Front
      <3> QED BY <2>3, <2>4, <3>2 DEF Opening
    <2>8. stack' = s2
      BY <1>1, <1>4, <1>7, <2>6
    <2> QED BY <1>3, <1>5, <2>1, <2>2, <2>5, <2>6, <2>7, <2>8, Fresh
  <1> QED BY <1>2, <1>6, <1>7

LEMMA OpenSuccessStep ==
    ASSUME NEW cl \in BOOLEAN, NEW ex \in BOOLEAN, Typed, Going(cl, ex), OpenSuccess
    PROVE  Inv'
  <1> DEFINE c == Head(stack)
             a == Now(cl, ex)
             b == Now(cl, ex)'
  <1>1. /\ stack # <<>> /\ c.fn = "OpenSuccess" /\ stack' = Tail(stack) /\ serving' = TRUE
        /\ UNCHANGED << held, ent, dir, scan, ok, reserved >>
    BY DEF OpenSuccess, At, Return
  <1>2. a \in State /\ Pre(c, a)
    BY <1>1, TopCall
  <1>3. In(a, {}, 1, 0)
    <2>1. c.fn \in {"s3fs_open_flushed", "OpenSuccess"}
      BY <1>1
    <2> HIDE DEF a, c
    <2>2. \A q : Pre(c, q) <=> In(q, {}, 1, 0)
      BY <2>1, AtOpenSuccess
    <2> QED BY <1>2, <2>2
  <1>4. b \in State
    BY <1>1, <1>2 DEF Now, State
  <1>5. /\ b.held = a.held /\ b.ent = a.ent /\ b.reserved = a.reserved /\ b.ok = a.ok
        /\ b.serving = TRUE /\ b.cleaning = a.cleaning /\ b.exiting = a.exiting
    BY <1>1 DEF Now
  <1>6. Final(b)
    <2> HIDE DEF a, b
    <2> QED BY <1>3, <1>5 DEF Final, In, Steady
  <1>7. Post(c, a, b)
    <2>1. c.fn \in {"s3fs_open_flushed", "OpenSuccess"}
      BY <1>1
    <2> HIDE DEF a, b, c
    <2>2. \A p, q : Post(c, p, q) <=> Final(q)
      BY <2>1, AtOpenSuccess
    <2> QED BY <1>6, <2>2
  <1>8. /\ dir' \subseteq File /\ scan' \subseteq File
        /\ cl => cl /\ c.fn # "CleanupFile"
        /\ IsOpen(ent[Own]) /\ ~ ex => IsOpen(ent'[Own])
    BY <1>1 DEF Typed
  <1> QED BY <1>1, <1>4, <1>7, <1>8, Returning

\* No handler runs: the state is final.
LEMMA AtRest ==
    ASSUME NEW cl \in BOOLEAN, NEW ex \in BOOLEAN, Going(cl, ex), stack = <<>>
    PROVE  Now(cl, ex) \in State /\ Final(Now(cl, ex)) /\ ~ cl /\ ~ ex
  <1> DEFINE a == Now(cl, ex)
  <1>1. a \in State /\ Runs(<<>>, a, Finals) /\ a.cleaning = cl /\ a.exiting = ex
    BY DEF Going, Now
  <1> HIDE DEF a
  <1>2. a \in Finals
    BY <1>1, RunsEnd
  <1>3. a \in State /\ Final(a) /\ ~ cl /\ ~ ex
    BY <1>1, <1>2 DEF Finals, Final
  <1> QED BY <1>3 DEF a

LEMMA StartStep ==
    ASSUME NEW cl \in BOOLEAN, NEW ex \in BOOLEAN, Typed, Going(cl, ex), Start
    PROVE  Inv'
  <1> DEFINE a == Now(cl, ex)
  <1>1. PICK h \in Handlers : stack' = Handler(h)
    BY DEF Start
  <1>2. /\ stack = <<>> /\ serving
        /\ UNCHANGED << held, ent, dir, scan, ok, reserved, serving >>
    BY DEF Start
  <1>3. a \in State /\ Final(a) /\ ~ cl /\ ~ ex /\ a.serving = serving
    BY <1>2, AtRest DEF Now
  <1> DEFINE s == Handler(h)
             P == Like(a, {}, 1)
  <1>4. s \in Seq(PlainCalls)
    BY HandlerPlain
  <1>5. Runs(s, a, Finals)
    <2> HIDE DEF a
    <2>1. In(a, {}, 1, 0)
      BY <1>2, <1>3 DEF Final, In, Steady
    <2>2. Runs(s, a, P)
      BY <1>3, <2>1, HandlerRuns
    <2>3. ASSUME NEW q \in P PROVE q \in Finals
      <3>1. q \in State /\ In(q, {}, 1, 0) /\ q.serving = a.serving
        BY DEF Like
      <3> QED BY <1>2, <1>3, <3>1 DEF Finals, Final, In, Steady
    <2>4. P \subseteq Finals
      BY <2>3
    <2> HIDE DEF s, P
    <2> QED BY <2>2, <2>4, RunsMore
  <1> HIDE DEF s
  <1>6. /\ s \in Seq(Calls) /\ \A d \in Rest(s) : d.fn # "Close"
        /\ \A d \in Front(s) : d.fn \notin Opening
    BY <1>4, FreshPlain
  <1>7. Now(cl, ex)' = a /\ dir' \subseteq File /\ scan' \subseteq File
    BY <1>2 DEF Now, Typed
  <1>8. stack' = s
    BY <1>1 DEF s
  <1> QED BY <1>3, <1>5, <1>6, <1>7, <1>8, Fresh

LEMMA StartOpenStep ==
    ASSUME NEW cl \in BOOLEAN, NEW ex \in BOOLEAN, Typed, Going(cl, ex), StartOpen
    PROVE  Inv'
  <1> DEFINE a == Now(cl, ex)
             x == Call("Open", Own, "create")
             y == Call("s3fs_open", Own, "")
             s == << x, y >>
  <1>1. /\ stack = <<>> /\ ~ serving /\ dir' = {} /\ stack' = s
        /\ UNCHANGED << held, ent, scan, ok, reserved, serving >>
    BY DEF StartOpen
  <1>2. a \in State /\ Final(a) /\ ~ cl /\ ~ ex /\ a.serving = serving
    BY <1>1, AtRest DEF Now
  <1>3. s \in Seq(Calls) /\ Runs(s, a, Finals)
    <2> HIDE DEF a
    <2> QED BY <1>1, <1>2, StartOpenRuns
  <1>4. Now(cl, ex)' = a /\ dir' \subseteq File /\ scan' \subseteq File
    BY <1>1 DEF Now, Typed
  <1>5. x.fn = "Open" /\ y.fn = "s3fs_open"
    BY DEF Call
  <1> HIDE DEF x, y
  <1>6. Len(s) = 2 /\ s[1] = x /\ s[2] = y
    OBVIOUS
  <1> HIDE DEF s
  <1>7. /\ \A d \in Rest(s) : d.fn # "Close"
        /\ \A d \in Front(s) : d.fn \notin Opening
    <2>1. 2 .. Len(s) = {2} /\ 1 .. Len(s) - 1 = {1}
      BY <1>6
    <2>2. Rest(s) = {y} /\ Front(s) = {x}
      BY <1>6, <2>1 DEF Rest, Front
    <2> QED BY <1>5, <2>2 DEF Opening
  <1> QED BY <1>1, <1>2, <1>3, <1>4, <1>7, Fresh

\* Nothing is left to do, and the state is final.
LEMMA Resting ==
    ASSUME NEW cl \in BOOLEAN, NEW ex \in BOOLEAN, stack = <<>>, dir \subseteq File, scan \subseteq File,
           Now(cl, ex) \in State, Final(Now(cl, ex))
    PROVE  Inv
  <1> DEFINE a == Now(cl, ex)
  <1>1. Runs(<<>>, a, Finals) /\ ~ a.cleaning
    <2>1. a \in State /\ Final(a)
      OBVIOUS
    <2> HIDE DEF a
    <2>2. a \in Finals
      BY <2>1 DEF Finals
    <2> QED BY <2>1, <2>2, RunsEnd DEF Final
  <1>2. ~ cl
    BY <1>1 DEF Now
  <1>3. Rest(<<>>) = {} /\ Front(<<>>) = {}
    <2>1. 2 .. Len(<<>>) = {} /\ 1 .. Len(<<>>) - 1 = {}
      OBVIOUS
    <2> QED BY <2>1 DEF Rest, Front
  <1>4. stack \in Seq(Calls)
    OBVIOUS
  <1>5. Going(cl, ex)
    BY <1>1, <1>2, <1>3 DEF Going
  <1>6. Typed
    BY <1>4 DEF Typed
  <1> QED BY <1>5, <1>6 DEF Inv

LEMMA NoEntityType == NoEntity \in Entity
  BY DEF NoEntity, Entity

LEMMA ExitStep ==
    ASSUME Typed, Exit
    PROVE  Inv'
  <1>1. PICK no \in BOOLEAN : no = FALSE
    OBVIOUS
  <1> DEFINE b == Now(no, no)'
  <1>2. /\ stack' = <<>> /\ held' = {} /\ scan' = {} /\ ent' = [f \in File |-> NoEntity]
        /\ ok' = TRUE /\ reserved' = 0 /\ serving' = FALSE /\ dir' \subseteq File
    BY DEF Exit, Typed
  <1>3. ent' \in [File -> Entity]
    BY <1>2, NoEntityType
  <1>4. b \in State
    <2>1. held' \in SUBSET Mutexes /\ reserved' \in 0 .. 1
      BY <1>2
    <2>2. ok' \in BOOLEAN /\ serving' \in BOOLEAN
      BY <1>2, Zenon
    <2> QED BY <1>3, <2>1, <2>2 DEF Now, State
  <1>5. Final(b)
    BY <1>1, <1>2 DEF Now, Final
  <1>6. Runs(<<>>, b, Finals)
    <2> HIDE DEF b
    <2> QED BY <1>4, <1>5, RunsEnd DEF Finals
  <1>7. /\ scan' \subseteq File
        /\ \A d \in Rest(<<>>) : d.fn # "Close"
        /\ \A d \in Front(<<>>) : d.fn \notin Opening
    <2>1. <<>> \in Seq(PlainCalls)
      OBVIOUS
    <2> QED BY <1>2, <2>1, FreshPlain
  <1>8. <<>> \in Seq(Calls)
    OBVIOUS
  <1> QED BY <1>1, <1>2, <1>4, <1>6, <1>7, <1>8, Fresh

LEMMA OtherProcessStep ==
    ASSUME NEW cl \in BOOLEAN, NEW ex \in BOOLEAN, Typed, Going(cl, ex), OtherProcess
    PROVE  Inv'
  <1>1. /\ dir' \subseteq File
        /\ UNCHANGED << stack, held, ent, scan, ok, reserved, serving >>
    BY DEF OtherProcess, Typed, File
  <1>2. Typed' /\ Going(cl, ex)'
    BY <1>1 DEF Typed, Going, Now
  <1> QED BY <1>2 DEF Inv

LEMMA InitInv ==
    ASSUME Init
    PROVE  Inv
  <1>1. PICK no \in BOOLEAN : no = FALSE
    OBVIOUS
  <1> DEFINE a == Now(no, no)
  <1>2. /\ stack = <<>> /\ held = {} /\ scan = {} /\ ent = [f \in File |-> NoEntity]
        /\ ok = TRUE /\ reserved = 0 /\ serving = FALSE /\ dir \subseteq File
    BY DEF Init, File
  <1>3. ent \in [File -> Entity]
    BY <1>2, NoEntityType
  <1>4. a \in State
    <2>1. held \in SUBSET Mutexes /\ reserved \in 0 .. 1
      BY <1>2
    <2>2. ok \in BOOLEAN /\ serving \in BOOLEAN
      BY <1>2, Zenon
    <2> QED BY <1>3, <2>1, <2>2 DEF Now, State
  <1>5. Final(a)
    BY <1>1, <1>2 DEF Now, Final
  <1>6. scan \subseteq File
    BY <1>2
  <1> HIDE DEF a
  <1> QED BY <1>1, <1>2, <1>4, <1>5, <1>6, Resting DEF a

LEMMA StutterInv ==
    ASSUME Inv, UNCHANGED vars
    PROVE  Inv'
  BY DEF Inv, Typed, Going, Now, vars

LEMMA NextInv ==
    ASSUME Inv, Next
    PROVE  Inv'
  <1>1. PICK cl \in BOOLEAN, ex \in BOOLEAN : Typed /\ Going(cl, ex)
    BY DEF Inv
  <1>2. CASE \/ Lock \/ Unlock \/ Open \/ Search \/ Dup \/ EntityOpen
    BY <1>1, <1>2, LockStep, UnlockStep, OpenStep, SearchStep, DupStep, EntityOpenStep
  <1>3. CASE \/ Opened \/ ResizeFails \/ OpenFails \/ LinkFails
             \/ EntityClose \/ Decrement \/ CloseFile \/ Close \/ Erase
    BY <1>1, <1>3, OpenedStep, EntityCloseStep, DecrementStep, CloseFileStep, CloseStep, EraseStep
  <1>4. CASE CleanupCacheDir \/ Scan \/ ScanEnd \/ CleanupFile
    BY <1>1, <1>4, CleanupCacheDirStep, ScanStep, CleanupFileStep
  <1>5. CASE Reserve \/ ReserveFull \/ ReserveAgain \/ LoadAndFree \/ Handle \/ Read
    BY <1>1, <1>5, ReserveStep, ReserveFullStep, LoadAndFreeStep, HandleStep, ReadStep
  <1>6. CASE ReserveSize \/ CheckSpace \/ Pwrite \/ Load \/ FlushLoaded \/ RowFlush
    BY <1>1, <1>6, ReserveSizeStep, CheckSpaceStep, PwriteStep, LoadStep, FlushLoadedStep,
       RowFlushStep
  <1>7. CASE S3fsOpen \/ S3fsOpenFlushed \/ OpenSuccess \/ Exit \/ Start \/ StartOpen
             \/ OtherProcess
    BY <1>1, <1>7, S3fsOpenStep, S3fsOpenFlushedStep, OpenSuccessStep, ExitStep, StartStep,
       StartOpenStep, OtherProcessStep
  <1> QED BY <1>2, <1>3, <1>4, <1>5, <1>6, <1>7 DEF Next, Run
-----------------------------------------------------------------------------
(***************************************************************************)
(* The theorems.                                                           *)
(***************************************************************************)
\* The calls that are left find their preconditions, and end in a state in
\* which no handler runs, after any interleaving of handlers, failures and
\* other processes.
THEOREM InvAlways == Spec => []Inv
  <1>1. Init => Inv
    BY InitInv
  <1>2. Inv /\ [Next]_vars => Inv'
    BY NextInv, StutterInv
  <1> QED BY <1>1, <1>2, PTL DEF Spec

\* Every call that is left is for a file of the process or of another one,
\* every mutex that is locked is one of the class's, and a file never has more
\* than four references: its opens, closes and duplicates stay in step.
THEOREM Types == Spec => []TypeOK
  <1>1. ASSUME Inv PROVE TypeOK
    <2>1. PICK cl \in BOOLEAN, ex \in BOOLEAN : Typed /\ Going(cl, ex)
      BY <1>1 DEF Inv
    <2>2. /\ held \in SUBSET Mutexes /\ ent \in [File -> Entity] /\ reserved \in 0 .. 1
          /\ ok \in BOOLEAN /\ serving \in BOOLEAN
      <3>1. Now(cl, ex) \in State
        BY <2>1 DEF Going
      <3> QED BY <3>1 DEF Now, State
    <2>3. \A i \in DOMAIN stack : stack[i].file \in File
      <3>1. \A i \in DOMAIN stack : stack[i] \in Calls
        BY <2>1 DEF Typed
      <3> QED BY <3>1 DEF Calls
    <2>4. dir \subseteq File /\ scan \subseteq File
      BY <2>1 DEF Typed
    <2> QED BY <2>2, <2>3, <2>4 DEF TypeOK, Mutexes, Entity
  <1> QED BY <1>1, InvAlways, PTL

\* Whatever failed in it, a handler that returns has released the mutexes, the
\* disk space and its reference, and the open file keeps exactly one.
THEOREM HandlersRelease == Spec => []Released
  <1>1. ASSUME Inv PROVE Released
    <2>1. PICK cl \in BOOLEAN, ex \in BOOLEAN : Typed /\ Going(cl, ex)
      BY <1>1 DEF Inv
    <2> DEFINE a == Now(cl, ex)
    <2> SUFFICES ASSUME stack = <<>>
                 PROVE  /\ held = {} /\ reserved = 0
                        /\ serving => ent[Own].mapped /\ ent[Own].fd /\ ent[Own].refcnt = 1
                        /\ \A f \in Others : ent[f].refcnt = 0
      BY DEF Released
    <2>2. Final(a) /\ a \in State
      BY <2>1, AtRest
    <2>3. a.held = held /\ a.reserved = reserved /\ a.serving = serving /\ a.ent = ent
      BY DEF Now
    <2>4. \A f \in Others : f \in File
      BY DEF File
    <2> HIDE DEF a
    <2> QED BY <2>2, <2>3, <2>4 DEF Final, Steady, Idle, IsOpen, NoEntity
  <1> QED BY <1>1, InvAlways, PTL

\* FdManager::Close is only called for an entity that is still in fent, and
\* the file that is served is open whenever it is to be closed, also while a
\* cleanup of the cache directory opens and closes it.
THEOREM ClosedOnlyInUse == Spec => []InUse
  <1>1. ASSUME Inv PROVE InUse
    <2>1. PICK cl \in BOOLEAN, ex \in BOOLEAN : Typed /\ Going(cl, ex)
      BY <1>1 DEF Inv
    <2> SUFFICES ASSUME NEW i \in DOMAIN stack, stack[i].fn = "Close"
                 PROVE  /\ ent[stack[i].file].mapped
                        /\ stack[i].file = Own => ent[Own].fd
      BY DEF InUse
    <2>2. stack \in Seq(Calls) /\ stack # <<>> /\ i \in 1 .. Len(stack)
      BY <2>1 DEF Typed
    <2>3. CASE i = 1
      <3>1. Head(stack) = stack[1]
        BY <2>2
      <3>2. Pre(Head(stack), Now(cl, ex))
        BY <2>1, <2>2, TopCall
      <3>3. ClosePre(stack[i].file, Now(cl, ex))
        BY <2>3, <3>1, <3>2, AtClose
      <3> QED BY <3>3 DEF ClosePre, Now
    <2>4. CASE i # 1
      <3>1. i \in 2 .. Len(stack)
        BY <2>2, <2>4
      <3>2. stack[i] \in Rest(stack)
        BY <3>1 DEF Rest
      <3> QED BY <2>1, <3>2 DEF Going, IsOpen
    <2> QED BY <2>3, <2>4
  <1> QED BY <1>1, InvAlways, PTL

\* FdEntity::Close takes away a reference that was not counted only from a file
\* that nobody but a cleanup opens, when an open and a link can both fail.
THEOREM UnderflowsOnlyInCleanup == Spec => []NeverUnderflows
  <1>1. ASSUME Inv PROVE NeverUnderflows
    <2>1. PICK cl \in BOOLEAN, ex \in BOOLEAN : Typed /\ Going(cl, ex)
      BY <1>1 DEF Inv
    <2> SUFFICES ASSUME Aborted
                 PROVE  /\ F # Own /\ {"open", "link"} \subseteq Faults
                        /\ \E i \in DOMAIN stack : stack[i].fn = "CleanupFile"
      BY DEF NeverUnderflows
    <2>2. stack # <<>> /\ Head(stack).fn = "Decrement" /\ ent[F].fd /\ ent[F].refcnt = 0
      BY DEF Aborted, At
    <2>3. Pre(Head(stack), Now(cl, ex))
      BY <2>1, <2>2, TopCall
    <2>4. DecrementPre(F, Now(cl, ex))
      BY <2>2, <2>3, AtDecrement DEF F
    <2>5. F # Own /\ {"open", "link"} \subseteq Faults /\ cl
      BY <2>2, <2>4 DEF DecrementPre, Now
    <2>6. \E i \in DOMAIN stack : stack[i].fn = "CleanupFile"
      BY <2>1, <2>5 DEF Going, All, Typed
    <2> QED BY <2>5, <2>6
  <1> QED BY <1>1, InvAlways, PTL

\* The thread waits for a mutex that it holds itself in one place only: a
\* cleanup that was begun under fdent_data_lock, as the disk is full, comes to the
\* file's own entity.
THEOREM SelfLocksInCleanup == Spec => []SelfLocksOnlyInCleanup
  <1>1. ASSUME Inv PROVE SelfLocksOnlyInCleanup
    <2>1. PICK cl \in BOOLEAN, ex \in BOOLEAN : Typed /\ Going(cl, ex)
      BY <1>1 DEF Inv
    <2> SUFFICES ASSUME SelfLocked
                 PROVE  /\ F = Own /\ "full" \in Faults
                        /\ \E i \in DOMAIN stack : stack[i].fn = "CleanupFile"
      BY DEF SelfLocksOnlyInCleanup
    <2>2. stack # <<>> /\ Head(stack).fn = "Lock" /\ << How, F >> \in held
      BY DEF SelfLocked, At
    <2>3. Pre(Head(stack), Now(cl, ex))
      BY <2>1, <2>2, TopCall
    <2>4. LockPre(<< How, F >>, Now(cl, ex))
      BY <2>2, <2>3, AtLock DEF F, How
    <2>5. << How, F >> = fdent_data_lock(Own) /\ cl /\ "full" \in Faults
      BY <2>2, <2>4 DEF LockPre, Now
    <2>6. F = Own
      BY <2>5 DEF fdent_data_lock
    <2>7. \E i \in DOMAIN stack : stack[i].fn = "CleanupFile"
      BY <2>1, <2>5 DEF Going, All, Typed
    <2> QED BY <2>5, <2>6, <2>7
  <1> QED BY <1>1, InvAlways, PTL

\* As long as the disk does not run full under fdent_data_lock, the thread never
\* waits for a mutex that it holds itself, whatever else fails.
THEOREM NoSelfLockWithSpace == ASSUME "full" \notin Faults PROVE Spec => []NoSelfLock
  <1>1. SelfLocksOnlyInCleanup => NoSelfLock
    BY DEF SelfLocksOnlyInCleanup, NoSelfLock
  <1> QED BY <1>1, SelfLocksInCleanup, PTL

\* A cleanup of the cache directory never deletes the cache file of the file
\* that the process has open: it finds three references to it.
THEOREM OwnFileStays == Spec => OwnFileKept
  <1> DEFINE Kept == At("CleanupFile") /\ Own \in dir /\ stack' # stack => Own \in dir'
  <1>1. ASSUME Inv, Next PROVE Kept
    <2> SUFFICES ASSUME At("CleanupFile"), Own \in dir, stack' # stack PROVE Own \in dir'
      OBVIOUS
    <2>1. PICK cl \in BOOLEAN, ex \in BOOLEAN : Typed /\ Going(cl, ex)
      BY <1>1 DEF Inv
    <2>2. stack # <<>> /\ Head(stack).fn = "CleanupFile"
      BY DEF At
    <2>3. Next => CleanupFile
      <3>1. ~ (\/ Lock \/ Unlock \/ Open \/ Search \/ Dup \/ EntityOpen \/ Opened \/ ResizeFails
               \/ OpenFails \/ LinkFails \/ EntityClose \/ Decrement \/ CloseFile \/ Close
               \/ Erase)
        BY <2>2 DEF At, Lock, Unlock, Open, Search, Dup, EntityOpen, Opened, ResizeFails,
           OpenFails, LinkFails, EntityClose, Decrement, CloseFile, Close, Erase
      <3>2. ~ (\/ CleanupCacheDir \/ Scan \/ ScanEnd \/ Reserve \/ ReserveFull \/ ReserveAgain
               \/ LoadAndFree \/ Read \/ ReserveSize \/ CheckSpace \/ Pwrite \/ Load
               \/ FlushLoaded \/ RowFlush)
        BY <2>2 DEF At, CleanupCacheDir, Scan, ScanEnd, Reserve, ReserveFull, ReserveAgain,
           LoadAndFree, Read, ReserveSize, CheckSpace, Pwrite, Load, FlushLoaded, RowFlush
      <3>3. ~ (\/ Handle \/ S3fsOpen \/ S3fsOpenFlushed \/ OpenSuccess \/ Exit \/ Start
               \/ StartOpen \/ OtherProcess)
        BY <2>2 DEF At, Handle, Handlers, S3fsOpen, S3fsOpenFlushed, OpenSuccess, Exit, Start,
           StartOpen, OtherProcess
      <3> QED BY <3>1, <3>2, <3>3 DEF Next, Run
    <2>4. dir' = IF /\ ok /\ ent[F].refcnt <= 1
                    /\ ~ ent[F].is_modify /\ fdent_lock(F) \notin held
                 THEN dir \ {F} ELSE dir
      BY <1>1, <2>3 DEF CleanupFile
    <2>5. CleanupFilePre(F, Now(cl, ex))
      <3>1. Pre(Head(stack), Now(cl, ex))
        BY <2>1, <2>2, TopCall
      <3> QED BY <2>2, <3>1, AtCleanupFile DEF F
    <2>6. F = Own /\ ok => ent[F].refcnt = 3
      BY <2>5 DEF CleanupFilePre, Now, Bit
    <2> QED BY <2>4, <2>6
  <1>2. Inv /\ [Next]_vars => [Kept]_vars
    BY <1>1
  <1> HIDE DEF Kept
  <1>3. Spec => [][Kept]_vars
    BY <1>2, InvAlways, PTL DEF Spec
  <1> QED BY <1>3 DEF Kept, OwnFileKept
=============================================================================
