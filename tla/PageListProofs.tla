--------------------------- MODULE PageListProofs ---------------------------
(***************************************************************************)
(* Proofs about PageList.tla for files of any size: the pages tile the     *)
(* file, the list implements the page map, and its queries are exact.      *)
(* The loops are recursive functions; that they have values, and what      *)
(* these are, is shown by induction on the number of pages.                *)
(***************************************************************************)
EXTENDS PageList, SequenceTheorems, FiniteSetTheorems, WellFoundedInduction, TLAPS

-----------------------------------------------------------------------------
(***************************************************************************)
(* Induction and recursion.                                                *)
(***************************************************************************)
\* A set of numbers that is not empty has a least one.
LEMMA Least ==
    ASSUME NEW T \in SUBSET Nat, T # {}
    PROVE  \E x \in T : \A y \in T : x <= y
  <1>1. PICK x \in T : \A y \in T : << y, x >> \notin OpToRel(<, Nat)
    BY NatLessThanWellFounded, WFMin
  <1>2. \A y \in T : y \in Nat /\ x \in Nat
    OBVIOUS
  <1>3. \A y \in T : ~(y < x)
    BY <1>1, <1>2 DEF OpToRel
  <1> QED BY <1>2, <1>3

\* Induction up to n, for the numbers that are in a set.
LEMMA Induction ==
    ASSUME NEW n \in Nat, NEW T, 0 \in T,
           \A i \in 1 .. n : i - 1 \in T => i \in T
    PROVE  \A i \in 0 .. n : i \in T
  <1> DEFINE Out == {i \in 0 .. n : i \notin T}
  <1> SUFFICES ASSUME Out # {} PROVE FALSE
    OBVIOUS
  <1>1. Out \in SUBSET Nat
    OBVIOUS
  <1>2. PICK x \in Out : \A y \in Out : x <= y
    BY <1>1, Least
  <1>3. x \in 1 .. n
    BY <1>2
  <1>4. x - 1 \in 0 .. n /\ x - 1 < x
    BY <1>3
  <1>5. x - 1 \in T
    BY <1>2, <1>4
  <1> QED BY <1>2, <1>3, <1>5

\* A loop that goes through n elements: its states can be listed.
IsLoop(f, A, base, n, step) ==
    f \in [0 .. n -> A] /\ f[0] = base /\ \A i \in 1 .. n : f[i] = step[f[i - 1]][i]

LEMMA LoopStates ==
    ASSUME NEW A, NEW base \in A, NEW n \in Nat, NEW step \in [A -> [1 .. n -> A]]
    PROVE  \E f : IsLoop(f, A, base, n, step)
  <1> DEFINE States(k, f) == f[0] = base /\ \A i \in 1 .. k : f[i] = step[f[i - 1]][i]
             T == {k \in 0 .. n : \E f \in [0 .. k -> A] : States(k, f)}
  <1>1. 0 \in T
    <2> DEFINE g == [i \in 0 .. 0 |-> base]
    <2>1. g \in [0 .. 0 -> A] /\ States(0, g)
      OBVIOUS
    <2> HIDE DEF g
    <2>2. \E f \in [0 .. 0 -> A] : States(0, f)
      BY <2>1
    <2> QED BY <2>2
  <1>2. ASSUME NEW k \in 1 .. n, k - 1 \in T PROVE k \in T
    <2>1. PICK f \in [0 .. k - 1 -> A] : States(k - 1, f)
      BY <1>2
    <2> DEFINE g == [i \in 0 .. k |-> IF i = k THEN step[f[k - 1]][k] ELSE f[i]]
    <2>2. k - 1 \in 0 .. k - 1 /\ k \in Nat
      OBVIOUS
    <2>3. f[k - 1] \in A
      BY <2>2
    <2>4. step[f[k - 1]] \in [1 .. n -> A]
      BY <2>3
    <2>5. step[f[k - 1]][k] \in A
      BY <2>4
    <2>6. g \in [0 .. k -> A]
      BY <2>5
    <2>7. g[0] = base
      <3>1. 0 \in 0 .. k /\ 0 # k
        OBVIOUS
      <3>2. g[0] = f[0]
        BY <3>1
      <3>3. f[0] = base
        BY <2>1
      <3> HIDE DEF g
      <3> QED BY <3>2, <3>3
    <2>8. ASSUME NEW i \in 1 .. k PROVE g[i] = step[g[i - 1]][i]
      <3>1. CASE i = k
        <4>1. k - 1 \in 0 .. k /\ k - 1 # k /\ k \in 0 .. k
          OBVIOUS
        <4>2. g[k - 1] = f[k - 1] /\ g[k] = step[f[k - 1]][k]
          BY <4>1
        <4> HIDE DEF g
        <4> QED BY <3>1, <4>2
      <3>2. CASE i # k
        <4>1. i \in 1 .. k - 1 /\ i - 1 \in 0 .. k - 1 /\ i - 1 # k /\ i \in 0 .. k /\ i - 1 \in 0 .. k
          BY <3>2
        <4>2. g[i] = f[i] /\ g[i - 1] = f[i - 1]
          BY <4>1, <3>2
        <4>3. f[i] = step[f[i - 1]][i]
          BY <4>1, <2>1
        <4> QED BY <4>2, <4>3
      <3> QED BY <3>1, <3>2
    <2> HIDE DEF g
    <2>9. States(k, g)
      BY <2>7, <2>8
    <2>10. \E h \in [0 .. k -> A] : States(k, h)
      BY <2>6, <2>9
    <2>11. k \in 0 .. n
      OBVIOUS
    <2> HIDE DEF States
    <2> QED BY <2>10, <2>11
  <1> HIDE DEF T
  <1>3. \A i \in 0 .. n : i \in T
    BY <1>1, <1>2, Induction
  <1>4. n \in T
    BY <1>3
  <1>5. PICK f \in [0 .. n -> A] : States(n, f)
    <2> HIDE DEF States
    <2> QED BY <1>4 DEF T
  <1>6. IsLoop(f, A, base, n, step)
    BY <1>5 DEF IsLoop
  <1> QED BY <1>6
-----------------------------------------------------------------------------
(***************************************************************************)
(* Lists of pages.  Chain: the pages follow one another from offset 0.     *)
(* Agrees: they call those bytes loaded that are in L.                     *)
(***************************************************************************)
AnyPage == [offset : Nat, bytes : Nat, loaded : BOOLEAN]

Chain(ps) ==
    /\ ps \in Seq(AnyPage)
    /\ ps # <<>> => ps[1].offset = 0
    /\ \A i \in 1 .. Len(ps) - 1 : ps[i + 1].offset = next(ps[i])

PageAgrees(p, L) ==
    \A o \in Nat : p.offset <= o /\ o < next(p) => /\ p.loaded = TRUE => o \in L
                                                   /\ p.loaded = FALSE => o \notin L

Agrees(ps, L) == \A i \in 1 .. Len(ps) : PageAgrees(ps[i], L)

Whole(ps) == \A i \in 1 .. Len(ps) : 0 < ps[i].bytes

Alternates(ps) == \A i \in 1 .. Len(ps) - 1 : ps[i + 1].loaded # ps[i].loaded

\* A page, and the end of a list.
LEMMA PageTypes ==
    /\ \A p \in AnyPage : /\ p.offset \in Nat /\ p.bytes \in Nat /\ p.loaded \in BOOLEAN
                          /\ next(p) = p.offset + p.bytes /\ next(p) \in Nat
    /\ \A o, b \in Nat, f \in BOOLEAN :
          /\ fdpage(o, b, f) \in AnyPage /\ fdpage(o, b, f).offset = o
          /\ fdpage(o, b, f).bytes = b /\ fdpage(o, b, f).loaded = f
          /\ next(fdpage(o, b, f)) = o + b
  BY DEF AnyPage, next, fdpage

LEMMA GrownPage ==
    ASSUME NEW p \in AnyPage, NEW b \in Nat
    PROVE  /\ [p EXCEPT !.bytes = @ + b] = fdpage(p.offset, p.bytes + b, p.loaded)
           /\ [p EXCEPT !.bytes = @ + b] \in AnyPage
  BY DEF AnyPage, fdpage

LEMMA SizeOfList ==
    ASSUME NEW ps \in Seq(AnyPage)
    PROVE  /\ ListSize(ps) \in Nat
           /\ ps = <<>> => ListSize(ps) = 0 /\ Len(ps) = 0
           /\ ps # <<>> => ListSize(ps) = next(ps[Len(ps)]) /\ Len(ps) \in 1 .. Len(ps)
  <1>1. ps # <<>> => Len(ps) \in 1 .. Len(ps) /\ ps[Len(ps)] \in AnyPage
    OBVIOUS
  <1> QED BY <1>1, PageTypes DEF ListSize, Last

\* A page that is appended.
LEMMA AppendPage ==
    ASSUME NEW done, Chain(done), NEW p \in AnyPage, p.offset = ListSize(done),
           NEW L, Agrees(done, L), PageAgrees(p, L)
    PROVE  LET ps == Append(done, p) IN
           /\ Chain(ps) /\ Agrees(ps, L) /\ ListSize(ps) = next(p) /\ ps # <<>>
           /\ Whole(done) /\ 0 < p.bytes => Whole(ps)
           /\ Alternates(done) /\ (done # <<>> => done[Len(done)].loaded # p.loaded)
                => Alternates(ps)
           /\ ps[Len(ps)] = p
  <1> DEFINE ps == Append(done, p)
             n == Len(done)
  <1>1. done \in Seq(AnyPage) /\ n \in Nat
    BY DEF Chain
  <1>2. /\ ps \in Seq(AnyPage) /\ Len(ps) = n + 1 /\ ps # <<>> /\ ps[n + 1] = p
        /\ \A i \in 1 .. n : ps[i] = done[i]
    BY <1>1, AppendProperties
  <1> HIDE DEF ps
  <1>3. (n = 0 <=> done = <<>>) /\ (n # 0 => ListSize(done) = next(done[n]) /\ n \in 1 .. n)
    BY <1>1, SizeOfList, EmptySeq
  <1>4. ListSize(ps) = next(p) /\ ps[Len(ps)] = p
    BY <1>1, <1>2, SizeOfList
  <1>5. Chain(ps)
    <2>1. ps[1].offset = 0
      <3>1. CASE n = 0
        <4>1. ps[1] = p
          BY <3>1, <1>2
        <4>2. ListSize(done) = 0
          BY <3>1, <1>1, <1>3, SizeOfList
        <4> QED BY <4>1, <4>2
      <3>2. CASE n # 0
        BY <3>2, <1>1, <1>2, <1>3 DEF Chain
      <3> QED BY <3>1, <3>2
    <2>2. ASSUME NEW i \in 1 .. Len(ps) - 1 PROVE ps[i + 1].offset = next(ps[i])
      <3>1. CASE i = n
        BY <3>1, <1>1, <1>2, <1>3
      <3>2. CASE i # n
        <4>1. i \in 1 .. n - 1 /\ i \in 1 .. n /\ i + 1 \in 1 .. n
          BY <3>2, <1>1, <1>2
        <4> QED BY <4>1, <1>2 DEF Chain
      <3> QED BY <3>1, <3>2
    <2> QED BY <1>2, <2>1, <2>2 DEF Chain
  <1>6. Agrees(ps, L)
    <2> SUFFICES ASSUME NEW i \in 1 .. n + 1 PROVE PageAgrees(ps[i], L)
      BY <1>2 DEF Agrees
    <2>1. CASE i = n + 1
      BY <2>1, <1>2
    <2>2. CASE i # n + 1
      <3>1. i \in 1 .. n
        BY <2>2, <1>1
      <3> QED BY <3>1, <1>2 DEF Agrees
    <2> QED BY <2>1, <2>2
  <1>7. ASSUME Whole(done), 0 < p.bytes PROVE Whole(ps)
    <2> SUFFICES ASSUME NEW i \in 1 .. n + 1 PROVE 0 < ps[i].bytes
      BY <1>2 DEF Whole
    <2>1. CASE i = n + 1
      BY <2>1, <1>2, <1>7
    <2>2. CASE i # n + 1
      <3>1. i \in 1 .. n
        BY <2>2, <1>1
      <3> QED BY <3>1, <1>2, <1>7 DEF Whole
    <2> QED BY <2>1, <2>2
  <1>8. ASSUME Alternates(done), done # <<>> => done[n].loaded # p.loaded PROVE Alternates(ps)
    <2> SUFFICES ASSUME NEW i \in 1 .. n PROVE ps[i + 1].loaded # ps[i].loaded
      BY <1>1, <1>2 DEF Alternates
    <2>1. CASE i = n
      BY <2>1, <1>1, <1>2, <1>3, <1>8
    <2>2. CASE i # n
      <3>1. i \in 1 .. n - 1 /\ i \in 1 .. n /\ i + 1 \in 1 .. n
        BY <2>2, <1>1
      <3>2. done[i + 1].loaded # done[i].loaded
        BY <3>1, <1>8 DEF Alternates
      <3> QED BY <3>1, <3>2, <1>2
    <2> QED BY <2>1, <2>2
  <1> QED BY <1>2, <1>4, <1>5, <1>6, <1>7, <1>8 DEF ps

\* The last page takes in the bytes of the next one.
LEMMA GrowLast ==
    ASSUME NEW done, Chain(done), done # <<>>, NEW b \in Nat,
           NEW L, Agrees(done, L),
           PageAgrees(fdpage(ListSize(done), b, done[Len(done)].loaded), L)
    PROVE  LET ps == [done EXCEPT ![Len(done)].bytes = @ + b] IN
           /\ Chain(ps) /\ Agrees(ps, L) /\ ListSize(ps) = ListSize(done) + b /\ ps # <<>>
           /\ Whole(done) => Whole(ps)
           /\ Alternates(done) => Alternates(ps)
           /\ ps[Len(ps)].loaded = done[Len(done)].loaded /\ Len(ps) = Len(done)
  <1> DEFINE n == Len(done)
             q == fdpage(done[n].offset, done[n].bytes + b, done[n].loaded)
             ps == [done EXCEPT ![n] = q]
  <1>1. /\ done \in Seq(AnyPage) /\ n \in Nat \ {0} /\ n \in 1 .. n
        /\ \A i \in 1 .. n : done[i] \in AnyPage
        /\ ListSize(done) = next(done[n])
    BY SizeOfList, EmptySeq DEF Chain
  <1>2. /\ done[n].offset \in Nat /\ done[n].bytes \in Nat /\ done[n].loaded \in BOOLEAN
        /\ next(done[n]) = done[n].offset + done[n].bytes
    BY <1>1, PageTypes
  <1>3. /\ q \in AnyPage /\ q.offset = done[n].offset /\ q.bytes = done[n].bytes + b
        /\ q.loaded = done[n].loaded /\ next(q) = next(done[n]) + b
    <2>1. done[n].bytes + b \in Nat
      BY <1>2
    <2>2. /\ q \in AnyPage /\ q.offset = done[n].offset /\ q.bytes = done[n].bytes + b
          /\ q.loaded = done[n].loaded /\ next(q) = done[n].offset + (done[n].bytes + b)
      BY <1>2, <2>1 DEF fdpage, next, AnyPage
    <2> QED BY <1>2, <2>2
  <1>4. [done EXCEPT ![n].bytes = @ + b] = ps
    <2>1. [done[n] EXCEPT !.bytes = @ + b] = q
      BY <1>1 DEF AnyPage, fdpage
    <2> QED BY <2>1
  <1>5. /\ ps \in Seq(AnyPage) /\ Len(ps) = n /\ ps[n] = q
        /\ \A i \in 1 .. n : i # n => ps[i] = done[i]
    BY <1>1, <1>3, ExceptSeq
  <1>6. ps # <<>>
    BY <1>1, <1>5
  <1> HIDE DEF ps, q
  <1>7. ListSize(ps) = ListSize(done) + b
    BY <1>5, <1>6, <1>3, <1>1, SizeOfList
  <1>8. Chain(ps)
    <2>1. \A i \in 1 .. n : ps[i].offset = done[i].offset
      BY <1>3, <1>5
    <2>2. ps[1].offset = 0
      BY <2>1, <1>1 DEF Chain
    <2>3. ASSUME NEW i \in 1 .. n - 1 PROVE ps[i + 1].offset = next(ps[i])
      <3>1. i \in 1 .. n /\ i + 1 \in 1 .. n /\ i # n
        BY <1>1
      <3> QED BY <3>1, <2>1, <1>5 DEF Chain
    <2> QED BY <2>2, <2>3, <1>5 DEF Chain
  <1>9. Agrees(ps, L)
    <2> SUFFICES ASSUME NEW i \in 1 .. n PROVE PageAgrees(ps[i], L)
      BY <1>5 DEF Agrees
    <2>1. CASE i # n
      BY <2>1, <1>5 DEF Agrees
    <2>2. CASE i = n
      <3> DEFINE r == fdpage(ListSize(done), b, done[n].loaded)
      <3>1. r.offset = next(done[n]) /\ next(r) = next(done[n]) + b /\ r.loaded = done[n].loaded
        <4>1. next(done[n]) \in Nat /\ ListSize(done) = next(done[n])
          BY <1>1, <1>2
        <4> QED BY <4>1, <1>2 DEF fdpage, next
      <3>2. PageAgrees(r, L) /\ PageAgrees(done[n], L)
        BY <1>1 DEF Agrees
      <3> HIDE DEF r
      <3>3. PageAgrees(q, L)
        BY <3>1, <3>2, <1>2, <1>3 DEF PageAgrees
      <3> QED BY <2>2, <3>3, <1>5
    <2> QED BY <2>1, <2>2
  <1>10. ASSUME Whole(done) PROVE Whole(ps)
    <2>1. \A i \in 1 .. n : 0 < done[i].bytes
      BY <1>10 DEF Whole
    <2>2. ASSUME NEW i \in 1 .. n PROVE 0 < ps[i].bytes
      <3>1. CASE i # n
        BY <2>1, <3>1, <1>5
      <3>2. CASE i = n
        <4>1. 0 < done[n].bytes /\ done[n].bytes \in Nat
          BY <2>1, <1>1, <1>2
        <4>2. ps[i] = q
          BY <3>2, <1>5
        <4> QED BY <4>1, <4>2, <1>3
      <3> QED BY <3>1, <3>2
    <2> QED BY <2>2, <1>5 DEF Whole
  <1>11. \A i \in 1 .. n : ps[i].loaded = done[i].loaded
    BY <1>3, <1>5
  <1>12. ASSUME Alternates(done) PROVE Alternates(ps)
    <2> SUFFICES ASSUME NEW i \in 1 .. n - 1 PROVE ps[i + 1].loaded # ps[i].loaded
      BY <1>5 DEF Alternates
    <2>1. i \in 1 .. n /\ i + 1 \in 1 .. n
      BY <1>1
    <2> QED BY <2>1, <1>11, <1>12 DEF Alternates
  <1> QED BY <1>1, <1>4, <1>5, <1>6, <1>7, <1>8, <1>9, <1>10, <1>11, <1>12

\* The end of the first n pages.
EndOf(ps, n) == IF n = 0 THEN 0 ELSE next(ps[n])

LEMMA ChainEnds ==
    ASSUME NEW ps, Chain(ps)
    PROVE  /\ ps \in Seq(AnyPage) /\ Len(ps) \in Nat
           /\ \A i \in 1 .. Len(ps) : /\ ps[i] \in AnyPage /\ ps[i].offset = EndOf(ps, i - 1)
                                      /\ ps[i].bytes \in Nat
                                      /\ EndOf(ps, i) = ps[i].offset + ps[i].bytes
                                      /\ EndOf(ps, i) = next(ps[i])
           /\ \A i \in 0 .. Len(ps) : EndOf(ps, i) \in Nat
           /\ EndOf(ps, Len(ps)) = ListSize(ps)
  <1>1. ps \in Seq(AnyPage) /\ Len(ps) \in Nat /\ \A i \in 1 .. Len(ps) : ps[i] \in AnyPage
    BY DEF Chain
  <1>2. ASSUME NEW i \in 1 .. Len(ps) PROVE ps[i].offset = EndOf(ps, i - 1)
    <2>1. CASE i = 1
      <3>1. ps # <<>>
        BY <1>1, EmptySeq
      <3> QED BY <2>1, <3>1 DEF Chain, EndOf
    <2>2. CASE i # 1
      <3>1. i - 1 \in 1 .. Len(ps) - 1 /\ i - 1 # 0 /\ (i - 1) + 1 = i
        BY <2>2, <1>1
      <3>2. ps[(i - 1) + 1].offset = next(ps[i - 1])
        BY <3>1 DEF Chain
      <3> QED BY <3>1, <3>2 DEF EndOf
    <2> QED BY <2>1, <2>2
  <1>3. \A i \in 1 .. Len(ps) : i # 0 /\ EndOf(ps, i) = next(ps[i])
    BY <1>1 DEF EndOf
  <1>4. \A i \in 1 .. Len(ps) : /\ next(ps[i]) \in Nat /\ next(ps[i]) = ps[i].offset + ps[i].bytes
                                /\ ps[i].bytes \in Nat
    BY <1>1, PageTypes
  <1>5. ASSUME NEW i \in 0 .. Len(ps) PROVE EndOf(ps, i) \in Nat
    <2>1. CASE i = 0
      BY <2>1 DEF EndOf
    <2>2. CASE i # 0
      <3>1. i \in 1 .. Len(ps)
        BY <2>2, <1>1
      <3> QED BY <3>1, <1>3, <1>4
    <2> QED BY <2>1, <2>2
  <1>6. EndOf(ps, Len(ps)) = ListSize(ps)
    BY <1>1, SizeOfList, EmptySeq DEF EndOf
  <1> QED BY <1>1, <1>2, <1>3, <1>4, <1>5, <1>6

\* Pages do not overlap.
LEMMA Ordered ==
    ASSUME NEW ps, Chain(ps)
    PROVE  /\ \A i, j \in 0 .. Len(ps) : i <= j => EndOf(ps, i) <= EndOf(ps, j)
           /\ \A i, j \in 1 .. Len(ps) : i < j => next(ps[i]) <= ps[j].offset
           /\ \A i \in 1 .. Len(ps) : next(ps[i]) <= ListSize(ps)
  <1> DEFINE n == Len(ps)
  <1>1. n \in Nat
    BY ChainEnds
  <1>2. ASSUME NEW i \in 0 .. n PROVE \A j \in 0 .. n : i <= j => EndOf(ps, i) <= EndOf(ps, j)
    <2> DEFINE T == {j \in 0 .. n : i <= j => EndOf(ps, i) <= EndOf(ps, j)}
    <2>1. 0 \in T
      <3>1. 0 \in 0 .. n /\ (i <= 0 => i = 0) /\ EndOf(ps, 0) \in Nat
        BY <1>1, ChainEnds
      <3> QED BY <3>1
    <2>2. ASSUME NEW j \in 1 .. n, j - 1 \in T PROVE j \in T
      <3>1. /\ EndOf(ps, j) = EndOf(ps, j - 1) + ps[j].bytes /\ ps[j].bytes \in Nat
            /\ EndOf(ps, j - 1) \in Nat /\ EndOf(ps, i) \in Nat /\ j - 1 \in 0 .. n
        BY ChainEnds
      <3>2. i <= j - 1 => EndOf(ps, i) <= EndOf(ps, j - 1)
        BY <2>2
      <3>3. i <= j /\ ~(i <= j - 1) => i = j
        BY <1>1
      <3>4. j \in 0 .. n
        BY <1>1
      <3> QED BY <3>1, <3>2, <3>3, <3>4
    <2> HIDE DEF T
    <2>3. \A j \in 0 .. n : j \in T
      BY <1>1, <2>1, <2>2, Induction
    <2> QED BY <2>3 DEF T
  <1>3. ASSUME NEW i \in 1 .. n, NEW j \in 1 .. n, i < j PROVE next(ps[i]) <= ps[j].offset
    <2>1. i \in 0 .. n /\ j - 1 \in 0 .. n /\ i <= j - 1
      BY <1>1, <1>3
    <2>2. next(ps[i]) = EndOf(ps, i) /\ ps[j].offset = EndOf(ps, j - 1)
      BY ChainEnds
    <2> QED BY <2>1, <2>2, <1>2
  <1>4. ASSUME NEW i \in 1 .. n PROVE next(ps[i]) <= ListSize(ps)
    <2>1. i \in 0 .. n /\ n \in 0 .. n /\ i <= n
      BY <1>1
    <2>2. next(ps[i]) = EndOf(ps, i) /\ ListSize(ps) = EndOf(ps, n)
      BY ChainEnds
    <2> QED BY <2>1, <2>2, <1>2
  <1> QED BY <1>2, <1>3, <1>4

\* Every byte is in a page.
LEMMA Locate ==
    ASSUME NEW ps, Chain(ps), NEW o \in Nat, o < ListSize(ps)
    PROVE  \E i \in 1 .. Len(ps) : ps[i].offset <= o /\ o < next(ps[i])
  <1> DEFINE n == Len(ps)
             T == {i \in 0 .. n : o < EndOf(ps, i)}
  <1>1. n \in Nat /\ n \in T /\ T \in SUBSET Nat
    BY ChainEnds
  <1>2. PICK x \in T : \A y \in T : x <= y
    BY <1>1, Least
  <1>3. x # 0 /\ x \in 1 .. n
    BY <1>2 DEF EndOf
  <1>4. x - 1 \in 0 .. n /\ x - 1 < x
    BY <1>1, <1>3
  <1>5. x - 1 \notin T
    BY <1>2, <1>4
  <1>6. EndOf(ps, x - 1) <= o
    BY <1>4, <1>5, ChainEnds
  <1>7. ps[x].offset = EndOf(ps, x - 1) /\ next(ps[x]) = EndOf(ps, x)
    BY <1>3, ChainEnds
  <1> QED BY <1>2, <1>3, <1>6, <1>7

\* What Covered means for a list.
LEMMA InCovered ==
    ASSUME NEW ps \in Seq(AnyPage), NEW flag \in BOOLEAN
    PROVE  \A o : o \in Covered(ps, flag) <=>
              /\ o \in Nat
              /\ \E i \in 1 .. Len(ps) : ps[i].offset <= o /\ o < next(ps[i]) /\ ps[i].loaded = flag
  <1>1. \A i \in 1 .. Len(ps) : /\ ps[i] \in AnyPage /\ ps[i].offset \in Nat /\ ps[i].bytes \in Nat
                                /\ next(ps[i]) = ps[i].offset + ps[i].bytes
    <2>1. \A i \in 1 .. Len(ps) : ps[i] \in AnyPage
      OBVIOUS
    <2> QED BY <2>1, PageTypes
  <1>2. ToSet(ps) = {ps[i] : i \in 1 .. Len(ps)}
    BY DEF ToSet
  <1> TAKE o
  <1>3. o \in Covered(ps, flag) <=>
            \E i \in 1 .. Len(ps) : /\ ps[i].bytes > 0 /\ ps[i].loaded = flag
                                    /\ o \in ps[i].offset .. (next(ps[i]) - 1)
    BY <1>2 DEF Covered
  <1>4. ASSUME NEW i \in 1 .. Len(ps)
        PROVE  ps[i].bytes > 0 /\ o \in ps[i].offset .. (next(ps[i]) - 1) <=>
                  o \in Nat /\ ps[i].offset <= o /\ o < next(ps[i])
    BY <1>1
  <1> QED BY <1>3, <1>4

\* A list agrees with what it covers.
LEMMA AgreesWithCovered ==
    ASSUME NEW ps, Chain(ps)
    PROVE  /\ Agrees(ps, Covered(ps, TRUE))
           /\ Covered(ps, TRUE) \subseteq 0 .. ListSize(ps) - 1
  <1>1. /\ ps \in Seq(AnyPage) /\ Len(ps) \in Nat
        /\ \A i \in 1 .. Len(ps) : ps[i].offset \in Nat /\ next(ps[i]) \in Nat /\ next(ps[i]) <= ListSize(ps)
        /\ ListSize(ps) \in Nat
    BY ChainEnds, PageTypes, Ordered, SizeOfList
  <1>2. \A o : o \in Covered(ps, TRUE) <=>
              /\ o \in Nat
              /\ \E i \in 1 .. Len(ps) : ps[i].offset <= o /\ o < next(ps[i]) /\ ps[i].loaded = TRUE
    BY <1>1, InCovered
  <1>3. ASSUME NEW i \in 1 .. Len(ps), NEW j \in 1 .. Len(ps), NEW o \in Nat,
               ps[i].offset <= o, o < next(ps[i]), ps[j].offset <= o, o < next(ps[j])
        PROVE  i = j
    <2>1. (i < j => next(ps[i]) <= ps[j].offset) /\ (j < i => next(ps[j]) <= ps[i].offset)
      BY Ordered
    <2>2. ps[i].offset \in Nat /\ next(ps[i]) \in Nat /\ ps[j].offset \in Nat /\ next(ps[j]) \in Nat
      BY <1>1
    <2>3. ~(i < j) /\ ~(j < i)
      BY <2>1, <2>2, <1>3
    <2> QED BY <2>3, <1>1
  <1>4. Agrees(ps, Covered(ps, TRUE))
    <2> SUFFICES ASSUME NEW i \in 1 .. Len(ps), NEW o \in Nat, ps[i].offset <= o, o < next(ps[i])
                 PROVE  /\ ps[i].loaded = TRUE => o \in Covered(ps, TRUE)
                        /\ ps[i].loaded = FALSE => o \notin Covered(ps, TRUE)
      BY DEF Agrees, PageAgrees
    <2>1. ps[i].loaded = TRUE => o \in Covered(ps, TRUE)
      BY <1>2
    <2>2. ASSUME ps[i].loaded = FALSE, o \in Covered(ps, TRUE) PROVE FALSE
      <3>1. PICK j \in 1 .. Len(ps) : ps[j].offset <= o /\ o < next(ps[j]) /\ ps[j].loaded = TRUE
        BY <1>2, <2>2
      <3>2. i = j
        BY <1>3, <3>1
      <3> QED BY <3>1, <3>2, <2>2
    <2> QED BY <2>1, <2>2
  <1>5. ASSUME NEW o \in Covered(ps, TRUE) PROVE o \in 0 .. ListSize(ps) - 1
    <2>1. PICK i \in 1 .. Len(ps) : o \in Nat /\ ps[i].offset <= o /\ o < next(ps[i])
      BY <1>2
    <2> QED BY <2>1, <1>1
  <1> QED BY <1>4, <1>5

\* A set that a list agrees with is the set it covers.
LEMMA CoveredIs ==
    ASSUME NEW ps, Chain(ps), NEW L, Agrees(ps, L), L \subseteq 0 .. ListSize(ps) - 1
    PROVE  /\ Covered(ps, TRUE) = L
           /\ Covered(ps, FALSE) = (0 .. ListSize(ps) - 1) \ L
  <1>1. /\ ps \in Seq(AnyPage) /\ Len(ps) \in Nat
        /\ \A i \in 1 .. Len(ps) : /\ ps[i].offset \in Nat /\ next(ps[i]) \in Nat
                                   /\ next(ps[i]) <= ListSize(ps) /\ ps[i].loaded \in BOOLEAN
        /\ ListSize(ps) \in Nat
    BY ChainEnds, PageTypes, Ordered, SizeOfList
  <1>2. ASSUME NEW flag \in BOOLEAN
        PROVE  \A o : o \in Covered(ps, flag) <=>
              /\ o \in Nat
              /\ \E i \in 1 .. Len(ps) : ps[i].offset <= o /\ o < next(ps[i]) /\ ps[i].loaded = flag
    BY <1>1, InCovered
  <1>3. \A o : o \in Covered(ps, TRUE) <=>
              /\ o \in Nat
              /\ \E i \in 1 .. Len(ps) : ps[i].offset <= o /\ o < next(ps[i]) /\ ps[i].loaded = TRUE
    BY <1>2
  <1>4. \A o : o \in Covered(ps, FALSE) <=>
              /\ o \in Nat
              /\ \E i \in 1 .. Len(ps) : ps[i].offset <= o /\ o < next(ps[i]) /\ ps[i].loaded = FALSE
    BY <1>2
  <1>5. \A i \in 1 .. Len(ps) : \A o \in Nat : ps[i].offset <= o /\ o < next(ps[i]) =>
            (ps[i].loaded = TRUE => o \in L) /\ (ps[i].loaded = FALSE => o \notin L)
    BY DEF Agrees, PageAgrees
  <1>6. \A o \in Nat : o < ListSize(ps) =>
            \E i \in 1 .. Len(ps) : ps[i].offset <= o /\ o < next(ps[i])
    BY Locate
  <1>7. \A o \in Nat : o < ListSize(ps) <=> o \in 0 .. ListSize(ps) - 1
    BY <1>1
  <1>8. \A i \in 1 .. Len(ps) : \A o \in Nat : o < next(ps[i]) => o < ListSize(ps)
    BY <1>1
  <1>9. \A o : o \in Covered(ps, TRUE) <=> o \in L
    <2> TAKE o
    <2>1. o \in Covered(ps, TRUE) => o \in L
      BY <1>3, <1>5
    <2>2. ASSUME o \in L PROVE o \in Covered(ps, TRUE)
      <3>1. o \in Nat /\ o < ListSize(ps)
        BY <2>2, <1>1
      <3>2. PICK i \in 1 .. Len(ps) : ps[i].offset <= o /\ o < next(ps[i])
        BY <3>1, <1>6
      <3>3. ps[i].loaded = TRUE
        BY <3>1, <3>2, <2>2, <1>1, <1>5
      <3> QED BY <3>1, <3>2, <3>3, <1>3
    <2> QED BY <2>1, <2>2
  <1>10. \A o : o \in Covered(ps, FALSE) <=> o \in (0 .. ListSize(ps) - 1) \ L
    <2> TAKE o
    <2>1. ASSUME o \in Covered(ps, FALSE) PROVE o \in (0 .. ListSize(ps) - 1) \ L
      <3>1. PICK i \in 1 .. Len(ps) : o \in Nat /\ ps[i].offset <= o /\ o < next(ps[i]) /\ ps[i].loaded = FALSE
        BY <2>1, <1>4
      <3>2. o \notin L /\ o < ListSize(ps)
        BY <3>1, <1>5, <1>8
      <3> QED BY <3>1, <3>2, <1>7
    <2>2. ASSUME o \in (0 .. ListSize(ps) - 1) \ L PROVE o \in Covered(ps, FALSE)
      <3>1. o \in Nat /\ o < ListSize(ps) /\ o \notin L
        BY <2>2, <1>1
      <3>2. PICK i \in 1 .. Len(ps) : ps[i].offset <= o /\ o < next(ps[i])
        BY <3>1, <1>6
      <3>3. ps[i].loaded = FALSE
        BY <3>1, <3>2, <1>1, <1>5
      <3> QED BY <3>1, <3>2, <3>3, <1>4
    <2> QED BY <2>1, <2>2
  <1> QED BY <1>9, <1>10
-----------------------------------------------------------------------------
(***************************************************************************)
(* The loops that change a list.                                           *)
(***************************************************************************)
\* Compress as a loop.
LEMMA CompressLoop ==
    ASSUME NEW ps \in Seq(AnyPage)
    PROVE  \E f \in [0 .. Len(ps) -> Seq(AnyPage)] :
              /\ f[0] = <<>> /\ Compress(ps) = f[Len(ps)]
              /\ \A i \in 1 .. Len(ps) : f[i] = Merge(f[i - 1], ps[i])
  <1> DEFINE n == Len(ps)
             A == Seq(AnyPage)
             step == [x \in A |-> [i \in 1 .. n |-> Merge(x, ps[i])]]
             Rec(f) == f = [i \in 0 .. n |-> IF i = 0 THEN <<>> ELSE Merge(f[i - 1], ps[i])]
             m == CHOOSE f : Rec(f)
  <1>1. n \in Nat /\ <<>> \in A
    OBVIOUS
  <1>2. ASSUME NEW done \in A, NEW i \in 1 .. n PROVE Merge(done, ps[i]) \in A
    <2>1. ps[i] \in AnyPage
      OBVIOUS
    <2>2. CASE done # <<>> /\ Last(done).loaded = ps[i].loaded
      <3>1. Len(done) \in 1 .. Len(done) /\ done[Len(done)] \in AnyPage
        BY <2>2
      <3>2. [done[Len(done)] EXCEPT !.bytes = @ + ps[i].bytes] \in AnyPage
        <4>1. ps[i].bytes \in Nat
          BY <2>1, PageTypes
        <4> QED BY <3>1, <4>1, GrownPage
      <3>3. [done EXCEPT ![Len(done)] = [done[Len(done)] EXCEPT !.bytes = @ + ps[i].bytes]] \in A
        BY <3>1, <3>2, ExceptSeq
      <3> QED BY <2>2, <3>3 DEF Merge
    <2>3. CASE ~(done # <<>> /\ Last(done).loaded = ps[i].loaded)
      BY <2>1, <2>3, AppendProperties DEF Merge
    <2> QED BY <2>2, <2>3
  <1>3. step \in [A -> [1 .. n -> A]]
    BY <1>2
  <1>4. PICK g : IsLoop(g, A, <<>>, n, step)
    <2> HIDE DEF A, step, n, Rec, m
    <2> QED BY <1>1, <1>3, LoopStates
  <1>5. ASSUME NEW i \in 1 .. n PROVE g[i] = Merge(g[i - 1], ps[i])
    <2>1. i - 1 \in 0 .. n /\ g \in [0 .. n -> A]
      BY <1>1, <1>4 DEF IsLoop
    <2>2. g[i - 1] \in A
      BY <2>1
    <2>3. step[g[i - 1]][i] = Merge(g[i - 1], ps[i])
      BY <2>2
    <2> HIDE DEF step
    <2> QED BY <1>4, <2>3 DEF IsLoop
  <1>6. Rec(g)
    <2>1. g = [i \in 0 .. n |-> g[i]]
      BY <1>4 DEF IsLoop
    <2>2. ASSUME NEW i \in 0 .. n PROVE g[i] = IF i = 0 THEN <<>> ELSE Merge(g[i - 1], ps[i])
      <3>1. CASE i = 0
        BY <3>1, <1>4 DEF IsLoop
      <3>2. CASE i # 0
        <4>1. i \in 1 .. n
          BY <3>2, <1>1
        <4> QED BY <4>1, <3>2, <1>5
      <3> QED BY <3>1, <3>2
    <2> QED BY <2>1, <2>2
  <1> HIDE DEF step
  <1>7. Rec(m)
    BY <1>6
  <1>8. Compress(ps) = m[n]
    BY DEF Compress
  <1> HIDE DEF m
  <1>9. m[0] = <<>> /\ \A i \in 1 .. n : m[i] = Merge(m[i - 1], ps[i])
    <2>1. 0 \in 0 .. n /\ \A i \in 1 .. n : i \in 0 .. n /\ i # 0
      BY <1>1
    <2> QED BY <2>1, <1>7
  <1>10. \A i \in 0 .. n : m[i] \in A
    <2> DEFINE T == {i \in 0 .. n : m[i] \in A}
    <2>1. 0 \in T
      <3>1. 0 \in 0 .. n /\ m[0] \in A
        BY <1>1, <1>9
      <3> QED BY <3>1
    <2>2. ASSUME NEW i \in 1 .. n, i - 1 \in T PROVE i \in T
      BY <1>1, <1>2, <1>9, <2>2
    <2> HIDE DEF T
    <2>3. \A i \in 0 .. n : i \in T
      BY <1>1, <2>1, <2>2, Induction
    <2> QED BY <2>3 DEF T
  <1>11. m \in [0 .. n -> A]
    BY <1>7, <1>10
  <1> QED BY <1>8, <1>9, <1>11

\* What one round of Compress does.
LEMMA MergePage ==
    ASSUME NEW done, Chain(done), NEW p \in AnyPage, p.offset = ListSize(done), 0 < p.bytes,
           NEW L, Agrees(done, L), PageAgrees(p, L), Whole(done), Alternates(done)
    PROVE  LET ps == Merge(done, p) IN
           /\ Chain(ps) /\ Agrees(ps, L) /\ ListSize(ps) = next(p) /\ Whole(ps) /\ Alternates(ps)
  <1>1. CASE done # <<>> /\ Last(done).loaded = p.loaded
    <2>1. p = fdpage(ListSize(done), p.bytes, done[Len(done)].loaded)
      BY <1>1 DEF fdpage, AnyPage, Last
    <2>2. PageAgrees(fdpage(ListSize(done), p.bytes, done[Len(done)].loaded), L)
      BY <2>1
    <2>3. p.bytes \in Nat /\ next(p) = ListSize(done) + p.bytes
      BY PageTypes
    <2> DEFINE ps == [done EXCEPT ![Len(done)].bytes = @ + p.bytes]
    <2>4. /\ Chain(ps) /\ Agrees(ps, L) /\ ListSize(ps) = ListSize(done) + p.bytes
          /\ Whole(ps) /\ Alternates(ps)
      BY <1>1, <2>2, <2>3, GrowLast
    <2>5. Merge(done, p) = ps
      BY <1>1 DEF Merge
    <2> HIDE DEF ps
    <2> QED BY <2>3, <2>4, <2>5
  <1>2. CASE ~(done # <<>> /\ Last(done).loaded = p.loaded)
    <2> DEFINE ps == Append(done, p)
    <2>1. done # <<>> => done[Len(done)].loaded # p.loaded
      BY <1>2 DEF Last
    <2>2. /\ Chain(ps) /\ Agrees(ps, L) /\ ListSize(ps) = next(p)
          /\ Whole(ps) /\ Alternates(ps)
      BY <2>1, AppendPage
    <2>3. Merge(done, p) = ps
      BY <1>2 DEF Merge
    <2> HIDE DEF ps
    <2> QED BY <2>2, <2>3
  <1> QED BY <1>1, <1>2

\* Compress keeps the bytes and leaves nothing to merge.
LEMMA CompressWhole ==
    ASSUME NEW ps, Chain(ps), Whole(ps), NEW L, Agrees(ps, L)
    PROVE  LET qs == Compress(ps) IN
           /\ Chain(qs) /\ Agrees(qs, L) /\ ListSize(qs) = ListSize(ps)
           /\ Whole(qs) /\ Alternates(qs)
  <1> DEFINE n == Len(ps)
  <1>1. ps \in Seq(AnyPage) /\ n \in Nat
    BY ChainEnds
  <1>2. PICK f \in [0 .. n -> Seq(AnyPage)] :
              /\ f[0] = <<>> /\ Compress(ps) = f[n]
              /\ \A i \in 1 .. n : f[i] = Merge(f[i - 1], ps[i])
    BY <1>1, CompressLoop
  <1> DEFINE Right(i) == /\ Chain(f[i]) /\ Agrees(f[i], L) /\ ListSize(f[i]) = EndOf(ps, i)
                         /\ Whole(f[i]) /\ Alternates(f[i])
             T == {i \in 0 .. n : Right(i)}
  <1>3. 0 \in T
    <2>1. /\ <<>> \in Seq(AnyPage) /\ Len(<<>>) = 0
          /\ 1 .. 0 = {} /\ 1 .. 0 - 1 = {} /\ 0 \in 0 .. n
      BY <1>1
    <2>3. ListSize(<<>>) = 0
      BY DEF ListSize
    <2>2. Chain(<<>>) /\ Agrees(<<>>, L) /\ Whole(<<>>) /\ Alternates(<<>>)
      BY <2>1 DEF Chain, Agrees, Whole, Alternates
    <2> QED BY <1>2, <2>1, <2>2, <2>3 DEF EndOf
  <1>4. ASSUME NEW i \in 1 .. n, i - 1 \in T PROVE i \in T
    <2>1. /\ ps[i] \in AnyPage /\ ps[i].offset = EndOf(ps, i - 1) /\ EndOf(ps, i) = next(ps[i])
          /\ i \in 0 .. n
      BY ChainEnds, <1>1
    <2>2. 0 < ps[i].bytes /\ PageAgrees(ps[i], L)
      BY DEF Whole, Agrees
    <2>3. /\ Chain(f[i - 1]) /\ Agrees(f[i - 1], L) /\ ListSize(f[i - 1]) = EndOf(ps, i - 1)
          /\ Whole(f[i - 1]) /\ Alternates(f[i - 1])
      BY <1>4
    <2> DEFINE qs == Merge(f[i - 1], ps[i])
    <2>4. /\ Chain(qs) /\ Agrees(qs, L) /\ ListSize(qs) = next(ps[i]) /\ Whole(qs) /\ Alternates(qs)
      BY <2>1, <2>2, <2>3, MergePage
    <2>5. f[i] = qs
      BY <1>2
    <2> HIDE DEF qs
    <2> QED BY <2>1, <2>4, <2>5
  <1> HIDE DEF T
  <1>5. \A i \in 0 .. n : i \in T
    BY <1>1, <1>3, <1>4, Induction
  <1>6. Right(n)
    <2>1. n \in 0 .. n
      BY <1>1
    <2> QED BY <2>1, <1>5 DEF T
  <1>7. EndOf(ps, n) = ListSize(ps)
    BY ChainEnds
  <1> QED BY <1>2, <1>6, <1>7

\* A single page stays as it is, be it empty.
LEMMA CompressOne ==
    ASSUME NEW p \in AnyPage
    PROVE  Compress(<< p >>) = << p >>
  <1>1. << p >> \in Seq(AnyPage) /\ Len(<< p >>) = 1 /\ << p >>[1] = p
    OBVIOUS
  <1>2. PICK f \in [0 .. 1 -> Seq(AnyPage)] :
              /\ f[0] = <<>> /\ Compress(<< p >>) = f[1]
              /\ \A i \in 1 .. 1 : f[i] = Merge(f[i - 1], << p >>[i])
    BY <1>1, CompressLoop
  <1>3. f[1] = Merge(<<>>, p)
    BY <1>1, <1>2
  <1>4. Merge(<<>>, p) = << p >>
    BY DEF Merge
  <1> QED BY <1>2, <1>3, <1>4
\* CutArea as a loop.
LEMMA CutLoop ==
    ASSUME NEW ps \in Seq(AnyPage), NEW size \in Nat
    PROVE  \E f \in [0 .. Len(ps) -> Seq(AnyPage)] :
              /\ f[0] = <<>> /\ CutArea(ps, size) = f[Len(ps)]
              /\ \A i \in 1 .. Len(ps) : f[i] = Cut(f[i - 1], ps[i], size)
  <1> DEFINE n == Len(ps)
             A == Seq(AnyPage)
             step == [x \in A |-> [i \in 1 .. n |-> Cut(x, ps[i], size)]]
             Rec(f) == f = [i \in 0 .. n |-> IF i = 0 THEN <<>> ELSE Cut(f[i - 1], ps[i], size)]
             m == CHOOSE f : Rec(f)
  <1>1. n \in Nat /\ <<>> \in A
    OBVIOUS
  <1>2. ASSUME NEW done \in A, NEW i \in 1 .. n PROVE Cut(done, ps[i], size) \in A
    <2>1. ps[i] \in AnyPage
      OBVIOUS
    <2>2. CASE next(ps[i]) <= size
      BY <2>1, <2>2, AppendProperties DEF Cut
    <2>3. CASE ~(next(ps[i]) <= size) /\ size <= ps[i].offset
      BY <2>3 DEF Cut
    <2>4. CASE ~(next(ps[i]) <= size) /\ ~(size <= ps[i].offset)
      <3>1. size - ps[i].offset \in Nat /\ ps[i].offset \in Nat /\ ps[i].loaded \in BOOLEAN
        <4>1. ps[i].offset \in Nat /\ ps[i].loaded \in BOOLEAN
          BY <2>1, PageTypes
        <4> QED BY <2>4, <4>1
      <3>2. fdpage(ps[i].offset, size - ps[i].offset, ps[i].loaded) \in AnyPage
        BY <3>1 DEF fdpage, AnyPage
      <3> QED BY <2>4, <3>2, AppendProperties DEF Cut
    <2> QED BY <2>2, <2>3, <2>4
  <1>3. step \in [A -> [1 .. n -> A]]
    BY <1>2
  <1>4. PICK g : IsLoop(g, A, <<>>, n, step)
    <2> HIDE DEF A, step, n, Rec, m
    <2> QED BY <1>1, <1>3, LoopStates
  <1>5. ASSUME NEW i \in 1 .. n PROVE g[i] = Cut(g[i - 1], ps[i], size)
    <2>1. i - 1 \in 0 .. n /\ g \in [0 .. n -> A]
      BY <1>1, <1>4 DEF IsLoop
    <2>2. g[i - 1] \in A
      BY <2>1
    <2>3. step[g[i - 1]][i] = Cut(g[i - 1], ps[i], size)
      BY <2>2
    <2> HIDE DEF step
    <2> QED BY <1>4, <2>3 DEF IsLoop
  <1>6. Rec(g)
    <2>1. g = [i \in 0 .. n |-> g[i]]
      BY <1>4 DEF IsLoop
    <2>2. ASSUME NEW i \in 0 .. n PROVE g[i] = IF i = 0 THEN <<>> ELSE Cut(g[i - 1], ps[i], size)
      <3>1. CASE i = 0
        BY <3>1, <1>4 DEF IsLoop
      <3>2. CASE i # 0
        <4>1. i \in 1 .. n
          BY <3>2, <1>1
        <4> QED BY <4>1, <3>2, <1>5
      <3> QED BY <3>1, <3>2
    <2> QED BY <2>1, <2>2
  <1> HIDE DEF step
  <1>7. Rec(m)
    BY <1>6
  <1>8. CutArea(ps, size) = m[n]
    BY DEF CutArea
  <1> HIDE DEF m
  <1>9. m[0] = <<>> /\ \A i \in 1 .. n : m[i] = Cut(m[i - 1], ps[i], size)
    <2>1. 0 \in 0 .. n /\ \A i \in 1 .. n : i \in 0 .. n /\ i # 0
      BY <1>1
    <2> QED BY <2>1, <1>7
  <1>10. \A i \in 0 .. n : m[i] \in A
    <2> DEFINE T == {i \in 0 .. n : m[i] \in A}
    <2>1. 0 \in T
      <3>1. 0 \in 0 .. n /\ m[0] \in A
        BY <1>1, <1>9
      <3> QED BY <3>1
    <2>2. ASSUME NEW i \in 1 .. n, i - 1 \in T PROVE i \in T
      BY <1>1, <1>2, <1>9, <2>2
    <2> HIDE DEF T
    <2>3. \A i \in 0 .. n : i \in T
      BY <1>1, <2>1, <2>2, Induction
    <2> QED BY <2>3 DEF T
  <1>11. m \in [0 .. n -> A]
    BY <1>7, <1>10
  <1> QED BY <1>8, <1>9, <1>11

\* What one round of the loop does.
LEMMA CutPage ==
    ASSUME NEW done, Chain(done), NEW p \in AnyPage, 0 < p.bytes, NEW size \in Nat,
           ListSize(done) = IF p.offset <= size THEN p.offset ELSE size,
           NEW L, Agrees(done, L), PageAgrees(p, L), Whole(done)
    PROVE  LET ps == Cut(done, p, size) IN
           /\ Chain(ps) /\ Agrees(ps, L) /\ Whole(ps)
           /\ ListSize(ps) = IF next(p) <= size THEN next(p) ELSE size
  <1>1. /\ p.offset \in Nat /\ p.bytes \in Nat /\ p.loaded \in BOOLEAN
        /\ next(p) = p.offset + p.bytes
    BY PageTypes
  <1>2. CASE next(p) <= size
    <2>1. p.offset = ListSize(done) /\ Cut(done, p, size) = Append(done, p)
      BY <1>1, <1>2 DEF Cut
    <2> QED BY <1>2, <2>1, AppendPage
  <1>3. CASE ~(next(p) <= size) /\ size <= p.offset
    <2>1. Cut(done, p, size) = done
      BY <1>3 DEF Cut
    <2>2. ListSize(done) = size
      BY <1>1, <1>3
    <2> QED BY <1>3, <2>1, <2>2
  <1>4. CASE ~(next(p) <= size) /\ ~(size <= p.offset)
    <2> DEFINE q == fdpage(p.offset, size - p.offset, p.loaded)
    <2>1. size - p.offset \in Nat /\ 0 < size - p.offset /\ p.offset = ListSize(done)
      BY <1>1, <1>4
    <2>2. /\ q \in AnyPage /\ q.offset = p.offset /\ q.bytes = size - p.offset
          /\ q.loaded = p.loaded /\ next(q) = p.offset + (size - p.offset)
      BY <1>1, <2>1 DEF fdpage, AnyPage, next
    <2>3. Cut(done, p, size) = Append(done, q)
      BY <1>4 DEF Cut
    <2> HIDE DEF q
    <2>4. next(q) = size /\ size < next(p)
      BY <1>1, <1>4, <2>2
    <2>5. PageAgrees(q, L)
      BY <1>1, <2>2, <2>4 DEF PageAgrees
    <2> DEFINE ps == Append(done, q)
    <2>6. Chain(ps) /\ Agrees(ps, L) /\ Whole(ps) /\ ListSize(ps) = next(q)
      BY <2>1, <2>2, <2>5, AppendPage
    <2> HIDE DEF ps
    <2> QED BY <1>4, <2>3, <2>4, <2>6 DEF ps
  <1> QED BY <1>2, <1>3, <1>4

\* CutArea keeps the bytes below size.
LEMMA CutWhole ==
    ASSUME NEW ps, Chain(ps), Whole(ps), NEW L, Agrees(ps, L),
           NEW size \in Nat, size <= ListSize(ps)
    PROVE  LET qs == CutArea(ps, size) IN
           Chain(qs) /\ Agrees(qs, L) /\ ListSize(qs) = size /\ Whole(qs)
  <1> DEFINE n == Len(ps)
  <1>1. ps \in Seq(AnyPage) /\ n \in Nat
    BY ChainEnds
  <1>2. PICK f \in [0 .. n -> Seq(AnyPage)] :
              /\ f[0] = <<>> /\ CutArea(ps, size) = f[n]
              /\ \A i \in 1 .. n : f[i] = Cut(f[i - 1], ps[i], size)
    BY <1>1, CutLoop
  <1> DEFINE Right(i) == /\ Chain(f[i]) /\ Agrees(f[i], L) /\ Whole(f[i])
                         /\ ListSize(f[i]) = IF EndOf(ps, i) <= size THEN EndOf(ps, i) ELSE size
             T == {i \in 0 .. n : Right(i)}
  <1>3. 0 \in T
    <2>1. /\ <<>> \in Seq(AnyPage) /\ Len(<<>>) = 0
          /\ 1 .. 0 = {} /\ 1 .. 0 - 1 = {} /\ 0 \in 0 .. n
      BY <1>1
    <2>2. ListSize(<<>>) = 0 /\ EndOf(ps, 0) = 0 /\ 0 <= size
      BY DEF ListSize, EndOf
    <2>3. Chain(<<>>) /\ Agrees(<<>>, L) /\ Whole(<<>>)
      BY <2>1 DEF Chain, Agrees, Whole
    <2> QED BY <1>2, <2>1, <2>2, <2>3
  <1>4. ASSUME NEW i \in 1 .. n, i - 1 \in T PROVE i \in T
    <2>1. /\ ps[i] \in AnyPage /\ ps[i].offset = EndOf(ps, i - 1) /\ EndOf(ps, i) = next(ps[i])
          /\ i \in 0 .. n
      BY ChainEnds, <1>1
    <2>2. 0 < ps[i].bytes /\ PageAgrees(ps[i], L)
      BY DEF Whole, Agrees
    <2>3. /\ Chain(f[i - 1]) /\ Agrees(f[i - 1], L) /\ Whole(f[i - 1])
          /\ ListSize(f[i - 1]) = IF ps[i].offset <= size THEN ps[i].offset ELSE size
      BY <1>4, <2>1
    <2> DEFINE qs == Cut(f[i - 1], ps[i], size)
    <2>4. /\ Chain(qs) /\ Agrees(qs, L) /\ Whole(qs)
          /\ ListSize(qs) = IF next(ps[i]) <= size THEN next(ps[i]) ELSE size
      BY <2>1, <2>2, <2>3, CutPage
    <2>5. f[i] = qs
      BY <1>2
    <2> HIDE DEF qs
    <2> QED BY <2>1, <2>4, <2>5
  <1> HIDE DEF T
  <1>5. \A i \in 0 .. n : i \in T
    BY <1>1, <1>3, <1>4, Induction
  <1>6. Right(n)
    <2>1. n \in 0 .. n
      BY <1>1
    <2> QED BY <2>1, <1>5 DEF T
  <1>7. EndOf(ps, n) = ListSize(ps) /\ ListSize(ps) \in Nat
    BY ChainEnds, SizeOfList
  <1>8. ListSize(f[n]) = size
    BY <1>6, <1>7
  <1> QED BY <1>2, <1>6, <1>8

\* SelectInSeq returns the first element that passes a test.
LEMMA FirstPage ==
    ASSUME NEW ps \in Seq(AnyPage), NEW T \in SUBSET (1 .. Len(ps))
    PROVE  LET i == IF T # {} THEN Min(T) ELSE 0 IN
           /\ i = 0 <=> T = {}
           /\ i # 0 => i \in T /\ \A j \in T : i <= j
  <1>1. CASE T = {}
    BY <1>1
  <1>2. CASE T # {}
    <2>1. T \in SUBSET Nat
      OBVIOUS
    <2>2. \E x \in T : \A y \in T : x <= y
      BY <1>2, <2>1, Least
    <2>3. Min(T) \in T /\ \A y \in T : Min(T) <= y
      BY <2>2 DEF Min
    <2>4. Min(T) # 0
      BY <2>3
    <2> QED BY <1>2, <2>3, <2>4
  <1> QED BY <1>1, <1>2

\* No page reaches over pos.
Split(ps, pos) == \A i \in 1 .. Len(ps) : ~(ps[i].offset < pos /\ pos < next(ps[i]))

\* A page cut in two: where the pages of the list are afterwards.
InTwo(qs, ps, i, left, right) ==
    /\ qs \in Seq(AnyPage) /\ Len(qs) = Len(ps) + 1
    /\ qs[i] = left /\ qs[i + 1] = right
    /\ \A j \in 1 .. i - 1 : qs[j] = ps[j]
    /\ \A j \in i + 2 .. Len(ps) + 1 : qs[j] = ps[j - 1]

LEMMA InsertedPage ==
    ASSUME NEW ps \in Seq(AnyPage), NEW i \in 1 .. Len(ps), NEW left \in AnyPage, NEW right \in AnyPage
    PROVE  InTwo(InsertAt(ReplaceAt(ps, i, right), i, left), ps, i, left, right)
  <1> DEFINE n == Len(ps)
             rs == [ps EXCEPT ![i] = right]
             a == SubSeq(rs, 1, i - 1)
             b == << left >>
             c == SubSeq(rs, i, n)
  <1>1. n \in Nat /\ i \in Nat /\ 1 <= i /\ i <= n
    OBVIOUS
  <1>2. /\ rs \in Seq(AnyPage) /\ Len(rs) = n /\ rs[i] = right
        /\ \A j \in 1 .. n : rs[j] \in AnyPage
        /\ \A j \in 1 .. n : j # i => rs[j] = ps[j]
    BY ExceptSeq
  <1>3. InsertAt(ReplaceAt(ps, i, right), i, left) = (a \o b) \o c
    BY <1>2 DEF InsertAt, ReplaceAt
  <1> HIDE DEF rs
  <1>4. /\ a \in Seq(AnyPage) /\ Len(a) = i - 1
        /\ \A j \in 1 .. i - 1 : a[j] = rs[j]
    BY <1>1, <1>2
  <1>5. /\ c \in Seq(AnyPage) /\ Len(c) = n - i + 1
        /\ \A j \in 1 .. n - i + 1 : c[j] = rs[i + j - 1]
    BY <1>1, <1>2
  <1>6. b \in Seq(AnyPage) /\ Len(b) = 1 /\ b[1] = left
    OBVIOUS
  <1> HIDE DEF a, b, c
  <1>7. /\ a \o b \in Seq(AnyPage) /\ Len(a \o b) = i
        /\ \A j \in 1 .. i - 1 : (a \o b)[j] = rs[j]
        /\ (a \o b)[i] = left
    <2>1. /\ a \o b \in Seq(AnyPage) /\ Len(a \o b) = Len(a) + Len(b)
          /\ \A j \in 1 .. Len(a) + Len(b) :
                (a \o b)[j] = IF j <= Len(a) THEN a[j] ELSE b[j - Len(a)]
      BY <1>4, <1>6, ConcatProperties
    <2>2. Len(a) + Len(b) = i /\ i - Len(a) = 1 /\ ~(i <= Len(a)) /\ i \in 1 .. i
      BY <1>1, <1>4, <1>6
    <2>3. \A j \in 1 .. i - 1 : j \in 1 .. i /\ j <= Len(a)
      BY <1>1, <1>4
    <2> QED BY <2>1, <2>2, <2>3, <1>4, <1>6
  <1> DEFINE d == a \o b
             qs == d \o c
  <1> HIDE DEF d
  <1>8. /\ qs \in Seq(AnyPage) /\ Len(qs) = n + 1
        /\ \A j \in 1 .. i : qs[j] = d[j]
        /\ \A j \in i + 1 .. n + 1 : qs[j] = c[j - i]
    <2>1. /\ qs \in Seq(AnyPage) /\ Len(qs) = Len(d) + Len(c)
          /\ \A j \in 1 .. Len(d) + Len(c) : qs[j] = IF j <= Len(d) THEN d[j] ELSE c[j - Len(d)]
      <3>1. d \in Seq(AnyPage) /\ c \in Seq(AnyPage)
        BY <1>5, <1>7 DEF d
      <3> QED BY <3>1, ConcatProperties
    <2>2. Len(d) = i /\ Len(d) + Len(c) = n + 1
      BY <1>1, <1>5, <1>7 DEF d
    <2>3. \A j \in 1 .. i : j \in 1 .. n + 1 /\ j <= i
      BY <1>1
    <2>4. \A j \in i + 1 .. n + 1 : j \in 1 .. n + 1 /\ ~(j <= i)
      BY <1>1
    <2> QED BY <2>1, <2>2, <2>3, <2>4
  <1> HIDE DEF qs
  <1>9. ASSUME NEW j \in i + 1 .. n + 1 PROVE qs[j] = rs[j - 1]
    <2>1. j - i \in 1 .. n - i + 1 /\ i + (j - i) - 1 = j - 1
      BY <1>1
    <2> QED BY <1>5, <1>8, <2>1
  <1>10. qs[i] = left /\ qs[i + 1] = right
    <2>1. i \in 1 .. i /\ i + 1 \in i + 1 .. n + 1 /\ (i + 1) - 1 = i
      BY <1>1
    <2> QED BY <2>1, <1>2, <1>7, <1>8, <1>9 DEF d
  <1>11. ASSUME NEW j \in 1 .. i - 1 PROVE qs[j] = ps[j]
    <2>1. j \in 1 .. i /\ j \in 1 .. n /\ j # i
      BY <1>1
    <2> QED BY <2>1, <1>2, <1>7, <1>8 DEF d
  <1>12. ASSUME NEW j \in i + 2 .. n + 1 PROVE qs[j] = ps[j - 1]
    <2>1. j \in i + 1 .. n + 1 /\ j - 1 \in 1 .. n /\ j - 1 # i
      BY <1>1
    <2> QED BY <2>1, <1>2, <1>9
  <1> QED BY <1>3, <1>8, <1>10, <1>11, <1>12 DEF qs, d, InTwo

\* Parse makes pos the first byte of a page and changes nothing else.
LEMMA ParseSplits ==
    ASSUME NEW ps, Chain(ps), Whole(ps), NEW L, Agrees(ps, L), NEW pos \in Nat
    PROVE  LET qs == Parse(ps, pos) IN
           /\ Chain(qs) /\ Whole(qs) /\ Agrees(qs, L) /\ ListSize(qs) = ListSize(ps)
           /\ Split(qs, pos)
           /\ \A other \in Nat : Split(ps, other) => Split(qs, other)
  <1> DEFINE n == Len(ps)
             T == {j \in 1 .. n : \/ pos = ps[j].offset
                                  \/ ps[j].offset < pos /\ pos < next(ps[j])}
             i == IF T # {} THEN Min(T) ELSE 0
             left == fdpage(ps[i].offset, pos - ps[i].offset, ps[i].loaded)
             right == fdpage(pos, next(ps[i]) - pos, ps[i].loaded)
  <1>1. /\ ps \in Seq(AnyPage) /\ n \in Nat
        /\ \A j \in 1 .. n : /\ ps[j] \in AnyPage /\ ps[j].offset \in Nat /\ ps[j].bytes \in Nat
                             /\ next(ps[j]) \in Nat /\ next(ps[j]) = ps[j].offset + ps[j].bytes
                             /\ ps[j].loaded \in BOOLEAN
    BY ChainEnds, PageTypes
  <1>2. /\ i = 0 <=> T = {}
        /\ i # 0 => i \in T /\ \A j \in T : i <= j
    <2>1. T \in SUBSET (1 .. n)
      OBVIOUS
    <2> HIDE DEF T
    <2> QED BY <1>1, <2>1, FirstPage
  <1>3. Parse(ps, pos) = IF i = 0 \/ ps[i].offset = pos THEN ps
                         ELSE InsertAt(ReplaceAt(ps, i, right), i, left)
    BY DEF Parse, SelectInSeq
  <1> HIDE DEF i
  <1>4. \A j, k \in 1 .. n : j < k => next(ps[j]) <= ps[k].offset
    BY Ordered
  <1>5. CASE i = 0 \/ ps[i].offset = pos
    <2>1. Parse(ps, pos) = ps
      BY <1>3, <1>5
    <2>2. Split(ps, pos)
      <3> SUFFICES ASSUME NEW j \in 1 .. n, ps[j].offset < pos, pos < next(ps[j]) PROVE FALSE
        BY DEF Split
      <3>1. j \in T
        OBVIOUS
      <3>2. i # 0 /\ i \in 1 .. n /\ i <= j /\ ps[i].offset = pos
        BY <3>1, <1>2, <1>5
      <3>3. i # j
        BY <3>2, <1>1
      <3>4. i < j
        BY <3>2, <3>3, <1>1
      <3>5. next(ps[i]) <= ps[j].offset
        BY <3>2, <3>4, <1>4
      <3> HIDE DEF T
      <3>6. /\ next(ps[i]) \in Nat /\ ps[i].bytes \in Nat /\ ps[j].offset \in Nat
            /\ ps[i].offset \in Nat /\ next(ps[i]) = ps[i].offset + ps[i].bytes
        BY <3>2, <1>1
      <3> QED BY <3>2, <3>5, <3>6
    <2> QED BY <2>1, <2>2
  <1>6. CASE ~(i = 0 \/ ps[i].offset = pos)
    <2> DEFINE qs == InsertAt(ReplaceAt(ps, i, right), i, left)
    <2>1. i \in 1 .. n /\ ps[i].offset < pos /\ pos < next(ps[i])
      BY <1>2, <1>6
    <2>2. /\ pos - ps[i].offset \in Nat /\ next(ps[i]) - pos \in Nat
          /\ 0 < pos - ps[i].offset /\ 0 < next(ps[i]) - pos
      BY <1>1, <2>1
    <2>3. /\ left \in AnyPage /\ left.offset = ps[i].offset /\ left.bytes = pos - ps[i].offset
          /\ left.loaded = ps[i].loaded /\ next(left) = ps[i].offset + (pos - ps[i].offset)
      <3>1. ps[i].offset \in Nat /\ ps[i].loaded \in BOOLEAN
        BY <1>1, <2>1
      <3>2. ASSUME NEW o \in Nat, NEW b \in Nat, o = ps[i].offset
            PROVE  LET p == fdpage(o, b, ps[i].loaded) IN
                   /\ p \in AnyPage /\ p.offset = o /\ p.bytes = b /\ p.loaded = ps[i].loaded
                   /\ next(p) = o + b
        BY <3>1 DEF fdpage, AnyPage, next
      <3> QED BY <2>2, <3>1, <3>2
    <2>4. /\ right \in AnyPage /\ right.offset = pos /\ right.bytes = next(ps[i]) - pos
          /\ right.loaded = ps[i].loaded /\ next(right) = pos + (next(ps[i]) - pos)
      <3>1. next(ps[i]) \in Nat /\ ps[i].loaded \in BOOLEAN
        BY <1>1, <2>1
      <3>2. ASSUME NEW b \in Nat, b = next(ps[i]) - pos
            PROVE  LET p == fdpage(pos, b, ps[i].loaded) IN
                   /\ p \in AnyPage /\ p.offset = pos /\ p.bytes = b /\ p.loaded = ps[i].loaded
                   /\ next(p) = pos + b
        BY <3>1 DEF fdpage, AnyPage, next
      <3> QED BY <2>2, <3>2
    <2>5. next(left) = pos /\ next(right) = next(ps[i])
      BY <1>1, <2>1, <2>3, <2>4
    <2> HIDE DEF left, right
    <2>6. /\ qs \in Seq(AnyPage) /\ Len(qs) = n + 1
          /\ qs[i] = left /\ qs[i + 1] = right
          /\ \A j \in 1 .. i - 1 : qs[j] = ps[j]
          /\ \A j \in i + 2 .. n + 1 : qs[j] = ps[j - 1]
      <3>1. ps \in Seq(AnyPage) /\ i \in 1 .. Len(ps) /\ left \in AnyPage /\ right \in AnyPage
        BY <1>1, <2>1, <2>3, <2>4
      <3> HIDE DEF T, qs
      <3>2. InTwo(qs, ps, i, left, right)
        BY <3>1, InsertedPage DEF qs
      <3> QED BY <3>2 DEF InTwo
    <2> HIDE DEF qs
    <2>7. ASSUME NEW j \in 1 .. n + 1
          PROVE  \/ j \in 1 .. i - 1 \/ j = i \/ j = i + 1
                 \/ j \in i + 2 .. n + 1 /\ j - 1 \in i + 1 .. n
      BY <1>1, <2>1
    <2>8. Chain(qs)
      <3>1. qs # <<>>
        BY <2>6, <1>1
      <3>2. qs[1].offset = 0
        <4>1. ps # <<>> /\ ps[1].offset = 0
          BY <2>1, <1>1, EmptySeq DEF Chain
        <4>2. CASE i = 1
          BY <4>1, <4>2, <2>3, <2>6
        <4>3. CASE i # 1
          <5>1. 1 \in 1 .. i - 1
            BY <4>3, <2>1, <1>1
          <5> QED BY <5>1, <4>1, <2>6
        <4> QED BY <4>2, <4>3
      <3>3. ASSUME NEW j \in 1 .. n PROVE qs[j + 1].offset = next(qs[j])
        <4>0. \A k \in 1 .. n - 1 : ps[k + 1].offset = next(ps[k])
          BY DEF Chain
        <4>1. CASE j + 1 \in 1 .. i - 1
          <5>1. j \in 1 .. i - 1 /\ j \in 1 .. n - 1
            BY <4>1, <2>1, <1>1
          <5> QED BY <5>1, <4>0, <4>1, <2>6
        <4>2. CASE j + 1 = i
          <5>1. j \in 1 .. i - 1 /\ j \in 1 .. n - 1
            BY <4>2, <2>1, <1>1
          <5>2. ps[i].offset = next(ps[j])
            BY <5>1, <4>0, <4>2
          <5> QED BY <5>1, <5>2, <4>2, <2>3, <2>6
        <4>3. CASE j = i
          BY <4>3, <2>4, <2>5, <2>6
        <4>4. CASE j = i + 1
          <5>1. j + 1 \in i + 2 .. n + 1 /\ (j + 1) - 1 = i + 1 /\ i \in 1 .. n - 1
            BY <4>4, <2>1, <1>1
          <5>2. qs[j + 1] = ps[i + 1] /\ ps[i + 1].offset = next(ps[i])
            BY <5>1, <4>0, <2>6
          <5> QED BY <5>2, <4>4, <2>5, <2>6
        <4>5. CASE j \in i + 2 .. n
          <5>1. /\ j + 1 \in i + 2 .. n + 1 /\ (j + 1) - 1 = j /\ j \in i + 2 .. n + 1
                /\ j - 1 \in 1 .. n - 1 /\ (j - 1) + 1 = j
            BY <4>5, <2>1, <1>1
          <5>2. qs[j + 1] = ps[j] /\ qs[j] = ps[j - 1] /\ ps[j].offset = next(ps[j - 1])
            BY <5>1, <4>0, <2>6
          <5> QED BY <5>2
        <4> QED BY <4>1, <4>2, <4>3, <4>4, <4>5, <2>1, <1>1
      <3> QED BY <3>2, <3>3, <2>6, <1>1 DEF Chain
    <2>9. ASSUME NEW j \in 1 .. n + 1
          PROVE  \/ qs[j] = left \/ qs[j] = right
                 \/ \E k \in 1 .. n : k # i /\ qs[j] = ps[k]
      <3>1. CASE j \in 1 .. i - 1
        <4>1. j \in 1 .. n /\ j # i
          BY <3>1, <2>1, <1>1
        <4> QED BY <3>1, <4>1, <2>6
      <3>2. CASE j = i \/ j = i + 1
        BY <3>2, <2>6
      <3>3. CASE j \in i + 2 .. n + 1 /\ j - 1 \in i + 1 .. n
        <4>1. j - 1 \in 1 .. n /\ j - 1 # i
          BY <3>3, <2>1, <1>1
        <4> QED BY <3>3, <4>1, <2>6
      <3> QED BY <3>1, <3>2, <3>3, <2>7
    <2>10. Whole(qs)
      <3>1. \A k \in 1 .. n : 0 < ps[k].bytes
        BY DEF Whole
      <3> QED BY <3>1, <2>2, <2>3, <2>4, <2>6, <2>9 DEF Whole
    <2>11. Agrees(qs, L)
      <3>1. \A k \in 1 .. n : PageAgrees(ps[k], L)
        BY DEF Agrees
      <3>2. PageAgrees(ps[i], L)
        BY <3>1, <2>1
      <3>3. PageAgrees(left, L)
        <4>1. \A o \in Nat : o < next(left) => o < next(ps[i])
          BY <2>1, <2>5, <1>1
        <4> QED BY <4>1, <3>2, <2>3 DEF PageAgrees
      <3>4. PageAgrees(right, L)
        <4>1. \A o \in Nat : right.offset <= o => ps[i].offset <= o
          BY <2>1, <2>4, <1>1
        <4> QED BY <4>1, <3>2, <2>4, <2>5 DEF PageAgrees
      <3> QED BY <3>1, <3>3, <3>4, <2>6, <2>9 DEF Agrees
    <2>12. ListSize(qs) = ListSize(ps)
      <3>1. n + 1 \in 1 .. n + 1 /\ qs # <<>> /\ ps # <<>> /\ n \in 1 .. n
        BY <1>1, <2>1, <2>6, EmptySeq
      <3>2. ListSize(qs) = next(qs[n + 1]) /\ ListSize(ps) = next(ps[n])
        BY <3>1, <1>1, <2>6, SizeOfList
      <3>3. CASE i = n
        BY <3>2, <3>3, <2>5, <2>6
      <3>4. CASE i # n
        <4>1. n + 1 \in i + 2 .. n + 1 /\ (n + 1) - 1 = n
          BY <3>4, <2>1, <1>1
        <4> QED BY <4>1, <3>2, <2>6
      <3> QED BY <3>3, <3>4
    <2>13. ASSUME NEW other \in Nat, \A k \in 1 .. n : k # i => ~(ps[k].offset < other /\ other < next(ps[k])),
                  ~(ps[i].offset < other /\ other < next(ps[i])) \/ other = pos
           PROVE  Split(qs, other)
      <3>1. ~(left.offset < other /\ other < next(left))
        BY <2>1, <2>3, <2>5, <2>13, <1>1
      <3>2. ~(right.offset < other /\ other < next(right))
        BY <2>1, <2>4, <2>5, <2>13, <1>1
      <3> QED BY <3>1, <3>2, <2>6, <2>9, <2>13 DEF Split
    <2>14. Split(qs, pos)
      <3>1. ASSUME NEW k \in 1 .. n, k # i, ps[k].offset < pos, pos < next(ps[k]) PROVE FALSE
        <4>1. k < i \/ i < k
          BY <3>1, <2>1, <1>1
        <4>2. (k < i => next(ps[k]) <= ps[i].offset) /\ (i < k => next(ps[i]) <= ps[k].offset)
          BY <2>1, <1>4
        <4>3. /\ ps[k].offset \in Nat /\ next(ps[k]) \in Nat
              /\ ps[i].offset \in Nat /\ next(ps[i]) \in Nat
          BY <1>1, <2>1
        <4> QED BY <4>1, <4>2, <4>3, <3>1, <2>1
      <3> QED BY <3>1, <2>13
    <2>15. \A other \in Nat : Split(ps, other) => Split(qs, other)
      BY <2>1, <2>13 DEF Split
    <2> QED BY <1>3, <1>6, <2>8, <2>10, <2>11, <2>12, <2>14, <2>15 DEF qs
  <1> QED BY <1>5, <1>6

\* Only the bytes of the file matter.
LEMMA AgreesBelow ==
    ASSUME NEW ps, Chain(ps), NEW L, Agrees(ps, L), NEW M,
           \A o \in Nat : o < ListSize(ps) => (o \in L <=> o \in M)
    PROVE  Agrees(ps, M)
  <1>1. /\ \A i \in 1 .. Len(ps) : ps[i] \in AnyPage /\ next(ps[i]) <= ListSize(ps)
        /\ ListSize(ps) \in Nat
    BY ChainEnds, Ordered, SizeOfList
  <1> SUFFICES ASSUME NEW i \in 1 .. Len(ps), NEW o \in Nat, ps[i].offset <= o, o < next(ps[i])
               PROVE  (ps[i].loaded = TRUE => o \in M) /\ (ps[i].loaded = FALSE => o \notin M)
    BY DEF Agrees, PageAgrees
  <1>2. next(ps[i]) \in Nat
    BY <1>1, PageTypes
  <1>3. o < ListSize(ps)
    BY <1>1, <1>2
  <1>4. (ps[i].loaded = TRUE => o \in L) /\ (ps[i].loaded = FALSE => o \notin L)
    BY DEF Agrees, PageAgrees
  <1> QED BY <1>3, <1>4

\* M is L after the area got the flag.
Marked(L, M, start, size, flag) ==
    \A o \in Nat : o \in M <=> IF start <= o /\ o < start + size THEN flag = TRUE ELSE o \in L

\* The loop of SetPageLoadedStatus.
LEMMA MarkPages ==
    ASSUME NEW ps, Chain(ps), Whole(ps), NEW L, Agrees(ps, L),
           NEW start \in Nat, NEW size \in Nat, NEW flag \in BOOLEAN,
           Split(ps, start), Split(ps, start + size), NEW M, Marked(L, M, start, size, flag)
    PROVE  /\ Chain(Mark(ps, start, size, flag)) /\ Whole(Mark(ps, start, size, flag))
           /\ Agrees(Mark(ps, start, size, flag), M)
           /\ ListSize(Mark(ps, start, size, flag)) = ListSize(ps)
  <1> DEFINE n == Len(ps)
             qs == Mark(ps, start, size, flag)
             Out(p) == end(p) < start \/ start + size <= p.offset
  <1>1. /\ ps \in Seq(AnyPage) /\ n \in Nat
        /\ \A i \in 1 .. n : /\ ps[i] \in AnyPage /\ ps[i].offset \in Nat /\ ps[i].bytes \in Nat
                             /\ next(ps[i]) \in Nat /\ next(ps[i]) = ps[i].offset + ps[i].bytes
                             /\ ps[i].loaded \in BOOLEAN
    BY ChainEnds, PageTypes
  <1>2. qs = [i \in 1 .. n |-> IF Out(ps[i]) THEN ps[i]
                               ELSE fdpage(ps[i].offset, ps[i].bytes, flag)]
    BY <1>1 DEF Mark
  <1> HIDE DEF qs
  <1>3. ASSUME NEW i \in 1 .. n
        PROVE  /\ qs[i] \in AnyPage /\ qs[i].offset = ps[i].offset /\ qs[i].bytes = ps[i].bytes
               /\ Out(ps[i]) => qs[i].loaded = ps[i].loaded
               /\ ~Out(ps[i]) => qs[i].loaded = flag
    <2>1. CASE Out(ps[i])
      <3>1. qs[i] = ps[i]
        BY <1>2, <2>1
      <3> QED BY <3>1, <2>1, <1>1
    <2>2. CASE ~Out(ps[i])
      <3>1. qs[i] = fdpage(ps[i].offset, ps[i].bytes, flag)
        BY <1>2, <2>2
      <3>2. ps[i].offset \in Nat /\ ps[i].bytes \in Nat
        BY <1>1
      <3>3. /\ fdpage(ps[i].offset, ps[i].bytes, flag) \in AnyPage
            /\ fdpage(ps[i].offset, ps[i].bytes, flag).offset = ps[i].offset
            /\ fdpage(ps[i].offset, ps[i].bytes, flag).bytes = ps[i].bytes
            /\ fdpage(ps[i].offset, ps[i].bytes, flag).loaded = flag
        BY <3>2 DEF fdpage, AnyPage
      <3> QED BY <3>1, <3>3, <2>2
    <2> QED BY <2>1, <2>2
  <1>4. qs \in Seq(AnyPage) /\ Len(qs) = n
    BY <1>1, <1>2, <1>3
  <1>5. \A i \in 1 .. n : next(qs[i]) = next(ps[i])
    BY <1>3 DEF next
  <1>6. Chain(qs)
    <2>1. ps = <<>> => qs = <<>>
      BY <1>1, <1>4
    <2>2. qs # <<>> => qs[1].offset = 0
      <3> SUFFICES ASSUME qs # <<>> PROVE qs[1].offset = 0
        OBVIOUS
      <3>1. ps # <<>> /\ 1 \in 1 .. n
        BY <2>1, <1>1, <1>4, EmptySeq
      <3> QED BY <3>1, <1>3 DEF Chain
    <2>3. ASSUME NEW i \in 1 .. n - 1 PROVE qs[i + 1].offset = next(qs[i])
      <3>1. i \in 1 .. n /\ i + 1 \in 1 .. n
        BY <1>1
      <3>2. ps[i + 1].offset = next(ps[i])
        BY DEF Chain
      <3> QED BY <3>1, <3>2, <1>3, <1>5
    <2> QED BY <2>2, <2>3, <1>4 DEF Chain
  <1>7. Whole(qs)
    <2>1. \A i \in 1 .. n : 0 < ps[i].bytes
      BY DEF Whole
    <2> QED BY <2>1, <1>3, <1>4 DEF Whole
  <1>8. Agrees(qs, M)
    <2> SUFFICES ASSUME NEW i \in 1 .. n, NEW o \in Nat, qs[i].offset <= o, o < next(qs[i])
                 PROVE  (qs[i].loaded = TRUE => o \in M) /\ (qs[i].loaded = FALSE => o \notin M)
      BY <1>4 DEF Agrees, PageAgrees
    <2>1. ps[i].offset <= o /\ o < next(ps[i])
      BY <1>3, <1>5
    <2>2. (ps[i].loaded = TRUE => o \in L) /\ (ps[i].loaded = FALSE => o \notin L)
      BY <2>1 DEF Agrees, PageAgrees
    <2>3. /\ ~(ps[i].offset < start /\ start < next(ps[i]))
          /\ ~(ps[i].offset < start + size /\ start + size < next(ps[i]))
      BY DEF Split
    <2>4. 0 < ps[i].bytes
      BY DEF Whole
    <2>5. /\ ps[i].offset \in Nat /\ ps[i].bytes \in Nat /\ next(ps[i]) = ps[i].offset + ps[i].bytes
          /\ end(ps[i]) = ps[i].offset + ps[i].bytes - 1
      BY <1>1, <2>4 DEF end
    <2>6. CASE Out(ps[i])
      <3>1. ~(start <= o /\ o < start + size)
        BY <2>6, <2>1, <2>3, <2>5
      <3>2. o \in M <=> o \in L
        BY <3>1 DEF Marked
      <3>3. qs[i].loaded = ps[i].loaded
        BY <1>3, <2>6
      <3> QED BY <3>2, <3>3, <2>2
    <2>7. CASE ~Out(ps[i])
      <3>1. start <= o /\ o < start + size
        BY <2>7, <2>1, <2>3, <2>5
      <3>2. o \in M <=> flag = TRUE
        BY <3>1 DEF Marked
      <3>3. qs[i].loaded = flag
        BY <1>3, <2>7
      <3> QED BY <3>2, <3>3
    <2> QED BY <2>6, <2>7
  <1>9. ListSize(qs) = ListSize(ps)
    <2>1. CASE n = 0
      <3>1. ps = <<>> /\ qs = <<>>
        BY <2>1, <1>1, <1>4
      <3> QED BY <3>1
    <2>2. CASE n # 0
      <3>1. ps # <<>> /\ qs # <<>> /\ n \in 1 .. n
        BY <2>2, <1>1, <1>4
      <3> QED BY <3>1, <1>1, <1>4, <1>5, SizeOfList
    <2> QED BY <2>1, <2>2
  <1> QED BY <1>6, <1>7, <1>8, <1>9 DEF qs
-----------------------------------------------------------------------------
(***************************************************************************)
(* The methods.  A list is proper if there is nothing to merge and only    *)
(* the one page of an empty file is empty.                                 *)
(***************************************************************************)
Proper(ps) == Chain(ps) /\ Alternates(ps) /\ (Whole(ps) \/ Len(ps) = 1)

\* A list of a file of the given size whose loaded bytes are in L.
Shows(ps, size, L) == Proper(ps) /\ ListSize(ps) = size /\ Agrees(ps, L)

\* M is L after the file was resized.
Resized(L, M, old, size, flag) ==
    \A o \in Nat : o < size => (o \in M <=> IF o < old THEN o \in L ELSE flag = TRUE)

LEMMA ProperIsWhole ==
    ASSUME NEW ps, Chain(ps), Whole(ps) \/ Len(ps) = 1, ListSize(ps) # 0
    PROVE  Whole(ps)
  <1> SUFFICES ASSUME Len(ps) = 1 PROVE Whole(ps)
    OBVIOUS
  <1>1. ps \in Seq(AnyPage) /\ ps # <<>>
    <2>1. ps \in Seq(AnyPage)
      BY ChainEnds
    <2> QED BY <2>1
  <1>2. ListSize(ps) = next(ps[1]) /\ ps[1] \in AnyPage /\ ps[1].offset = 0
    BY <1>1, SizeOfList DEF Chain
  <1>3. ps[1].bytes \in Nat /\ next(ps[1]) = ps[1].offset + ps[1].bytes
    BY <1>2, PageTypes
  <1>4. 0 < ps[1].bytes
    BY <1>2, <1>3
  <1> QED BY <1>4 DEF Whole

\* A list of one page.
LEMMA OnePage ==
    ASSUME NEW size \in Nat, NEW flag \in BOOLEAN, NEW M,
           Resized({}, M, 0, size, flag)
    PROVE  Shows(InitList(size, flag), size, M) /\ Compress(InitList(size, flag)) = InitList(size, flag)
  <1> DEFINE p == fdpage(0, size, flag)
             ps == << p >>
  <1>1. /\ p \in AnyPage /\ p.offset = 0 /\ p.bytes = size /\ p.loaded = flag /\ next(p) = size
    BY DEF fdpage, AnyPage, next
  <1> HIDE DEF p
  <1>2. /\ ps \in Seq(AnyPage) /\ Len(ps) = 1 /\ ps[1] = p /\ ps # <<>>
    BY <1>1
  <1>3. Compress(ps) = ps
    BY <1>1, CompressOne
  <1>4. InitList(size, flag) = ps
    BY DEF InitList, p
  <1> HIDE DEF ps
  <1>5. 1 .. 1 - 1 = {}
    OBVIOUS
  <1>6. Proper(ps)
    BY <1>1, <1>2, <1>5 DEF Proper, Chain, Alternates
  <1>7. ListSize(ps) = size
    BY <1>1, <1>2, SizeOfList
  <1>8. PageAgrees(p, M)
    <2>1. \A o \in Nat : ~(o < 0)
      OBVIOUS
    <2> QED BY <1>1, <2>1 DEF PageAgrees, Resized
  <1>9. Agrees(ps, M)
    BY <1>2, <1>8 DEF Agrees
  <1> QED BY <1>3, <1>4, <1>6, <1>7, <1>9 DEF Shows

\* Compress of any list the methods hand to it.
LEMMA CompressList ==
    ASSUME NEW ps, Chain(ps), Whole(ps) \/ Len(ps) = 1, NEW L, Agrees(ps, L)
    PROVE  Shows(Compress(ps), ListSize(ps), L)
  <1>1. CASE Whole(ps)
    BY <1>1, CompressWhole DEF Proper, Shows
  <1>2. CASE Len(ps) = 1
    <2>0. ps \in Seq(AnyPage)
      BY ChainEnds
    <2>1. ps[1] \in AnyPage /\ ps = << ps[1] >>
      BY <1>2, <2>0
    <2>2. Compress(ps) = ps
      BY <2>1, CompressOne
    <2>3. Alternates(ps)
      <3>1. 1 .. 1 - 1 = {}
        OBVIOUS
      <3> QED BY <3>1, <1>2 DEF Alternates
    <2> QED BY <1>2, <2>2, <2>3 DEF Proper, Shows
  <1> QED BY <1>1, <1>2

\* Resize: a new area gets the flag, a cut area is forgotten.
LEMMA ResizeList ==
    ASSUME NEW ps, Proper(ps), NEW L, Agrees(ps, L),
           NEW size \in Nat, NEW flag \in BOOLEAN, NEW M,
           Resized(L, M, ListSize(ps), size, flag)
    PROVE  Shows(Resize(ps, size, flag), size, M)
  <1> DEFINE total == ListSize(ps)
             Shape(qs) == Chain(qs) /\ (Whole(qs) \/ Len(qs) = 1) /\ Agrees(qs, M) /\ ListSize(qs) = size
  <1>1. Chain(ps) /\ total \in Nat /\ (Whole(ps) \/ Len(ps) = 1)
    <2>1. Chain(ps) /\ (Whole(ps) \/ Len(ps) = 1)
      BY DEF Proper
    <2>2. ps \in Seq(AnyPage)
      BY <2>1, ChainEnds
    <2> QED BY <2>1, <2>2, SizeOfList
  <1>2. \A qs : Shape(qs) => Shows(Compress(qs), size, M)
    BY CompressList
  <1>0. \A o \in Nat : o < size => (o \in M <=> IF o < total THEN o \in L ELSE flag = TRUE)
    BY DEF Resized
  <1> HIDE DEF total
  <1>3. CASE total = 0
    <2>1. Resize(ps, size, flag) = Compress(InitList(size, flag))
      BY <1>3 DEF Resize, total
    <2>2. Resized({}, M, 0, size, flag)
      <3>1. \A o \in Nat : ~(o < 0)
        OBVIOUS
      <3> QED BY <1>0, <1>3, <3>1 DEF Resized
    <2>3. Shape(InitList(size, flag))
      BY <2>2, OnePage DEF Proper, Shows
    <2> HIDE DEF Shape
    <2> QED BY <1>2, <2>1, <2>3
  <1>4. CASE total # 0 /\ total < size
    <2> DEFINE p == fdpage(total, size - total, flag)
    <2>1. Resize(ps, size, flag) = Compress(Append(ps, p))
      <3>1. ~(size < total)
        BY <1>1, <1>4
      <3> QED BY <1>4, <3>1 DEF Resize, total
    <2>2. size - total \in Nat /\ 0 < size - total
      BY <1>1, <1>4
    <2>3. /\ p \in AnyPage /\ p.offset = total /\ p.bytes = size - total /\ p.loaded = flag
          /\ next(p) = total + (size - total)
      BY <1>1, <2>2 DEF fdpage, AnyPage, next
    <2> HIDE DEF p
    <2>4. next(p) = size
      BY <1>1, <2>3
    <2>5. Agrees(ps, M)
      <3>1. \A o \in Nat : o < ListSize(ps) => (o \in L <=> o \in M)
        BY <1>0, <1>1, <1>4 DEF total
      <3> QED BY <1>1, <3>1, AgreesBelow
    <2>6. PageAgrees(p, M)
      <3> SUFFICES ASSUME NEW o \in Nat, total <= o, o < size
                   PROVE  (flag = TRUE => o \in M) /\ (flag = FALSE => o \notin M)
        BY <2>3, <2>4 DEF PageAgrees
      <3>1. ~(o < total)
        BY <1>1
      <3> QED BY <1>0, <3>1
    <2>7. Whole(ps)
      BY <1>1, <1>4, ProperIsWhole DEF total
    <2>8. Shape(Append(ps, p))
      BY <1>1, <2>2, <2>3, <2>4, <2>5, <2>6, <2>7, AppendPage DEF total
    <2> HIDE DEF Shape
    <2> QED BY <1>2, <2>1, <2>8
  <1>5. CASE size < total
    <2>1. Resize(ps, size, flag) = Compress(CutArea(ps, size))
      <3>1. total # 0 /\ ~(total < size)
        BY <1>1, <1>5
      <3> QED BY <1>5, <3>1 DEF Resize, total
    <2>2. Whole(ps)
      <3>1. total # 0
        BY <1>1, <1>5
      <3> QED BY <1>1, <3>1, ProperIsWhole DEF total
    <2>3. size <= ListSize(ps)
      BY <1>1, <1>5 DEF total
    <2> DEFINE qs == CutArea(ps, size)
    <2>4. Chain(qs) /\ Agrees(qs, L) /\ ListSize(qs) = size /\ Whole(qs)
      BY <1>1, <2>2, <2>3, CutWhole
    <2> HIDE DEF qs
    <2>5. Agrees(qs, M)
      <3>1. \A o \in Nat : o < ListSize(qs) => (o \in L <=> o \in M)
        BY <1>0, <1>1, <1>5, <2>4
      <3> QED BY <2>4, <3>1, AgreesBelow
    <2>6. Shape(qs)
      BY <2>4, <2>5
    <2> HIDE DEF Shape
    <2> QED BY <1>2, <2>1, <2>6 DEF qs
  <1>6. CASE total # 0 /\ total = size
    <2>1. Resize(ps, size, flag) = Compress(ps)
      <3>1. ~(total < size) /\ ~(size < total)
        BY <1>1, <1>6
      <3> QED BY <1>6, <3>1 DEF Resize, total
    <2>2. Agrees(ps, M)
      <3>1. \A o \in Nat : o < ListSize(ps) => (o \in L <=> o \in M)
        BY <1>0, <1>6 DEF total
      <3> QED BY <1>1, <3>1, AgreesBelow
    <2>3. Shape(ps)
      BY <1>1, <1>6, <2>2 DEF total
    <2> HIDE DEF Shape
    <2> QED BY <1>2, <2>1, <2>3
  <1> QED BY <1>1, <1>3, <1>4, <1>5, <1>6

\* SetPageLoadedStatus: the area gets the flag, the file grows to its end.
LEMMA SetList ==
    ASSUME NEW ps, Proper(ps), NEW L, Agrees(ps, L), L \subseteq 0 .. ListSize(ps) - 1,
           NEW start \in Nat, NEW size \in Nat, NEW flag \in BOOLEAN, NEW M,
           Marked(L, M, start, size, flag)
    PROVE  Shows(SetPageLoadedStatus(ps, start, size, flag),
                 IF ListSize(ps) < start + size THEN start + size ELSE ListSize(ps), M)
  <1> DEFINE now == ListSize(ps)
  <1>1. /\ Chain(ps) /\ (Whole(ps) \/ Len(ps) = 1)
        /\ now \in Nat /\ \A o \in Nat : o \in L => o < now
    <2>1. Chain(ps) /\ (Whole(ps) \/ Len(ps) = 1)
      BY DEF Proper
    <2>2. ps \in Seq(AnyPage)
      BY <2>1, ChainEnds
    <2>3. now \in Nat
      BY <2>2, SizeOfList
    <2> QED BY <2>1, <2>3
  <1> HIDE DEF now
  <1>2. ASSUME NEW rs, Shows(rs, start, L), now <= start + size,
               SetPageLoadedStatus(ps, start, size, flag) = Compress(Resize(rs, start + size, flag))
        PROVE  Shows(SetPageLoadedStatus(ps, start, size, flag),
                     IF now < start + size THEN start + size ELSE now, M)
    <2> DEFINE qs == Resize(rs, start + size, flag)
    <2>1. Resized(L, M, ListSize(rs), start + size, flag)
      BY <1>2 DEF Shows, Resized, Marked
    <2>2. Shows(qs, start + size, M)
      <3>1. start + size \in Nat /\ Proper(rs) /\ Agrees(rs, L)
        BY <1>2 DEF Shows
      <3> QED BY <2>1, <3>1, ResizeList
    <2> HIDE DEF qs
    <2>3. Shows(Compress(qs), start + size, M)
      <3>1. Chain(qs) /\ (Whole(qs) \/ Len(qs) = 1) /\ Agrees(qs, M) /\ ListSize(qs) = start + size
        BY <2>2 DEF Shows, Proper
      <3> QED BY <3>1, CompressList
    <2>4. start + size = IF now < start + size THEN start + size ELSE now
      BY <1>1, <1>2
    <2> QED BY <1>2, <2>3, <2>4 DEF qs
  <1>3. Shows(Resize(ps, start, FALSE), start, L)
    <2>1. PICK no \in BOOLEAN : no = FALSE
      OBVIOUS
    <2>2. Resized(L, L, ListSize(ps), start, no)
      BY <1>1, <2>1 DEF now, Resized
    <2>3. Shows(Resize(ps, start, no), start, L)
      BY <2>2, ResizeList
    <2> QED BY <2>1, <2>3
  <1>4. CASE now < start
    <2>1. SetPageLoadedStatus(ps, start, size, flag) =
              Compress(Resize(Resize(ps, start, FALSE), start + size, flag))
      <3>1. now <= start
        BY <1>1, <1>4
      <3> QED BY <1>4, <3>1 DEF SetPageLoadedStatus, now
    <2>2. now <= start + size
      BY <1>1, <1>4
    <2> QED BY <1>2, <1>3, <2>1, <2>2 DEF now
  <1>5. CASE now = start
    <2>1. SetPageLoadedStatus(ps, start, size, flag) = Compress(Resize(ps, start + size, flag))
      <3>1. now <= start /\ ~(now < start)
        BY <1>1, <1>5
      <3> QED BY <3>1 DEF SetPageLoadedStatus, now
    <2>2. now <= start + size /\ Shows(ps, start, L)
      BY <1>1, <1>5 DEF Shows, now
    <2> QED BY <1>2, <2>1, <2>2 DEF now
  <1>6. CASE start < now /\ now <= start + size
    <2>1. SetPageLoadedStatus(ps, start, size, flag) =
              Compress(Resize(Resize(ps, start, FALSE), start + size, flag))
      <3>1. ~(now <= start)
        BY <1>1, <1>6
      <3> QED BY <1>6, <3>1 DEF SetPageLoadedStatus, now
    <2> QED BY <1>2, <1>3, <1>6, <2>1 DEF now
  <1>7. CASE start + size < now
    <2> DEFINE p1 == Parse(ps, start)
               p2 == Parse(p1, start + size)
               qs == Mark(p2, start, size, flag)
    <2>1. SetPageLoadedStatus(ps, start, size, flag) = Compress(qs)
      <3>1. ~(now <= start) /\ ~(now <= start + size)
        BY <1>1, <1>7
      <3> QED BY <3>1 DEF SetPageLoadedStatus, now
    <2>2. Whole(ps) /\ start + size \in Nat
      <3>1. now # 0
        BY <1>1, <1>7
      <3> QED BY <1>1, <3>1, ProperIsWhole DEF now
    <2>3. Chain(p1) /\ Whole(p1) /\ Agrees(p1, L) /\ ListSize(p1) = now /\ Split(p1, start)
      BY <1>1, <2>2, ParseSplits DEF now
    <2> HIDE DEF p1
    <2>4. /\ Chain(p2) /\ Whole(p2) /\ Agrees(p2, L) /\ ListSize(p2) = now
          /\ Split(p2, start + size) /\ Split(p2, start)
      BY <2>2, <2>3, ParseSplits
    <2> HIDE DEF p2
    <2>5. Chain(qs) /\ Whole(qs) /\ Agrees(qs, M) /\ ListSize(qs) = now
      BY <2>4, MarkPages
    <2> HIDE DEF qs
    <2>6. Shows(Compress(qs), now, M)
      BY <2>5, CompressList
    <2>7. now = IF now < start + size THEN start + size ELSE now
      BY <1>1, <1>7
    <2> QED BY <2>1, <2>6, <2>7 DEF now
  <1> QED BY <1>1, <1>4, <1>5, <1>6, <1>7
-----------------------------------------------------------------------------
(***************************************************************************)
(* The invariant, and the step in terms of the page map.                   *)
(***************************************************************************)
Inv == Proper(pages) /\ ListSize(pages) <= MaxSize

LEMMA InvInitially == Init => Inv /\ ListSize(pages) = 0 /\ Covered(pages, TRUE) = {}
  <1> SUFFICES ASSUME Init PROVE Inv /\ ListSize(pages) = 0 /\ Covered(pages, TRUE) = {}
    OBVIOUS
  <1>1. PICK no \in BOOLEAN : no = FALSE
    OBVIOUS
  <1>2. Resized({}, {}, 0, 0, no)
    BY <1>1 DEF Resized
  <1>3. Shows(InitList(0, no), 0, {})
    BY <1>2, OnePage
  <1>5. Proper(pages) /\ ListSize(pages) = 0 /\ Agrees(pages, {})
    BY <1>1, <1>3 DEF Init, Shows
  <1>4. Covered(pages, TRUE) = {}
    BY <1>5, CoveredIs DEF Proper
  <1>6. 0 <= MaxSize
    BY PageListSize
  <1> QED BY <1>5, <1>4, <1>6 DEF Inv

\* What a method returns, as a map.
LEMMA ShownIs ==
    ASSUME NEW ps, NEW size, NEW M, Shows(ps, size, M), M \subseteq 0 .. size - 1
    PROVE  Proper(ps) /\ ListSize(ps) = size /\ Covered(ps, TRUE) = M
  <1>1. Proper(ps) /\ Chain(ps) /\ ListSize(ps) = size /\ Agrees(ps, M)
    BY DEF Shows, Proper
  <1> QED BY <1>1, CoveredIs

\* The bytes of a file.
LEMMA Spans ==
    ASSUME NEW start \in 0 .. MaxSize, NEW size \in 0 .. MaxSize, start + size <= MaxSize
    PROVE  /\ Abstract!Span(start, size) = start .. start + size - 1
           /\ Abstract!Span(0, size) = 0 .. size - 1
  BY PageListSize DEF Abstract!Span, Abstract!Offset

\* The map of a list.
Map(ps) == [size |-> ListSize(ps), loaded |-> Covered(ps, TRUE)]

LEMMA InvFacts ==
    ASSUME Inv
    PROVE  /\ Proper(pages) /\ Chain(pages) /\ ListSize(pages) \in 0 .. MaxSize
           /\ Agrees(pages, Covered(pages, TRUE))
           /\ Covered(pages, TRUE) \subseteq 0 .. ListSize(pages) - 1
  <1>1. Proper(pages) /\ Chain(pages) /\ pages \in Seq(AnyPage)
    BY DEF Inv, Proper, Chain
  <1>2. ListSize(pages) \in Nat
    BY <1>1, SizeOfList
  <1>3. ListSize(pages) \in 0 .. MaxSize
    BY <1>2, PageListSize DEF Inv
  <1> QED BY <1>1, <1>3, AgreesWithCovered

LEMMA ReinitMap ==
    ASSUME NEW size \in 0 .. MaxSize, NEW flag \in BOOLEAN
    PROVE  /\ Proper(InitList(size, flag)) /\ ListSize(InitList(size, flag)) = size
           /\ Map(InitList(size, flag)) = Abstract!MapInit(size, flag)
  <1> DEFINE M == IF flag THEN 0 .. size - 1 ELSE {}
             ps == InitList(size, flag)
  <1>1. size \in Nat /\ 0 \in 0 .. MaxSize /\ 0 + size <= MaxSize
    BY PageListSize
  <1>2. Resized({}, M, 0, size, flag)
    BY <1>1 DEF Resized
  <1>3. Abstract!Span(0, size) = 0 .. size - 1
    BY <1>1, Spans
  <1>4. Abstract!MapInit(size, flag) = [size |-> size, loaded |-> M]
    BY <1>3 DEF Abstract!MapInit
  <1>5. M \subseteq 0 .. size - 1
    OBVIOUS
  <1> HIDE DEF M
  <1>6. Shows(ps, size, M)
    BY <1>1, <1>2, OnePage
  <1> HIDE DEF ps
  <1>7. Proper(ps) /\ ListSize(ps) = size /\ Covered(ps, TRUE) = M
    BY <1>5, <1>6, ShownIs
  <1> QED BY <1>4, <1>7 DEF Map, ps

LEMMA ResizeMap ==
    ASSUME Inv, NEW size \in 0 .. MaxSize, NEW flag \in BOOLEAN
    PROVE  /\ Proper(Resize(pages, size, flag)) /\ ListSize(Resize(pages, size, flag)) = size
           /\ Map(Resize(pages, size, flag)) = Abstract!MapResize(Map(pages), size, flag)
  <1> DEFINE L == Covered(pages, TRUE)
             now == ListSize(pages)
             M == {i \in 0 .. size - 1 : IF i < now THEN i \in L ELSE flag}
             ps == Resize(pages, size, flag)
  <1>1. size \in Nat /\ 0 \in 0 .. MaxSize /\ 0 + size <= MaxSize
    BY PageListSize
  <1>2. Resized(L, M, now, size, flag)
    <2>1. now \in Nat
      BY InvFacts
    <2> HIDE DEF L, now
    <2>2. ASSUME NEW o \in Nat, o < size
          PROVE  o \in M <=> IF o < now THEN o \in L ELSE flag = TRUE
      BY <1>1, <2>1, <2>2
    <2> HIDE DEF M
    <2> QED BY <2>2 DEF Resized
  <1>3. Abstract!Span(0, size) = 0 .. size - 1
    BY <1>1, Spans
  <1>4. Abstract!MapResize(Map(pages), size, flag) = [size |-> size, loaded |-> M]
    <2>1. Map(pages) = [size |-> now, loaded |-> L]
      BY DEF Map
    <2> HIDE DEF now, L
    <2>2. Map(pages).size = now /\ Map(pages).loaded = L
      BY <2>1
    <2> QED BY <1>3, <2>2 DEF Abstract!MapResize
  <1>5. M \subseteq 0 .. size - 1
    OBVIOUS
  <1> HIDE DEF M
  <1>6. Shows(ps, size, M)
    BY <1>1, <1>2, InvFacts, ResizeList
  <1> HIDE DEF ps
  <1>7. Proper(ps) /\ ListSize(ps) = size /\ Covered(ps, TRUE) = M
    BY <1>5, <1>6, ShownIs
  <1> QED BY <1>4, <1>7 DEF Map, ps

LEMMA SetMap ==
    ASSUME Inv, NEW start \in 0 .. MaxSize, NEW size \in 0 .. MaxSize, start + size <= MaxSize,
           NEW flag \in BOOLEAN
    PROVE  /\ Proper(SetPageLoadedStatus(pages, start, size, flag))
           /\ ListSize(SetPageLoadedStatus(pages, start, size, flag)) <= MaxSize
           /\ Map(SetPageLoadedStatus(pages, start, size, flag)) =
                  Abstract!MapSet(Map(pages), start, size, flag)
  <1> DEFINE L == Covered(pages, TRUE)
             now == ListSize(pages)
             new == IF now < start + size THEN start + size ELSE now
             M == IF flag THEN L \cup (start .. start + size - 1)
                          ELSE L \ (start .. start + size - 1)
             ps == SetPageLoadedStatus(pages, start, size, flag)
  <1>1. start \in Nat /\ size \in Nat /\ now \in 0 .. MaxSize /\ L \subseteq 0 .. now - 1
    <2>1. now \in 0 .. MaxSize /\ L \subseteq 0 .. now - 1
      BY InvFacts
    <2> HIDE DEF L, now
    <2> QED BY <2>1, PageListSize
  <1> HIDE DEF L, now
  <1>2. Marked(L, M, start, size, flag)
    BY <1>1 DEF Marked
  <1>3. Abstract!Span(start, size) = start .. start + size - 1
    BY Spans
  <1>4. Abstract!MapSet(Map(pages), start, size, flag) = [size |-> new, loaded |-> M]
    <2>1. Map(pages) = [size |-> now, loaded |-> L]
      BY DEF Map, L, now
    <2>2. Map(pages).size = now /\ Map(pages).loaded = L
      BY <2>1
    <2> QED BY <1>3, <2>2 DEF Abstract!MapSet
  <1>5. M \subseteq 0 .. new - 1 /\ new <= MaxSize
    BY <1>1
  <1> HIDE DEF M
  <1>6. Shows(ps, new, M)
    BY <1>1, <1>2, InvFacts, SetList DEF L, now
  <1> HIDE DEF ps, new
  <1>7. Proper(ps) /\ ListSize(ps) = new /\ Covered(ps, TRUE) = M
    BY <1>5, <1>6, ShownIs
  <1> QED BY <1>4, <1>5, <1>7 DEF Map, ps

\* The invariant and the map after every step.
LEMMA StepMap ==
    ASSUME Inv, [Next]_<< pages, call >>
    PROVE  Inv' /\ [Abstract!Next]_<< Map(pages), call >>
  <1>1. CASE Reinit
    <2>1. PICK size \in 0 .. MaxSize, flag \in BOOLEAN :
              Called("Init", 0, size, flag) /\ pages' = InitList(size, flag)
      BY <1>1 DEF Reinit
    <2>2. Proper(pages') /\ ListSize(pages') = size
      BY <2>1, ReinitMap
    <2>3. Map(pages)' = Abstract!MapInit(size, flag)
      <3>1. Map(pages)' = Map(pages')
        BY DEF Map
      <3> QED BY <2>1, <3>1, ReinitMap
    <2>4. Inv'
      BY <2>2, PageListSize DEF Inv
    <2>5. Abstract!Reinit
      BY <2>1, <2>3 DEF Abstract!Reinit, Abstract!Size, Called, Abstract!Called, Map
    <2> QED BY <2>4, <2>5 DEF Abstract!Next
  <1>2. CASE ResizeTo
    <2>1. PICK size \in 0 .. MaxSize, flag \in BOOLEAN :
              Called("Resize", 0, size, flag) /\ pages' = Resize(pages, size, flag)
      BY <1>2 DEF ResizeTo
    <2>2. Proper(pages') /\ ListSize(pages') = size
      BY <2>1, ResizeMap
    <2>3. Map(pages)' = Abstract!MapResize(Map(pages), size, flag)
      <3>1. Map(pages)' = Map(pages')
        BY DEF Map
      <3> QED BY <2>1, <3>1, ResizeMap
    <2>4. Inv'
      BY <2>2, PageListSize DEF Inv
    <2>5. Abstract!ResizeTo
      BY <2>1, <2>3 DEF Abstract!ResizeTo, Abstract!Size, Called, Abstract!Called, Map
    <2> QED BY <2>4, <2>5 DEF Abstract!Next
  <1>3. CASE SetStatus
    <2>1. PICK start \in 0 .. MaxSize, size \in 0 .. MaxSize, flag \in BOOLEAN :
              /\ start + size <= MaxSize
              /\ Called("SetPageLoadedStatus", start, size, flag)
              /\ pages' = SetPageLoadedStatus(pages, start, size, flag)
      BY <1>3 DEF SetStatus
    <2>2. Proper(pages') /\ ListSize(pages') <= MaxSize
      BY <2>1, SetMap
    <2>3. Map(pages)' = Abstract!MapSet(Map(pages), start, size, flag)
      <3>1. Map(pages)' = Map(pages')
        BY DEF Map
      <3> QED BY <2>1, <3>1, SetMap
    <2>4. Inv'
      BY <2>2 DEF Inv
    <2>5. Abstract!SetStatus
      BY <2>1, <2>3 DEF Abstract!SetStatus, Abstract!Size, Called, Abstract!Called, Map
    <2> QED BY <2>4, <2>5 DEF Abstract!Next
  <1>4. CASE UNCHANGED << pages, call >>
    <2>1. Inv'
      BY <1>4 DEF Inv
    <2>2. UNCHANGED << Map(pages), call >>
      BY <1>4 DEF Map
    <2> QED BY <2>1, <2>2
  <1> QED BY <1>1, <1>2, <1>3, <1>4 DEF Next

LEMMA InvAlways == Spec => []Inv
  <1>1. Init => Inv
    BY InvInitially
  <1>2. Inv /\ [Next]_<< pages, call >> => Inv'
    BY StepMap
  <1> QED BY <1>1, <1>2, PTL DEF Spec
-----------------------------------------------------------------------------
(***************************************************************************)
(* The results.                                                            *)
(***************************************************************************)
(***************************************************************************)
(* Every page lies within the largest file: no method of PageList makes a  *)
(* page that starts or ends beyond it.                                     *)
(***************************************************************************)
THEOREM PageListTypes == Spec => []TypeOK
  <1>1. ASSUME Inv PROVE TypeOK
    <2>1. Chain(pages) /\ pages \in Seq(AnyPage) /\ ListSize(pages) \in 0 .. MaxSize
      BY <1>1, InvFacts, ChainEnds
    <2>2. ASSUME NEW i \in 1 .. Len(pages) PROVE pages[i] \in Page
      <3>1. pages[i] \in AnyPage /\ next(pages[i]) <= ListSize(pages)
        BY <2>1, Ordered
      <3>2. /\ pages[i].offset \in Nat /\ pages[i].bytes \in Nat
            /\ next(pages[i]) = pages[i].offset + pages[i].bytes
        BY <3>1, PageTypes
      <3>3. pages[i].offset \in 0 .. MaxSize /\ pages[i].bytes \in 0 .. MaxSize
        BY <2>1, <3>1, <3>2, PageListSize
      <3> QED BY <3>1, <3>3 DEF AnyPage, Page
    <2>3. pages \in Seq(Page)
      BY <2>1, <2>2
    <2> QED BY <2>1, <2>3 DEF TypeOK
  <1> QED BY <1>1, InvAlways, PTL

(***************************************************************************)
(* The pages tile the file, whatever methods are called with whatever      *)
(* arguments: what each of them relies on, all of them leave behind.       *)
(***************************************************************************)
THEOREM PagesTileTheFile == Spec => []Tiled
  <1>1. ASSUME Inv PROVE Tiled
    <2>1. Chain(pages) /\ Alternates(pages) /\ pages \in Seq(AnyPage) /\ Len(pages) \in Nat
      BY <1>1, ChainEnds DEF Inv, Proper
    <2>2. pages # <<>> => pages[1].offset = 0
      BY <2>1 DEF Chain
    <2>3. ASSUME NEW i \in DOMAIN pages \ {1}
          PROVE  pages[i].offset = next(pages[i - 1]) /\ pages[i].loaded # pages[i - 1].loaded
      <3>1. i - 1 \in 1 .. Len(pages) - 1 /\ i = (i - 1) + 1
        BY <2>1
      <3> QED BY <2>1, <3>1 DEF Chain, Alternates
    <2>4. ASSUME NEW i \in DOMAIN pages, pages[i].bytes = 0 PROVE ListSize(pages) = 0
      <3>1. i \in 1 .. Len(pages)
        BY <2>1
      <3>2. ~Whole(pages)
        BY <3>1, <2>4 DEF Whole
      <3> QED BY <1>1, <2>1, <3>2, ProperIsWhole DEF Inv, Proper
    <2> QED BY <2>2, <2>3, <2>4 DEF Tiled
  <1> QED BY <1>1, InvAlways, PTL

(***************************************************************************)
(* The list of pages implements the page map that FdEntity works with:     *)
(* each method does to the size and to the loaded bytes what the map's     *)
(* operation does with the same arguments.                                 *)
(***************************************************************************)
THEOREM ListImplementsMap == Spec => ImplementsPageMap
  <1>1. Init => Abstract!Init
    <2> SUFFICES ASSUME Init PROVE Abstract!Init
      OBVIOUS
    <2>1. ListSize(pages) = 0 /\ Covered(pages, TRUE) = {}
      BY InvInitially
    <2> QED BY <2>1 DEF Init, Abstract!Init, Abstract!MapInit
  <1>2. Inv /\ [Next]_<< pages, call >> => [Abstract!Next]_<< Map(pages), call >>
    BY StepMap
  <1> QED BY <1>1, <1>2, InvAlways, PTL DEF Spec, ImplementsPageMap, Abstract!Spec, Map
-----------------------------------------------------------------------------
(***************************************************************************)
(* The queries.  Range: the bytes asked for.  In: the bytes of the pages   *)
(* of a list.  Runs: pages that are not loaded, with gaps between them.    *)
(***************************************************************************)
In(ps, o) == \E i \in 1 .. Len(ps) : ps[i].offset <= o /\ o < next(ps[i])

Runs(rs) ==
    /\ rs \in Seq(AnyPage)
    /\ \A i \in 1 .. Len(rs) : 0 < rs[i].bytes /\ rs[i].loaded = FALSE
    /\ \A i \in 1 .. Len(rs) - 1 : next(rs[i]) < rs[i + 1].offset

\* qs is rs with the bytes of c.
Extended(qs, rs, c) ==
    /\ Runs(qs) /\ qs # <<>> /\ next(qs[Len(qs)]) = next(c)
    /\ \A o \in Nat : In(qs, o) <=> In(rs, o) \/ (c.offset <= o /\ o < next(c))

\* The two ways GetUnloadedPages adds a page to the runs it has found.
LEMMA AppendRun ==
    ASSUME NEW rs, Runs(rs), NEW c \in AnyPage, 0 < c.bytes, c.loaded = FALSE,
           rs # <<>> => next(rs[Len(rs)]) < c.offset
    PROVE  Extended(Append(rs, c), rs, c)
  <1> DEFINE n == Len(rs)
             qs == Append(rs, c)
  <1>1. rs \in Seq(AnyPage) /\ n \in Nat
    BY DEF Runs
  <1>2. /\ qs \in Seq(AnyPage) /\ Len(qs) = n + 1 /\ qs # <<>> /\ qs[n + 1] = c
        /\ \A i \in 1 .. n : qs[i] = rs[i]
    BY <1>1, AppendProperties
  <1> HIDE DEF qs
  <1>3. \A i \in 1 .. n + 1 : 0 < qs[i].bytes /\ qs[i].loaded = FALSE
    <2> TAKE i \in 1 .. n + 1
    <2>1. i = n + 1 \/ i \in 1 .. n
      BY <1>1
    <2> QED BY <2>1, <1>2 DEF Runs
  <1>4. ASSUME NEW i \in 1 .. n PROVE next(qs[i]) < qs[i + 1].offset
    <2>1. CASE i = n
      <3>1. rs # <<>>
        BY <1>1, <2>1, EmptySeq
      <3> QED BY <3>1, <2>1, <1>2
    <2>2. CASE i # n
      <3>1. i \in 1 .. n - 1 /\ i + 1 \in 1 .. n
        BY <1>1, <2>2
      <3> QED BY <3>1, <1>2 DEF Runs
    <2> QED BY <2>1, <2>2
  <1>5. (n + 1) - 1 = n /\ Len(qs) - 1 = n
    BY <1>1, <1>2
  <1>6. Runs(qs)
    BY <1>2, <1>3, <1>4, <1>5 DEF Runs
  <1>7. ASSUME NEW o \in Nat PROVE In(qs, o) <=> In(rs, o) \/ (c.offset <= o /\ o < next(c))
    <2>1. \A i : i \in 1 .. n + 1 <=> i \in 1 .. n \/ i = n + 1
      BY <1>1
    <2> QED BY <2>1, <1>2 DEF In
  <1> QED BY <1>2, <1>6, <1>7 DEF Extended, qs

LEMMA GrowRun ==
    ASSUME NEW rs, Runs(rs), NEW c \in AnyPage, 0 < c.bytes, c.loaded = FALSE,
           rs # <<>>, next(rs[Len(rs)]) = c.offset
    PROVE  Extended([rs EXCEPT ![Len(rs)].bytes = @ + c.bytes], rs, c)
  <1> DEFINE n == Len(rs)
             q == fdpage(rs[n].offset, rs[n].bytes + c.bytes, rs[n].loaded)
             qs == [rs EXCEPT ![n] = q]
  <1>1. /\ rs \in Seq(AnyPage) /\ n \in Nat \ {0} /\ n \in 1 .. n
        /\ \A i \in 1 .. n : rs[i] \in AnyPage
    BY EmptySeq DEF Runs
  <1>2. /\ rs[n].offset \in Nat /\ rs[n].bytes \in Nat /\ rs[n].loaded \in BOOLEAN
        /\ c.offset \in Nat /\ c.bytes \in Nat /\ next(c) = c.offset + c.bytes
        /\ next(rs[n]) = rs[n].offset + rs[n].bytes
    BY <1>1, PageTypes
  <1>3. [rs EXCEPT ![n].bytes = @ + c.bytes] = qs
    BY <1>1, <1>2, GrownPage
  <1>4. /\ q \in AnyPage /\ q.offset = rs[n].offset /\ q.bytes = rs[n].bytes + c.bytes
        /\ q.loaded = rs[n].loaded /\ next(q) = next(c)
    BY <1>2 DEF fdpage, AnyPage, next
  <1> HIDE DEF q
  <1>5. /\ qs \in Seq(AnyPage) /\ Len(qs) = n /\ qs # <<>> /\ qs[n] = q
        /\ \A i \in 1 .. n - 1 : qs[i] = rs[i]
    BY <1>1, <1>4
  <1> HIDE DEF qs
  <1>6. \A i \in 1 .. n : 0 < qs[i].bytes /\ qs[i].loaded = FALSE
    <2> TAKE i \in 1 .. n
    <2>1. i = n \/ i \in 1 .. n - 1
      BY <1>1
    <2>2. 0 < q.bytes
      BY <1>2, <1>4
    <2> QED BY <2>1, <2>2, <1>1, <1>4, <1>5 DEF Runs
  <1>7. ASSUME NEW i \in 1 .. n - 1 PROVE next(qs[i]) < qs[i + 1].offset
    <2>1. i + 1 = n \/ i + 1 \in 1 .. n - 1
      BY <1>1
    <2> QED BY <2>1, <1>4, <1>5 DEF Runs
  <1>8. Runs(qs)
    BY <1>5, <1>6, <1>7 DEF Runs
  <1>9. ASSUME NEW o \in Nat PROVE In(qs, o) <=> In(rs, o) \/ (c.offset <= o /\ o < next(c))
    <2>1. \A i : i \in 1 .. n <=> i \in 1 .. n - 1 \/ i = n
      BY <1>1
    <2>2. q.offset <= o /\ o < next(q) <=>
            (rs[n].offset <= o /\ o < next(rs[n])) \/ (c.offset <= o /\ o < next(c))
      <3>1. next(rs[n]) \in Nat /\ next(c) \in Nat /\ rs[n].offset <= next(rs[n]) /\ c.offset <= next(c)
        BY <1>2
      <3>2. next(rs[n]) = c.offset
        OBVIOUS
      <3> HIDE DEF n
      <3>3. c.offset <= o \/ o < c.offset
        BY <1>2
      <3>4. rs[n].offset <= c.offset /\ c.offset <= next(c)
        BY <3>1, <3>2
      <3> QED BY <1>2, <1>4, <3>1, <3>2, <3>3, <3>4
    <2> QED BY <2>1, <2>2, <1>5 DEF In
  <1> QED BY <1>3, <1>4, <1>5, <1>8, <1>9 DEF Extended

\* How far the loops of the queries go.
LEMMA SeenPages ==
    ASSUME NEW ps, Chain(ps), NEW start \in Nat, NEW stop \in Nat
    PROVE  /\ Seen(ps, start, stop) \in 0 .. Len(ps)
           /\ \A i \in 1 .. Seen(ps, start, stop) :
                 i \in 1 .. Len(ps) /\ (start < next(ps[i]) => ps[i].offset < stop)
           /\ \A i \in 1 .. Len(ps) : ~(i <= Seen(ps, start, stop)) => stop <= ps[i].offset
  <1> DEFINE n == Len(ps)
             T == {j \in 1 .. n : start < next(ps[j]) /\ stop <= ps[j].offset}
             out == IF T # {} THEN Min(T) ELSE 0
  <1>1. /\ ps \in Seq(AnyPage) /\ n \in Nat
        /\ \A j \in 1 .. n : ps[j].offset \in Nat /\ next(ps[j]) \in Nat /\ ps[j].offset <= next(ps[j])
    <2>1. ps \in Seq(AnyPage) /\ n \in Nat /\ \A j \in 1 .. n : ps[j] \in AnyPage
      BY ChainEnds
    <2>2. \A j \in 1 .. n : /\ ps[j].offset \in Nat /\ ps[j].bytes \in Nat
                            /\ next(ps[j]) = ps[j].offset + ps[j].bytes
      BY <2>1, PageTypes
    <2> QED BY <2>1, <2>2
  <1>2. /\ out = 0 <=> T = {}
        /\ out # 0 => out \in T /\ \A j \in T : out <= j
    <2>1. T \in SUBSET (1 .. n)
      OBVIOUS
    <2> HIDE DEF T
    <2> QED BY <1>1, <2>1, FirstPage
  <1>3. Seen(ps, start, stop) = IF out = 0 THEN n ELSE out - 1
    BY DEF Seen, SelectInSeq
  <1> HIDE DEF out
  <1>4. CASE out = 0
    <2>1. \A i \in 1 .. n : ~(start < next(ps[i]) /\ stop <= ps[i].offset)
      BY <1>2, <1>4
    <2>2. Seen(ps, start, stop) = n
      BY <1>3, <1>4
    <2> QED BY <1>1, <2>1, <2>2
  <1>5. CASE out # 0
    <2>1. out \in 1 .. n /\ Seen(ps, start, stop) = out - 1 /\ stop <= ps[out].offset
      BY <1>2, <1>3, <1>5
    <2>2. ASSUME NEW i \in 1 .. out - 1 PROVE i \in 1 .. n /\ (start < next(ps[i]) => ps[i].offset < stop)
      <3>1. i \in 1 .. n /\ ~(out <= i)
        BY <1>1, <2>1
      <3>2. i \notin T
        BY <1>2, <1>5, <3>1
      <3> QED BY <1>1, <3>1, <3>2
    <2>3. ASSUME NEW i \in 1 .. n, ~(i <= out - 1) PROVE stop <= ps[i].offset
      <3>1. CASE i = out
        BY <3>1, <2>1
      <3>2. CASE i # out
        <4>1. out < i
          BY <2>1, <2>3, <3>2, <1>1
        <4>2. next(ps[out]) <= ps[i].offset
          BY <2>1, <4>1, Ordered
        <4> QED BY <1>1, <2>1, <4>2
      <3> QED BY <3>1, <3>2
    <2>4. out - 1 \in 0 .. n
      BY <2>1, <1>1
    <2> QED BY <2>1, <2>2, <2>3, <2>4
  <1> QED BY <1>4, <1>5

\* The part of a page that a query is about.
LEMMA ClipPage ==
    ASSUME NEW ps, Chain(ps), Whole(ps) \/ Len(ps) = 1, NEW start \in Nat, NEW stop \in Nat,
           start < stop \/ ListSize(ps) <= start,
           NEW i \in 1 .. Len(ps), start < next(ps[i]), ps[i].offset < stop
    PROVE  /\ Clip(ps[i], start, stop) \in AnyPage /\ 0 < Clip(ps[i], start, stop).bytes
           /\ Clip(ps[i], start, stop).loaded = FALSE
           /\ ps[i].offset <= Clip(ps[i], start, stop).offset
           /\ next(Clip(ps[i], start, stop)) <= next(ps[i])
           /\ \A o \in Nat : Clip(ps[i], start, stop).offset <= o /\ o < next(Clip(ps[i], start, stop))
                 <=> start <= o /\ o < stop /\ ps[i].offset <= o /\ o < next(ps[i])
  <1> DEFINE p == ps[i]
             from == IF p.offset < start THEN start ELSE p.offset
             to == IF next(p) < stop THEN next(p) ELSE stop
             c == Clip(p, start, stop)
  <1>1. p \in AnyPage /\ next(p) <= ListSize(ps)
    BY ChainEnds, Ordered
  <1>2. ListSize(ps) \in Nat /\ ps \in Seq(AnyPage)
    <2>1. ps \in Seq(AnyPage)
      BY ChainEnds
    <2> QED BY <2>1, SizeOfList
  <1>3. p.offset \in Nat /\ p.bytes \in Nat /\ next(p) = p.offset + p.bytes
    BY <1>1, PageTypes
  <1>4. 0 < p.bytes
    <2>1. CASE Whole(ps)
      BY <2>1 DEF Whole
    <2>2. CASE Len(ps) = 1
      <3>1. i = 1 /\ ps # <<>>
        BY <1>2, <2>2
      <3>2. p.offset = 0
        BY <3>1 DEF Chain
      <3> QED BY <1>3, <3>2
    <2> QED BY <2>1, <2>2
  <1>5. start < stop
    BY <1>1, <1>2, <1>3
  <1> HIDE DEF p
  <1>6. from \in Nat /\ to \in Nat /\ from < to /\ p.offset <= from /\ to <= next(p)
    <2>1. start < next(p) /\ p.offset < stop
      BY DEF p
    <2> QED BY <1>3, <1>4, <1>5, <2>1
  <1>7. \A o \in Nat : from <= o /\ o < to <=> start <= o /\ o < stop /\ p.offset <= o /\ o < next(p)
    BY <1>3
  <1>8. c = fdpage(from, to - from, FALSE)
    BY DEF Clip
  <1> HIDE DEF from, to, c
  <1>9. to - from \in Nat /\ 0 < to - from /\ from + (to - from) = to
    BY <1>6
  <1>10. c \in AnyPage /\ c.offset = from /\ c.bytes = to - from /\ c.loaded = FALSE /\ next(c) = to
    BY <1>6, <1>8, <1>9 DEF fdpage, AnyPage, next
  <1>11. /\ c \in AnyPage /\ 0 < c.bytes /\ c.loaded = FALSE /\ p.offset <= c.offset
         /\ next(c) <= next(p)
         /\ \A o \in Nat : c.offset <= o /\ o < next(c)
               <=> start <= o /\ o < stop /\ p.offset <= o /\ o < next(p)
    BY <1>6, <1>7, <1>9, <1>10
  <1> QED BY <1>11 DEF p, c

\* The byte o is asked for and is in one of the first n pages, not loaded.
Missing(ps, n, start, stop, o) ==
    /\ start <= o /\ o < stop
    /\ \E i \in 1 .. n : ps[i].offset <= o /\ o < next(ps[i]) /\ ps[i].loaded = FALSE

LEMMA MissingGrows ==
    ASSUME NEW ps, Chain(ps), NEW start \in Nat, NEW stop \in Nat, NEW i \in 1 .. Len(ps)
    PROVE  \A o \in Nat :
              /\ Missing(ps, i, start, stop, o) <=>
                    \/ Missing(ps, i - 1, start, stop, o)
                    \/ /\ ~Passed(ps[i], start)
                       /\ start <= o /\ o < stop /\ ps[i].offset <= o /\ o < next(ps[i])
              /\ Missing(ps, i - 1, start, stop, o) => o < ps[i].offset
  <1>1. /\ Len(ps) \in Nat
        /\ \A j \in 1 .. Len(ps) : ps[j].offset \in Nat /\ next(ps[j]) \in Nat /\ ps[j].loaded \in BOOLEAN
    <2>1. Len(ps) \in Nat /\ \A j \in 1 .. Len(ps) : ps[j] \in AnyPage
      BY ChainEnds
    <2> QED BY <2>1, PageTypes
  <1> TAKE o \in Nat
  <1>2. \A j : j \in 1 .. i <=> j \in 1 .. i - 1 \/ j = i
    BY <1>1
  <1>3. start <= o /\ o < next(ps[i]) => (ps[i].loaded = FALSE <=> ~Passed(ps[i], start))
    <2>1. ASSUME start <= o, o < next(ps[i]) PROVE ~(next(ps[i]) <= start)
      BY <1>1, <2>1
    <2>2. ps[i].loaded \in BOOLEAN
      BY <1>1
    <2> QED BY <2>1, <2>2 DEF Passed
  <1>4. \A j \in 1 .. i - 1 : o < next(ps[j]) => o < ps[i].offset
    <2> TAKE j \in 1 .. i - 1
    <2>1. j \in 1 .. Len(ps) /\ j < i
      BY <1>1
    <2>2. next(ps[j]) <= ps[i].offset
      BY <2>1, Ordered
    <2> QED BY <1>1, <2>1, <2>2
  <1> QED BY <1>2, <1>3, <1>4 DEF Missing

\* All pages that the loop does not see are beyond the range.
LEMMA MissingAll ==
    ASSUME NEW ps, Chain(ps), NEW start \in Nat, NEW stop \in Nat
    PROVE  \A o \in Nat : Missing(ps, Seen(ps, start, stop), start, stop, o) <=>
              o \in Covered(ps, FALSE) /\ start <= o /\ o < stop
  <1> DEFINE n == Seen(ps, start, stop)
  <1>1. /\ Len(ps) \in Nat /\ ps \in Seq(AnyPage)
        /\ \A j \in 1 .. Len(ps) : ps[j].offset \in Nat
    <2>1. Len(ps) \in Nat /\ ps \in Seq(AnyPage) /\ \A j \in 1 .. Len(ps) : ps[j] \in AnyPage
      BY ChainEnds
    <2> QED BY <2>1, PageTypes
  <1> TAKE o \in Nat
  <1>2. o \in Covered(ps, FALSE) <=>
            \E i \in 1 .. Len(ps) : ps[i].offset <= o /\ o < next(ps[i]) /\ ps[i].loaded = FALSE
    <2>1. PICK no \in BOOLEAN : no = FALSE
      OBVIOUS
    <2> QED BY <1>1, <2>1, InCovered
  <1>3. /\ n \in 0 .. Len(ps) /\ \A i \in 1 .. n : i \in 1 .. Len(ps)
        /\ \A i \in 1 .. Len(ps) : ~(i <= n) => stop <= ps[i].offset
    BY SeenPages
  <1> HIDE DEF n
  <1>4. \A i \in 1 .. Len(ps) : ps[i].offset <= o /\ o < stop => i \in 1 .. n
    <2> SUFFICES ASSUME NEW i \in 1 .. Len(ps), ps[i].offset <= o, o < stop PROVE i \in 1 .. n
      OBVIOUS
    <2>1. ~(stop <= ps[i].offset)
      BY <1>1
    <2> QED BY <2>1, <1>3, <1>1
  <1>5. Missing(ps, n, start, stop, o) <=> o \in Covered(ps, FALSE) /\ start <= o /\ o < stop
    BY <1>2, <1>3, <1>4 DEF Missing
  <1> QED BY <1>5 DEF n

\* The end of the range GetUnloadedPages is asked for.
RangeEnd(ps, start, size) == IF size = 0 /\ start < ListSize(ps) THEN ListSize(ps) ELSE start + size

Clipped(ps, n, start, stop) ==
    \A i \in 1 .. n : Passed(ps[i], start) \/ Clip(ps[i], start, stop) \in AnyPage

\* GetUnloadedPages as a loop.
Adds(f, ps, n, start, size, stop) ==
    /\ f \in [0 .. n -> Seq(AnyPage)]
    /\ f[0] = <<>> /\ GetUnloadedPages(ps, start, size) = f[n]
    /\ \A i \in 1 .. n : f[i] = Add(f[i - 1], ps[i], start, stop)

LEMMA AddLoop ==
    ASSUME NEW ps \in Seq(AnyPage), NEW start \in Nat, NEW size \in Nat, NEW stop,
           stop = RangeEnd(ps, start, size),
           NEW n \in Nat, n = Seen(ps, start, stop),
           Clipped(ps, n, start, stop)
    PROVE  \E f : Adds(f, ps, n, start, size, stop)
  <1> DEFINE A == Seq(AnyPage)
             step == [x \in A |-> [i \in 1 .. n |-> Add(x, ps[i], start, stop)]]
             Rec(f) == f = [i \in 0 .. n |-> IF i = 0 THEN <<>> ELSE Add(f[i - 1], ps[i], start, stop)]
             m == CHOOSE f : Rec(f)
  <1>1. n \in Nat /\ <<>> \in A
    OBVIOUS
  <1>2. ASSUME NEW done \in A, NEW i \in 1 .. n PROVE Add(done, ps[i], start, stop) \in A
    <2> DEFINE c == Clip(ps[i], start, stop)
    <2>1. CASE Passed(ps[i], start)
      BY <2>1 DEF Add
    <2>2. CASE ~Passed(ps[i], start) /\ done # <<>> /\ next(Last(done)) = c.offset
      <3>1. c \in AnyPage
        BY <2>2 DEF Clipped
      <3>2. Add(done, ps[i], start, stop) = [done EXCEPT ![Len(done)].bytes = @ + c.bytes]
        BY <2>2 DEF Add
      <3>3. c.bytes \in Nat
        BY <3>1, PageTypes
      <3> HIDE DEF c
      <3>4. Len(done) \in 1 .. Len(done) /\ done[Len(done)] \in AnyPage
        BY <2>2, EmptySeq
      <3>5. [done[Len(done)] EXCEPT !.bytes = @ + c.bytes] \in AnyPage
        BY <3>3, <3>4, GrownPage
      <3>6. [done EXCEPT ![Len(done)].bytes = @ + c.bytes] \in Seq(AnyPage)
        BY <3>4, <3>5
      <3> QED BY <3>2, <3>6
    <2>3. CASE ~Passed(ps[i], start) /\ ~(done # <<>> /\ next(Last(done)) = c.offset)
      <3>1. c \in AnyPage
        BY <2>3 DEF Clipped
      <3>2. Add(done, ps[i], start, stop) = Append(done, c)
        BY <2>3 DEF Add
      <3> QED BY <3>1, <3>2, AppendProperties
    <2> QED BY <2>1, <2>2, <2>3
  <1>3. step \in [A -> [1 .. n -> A]]
    BY <1>2
  <1>4. PICK g : IsLoop(g, A, <<>>, n, step)
    <2> HIDE DEF A, step, Rec, m
    <2> QED BY <1>1, <1>3, LoopStates
  <1>5. ASSUME NEW i \in 1 .. n PROVE g[i] = Add(g[i - 1], ps[i], start, stop)
    <2>1. i - 1 \in 0 .. n /\ g \in [0 .. n -> A]
      BY <1>1, <1>4 DEF IsLoop
    <2>2. g[i - 1] \in A
      BY <2>1
    <2>3. step[g[i - 1]][i] = Add(g[i - 1], ps[i], start, stop)
      BY <2>2
    <2> HIDE DEF step
    <2> QED BY <1>4, <2>3 DEF IsLoop
  <1>6. Rec(g)
    <2>1. g = [i \in 0 .. n |-> g[i]]
      BY <1>4 DEF IsLoop
    <2>2. ASSUME NEW i \in 0 .. n PROVE g[i] = IF i = 0 THEN <<>> ELSE Add(g[i - 1], ps[i], start, stop)
      <3>1. CASE i = 0
        BY <3>1, <1>4 DEF IsLoop
      <3>2. CASE i # 0
        <4>1. i \in 1 .. n
          BY <3>2, <1>1
        <4> QED BY <4>1, <3>2, <1>5
      <3> QED BY <3>1, <3>2
    <2> QED BY <2>1, <2>2
  <1> HIDE DEF step
  <1>7. Rec(m)
    BY <1>6
  <1>8. GetUnloadedPages(ps, start, size) = m[n]
    BY DEF GetUnloadedPages, RangeEnd
  <1> HIDE DEF m
  <1>9. m[0] = <<>> /\ \A i \in 1 .. n : m[i] = Add(m[i - 1], ps[i], start, stop)
    <2>1. 0 \in 0 .. n /\ \A i \in 1 .. n : i \in 0 .. n /\ i # 0
      BY <1>1
    <2> QED BY <2>1, <1>7
  <1>10. \A i \in 0 .. n : m[i] \in A
    <2> DEFINE T == {i \in 0 .. n : m[i] \in A}
    <2>1. 0 \in T
      <3>1. 0 \in 0 .. n /\ m[0] \in A
        BY <1>1, <1>9
      <3> QED BY <3>1
    <2>2. ASSUME NEW i \in 1 .. n, i - 1 \in T PROVE i \in T
      BY <1>1, <1>2, <1>9, <2>2
    <2> HIDE DEF T
    <2>3. \A i \in 0 .. n : i \in T
      BY <1>1, <2>1, <2>2, Induction
    <2> QED BY <2>3 DEF T
  <1>11. m \in [0 .. n -> A]
    BY <1>7, <1>10
  <1>12. Adds(m, ps, n, start, size, stop)
    BY <1>8, <1>9, <1>11 DEF Adds
  <1> QED BY <1>12


\* GetTotalUnloadedPageSize as a loop.
Counts(f, ps, n, start, size, stop) ==
    /\ f \in [0 .. n -> Nat]
    /\ f[0] = 0 /\ GetTotalUnloadedPageSize(ps, start, size) = f[n]
    /\ \A i \in 1 .. n : f[i] = Count(f[i - 1], ps[i], start, stop)

LEMMA CountLoop ==
    ASSUME NEW ps \in Seq(AnyPage), NEW start \in Nat, NEW size \in Nat, NEW stop,
           stop = start + size, NEW n \in Nat, n = Seen(ps, start, stop),
           Clipped(ps, n, start, stop)
    PROVE  \E f : Counts(f, ps, n, start, size, stop)
  <1> DEFINE A == Nat
             step == [x \in A |-> [i \in 1 .. n |-> Count(x, ps[i], start, stop)]]
             Rec(f) == f = [i \in 0 .. n |-> IF i = 0 THEN 0 ELSE Count(f[i - 1], ps[i], start, stop)]
             m == CHOOSE f : Rec(f)
  <1>1. n \in Nat /\ 0 \in A
    OBVIOUS
  <1>2. ASSUME NEW done \in A, NEW i \in 1 .. n PROVE Count(done, ps[i], start, stop) \in A
    <2>1. CASE Passed(ps[i], start)
      BY <2>1 DEF Count
    <2>2. CASE ~Passed(ps[i], start)
      <3>1. Clip(ps[i], start, stop) \in AnyPage
        BY <2>2 DEF Clipped
      <3>2. Clip(ps[i], start, stop).bytes \in Nat
        BY <3>1, PageTypes
      <3> QED BY <2>2, <3>2 DEF Count
    <2> QED BY <2>1, <2>2
  <1>3. step \in [A -> [1 .. n -> A]]
    BY <1>2
  <1>4. PICK g : IsLoop(g, A, 0, n, step)
    <2> HIDE DEF A, step, Rec, m
    <2> QED BY <1>1, <1>3, LoopStates
  <1>5. ASSUME NEW i \in 1 .. n PROVE g[i] = Count(g[i - 1], ps[i], start, stop)
    <2>1. i - 1 \in 0 .. n /\ g \in [0 .. n -> A]
      BY <1>1, <1>4 DEF IsLoop
    <2>2. g[i - 1] \in A
      BY <2>1
    <2>3. step[g[i - 1]][i] = Count(g[i - 1], ps[i], start, stop)
      BY <2>2
    <2> HIDE DEF step
    <2> QED BY <1>4, <2>3 DEF IsLoop
  <1>6. Rec(g)
    <2>1. g = [i \in 0 .. n |-> g[i]]
      BY <1>4 DEF IsLoop
    <2>2. ASSUME NEW i \in 0 .. n PROVE g[i] = IF i = 0 THEN 0 ELSE Count(g[i - 1], ps[i], start, stop)
      <3>1. CASE i = 0
        BY <3>1, <1>4 DEF IsLoop
      <3>2. CASE i # 0
        <4>1. i \in 1 .. n
          BY <3>2, <1>1
        <4> QED BY <4>1, <3>2, <1>5
      <3> QED BY <3>1, <3>2
    <2> QED BY <2>1, <2>2
  <1> HIDE DEF step
  <1>7. Rec(m)
    BY <1>6
  <1>8. GetTotalUnloadedPageSize(ps, start, size) = m[n]
    BY DEF GetTotalUnloadedPageSize
  <1> HIDE DEF m
  <1>9. m[0] = 0 /\ \A i \in 1 .. n : m[i] = Count(m[i - 1], ps[i], start, stop)
    <2>1. 0 \in 0 .. n /\ \A i \in 1 .. n : i \in 0 .. n /\ i # 0
      BY <1>1
    <2> QED BY <2>1, <1>7
  <1>10. \A i \in 0 .. n : m[i] \in A
    <2> DEFINE T == {i \in 0 .. n : m[i] \in A}
    <2>1. 0 \in T
      <3>1. 0 \in 0 .. n /\ m[0] \in A
        BY <1>1, <1>9
      <3> QED BY <3>1
    <2>2. ASSUME NEW i \in 1 .. n, i - 1 \in T PROVE i \in T
      <3>1. m[i - 1] \in A /\ m[i] = Count(m[i - 1], ps[i], start, stop) /\ i \in 0 .. n
        BY <1>1, <1>9, <2>2
      <3>2. m[i] \in A
        BY <3>1, <1>2
      <3> QED BY <3>1, <3>2
    <2> HIDE DEF T
    <2>3. \A i \in 0 .. n : i \in T
      BY <1>1, <2>1, <2>2, Induction
    <2> QED BY <2>3 DEF T
  <1>11. m \in [0 .. n -> A]
    BY <1>7, <1>10
  <1>12. Counts(m, ps, n, start, size, stop)
    BY <1>8, <1>9, <1>11 DEF Counts
  <1> QED BY <1>12

\* One round of GetUnloadedPages.
LEMMA AddPage ==
    ASSUME NEW ps, Chain(ps), Whole(ps) \/ Len(ps) = 1, NEW start \in Nat, NEW stop \in Nat,
           start < stop \/ ListSize(ps) <= start,
           NEW i \in 1 .. Len(ps), start < next(ps[i]) => ps[i].offset < stop,
           NEW rs, Runs(rs), rs # <<>> => next(rs[Len(rs)]) <= ps[i].offset,
           \A o \in Nat : In(rs, o) <=> Missing(ps, i - 1, start, stop, o)
    PROVE  LET qs == Add(rs, ps[i], start, stop) IN
           /\ Runs(qs) /\ (qs # <<>> => next(qs[Len(qs)]) <= next(ps[i]))
           /\ \A o \in Nat : In(qs, o) <=> Missing(ps, i, start, stop, o)
  <1> DEFINE c == Clip(ps[i], start, stop)
             qs == Add(rs, ps[i], start, stop)
  <1>1. ps[i] \in AnyPage /\ rs \in Seq(AnyPage)
    BY ChainEnds DEF Runs
  <1>2. /\ ps[i].offset \in Nat /\ ps[i].bytes \in Nat /\ next(ps[i]) = ps[i].offset + ps[i].bytes
    BY <1>1, PageTypes
  <1>3. rs # <<>> => Last(rs) = rs[Len(rs)] /\ next(rs[Len(rs)]) \in Nat
    <2>1. rs # <<>> => Last(rs) = rs[Len(rs)] /\ rs[Len(rs)] \in AnyPage
      BY <1>1, EmptySeq DEF Last
    <2> QED BY <2>1, PageTypes
  <1>4. \A o \in Nat : Missing(ps, i, start, stop, o) <=>
            \/ In(rs, o)
            \/ /\ ~Passed(ps[i], start)
               /\ start <= o /\ o < stop /\ ps[i].offset <= o /\ o < next(ps[i])
    BY MissingGrows
  <1>5. CASE Passed(ps[i], start)
    <2>1. qs = rs
      BY <1>5 DEF Add
    <2>2. rs # <<>> => next(rs[Len(rs)]) <= next(ps[i])
      BY <1>2, <1>3
    <2> HIDE DEF qs
    <2> QED BY <1>4, <1>5, <2>1, <2>2 DEF qs
  <1>6. CASE ~Passed(ps[i], start)
    <2>1. start < next(ps[i])
      BY <1>2, <1>6 DEF Passed
    <2>2. /\ c \in AnyPage /\ 0 < c.bytes /\ c.loaded = FALSE /\ ps[i].offset <= c.offset
          /\ next(c) <= next(ps[i])
          /\ \A o \in Nat : c.offset <= o /\ o < next(c)
                <=> start <= o /\ o < stop /\ ps[i].offset <= o /\ o < next(ps[i])
      BY <2>1, ClipPage
    <2>3. qs = IF rs # <<>> /\ next(rs[Len(rs)]) = c.offset
               THEN [rs EXCEPT ![Len(rs)].bytes = @ + c.bytes] ELSE Append(rs, c)
      BY <1>3, <1>6 DEF Add
    <2> HIDE DEF c, qs
    <2>4. Extended(qs, rs, c)
      <3>1. CASE rs # <<>> /\ next(rs[Len(rs)]) = c.offset
        BY <3>1, <2>2, <2>3, GrowRun
      <3>2. CASE ~(rs # <<>> /\ next(rs[Len(rs)]) = c.offset)
        <4>1. c.offset \in Nat
          BY <2>2, PageTypes
        <4>2. rs # <<>> => next(rs[Len(rs)]) < c.offset
          BY <1>2, <1>3, <2>2, <3>2, <4>1
        <4>3. Extended(Append(rs, c), rs, c)
          BY <2>2, <4>2, AppendRun
        <4> QED BY <3>2, <2>3, <4>3
      <3> QED BY <3>1, <3>2
    <2>5. Runs(qs) /\ next(qs[Len(qs)]) <= next(ps[i])
      BY <2>2, <2>4 DEF Extended
    <2>6. \A o \in Nat : In(qs, o) <=> Missing(ps, i, start, stop, o)
      BY <1>4, <1>6, <2>2, <2>4 DEF Extended
    <2> QED BY <2>5, <2>6 DEF qs
  <1> QED BY <1>5, <1>6

\* GetUnloadedPages finds the missing bytes.
LEMMA UnloadedRuns ==
    ASSUME NEW ps, Chain(ps), Whole(ps) \/ Len(ps) = 1, NEW start \in Nat, NEW size \in Nat, NEW stop,
           stop = RangeEnd(ps, start, size)
    PROVE  /\ Runs(GetUnloadedPages(ps, start, size))
           /\ \A o \in Nat : In(GetUnloadedPages(ps, start, size), o) <=>
                 o \in Covered(ps, FALSE) /\ start <= o /\ o < stop
  <1> DEFINE n == Seen(ps, start, stop)
  <1>1. ps \in Seq(AnyPage) /\ Len(ps) \in Nat /\ ListSize(ps) \in Nat
    <2>1. ps \in Seq(AnyPage) /\ Len(ps) \in Nat
      BY ChainEnds
    <2> QED BY <2>1, SizeOfList
  <1>2. stop \in Nat /\ (start < stop \/ ListSize(ps) <= start)
    BY <1>1 DEF RangeEnd
  <1>3. /\ n \in Nat /\ n <= Len(ps)
        /\ \A i \in 1 .. n : i \in 1 .. Len(ps) /\ (start < next(ps[i]) => ps[i].offset < stop)
    <2>1. /\ n \in 0 .. Len(ps)
          /\ \A i \in 1 .. n : i \in 1 .. Len(ps) /\ (start < next(ps[i]) => ps[i].offset < stop)
      BY <1>2, SeenPages
    <2> HIDE DEF n
    <2> QED BY <1>1, <2>1
  <1>4. Clipped(ps, n, start, stop)
    <2> SUFFICES ASSUME NEW i \in 1 .. n, ~Passed(ps[i], start) PROVE Clip(ps[i], start, stop) \in AnyPage
      BY DEF Clipped
    <2>1. i \in 1 .. Len(ps) /\ (start < next(ps[i]) => ps[i].offset < stop)
      BY <1>3
    <2>2. ps[i] \in AnyPage
      BY <2>1, ChainEnds
    <2>3. next(ps[i]) \in Nat
      BY <2>2, PageTypes
    <2>4. start < next(ps[i])
      BY <2>3 DEF Passed
    <2> HIDE DEF n
    <2> QED BY <1>2, <2>1, <2>4, ClipPage
  <1>4a. PICK f : Adds(f, ps, n, start, size, stop)
    <2>1. n = Seen(ps, start, stop)
      OBVIOUS
    <2> HIDE DEF n
    <2> QED BY <1>1, <1>3, <1>4, <2>1, AddLoop
  <1>5. /\ f[0] = <<>> /\ GetUnloadedPages(ps, start, size) = f[n]
        /\ \A i \in 1 .. n : f[i] = Add(f[i - 1], ps[i], start, stop)
    BY <1>4a DEF Adds
  <1> DEFINE Right(i) == /\ Runs(f[i]) /\ (f[i] # <<>> => next(f[i][Len(f[i])]) <= EndOf(ps, i))
                         /\ \A o \in Nat : In(f[i], o) <=> Missing(ps, i, start, stop, o)
             T == {i \in 0 .. n : Right(i)}
  <1>6. 0 \in T
    <2>1. /\ <<>> \in Seq(AnyPage) /\ Len(<<>>) = 0 /\ 1 .. 0 = {} /\ 1 .. 0 - 1 = {} /\ 0 \in 0 .. n
      BY <1>3
    <2>2. Runs(<<>>)
      BY <2>1 DEF Runs
    <2>3. \A o \in Nat : In(<<>>, o) <=> Missing(ps, 0, start, stop, o)
      BY <2>1 DEF In, Missing
    <2> QED BY <1>5, <2>1, <2>2, <2>3
  <1>7. ASSUME NEW i \in 1 .. n, i - 1 \in T PROVE i \in T
    <2>1. i \in 1 .. Len(ps) /\ (start < next(ps[i]) => ps[i].offset < stop) /\ i \in 0 .. n
      BY <1>3
    <2>2. ps[i].offset = EndOf(ps, i - 1) /\ EndOf(ps, i) = next(ps[i])
      BY <2>1, ChainEnds
    <2> DEFINE rs == f[i - 1]
               qs == Add(rs, ps[i], start, stop)
    <2>3. /\ Runs(rs) /\ (rs # <<>> => next(rs[Len(rs)]) <= ps[i].offset)
          /\ \A o \in Nat : In(rs, o) <=> Missing(ps, i - 1, start, stop, o)
      BY <1>7, <2>2
    <2>4. f[i] = qs
      BY <1>5
    <2> HIDE DEF rs, n
    <2>5. /\ Runs(qs) /\ (qs # <<>> => next(qs[Len(qs)]) <= next(ps[i]))
          /\ \A o \in Nat : In(qs, o) <=> Missing(ps, i, start, stop, o)
      BY <1>2, <2>1, <2>3, AddPage
    <2> HIDE DEF qs
    <2> QED BY <2>1, <2>2, <2>4, <2>5
  <1> HIDE DEF T
  <1>8. \A i \in 0 .. n : i \in T
    <2> HIDE DEF n
    <2> QED BY <1>3, <1>6, <1>7, Induction
  <1>9. Right(n)
    <2>1. n \in 0 .. n
      BY <1>3
    <2> QED BY <2>1, <1>8 DEF T
  <1>10. \A o \in Nat : Missing(ps, n, start, stop, o) <=>
              o \in Covered(ps, FALSE) /\ start <= o /\ o < stop
    BY <1>2, MissingAll
  <1> HIDE DEF n
  <1> QED BY <1>5, <1>9, <1>10

\* GetTotalUnloadedPageSize counts the missing bytes.
LEMMA TotalCounts ==
    ASSUME NEW ps, Chain(ps), Whole(ps) \/ Len(ps) = 1, NEW start \in Nat, NEW size \in Nat \ {0}
    PROVE  GetTotalUnloadedPageSize(ps, start, size) =
              Cardinality({o \in Covered(ps, FALSE) : start <= o /\ o < start + size})
  <1> DEFINE stop == start + size
             n == Seen(ps, start, stop)
             U(i) == {o \in 0 .. stop - 1 : Missing(ps, i, start, stop, o)}
  <1>1. ps \in Seq(AnyPage) /\ Len(ps) \in Nat /\ size \in Nat
    BY ChainEnds
  <1>2. stop \in Nat /\ start < stop
    OBVIOUS
  <1> HIDE DEF stop
  <1>3. /\ n \in Nat /\ n <= Len(ps)
        /\ \A i \in 1 .. n : i \in 1 .. Len(ps) /\ (start < next(ps[i]) => ps[i].offset < stop)
    <2>1. /\ n \in 0 .. Len(ps)
          /\ \A i \in 1 .. n : i \in 1 .. Len(ps) /\ (start < next(ps[i]) => ps[i].offset < stop)
      BY <1>2, SeenPages
    <2> HIDE DEF n
    <2> QED BY <1>1, <2>1
  <1>4. n = Seen(ps, start, stop)
    OBVIOUS
  <1> HIDE DEF n
  <1>5. ASSUME NEW i \in 1 .. n, ~Passed(ps[i], start)
        PROVE  LET c == Clip(ps[i], start, stop) IN
               /\ c \in AnyPage /\ ps[i].offset <= c.offset /\ 0 < c.bytes
               /\ \A o \in Nat : c.offset <= o /\ o < next(c)
                     <=> start <= o /\ o < stop /\ ps[i].offset <= o /\ o < next(ps[i])
    <2>1. i \in 1 .. Len(ps) /\ (start < next(ps[i]) => ps[i].offset < stop)
      BY <1>3
    <2>2. ps[i] \in AnyPage
      BY <2>1, ChainEnds
    <2>3. next(ps[i]) \in Nat
      BY <2>2, PageTypes
    <2>4. start < next(ps[i])
      BY <1>5, <2>3 DEF Passed
    <2> QED BY <1>2, <2>1, <2>4, ClipPage
  <1>6. Clipped(ps, n, start, stop)
    BY <1>5 DEF Clipped
  <1>7. PICK f : Counts(f, ps, n, start, size, stop)
    <2>1. stop = start + size
      BY DEF stop
    <2> QED BY <1>1, <1>3, <1>4, <1>6, <2>1, CountLoop
  <1>8. /\ f \in [0 .. n -> Nat] /\ f[0] = 0 /\ GetTotalUnloadedPageSize(ps, start, size) = f[n]
        /\ \A i \in 1 .. n : f[i] = Count(f[i - 1], ps[i], start, stop)
    BY <1>7 DEF Counts
  <1>9. \A i : IsFiniteSet(U(i))
    <2> TAKE i
    <2>1. IsFiniteSet(0 .. stop - 1)
      BY <1>2, FS_Interval
    <2>2. U(i) \in SUBSET (0 .. stop - 1)
      OBVIOUS
    <2> HIDE DEF U
    <2> QED BY <2>1, <2>2, FS_Subset
  <1> DEFINE T == {i \in 0 .. n : f[i] = Cardinality(U(i))}
  <1>10. 0 \in T
    <2>1. 1 .. 0 = {} /\ 0 \in 0 .. n
      BY <1>3
    <2>2. U(0) = {}
      BY <2>1 DEF Missing
    <2> HIDE DEF U
    <2>3. Cardinality(U(0)) = 0
      BY <2>2, FS_EmptySet
    <2> QED BY <2>1, <2>3, <1>8
  <1>11. ASSUME NEW i \in 1 .. n, i - 1 \in T PROVE i \in T
    <2>1. i \in 1 .. Len(ps) /\ i \in 0 .. n /\ i - 1 \in 0 .. n
      BY <1>3
    <2>2. \A o \in Nat :
              /\ Missing(ps, i, start, stop, o) <=>
                    \/ Missing(ps, i - 1, start, stop, o)
                    \/ /\ ~Passed(ps[i], start)
                       /\ start <= o /\ o < stop /\ ps[i].offset <= o /\ o < next(ps[i])
              /\ Missing(ps, i - 1, start, stop, o) => o < ps[i].offset
      BY <1>2, <2>1, MissingGrows
    <2>3. \A o \in 0 .. stop - 1 : o \in Nat
      BY <1>2
    <2>4. f[i - 1] = Cardinality(U(i - 1)) /\ f[i] = Count(f[i - 1], ps[i], start, stop)
      BY <1>8, <1>11
    <2>5. CASE Passed(ps[i], start)
      <3>1. U(i) = U(i - 1)
        BY <2>2, <2>3, <2>5
      <3>2. f[i] = f[i - 1]
        BY <2>4, <2>5 DEF Count
      <3> HIDE DEF U
      <3> QED BY <2>1, <2>4, <3>1, <3>2
    <2>6. CASE ~Passed(ps[i], start)
      <3> DEFINE c == Clip(ps[i], start, stop)
                 C == c.offset .. next(c) - 1
      <3>1. /\ c \in AnyPage /\ ps[i].offset <= c.offset
            /\ \A o \in Nat : c.offset <= o /\ o < next(c)
                  <=> start <= o /\ o < stop /\ ps[i].offset <= o /\ o < next(ps[i])
        BY <1>5, <2>6
      <3>2. f[i] = f[i - 1] + c.bytes
        BY <2>4, <2>6 DEF Count
      <3> HIDE DEF c
      <3>3. c.offset \in Nat /\ c.bytes \in Nat /\ next(c) = c.offset + c.bytes
        BY <3>1, PageTypes
      <3>4. IsFiniteSet(C) /\ Cardinality(C) = c.bytes
        <4>1. c.offset \in Int /\ next(c) - 1 \in Int
          BY <3>3
        <4>2. /\ IsFiniteSet(C)
              /\ Cardinality(C) = IF c.offset > next(c) - 1 THEN 0 ELSE (next(c) - 1) - c.offset + 1
          BY <4>1, FS_Interval
        <4> QED BY <4>2, <3>3
      <3>5. \A o : o \in C <=> o \in Nat /\ c.offset <= o /\ o < next(c)
        BY <3>3
      <3>6. U(i) = U(i - 1) \cup C
        <4>1. \A o : o \in 0 .. stop - 1 <=> o \in Nat /\ o < stop
          BY <1>2
        <4> HIDE DEF C
        <4> QED BY <2>2, <2>6, <3>1, <3>5, <4>1
      <3>7. U(i - 1) \cap C = {}
        <4>1. ps[i].offset \in Nat
          <5>1. ps[i] \in AnyPage
            BY <2>1, ChainEnds
          <5> QED BY <5>1, PageTypes
        <4>2. ASSUME NEW o \in U(i - 1), o \in C PROVE FALSE
          <5>1. o \in Nat /\ o < ps[i].offset /\ c.offset <= o
            BY <2>2, <2>3, <3>5, <4>2
          <5> QED BY <3>1, <3>3, <4>1, <5>1
        <4> QED BY <4>2
      <3> HIDE DEF U, C
      <3>8. Cardinality(U(i - 1) \cap C) = 0
        BY <3>7, FS_EmptySet
      <3>9. Cardinality(U(i)) = Cardinality(U(i - 1)) + Cardinality(C) - Cardinality(U(i - 1) \cap C)
        BY <1>9, <3>4, <3>6, FS_Union
      <3>10. Cardinality(U(i - 1)) \in Nat
        BY <1>9, FS_CardinalityType
      <3>11. f[i] = Cardinality(U(i))
        BY <2>4, <3>2, <3>3, <3>4, <3>8, <3>9, <3>10
      <3> QED BY <2>1, <3>11
    <2> QED BY <2>5, <2>6
  <1>12. U(n) = {o \in Covered(ps, FALSE) : start <= o /\ o < stop}
    <2>1. \A o \in Nat : Missing(ps, n, start, stop, o) <=>
              o \in Covered(ps, FALSE) /\ start <= o /\ o < stop
      BY <1>2, <1>4, MissingAll
    <2>2. \A o : o \in 0 .. stop - 1 <=> o \in Nat /\ o < stop
      BY <1>2
    <2>3. \A o \in Covered(ps, FALSE) : o \in Nat
      <3>1. PICK no \in BOOLEAN : no = FALSE
        OBVIOUS
      <3> QED BY <1>1, <3>1, InCovered
    <2> QED BY <2>1, <2>2, <2>3
  <1> HIDE DEF T
  <1>13. n \in T
    <2>1. \A i \in 0 .. n : i \in T
      BY <1>3, <1>10, <1>11, Induction
    <2> QED BY <1>3, <2>1
  <1> HIDE DEF U
  <1> QED BY <1>8, <1>12, <1>13 DEF T, stop

\* The pages of a file that is not empty.
LEMMA WholePages ==
    ASSUME NEW ps, Chain(ps), Whole(ps)
    PROVE  /\ ps \in Seq(AnyPage) /\ Len(ps) \in Nat /\ ListSize(ps) \in Nat
           /\ \A i \in 1 .. Len(ps) :
                 /\ ps[i].offset \in Nat /\ next(ps[i]) \in Nat /\ ps[i].offset < next(ps[i])
                 /\ end(ps[i]) = next(ps[i]) - 1 /\ ps[i].loaded \in BOOLEAN
           /\ \A o : o \in Covered(ps, FALSE) <=>
                 /\ o \in Nat
                 /\ \E i \in 1 .. Len(ps) : ps[i].offset <= o /\ o < next(ps[i]) /\ ~ps[i].loaded
  <1>1. ps \in Seq(AnyPage) /\ Len(ps) \in Nat /\ \A i \in 1 .. Len(ps) : ps[i] \in AnyPage
    BY ChainEnds
  <1>2. \A i \in 1 .. Len(ps) : /\ ps[i].offset \in Nat /\ ps[i].bytes \in Nat
                                /\ ps[i].loaded \in BOOLEAN
                                /\ next(ps[i]) = ps[i].offset + ps[i].bytes
    BY <1>1, PageTypes
  <1>3. \A i \in 1 .. Len(ps) : 0 < ps[i].bytes
    BY DEF Whole
  <1>4. ASSUME NEW i \in 1 .. Len(ps)
        PROVE  next(ps[i]) \in Nat /\ ps[i].offset < next(ps[i]) /\ end(ps[i]) = next(ps[i]) - 1
    BY <1>2, <1>3 DEF end
  <1>5. ASSUME NEW o
        PROVE  o \in Covered(ps, FALSE) <=>
                 /\ o \in Nat
                 /\ \E i \in 1 .. Len(ps) : ps[i].offset <= o /\ o < next(ps[i]) /\ ~ps[i].loaded
    <2>1. PICK no \in BOOLEAN : no = FALSE
      OBVIOUS
    <2>2. o \in Covered(ps, FALSE) <=>
            /\ o \in Nat
            /\ \E i \in 1 .. Len(ps) : ps[i].offset <= o /\ o < next(ps[i]) /\ ps[i].loaded = FALSE
      BY <1>1, <2>1, InCovered
    <2>3. \A i \in 1 .. Len(ps) : ps[i].loaded = FALSE <=> ~ps[i].loaded
      BY <1>2
    <2> QED BY <2>2, <2>3
  <1>6. ListSize(ps) \in Nat
    BY <1>1, SizeOfList
  <1> QED BY <1>1, <1>2, <1>4, <1>5, <1>6

\* IsPageLoaded says whether a byte of the range is missing.
LEMMA LoadedTells ==
    ASSUME NEW ps, Chain(ps), Whole(ps), NEW start \in Nat, NEW size \in Nat \ {0}
    PROVE  IsPageLoaded(ps, start, size) <=>
              {o \in Covered(ps, FALSE) : start <= o /\ o < start + size} = {}
  <1> DEFINE n == Len(ps)
             past == start + size
             T == {j \in 1 .. n : ~(end(ps[j]) < start) /\ size # 0 /\ start + size <= next(ps[j])}
             stop == IF T # {} THEN Min(T) ELSE 0
             Looked(i) == ~(end(ps[i]) < start) /\ (stop = 0 \/ i <= stop)
  <1>1. /\ ps \in Seq(AnyPage) /\ n \in Nat /\ past \in Nat /\ start < past
        /\ \A i \in 1 .. n :
              /\ ps[i].offset \in Nat /\ next(ps[i]) \in Nat /\ ps[i].offset < next(ps[i])
              /\ end(ps[i]) = next(ps[i]) - 1 /\ ps[i].loaded \in BOOLEAN
    <2>1. past \in Nat /\ start < past
      OBVIOUS
    <2> HIDE DEF past
    <2> QED BY <2>1, WholePages
  <1>2. \A o : o \in Covered(ps, FALSE) <=>
            /\ o \in Nat
            /\ \E i \in 1 .. n : ps[i].offset <= o /\ o < next(ps[i]) /\ ~ps[i].loaded
    BY WholePages
  <1>3. /\ stop = 0 <=> T = {}
        /\ stop # 0 => stop \in T /\ \A j \in T : stop <= j
    <2>1. T \in SUBSET (1 .. n)
      OBVIOUS
    <2> HIDE DEF T
    <2> QED BY <1>1, <2>1, FirstPage
  <1>4. IsPageLoaded(ps, start, size) <=> \A i \in 1 .. n : Looked(i) => ps[i].loaded
    <2>1. DOMAIN ps = 1 .. n
      BY <1>1
    <2> QED BY <2>1 DEF IsPageLoaded, SelectInSeq
  <1> HIDE DEF stop
  <1>5. \A i \in 1 .. n : ~(end(ps[i]) < start) <=> start < next(ps[i])
    BY <1>1
  <1>6. \A j : j \in T <=> j \in 1 .. n /\ start < next(ps[j]) /\ past <= next(ps[j])
    BY <1>5
  <1>7. \A i, j \in 1 .. n : i < j => next(ps[i]) <= ps[j].offset
    BY Ordered
  <1> HIDE DEF T, past
  <1>8. ASSUME NEW i \in 1 .. n, Looked(i), ~ps[i].loaded
        PROVE  \E o \in Covered(ps, FALSE) : start <= o /\ o < past
    <2>1. start < next(ps[i])
      BY <1>5, <1>8
    <2>2. ps[i].offset < past
      <3> SUFFICES ASSUME past <= ps[i].offset PROVE FALSE
        BY <1>1
      <3>1. past - 1 \in Nat /\ start <= past - 1 /\ past - 1 < ps[i].offset
        BY <1>1
      <3>2. past - 1 < ListSize(ps)
        <4>1. next(ps[i]) <= ListSize(ps) /\ ListSize(ps) \in Nat
          BY Ordered, WholePages
        <4> QED BY <1>1, <3>1, <4>1
      <3>3. PICK j \in 1 .. n : ps[j].offset <= past - 1 /\ past - 1 < next(ps[j])
        BY <3>1, <3>2, Locate
      <3>4. past <= next(ps[j]) /\ start < next(ps[j])
        BY <1>1, <3>1, <3>3
      <3>5. j \in T
        BY <1>6, <3>4
      <3>6. stop # 0 /\ stop <= j /\ stop \in Nat
        BY <1>1, <1>3, <1>6, <3>5
      <3>7. i <= stop
        BY <1>8, <3>6
      <3>8. i = j \/ i < j
        BY <1>1, <3>6, <3>7
      <3>9. ps[j].offset < ps[i].offset
        BY <1>1, <3>1, <3>3
      <3>10. CASE i = j
        BY <1>1, <3>9, <3>10
      <3>11. CASE i < j
        <4>1. next(ps[i]) <= ps[j].offset
          BY <1>7, <3>11
        <4> QED BY <1>1, <3>9, <4>1
      <3> QED BY <3>8, <3>10, <3>11
    <2> DEFINE o == IF ps[i].offset < start THEN start ELSE ps[i].offset
    <2>3. o \in Nat /\ ps[i].offset <= o /\ o < next(ps[i]) /\ start <= o /\ o < past
      BY <1>1, <2>1, <2>2
    <2> HIDE DEF o
    <2>4. o \in Covered(ps, FALSE)
      BY <1>2, <1>8, <2>3
    <2> QED BY <2>3, <2>4
  <1>9. ASSUME NEW o \in Covered(ps, FALSE), start <= o, o < past
        PROVE  \E i \in 1 .. n : Looked(i) /\ ~ps[i].loaded
    <2>1. PICK i \in 1 .. n : o \in Nat /\ ps[i].offset <= o /\ o < next(ps[i]) /\ ~ps[i].loaded
      BY <1>2
    <2>2. ~(end(ps[i]) < start)
      BY <1>1, <1>5, <1>9, <2>1
    <2>3. ASSUME stop # 0 PROVE i <= stop
      <3>1. stop \in 1 .. n /\ past <= next(ps[stop])
        BY <1>3, <1>6, <2>3
      <3>2. ASSUME stop < i PROVE FALSE
        <4>1. next(ps[stop]) <= ps[i].offset
          BY <1>7, <3>1, <3>2
        <4>2. next(ps[stop]) \in Nat /\ ps[i].offset \in Nat
          BY <1>1, <3>1
        <4> QED BY <1>1, <1>9, <2>1, <3>1, <4>1, <4>2
      <3> QED BY <1>1, <3>1, <3>2
    <2> QED BY <2>1, <2>2, <2>3
  <1> HIDE DEF Looked
  <1>10. IsPageLoaded(ps, start, size) <=> {o \in Covered(ps, FALSE) : start <= o /\ o < past} = {}
    BY <1>4, <1>8, <1>9
  <1> QED BY <1>10 DEF past

\* FindUnloadedPage finds the page of the first missing byte.
LEMMA FoundFirst ==
    ASSUME NEW ps, Chain(ps), Whole(ps), NEW start \in Nat
    PROVE  LET later == {o \in Covered(ps, FALSE) : start <= o}
               found == FindUnloadedPage(ps, start)
           IN  /\ found = 0 <=> later = {}
               /\ found # 0 => Min(later) \in ps[found].offset .. end(ps[found])
  <1> DEFINE n == Len(ps)
             later == {o \in Covered(ps, FALSE) : start <= o}
             T == {j \in 1 .. n : start <= end(ps[j]) /\ ~ps[j].loaded}
             found == IF T # {} THEN Min(T) ELSE 0
  <1>1. /\ ps \in Seq(AnyPage) /\ n \in Nat
        /\ \A i \in 1 .. n :
              /\ ps[i].offset \in Nat /\ next(ps[i]) \in Nat /\ ps[i].offset < next(ps[i])
              /\ end(ps[i]) = next(ps[i]) - 1 /\ ps[i].loaded \in BOOLEAN
    BY WholePages
  <1>2. \A o : o \in Covered(ps, FALSE) <=>
            /\ o \in Nat
            /\ \E i \in 1 .. n : ps[i].offset <= o /\ o < next(ps[i]) /\ ~ps[i].loaded
    BY WholePages
  <1>3. /\ found = 0 <=> T = {}
        /\ found # 0 => found \in T /\ \A j \in T : found <= j
    <2>1. T \in SUBSET (1 .. n)
      OBVIOUS
    <2> HIDE DEF T
    <2> QED BY <1>1, <2>1, FirstPage
  <1>4. FindUnloadedPage(ps, start) = found
    BY DEF FindUnloadedPage, SelectInSeq
  <1> HIDE DEF found
  <1>5. \A j : j \in T <=> j \in 1 .. n /\ start < next(ps[j]) /\ ~ps[j].loaded
    <2>1. \A j \in 1 .. n : start <= end(ps[j]) <=> start < next(ps[j])
      BY <1>1
    <2> QED BY <2>1
  <1> HIDE DEF T
  <1>6. ASSUME NEW o \in later
        PROVE  \E i \in T : o \in Nat /\ ps[i].offset <= o
    <2>1. PICK i \in 1 .. n : o \in Nat /\ ps[i].offset <= o /\ o < next(ps[i]) /\ ~ps[i].loaded
      BY <1>2
    <2>2. start < next(ps[i])
      BY <1>1, <1>6, <2>1
    <2> QED BY <1>5, <2>1, <2>2
  <1>7. ASSUME found # 0 PROVE later # {} /\ Min(later) \in ps[found].offset .. end(ps[found])
    <2>1. /\ found \in 1 .. n /\ start < next(ps[found]) /\ ~ps[found].loaded
          /\ \A j \in T : found <= j
      BY <1>3, <1>5, <1>7
    <2> DEFINE o == IF ps[found].offset < start THEN start ELSE ps[found].offset
    <2>2. o \in Nat /\ ps[found].offset <= o /\ o < next(ps[found]) /\ start <= o
      BY <1>1, <2>1
    <2> HIDE DEF o
    <2>3. o \in later
      BY <1>2, <2>1, <2>2
    <2>4. later \in SUBSET Nat
      BY <1>2
    <2> HIDE DEF later
    <2>5. \E x \in later : \A y \in later : x <= y
      BY <2>3, <2>4, Least
    <2>6. Min(later) \in later /\ \A y \in later : Min(later) <= y
      BY <2>5 DEF Min
    <2>7. Min(later) \in Nat /\ Min(later) <= o
      BY <2>3, <2>4, <2>6
    <2>8. PICK i \in T : ps[i].offset <= Min(later)
      BY <1>6, <2>6
    <2>9. i \in 1 .. n /\ found <= i
      BY <1>5, <2>1
    <2>10. ps[found].offset <= ps[i].offset
      <3>1. CASE found = i
        BY <1>1, <2>1, <3>1
      <3>2. CASE found # i
        <4>1. found < i
          BY <1>1, <2>1, <2>9, <3>2
        <4>2. next(ps[found]) <= ps[i].offset
          BY <2>1, <2>9, <4>1, Ordered
        <4>3. ps[i].offset \in Nat /\ ps[found].offset < next(ps[found]) /\ next(ps[found]) \in Nat /\ ps[found].offset \in Nat
          BY <1>1, <2>1, <2>9
        <4> QED BY <4>2, <4>3
      <3> QED BY <3>1, <3>2
    <2>11. ps[found].offset \in Nat /\ ps[i].offset \in Nat /\ end(ps[found]) = next(ps[found]) - 1 /\ next(ps[found]) \in Nat
      BY <1>1, <2>1, <2>9
    <2> QED BY <2>2, <2>3, <2>7, <2>8, <2>10, <2>11
  <1>8. ASSUME found = 0 PROVE later = {}
    <2>1. T = {}
      BY <1>3, <1>8
    <2> QED BY <1>6, <2>1
  <1> QED BY <1>4, <1>7, <1>8
-----------------------------------------------------------------------------
(***************************************************************************)
(* GetUnloadedPages hands to FdEntity::Load exactly the missing bytes of   *)
(* the range, in runs that are in order, not empty and not adjacent.       *)
(***************************************************************************)
THEOREM UnloadedPagesAreExact == Spec => []UnloadedPagesExact
  <1>1. ASSUME Inv PROVE UnloadedPagesExact
    <2> SUFFICES ASSUME NEW start \in 0 .. MaxSize, NEW size \in 0 .. MaxSize
                 PROVE  LET stop == IF size = 0 THEN ListSize(pages) ELSE start + size
                            res  == GetUnloadedPages(pages, start, size)
                        IN  /\ Covered(res, FALSE) = {i \in Covered(pages, FALSE) : start <= i /\ i < stop}
                            /\ \A i \in DOMAIN res : res[i].bytes > 0
                            /\ \A i \in DOMAIN res \ {1} : next(res[i - 1]) < res[i].offset
      BY DEF UnloadedPagesExact
    <2> DEFINE stop == IF size = 0 THEN ListSize(pages) ELSE start + size
               to == RangeEnd(pages, start, size)
               res == GetUnloadedPages(pages, start, size)
    <2>1. /\ Chain(pages) /\ (Whole(pages) \/ Len(pages) = 1) /\ start \in Nat /\ size \in Nat
          /\ ListSize(pages) \in Nat /\ pages \in Seq(AnyPage)
      <3>1. Chain(pages) /\ (Whole(pages) \/ Len(pages) = 1) /\ ListSize(pages) \in 0 .. MaxSize
        BY <1>1, InvFacts DEF Proper
      <3> QED BY <3>1, PageListSize DEF Chain
    <2>2. /\ Runs(res)
          /\ \A o \in Nat : In(res, o) <=> o \in Covered(pages, FALSE) /\ start <= o /\ o < to
      BY <2>1, UnloadedRuns
    <2> HIDE DEF res
    <2>4. \A o \in Nat : start <= o /\ o < stop => o < to
      BY <2>1 DEF RangeEnd
    <2>5. \A o \in Nat : start <= o /\ o < to => o < stop
      BY <2>1 DEF RangeEnd
    <2>6. PICK no \in BOOLEAN : no = FALSE
      OBVIOUS
    <2>7. \A o \in Covered(pages, FALSE) : o \in Nat
      BY <2>1, <2>6, InCovered
    <2>8. res \in Seq(AnyPage) /\ Len(res) \in Nat /\ DOMAIN res = 1 .. Len(res)
      BY <2>2 DEF Runs
    <2>9. \A o : o \in Covered(res, FALSE) <=> o \in Nat /\ In(res, o)
      <3>1. \A o : o \in Covered(res, no) <=>
              /\ o \in Nat
              /\ \E i \in 1 .. Len(res) : res[i].offset <= o /\ o < next(res[i]) /\ res[i].loaded = no
        BY <2>8, InCovered
      <3>2. \A i \in 1 .. Len(res) : res[i].loaded = no
        BY <2>2, <2>6 DEF Runs
      <3> QED BY <2>6, <3>1, <3>2 DEF In
    <2> HIDE DEF stop, to
    <2>10. Covered(res, FALSE) = {i \in Covered(pages, FALSE) : start <= i /\ i < stop}
      BY <2>2, <2>4, <2>5, <2>7, <2>9
    <2>11. \A i \in DOMAIN res : res[i].bytes > 0
      <3>1. \A i \in 1 .. Len(res) : 0 < res[i].bytes /\ res[i] \in AnyPage
        BY <2>2, <2>8 DEF Runs
      <3>2. \A i \in 1 .. Len(res) : res[i].bytes \in Nat
        BY <3>1, PageTypes
      <3> QED BY <2>8, <3>1, <3>2
    <2>12. ASSUME NEW i \in DOMAIN res \ {1} PROVE next(res[i - 1]) < res[i].offset
      <3>1. i - 1 \in 1 .. Len(res) - 1 /\ i = (i - 1) + 1
        BY <2>8
      <3> QED BY <2>2, <3>1 DEF Runs
    <2> QED BY <2>10, <2>11, <2>12 DEF stop, res
  <1> QED BY <1>1, InvAlways, PTL

(***************************************************************************)
(* The other queries agree: GetTotalUnloadedPageSize is the number of the  *)
(* missing bytes, IsPageLoaded says whether there are none, and            *)
(* FindUnloadedPage finds the page with the first of them.                 *)
(***************************************************************************)
THEOREM QueriesAgree == Spec => []CountsAgree
  <1>1. ASSUME Inv PROVE CountsAgree
    <2> SUFFICES ASSUME NEW start \in 0 .. MaxSize, NEW size \in 1 .. MaxSize
                 PROVE  LET missing == {i \in Covered(pages, FALSE) : start <= i /\ i < start + size}
                            later   == {i \in Covered(pages, FALSE) : start <= i}
                            found   == FindUnloadedPage(pages, start)
                        IN  /\ GetTotalUnloadedPageSize(pages, start, size) = Cardinality(missing)
                            /\ ListSize(pages) > 0 =>
                                  /\ IsPageLoaded(pages, start, size) = (missing = {})
                                  /\ (found = 0) = (later = {})
                                  /\ found # 0 => Min(later) \in pages[found].offset .. end(pages[found])
      BY DEF CountsAgree
    <2> DEFINE missing == {i \in Covered(pages, FALSE) : start <= i /\ i < start + size}
               later   == {i \in Covered(pages, FALSE) : start <= i}
               found   == FindUnloadedPage(pages, start)
    <2>1. /\ Chain(pages) /\ (Whole(pages) \/ Len(pages) = 1) /\ start \in Nat /\ size \in Nat \ {0}
          /\ ListSize(pages) \in Nat
      <3>1. Chain(pages) /\ (Whole(pages) \/ Len(pages) = 1) /\ ListSize(pages) \in 0 .. MaxSize
        BY <1>1, InvFacts DEF Proper
      <3> QED BY <3>1, PageListSize
    <2>2. GetTotalUnloadedPageSize(pages, start, size) = Cardinality(missing)
      BY <2>1, TotalCounts
    <2>3. ASSUME ListSize(pages) > 0
          PROVE  /\ IsPageLoaded(pages, start, size) <=> missing = {}
                 /\ found = 0 <=> later = {}
                 /\ found # 0 => Min(later) \in pages[found].offset .. end(pages[found])
      <3>1. ListSize(pages) # 0
        BY <2>1, <2>3
      <3>2. Whole(pages)
        BY <2>1, <3>1, ProperIsWhole
      <3>3. IsPageLoaded(pages, start, size) <=> missing = {}
        BY <2>1, <3>2, LoadedTells
      <3>4. /\ found = 0 <=> later = {}
            /\ found # 0 => Min(later) \in pages[found].offset .. end(pages[found])
        BY <2>1, <3>2, FoundFirst
      <3> QED BY <3>3, <3>4
    <2>4. IsPageLoaded(pages, start, size) \in BOOLEAN
      BY DEF IsPageLoaded
    <2> HIDE DEF missing, later, found
    <2>5. ListSize(pages) > 0 => /\ IsPageLoaded(pages, start, size) = (missing = {})
                                 /\ (found = 0) = (later = {})
      BY <2>3, <2>4
    <2> QED BY <2>2, <2>3, <2>5 DEF missing, later, found
  <1> QED BY <1>1, InvAlways, PTL
=============================================================================
