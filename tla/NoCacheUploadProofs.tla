------------------------ MODULE NoCacheUploadProofs ------------------------
(***************************************************************************)
(* Proofs about NoCacheUpload.tla, for files and parts of any size, any    *)
(* set of byte values and any set of faults.                               *)
(*                                                                         *)
(* Files are compared byte for byte.  What has been posted is the          *)
(* beginning of the wanted file, and stays so through every part; that the *)
(* loop over the parts has a value, and what it is, is shown by induction  *)
(* on its rounds.                                                          *)
(***************************************************************************)
EXTENDS NoCacheUpload, SequenceTheorems, FiniteSetTheorems, WellFoundedInduction, TLAPS

USE MaxSizeAssumption, NoCacheSizes, NoCacheFaults

-----------------------------------------------------------------------------
(***************************************************************************)
(* Induction and recursion.                                                *)
(***************************************************************************)
\* A set of numbers that is not empty has a least one.
LEMMA Least ==
    ASSUME NEW T \in SUBSET Nat, T # {}
    PROVE  \E x \in T : \A y \in T : x <= y
  <1>1. PICK x \in T : \A y \in T : << y, x >> \notin OpToRel(<, Nat)
    BY NatLessThanWellFounded, WFMin
  <1>2. \A y \in T : y \in Nat /\ x \in Nat
    OBVIOUS
  <1>3. \A y \in T : ~(y < x)
    BY <1>1, <1>2 DEF OpToRel
  <1> QED BY <1>2, <1>3

\* Induction up to n, for the numbers that are in a set.
LEMMA Induction ==
    ASSUME NEW n \in Nat, NEW T, 0 \in T,
           \A i \in 1 .. n : i - 1 \in T => i \in T
    PROVE  \A i \in 0 .. n : i \in T
  <1> DEFINE Out == {i \in 0 .. n : i \notin T}
  <1> SUFFICES ASSUME Out # {} PROVE FALSE
    OBVIOUS
  <1>1. Out \in SUBSET Nat
    OBVIOUS
  <1>2. PICK x \in Out : \A y \in Out : x <= y
    BY <1>1, Least
  <1>3. x \in 1 .. n
    BY <1>2
  <1>4. x - 1 \in 0 .. n /\ x - 1 < x
    BY <1>3
  <1>5. x - 1 \in T
    BY <1>2, <1>4
  <1> QED BY <1>2, <1>3, <1>5

\* A loop that goes through n elements: its states can be listed.
IsLoop(f, A, base, n, step) ==
    f \in [0 .. n -> A] /\ f[0] = base /\ \A i \in 1 .. n : f[i] = step[f[i - 1]][i]

LEMMA LoopStates ==
    ASSUME NEW A, NEW base \in A, NEW n \in Nat, NEW step \in [A -> [1 .. n -> A]]
    PROVE  \E f : IsLoop(f, A, base, n, step)
  <1> DEFINE States(k, f) == f[0] = base /\ \A i \in 1 .. k : f[i] = step[f[i - 1]][i]
             T == {k \in 0 .. n : \E f \in [0 .. k -> A] : States(k, f)}
  <1>1. 0 \in T
    <2> DEFINE g == [i \in 0 .. 0 |-> base]
    <2>1. g \in [0 .. 0 -> A] /\ States(0, g)
      OBVIOUS
    <2> HIDE DEF g
    <2>2. \E f \in [0 .. 0 -> A] : States(0, f)
      BY <2>1
    <2> QED BY <2>2
  <1>2. ASSUME NEW k \in 1 .. n, k - 1 \in T PROVE k \in T
    <2>1. PICK f \in [0 .. k - 1 -> A] : States(k - 1, f)
      BY <1>2
    <2> DEFINE g == [i \in 0 .. k |-> IF i = k THEN step[f[k - 1]][k] ELSE f[i]]
    <2>2. k - 1 \in 0 .. k - 1 /\ k \in Nat
      OBVIOUS
    <2>3. f[k - 1] \in A
      BY <2>2
    <2>4. step[f[k - 1]] \in [1 .. n -> A]
      BY <2>3
    <2>5. step[f[k - 1]][k] \in A
      BY <2>4
    <2>6. g \in [0 .. k -> A]
      BY <2>5
    <2>7. g[0] = base
      <3>1. 0 \in 0 .. k /\ 0 # k
        OBVIOUS
      <3>2. g[0] = f[0]
        BY <3>1
      <3>3. f[0] = base
        BY <2>1
      <3> HIDE DEF g
      <3> QED BY <3>2, <3>3
    <2>8. ASSUME NEW i \in 1 .. k PROVE g[i] = step[g[i - 1]][i]
      <3>1. CASE i = k
        <4>1. k - 1 \in 0 .. k /\ k - 1 # k /\ k \in 0 .. k
          OBVIOUS
        <4>2. g[k - 1] = f[k - 1] /\ g[k] = step[f[k - 1]][k]
          BY <4>1
        <4> HIDE DEF g
        <4> QED BY <3>1, <4>2
      <3>2. CASE i # k
        <4>1. i \in 1 .. k - 1 /\ i - 1 \in 0 .. k - 1 /\ i - 1 # k /\ i \in 0 .. k /\ i - 1 \in 0 .. k
          BY <3>2
        <4>2. g[i] = f[i] /\ g[i - 1] = f[i - 1]
          BY <4>1, <3>2
        <4>3. f[i] = step[f[i - 1]][i]
          BY <4>1, <2>1
        <4> QED BY <4>2, <4>3
      <3> QED BY <3>1, <3>2
    <2> HIDE DEF g
    <2>9. States(k, g)
      BY <2>7, <2>8
    <2>10. \E h \in [0 .. k -> A] : States(k, h)
      BY <2>6, <2>9
    <2>11. k \in 0 .. n
      OBVIOUS
    <2> HIDE DEF States
    <2> QED BY <2>10, <2>11
  <1> HIDE DEF T
  <1>3. \A i \in 0 .. n : i \in T
    BY <1>1, <1>2, Induction
  <1>4. n \in T
    BY <1>3
  <1>5. PICK f \in [0 .. n -> A] : States(n, f)
    <2> HIDE DEF States
    <2> QED BY <1>4 DEF T
  <1>6. IsLoop(f, A, base, n, step)
    BY <1>5 DEF IsLoop
  <1> QED BY <1>6
-----------------------------------------------------------------------------
(***************************************************************************)
(* Files as sequences of bytes.                                            *)
(***************************************************************************)
\* Two files with the same bytes are the same.
LEMMA SameFile ==
    ASSUME NEW s \in Seq(Bytes), NEW t \in Seq(Bytes), Len(s) = Len(t),
           \A i \in 1 .. Len(s) : s[i] = t[i]
    PROVE  s = t
  BY SeqEqual

LEMMA BytesAt ==
    ASSUME NEW s \in Seq(Bytes), NEW i \in 1 .. Len(s)
    PROVE  s[i] \in Bytes
  BY ElementOfSeq

\* A function on 1 .. n is a file of n bytes.
LEMMA FileOf ==
    ASSUME NEW n \in Nat, NEW f \in [1 .. n -> Bytes]
    PROVE  f \in Seq(Bytes) /\ Len(f) = n
  BY IsASeq

\* ftruncate keeps what is before the new end and adds Zero.
LEMMA FtruncateIs ==
    ASSUME NEW file \in Seq(Bytes), NEW size \in Nat
    PROVE  /\ Ftruncate(file, size) \in Seq(Bytes) /\ Len(Ftruncate(file, size)) = size
           /\ \A i \in 1 .. size : Ftruncate(file, size)[i] = IF i <= Len(file) THEN file[i] ELSE Zero
  <1> DEFINE f == [i \in 1 .. size |-> IF i <= Len(file) THEN file[i] ELSE Zero]
  <1>1. ASSUME NEW i \in 1 .. size
        PROVE  (IF i <= Len(file) THEN file[i] ELSE Zero) \in Bytes
    <2>1. CASE i <= Len(file)
      <3>1. i \in 1 .. Len(file)
        BY <2>1, LenProperties
      <3> QED BY <2>1, <3>1, BytesAt
    <2> QED BY <2>1
  <1>2. f \in [1 .. size -> Bytes]
    BY <1>1
  <1>3. f \in Seq(Bytes) /\ Len(f) = size
    <2> HIDE DEF f
    <2> QED BY <1>2, FileOf
  <1> QED BY <1>3 DEF Ftruncate

\* pwrite puts the bytes at start, after Zero if the file ends before it.
LEMMA PwriteIs ==
    ASSUME NEW file \in Seq(Bytes), NEW start \in Nat, NEW bytes \in Seq(Bytes)
    PROVE  LET f == Pwrite(file, start, bytes)
               stop == start + Len(bytes)
           IN  /\ f \in Seq(Bytes) /\ Len(f) = IF Len(file) < stop THEN stop ELSE Len(file)
               /\ \A i \in 1 .. Len(bytes) : f[start + i] = bytes[i]
               /\ \A i \in 1 .. Len(f) : i <= start \/ stop < i =>
                      f[i] = IF i <= Len(file) THEN file[i] ELSE Zero
  <1> DEFINE stop == start + Len(bytes)
             size == IF Len(file) < stop THEN stop ELSE Len(file)
             at(i) == IF start < i /\ i <= stop THEN bytes[i - start]
                      ELSE IF i <= Len(file) THEN file[i] ELSE Zero
             f == [i \in 1 .. size |-> at(i)]
  <1>1. Len(file) \in Nat /\ Len(bytes) \in Nat
    BY LenProperties
  <1>2. stop \in Nat /\ size \in Nat /\ stop <= size /\ Len(file) <= size
    BY <1>1
  <1>3. ASSUME NEW i \in 1 .. size PROVE at(i) \in Bytes
    <2>1. CASE start < i /\ i <= stop
      <3>1. i - start \in 1 .. Len(bytes)
        BY <1>1, <1>2, <2>1
      <3> QED BY <2>1, <3>1, BytesAt
    <2>2. CASE ~(start < i /\ i <= stop) /\ i <= Len(file)
      <3>1. i \in 1 .. Len(file)
        BY <1>1, <1>2, <2>2
      <3> QED BY <2>2, <3>1, BytesAt
    <2>3. CASE ~(start < i /\ i <= stop) /\ ~ i <= Len(file)
      BY <2>3
    <2> QED BY <2>1, <2>2, <2>3
  <1>4. f \in [1 .. size -> Bytes]
    BY <1>3
  <1>5. f \in Seq(Bytes) /\ Len(f) = size
    <2> HIDE DEF f, size
    <2> QED BY <1>2, <1>4, FileOf
  <1>6. Pwrite(file, start, bytes) = f
    BY DEF Pwrite
  <1>7. ASSUME NEW i \in 1 .. Len(bytes) PROVE f[start + i] = bytes[i]
    <2>1. start + i \in 1 .. size /\ start < start + i /\ start + i <= stop /\ start + i - start = i
      BY <1>1, <1>2
    <2> QED BY <2>1
  <1>8. ASSUME NEW i \in 1 .. size, i <= start \/ stop < i
        PROVE  f[i] = IF i <= Len(file) THEN file[i] ELSE Zero
    <2>1. ~(start < i /\ i <= stop)
      BY <1>1, <1>2, <1>8
    <2> QED BY <2>1
  <1> HIDE DEF f, size
  <1> QED BY <1>5, <1>6, <1>7, <1>8 DEF size

\* An area is what the file has of it.
IsArea(area, file, start, stop) ==
    /\ area \in Seq(Bytes)
    /\ stop <= Len(file) => /\ Len(area) = stop - start
                            /\ \A i \in 1 .. stop - start : area[i] = file[start + i]

LEMMA AreaIs ==
    ASSUME NEW file \in Seq(Bytes), NEW start \in Nat, NEW stop \in Nat, start <= stop
    PROVE  IsArea(Area(file, start, stop), file, start, stop)
  <1> DEFINE last == IF Len(file) < stop THEN Len(file) ELSE stop
  <1>1. Len(file) \in Nat
    BY LenProperties
  <1>2. last \in Nat /\ last <= Len(file) /\ start + 1 \in 1 .. stop + 1
    BY <1>1
  <1>3. Area(file, start, stop) = SubSeq(file, start + 1, last)
    BY DEF Area
  <1>4. SubSeq(file, start + 1, last) = [i \in 1 .. last - start |-> file[start + i]]
    <2>1. SubSeq(file, start + 1, last) = [i \in 1 .. 1 + last - (start + 1) |-> file[i + (start + 1) - 1]]
      BY <1>2
    <2>2. 1 + last - (start + 1) = last - start
      BY <1>2
    <2>3. \A i \in 1 .. last - start : i + (start + 1) - 1 = start + i
      BY <1>2
    <2> QED BY <2>1, <2>2, <2>3
  <1> HIDE DEF last
  <1>5. CASE last <= start
    <2>1. 1 .. last - start = {} /\ 1 .. last - start = 1 .. 0
      BY <1>2, <1>5
    <2>2. Area(file, start, stop) = << >>
      BY <1>3, <1>2, <1>5, SubSeqEmpty
    <2>3. stop <= Len(file) => stop = start
      BY <1>1, <1>2, <1>5 DEF last
    <2> QED BY <2>2, <2>3, EmptySeq DEF IsArea
  <1>6. CASE start < last
    <2> DEFINE f == [i \in 1 .. last - start |-> file[start + i]]
    <2>1. last - start \in Nat
      BY <1>2, <1>6
    <2>2. \A i \in 1 .. last - start : start + i \in 1 .. Len(file)
      BY <1>1, <1>2
    <2>3. f \in [1 .. last - start -> Bytes]
      BY <2>2, BytesAt
    <2>4. f \in Seq(Bytes) /\ Len(f) = last - start
      <3> HIDE DEF f
      <3> QED BY <2>1, <2>3, FileOf
    <2>5. Area(file, start, stop) = f
      BY <1>3, <1>4
    <2>6. stop <= Len(file) => last = stop
      BY <1>1 DEF last
    <2>7. \A i \in 1 .. last - start : f[i] = file[start + i]
      OBVIOUS
    <2> HIDE DEF f
    <2> QED BY <2>4, <2>5, <2>6, <2>7 DEF IsArea
  <1> QED BY <1>2, <1>5, <1>6
-----------------------------------------------------------------------------
(***************************************************************************)
(* What has been posted.                                                   *)
(***************************************************************************)
Part == [body : Seq(Bytes), etag : BOOLEAN]

\* FlattenSeq as the last state of a loop.
Flattens(f, s) ==
    /\ f \in [0 .. Len(s) -> Seq(Bytes)] /\ f[0] = << >> /\ FlattenSeq(s) = f[Len(s)]
    /\ \A i \in 1 .. Len(s) : f[i] = f[i - 1] \o s[i]

LEMMA FlattenIs ==
    ASSUME NEW s \in Seq(Seq(Bytes))
    PROVE  \E f : Flattens(f, s)
  <1> DEFINE A == Seq(Bytes)
             n == Len(s)
             step == [x \in A |-> [i \in 1 .. n |-> x \o s[i]]]
             Rec(f) == f = [i \in 1 .. n |-> IF i = 1 THEN s[i] ELSE f[i - 1] \o s[i]]
             m == CHOOSE f : Rec(f)
  <1>1. n \in Nat /\ << >> \in A
    BY LenProperties, EmptySeq
  <1>2. ASSUME NEW i \in 1 .. n PROVE s[i] \in A
    BY ElementOfSeq
  <1>3. step \in [A -> [1 .. n -> A]]
    <2>1. ASSUME NEW x \in A, NEW i \in 1 .. n PROVE x \o s[i] \in A
      BY <1>2, ConcatProperties
    <2> QED BY <2>1
  <1>4. PICK g : IsLoop(g, A, << >>, n, step)
    <2> HIDE DEF A, n, step
    <2> QED BY <1>1, <1>3, LoopStates
  <1>5. g \in [0 .. n -> A] /\ g[0] = << >>
    BY <1>4 DEF IsLoop
  <1>6. ASSUME NEW i \in 1 .. n PROVE g[i] = g[i - 1] \o s[i]
    <2>1. i - 1 \in 0 .. n
      BY <1>1
    <2>2. g[i - 1] \in A
      BY <1>5, <2>1
    <2>3. step[g[i - 1]][i] = g[i - 1] \o s[i]
      BY <2>2
    <2> HIDE DEF step
    <2> QED BY <1>4, <2>3 DEF IsLoop
  <1>7. CASE n = 0
    <2>1. s = << >>
      BY <1>7, EmptySeq
    <2>2. FlattenSeq(s) = << >>
      BY <1>7, <2>1 DEF FlattenSeq
    <2> QED BY <1>5, <1>6, <1>7, <2>2 DEF Flattens
  <1>8. CASE n # 0
    <2> DEFINE h == [i \in 1 .. n |-> g[i]]
    <2>1. ASSUME NEW i \in 1 .. n PROVE h[i] = IF i = 1 THEN s[i] ELSE h[i - 1] \o s[i]
      <3>1. CASE i = 1
        <4>1. g[1] = g[0] \o s[1]
          <5>1. 1 \in 1 .. n /\ 1 - 1 = 0
            BY <3>1
          <5> QED BY <5>1, <1>6
        <4>2. << >> \o s[1] = s[1]
          BY <3>1, <1>2, ConcatEmptySeq
        <4> QED BY <3>1, <4>1, <4>2, <1>5
      <3>2. CASE i # 1
        <4>1. i - 1 \in 1 .. n
          BY <3>2, <1>1
        <4>2. h[i] = g[i] /\ h[i - 1] = g[i - 1]
          BY <4>1
        <4> HIDE DEF h
        <4> QED BY <3>2, <4>2, <1>6
      <3> QED BY <3>1, <3>2
    <2>2. h = [i \in 1 .. n |-> h[i]]
      OBVIOUS
    <2>3. Rec(h)
      <3> HIDE DEF h
      <3> QED BY <2>1, <2>2
    <2>4. Rec(m)
      <3> HIDE DEF h
      <3> QED BY <2>3
    <2>5. FlattenSeq(s) = m[n]
      BY <1>8 DEF FlattenSeq
    <2> HIDE DEF m, h
    <2>6. \A i \in 1 .. n : m[i] = IF i = 1 THEN s[i] ELSE m[i - 1] \o s[i]
      BY <2>4
    <2> DEFINE T == {0} \cup {i \in 1 .. n : m[i] = g[i]}
    <2>7. ASSUME NEW i \in 1 .. n, i - 1 \in T PROVE i \in T
      <3>1. CASE i = 1
        <4>1. m[1] = s[1]
          BY <3>1, <2>6
        <4>2. h[1] = s[1] /\ h[1] = g[1]
          <5>1. 1 \in 1 .. n
            BY <3>1
          <5> QED BY <5>1, <2>1 DEF h
        <4> QED BY <3>1, <4>1, <4>2
      <3>2. CASE i # 1
        <4>1. i - 1 # 0 /\ m[i - 1] = g[i - 1]
          BY <2>7, <3>2
        <4>2. m[i] = m[i - 1] \o s[i]
          BY <3>2, <2>6
        <4>3. g[i] = g[i - 1] \o s[i]
          BY <1>6
        <4> QED BY <4>1, <4>2, <4>3
      <3> QED BY <3>1, <3>2
    <2>8. \A i \in 0 .. n : i \in T
      <3>1. 0 \in T
        OBVIOUS
      <3> HIDE DEF T
      <3> QED BY <1>1, <2>7, <3>1, Induction
    <2>9. n \in 1 .. n
      BY <1>1, <1>8
    <2>10. m[n] = g[n]
      BY <2>8, <2>9, <1>8
    <2> QED BY <1>5, <1>6, <2>5, <2>10 DEF Flattens
  <1> QED BY <1>7, <1>8

LEMMA BodiesEmpty == Bodies(<< >>) = << >>
  <1>1. [i \in DOMAIN << >> |-> << >>[i].body] = << >>
    OBVIOUS
  <1>2. Len(<< >>) = 0
    OBVIOUS
  <1> QED BY <1>1, <1>2 DEF Bodies, FlattenSeq

\* A part that is appended to the list comes after the others.
LEMMA BodiesAppend ==
    ASSUME NEW list \in Seq(Part), NEW p \in Part
    PROVE  /\ Bodies(list) \in Seq(Bytes)
           /\ Bodies(Append(list, p)) = Bodies(list) \o p.body
  <1> DEFINE all == Append(list, p)
             n == Len(list)
             s == [i \in DOMAIN list |-> list[i].body]
             t == [i \in DOMAIN all |-> all[i].body]
  <1>1. /\ n \in Nat /\ DOMAIN list = 1 .. n /\ p.body \in Seq(Bytes)
        /\ all \in Seq(Part) /\ Len(all) = n + 1 /\ DOMAIN all = 1 .. n + 1
        /\ \A i \in 1 .. n : all[i] = list[i]
        /\ all[n + 1] = p
    BY LenProperties, AppendProperties DEF Part
  <1> HIDE DEF n, all
  <1>2. /\ s \in Seq(Seq(Bytes)) /\ Len(s) = n
    <2>1. \A i \in 1 .. n : list[i] \in Part
      BY <1>1, ElementOfSeq DEF n
    <2>2. s \in [1 .. n -> Seq(Bytes)]
      BY <1>1, <2>1 DEF Part
    <2> HIDE DEF s
    <2> QED BY <1>1, <2>2, IsASeq
  <1>3. t \in Seq(Seq(Bytes)) /\ Len(t) = n + 1
    <2>1. \A i \in 1 .. n + 1 : all[i] \in Part
      BY <1>1, ElementOfSeq
    <2>2. t \in [1 .. n + 1 -> Seq(Bytes)]
      BY <1>1, <2>1 DEF Part
    <2>3. n + 1 \in Nat
      BY <1>1
    <2> HIDE DEF t
    <2> QED BY <2>2, <2>3, IsASeq
  <1>4. (\A i \in 1 .. n : t[i] = s[i]) /\ t[n + 1] = p.body
    <2>1. \A i \in 1 .. n : i \in 1 .. n + 1
      BY <1>1
    <2>2. n + 1 \in 1 .. n + 1
      BY <1>1
    <2> QED BY <1>1, <2>1, <2>2
  <1>5. Bodies(list) = FlattenSeq(s) /\ Bodies(all) = FlattenSeq(t)
    BY DEF Bodies
  <1> HIDE DEF s, t
  <1>6. PICK f : Flattens(f, s)
    BY <1>2, FlattenIs
  <1>7. PICK g : Flattens(g, t)
    BY <1>3, FlattenIs
  <1> DEFINE T == {i \in 0 .. n : g[i] = f[i]}
  <1>8. 0 \in T
    BY <1>1, <1>6, <1>7 DEF Flattens
  <1>9. ASSUME NEW i \in 1 .. n, i - 1 \in T PROVE i \in T
    <2>1. i \in 0 .. n /\ i \in 1 .. Len(s) /\ i \in 1 .. Len(t)
      BY <1>1, <1>2, <1>3
    <2>2. f[i] = f[i - 1] \o s[i] /\ g[i] = g[i - 1] \o t[i]
      BY <1>6, <1>7, <2>1 DEF Flattens
    <2> QED BY <1>4, <1>9, <2>1, <2>2
  <1>10. \A i \in 0 .. n : i \in T
    <2> HIDE DEF T
    <2> QED BY <1>1, <1>8, <1>9, Induction
  <1>11. g[n] = f[n] /\ f[n] = Bodies(list) /\ f[n] \in Seq(Bytes)
    BY <1>1, <1>2, <1>5, <1>6, <1>10 DEF Flattens
  <1>12. g[n + 1] = g[n] \o t[n + 1] /\ g[n + 1] = Bodies(all)
    <2> DEFINE k == n + 1
    <2>1. k \in 1 .. Len(t) /\ k - 1 = n /\ k = Len(t)
      BY <1>1, <1>3
    <2> HIDE DEF k
    <2>2. g[k] = g[k - 1] \o t[k]
      BY <1>7, <2>1 DEF Flattens
    <2>3. g[k] = Bodies(all)
      BY <1>5, <1>7, <2>1 DEF Flattens
    <2>4. g[k] = g[n] \o t[k]
      BY <2>1, <2>2
    <2> QED BY <2>3, <2>4 DEF k
  <1> QED BY <1>4, <1>11, <1>12 DEF all

\* What has been posted is the beginning of a file, up to n.
Covers(list, w, n) ==
    /\ Bodies(list) \in Seq(Bytes) /\ Len(Bodies(list)) = n
    /\ \A i \in 1 .. n : Bodies(list)[i] = w[i]

LEMMA CoversNothing ==
    ASSUME NEW w PROVE Covers(<< >>, w, 0)
  <1>1. << >> \in Seq(Bytes) /\ Len(<< >>) = 0
    BY EmptySeq
  <1>2. \A i \in 1 .. 0 : FALSE
    OBVIOUS
  <1> QED BY <1>1, <1>2, BodiesEmpty DEF Covers

\* The next part extends it.
LEMMA CoversMore ==
    ASSUME NEW list \in Seq(Part), NEW p \in Part, NEW w, NEW n \in Nat, Covers(list, w, n),
           \A i \in 1 .. Len(p.body) : p.body[i] = w[n + i]
    PROVE  Covers(Append(list, p), w, n + Len(p.body))
  <1> DEFINE b == Bodies(list)
             c == Bodies(Append(list, p))
             k == Len(p.body)
  <1>1. b \in Seq(Bytes) /\ c = b \o p.body /\ p.body \in Seq(Bytes)
    BY BodiesAppend DEF Part
  <1>2. k \in Nat /\ Len(b) = n /\ \A i \in 1 .. n : b[i] = w[i]
    BY <1>1, LenProperties DEF Covers
  <1> HIDE DEF b, c, k
  <1>3. /\ c \in Seq(Bytes) /\ Len(c) = n + k
        /\ \A i \in 1 .. n + k : c[i] = IF i <= n THEN b[i] ELSE p.body[i - n]
    BY <1>1, <1>2, ConcatProperties DEF k
  <1>4. ASSUME NEW i \in 1 .. n + k PROVE c[i] = w[i]
    <2>1. CASE i <= n
      BY <1>2, <1>3, <2>1
    <2>2. CASE ~ i <= n
      <3>1. i - n \in 1 .. k /\ n + (i - n) = i
        BY <1>2, <2>2
      <3>2. p.body[i - n] = w[n + (i - n)]
        BY <3>1 DEF k
      <3> QED BY <1>3, <2>2, <3>1, <3>2
    <2> QED BY <2>1, <2>2
  <1> QED BY <1>3, <1>4 DEF Covers, c, k

\* The whole of it is the file.
LEMMA CoversAll ==
    ASSUME NEW list, NEW w \in Seq(Bytes), Covers(list, w, Len(w))
    PROVE  Bodies(list) = w
  BY SameFile DEF Covers
-----------------------------------------------------------------------------
(***************************************************************************)
(* Pages and parts.                                                        *)
(***************************************************************************)
LEMMA MapFacts ==
    ASSUME NEW m \in PageMaps
    PROVE  /\ m.size \in Nat /\ m.size <= MaxSize /\ m.loaded \in SUBSET Offset
           /\ \A i \in m.loaded : i \in Nat /\ i < m.size
           /\ m = [size |-> m.size, loaded |-> m.loaded]
  BY DEF PageMaps, Size, Offset, Span

LEMMA MapOf ==
    ASSUME NEW size \in Nat, size <= MaxSize, NEW loaded, \A i \in loaded : i \in Nat /\ i < size
    PROVE  [size |-> size, loaded |-> loaded] \in PageMaps
  <1>1. size \in Size /\ loaded \in SUBSET Offset /\ loaded \subseteq Span(0, size)
    BY DEF Size, Offset, Span
  <1> QED BY <1>1 DEF PageMaps

\* Offsets of a file.
LEMMA InSpan ==
    ASSUME NEW start \in Nat, NEW len \in Nat, start + len <= MaxSize
    PROVE  \A i : i \in Span(start, len) <=> i \in Nat /\ start <= i /\ i < start + len
  BY DEF Span, Offset

\* A page ends after each of its bytes, and the bytes of it that follow have
\* the same flag.
LEMMA PageEndIs ==
    ASSUME NEW m \in PageMaps, NEW at \in Nat, at < m.size
    PROVE  /\ PageEnd(m, at) \in Nat /\ at < PageEnd(m, at) /\ PageEnd(m, at) <= m.size
           /\ \A i \in at .. PageEnd(m, at) - 1 : i \in m.loaded <=> at \in m.loaded
  <1> DEFINE starts == {i \in PageStarts(m) \cup {m.size} : at < i}
             stop == PageEnd(m, at)
  <1>1. m.size \in Nat /\ m.size <= MaxSize
    BY MapFacts
  <1>2. \A i : i \in PageStarts(m) <=> /\ i \in Nat /\ i < m.size
                                       /\ i = 0 \/ (i \in m.loaded) # (i - 1 \in m.loaded)
    <2>1. \A i : i \in Span(0, m.size) <=> i \in Nat /\ i < m.size
      BY <1>1, InSpan
    <2> QED BY <2>1 DEF PageStarts
  <1>3. starts \in SUBSET Nat /\ m.size \in starts
    BY <1>1, <1>2
  <1>4. PICK x \in starts : \A y \in starts : x <= y
    BY <1>3, Least
  <1>5. stop \in starts /\ \A y \in starts : stop <= y
    BY <1>4 DEF PageEnd, Min
  <1>6. stop \in Nat /\ at < stop /\ stop <= m.size
    BY <1>3, <1>5
  <1>7. \A i \in Nat : at < i /\ i < stop => i \notin starts
    BY <1>5, <1>6
  <1>8. \A i \in Nat : at < i /\ i < stop => (i \in m.loaded) = (i - 1 \in m.loaded)
    <2> SUFFICES ASSUME NEW i \in Nat, at < i, i < stop PROVE (i \in m.loaded) = (i - 1 \in m.loaded)
      OBVIOUS
    <2>1. i \notin PageStarts(m)
      BY <1>7
    <2>2. i < m.size /\ i # 0
      BY <1>1, <1>6
    <2> QED BY <1>2, <2>1, <2>2
  <1> HIDE DEF starts, stop
  <1> DEFINE n == stop - 1 - at
             T == {k \in 0 .. n : at + k \in m.loaded <=> at \in m.loaded}
  <1>9. n \in Nat /\ 0 \in T
    BY <1>6
  <1>10. ASSUME NEW k \in 1 .. n, k - 1 \in T PROVE k \in T
    <2>1. at + k \in Nat /\ at < at + k /\ at + k < stop /\ at + k - 1 = at + (k - 1)
      BY <1>6, <1>9
    <2>2. (at + k \in m.loaded) = (at + k - 1 \in m.loaded)
      BY <1>8, <2>1
    <2>3. at + (k - 1) \in m.loaded <=> at \in m.loaded
      BY <1>10
    <2> QED BY <2>1, <2>2, <2>3
  <1>11. \A k \in 0 .. n : k \in T
    <2> HIDE DEF T, n
    <2> QED BY <1>9, <1>10, Induction
  <1>12. ASSUME NEW i \in at .. stop - 1 PROVE i \in m.loaded <=> at \in m.loaded
    <2>1. i - at \in 0 .. n /\ at + (i - at) = i
      BY <1>6
    <2>2. i - at \in T
      BY <1>11, <2>1
    <2> QED BY <2>1, <2>2
  <1> QED BY <1>6, <1>12 DEF stop

\* A part is in its page.
LEMMA PartEndIs ==
    ASSUME NEW m \in PageMaps, NEW at \in Nat, at < m.size
    PROVE  /\ PartEnd(m, at) \in Nat /\ at < PartEnd(m, at)
           /\ PartEnd(m, at) <= PageEnd(m, at) /\ PartEnd(m, at) <= m.size
           /\ \A i \in at .. PartEnd(m, at) - 1 : i \in m.loaded <=> at \in m.loaded
  <1>1. /\ PageEnd(m, at) \in Nat /\ at < PageEnd(m, at) /\ PageEnd(m, at) <= m.size
        /\ \A i \in at .. PageEnd(m, at) - 1 : i \in m.loaded <=> at \in m.loaded
    BY PageEndIs
  <1>2. MultipartSize \in Nat /\ MinPart \in Nat /\ 0 < MinPart /\ MinPart <= MultipartSize /\ m.size \in Nat
    BY MapFacts
  <1>3. /\ PartEnd(m, at) \in Nat /\ at < PartEnd(m, at) /\ PartEnd(m, at) <= PageEnd(m, at)
    BY <1>1, <1>2 DEF PartEnd
  <1>4. PartEnd(m, at) <= m.size
    BY <1>1, <1>2, <1>3
  <1>5. \A i \in at .. PartEnd(m, at) - 1 : i \in at .. PageEnd(m, at) - 1
    BY <1>1, <1>3
  <1> QED BY <1>1, <1>3, <1>4, <1>5
-----------------------------------------------------------------------------
(***************************************************************************)
(* Entities.                                                               *)
(***************************************************************************)
Entity ==
    [file : Seq(Bytes), map : PageMaps, size_orgmeta : Size, is_modify : BOOLEAN,
     upload_id : BOOLEAN, etaglist : Seq(Part), mp_start : Nat, mp_size : Nat]
Outcome == [ent : Entity, ok : BOOLEAN]

\* All but the pages, their bytes and the flag.
Same(e, f) ==
    /\ f.map.size = e.map.size /\ f.size_orgmeta = e.size_orgmeta /\ f.upload_id = e.upload_id
    /\ f.etaglist = e.etaglist /\ f.mp_start = e.mp_start /\ f.mp_size = e.mp_size

LEMMA OutcomeOf ==
    ASSUME NEW e \in Entity
    PROVE  /\ Ok(e) \in Outcome /\ Ok(e).ok = TRUE /\ Ok(e).ent = e
           /\ Error(e) \in Outcome /\ Error(e).ok = FALSE /\ Error(e).ent = e
  BY DEF Ok, Error, Outcome

LEMMA EntityFacts ==
    ASSUME NEW e \in Entity
    PROVE  /\ e.file \in Seq(Bytes) /\ Len(e.file) \in Nat
           /\ e.map \in PageMaps /\ e.map.size \in Nat /\ e.map.size <= MaxSize
           /\ \A i \in e.map.loaded : i \in Nat /\ i < e.map.size
           /\ e.size_orgmeta \in Nat /\ e.size_orgmeta <= MaxSize
           /\ e.is_modify \in BOOLEAN /\ e.upload_id \in BOOLEAN
           /\ e.etaglist \in Seq(Part) /\ e.mp_start \in Nat /\ e.mp_size \in Nat
  <1>1. e.file \in Seq(Bytes) /\ e.map \in PageMaps /\ e.size_orgmeta \in Size
    BY DEF Entity
  <1>2. Len(e.file) \in Nat
    BY <1>1, LenProperties
  <1>3. e.map.size \in Nat /\ e.map.size <= MaxSize /\ \A i \in e.map.loaded : i \in Nat /\ i < e.map.size
    BY <1>1, MapFacts
  <1> QED BY <1>1, <1>2, <1>3 DEF Entity, Size

\* A bounded set of numbers that is not empty has a greatest one.
LEMMA Greatest ==
    ASSUME NEW n \in Nat, NEW T, T # {}, \A x \in T : x \in Nat /\ x < n
    PROVE  /\ Max(T) \in T
           /\ \A x \in T : x <= Max(T)
  <1> DEFINE U == {n - x : x \in T}
  <1>1. U \in SUBSET Nat /\ U # {}
    OBVIOUS
  <1>2. PICK u \in U : \A v \in U : u <= v
    BY <1>1, Least
  <1>3. PICK x \in T : u = n - x
    BY <1>2
  <1>4. ASSUME NEW y \in T PROVE x >= y
    <2>1. n - y \in U
      OBVIOUS
    <2>2. n - x <= n - y
      BY <1>2, <1>3, <2>1
    <2> QED BY <2>2
  <1>5. \E z \in T : \A y \in T : z >= y
    BY <1>4
  <1>6. Max(T) \in T /\ \A y \in T : Max(T) >= y
    BY <1>5 DEF Max
  <1> QED BY <1>6

\* What Load puts into a file is a byte, that of the object or Zero.
LEMMA FetchedIs ==
    ASSUME object \in Seq(Bytes), NEW e \in Entity, NEW i \in Nat
    PROVE  /\ Fetched(e, i) \in Bytes
           /\ i < e.size_orgmeta /\ i < Len(object) => Fetched(e, i) = object[i + 1]
           /\ ~(i < e.size_orgmeta /\ i < Len(object)) => Fetched(e, i) = Zero
  <1>1. Len(object) \in Nat
    BY LenProperties
  <1>2. i < Len(object) => i + 1 \in 1 .. Len(object)
    BY <1>1
  <1>3. i < Len(object) => object[i + 1] \in Bytes
    BY <1>2, BytesAt
  <1> QED BY <1>3 DEF Fetched

LEMMA CleanIs ==
    ASSUME NEW e \in Entity, NEW filled
    PROVE  LET f == Clean(e, filled)
           IN  /\ f \in Entity /\ Same(e, f) /\ f.map = e.map /\ f.file = e.file
               /\ (\A i \in filled : i < e.size_orgmeta) => f.is_modify = e.is_modify
  <1> DEFINE flag == e.is_modify /\ \A i \in filled : i < e.size_orgmeta
  <1>1. Clean(e, filled) = [e EXCEPT !.is_modify = flag]
    BY DEF Clean
  <1>2. flag \in BOOLEAN /\ ((\A i \in filled : i < e.size_orgmeta) => flag = e.is_modify)
    BY DEF Entity
  <1> HIDE DEF flag
  <1> QED BY <1>1, <1>2 DEF Entity, Same

\* Load fills in unloaded bytes of the file.
LEMMA LoadedIs ==
    ASSUME object \in Seq(Bytes), NEW e \in Entity, NEW bytes, \A i \in bytes : i \in Nat /\ i < e.map.size
    PROVE  LET f == Loaded(e, bytes)
           IN  /\ f \in Entity /\ Same(e, f) /\ f.map.loaded = e.map.loaded \cup bytes
               /\ Len(e.file) <= Len(f.file) /\ \A i \in bytes : i < Len(f.file)
               /\ Len(e.file) <= e.map.size => Len(f.file) <= e.map.size
               /\ \A i \in 1 .. Len(f.file) : i - 1 \in bytes => f.file[i] = Fetched(e, i - 1)
               /\ \A i \in 1 .. Len(f.file) : i - 1 \notin bytes /\ i <= Len(e.file) => f.file[i] = e.file[i]
               /\ (\A i \in bytes : i < e.size_orgmeta) => f.is_modify = e.is_modify
  <1> DEFINE stop == IF bytes = {} THEN 0 ELSE Max(bytes) + 1
             size == IF Len(e.file) < stop THEN stop ELSE Len(e.file)
             at(i) == IF i - 1 \in bytes THEN Fetched(e, i - 1) ELSE Ftruncate(e.file, size)[i]
             file == [i \in 1 .. size |-> at(i)]
             g == [e EXCEPT !.map.loaded = @ \cup bytes, !.file = file]
  <1>1. /\ e.file \in Seq(Bytes) /\ Len(e.file) \in Nat /\ e.map \in PageMaps
        /\ e.map.size \in Nat /\ e.map.size <= MaxSize
        /\ \A i \in e.map.loaded : i \in Nat /\ i < e.map.size
    BY EntityFacts
  <1>2. stop \in Nat /\ stop <= e.map.size /\ \A i \in bytes : i < stop
    <2>1. CASE bytes = {}
      BY <1>1, <2>1
    <2>2. CASE bytes # {}
      <3>1. Max(bytes) \in bytes /\ \A i \in bytes : i <= Max(bytes)
        BY <1>1, <2>2, Greatest
      <3> QED BY <1>1, <2>2, <3>1
    <2> QED BY <2>1, <2>2
  <1>3. size \in Nat /\ Len(e.file) <= size /\ stop <= size /\ (Len(e.file) <= e.map.size => size <= e.map.size)
    BY <1>1, <1>2
  <1> HIDE DEF stop, size
  <1>4. /\ Ftruncate(e.file, size) \in Seq(Bytes) /\ Len(Ftruncate(e.file, size)) = size
        /\ \A i \in 1 .. size : i <= Len(e.file) => Ftruncate(e.file, size)[i] = e.file[i]
    BY <1>1, <1>3, FtruncateIs
  <1>5. ASSUME NEW i \in 1 .. size PROVE at(i) \in Bytes
    <2>1. CASE i - 1 \in bytes
      <3>1. i - 1 \in Nat
        BY <1>3
      <3> QED BY <2>1, <3>1, FetchedIs
    <2>2. CASE i - 1 \notin bytes
      BY <1>4, <2>2, BytesAt
    <2> QED BY <2>1, <2>2
  <1>6. file \in [1 .. size -> Bytes] /\ \A i \in 1 .. size : file[i] = at(i)
    BY <1>5
  <1> HIDE DEF file
  <1>7. file \in Seq(Bytes) /\ Len(file) = size
    BY <1>3, <1>6, FileOf
  <1>8. [size |-> e.map.size, loaded |-> e.map.loaded \cup bytes] \in PageMaps
    BY <1>1, MapOf
  <1>9. /\ g \in Entity /\ Same(e, g) /\ g.map.loaded = e.map.loaded \cup bytes /\ g.file = file
        /\ g.is_modify = e.is_modify
    <2> DEFINE m == [e.map EXCEPT !.loaded = @ \cup bytes]
    <2>1. m = [size |-> e.map.size, loaded |-> e.map.loaded \cup bytes]
      <3> DEFINE all == e.map.loaded \cup bytes
      <3>1. e.map \in [size : Size, loaded : SUBSET Offset] /\ m = [e.map EXCEPT !.loaded = all]
        BY <1>1 DEF PageMaps
      <3> HIDE DEF all, m
      <3>2. m = [size |-> e.map.size, loaded |-> all]
        BY <3>1
      <3> QED BY <3>2 DEF all
    <2>2. g = [e EXCEPT !.map = m, !.file = file]
      OBVIOUS
    <2> HIDE DEF g, m
    <2> QED BY <1>7, <1>8, <2>1, <2>2 DEF Entity, Same
  <1>10. Loaded(e, bytes) = Clean(g, bytes)
    BY DEF Loaded, file, size, stop
  <1> HIDE DEF g
  <1>11. /\ Clean(g, bytes) \in Entity /\ Same(g, Clean(g, bytes))
         /\ Clean(g, bytes).map = g.map /\ Clean(g, bytes).file = g.file
         /\ (\A i \in bytes : i < e.size_orgmeta) => Clean(g, bytes).is_modify = e.is_modify
    BY <1>9, CleanIs DEF Same
  <1>12. Same(e, Clean(g, bytes))
    BY <1>9, <1>11 DEF Same
  <1>13. \A i \in bytes : i < size
    BY <1>2, <1>3
  <1>14. /\ \A i \in 1 .. size : i - 1 \in bytes => file[i] = Fetched(e, i - 1)
         /\ \A i \in 1 .. size : i - 1 \notin bytes /\ i <= Len(e.file) => file[i] = e.file[i]
    BY <1>4, <1>6
  <1> QED BY <1>3, <1>7, <1>9, <1>10, <1>11, <1>12, <1>13, <1>14
-----------------------------------------------------------------------------
(***************************************************************************)
(* Loading and reserving.                                                  *)
(***************************************************************************)
\* Outside an upload the cache file is not longer than the file.
Fits(e) == ~ e.upload_id => Len(e.file) <= e.map.size

LEMMA SpanFact ==
    ASSUME NEW start \in Nat, NEW len \in Nat, NEW i
    PROVE  i \in Span(start, len) <=> i \in Nat /\ i < MaxSize /\ start <= i /\ i < start + len
  BY DEF Span, Offset

LEMMA UnloadedIs ==
    ASSUME NEW m \in PageMaps, NEW start \in Nat, NEW len \in Nat, NEW i
    PROVE  i \in Unloaded(m, start, len)
             <=> i \in Nat /\ i < m.size /\ start <= i /\ i < start + len /\ i \notin m.loaded
  <1>1. m.size \in Nat /\ m.size <= MaxSize
    BY MapFacts
  <1>2. i \in Span(0, m.size) <=> i \in Nat /\ i < MaxSize /\ 0 <= i /\ i < 0 + m.size
    BY <1>1, SpanFact
  <1>3. i \in Span(start, len) <=> i \in Nat /\ i < MaxSize /\ start <= i /\ i < start + len
    BY SpanFact
  <1> QED BY <1>1, <1>2, <1>3 DEF Unloaded

\* Load fills in some of the unloaded bytes of the area, all if it succeeds.
LEMMA LoadIs ==
    ASSUME NEW e, NEW start, NEW len, NEW o \in Load(e, start, len)
    PROVE  \E bytes \in SUBSET Unloaded(e.map, start, len) :
              \/ o = Ok(Loaded(e, bytes)) /\ bytes = Unloaded(e.map, start, len)
              \/ o = Error(Loaded(e, bytes))
  <1> DEFINE todo == Unloaded(e.map, start, len)
             some(f) == {i \in todo : i < f}
  <1>1. CASE o = Ok(Loaded(e, todo))
    BY <1>1
  <1>2. CASE o # Ok(Loaded(e, todo))
    <2>1. o \in {Error(Loaded(e, some(f))) : f \in {i \in todo : i - 1 \notin todo}}
      BY <1>2 DEF Load, Fails
    <2>2. PICK f \in todo : o = Error(Loaded(e, some(f)))
      BY <2>1
    <2>3. some(f) \in SUBSET todo
      OBVIOUS
    <2> QED BY <2>2, <2>3
  <1> QED BY <1>1, <1>2

LEMMA LoadType ==
    ASSUME object \in Seq(Bytes), NEW e \in Entity, Fits(e),
           NEW start \in Nat, NEW len \in Nat, NEW o \in Load(e, start, len)
    PROVE  o \in Outcome /\ Fits(o.ent) /\ Same(e, o.ent)
  <1>1. PICK bytes \in SUBSET Unloaded(e.map, start, len) :
              o = Ok(Loaded(e, bytes)) \/ o = Error(Loaded(e, bytes))
    BY LoadIs
  <1>2. e.map \in PageMaps
    BY EntityFacts
  <1>3. \A i \in bytes : i \in Nat /\ i < e.map.size
    BY <1>2, UnloadedIs
  <1>4. /\ Loaded(e, bytes) \in Entity /\ Same(e, Loaded(e, bytes))
        /\ Len(e.file) <= e.map.size => Len(Loaded(e, bytes).file) <= e.map.size
    BY <1>3, LoadedIs
  <1>5. Fits(Loaded(e, bytes))
    BY <1>4 DEF Fits, Same
  <1> QED BY <1>1, <1>4, <1>5, OutcomeOf

\* What is loaded is in the cache file, and the rest would be fetched.
Shows(e, w) ==
    /\ Len(e.file) = e.map.size
    /\ \A i \in Nat : i < e.map.size =>
          IF i \in e.map.loaded THEN e.file[i + 1] = w[i + 1] ELSE Fetched(e, i) = w[i + 1]

LEMMA FetchedSame ==
    ASSUME NEW e, NEW f, f.size_orgmeta = e.size_orgmeta, NEW i
    PROVE  Fetched(f, i) = Fetched(e, i)
  BY DEF Fetched

LEMMA LoadShows ==
    ASSUME object \in Seq(Bytes), NEW e \in Entity, NEW w, Shows(e, w),
           NEW start \in Nat, NEW len \in Nat, NEW o \in Load(e, start, len)
    PROVE  /\ Shows(o.ent, w) /\ e.map.loaded \subseteq o.ent.map.loaded
           /\ o.ok => \A i \in Nat : i < e.map.size /\ start <= i /\ i < start + len => i \in o.ent.map.loaded
           /\ (\A i \in Nat : i < e.map.size /\ start <= i /\ i \notin e.map.loaded => i < e.size_orgmeta)
                => o.ent.is_modify = e.is_modify
  <1>1. PICK bytes \in SUBSET Unloaded(e.map, start, len) :
              \/ o = Ok(Loaded(e, bytes)) /\ bytes = Unloaded(e.map, start, len)
              \/ o = Error(Loaded(e, bytes))
    BY LoadIs
  <1> DEFINE f == Loaded(e, bytes)
  <1>2. e.map \in PageMaps /\ e.map.size \in Nat
    BY EntityFacts
  <1>3. /\ \A i \in bytes : i \in Nat /\ i < e.map.size /\ start <= i /\ i < start + len /\ i \notin e.map.loaded
        /\ o.ok => \A i \in Nat : i < e.map.size /\ start <= i /\ i < start + len /\ i \notin e.map.loaded => i \in bytes
    <2>1. \A i : i \in Unloaded(e.map, start, len)
                   <=> i \in Nat /\ i < e.map.size /\ start <= i /\ i < start + len /\ i \notin e.map.loaded
      BY <1>2, UnloadedIs
    <2>2. o.ok => bytes = Unloaded(e.map, start, len)
      <3>1. o = Error(Loaded(e, bytes)) => ~ o.ok
        BY DEF Error
      <3> QED BY <1>1, <3>1
    <2> QED BY <1>1, <2>1, <2>2
  <1> HIDE DEF f
  <1>4. /\ f \in Entity /\ Same(e, f) /\ f.map.loaded = e.map.loaded \cup bytes
        /\ Len(e.file) <= Len(f.file)
        /\ Len(e.file) <= e.map.size => Len(f.file) <= e.map.size
        /\ \A i \in 1 .. Len(f.file) : i - 1 \in bytes => f.file[i] = Fetched(e, i - 1)
        /\ \A i \in 1 .. Len(f.file) : i - 1 \notin bytes /\ i <= Len(e.file) => f.file[i] = e.file[i]
        /\ (\A i \in bytes : i < e.size_orgmeta) => f.is_modify = e.is_modify
    BY <1>3, LoadedIs DEF f
  <1>5. Len(f.file) = e.map.size /\ Len(e.file) = e.map.size /\ f.map.size = e.map.size
    <2>1. Len(f.file) \in Nat
      BY <1>4, EntityFacts
    <2> QED BY <1>2, <1>4, <2>1 DEF Shows, Same
  <1>6. ASSUME NEW i \in Nat, i < e.map.size
        PROVE  IF i \in f.map.loaded THEN f.file[i + 1] = w[i + 1] ELSE Fetched(f, i) = w[i + 1]
    <2>1. i + 1 \in 1 .. Len(f.file) /\ i + 1 <= Len(e.file) /\ (i + 1) - 1 = i
      BY <1>2, <1>5, <1>6
    <2>2. IF i \in e.map.loaded THEN e.file[i + 1] = w[i + 1] ELSE Fetched(e, i) = w[i + 1]
      BY <1>6 DEF Shows
    <2>3. CASE i \in bytes
      <3>1. f.file[i + 1] = Fetched(e, i) /\ i \notin e.map.loaded
        BY <1>3, <1>4, <2>1, <2>3
      <3> QED BY <1>4, <2>2, <2>3, <3>1
    <2>4. CASE i \notin bytes
      <3>1. f.file[i + 1] = e.file[i + 1]
        BY <1>4, <2>1, <2>4
      <3>2. Fetched(f, i) = Fetched(e, i)
        BY <1>4, FetchedSame DEF Same
      <3> QED BY <1>4, <2>2, <2>4, <3>1, <3>2
    <2> QED BY <2>3, <2>4
  <1>7. Shows(f, w)
    BY <1>5, <1>6 DEF Shows
  <1>8. o.ent = f
    BY <1>1 DEF Ok, Error, f
  <1> QED BY <1>3, <1>4, <1>7, <1>8

LEMMA DropIs ==
    ASSUME NEW e \in Entity
    PROVE  LET f == DropPages(e)
           IN  /\ f \in Entity /\ Same(e, f) /\ f.map.loaded = {} /\ Len(f.file) = e.map.size
               /\ f.is_modify = e.is_modify
  <1> DEFINE file == Ftruncate(<< >>, e.map.size)
             m == MapInit(e.map.size, FALSE)
  <1>1. e.map.size \in Nat /\ e.map.size <= MaxSize
    BY EntityFacts
  <1>2. file \in Seq(Bytes) /\ Len(file) = e.map.size
    <2>1. << >> \in Seq(Bytes)
      BY EmptySeq
    <2> QED BY <1>1, <2>1, FtruncateIs
  <1>3. m = [size |-> e.map.size, loaded |-> {}]
    BY DEF MapInit
  <1>4. m \in PageMaps
    <2>1. [size |-> e.map.size, loaded |-> {}] \in PageMaps
      <3> DEFINE none == {}
      <3>1. \A i \in none : i \in Nat /\ i < e.map.size
        OBVIOUS
      <3> HIDE DEF none
      <3>2. [size |-> e.map.size, loaded |-> none] \in PageMaps
        BY <1>1, <3>1, MapOf
      <3> QED BY <3>2 DEF none
    <2> QED BY <1>3, <2>1
  <1>5. DropPages(e) = [e EXCEPT !.map = m, !.file = file]
    BY DEF DropPages
  <1> HIDE DEF file, m
  <1>6. m.size = e.map.size /\ m.loaded = {}
    BY <1>3
  <1> DEFINE f == [e EXCEPT !.map = m, !.file = file]
  <1>7. /\ f \in Entity /\ f.map = m /\ f.file = file /\ f.is_modify = e.is_modify
        /\ f.size_orgmeta = e.size_orgmeta /\ f.upload_id = e.upload_id
        /\ f.etaglist = e.etaglist /\ f.mp_start = e.mp_start /\ f.mp_size = e.mp_size
    BY <1>2, <1>4 DEF Entity
  <1> HIDE DEF f
  <1>8. DropPages(e) = f
    BY <1>5 DEF f
  <1> QED BY <1>2, <1>6, <1>7, <1>8 DEF Same

\* Dropping the pages does no harm where the object is what is wanted.
LEMMA DropShows ==
    ASSUME NEW e \in Entity, NEW w, \A i \in Nat : i < e.map.size => Fetched(e, i) = w[i + 1]
    PROVE  Shows(DropPages(e), w)
  <1> DEFINE f == DropPages(e)
  <1>1. Same(e, f) /\ f.map.loaded = {} /\ Len(f.file) = e.map.size
    BY DropIs
  <1>2. \A i : Fetched(f, i) = Fetched(e, i)
    BY <1>1, FetchedSame DEF Same
  <1> HIDE DEF f
  <1>3. Shows(f, w)
    BY <1>1, <1>2 DEF Shows, Same
  <1> QED BY <1>3 DEF f

LEMMA ReservedIs ==
    ASSUME NEW e, NEW f \in Reserved(e) \cup NotReserved(e)
    PROVE  f = e \/ (f = DropPages(e) /\ ~ e.is_modify)
  BY DEF Reserved, NotReserved

LEMMA ReservedType ==
    ASSUME NEW e \in Entity, Fits(e), NEW f \in Reserved(e) \cup NotReserved(e)
    PROVE  f \in Entity /\ Fits(f) /\ Same(e, f) /\ f.is_modify = e.is_modify
  <1>1. CASE f = e
    BY <1>1 DEF Same
  <1>2. CASE f = DropPages(e)
    <2>1. f \in Entity /\ Same(e, f) /\ Len(f.file) = e.map.size /\ f.is_modify = e.is_modify
      BY <1>2, DropIs
    <2>2. e.map.size \in Nat
      BY EntityFacts
    <2> QED BY <2>1, <2>2 DEF Fits, Same
  <1> QED BY <1>1, <1>2, ReservedIs
-----------------------------------------------------------------------------
(***************************************************************************)
(* Posting.                                                                *)
(***************************************************************************)
\* An entity whose list has one more part.
Posted(e, p) == [e EXCEPT !.etaglist = Append(@, p)]

LEMMA PostedIs ==
    ASSUME NEW e \in Entity, NEW p \in Part
    PROVE  LET f == Posted(e, p)
           IN  /\ f \in Entity /\ f.file = e.file /\ f.map = e.map /\ f.size_orgmeta = e.size_orgmeta
               /\ f.is_modify = e.is_modify /\ f.upload_id = e.upload_id
               /\ f.etaglist = Append(e.etaglist, p)
               /\ f.mp_start = e.mp_start /\ f.mp_size = e.mp_size
  <1>1. Append(e.etaglist, p) \in Seq(Part)
    BY EntityFacts, AppendProperties
  <1> DEFINE list == Append(e.etaglist, p)
  <1>2. Posted(e, p) = [e EXCEPT !.etaglist = list]
    BY DEF Posted
  <1> HIDE DEF list
  <1>3. list \in Seq(Part)
    BY <1>1 DEF list
  <1> QED BY <1>2, <1>3 DEF Entity, list

LEMMA PartOf ==
    ASSUME NEW body \in Seq(Bytes), NEW etag \in BOOLEAN
    PROVE  /\ [body |-> body, etag |-> etag] \in Part
           /\ [body |-> body, etag |-> etag].body = body /\ [body |-> body, etag |-> etag].etag = etag
  BY DEF Part

\* A part is in the list whether it was sent or not.
LEMMA PostIs ==
    ASSUME NEW e, NEW body, NEW size, NEW o \in NoCacheMultipartPost(e, body, size)
    PROVE  \/ o = Ok(Posted(e, [body |-> body, etag |-> TRUE])) /\ ~ Len(body) < size
           \/ o = Error(Posted(e, [body |-> body, etag |-> FALSE]))
  BY DEF NoCacheMultipartPost, Fails, Posted

\* The next call is made where one has succeeded.
LEMMA PostPartIs ==
    ASSUME NEW e, NEW m, NEW at, NEW o \in PostPart(e, m, at)
    PROVE  LET stop == PartEnd(m, at)
               f == Clean(e, at .. stop - 1)
           IN  \/ at \in m.loaded /\ o \in NoCacheMultipartPost(e, Area(e.file, at, stop), stop - at)
               \/ at \notin m.loaded /\ o = Error(e)
               \/ /\ at \notin m.loaded
                  /\ o \in NoCacheMultipartPost(f, [i \in 1 .. stop - at |-> Fetched(f, at + i - 1)], stop - at)
  <1> DEFINE stop == PartEnd(m, at)
             get == {Ok(Clean(e, at .. stop - 1))} \cup Fails({Error(e)})
             post(g) == NoCacheMultipartPost(g, [i \in 1 .. stop - at |-> Fetched(g, at + i - 1)], stop - at)
  <1>1. CASE at \in m.loaded
    BY <1>1 DEF PostPart
  <1>2. CASE at \notin m.loaded
    <2>1. o \in UNION {IF r.ok THEN post(r.ent) ELSE {r} : r \in get}
      BY <1>2 DEF PostPart, Then
    <2>2. PICK r \in get : o \in IF r.ok THEN post(r.ent) ELSE {r}
      BY <2>1
    <2>3. r = Ok(Clean(e, at .. stop - 1)) \/ r = Error(e)
      BY <2>2 DEF Fails
    <2>4. CASE r = Ok(Clean(e, at .. stop - 1))
      <3>1. r.ok /\ r.ent = Clean(e, at .. stop - 1)
        BY <2>4 DEF Ok
      <3>2. o \in post(Clean(e, at .. stop - 1))
        BY <2>2, <3>1
      <3> QED BY <1>2, <3>2
    <2>5. CASE r = Error(e)
      <3>1. ~ r.ok
        BY <2>5 DEF Error
      <3>2. o = Error(e)
        BY <2>2, <2>5, <3>1
      <3> QED BY <1>2, <3>2
    <2> QED BY <2>3, <2>4, <2>5
  <1> QED BY <1>1, <1>2
\* No part is empty.
NoneEmpty(list) == \A i \in DOMAIN list : list[i].body # << >>

LEMMA NoneEmptyMore ==
    ASSUME NEW list \in Seq(Part), NoneEmpty(list), NEW p \in Part, Len(p.body) # 0
    PROVE  NoneEmpty(Append(list, p))
  <1> DEFINE all == Append(list, p)
  <1>1. /\ Len(list) \in Nat /\ DOMAIN list = 1 .. Len(list)
        /\ DOMAIN all = 1 .. Len(list) + 1 /\ all[Len(list) + 1] = p
        /\ \A i \in 1 .. Len(list) : all[i] = list[i]
    BY LenProperties, AppendProperties
  <1>2. p.body # << >>
    BY EmptySeq
  <1> HIDE DEF all
  <1>3. ASSUME NEW i \in 1 .. Len(list) + 1 PROVE all[i].body # << >>
    <2>1. CASE i \in 1 .. Len(list)
      BY <1>1, <2>1 DEF NoneEmpty
    <2>2. CASE i \notin 1 .. Len(list)
      <3>1. i = Len(list) + 1
        BY <1>1, <2>2
      <3> QED BY <1>1, <1>2, <3>1
    <2> QED BY <2>1, <2>2
  <1>4. NoneEmpty(all)
    BY <1>1, <1>3 DEF NoneEmpty
  <1> QED BY <1>4 DEF all

\* What the loop over the parts leaves alone.
InLoop(e, f) ==
    /\ f \in Entity /\ f.file = e.file /\ f.map.size = e.map.size /\ f.size_orgmeta = e.size_orgmeta
    /\ f.upload_id = e.upload_id /\ f.mp_start = e.mp_start /\ f.mp_size = e.mp_size

\* The body of a part that comes from the object.
LEMMA BodyIs ==
    ASSUME object \in Seq(Bytes), NEW e \in Entity, NEW at \in Nat, NEW stop \in Nat, at < stop
    PROVE  LET body == [i \in 1 .. stop - at |-> Fetched(e, at + i - 1)]
           IN  /\ body \in Seq(Bytes) /\ Len(body) = stop - at
               /\ \A i \in 1 .. stop - at : body[i] = Fetched(e, at + i - 1)
  <1> DEFINE n == stop - at
             at_(i) == Fetched(e, at + i - 1)
             body == [i \in 1 .. n |-> at_(i)]
  <1>1. ASSUME NEW i \in 1 .. n PROVE at_(i) \in Bytes
    <2>1. at + i - 1 \in Nat
      OBVIOUS
    <2> QED BY <2>1, FetchedIs
  <1>2. n \in Nat
    OBVIOUS
  <1> HIDE DEF n, at_
  <1>3. body \in [1 .. n -> Bytes] /\ \A i \in 1 .. n : body[i] = at_(i)
    BY <1>1
  <1> HIDE DEF body
  <1>4. body \in Seq(Bytes) /\ Len(body) = n
    BY <1>2, <1>3, FileOf
  <1> QED BY <1>3, <1>4 DEF body, n, at_

\* What a call that posts a part returns.
PostResult(e, body, size, o) ==
    /\ o \in Outcome /\ o.ent.map = e.map /\ InLoop(e, o.ent) /\ o.ent.is_modify = e.is_modify
    /\ o.ent.etaglist = Append(e.etaglist, [body |-> body, etag |-> o.ok])
    /\ o.ok => ~ Len(body) < size

LEMMA PostType ==
    ASSUME NEW e \in Entity, NEW body \in Seq(Bytes), NEW size,
           NEW o \in NoCacheMultipartPost(e, body, size)
    PROVE  PostResult(e, body, size, o)
  <1> DEFINE f(etag) == Posted(e, [body |-> body, etag |-> etag])
  <1>1. ASSUME NEW etag \in BOOLEAN
        PROVE  /\ f(etag) \in Entity /\ InLoop(e, f(etag)) /\ f(etag).map = e.map
               /\ f(etag).is_modify = e.is_modify
               /\ f(etag).etaglist = Append(e.etaglist, [body |-> body, etag |-> etag])
    <2> DEFINE p == [body |-> body, etag |-> etag]
    <2>1. p \in Part
      BY PartOf
    <2> HIDE DEF p
    <2>2. /\ Posted(e, p) \in Entity /\ InLoop(e, Posted(e, p)) /\ Posted(e, p).map = e.map
          /\ Posted(e, p).is_modify = e.is_modify
          /\ Posted(e, p).etaglist = Append(e.etaglist, p)
      BY <2>1, PostedIs DEF InLoop
    <2> QED BY <2>2 DEF p
  <1> HIDE DEF f
  <1>2. CASE o = Ok(f(TRUE)) /\ ~ Len(body) < size
    BY <1>1, <1>2, OutcomeOf DEF PostResult
  <1>3. CASE o = Error(f(FALSE))
    BY <1>1, <1>3, OutcomeOf DEF PostResult
  <1> QED BY <1>2, <1>3, PostIs DEF f

LEMMA PostPartType ==
    ASSUME object \in Seq(Bytes), NEW e \in Entity, NEW f, InLoop(e, f),
           NEW at \in Nat, at < e.map.size, NEW o \in PostPart(f, e.map, at)
    PROVE  o \in Outcome /\ InLoop(e, o.ent) /\ o.ent.map = f.map
  <1> DEFINE m == e.map
             stop == PartEnd(m, at)
             c == Clean(f, at .. stop - 1)
             body == [i \in 1 .. stop - at |-> Fetched(c, at + i - 1)]
  <1>1. m \in PageMaps
    BY EntityFacts
  <1>2. stop \in Nat /\ at < stop
    BY <1>1, PartEndIs
  <1>3. f \in Entity /\ f.file \in Seq(Bytes)
    BY EntityFacts DEF InLoop
  <1>4. c \in Entity /\ InLoop(e, c) /\ c.map = f.map
    <2> HIDE DEF m, stop
    <2> QED BY <1>3, CleanIs DEF InLoop, Same
  <1> HIDE DEF c, stop
  <1>5. CASE o \in NoCacheMultipartPost(f, Area(f.file, at, stop), stop - at)
    <2> DEFINE area == Area(f.file, at, stop)
               size == stop - at
    <2>1. area \in Seq(Bytes)
      <3>1. at <= stop
        BY <1>2
      <3> QED BY <1>2, <1>3, <3>1, AreaIs DEF IsArea
    <2> HIDE DEF area, size
    <2>3. o \in NoCacheMultipartPost(f, area, size)
      BY <1>5 DEF area, size
    <2>4. PostResult(f, area, size, o)
      BY <1>3, <2>1, <2>3, PostType
    <2>2. o \in Outcome /\ o.ent.map = f.map /\ InLoop(f, o.ent)
      BY <2>4 DEF PostResult
    <2> QED BY <2>2 DEF InLoop
  <1>6. CASE o = Error(f)
    BY <1>3, <1>6, OutcomeOf
  <1>7. CASE o \in NoCacheMultipartPost(c, body, stop - at)
    <2>1. body \in Seq(Bytes)
      BY <1>2, <1>4, BodyIs
    <2> DEFINE size == stop - at
    <2> HIDE DEF body, size
    <2>3. o \in NoCacheMultipartPost(c, body, size)
      BY <1>7 DEF body, size
    <2>4. PostResult(c, body, size, o)
      BY <1>4, <2>1, <2>3, PostType
    <2>2. o \in Outcome /\ o.ent.map = c.map /\ InLoop(c, o.ent)
      BY <2>4 DEF PostResult
    <2> QED BY <1>4, <2>2 DEF InLoop
  <1> QED BY <1>5, <1>6, <1>7, PostPartIs DEF c, stop

\* A part that has been posted is the next piece of the wanted file.
LEMMA PostPartPosts ==
    ASSUME object \in Seq(Bytes), NEW e \in Entity, NEW w, Shows(e, w), NEW f, InLoop(e, f),
           NEW at \in Nat, at < e.map.size, NEW o \in PostPart(f, e.map, at), o.ok,
           Covers(f.etaglist, w, at), NoneEmpty(f.etaglist)
    PROVE  Covers(o.ent.etaglist, w, PartEnd(e.map, at)) /\ NoneEmpty(o.ent.etaglist)
  <1> DEFINE m == e.map
             stop == PartEnd(m, at)
             c == Clean(f, at .. stop - 1)
             fetched == [i \in 1 .. stop - at |-> Fetched(c, at + i - 1)]
             area == Area(f.file, at, stop)
             size == stop - at
  <1> SUFFICES Covers(o.ent.etaglist, w, stop) /\ NoneEmpty(o.ent.etaglist)
    OBVIOUS
  <1>1. m \in PageMaps /\ m.size \in Nat
    BY EntityFacts
  <1>2. /\ stop \in Nat /\ at < stop /\ stop <= m.size
        /\ \A i \in at .. stop - 1 : i \in m.loaded <=> at \in m.loaded
    BY <1>1, PartEndIs
  <1>3. f \in Entity /\ f.file \in Seq(Bytes) /\ f.file = e.file /\ f.etaglist \in Seq(Part)
    BY EntityFacts DEF InLoop
  <1>4. c \in Entity /\ c.size_orgmeta = e.size_orgmeta /\ c.etaglist = f.etaglist
    <2> HIDE DEF m, stop
    <2> QED BY <1>3, CleanIs DEF InLoop, Same
  <1> HIDE DEF c, stop, m, size
  <1>9. size = stop - at /\ size \in Nat
    BY <1>2 DEF size
  <1>5. ASSUME NEW body \in Seq(Bytes), Len(body) = size,
               \A i \in 1 .. size : body[i] = w[at + i],
               o.ent.etaglist = Append(f.etaglist, [body |-> body, etag |-> o.ok])
        PROVE  Covers(o.ent.etaglist, w, stop) /\ NoneEmpty(o.ent.etaglist)
    <2> DEFINE p == [body |-> body, etag |-> o.ok]
    <2>1. p \in Part /\ p.body = body
      <3>1. o.ok \in BOOLEAN
        BY <1>3, PostPartType DEF Outcome
      <3> QED BY <3>1, PartOf
    <2> HIDE DEF p
    <2>2. Covers(Append(f.etaglist, p), w, at + Len(p.body))
      BY <1>3, <1>5, <2>1, CoversMore
    <2>3. NoneEmpty(Append(f.etaglist, p))
      <3>1. Len(p.body) # 0
        BY <1>2, <1>5, <1>9, <2>1
      <3> QED BY <1>3, <2>1, <3>1, NoneEmptyMore
    <2>4. at + Len(p.body) = stop
      BY <1>2, <1>5, <1>9, <2>1
    <2> QED BY <1>5, <2>2, <2>3, <2>4 DEF p
  <1>6. CASE at \in m.loaded /\ o \in NoCacheMultipartPost(f, area, size)
    <2>1. stop <= Len(f.file) /\ Len(e.file) = m.size
      BY <1>2, <1>3 DEF Shows, m
    <2>2. /\ area \in Seq(Bytes) /\ Len(area) = size
          /\ \A i \in 1 .. size : area[i] = f.file[at + i]
      <3>1. at <= stop
        BY <1>2
      <3>2. /\ Area(f.file, at, stop) \in Seq(Bytes) /\ Len(Area(f.file, at, stop)) = stop - at
            /\ \A i \in 1 .. stop - at : Area(f.file, at, stop)[i] = f.file[at + i]
        <4>1. IsArea(Area(f.file, at, stop), f.file, at, stop)
          BY <1>2, <1>3, <3>1, AreaIs
        <4> QED BY <2>1, <4>1 DEF IsArea
      <3> QED BY <3>2, <1>9
    <2>3. ASSUME NEW i \in 1 .. size PROVE area[i] = w[at + i]
      <3> DEFINE j == at + i - 1
      <3>1. j \in Nat /\ j < m.size /\ j \in at .. stop - 1 /\ j + 1 = at + i
        BY <1>1, <1>2, <1>9
      <3>2. j \in m.loaded
        BY <1>2, <1>6, <3>1
      <3> HIDE DEF j
      <3>3. e.file[j + 1] = w[j + 1]
        BY <3>1, <3>2 DEF Shows, m
      <3> QED BY <1>3, <2>2, <3>1, <3>3
    <2> HIDE DEF area
    <2>4. o.ent.etaglist = Append(f.etaglist, [body |-> area, etag |-> o.ok])
      <3>1. o \in NoCacheMultipartPost(f, area, size)
        BY <1>6 DEF area
      <3>2. PostResult(f, area, size, o)
        BY <1>3, <2>2, <3>1, PostType
      <3> QED BY <3>2 DEF PostResult
    <2> QED BY <1>5, <2>2, <2>3, <2>4
  <1>7. CASE at \notin m.loaded /\ o \in NoCacheMultipartPost(c, fetched, size)
    <2>1. /\ fetched \in Seq(Bytes) /\ Len(fetched) = size
          /\ \A i \in 1 .. size : fetched[i] = Fetched(c, at + i - 1)
      BY <1>2, <1>4, <1>9, BodyIs
    <2>2. ASSUME NEW i \in 1 .. size PROVE fetched[i] = w[at + i]
      <3> DEFINE j == at + i - 1
      <3>1. j \in Nat /\ j < m.size /\ j \in at .. stop - 1 /\ j + 1 = at + i
        BY <1>1, <1>2, <1>9
      <3>2. j \notin m.loaded
        BY <1>2, <1>7, <3>1
      <3>3. fetched[i] = Fetched(c, j)
        BY <2>1
      <3> HIDE DEF j, fetched
      <3>4. Fetched(e, j) = w[j + 1]
        BY <3>1, <3>2 DEF Shows, m
      <3>5. Fetched(c, j) = Fetched(e, j)
        BY <1>4, FetchedSame
      <3> QED BY <3>1, <3>3, <3>4, <3>5
    <2> HIDE DEF fetched
    <2>3. o.ent.etaglist = Append(c.etaglist, [body |-> fetched, etag |-> o.ok])
      <3>1. o \in NoCacheMultipartPost(c, fetched, size)
        BY <1>7 DEF fetched
      <3>2. PostResult(c, fetched, size, o)
        BY <1>4, <2>1, <3>1, PostType
      <3> QED BY <3>2 DEF PostResult
    <2> QED BY <1>4, <1>5, <2>1, <2>2, <2>3
  <1>8. o # Error(f)
    BY DEF Error
  <1> QED BY <1>6, <1>7, <1>8, PostPartIs DEF c, stop, m, size
-----------------------------------------------------------------------------
(***************************************************************************)
(* The loop of NoCacheLoadAndPost.                                         *)
(***************************************************************************)
AllLoaded(e) == \A i \in Nat : i < e.map.size => i \in e.map.loaded

LEMMA SetLoadedIs ==
    ASSUME NEW e \in Entity, NEW f, InLoop(e, f), NEW at \in Nat, at < e.map.size, NEW size \in Nat
    PROVE  LET g == SetLoaded(e.map, at, size, f)
           IN  /\ InLoop(e, g) /\ g.etaglist = f.etaglist
               /\ PartEnd(e.map, at) = e.map.size /\ size \in {0, e.map.size} => AllLoaded(g)
  <1> DEFINE m == e.map
             more == {i \in Span(0, PageEnd(m, at)) : size = 0 \/ i < size}
             loaded == f.map.loaded \cup more
             map == [f.map EXCEPT !.loaded = loaded]
             g == [f EXCEPT !.map = map]
  <1>1. /\ m \in PageMaps /\ m.size \in Nat /\ m.size <= MaxSize
        /\ f \in Entity /\ f.map \in PageMaps /\ f.map.size = m.size
        /\ \A i \in f.map.loaded : i \in Nat /\ i < m.size
    BY EntityFacts DEF InLoop
  <1>2. /\ PageEnd(m, at) \in Nat /\ PageEnd(m, at) <= m.size
        /\ PartEnd(m, at) \in Nat /\ PartEnd(m, at) <= PageEnd(m, at)
    BY <1>1, PageEndIs, PartEndIs
  <1>3. CASE PartEnd(m, at) < PageEnd(m, at)
    <2>1. SetLoaded(m, at, size, f) = f
      BY <1>3 DEF SetLoaded
    <2>2. PartEnd(m, at) # m.size
      BY <1>1, <1>2, <1>3
    <2> HIDE DEF m
    <2> QED BY <2>1, <2>2 DEF m
  <1>4. CASE ~ PartEnd(m, at) < PageEnd(m, at)
    <2>1. \A i : i \in more <=> i \in Nat /\ i < PageEnd(m, at) /\ (size = 0 \/ i < size)
      <3>1. \A i : i \in Span(0, PageEnd(m, at)) <=> i \in Nat /\ i < PageEnd(m, at)
        BY <1>1, <1>2, SpanFact
      <3> QED BY <3>1
    <2>2. SetLoaded(m, at, size, f) = g
      BY <1>4 DEF SetLoaded
    <2> HIDE DEF more
    <2>3. \A i \in loaded : i \in Nat /\ i < m.size
      BY <1>1, <1>2, <2>1
    <2>4. map = [size |-> m.size, loaded |-> loaded]
      <3>1. f.map \in [size : Size, loaded : SUBSET Offset]
        BY <1>1 DEF PageMaps
      <3> HIDE DEF loaded, m
      <3> QED BY <1>1, <3>1
    <2>5. [size |-> m.size, loaded |-> loaded] \in PageMaps
      <3> HIDE DEF loaded, m
      <3> QED BY <1>1, <2>3, MapOf
    <2>6. map \in PageMaps /\ map.size = m.size /\ map.loaded = loaded
      <3> HIDE DEF map
      <3> QED BY <2>4, <2>5
    <2> HIDE DEF map
    <2>7. /\ g \in Entity /\ g.map = map /\ g.file = f.file /\ g.size_orgmeta = f.size_orgmeta
          /\ g.upload_id = f.upload_id /\ g.mp_start = f.mp_start /\ g.mp_size = f.mp_size
          /\ g.etaglist = f.etaglist
      BY <1>1, <2>6 DEF Entity
    <2> HIDE DEF g
    <2>8. InLoop(e, g)
      BY <1>1, <2>6, <2>7 DEF InLoop
    <2>9. ASSUME PartEnd(m, at) = m.size, size \in {0, m.size} PROVE AllLoaded(g)
      <3>1. PageEnd(m, at) = m.size
        BY <1>1, <1>2, <1>4, <2>9
      <3>2. \A i \in Nat : i < m.size => i \in more
        BY <1>1, <2>1, <2>9, <3>1
      <3>3. g.map.size = m.size /\ \A i \in Nat : i < m.size => i \in g.map.loaded
        BY <2>6, <2>7, <3>2
      <3> QED BY <3>3 DEF AllLoaded
    <2> QED BY <2>2, <2>7, <2>8, <2>9
  <1> QED BY <1>3, <1>4

\* The states of the loop.
Reached(e) == {o \in Outcome : InLoop(e, o.ent)}
Rounds(e) == [at : 0 .. e.map.size, outcomes : SUBSET Reached(e)]

\* What a round makes of the outcomes of the one before.
LEMMA RoundIs ==
    ASSUME NEW m, NEW size, NEW r, ~ Over(m, r.at, size), NEW o \in Round(m, size, r).outcomes
    PROVE  \/ o \in r.outcomes /\ ~ o.ok
           \/ \E p \in r.outcomes : p.ok /\ o \in PostPart(p.ent, m, r.at) /\ ~ o.ok
           \/ \E p \in r.outcomes : \E q \in PostPart(p.ent, m, r.at) :
                 p.ok /\ q.ok /\ o = Ok(SetLoaded(m, r.at, size, q.ent))
  <1> DEFINE posted == UNION {IF p.ok THEN PostPart(p.ent, m, r.at) ELSE {p} : p \in r.outcomes}
  <1>1. o \in UNION {IF q.ok THEN {Ok(SetLoaded(m, r.at, size, q.ent))} ELSE {q} : q \in posted}
    BY DEF Round, Then
  <1>2. PICK q \in posted : o \in IF q.ok THEN {Ok(SetLoaded(m, r.at, size, q.ent))} ELSE {q}
    BY <1>1
  <1>3. PICK p \in r.outcomes : q \in IF p.ok THEN PostPart(p.ent, m, r.at) ELSE {p}
    BY <1>2
  <1> HIDE DEF posted
  <1>4. CASE q.ok
    <2>1. o = Ok(SetLoaded(m, r.at, size, q.ent))
      BY <1>2, <1>4
    <2>2. CASE p.ok
      BY <1>3, <1>4, <2>1, <2>2
    <2>3. CASE ~ p.ok
      BY <1>3, <1>4, <2>3
    <2> QED BY <2>2, <2>3
  <1>5. CASE ~ q.ok
    <2>1. o = q
      BY <1>2, <1>5
    <2>2. CASE p.ok
      BY <1>3, <1>5, <2>1, <2>2
    <2>3. CASE ~ p.ok
      BY <1>3, <2>1, <2>3
    <2> QED BY <2>2, <2>3
  <1> QED BY <1>4, <1>5

LEMMA RoundType ==
    ASSUME object \in Seq(Bytes), NEW e \in Entity, NEW size \in Nat, NEW r \in Rounds(e)
    PROVE  /\ Round(e.map, size, r) \in Rounds(e)
           /\ Over(e.map, r.at, size) => Round(e.map, size, r) = r
           /\ ~ Over(e.map, r.at, size) => r.at < e.map.size /\ Round(e.map, size, r).at = PartEnd(e.map, r.at)
  <1> DEFINE m == e.map
             s == Round(m, size, r)
  <1>1. m \in PageMaps /\ m.size \in Nat /\ r.at \in 0 .. m.size /\ r.outcomes \in SUBSET Reached(e)
    BY EntityFacts DEF Rounds
  <1>2. CASE Over(m, r.at, size)
    BY <1>2 DEF Round
  <1>3. CASE ~ Over(m, r.at, size)
    <2>1. r.at \in Nat /\ r.at < m.size
      BY <1>1, <1>3 DEF Over
    <2>2. PartEnd(m, r.at) \in 0 .. m.size
      BY <1>1, <2>1, PartEndIs
    <2>3. s = [at |-> PartEnd(m, r.at), outcomes |-> s.outcomes]
      BY <1>3 DEF Round
    <2>4. ASSUME NEW o \in s.outcomes PROVE o \in Reached(e)
      <3>1. ASSUME NEW p \in r.outcomes, NEW q \in PostPart(p.ent, m, r.at)
            PROVE  q \in Outcome /\ InLoop(e, q.ent)
        <4>1. InLoop(e, p.ent)
          BY <1>1 DEF Reached
        <4> QED BY <2>1, <4>1, PostPartType
      <3>2. ASSUME NEW p \in r.outcomes, NEW q \in PostPart(p.ent, m, r.at),
                   o = Ok(SetLoaded(m, r.at, size, q.ent))
            PROVE  o \in Reached(e)
        <4>1. InLoop(e, q.ent)
          BY <3>1
        <4>2. InLoop(e, SetLoaded(m, r.at, size, q.ent))
          BY <2>1, <4>1, SetLoadedIs
        <4> DEFINE t == SetLoaded(m, r.at, size, q.ent)
        <4>3. t \in Entity
          BY <4>2 DEF InLoop
        <4> HIDE DEF t
        <4>4. Ok(t) \in Outcome /\ Ok(t).ent = t
          BY <4>3, OutcomeOf
        <4> QED BY <3>2, <4>2, <4>4 DEF Reached, t
      <3>3. CASE o \in r.outcomes
        BY <1>1, <3>3
      <3>4. CASE \E p \in r.outcomes : o \in PostPart(p.ent, m, r.at)
        BY <3>1, <3>4 DEF Reached
      <3>5. \/ o \in r.outcomes
            \/ \E p \in r.outcomes : o \in PostPart(p.ent, m, r.at)
            \/ \E p \in r.outcomes : \E q \in PostPart(p.ent, m, r.at) : o = Ok(SetLoaded(m, r.at, size, q.ent))
        <4> HIDE DEF m
        <4> QED BY <1>3, RoundIs
      <3> QED BY <3>2, <3>3, <3>4, <3>5
    <2>5. s.outcomes \in SUBSET Reached(e)
      BY <2>4
    <2> DEFINE all == s.outcomes
               stop == PartEnd(m, r.at)
    <2> HIDE DEF s, all, stop, m
    <2>6. s = [at |-> stop, outcomes |-> all]
      BY <2>3 DEF all, stop
    <2>7. stop \in 0 .. m.size /\ all \in SUBSET Reached(e)
      BY <2>2, <2>5 DEF all, stop
    <2>8. s \in Rounds(e) /\ s.at = stop
      BY <2>6, <2>7 DEF Rounds, m
    <2> QED BY <1>3, <2>1, <2>8 DEF s, m, stop
  <1> QED BY <1>2, <1>3

\* The loop as a list of its states.
IsRounds(g, e, size) ==
    /\ g \in [0 .. e.map.size -> Rounds(e)]
    /\ g[0] = [at |-> 0, outcomes |-> {Ok(e)}]
    /\ \A i \in 1 .. e.map.size : g[i] = Round(e.map, size, g[i - 1])

LEMMA Loop ==
    ASSUME object \in Seq(Bytes), NEW e \in Entity, NEW size \in Nat
    PROVE  \E g : /\ IsRounds(g, e, size)
                  /\ NoCacheLoadAndPost(e, size)
                       = Then(g[e.map.size].outcomes, LAMBDA f : {Ok([f EXCEPT !.file = << >>])})
  <1> DEFINE A == Rounds(e)
             n == e.map.size
             base == [at |-> 0, outcomes |-> {Ok(e)}]
             step == [r \in A |-> [i \in 1 .. n |-> Round(e.map, size, r)]]
             Rec(f) == f = [i \in 0 .. n |-> IF i = 0 THEN base ELSE Round(e.map, size, f[i - 1])]
             m == CHOOSE f : Rec(f)
  <1>1. n \in Nat
    BY EntityFacts
  <1>2. base \in A
    <2>1. Ok(e) \in Reached(e)
      BY OutcomeOf DEF Reached, InLoop
    <2>2. 0 \in 0 .. n
      BY <1>1
    <2> QED BY <2>1, <2>2 DEF Rounds
  <1>3. \A r \in A : Round(e.map, size, r) \in A
    BY RoundType
  <1> HIDE DEF A, base
  <1>4. step \in [A -> [1 .. n -> A]]
    BY <1>3
  <1>5. PICK g : IsLoop(g, A, base, n, step)
    <2> HIDE DEF n, step
    <2> QED BY <1>1, <1>2, <1>4, LoopStates
  <1>6. g \in [0 .. n -> A] /\ g[0] = base
    BY <1>5 DEF IsLoop
  <1>7. ASSUME NEW i \in 1 .. n PROVE g[i] = Round(e.map, size, g[i - 1])
    <2>1. i - 1 \in 0 .. n
      BY <1>1
    <2>2. g[i - 1] \in A
      BY <1>6, <2>1
    <2>3. step[g[i - 1]][i] = Round(e.map, size, g[i - 1])
      BY <2>2
    <2> HIDE DEF step
    <2> QED BY <1>5, <2>3 DEF IsLoop
  <1>8. Rec(g)
    <2>1. g = [i \in 0 .. n |-> g[i]]
      BY <1>6
    <2>2. ASSUME NEW i \in 0 .. n
          PROVE  g[i] = IF i = 0 THEN base ELSE Round(e.map, size, g[i - 1])
      <3>1. CASE i = 0
        BY <1>6, <3>1
      <3>2. CASE i # 0
        <4>1. i \in 1 .. n
          BY <1>1, <3>2
        <4> QED BY <1>7, <3>2, <4>1
      <3> QED BY <3>1, <3>2
    <2> QED BY <2>1, <2>2
  <1> HIDE DEF step
  <1>9. Rec(m)
    BY <1>8
  <1>10. NoCacheLoadAndPost(e, size) = Then(m[n].outcomes, LAMBDA f : {Ok([f EXCEPT !.file = << >>])})
    BY DEF NoCacheLoadAndPost, base
  <1> HIDE DEF m
  <1>11. m[0] = base /\ \A i \in 1 .. n : m[i] = Round(e.map, size, m[i - 1])
    <2>1. 0 \in 0 .. n /\ \A i \in 1 .. n : i \in 0 .. n /\ i # 0
      BY <1>1
    <2> QED BY <1>9, <2>1
  <1> DEFINE T == {i \in 0 .. n : m[i] \in A}
  <1>12. 0 \in T
    BY <1>1, <1>2, <1>11
  <1>13. ASSUME NEW i \in 1 .. n, i - 1 \in T PROVE i \in T
    BY <1>1, <1>3, <1>11, <1>13
  <1>14. \A i \in 0 .. n : i \in T
    <2> HIDE DEF T, n
    <2> QED BY <1>1, <1>12, <1>13, Induction
  <1>15. m \in [0 .. n -> A]
    BY <1>9, <1>14
  <1> QED BY <1>10, <1>11, <1>15 DEF IsRounds, A, base

LEMMA EmptiedIs ==
    ASSUME NEW e \in Entity
    PROVE  LET f == [e EXCEPT !.file = << >>]
           IN  /\ f \in Entity /\ f.file = << >> /\ f.map = e.map /\ Same(e, f)
               /\ f.is_modify = e.is_modify
  <1>1. << >> \in Seq(Bytes)
    BY EmptySeq
  <1> QED BY <1>1 DEF Entity, Same

\* The outcomes of the call are those of the last round.
EndsLoop(outcomes, x) ==
    \E o \in outcomes : \/ o.ok /\ x = Ok([o.ent EXCEPT !.file = << >>])
                        \/ ~ o.ok /\ x = o

LEMMA LoopEnds ==
    ASSUME NEW outcomes, NEW x \in Then(outcomes, LAMBDA f : {Ok([f EXCEPT !.file = << >>])})
    PROVE  EndsLoop(outcomes, x)
  <1>1. x \in UNION {IF o.ok THEN {Ok([o.ent EXCEPT !.file = << >>])} ELSE {o} : o \in outcomes}
    BY DEF Then
  <1>2. PICK o \in outcomes : x \in IF o.ok THEN {Ok([o.ent EXCEPT !.file = << >>])} ELSE {o}
    BY <1>1
  <1>3. CASE o.ok
    BY <1>2, <1>3 DEF EndsLoop
  <1>4. CASE ~ o.ok
    BY <1>2, <1>4 DEF EndsLoop
  <1> QED BY <1>3, <1>4

\* What the upload of the pages leaves alone.
Kept(e, f) ==
    /\ f \in Entity /\ f.map.size = e.map.size /\ f.size_orgmeta = e.size_orgmeta
    /\ f.upload_id = e.upload_id /\ f.mp_start = e.mp_start /\ f.mp_size = e.mp_size

LEMMA LoopType ==
    ASSUME object \in Seq(Bytes), NEW e \in Entity, NEW size \in Nat,
           NEW x \in NoCacheLoadAndPost(e, size)
    PROVE  x \in Outcome /\ Kept(e, x.ent)
  <1> DEFINE n == e.map.size
  <1>1. n \in 0 .. n
    BY EntityFacts
  <1>2. PICK g : /\ IsRounds(g, e, size)
                 /\ x \in Then(g[n].outcomes, LAMBDA f : {Ok([f EXCEPT !.file = << >>])})
    BY Loop
  <1>3. g[n].outcomes \in SUBSET Reached(e)
    <2>1. g[n] \in Rounds(e)
      BY <1>1, <1>2 DEF IsRounds
    <2> QED BY <2>1 DEF Rounds
  <1>4. PICK o \in g[n].outcomes : \/ o.ok /\ x = Ok([o.ent EXCEPT !.file = << >>])
                                   \/ ~ o.ok /\ x = o
    <2> HIDE DEF n
    <2>1. EndsLoop(g[n].outcomes, x)
      BY <1>2, LoopEnds
    <2> QED BY <2>1 DEF EndsLoop
  <1>5. o \in Outcome /\ InLoop(e, o.ent) /\ o.ent \in Entity
    BY <1>3 DEF Reached, InLoop
  <1> DEFINE f == [o.ent EXCEPT !.file = << >>]
  <1>6. f \in Entity /\ f.map = o.ent.map /\ Same(o.ent, f)
    BY <1>5, EmptiedIs
  <1>7. CASE x = o
    BY <1>5, <1>7 DEF InLoop, Kept
  <1>8. CASE x = Ok(f)
    <2> HIDE DEF f
    <2>1. x \in Outcome /\ x.ent = f
      BY <1>6, <1>8, OutcomeOf
    <2> QED BY <1>5, <1>6, <2>1 DEF InLoop, Same, Kept
  <1> QED BY <1>4, <1>7, <1>8

\* When all pages are posted the parts are the wanted file, in order, and no
\* byte is left unloaded.
LEMMA LoopPosts ==
    ASSUME object \in Seq(Bytes), NEW e \in Entity, NEW w, Shows(e, w), e.etaglist = << >>,
           NEW x \in NoCacheLoadAndPost(e, e.map.size), x.ok
    PROVE  /\ Covers(x.ent.etaglist, w, e.map.size) /\ NoneEmpty(x.ent.etaglist)
           /\ AllLoaded(x.ent) /\ x.ent.file = << >>
  <1> DEFINE n == e.map.size
  <1>1. n \in Nat /\ n \in 0 .. n /\ e.map \in PageMaps
    BY EntityFacts
  <1>2. PICK g : /\ IsRounds(g, e, n)
                 /\ x \in Then(g[n].outcomes, LAMBDA f : {Ok([f EXCEPT !.file = << >>])})
    BY <1>1, Loop
  <1>3. PICK o \in g[n].outcomes : \/ o.ok /\ x = Ok([o.ent EXCEPT !.file = << >>])
                                   \/ ~ o.ok /\ x = o
    <2> HIDE DEF n
    <2>1. EndsLoop(g[n].outcomes, x)
      BY <1>2, LoopEnds
    <2> QED BY <2>1 DEF EndsLoop
  <1>4. \A i \in 0 .. n : g[i] \in Rounds(e)
    BY <1>2 DEF IsRounds
  <1> DEFINE Good(i, p) ==
                p.ok => /\ Covers(p.ent.etaglist, w, g[i].at) /\ NoneEmpty(p.ent.etaglist)
                        /\ g[i].at = n /\ n # 0 => AllLoaded(p.ent)
             Fine(i) == i <= g[i].at /\ \A p \in g[i].outcomes : Good(i, p)
             T == {i \in 0 .. n : Fine(i)}
  <1>5. 0 \in T
    <2>1. g[0].at = 0 /\ g[0].outcomes = {Ok(e)}
      <3>1. g[0] = [at |-> 0, outcomes |-> {Ok(e)}]
        BY <1>2 DEF IsRounds
      <3> QED BY <3>1
    <2>2. Ok(e).ent = e
      BY OutcomeOf
    <2>3. Covers(<< >>, w, 0) /\ NoneEmpty(<< >>)
      BY CoversNothing DEF NoneEmpty
    <2>4. \A p \in g[0].outcomes : p.ent = e
      BY <2>1, <2>2
    <2>5. Fine(0)
      <3> SUFFICES ASSUME NEW p \in g[0].outcomes PROVE Good(0, p)
        BY <2>1
      <3>1. p.ent.etaglist = << >>
        BY <2>4
      <3> QED BY <2>1, <2>3, <3>1
    <2> HIDE DEF Fine
    <2> QED BY <1>1, <2>5
  <1>6. ASSUME NEW i \in 1 .. n, i - 1 \in T PROVE i \in T
    <2> DEFINE r == g[i - 1]
    <2>1. r \in Rounds(e) /\ g[i] = Round(e.map, n, r) /\ i - 1 \in 0 .. n
      <3>1. g[i] = Round(e.map, n, g[i - 1])
        BY <1>2 DEF IsRounds
      <3>2. i - 1 \in 0 .. n
        BY <1>1
      <3>3. g[i - 1] \in Rounds(e)
        BY <1>4, <3>2
      <3> QED BY <3>1, <3>2, <3>3
    <2>2. i - 1 <= r.at /\ \A p \in r.outcomes : Good(i - 1, p)
      BY <1>6
    <2>3. r.at \in 0 .. n /\ r.outcomes \in SUBSET Reached(e)
      BY <2>1 DEF Rounds
    <2>4. \A p \in r.outcomes :
            p.ok => /\ Covers(p.ent.etaglist, w, r.at) /\ NoneEmpty(p.ent.etaglist)
                    /\ r.at = n /\ n # 0 => AllLoaded(p.ent)
      BY <2>2
    <2> HIDE DEF r
    <2>5. CASE Over(e.map, r.at, n)
      <3>1. g[i] = r
        BY <1>1, <2>1, <2>5, RoundType
      <3>2. r.at = n
        BY <1>1, <2>3, <2>5 DEF Over
      <3>3. Fine(i)
        BY <1>1, <2>4, <3>1, <3>2
      <3> HIDE DEF Fine
      <3> QED BY <3>3
    <2>6. CASE ~ Over(e.map, r.at, n)
      <3> DEFINE stop == PartEnd(e.map, r.at)
      <3>1. r.at < n /\ g[i].at = stop
        BY <1>1, <2>1, <2>6, RoundType
      <3>2. stop \in Nat /\ r.at < stop /\ r.at \in Nat
        BY <1>1, <2>3, <3>1, PartEndIs
      <3>3. ASSUME NEW p \in g[i].outcomes, p.ok
            PROVE  /\ Covers(p.ent.etaglist, w, stop) /\ NoneEmpty(p.ent.etaglist)
                   /\ stop = n => AllLoaded(p.ent)
        <4>1. PICK p0 \in r.outcomes : \E q \in PostPart(p0.ent, e.map, r.at) :
                     p0.ok /\ q.ok /\ p = Ok(SetLoaded(e.map, r.at, n, q.ent))
          <5>1. p \in Round(e.map, n, r).outcomes
            BY <2>1
          <5> HIDE DEF n, stop
          <5> QED BY <2>6, <3>3, <5>1, RoundIs
        <4>2. PICK q \in PostPart(p0.ent, e.map, r.at) :
                     p0.ok /\ q.ok /\ p = Ok(SetLoaded(e.map, r.at, n, q.ent))
          BY <4>1
        <4>3. /\ InLoop(e, p0.ent) /\ Covers(p0.ent.etaglist, w, r.at) /\ NoneEmpty(p0.ent.etaglist)
          BY <2>3, <2>4, <4>2 DEF Reached
        <4>4. q \in Outcome /\ InLoop(e, q.ent)
          BY <3>1, <3>2, <4>3, PostPartType
        <4>5. Covers(q.ent.etaglist, w, stop) /\ NoneEmpty(q.ent.etaglist)
          BY <3>1, <3>2, <4>2, <4>3, PostPartPosts
        <4> DEFINE t == SetLoaded(e.map, r.at, n, q.ent)
        <4>6. /\ InLoop(e, t) /\ t.etaglist = q.ent.etaglist
              /\ stop = n => AllLoaded(t)
          BY <1>1, <3>1, <3>2, <4>4, SetLoadedIs
        <4> HIDE DEF t
        <4>7. p.ent = t
          <5>1. t \in Entity
            BY <4>6 DEF InLoop
          <5>2. p = Ok(t)
            BY <4>2 DEF t
          <5> QED BY <5>1, <5>2, OutcomeOf
        <4> QED BY <4>5, <4>6, <4>7
      <3> HIDE DEF stop
      <3>4. Fine(i)
        BY <2>2, <3>1, <3>2, <3>3
      <3> HIDE DEF Fine
      <3> QED BY <3>4
    <2> QED BY <2>5, <2>6
  <1>7. \A i \in 0 .. n : i \in T
    <2> HIDE DEF T, n
    <2> QED BY <1>1, <1>5, <1>6, Induction
  <1>8. Fine(n)
    <2> HIDE DEF Fine
    <2> QED BY <1>1, <1>7
  <1>9. g[n].at = n
    <2>1. g[n].at \in 0 .. n
      BY <1>1, <1>4 DEF Rounds
    <2> QED BY <1>1, <1>8, <2>1
  <1>10. o.ok /\ x = Ok([o.ent EXCEPT !.file = << >>])
    BY <1>3
  <1>11. o.ent \in Entity /\ o.ent.map.size = n
    BY <1>1, <1>3, <1>4 DEF Rounds, Reached, InLoop
  <1>12. /\ Covers(o.ent.etaglist, w, n) /\ NoneEmpty(o.ent.etaglist)
         /\ n # 0 => AllLoaded(o.ent)
    BY <1>3, <1>8, <1>9, <1>10
  <1>13. AllLoaded(o.ent)
    <2>1. CASE n = 0
      BY <1>11, <2>1 DEF AllLoaded
    <2> QED BY <1>12, <2>1
  <1> DEFINE f == [o.ent EXCEPT !.file = << >>]
  <1>14. f \in Entity /\ f.map = o.ent.map /\ f.etaglist = o.ent.etaglist /\ f.file = << >>
    BY <1>11, EmptiedIs DEF Same
  <1>15. x = Ok(f)
    BY <1>10
  <1> HIDE DEF f, n
  <1>16. x.ent = f
    BY <1>14, <1>15, OutcomeOf
  <1> QED BY <1>12, <1>13, <1>14, <1>16 DEF AllLoaded, n
-----------------------------------------------------------------------------
(***************************************************************************)
(* The steps of Write.                                                     *)
(***************************************************************************)
\* Other fields than the file, its pages and is_modify.
SameUpload(e, f) ==
    /\ f.size_orgmeta = e.size_orgmeta /\ f.upload_id = e.upload_id /\ f.etaglist = e.etaglist
    /\ f.mp_start = e.mp_start /\ f.mp_size = e.mp_size

\* An entity with another file, other pages and another flag.
LEMMA EntityWith ==
    ASSUME NEW e \in Entity, NEW file \in Seq(Bytes), NEW map \in PageMaps, NEW flag \in BOOLEAN
    PROVE  LET f == [e EXCEPT !.file = file, !.is_modify = flag, !.map = map]
           IN  /\ f \in Entity /\ f.file = file /\ f.map = map /\ f.is_modify = flag
               /\ SameUpload(e, f)
  BY DEF Entity, SameUpload

LEMMA GrowIs ==
    ASSUME NEW e \in Entity, NEW start \in Nat, start <= MaxSize
    PROVE  LET g == GrowTo(e, start)
           IN  /\ g \in Entity /\ SameUpload(e, g) /\ g.is_modify = e.is_modify
               /\ g.map.loaded = e.map.loaded
               /\ e.map.size < start => g.map.size = start /\ g.file = Ftruncate(e.file, start)
               /\ ~ e.map.size < start => g = e
  <1>1. /\ e.map \in PageMaps /\ e.map.size \in Nat /\ e.file \in Seq(Bytes) /\ e.is_modify \in BOOLEAN
        /\ \A i \in e.map.loaded : i \in Nat /\ i < e.map.size
    BY EntityFacts
  <1>2. CASE ~ e.map.size < start
    BY <1>2 DEF GrowTo, SameUpload
  <1>3. CASE e.map.size < start
    <2> DEFINE file == Ftruncate(e.file, start)
               map == MapSet(e.map, e.map.size, start - e.map.size, FALSE)
               len == start - e.map.size
               g == [e EXCEPT !.file = file, !.map = map]
    <2>1. file \in Seq(Bytes)
      BY <1>1, FtruncateIs
    <2>2. map = [size |-> start, loaded |-> e.map.loaded]
      <3>1. len \in Nat /\ e.map.size + len = start /\ e.map.size < e.map.size + len
        BY <1>1, <1>3
      <3>2. \A i : i \in Span(e.map.size, len) => i \in Nat /\ e.map.size <= i
        BY <1>1, <3>1, SpanFact
      <3>3. e.map.loaded \ Span(e.map.size, len) = e.map.loaded
        BY <1>1, <3>2
      <3>4. map = [size |-> IF e.map.size < e.map.size + len THEN e.map.size + len ELSE e.map.size,
                   loaded |-> e.map.loaded \ Span(e.map.size, len)]
        BY DEF MapSet
      <3> HIDE DEF map, len
      <3> QED BY <3>1, <3>3, <3>4
    <2>3. [size |-> start, loaded |-> e.map.loaded] \in PageMaps
      <3>1. \A i \in e.map.loaded : i \in Nat /\ i < start
        BY <1>1, <1>3
      <3> QED BY <3>1, MapOf
    <2> HIDE DEF map
    <2>4. map \in PageMaps /\ map.size = start /\ map.loaded = e.map.loaded
      BY <2>2, <2>3
    <2>5. GrowTo(e, start) = g
      BY <1>3 DEF GrowTo, map
    <2> HIDE DEF file
    <2>6. g \in Entity /\ g.file = file /\ g.map = map /\ g.is_modify = e.is_modify /\ SameUpload(e, g)
      BY <2>1, <2>4 DEF Entity, SameUpload
    <2> HIDE DEF g
    <2> QED BY <1>3, <2>4, <2>5, <2>6 DEF file
  <1> QED BY <1>2, <1>3

LEMMA WrittenIs ==
    ASSUME NEW e \in Entity, NEW start \in Nat, NEW bytes \in Seq(Bytes), start + Len(bytes) <= MaxSize
    PROVE  LET f == Written(e, start, bytes)
               stop == start + Len(bytes)
           IN  /\ f \in Entity /\ SameUpload(e, f) /\ f.is_modify = TRUE
               /\ f.file = Pwrite(e.file, start, bytes)
               /\ f.map.size = IF e.map.size < stop THEN stop ELSE e.map.size
               /\ \A i \in Nat : i \in f.map.loaded <=> i \in e.map.loaded \/ (start <= i /\ i < stop)
  <1> DEFINE len == Len(bytes)
             stop == start + len
             file == Pwrite(e.file, start, bytes)
             map == MapSet(e.map, start, len, TRUE)
             size == IF e.map.size < stop THEN stop ELSE e.map.size
             loaded == e.map.loaded \cup Span(start, len)
             f == [e EXCEPT !.file = file, !.is_modify = TRUE, !.map = map]
  <1>1. /\ e.map.size \in Nat /\ e.map.size <= MaxSize /\ e.file \in Seq(Bytes)
        /\ \A i \in e.map.loaded : i \in Nat /\ i < e.map.size
        /\ len \in Nat /\ stop <= MaxSize
    BY EntityFacts, LenProperties
  <1>2. file \in Seq(Bytes)
    BY <1>1, PwriteIs
  <1> HIDE DEF len
  <1>3. \A i : i \in Span(start, len) <=> i \in Nat /\ start <= i /\ i < stop
    BY <1>1, SpanFact
  <1>4. map = [size |-> size, loaded |-> loaded]
    BY DEF MapSet
  <1>5. size \in Nat /\ size <= MaxSize /\ \A i \in loaded : i \in Nat /\ i < size
    BY <1>1, <1>3
  <1>6. \A i \in Nat : i \in loaded <=> i \in e.map.loaded \/ (start <= i /\ i < stop)
    BY <1>3
  <1> HIDE DEF map, size, loaded
  <1>7. map \in PageMaps /\ map.size = size /\ map.loaded = loaded
    <2>1. [size |-> size, loaded |-> loaded] \in PageMaps
      BY <1>5, MapOf
    <2> QED BY <1>4, <2>1
  <1>8. Written(e, start, bytes) = f
    BY DEF Written, map, len
  <1> HIDE DEF file
  <1>9. f \in Entity /\ f.file = file /\ f.map = map /\ f.is_modify = TRUE /\ SameUpload(e, f)
    BY <1>2, <1>7, EntityWith
  <1> HIDE DEF f
  <1> QED BY <1>6, <1>7, <1>8, <1>9 DEF file, size, len

\* The upload has been opened, or it has not; the list is empty.
LEMMA PreIs ==
    ASSUME NEW e \in Entity, NEW o \in NoCachePreMultipartPost(e)
    PROVE  /\ o \in Outcome /\ o.ent.file = e.file /\ o.ent.map = e.map /\ o.ent.is_modify = e.is_modify
           /\ o.ent.size_orgmeta = e.size_orgmeta
           /\ o.ent.mp_start = e.mp_start /\ o.ent.mp_size = e.mp_size
           /\ o.ent.etaglist = << >> /\ o.ent.upload_id = IF o.ok THEN TRUE ELSE e.upload_id
  <1>1. << >> \in Seq(Part)
    BY EmptySeq
  <1> DEFINE f == [e EXCEPT !.upload_id = TRUE, !.etaglist = << >>]
             g == [e EXCEPT !.etaglist = << >>]
  <1>2. /\ f \in Entity /\ f.file = e.file /\ f.map = e.map /\ f.is_modify = e.is_modify
        /\ f.size_orgmeta = e.size_orgmeta /\ f.mp_start = e.mp_start /\ f.mp_size = e.mp_size
        /\ f.etaglist = << >> /\ f.upload_id = TRUE
    BY <1>1 DEF Entity
  <1>3. /\ g \in Entity /\ g.file = e.file /\ g.map = e.map /\ g.is_modify = e.is_modify
        /\ g.size_orgmeta = e.size_orgmeta /\ g.mp_start = e.mp_start /\ g.mp_size = e.mp_size
        /\ g.etaglist = << >> /\ g.upload_id = e.upload_id
    BY <1>1 DEF Entity
  <1>4. o = Ok(f) \/ o = Error(g)
    BY DEF NoCachePreMultipartPost, Fails
  <1> HIDE DEF f, g
  <1>5. CASE o = Ok(f)
    BY <1>2, <1>5, OutcomeOf
  <1>6. CASE o = Error(g)
    BY <1>3, <1>6, OutcomeOf
  <1> QED BY <1>4, <1>5, <1>6

\* An entity whose parts begin at start.
PartsFrom(e, start) == [e EXCEPT !.mp_start = start, !.mp_size = 0]

StartsAt(e, f, start) ==
    /\ f \in Entity /\ f.file = e.file /\ f.map = e.map /\ f.is_modify = e.is_modify
    /\ f.size_orgmeta = e.size_orgmeta /\ f.upload_id = e.upload_id /\ f.etaglist = e.etaglist
    /\ f.mp_start = start /\ f.mp_size = 0

LEMMA PartsFromIs ==
    ASSUME NEW e \in Entity, NEW start \in Nat
    PROVE  StartsAt(e, PartsFrom(e, start), start)
  BY DEF PartsFrom, Entity, StartsAt

\* How the space for a write was got: an upload goes on, the bytes before it
\* are loaded, or an upload begins with them.
LEMMA PrepareIs ==
    ASSUME NEW e, NEW start \in Nat, NEW o \in Prepare(e, start)
    PROVE  \/ e.upload_id /\ o = Ok(e)
           \/ /\ ~ e.upload_id
              /\ \E f \in Reserved(e) : \/ 0 < start /\ o \in Load(f, 0, start)
                                        \/ start = 0 /\ o = Ok(f)
           \/ /\ ~ e.upload_id
              /\ \E f \in NotReserved(e) : \E p \in NoCachePreMultipartPost(f) :
                    \/ ~ p.ok /\ o = p
                    \/ p.ok /\ \E q \in NoCacheLoadAndPost(p.ent, start) :
                          \/ ~ q.ok /\ o = q
                          \/ q.ok /\ o = Ok(PartsFrom(q.ent, start))
  <1>1. CASE e.upload_id
    BY <1>1 DEF Prepare
  <1>2. CASE ~ e.upload_id /\ \E f \in Reserved(e) : o \in LoadBefore(f, start)
    BY <1>2 DEF LoadBefore
  <1>3. ASSUME ~ e.upload_id, NEW f \in NotReserved(e), o \in BeginUpload(f, start)
        PROVE  \E p \in NoCachePreMultipartPost(f) :
                  \/ ~ p.ok /\ o = p
                  \/ p.ok /\ \E q \in NoCacheLoadAndPost(p.ent, start) :
                        \/ ~ q.ok /\ o = q
                        \/ q.ok /\ o = Ok(PartsFrom(q.ent, start))
    <2> DEFINE last(q) == IF q.ok THEN {Ok(PartsFrom(q.ent, start))} ELSE {q}
               loop(p) == IF p.ok THEN NoCacheLoadAndPost(p.ent, start) ELSE {p}
               second == UNION {loop(p) : p \in NoCachePreMultipartPost(f)}
    <2>1. o \in UNION {last(q) : q \in second}
      BY <1>3 DEF BeginUpload, Then, PartsFrom
    <2>2. PICK q \in second : o \in last(q)
      BY <2>1
    <2>3. PICK p \in NoCachePreMultipartPost(f) : q \in loop(p)
      BY <2>2
    <2> HIDE DEF second
    <2>4. \/ ~ q.ok /\ o = q
          \/ q.ok /\ o = Ok(PartsFrom(q.ent, start))
      BY <2>2
    <2>5. CASE p.ok
      <3>1. q \in NoCacheLoadAndPost(p.ent, start)
        BY <2>3, <2>5
      <3> QED BY <2>4, <2>5, <3>1
    <2>6. CASE ~ p.ok
      <3>1. q = p
        BY <2>3, <2>6
      <3> QED BY <2>4, <2>6, <3>1
    <2> QED BY <2>5, <2>6
  <1>4. CASE ~ e.upload_id
    <2> DEFINE X == UNION {LoadBefore(f, start) : f \in Reserved(e)}
               Y == UNION {BeginUpload(f, start) : f \in NotReserved(e)}
    <2>1. o \in X \cup Y
      BY <1>4 DEF Prepare
    <2>2. CASE o \in X
      BY <1>2, <1>4, <2>2
    <2>3. CASE o \in Y
      <3>1. PICK f \in NotReserved(e) : o \in BeginUpload(f, start)
        BY <2>3
      <3> QED BY <1>3, <1>4, <3>1
    <2> QED BY <2>1, <2>2, <2>3
  <1> QED BY <1>1, <1>4

LEMMA LoadAfterIs ==
    ASSUME NEW e, NEW stop, NEW o \in LoadAfter(e, stop)
    PROVE  \/ stop < e.map.size /\ o \in Load(e, stop, e.map.size)
           \/ ~ stop < e.map.size /\ o = Ok(e)
  BY DEF LoadAfter

\* An entity in which written bytes wait to be posted, and one in which they
\* have been.
Waiting(e, len) == [e EXCEPT !.mp_size = @ + len]
PartsGoneFrom(e, stop) == [e EXCEPT !.file = Ftruncate(<< >>, stop), !.mp_start = stop, !.mp_size = 0]

LEMMA WaitingIs ==
    ASSUME NEW e \in Entity, NEW len \in Nat
    PROVE  LET f == Waiting(e, len)
           IN  /\ f \in Entity /\ f.file = e.file /\ f.map = e.map /\ f.is_modify = e.is_modify
               /\ f.size_orgmeta = e.size_orgmeta /\ f.upload_id = e.upload_id /\ f.etaglist = e.etaglist
               /\ f.mp_start = e.mp_start /\ f.mp_size = e.mp_size + len
  <1> DEFINE size == e.mp_size + len
             f == [e EXCEPT !.mp_size = size]
  <1>1. size \in Nat
    BY EntityFacts
  <1>2. Waiting(e, len) = f
    BY DEF Waiting
  <1> HIDE DEF size
  <1>3. /\ f \in Entity /\ f.file = e.file /\ f.map = e.map /\ f.is_modify = e.is_modify
        /\ f.size_orgmeta = e.size_orgmeta /\ f.upload_id = e.upload_id /\ f.etaglist = e.etaglist
        /\ f.mp_start = e.mp_start /\ f.mp_size = size
    BY <1>1 DEF Entity
  <1> HIDE DEF f
  <1> QED BY <1>2, <1>3 DEF size

GoneTo(e, f, stop) ==
    /\ f \in Entity /\ Len(f.file) = stop /\ f.map = e.map /\ f.is_modify = e.is_modify
    /\ f.size_orgmeta = e.size_orgmeta /\ f.upload_id = e.upload_id /\ f.etaglist = e.etaglist
    /\ f.mp_start = stop /\ f.mp_size = 0

LEMMA PartsGoneIs ==
    ASSUME NEW e \in Entity, NEW stop \in Nat
    PROVE  GoneTo(e, PartsGoneFrom(e, stop), stop)
  <1> DEFINE file == Ftruncate(<< >>, stop)
             f == [e EXCEPT !.file = file, !.mp_start = stop, !.mp_size = 0]
  <1>1. file \in Seq(Bytes) /\ Len(file) = stop
    <2>1. << >> \in Seq(Bytes)
      BY EmptySeq
    <2> QED BY <2>1, FtruncateIs
  <1>2. PartsGoneFrom(e, stop) = f
    BY DEF PartsGoneFrom
  <1> HIDE DEF file
  <1>3. /\ f \in Entity /\ f.file = file /\ f.map = e.map /\ f.is_modify = e.is_modify
        /\ f.size_orgmeta = e.size_orgmeta /\ f.upload_id = e.upload_id /\ f.etaglist = e.etaglist
        /\ f.mp_start = stop /\ f.mp_size = 0
    BY <1>1 DEF Entity
  <1> HIDE DEF f
  <1> QED BY <1>1, <1>2, <1>3 DEF GoneTo

\* The part that is posted when enough bytes wait.
PostFrom(f) ==
    NoCacheMultipartPost(f, Area(f.file, f.mp_start, f.mp_start + f.mp_size), f.mp_size)

LEMMA PostWrittenIs ==
    ASSUME NEW e, NEW len, NEW o \in PostWritten(e, len)
    PROVE  LET f == Waiting(e, len)
           IN  \/ ~ e.upload_id /\ o = Ok(e)
               \/ e.upload_id /\ f.mp_size < MultipartSize /\ o = Ok(f)
               \/ /\ e.upload_id
                  /\ \E p \in PostFrom(f) :
                        \/ ~ p.ok /\ o = p
                        \/ p.ok /\ o = Ok(PartsGoneFrom(p.ent, f.mp_start + f.mp_size))
  <1> DEFINE f == Waiting(e, len)
             stop == f.mp_start + f.mp_size
             posted == PostFrom(f)
             last(p) == IF p.ok THEN {Ok(PartsGoneFrom(p.ent, stop))} ELSE {p}
  <1>1. CASE ~ e.upload_id
    BY <1>1 DEF PostWritten
  <1>2. CASE e.upload_id /\ f.mp_size < MultipartSize
    BY <1>2 DEF PostWritten, Waiting
  <1>3. CASE e.upload_id /\ ~ f.mp_size < MultipartSize
    <2>1. o \in UNION {last(p) : p \in posted}
      BY <1>3 DEF PostWritten, Waiting, PartsGoneFrom, PostFrom, Then
    <2> HIDE DEF posted
    <2>2. PICK p \in posted : o \in last(p)
      BY <2>1
    <2> QED BY <1>3, <2>2 DEF posted
  <1> QED BY <1>1, <1>2, <1>3

\* How a write ends: it stops at a step that fails, or goes through all of them.
WriteOutcomes(e, start, bytes) ==
    Then(Then(Prepare(GrowTo(e, start), start), LAMBDA f :
           LoadAfter(Written(f, start, bytes), start + Len(bytes))), LAMBDA f :
             PostWritten(f, Len(bytes)))

LEMMA WriteIs ==
    ASSUME NEW e, NEW start, NEW bytes, NEW o \in WriteOutcomes(e, start, bytes)
    PROVE  \E p \in Prepare(GrowTo(e, start), start) :
              \/ ~ p.ok /\ o = p
              \/ p.ok /\ \E q \in LoadAfter(Written(p.ent, start, bytes), start + Len(bytes)) :
                    \/ ~ q.ok /\ o = q
                    \/ q.ok /\ o \in PostWritten(q.ent, Len(bytes))
  <1> DEFINE first == Prepare(GrowTo(e, start), start)
             mid(p) == IF p.ok THEN LoadAfter(Written(p.ent, start, bytes), start + Len(bytes)) ELSE {p}
             second == UNION {mid(p) : p \in first}
             last(q) == IF q.ok THEN PostWritten(q.ent, Len(bytes)) ELSE {q}
  <1>1. o \in UNION {last(q) : q \in second}
    BY DEF WriteOutcomes, Then
  <1>2. PICK q \in second : o \in last(q)
    BY <1>1
  <1>3. PICK p \in first : q \in mid(p)
    BY <1>2
  <1> HIDE DEF second
  <1>4. (~ q.ok /\ o = q) \/ (q.ok /\ o \in PostWritten(q.ent, Len(bytes)))
    BY <1>2
  <1>5. CASE p.ok
    <2>1. q \in LoadAfter(Written(p.ent, start, bytes), start + Len(bytes))
      BY <1>3, <1>5
    <2> QED BY <1>4, <1>5, <2>1
  <1>6. CASE ~ p.ok
    <2>1. q = p
      BY <1>3, <1>6
    <2> QED BY <1>4, <1>6, <2>1
  <1> QED BY <1>5, <1>6
-----------------------------------------------------------------------------
(***************************************************************************)
(* Types.                                                                  *)
(***************************************************************************)
\* What every call leaves behind, also one that fails.
Typed(o) == o \in Outcome /\ Fits(o.ent)

LEMMA TypedIs ==
    ASSUME NEW e \in Entity, Fits(e)
    PROVE  Typed(Ok(e)) /\ Typed(Error(e))
  BY OutcomeOf DEF Typed

LEMMA TypedEnt ==
    ASSUME NEW o, Typed(o)
    PROVE  o.ent \in Entity /\ o.ok \in BOOLEAN /\ Fits(o.ent) /\ o \in Outcome
  BY DEF Typed, Outcome

LEMMA GrowType ==
    ASSUME NEW e \in Entity, Fits(e), NEW start \in Nat, start <= MaxSize
    PROVE  GrowTo(e, start) \in Entity /\ Fits(GrowTo(e, start)) /\ start <= GrowTo(e, start).map.size
  <1> DEFINE g == GrowTo(e, start)
  <1>1. /\ g \in Entity /\ SameUpload(e, g)
        /\ e.map.size < start => g.map.size = start /\ g.file = Ftruncate(e.file, start)
        /\ ~ e.map.size < start => g = e
    BY GrowIs
  <1>2. e.file \in Seq(Bytes) /\ e.map.size \in Nat
    BY EntityFacts
  <1>3. Len(Ftruncate(e.file, start)) = start
    BY <1>2, FtruncateIs
  <1> HIDE DEF g
  <1>4. CASE e.map.size < start
    <2>1. Fits(g) /\ start <= g.map.size
      BY <1>1, <1>3, <1>4 DEF Fits
    <2> QED BY <1>1, <2>1 DEF g
  <1>5. CASE ~ e.map.size < start
    <2>1. g = e /\ start <= e.map.size
      BY <1>1, <1>2, <1>5
    <2> QED BY <1>1, <2>1 DEF g
  <1> QED BY <1>4, <1>5

LEMMA PrepareType ==
    ASSUME object \in Seq(Bytes), NEW e \in Entity, Fits(e), NEW start \in Nat,
           NEW o \in Prepare(e, start)
    PROVE  Typed(o)
  <1>1. CASE e.upload_id /\ o = Ok(e)
    BY <1>1, TypedIs
  <1>2. ASSUME NEW f \in Reserved(e), (0 < start /\ o \in Load(f, 0, start)) \/ (start = 0 /\ o = Ok(f))
        PROVE  Typed(o)
    <2>1. f \in Entity /\ Fits(f)
      BY ReservedType
    <2>2. CASE o \in Load(f, 0, start)
      BY <2>1, <2>2, LoadType DEF Typed
    <2>3. CASE o = Ok(f)
      BY <2>1, <2>3, TypedIs
    <2> QED BY <1>2, <2>2, <2>3
  <1> DEFINE Begun(p) == \/ ~ p.ok /\ o = p
                         \/ p.ok /\ \E q \in NoCacheLoadAndPost(p.ent, start) :
                               (~ q.ok /\ o = q) \/ (q.ok /\ o = Ok(PartsFrom(q.ent, start)))
  <1>3. ASSUME NEW f \in NotReserved(e), NEW p \in NoCachePreMultipartPost(f), Begun(p)
        PROVE  Typed(o)
    <2>1. f \in Entity /\ Fits(f)
      BY ReservedType
    <2>2. /\ p \in Outcome /\ p.ent.file = f.file /\ p.ent.map = f.map
          /\ p.ent.upload_id = IF p.ok THEN TRUE ELSE f.upload_id
      BY <2>1, PreIs
    <2>3. CASE ~ p.ok /\ o = p
      BY <2>1, <2>2, <2>3 DEF Typed, Fits
    <2>4. CASE p.ok
      <3>1. PICK q \in NoCacheLoadAndPost(p.ent, start) :
                (~ q.ok /\ o = q) \/ (q.ok /\ o = Ok(PartsFrom(q.ent, start)))
        BY <1>3, <2>4
      <3>2. p.ent \in Entity /\ p.ent.upload_id
        BY <2>2, <2>4 DEF Outcome
      <3>3. q \in Outcome /\ q.ent \in Entity /\ q.ent.upload_id = p.ent.upload_id
        BY <3>2, LoopType DEF Kept
      <3>4. PartsFrom(q.ent, start) \in Entity /\ PartsFrom(q.ent, start).upload_id = q.ent.upload_id
        BY <3>3, PartsFromIs DEF StartsAt
      <3>5. Fits(q.ent) /\ Fits(PartsFrom(q.ent, start))
        BY <3>2, <3>3, <3>4 DEF Fits
      <3>6. CASE o = q
        BY <3>3, <3>5, <3>6 DEF Typed
      <3>7. CASE o = Ok(PartsFrom(q.ent, start))
        BY <3>4, <3>5, <3>7, TypedIs
      <3> QED BY <3>1, <3>6, <3>7
    <2> QED BY <1>3, <2>3, <2>4
  <1>4. \/ e.upload_id /\ o = Ok(e)
        \/ \E f \in Reserved(e) : (0 < start /\ o \in Load(f, 0, start)) \/ (start = 0 /\ o = Ok(f))
        \/ \E f \in NotReserved(e) : \E p \in NoCachePreMultipartPost(f) : Begun(p)
    BY PrepareIs
  <1> HIDE DEF Begun
  <1> QED BY <1>1, <1>2, <1>3, <1>4

LEMMA WrittenType ==
    ASSUME NEW e \in Entity, Fits(e), NEW start \in Nat, NEW bytes \in Seq(Bytes),
           start + Len(bytes) <= MaxSize
    PROVE  Written(e, start, bytes) \in Entity /\ Fits(Written(e, start, bytes))
  <1> DEFINE f == Written(e, start, bytes)
             stop == start + Len(bytes)
  <1>1. /\ f \in Entity /\ SameUpload(e, f) /\ f.file = Pwrite(e.file, start, bytes)
        /\ f.map.size = IF e.map.size < stop THEN stop ELSE e.map.size
    BY WrittenIs
  <1>2. e.file \in Seq(Bytes) /\ Len(e.file) \in Nat /\ e.map.size \in Nat
    BY EntityFacts
  <1>3. Len(Pwrite(e.file, start, bytes)) = IF Len(e.file) < stop THEN stop ELSE Len(e.file)
    BY <1>2, PwriteIs
  <1>4. stop \in Nat
    BY LenProperties
  <1> HIDE DEF f, stop
  <1>5. ASSUME ~ f.upload_id PROVE Len(f.file) <= f.map.size
    <2>1. Len(e.file) <= e.map.size
      BY <1>1, <1>5 DEF Fits, SameUpload
    <2> QED BY <1>1, <1>2, <1>3, <1>4, <2>1
  <1>6. Fits(f)
    BY <1>5 DEF Fits
  <1> QED BY <1>1, <1>6 DEF f

LEMMA LoadAfterType ==
    ASSUME object \in Seq(Bytes), NEW e \in Entity, Fits(e), NEW stop \in Nat, NEW o \in LoadAfter(e, stop)
    PROVE  Typed(o)
  <1>1. e.map.size \in Nat
    BY EntityFacts
  <1>2. CASE o \in Load(e, stop, e.map.size)
    BY <1>1, <1>2, LoadType DEF Typed
  <1>3. CASE o = Ok(e)
    BY <1>3, TypedIs
  <1> QED BY <1>2, <1>3, LoadAfterIs

\* A part that has been posted, or was not sent, changes only the list.
LEMMA PostFromType ==
    ASSUME NEW f \in Entity, NEW o \in PostFrom(f)
    PROVE  LET body == Area(f.file, f.mp_start, f.mp_start + f.mp_size)
           IN  /\ body \in Seq(Bytes) /\ PostResult(f, body, f.mp_size, o)
  <1> DEFINE body == Area(f.file, f.mp_start, f.mp_start + f.mp_size)
  <1>1. f.file \in Seq(Bytes) /\ f.mp_start \in Nat /\ f.mp_size \in Nat
    BY EntityFacts
  <1>2. f.mp_start + f.mp_size \in Nat /\ f.mp_start <= f.mp_start + f.mp_size
    BY <1>1
  <1>3. body \in Seq(Bytes)
    BY <1>1, <1>2, AreaIs DEF IsArea
  <1>4. o \in NoCacheMultipartPost(f, body, f.mp_size)
    BY DEF PostFrom
  <1> HIDE DEF body
  <1>5. PostResult(f, body, f.mp_size, o)
    BY <1>3, <1>4, PostType
  <1> QED BY <1>3, <1>5 DEF body

LEMMA PostWrittenType ==
    ASSUME NEW e \in Entity, Fits(e), NEW len \in Nat, NEW o \in PostWritten(e, len)
    PROVE  Typed(o)
  <1> DEFINE f == Waiting(e, len)
             stop == f.mp_start + f.mp_size
  <1>1. f \in Entity /\ f.upload_id = e.upload_id
    BY WaitingIs
  <1>2. \/ ~ e.upload_id /\ o = Ok(e)
        \/ e.upload_id /\ o = Ok(f)
        \/ /\ e.upload_id
           /\ \E p \in PostFrom(f) : (~ p.ok /\ o = p) \/ (p.ok /\ o = Ok(PartsGoneFrom(p.ent, stop)))
    BY PostWrittenIs
  <1> HIDE DEF f
  <1>3. stop \in Nat
    BY <1>1, EntityFacts
  <1>4. CASE ~ e.upload_id /\ o = Ok(e)
    BY <1>4, TypedIs
  <1>5. CASE e.upload_id /\ o = Ok(f)
    <2>1. Fits(f)
      BY <1>1, <1>5 DEF Fits
    <2> QED BY <1>1, <1>5, <2>1, TypedIs
  <1> HIDE DEF stop
  <1>6. ASSUME e.upload_id, NEW p \in PostFrom(f), (~ p.ok /\ o = p) \/ (p.ok /\ o = Ok(PartsGoneFrom(p.ent, stop)))
        PROVE  Typed(o)
    <2>1. p \in Outcome /\ p.ent \in Entity /\ p.ent.upload_id
      BY <1>1, <1>6, PostFromType DEF PostResult, InLoop
    <2>2. PartsGoneFrom(p.ent, stop) \in Entity /\ PartsGoneFrom(p.ent, stop).upload_id = p.ent.upload_id
      BY <1>3, <2>1, PartsGoneIs DEF GoneTo
    <2>3. Fits(p.ent) /\ Fits(PartsGoneFrom(p.ent, stop))
      BY <2>1, <2>2 DEF Fits
    <2>4. CASE o = p
      BY <2>1, <2>3, <2>4 DEF Typed
    <2>5. CASE o = Ok(PartsGoneFrom(p.ent, stop))
      BY <2>2, <2>3, <2>5, TypedIs
    <2> QED BY <1>6, <2>4, <2>5
  <1> QED BY <1>2, <1>4, <1>5, <1>6

\* A write of any kind, at any place, whatever fails.
LEMMA WriteType ==
    ASSUME object \in Seq(Bytes), NEW e \in Entity, Fits(e), NEW start \in Nat, NEW bytes \in Seq(Bytes),
           start + Len(bytes) <= MaxSize, NEW o \in WriteOutcomes(e, start, bytes)
    PROVE  Typed(o)
  <1> DEFINE stop == start + Len(bytes)
  <1>1. Len(bytes) \in Nat
    BY LenProperties
  <1>2. stop \in Nat /\ start <= MaxSize
    BY <1>1
  <1>3. PICK p \in Prepare(GrowTo(e, start), start) :
              \/ ~ p.ok /\ o = p
              \/ p.ok /\ \E q \in LoadAfter(Written(p.ent, start, bytes), stop) :
                    \/ ~ q.ok /\ o = q
                    \/ q.ok /\ o \in PostWritten(q.ent, Len(bytes))
    BY WriteIs
  <1>4. Typed(p)
    <2>1. GrowTo(e, start) \in Entity /\ Fits(GrowTo(e, start))
      BY <1>2, GrowType
    <2> QED BY <2>1, PrepareType
  <1>5. p.ent \in Entity /\ Fits(p.ent)
    BY <1>4, TypedEnt
  <1>6. Written(p.ent, start, bytes) \in Entity /\ Fits(Written(p.ent, start, bytes))
    BY <1>5, WrittenType
  <1>7. ASSUME NEW q \in LoadAfter(Written(p.ent, start, bytes), stop),
               (~ q.ok /\ o = q) \/ (q.ok /\ o \in PostWritten(q.ent, Len(bytes)))
        PROVE  Typed(o)
    <2> HIDE DEF stop
    <2>1. Typed(q)
      BY <1>2, <1>6, LoadAfterType
    <2>2. q.ent \in Entity /\ Fits(q.ent)
      BY <2>1, TypedEnt
    <2>3. CASE o \in PostWritten(q.ent, Len(bytes))
      BY <1>1, <2>2, <2>3, PostWrittenType
    <2> QED BY <1>7, <2>1, <2>3
  <1> QED BY <1>3, <1>4, <1>7
-----------------------------------------------------------------------------
(***************************************************************************)
(* The wanted file.                                                        *)
(***************************************************************************)
\* No upload is open: the file and the object together are the wanted file.
\* A modified file has been loaded as a whole, a clean one is the object.
Idle(e, w) ==
    /\ ~ e.upload_id /\ e.etaglist = << >> /\ e.mp_start = 0 /\ e.mp_size = 0
    /\ Shows(e, w) /\ Len(w) = e.map.size /\ e.size_orgmeta <= e.map.size
    /\ e.is_modify => AllLoaded(e)
    /\ ~ e.is_modify => e.size_orgmeta = e.map.size /\ object = w

\* An upload is open: the parts are the wanted file up to mp_start, and the
\* cache file has what is after it.
Uploading(e, w) ==
    /\ e.upload_id /\ e.is_modify /\ AllLoaded(e)
    /\ Len(w) = e.map.size /\ Len(e.file) = e.map.size
    /\ e.mp_start + e.mp_size = e.map.size /\ e.mp_size < MultipartSize
    /\ Covers(e.etaglist, w, e.mp_start) /\ NoneEmpty(e.etaglist)
    /\ \A i \in Nat : e.mp_start <= i /\ i < e.map.size => e.file[i + 1] = w[i + 1]

\* A file that has grown to start.
Padded(w, start) == IF Len(w) < start THEN Ftruncate(w, start) ELSE w

LEMMA PaddedIs ==
    ASSUME NEW w \in Seq(Bytes), NEW start \in Nat
    PROVE  /\ Padded(w, start) \in Seq(Bytes)
           /\ Len(Padded(w, start)) = IF Len(w) < start THEN start ELSE Len(w)
           /\ \A i \in Nat : i < Len(w) => Padded(w, start)[i + 1] = w[i + 1]
           /\ \A i \in Nat : Len(w) <= i /\ i < start => Padded(w, start)[i + 1] = Zero
  <1>1. Len(w) \in Nat
    BY LenProperties
  <1>2. CASE Len(w) < start
    <2> DEFINE f == Ftruncate(w, start)
    <2>1. /\ f \in Seq(Bytes) /\ Len(f) = start
          /\ \A i \in 1 .. start : f[i] = IF i <= Len(w) THEN w[i] ELSE Zero
      BY FtruncateIs
    <2>2. Padded(w, start) = f
      BY <1>2 DEF Padded
    <2> HIDE DEF f
    <2>3. ASSUME NEW i \in Nat, i < start PROVE f[i + 1] = IF i < Len(w) THEN w[i + 1] ELSE Zero
      <3>1. i + 1 \in 1 .. start /\ (i + 1 <= Len(w) <=> i < Len(w))
        BY <1>1, <2>3
      <3> QED BY <2>1, <3>1
    <2> QED BY <1>1, <1>2, <2>1, <2>2, <2>3
  <1>3. CASE ~ Len(w) < start
    BY <1>1, <1>3 DEF Padded
  <1> QED BY <1>2, <1>3

\* What pwrite makes of the padded file.
Overwrites(u, w, start, bytes) ==
    LET stop == start + Len(bytes)
    IN  /\ u \in Seq(Bytes) /\ Len(u) = IF Len(w) < stop THEN stop ELSE Len(w)
        /\ \A i \in Nat : start <= i /\ i < stop => u[i + 1] = bytes[i + 1 - start]
        /\ \A i \in Nat : i < start \/ (stop <= i /\ i < Len(w)) => u[i + 1] = Padded(w, start)[i + 1]

LEMMA PwritePads ==
    ASSUME NEW w \in Seq(Bytes), NEW start \in Nat, NEW bytes \in Seq(Bytes)
    PROVE  Overwrites(Pwrite(w, start, bytes), w, start, bytes)
  <1> DEFINE u == Pwrite(w, start, bytes)
             n == Len(bytes)
             stop == start + n
  <1>1. Len(w) \in Nat /\ n \in Nat /\ stop \in Nat
    BY LenProperties
  <1>2. /\ u \in Seq(Bytes) /\ Len(u) = IF Len(w) < stop THEN stop ELSE Len(w)
        /\ \A i \in 1 .. n : u[start + i] = bytes[i]
        /\ \A i \in 1 .. Len(u) : i <= start \/ stop < i => u[i] = IF i <= Len(w) THEN w[i] ELSE Zero
    BY PwriteIs
  <1>3. /\ \A i \in Nat : i < Len(w) => Padded(w, start)[i + 1] = w[i + 1]
        /\ \A i \in Nat : Len(w) <= i /\ i < start => Padded(w, start)[i + 1] = Zero
    BY PaddedIs
  <1> HIDE DEF u, n
  <1>4. ASSUME NEW i \in Nat, start <= i, i < stop PROVE u[i + 1] = bytes[i + 1 - start]
    <2>1. i + 1 - start \in 1 .. n /\ start + (i + 1 - start) = i + 1
      BY <1>1, <1>4
    <2>2. u[start + (i + 1 - start)] = bytes[i + 1 - start]
      BY <1>2, <2>1
    <2> QED BY <2>1, <2>2
  <1>5. ASSUME NEW i \in Nat, i < start \/ (stop <= i /\ i < Len(w))
        PROVE  u[i + 1] = Padded(w, start)[i + 1]
    <2>1. i + 1 \in 1 .. Len(u) /\ (i + 1 <= start \/ stop < i + 1)
      BY <1>1, <1>2, <1>5
    <2>2. u[i + 1] = IF i + 1 <= Len(w) THEN w[i + 1] ELSE Zero
      BY <1>2, <2>1
    <2>3. CASE i < Len(w)
      BY <1>1, <1>3, <2>2, <2>3
    <2>4. CASE ~ i < Len(w)
      BY <1>1, <1>3, <1>5, <2>2, <2>4
    <2> QED BY <2>3, <2>4
  <1> QED BY <1>2, <1>4, <1>5 DEF Overwrites, u, n

\* Bytes that a file shows when it has grown.
LEMMA GrowShows ==
    ASSUME object \in Seq(Bytes), NEW e \in Entity, NEW w \in Seq(Bytes), Idle(e, w),
           NEW start \in Nat, start <= MaxSize
    PROVE  LET g == GrowTo(e, start)
               v == Padded(w, start)
           IN  /\ g \in Entity /\ SameUpload(e, g) /\ g.is_modify = e.is_modify
               /\ g.map.size = IF e.map.size < start THEN start ELSE e.map.size
               /\ g.map.loaded = e.map.loaded
               /\ Shows(g, v)
               /\ ~ e.is_modify => \A i \in Nat : i < g.map.size => Fetched(g, i) = v[i + 1]
  <1> DEFINE g == GrowTo(e, start)
             v == Padded(w, start)
  <1>1. /\ g \in Entity /\ SameUpload(e, g) /\ g.is_modify = e.is_modify
        /\ g.map.loaded = e.map.loaded
        /\ e.map.size < start => g.map.size = start /\ g.file = Ftruncate(e.file, start)
        /\ ~ e.map.size < start => g = e
    BY GrowIs
  <1>2. /\ e.map.size \in Nat /\ e.file \in Seq(Bytes) /\ Len(e.file) = e.map.size /\ Len(w) = e.map.size
        /\ e.size_orgmeta \in Nat /\ e.size_orgmeta <= e.map.size
        /\ \A i \in e.map.loaded : i \in Nat /\ i < e.map.size
    BY EntityFacts DEF Idle, Shows
  <1>3. /\ \A i \in Nat : i < e.map.size => v[i + 1] = w[i + 1]
        /\ \A i \in Nat : e.map.size <= i /\ i < start => v[i + 1] = Zero
    BY <1>2, PaddedIs
  <1>4. g.map.size = IF e.map.size < start THEN start ELSE e.map.size
    BY <1>1
  <1>5. Len(g.file) = g.map.size
    <2>1. Len(Ftruncate(e.file, start)) = start
      BY <1>2, FtruncateIs
    <2> HIDE DEF g, v
    <2> QED BY <1>1, <1>2, <1>4, <2>1
  <1>6. ASSUME NEW i \in Nat, i < e.map.size PROVE g.file[i + 1] = e.file[i + 1]
    <2>1. CASE e.map.size < start
      <3>1. i + 1 \in 1 .. start /\ i + 1 <= Len(e.file)
        BY <1>2, <1>6, <2>1
      <3>2. Ftruncate(e.file, start)[i + 1] = e.file[i + 1]
        BY <1>2, <3>1, FtruncateIs
      <3> QED BY <1>1, <2>1, <3>2
    <2> QED BY <1>1, <2>1
  <1>7. \A i : Fetched(g, i) = Fetched(e, i)
    BY <1>1, FetchedSame DEF SameUpload
  <1>8. \A i \in Nat : e.map.size <= i => Fetched(e, i) = Zero
    BY <1>2, FetchedIs
  <1> HIDE DEF g, v
  <1>9. ASSUME NEW i \in Nat, i < g.map.size
        PROVE  IF i \in g.map.loaded THEN g.file[i + 1] = v[i + 1] ELSE Fetched(g, i) = v[i + 1]
    <2>1. CASE i < e.map.size
      <3>1. IF i \in e.map.loaded THEN e.file[i + 1] = w[i + 1] ELSE Fetched(e, i) = w[i + 1]
        BY <2>1 DEF Idle, Shows
      <3> QED BY <1>1, <1>3, <1>6, <1>7, <2>1, <3>1
    <2>2. CASE ~ i < e.map.size
      <3>1. i \notin g.map.loaded /\ e.map.size <= i /\ i < start
        BY <1>1, <1>2, <1>4, <1>9, <2>2
      <3> QED BY <1>3, <1>7, <1>8, <3>1
    <2> QED BY <2>1, <2>2
  <1>10. ASSUME ~ e.is_modify, NEW i \in Nat, i < g.map.size PROVE Fetched(g, i) = v[i + 1]
    <2>1. e.size_orgmeta = e.map.size /\ object = w
      BY <1>10 DEF Idle
    <2>2. CASE i < e.map.size
      <3>1. Fetched(e, i) = object[i + 1]
        BY <1>2, <2>1, <2>2, FetchedIs
      <3> QED BY <1>3, <1>7, <2>1, <2>2, <3>1
    <2>3. CASE ~ i < e.map.size
      <3>1. e.map.size <= i /\ i < start
        BY <1>2, <1>4, <1>10, <2>3
      <3> QED BY <1>3, <1>7, <1>8, <3>1
    <2> QED BY <2>2, <2>3
  <1>11. Shows(g, v)
    BY <1>5, <1>9 DEF Shows
  <1> QED BY <1>1, <1>4, <1>10, <1>11 DEF g, v

\* Before the bytes of a write go into an idle file: what precedes them is
\* loaded, and what is not loaded comes from the object.
Before(e, p, v, start) ==
    /\ p \in Entity /\ SameUpload(e, p) /\ Shows(p, v)
    /\ p.map.size = IF e.map.size < start THEN start ELSE e.map.size
    /\ \A i \in Nat : i < start => i \in p.map.loaded
    /\ \A i \in Nat : i < e.map.size /\ i \notin p.map.loaded => i < e.size_orgmeta

LEMMA PrepareLoads ==
    ASSUME object \in Seq(Bytes), NEW e \in Entity, NEW w \in Seq(Bytes), Idle(e, w),
           NEW start \in Nat, start <= MaxSize,
           NEW p \in Prepare(GrowTo(e, start), start), p.ok, ~ p.ent.upload_id
    PROVE  Before(e, p.ent, Padded(w, start), start)
  <1> DEFINE g == GrowTo(e, start)
             v == Padded(w, start)
  <1>1. /\ g \in Entity /\ SameUpload(e, g) /\ g.is_modify = e.is_modify
        /\ g.map.size = IF e.map.size < start THEN start ELSE e.map.size
        /\ g.map.loaded = e.map.loaded
        /\ Shows(g, v)
        /\ ~ e.is_modify => \A i \in Nat : i < g.map.size => Fetched(g, i) = v[i + 1]
    BY GrowShows
  <1>2. /\ e.is_modify => \A i \in Nat : i < e.map.size => i \in e.map.loaded
        /\ ~ e.is_modify => e.size_orgmeta = e.map.size
        /\ ~ e.upload_id /\ e.map.size \in Nat
    BY EntityFacts DEF Idle, AllLoaded
  <1>3. \/ g.upload_id /\ p = Ok(g)
        \/ \E f \in Reserved(g) : (0 < start /\ p \in Load(f, 0, start)) \/ (start = 0 /\ p = Ok(f))
        \/ \E f \in NotReserved(g) : \E r \in NoCachePreMultipartPost(f) :
              \/ ~ r.ok /\ p = r
              \/ r.ok /\ \E q \in NoCacheLoadAndPost(r.ent, start) :
                    (~ q.ok /\ p = q) \/ (q.ok /\ p = Ok(PartsFrom(q.ent, start)))
    BY PrepareIs
  <1> HIDE DEF g, v
  <1>4. ~ g.upload_id
    BY <1>1, <1>2 DEF SameUpload
  <1>5. ASSUME NEW f \in NotReserved(g), NEW r \in NoCachePreMultipartPost(f), r.ok,
               NEW q \in NoCacheLoadAndPost(r.ent, start), q.ok, p = Ok(PartsFrom(q.ent, start))
        PROVE  FALSE
    <2>1. f \in Entity
      BY <1>1, ReservedIs, DropIs
    <2>2. r \in Outcome /\ r.ent.upload_id = TRUE
      BY <1>5, <2>1, PreIs
    <2>3. q \in Outcome /\ q.ent \in Entity /\ q.ent.upload_id = r.ent.upload_id
      BY <2>2, LoopType DEF Outcome, Kept
    <2> DEFINE x == PartsFrom(q.ent, start)
    <2>4. x \in Entity /\ x.upload_id = q.ent.upload_id
      <3>1. StartsAt(q.ent, x, start)
        BY <2>3, PartsFromIs
      <3> HIDE DEF x
      <3> QED BY <3>1 DEF StartsAt
    <2>5. p = Ok(x)
      BY <1>5
    <2> HIDE DEF x
    <2>6. p.ent = x
      BY <2>4, <2>5, OutcomeOf
    <2> QED BY <2>2, <2>3, <2>4, <2>6
  <1>6. PICK f \in Reserved(g) : (0 < start /\ p \in Load(f, 0, start)) \/ (start = 0 /\ p = Ok(f))
    BY <1>3, <1>4, <1>5
  <1>7. /\ f \in Entity /\ Same(g, f) /\ Shows(f, v) /\ f.map.size = g.map.size
        /\ e.is_modify => f = g
    <2>1. f = g \/ (f = DropPages(g) /\ ~ g.is_modify)
      BY <1>6, ReservedIs
    <2>2. CASE f = g
      BY <1>1, <2>2 DEF Same
    <2>3. CASE f = DropPages(g) /\ ~ g.is_modify
      <3>1. f \in Entity /\ Same(g, f)
        BY <1>1, <2>3, DropIs
      <3>2. Shows(f, v)
        BY <1>1, <2>3, DropShows
      <3> QED BY <1>1, <2>3, <3>1, <3>2 DEF Same
    <2> QED BY <2>1, <2>2, <2>3
  <1>8. /\ p.ent \in Entity /\ Same(f, p.ent) /\ Shows(p.ent, v) /\ f.map.loaded \subseteq p.ent.map.loaded
        /\ \A i \in Nat : i < start => i \in p.ent.map.loaded
    <2>1. CASE 0 < start /\ p \in Load(f, 0, start)
      <3>1. Fits(f)
        <4>1. Len(f.file) = f.map.size /\ Len(f.file) \in Nat
          BY <1>7, EntityFacts DEF Shows
        <4> QED BY <4>1 DEF Fits
      <3>2. p \in Outcome /\ Same(f, p.ent)
        BY <1>7, <2>1, <3>1, LoadType
      <3>3. /\ Shows(p.ent, v) /\ f.map.loaded \subseteq p.ent.map.loaded
            /\ \A i \in Nat : i < f.map.size /\ 0 <= i /\ i < 0 + start => i \in p.ent.map.loaded
        BY <1>7, <2>1, LoadShows
      <3>4. start <= f.map.size /\ f.map.size \in Nat
        BY <1>1, <1>2, <1>7, EntityFacts
      <3>5. \A i \in Nat : i < start => i < f.map.size /\ 0 <= i /\ i < 0 + start
        BY <3>4
      <3> QED BY <3>2, <3>3, <3>5 DEF Outcome
    <2>2. CASE start = 0 /\ p = Ok(f)
      <3>1. p.ent = f
        BY <1>7, <2>2, OutcomeOf
      <3> QED BY <1>7, <2>2, <3>1 DEF Same
    <2> QED BY <1>6, <2>1, <2>2
  <1>9. \A i \in Nat : i < e.map.size /\ i \notin p.ent.map.loaded => i < e.size_orgmeta
    <2>1. CASE e.is_modify
      BY <1>1, <1>2, <1>7, <1>8, <2>1
    <2>2. CASE ~ e.is_modify
      BY <1>2, <2>2
    <2> QED BY <2>1, <2>2
  <1>10. SameUpload(e, p.ent) /\ p.ent.map.size = g.map.size
    BY <1>1, <1>7, <1>8 DEF Same, SameUpload
  <1> QED BY <1>1, <1>8, <1>9, <1>10 DEF Before, v

\* With the bytes of the write in the file it shows what the write asks for.
LEMMA WrittenShows ==
    ASSUME NEW e \in Entity, NEW w \in Seq(Bytes), Len(w) = e.map.size,
           NEW start \in Nat, NEW bytes \in Seq(Bytes), start + Len(bytes) <= MaxSize,
           NEW p, Before(e, p, Padded(w, start), start)
    PROVE  LET h == Written(p, start, bytes)
               u == Pwrite(w, start, bytes)
               stop == start + Len(bytes)
           IN  /\ h \in Entity /\ SameUpload(e, h) /\ h.is_modify = TRUE
               /\ u \in Seq(Bytes) /\ Len(u) = h.map.size /\ Shows(h, u)
               /\ h.map.size = IF e.map.size < stop THEN stop ELSE e.map.size
               /\ \A i \in Nat : i < stop => i \in h.map.loaded
               /\ \A i \in Nat : i < e.map.size /\ i \notin h.map.loaded => i < e.size_orgmeta
  <1> DEFINE h == Written(p, start, bytes)
             u == Pwrite(w, start, bytes)
             v == Padded(w, start)
             n == Len(bytes)
             stop == start + n
  <1>1. /\ p \in Entity /\ SameUpload(e, p) /\ Shows(p, v)
        /\ p.map.size = IF e.map.size < start THEN start ELSE e.map.size
        /\ \A i \in Nat : i < start => i \in p.map.loaded
        /\ \A i \in Nat : i < e.map.size /\ i \notin p.map.loaded => i < e.size_orgmeta
    BY DEF Before
  <1>2. /\ n \in Nat /\ stop \in Nat /\ start <= stop /\ e.map.size \in Nat /\ p.map.size \in Nat
        /\ p.file \in Seq(Bytes) /\ Len(p.file) = p.map.size
    BY <1>1, EntityFacts, LenProperties DEF Shows
  <1>3. /\ h \in Entity /\ SameUpload(p, h) /\ h.is_modify = TRUE /\ h.file = Pwrite(p.file, start, bytes)
        /\ h.map.size = IF p.map.size < stop THEN stop ELSE p.map.size
        /\ \A i \in Nat : i \in h.map.loaded <=> i \in p.map.loaded \/ (start <= i /\ i < stop)
    BY <1>1, WrittenIs
  <1>4. h.map.size = IF e.map.size < stop THEN stop ELSE e.map.size
    BY <1>1, <1>2, <1>3
  <1>5. /\ u \in Seq(Bytes) /\ Len(u) = IF e.map.size < stop THEN stop ELSE e.map.size
        /\ \A i \in Nat : start <= i /\ i < stop => u[i + 1] = bytes[i + 1 - start]
        /\ \A i \in Nat : i < start \/ (stop <= i /\ i < e.map.size) => u[i + 1] = v[i + 1]
    <2>1. Overwrites(u, w, start, bytes)
      BY PwritePads
    <2> HIDE DEF u, v
    <2> QED BY <2>1 DEF Overwrites, v
  <1>6. /\ Len(h.file) = IF p.map.size < stop THEN stop ELSE p.map.size
        /\ \A i \in Nat : start <= i /\ i < stop => h.file[i + 1] = bytes[i + 1 - start]
        /\ \A i \in Nat : i < start \/ (stop <= i /\ i < p.map.size) => h.file[i + 1] = Padded(p.file, start)[i + 1]
    <2>1. Overwrites(h.file, p.file, start, bytes)
      BY <1>2, <1>3, PwritePads
    <2> HIDE DEF h
    <2> QED BY <1>2, <2>1 DEF Overwrites
  <1>7. \A i \in Nat : i < p.map.size => Padded(p.file, start)[i + 1] = p.file[i + 1]
    <2>1. \A i \in Nat : i < Len(p.file) => Padded(p.file, start)[i + 1] = p.file[i + 1]
      BY <1>2, PaddedIs
    <2> QED BY <1>2, <2>1
  <1> HIDE DEF h, u, v, n
  <1>8. ASSUME NEW i \in Nat, i < h.map.size
        PROVE  IF i \in h.map.loaded THEN h.file[i + 1] = u[i + 1] ELSE Fetched(h, i) = u[i + 1]
    <2>1. CASE start <= i /\ i < stop
      BY <1>3, <1>5, <1>6, <2>1
    <2>2. CASE ~(start <= i /\ i < stop)
      <3>1. i < start \/ (stop <= i /\ i < e.map.size /\ i < p.map.size)
        BY <1>1, <1>2, <1>4, <1>8, <2>2
      <3>2. i < p.map.size
        BY <1>1, <1>2, <3>1
      <3>3. u[i + 1] = v[i + 1] /\ h.file[i + 1] = p.file[i + 1]
        BY <1>5, <1>6, <1>7, <3>1, <3>2
      <3>4. IF i \in p.map.loaded THEN p.file[i + 1] = v[i + 1] ELSE Fetched(p, i) = v[i + 1]
        BY <1>1, <3>2 DEF Shows
      <3>5. Fetched(h, i) = Fetched(p, i)
        BY <1>3, FetchedSame DEF SameUpload
      <3> QED BY <1>3, <2>2, <3>3, <3>4, <3>5
    <2> QED BY <2>1, <2>2
  <1>9. Shows(h, u)
    <2>1. Len(h.file) = h.map.size
      BY <1>3, <1>6
    <2> QED BY <1>8, <2>1 DEF Shows
  <1>10. SameUpload(e, h)
    BY <1>1, <1>3 DEF SameUpload
  <1>11. \A i \in Nat : i < stop => i \in h.map.loaded
    BY <1>1, <1>2, <1>3
  <1>12. \A i \in Nat : i < e.map.size /\ i \notin h.map.loaded => i < e.size_orgmeta
    BY <1>1, <1>3
  <1> QED BY <1>3, <1>4, <1>5, <1>9, <1>10, <1>11, <1>12 DEF h, u, n

\* A write that finds space leaves an idle file that is what it asked for.
LEMMA WriteIdle ==
    ASSUME object \in Seq(Bytes), NEW e \in Entity, NEW w \in Seq(Bytes), Idle(e, w),
           NEW start \in Nat, NEW bytes \in Seq(Bytes), start + Len(bytes) <= MaxSize,
           NEW p \in Prepare(GrowTo(e, start), start), p.ok, ~ p.ent.upload_id,
           NEW q \in LoadAfter(Written(p.ent, start, bytes), start + Len(bytes)), q.ok
    PROVE  Idle(q.ent, Pwrite(w, start, bytes))
  <1> DEFINE h == Written(p.ent, start, bytes)
             u == Pwrite(w, start, bytes)
             stop == start + Len(bytes)
  <1>1. /\ e.map.size \in Nat /\ Len(w) = e.map.size /\ e.size_orgmeta <= e.map.size
        /\ ~ e.upload_id /\ e.etaglist = << >> /\ e.mp_start = 0 /\ e.mp_size = 0
        /\ Len(bytes) \in Nat /\ stop \in Nat /\ start <= MaxSize /\ e.size_orgmeta \in Nat
    <2>1. Len(bytes) \in Nat
      BY LenProperties
    <2>2. e.map.size \in Nat /\ e.size_orgmeta \in Nat
      BY EntityFacts
    <2> QED BY <2>1, <2>2 DEF Idle
  <1>2. Before(e, p.ent, Padded(w, start), start)
    BY <1>1, PrepareLoads
  <1>3. /\ h \in Entity /\ SameUpload(e, h) /\ h.is_modify = TRUE
        /\ u \in Seq(Bytes) /\ Len(u) = h.map.size /\ Shows(h, u)
        /\ h.map.size = IF e.map.size < stop THEN stop ELSE e.map.size
        /\ \A i \in Nat : i < stop => i \in h.map.loaded
        /\ \A i \in Nat : i < e.map.size /\ i \notin h.map.loaded => i < e.size_orgmeta
    BY <1>1, <1>2, WrittenShows
  <1>4. \/ stop < h.map.size /\ q \in Load(h, stop, h.map.size)
        \/ ~ stop < h.map.size /\ q = Ok(h)
    BY LoadAfterIs
  <1> HIDE DEF h, u, stop
  <1>5. /\ q.ent \in Entity /\ Shows(q.ent, u) /\ AllLoaded(q.ent) /\ q.ent.is_modify = TRUE
        /\ q.ent.map.size = h.map.size /\ SameUpload(h, q.ent)
    <2>1. CASE stop < h.map.size /\ q \in Load(h, stop, h.map.size)
      <3>1. Fits(h) /\ h.map.size \in Nat
        <4>1. Len(h.file) = h.map.size /\ h.map.size \in Nat
          BY <1>3, EntityFacts DEF Shows
        <4> QED BY <4>1 DEF Fits
      <3>2. q \in Outcome /\ Same(h, q.ent)
        BY <1>1, <1>3, <2>1, <3>1, LoadType
      <3>3. /\ Shows(q.ent, u) /\ h.map.loaded \subseteq q.ent.map.loaded
            /\ \A i \in Nat : i < h.map.size /\ stop <= i /\ i < stop + h.map.size => i \in q.ent.map.loaded
            /\ (\A i \in Nat : i < h.map.size /\ stop <= i /\ i \notin h.map.loaded => i < h.size_orgmeta)
                 => q.ent.is_modify = h.is_modify
        BY <1>1, <1>3, <2>1, <3>1, LoadShows
      <3>4. h.map.size = e.map.size /\ h.size_orgmeta = e.size_orgmeta
        BY <1>1, <1>3, <2>1 DEF SameUpload
      <3>5. q.ent.is_modify = TRUE
        BY <1>3, <3>3, <3>4
      <3>6. ASSUME NEW i \in Nat, i < h.map.size PROVE i \in q.ent.map.loaded
        <4>1. CASE i < stop
          BY <1>3, <3>3, <4>1
        <4>2. CASE ~ i < stop
          <5>1. stop <= i /\ i < stop + h.map.size
            BY <1>1, <3>1, <3>6, <4>2
          <5> QED BY <3>3, <3>6, <5>1
        <4> QED BY <4>1, <4>2
      <3>7. q.ent.map.size = h.map.size /\ SameUpload(h, q.ent)
        BY <3>2 DEF Same, SameUpload
      <3>8. AllLoaded(q.ent)
        BY <3>6, <3>7 DEF AllLoaded
      <3> QED BY <3>2, <3>3, <3>5, <3>7, <3>8 DEF Outcome
    <2>2. CASE ~ stop < h.map.size /\ q = Ok(h)
      <3>1. q.ent = h
        BY <1>3, <2>2, OutcomeOf
      <3>2. h.map.size = stop
        BY <1>1, <1>3, <2>2
      <3>3. AllLoaded(h)
        BY <1>3, <3>2 DEF AllLoaded
      <3> QED BY <1>3, <3>1, <3>3 DEF SameUpload
    <2> QED BY <1>4, <2>1, <2>2
  <1>6. e.size_orgmeta <= h.map.size
    BY <1>1, <1>3
  <1>7. Idle(q.ent, u)
    BY <1>1, <1>3, <1>5, <1>6 DEF Idle, SameUpload
  <1> QED BY <1>7 DEF u

LEMMA CoversSame ==
    ASSUME NEW list, NEW v, NEW w, NEW n \in Nat, Covers(list, v, n),
           \A i \in Nat : i < n => w[i + 1] = v[i + 1]
    PROVE  Covers(list, w, n)
  <1>1. ASSUME NEW i \in 1 .. n PROVE w[i] = v[i]
    <2>1. i - 1 \in Nat /\ i - 1 < n /\ (i - 1) + 1 = i
      OBVIOUS
    <2>2. w[(i - 1) + 1] = v[(i - 1) + 1]
      BY <2>1
    <2> QED BY <2>1, <2>2
  <1> QED BY <1>1 DEF Covers

\* A part has been added that extends what is covered.
Extends(f, w, o) ==
    /\ o \in Outcome /\ o.ent.map = f.map /\ InLoop(f, o.ent) /\ o.ent.is_modify = f.is_modify
    /\ Covers(o.ent.etaglist, w, f.mp_start + f.mp_size) /\ NoneEmpty(o.ent.etaglist)
    /\ \E p \in Part : p.etag = o.ok /\ o.ent.etaglist = Append(f.etaglist, p)

\* The next part is what the file has after mp_start.
LEMMA PostMore ==
    ASSUME NEW f \in Entity, NEW w, Covers(f.etaglist, w, f.mp_start), NoneEmpty(f.etaglist),
           f.mp_size # 0, f.mp_start + f.mp_size <= Len(f.file),
           \A i \in Nat : f.mp_start <= i /\ i < f.mp_start + f.mp_size => f.file[i + 1] = w[i + 1],
           NEW o \in PostFrom(f)
    PROVE  Extends(f, w, o)
  <1> DEFINE stop == f.mp_start + f.mp_size
             body == Area(f.file, f.mp_start, stop)
             part == [body |-> body, etag |-> o.ok]
  <1>1. /\ f.file \in Seq(Bytes) /\ f.mp_start \in Nat /\ f.mp_size \in Nat /\ f.etaglist \in Seq(Part)
        /\ stop \in Nat /\ f.mp_start <= stop /\ stop - f.mp_start = f.mp_size
    BY EntityFacts
  <1>0. stop <= Len(f.file)
    OBVIOUS
  <1>2. body \in Seq(Bytes) /\ PostResult(f, body, f.mp_size, o)
    BY PostFromType
  <1>3. /\ Len(body) = f.mp_size
        /\ \A i \in 1 .. stop - f.mp_start : body[i] = f.file[f.mp_start + i]
    <2> HIDE DEF stop
    <2>1. /\ Len(body) = stop - f.mp_start
          /\ \A i \in 1 .. stop - f.mp_start : body[i] = f.file[f.mp_start + i]
      <3>1. IsArea(body, f.file, f.mp_start, stop)
        BY <1>1, AreaIs
      <3> QED BY <1>0, <3>1 DEF IsArea
    <2> HIDE DEF body
    <2> QED BY <1>1, <2>1
  <1> HIDE DEF body
  <1>4. /\ o \in Outcome /\ o.ent.map = f.map /\ InLoop(f, o.ent) /\ o.ent.is_modify = f.is_modify
        /\ o.ent.etaglist = Append(f.etaglist, part)
    BY <1>2 DEF PostResult
  <1>5. part \in Part /\ part.body = body /\ part.etag = o.ok
    <2>1. o.ok \in BOOLEAN
      BY <1>4 DEF Outcome
    <2> QED BY <1>2, <2>1, PartOf
  <1> HIDE DEF part
  <1>6. ASSUME NEW i \in 1 .. Len(part.body) PROVE part.body[i] = w[f.mp_start + i]
    <2> DEFINE k == f.mp_start + i - 1
    <2>1. /\ i \in 1 .. stop - f.mp_start /\ k \in Nat /\ k + 1 = f.mp_start + i
          /\ f.mp_start <= k /\ k < f.mp_start + f.mp_size
      BY <1>1, <1>3, <1>5
    <2>2. body[i] = f.file[f.mp_start + i]
      BY <1>3, <2>1
    <2> HIDE DEF k
    <2>3. f.file[k + 1] = w[k + 1]
      BY <2>1
    <2> QED BY <1>5, <2>1, <2>2, <2>3
  <1>7. Covers(Append(f.etaglist, part), w, f.mp_start + Len(part.body))
    BY <1>1, <1>5, <1>6, CoversMore
  <1>8. NoneEmpty(Append(f.etaglist, part))
    <2>1. Len(part.body) # 0
      BY <1>3, <1>5
    <2> QED BY <1>1, <1>5, <2>1, NoneEmptyMore
  <1>9. \E p \in Part : p.etag = o.ok /\ o.ent.etaglist = Append(f.etaglist, p)
    BY <1>4, <1>5
  <1>10. Len(part.body) = f.mp_size
    BY <1>3, <1>5
  <1> QED BY <1>4, <1>7, <1>8, <1>9, <1>10 DEF Extends

\* The bytes of a write are in the file of an open upload, and not counted yet.
Ready(h, u, len) ==
    /\ h \in Entity /\ h.upload_id /\ h.is_modify /\ AllLoaded(h)
    /\ Len(u) = h.map.size /\ Len(h.file) = h.map.size
    /\ h.mp_start + h.mp_size + len = h.map.size
    /\ Covers(h.etaglist, u, h.mp_start) /\ NoneEmpty(h.etaglist)
    /\ \A i \in Nat : h.mp_start <= i /\ i < h.map.size => h.file[i + 1] = u[i + 1]

LEMMA PostWrittenUploads ==
    ASSUME NEW h, NEW u, NEW len \in Nat \ {0}, Ready(h, u, len), NEW o \in PostWritten(h, len), o.ok
    PROVE  Uploading(o.ent, u)
  <1> DEFINE f == Waiting(h, len)
             stop == f.mp_start + f.mp_size
  <1>1. /\ f \in Entity /\ f.file = h.file /\ f.map = h.map /\ f.is_modify = h.is_modify
        /\ f.upload_id = h.upload_id /\ f.etaglist = h.etaglist
        /\ f.mp_start = h.mp_start /\ f.mp_size = h.mp_size + len
    BY WaitingIs DEF Ready
  <1>2. \/ ~ h.upload_id /\ o = Ok(h)
        \/ h.upload_id /\ f.mp_size < MultipartSize /\ o = Ok(f)
        \/ /\ h.upload_id
           /\ \E p \in PostFrom(f) : (~ p.ok /\ o = p) \/ (p.ok /\ o = Ok(PartsGoneFrom(p.ent, stop)))
    BY PostWrittenIs
  <1> HIDE DEF f
  <1>3. /\ h.mp_start \in Nat /\ h.mp_size \in Nat /\ h.map.size \in Nat /\ f.mp_size # 0
        /\ stop = f.map.size /\ stop \in Nat
    <2>1. h.mp_start \in Nat /\ h.mp_size \in Nat /\ h.map.size \in Nat
      BY EntityFacts DEF Ready
    <2>2. h.mp_start + h.mp_size + len = h.map.size
      BY DEF Ready
    <2>3. h.mp_start + (h.mp_size + len) = h.map.size
      BY <2>1, <2>2
    <2> QED BY <1>1, <2>1, <2>3
  <1>4. /\ f.upload_id /\ f.is_modify /\ AllLoaded(f)
        /\ Len(u) = f.map.size /\ Len(f.file) = f.map.size
        /\ Covers(f.etaglist, u, f.mp_start) /\ NoneEmpty(f.etaglist)
        /\ \A i \in Nat : f.mp_start <= i /\ i < f.map.size => f.file[i + 1] = u[i + 1]
    BY <1>1 DEF Ready, AllLoaded
  <1>5. CASE f.mp_size < MultipartSize /\ o = Ok(f)
    <2>1. o.ent = f
      BY <1>1, <1>5, OutcomeOf
    <2> QED BY <1>3, <1>4, <1>5, <2>1 DEF Uploading
  <1>6. ASSUME NEW p \in PostFrom(f), (~ p.ok /\ o = p) \/ (p.ok /\ o = Ok(PartsGoneFrom(p.ent, stop)))
        PROVE  Uploading(o.ent, u)
    <2>1. o = Ok(PartsGoneFrom(p.ent, stop))
      BY <1>6
    <2>2. stop <= Len(f.file) /\ \A i \in Nat : f.mp_start <= i /\ i < stop => f.file[i + 1] = u[i + 1]
      BY <1>3, <1>4
    <2>3. /\ p \in Outcome /\ p.ent.map = f.map /\ InLoop(f, p.ent) /\ p.ent.is_modify = f.is_modify
          /\ Covers(p.ent.etaglist, u, stop) /\ NoneEmpty(p.ent.etaglist)
      <3>1. Extends(f, u, p)
        BY <1>1, <1>3, <1>4, <2>2, PostMore
      <3> QED BY <3>1 DEF Extends
    <2> DEFINE g == PartsGoneFrom(p.ent, stop)
    <2> HIDE DEF stop
    <2>4. /\ g \in Entity /\ Len(g.file) = stop /\ g.map = p.ent.map /\ g.is_modify = p.ent.is_modify
          /\ g.upload_id = p.ent.upload_id /\ g.etaglist = p.ent.etaglist
          /\ g.mp_start = stop /\ g.mp_size = 0
      <3>1. p.ent \in Entity
        BY <2>3 DEF InLoop
      <3>2. GoneTo(p.ent, g, stop)
        BY <1>3, <3>1, PartsGoneIs
      <3> HIDE DEF g
      <3> QED BY <3>2 DEF GoneTo
    <2> HIDE DEF g
    <2>5. o.ent = g
      BY <2>1, <2>4, OutcomeOf DEF g
    <2>6. g.upload_id /\ g.is_modify /\ AllLoaded(g) /\ g.map = f.map
      BY <1>4, <2>3, <2>4 DEF InLoop, AllLoaded
    <2>7. /\ Len(u) = g.map.size /\ Len(g.file) = g.map.size
          /\ g.mp_start + g.mp_size = g.map.size /\ g.mp_size < MultipartSize
          /\ Covers(g.etaglist, u, g.mp_start) /\ NoneEmpty(g.etaglist)
      BY <1>3, <1>4, <2>3, <2>4, <2>6
    <2>8. \A i \in Nat : g.mp_start <= i /\ i < g.map.size => FALSE
      BY <1>3, <2>4, <2>6
    <2> QED BY <2>5, <2>6, <2>7, <2>8 DEF Uploading
  <1>7. h.upload_id
    BY DEF Ready
  <1> HIDE DEF stop
  <1> QED BY <1>2, <1>5, <1>6, <1>7

\* Before the bytes of a write are appended to an upload: the parts and the
\* file are what precedes them.
Appending(p, v, start) ==
    /\ p \in Entity /\ p.upload_id /\ AllLoaded(p) /\ p.map.size = start /\ Len(p.file) <= start
    /\ p.mp_start + p.mp_size = start
    /\ Covers(p.etaglist, v, p.mp_start) /\ NoneEmpty(p.etaglist)
    /\ \A i \in Nat : p.mp_start <= i /\ i < start => i < Len(p.file) /\ p.file[i + 1] = v[i + 1]

LEMMA WriteReady ==
    ASSUME NEW w \in Seq(Bytes), NEW start \in Nat, Len(w) <= start,
           NEW bytes \in Seq(Bytes), Len(bytes) # 0, start + Len(bytes) <= MaxSize,
           NEW p, Appending(p, Padded(w, start), start),
           NEW q \in LoadAfter(Written(p, start, bytes), start + Len(bytes))
    PROVE  Ready(q.ent, Pwrite(w, start, bytes), Len(bytes))
  <1> DEFINE h == Written(p, start, bytes)
             u == Pwrite(w, start, bytes)
             v == Padded(w, start)
             n == Len(bytes)
             stop == start + n
  <1>1. /\ p \in Entity /\ p.upload_id /\ AllLoaded(p) /\ p.map.size = start /\ Len(p.file) <= start
        /\ p.mp_start + p.mp_size = start
        /\ Covers(p.etaglist, v, p.mp_start) /\ NoneEmpty(p.etaglist)
        /\ \A i \in Nat : p.mp_start <= i /\ i < start => i < Len(p.file) /\ p.file[i + 1] = v[i + 1]
    BY DEF Appending
  <1>2. /\ n \in Nat /\ n # 0 /\ stop \in Nat /\ start < stop /\ Len(w) \in Nat
        /\ p.file \in Seq(Bytes) /\ Len(p.file) \in Nat /\ p.mp_start \in Nat /\ p.mp_size \in Nat
    <2>1. n \in Nat /\ Len(w) \in Nat
      BY LenProperties
    <2>2. p.file \in Seq(Bytes) /\ Len(p.file) \in Nat /\ p.mp_start \in Nat /\ p.mp_size \in Nat
      BY <1>1, EntityFacts
    <2> QED BY <2>1, <2>2
  <1>3. /\ h \in Entity /\ SameUpload(p, h) /\ h.is_modify = TRUE /\ h.file = Pwrite(p.file, start, bytes)
        /\ h.map.size = IF p.map.size < stop THEN stop ELSE p.map.size
        /\ \A i \in Nat : i \in h.map.loaded <=> i \in p.map.loaded \/ (start <= i /\ i < stop)
    BY <1>1, WrittenIs
  <1>4. /\ u \in Seq(Bytes) /\ Len(u) = IF Len(w) < stop THEN stop ELSE Len(w)
        /\ \A i \in Nat : start <= i /\ i < stop => u[i + 1] = bytes[i + 1 - start]
        /\ \A i \in Nat : i < start \/ (stop <= i /\ i < Len(w)) => u[i + 1] = v[i + 1]
    <2>1. Overwrites(u, w, start, bytes)
      BY PwritePads
    <2> HIDE DEF u, v
    <2> QED BY <2>1 DEF Overwrites, v
  <1>5. /\ Len(h.file) = IF Len(p.file) < stop THEN stop ELSE Len(p.file)
        /\ \A i \in Nat : start <= i /\ i < stop => h.file[i + 1] = bytes[i + 1 - start]
        /\ \A i \in Nat : i < start \/ (stop <= i /\ i < Len(p.file)) => h.file[i + 1] = Padded(p.file, start)[i + 1]
    <2>1. Overwrites(h.file, p.file, start, bytes)
      BY <1>2, <1>3, PwritePads
    <2> HIDE DEF h
    <2> QED BY <1>2, <2>1 DEF Overwrites
  <1>6. \A i \in Nat : i < Len(p.file) => Padded(p.file, start)[i + 1] = p.file[i + 1]
    BY <1>2, PaddedIs
  <1>7. \/ stop < h.map.size /\ q \in Load(h, stop, h.map.size)
        \/ ~ stop < h.map.size /\ q = Ok(h)
    BY LoadAfterIs
  <1> HIDE DEF h, u, v, n
  <1>8. h.map.size = stop /\ Len(u) = stop /\ Len(h.file) = stop
    BY <1>1, <1>2, <1>3, <1>4, <1>5
  <1>9. q.ent = h
    <2>1. q = Ok(h)
      BY <1>2, <1>7, <1>8
    <2> QED BY <1>3, <2>1, OutcomeOf
  <1>10. AllLoaded(h)
    <2>1. ASSUME NEW i \in Nat, i < stop PROVE i \in h.map.loaded
      <3>1. CASE i < start
        BY <1>1, <1>3, <3>1 DEF AllLoaded
      <3>2. CASE ~ i < start
        BY <1>2, <1>3, <2>1, <3>2
      <3> QED BY <3>1, <3>2
    <2> QED BY <1>8, <2>1 DEF AllLoaded
  <1>11. Covers(h.etaglist, u, h.mp_start)
    <2>1. p.mp_start <= start
      BY <1>1, <1>2
    <2>2. \A i \in Nat : i < p.mp_start => u[i + 1] = v[i + 1]
      BY <1>2, <1>4, <2>1
    <2>3. Covers(p.etaglist, u, p.mp_start)
      BY <1>1, <1>2, <2>2, CoversSame
    <2> QED BY <1>3, <2>3 DEF SameUpload
  <1>12. ASSUME NEW i \in Nat, h.mp_start <= i, i < stop PROVE h.file[i + 1] = u[i + 1]
    <2>1. CASE i < start
      <3>1. p.mp_start <= i
        BY <1>3, <1>12 DEF SameUpload
      <3>2. i < Len(p.file) /\ p.file[i + 1] = v[i + 1]
        BY <1>1, <2>1, <3>1
      <3> QED BY <1>4, <1>5, <1>6, <2>1, <3>2
    <2>2. CASE ~ i < start
      BY <1>2, <1>4, <1>5, <1>12, <2>2
    <2> QED BY <2>1, <2>2
  <1>13. h.mp_start + h.mp_size + n = stop
    BY <1>1, <1>3 DEF SameUpload
  <1>14. h.upload_id /\ h.is_modify /\ NoneEmpty(h.etaglist)
    BY <1>1, <1>3 DEF SameUpload
  <1>15. Ready(h, u, n)
    BY <1>3, <1>8, <1>10, <1>11, <1>12, <1>13, <1>14 DEF Ready
  <1> QED BY <1>9, <1>15 DEF n, u

\* Without space at a write behind the end the upload begins with all that
\* the file shows.
LEMMA PrepareBegins ==
    ASSUME object \in Seq(Bytes), NEW e \in Entity, NEW w \in Seq(Bytes), Idle(e, w),
           NEW start \in Nat, e.map.size <= start, start <= MaxSize,
           NEW p \in Prepare(GrowTo(e, start), start), p.ok, p.ent.upload_id
    PROVE  Appending(p.ent, Padded(w, start), start)
  <1> DEFINE g == GrowTo(e, start)
             v == Padded(w, start)
  <1>1. /\ g \in Entity /\ SameUpload(e, g) /\ g.is_modify = e.is_modify
        /\ g.map.size = IF e.map.size < start THEN start ELSE e.map.size
        /\ Shows(g, v)
        /\ ~ e.is_modify => \A i \in Nat : i < g.map.size => Fetched(g, i) = v[i + 1]
    BY GrowShows
  <1>2. ~ e.upload_id /\ e.map.size \in Nat
    BY EntityFacts DEF Idle
  <1>3. \/ g.upload_id /\ p = Ok(g)
        \/ \E f \in Reserved(g) : (0 < start /\ p \in Load(f, 0, start)) \/ (start = 0 /\ p = Ok(f))
        \/ \E f \in NotReserved(g) : \E r \in NoCachePreMultipartPost(f) :
              \/ ~ r.ok /\ p = r
              \/ r.ok /\ \E q \in NoCacheLoadAndPost(r.ent, start) :
                    (~ q.ok /\ p = q) \/ (q.ok /\ p = Ok(PartsFrom(q.ent, start)))
    BY PrepareIs
  <1> HIDE DEF g, v
  <1>4. ~ g.upload_id /\ g.map.size = start
    BY <1>1, <1>2 DEF SameUpload
  <1>5. \A f \in Reserved(g) \cup NotReserved(g) :
            f \in Entity /\ ~ f.upload_id /\ f.map.size = start /\ Shows(f, v) /\ Fits(f)
    <2> SUFFICES ASSUME NEW f \in Reserved(g) \cup NotReserved(g)
                 PROVE  f \in Entity /\ ~ f.upload_id /\ f.map.size = start /\ Shows(f, v) /\ Fits(f)
      OBVIOUS
    <2>1. f = g \/ (f = DropPages(g) /\ ~ g.is_modify)
      BY ReservedIs
    <2>2. f \in Entity /\ ~ f.upload_id /\ f.map.size = start /\ Shows(f, v)
      <3>1. CASE f = g
        BY <1>1, <1>4, <3>1
      <3>2. CASE f = DropPages(g) /\ ~ g.is_modify
        <4>1. f \in Entity /\ Same(g, f)
          BY <1>1, <3>2, DropIs
        <4>2. Shows(f, v)
          BY <1>1, <3>2, DropShows
        <4> QED BY <1>4, <4>1, <4>2 DEF Same
      <3> QED BY <2>1, <3>1, <3>2
    <2>3. Fits(f)
      BY <2>2 DEF Fits, Shows
    <2> QED BY <2>2, <2>3
  <1>6. ASSUME NEW f \in Reserved(g), (0 < start /\ p \in Load(f, 0, start)) \/ (start = 0 /\ p = Ok(f))
        PROVE  FALSE
    <2>1. f \in Entity /\ ~ f.upload_id /\ Fits(f)
      BY <1>5
    <2>2. CASE p \in Load(f, 0, start)
      <3>1. Same(f, p.ent)
        BY <2>1, <2>2, LoadType
      <3> QED BY <2>1, <3>1 DEF Same
    <2>3. CASE p = Ok(f)
      <3>1. p.ent = f
        BY <2>1, <2>3, OutcomeOf
      <3> QED BY <2>1, <3>1
    <2> QED BY <1>6, <2>2, <2>3
  <1>7. PICK f \in NotReserved(g) : \E r \in NoCachePreMultipartPost(f) :
              \/ ~ r.ok /\ p = r
              \/ r.ok /\ \E q \in NoCacheLoadAndPost(r.ent, start) :
                    (~ q.ok /\ p = q) \/ (q.ok /\ p = Ok(PartsFrom(q.ent, start)))
    BY <1>3, <1>4, <1>6
  <1>8. PICK r \in NoCachePreMultipartPost(f) : r.ok /\ \E q \in NoCacheLoadAndPost(r.ent, start) :
                                                  q.ok /\ p = Ok(PartsFrom(q.ent, start))
    BY <1>7
  <1>9. PICK q \in NoCacheLoadAndPost(r.ent, start) : q.ok /\ p = Ok(PartsFrom(q.ent, start))
    BY <1>8
  <1>10. /\ r.ent \in Entity /\ r.ent.upload_id /\ r.ent.etaglist = << >>
         /\ r.ent.map.size = start /\ Shows(r.ent, v)
    <2>1. f \in Entity /\ f.map.size = start /\ Shows(f, v)
      BY <1>5
    <2>2. /\ r \in Outcome /\ r.ent.file = f.file /\ r.ent.map = f.map
          /\ r.ent.size_orgmeta = f.size_orgmeta
          /\ r.ent.etaglist = << >> /\ r.ent.upload_id = TRUE
      BY <1>8, <2>1, PreIs
    <2>3. \A i : Fetched(r.ent, i) = Fetched(f, i)
      BY <2>2, FetchedSame
    <2>4. Shows(r.ent, v)
      BY <2>1, <2>2, <2>3 DEF Shows
    <2> QED BY <2>1, <2>2, <2>4 DEF Outcome
  <1>11. /\ Covers(q.ent.etaglist, v, start) /\ NoneEmpty(q.ent.etaglist)
         /\ AllLoaded(q.ent) /\ q.ent.file = << >>
    <2>1. q \in NoCacheLoadAndPost(r.ent, r.ent.map.size)
      BY <1>10
    <2>2. /\ Covers(q.ent.etaglist, v, r.ent.map.size) /\ NoneEmpty(q.ent.etaglist)
          /\ AllLoaded(q.ent) /\ q.ent.file = << >>
      BY <1>9, <1>10, <2>1, LoopPosts
    <2> QED BY <1>10, <2>2
  <1>12. q.ent \in Entity /\ q.ent.upload_id /\ q.ent.map.size = start
    <2>1. Kept(r.ent, q.ent)
      BY <1>10, LoopType
    <2> QED BY <1>10, <2>1 DEF Kept
  <1> DEFINE x == PartsFrom(q.ent, start)
  <1>13. /\ x \in Entity /\ x.file = q.ent.file /\ x.map = q.ent.map
         /\ x.upload_id = q.ent.upload_id /\ x.etaglist = q.ent.etaglist
         /\ x.mp_start = start /\ x.mp_size = 0
    <2>1. StartsAt(q.ent, x, start)
      BY <1>12, PartsFromIs
    <2> HIDE DEF x
    <2> QED BY <2>1 DEF StartsAt
  <1>14. p = Ok(x)
    BY <1>9
  <1> HIDE DEF x
  <1>15. p.ent = x
    BY <1>13, <1>14, OutcomeOf
  <1>16. AllLoaded(x) /\ Len(x.file) = 0
    <2>1. Len(<< >>) = 0
      OBVIOUS
    <2> QED BY <1>11, <1>13, <2>1 DEF AllLoaded
  <1>17. \A i \in Nat : start <= i /\ i < start => FALSE
    OBVIOUS
  <1>18. Appending(x, v, start)
    BY <1>11, <1>12, <1>13, <1>16, <1>17 DEF Appending
  <1> QED BY <1>15, <1>18 DEF v

\* A write at the end of a file whose upload is open appends to it.
LEMMA PrepareGoesOn ==
    ASSUME NEW e \in Entity, NEW w \in Seq(Bytes), Uploading(e, w), NEW p \in Prepare(GrowTo(e, e.map.size), e.map.size)
    PROVE  p.ok /\ Appending(p.ent, Padded(w, e.map.size), e.map.size)
  <1>1. e.map.size \in Nat /\ Len(w) = e.map.size
    BY EntityFacts DEF Uploading
  <1>2. GrowTo(e, e.map.size) = e
    BY <1>1 DEF GrowTo
  <1>3. Padded(w, e.map.size) = w
    BY <1>1 DEF Padded
  <1>4. p = Ok(e)
    BY <1>2 DEF Prepare, Uploading
  <1>5. p.ok /\ p.ent = e
    BY <1>4, OutcomeOf
  <1>6. Len(e.file) <= e.map.size
    BY <1>1 DEF Uploading
  <1>7. Appending(e, w, e.map.size)
    BY <1>6 DEF Appending, Uploading
  <1> QED BY <1>3, <1>5, <1>7

\* Whether an upload is open is settled before the bytes are written.
LEMMA UploadStays ==
    ASSUME object \in Seq(Bytes), NEW e \in Entity, Fits(e), NEW start \in Nat, NEW bytes \in Seq(Bytes),
           start + Len(bytes) <= MaxSize,
           NEW q \in LoadAfter(Written(e, start, bytes), start + Len(bytes)),
           NEW o \in PostWritten(q.ent, Len(bytes))
    PROVE  q.ent \in Entity /\ q.ent.upload_id = e.upload_id /\ o.ent.upload_id = e.upload_id
  <1> DEFINE h == Written(e, start, bytes)
             n == Len(bytes)
             stop == start + n
             f == Waiting(q.ent, n)
             end == f.mp_start + f.mp_size
  <1>1. n \in Nat /\ stop \in Nat
    BY LenProperties
  <1>2. h \in Entity /\ SameUpload(e, h) /\ Fits(h)
    BY WrittenIs, WrittenType
  <1>3. \/ stop < h.map.size /\ q \in Load(h, stop, h.map.size)
        \/ ~ stop < h.map.size /\ q = Ok(h)
    BY LoadAfterIs
  <1>4. \/ ~ q.ent.upload_id /\ o = Ok(q.ent)
        \/ q.ent.upload_id /\ f.mp_size < MultipartSize /\ o = Ok(f)
        \/ /\ q.ent.upload_id
           /\ \E p \in PostFrom(f) : (~ p.ok /\ o = p) \/ (p.ok /\ o = Ok(PartsGoneFrom(p.ent, end)))
    BY PostWrittenIs
  <1> HIDE DEF h, n
  <1>5. q.ent \in Entity /\ q.ent.upload_id = e.upload_id
    <2>1. CASE q \in Load(h, stop, h.map.size)
      <3>1. h.map.size \in Nat
        BY <1>2, EntityFacts
      <3> HIDE DEF stop
      <3>2. q \in Outcome /\ Same(h, q.ent)
        BY <1>1, <1>2, <2>1, <3>1, LoadType
      <3> QED BY <1>2, <3>2 DEF Outcome, Same, SameUpload
    <2>2. CASE q = Ok(h)
      <3>1. q.ent = h
        BY <1>2, <2>2, OutcomeOf
      <3> QED BY <1>2, <3>1 DEF SameUpload
    <2> QED BY <1>3, <2>1, <2>2
  <1>6. f \in Entity /\ f.upload_id = q.ent.upload_id
    BY <1>1, <1>5, WaitingIs
  <1> HIDE DEF f
  <1>7. CASE o = Ok(q.ent)
    BY <1>5, <1>7, OutcomeOf
  <1>8. CASE o = Ok(f)
    BY <1>5, <1>6, <1>8, OutcomeOf
  <1>9. ASSUME NEW p \in PostFrom(f), (~ p.ok /\ o = p) \/ (p.ok /\ o = Ok(PartsGoneFrom(p.ent, end)))
        PROVE  o.ent.upload_id = f.upload_id
    <2>1. p.ent \in Entity /\ p.ent.upload_id = f.upload_id
      BY <1>6, PostFromType DEF PostResult, InLoop
    <2>2. end \in Nat
      BY <1>6, EntityFacts
    <2> DEFINE x == PartsGoneFrom(p.ent, end)
    <2> HIDE DEF end
    <2>3. x \in Entity /\ x.upload_id = p.ent.upload_id
      <3>1. GoneTo(p.ent, x, end)
        BY <2>1, <2>2, PartsGoneIs
      <3> HIDE DEF x
      <3> QED BY <3>1 DEF GoneTo
    <2> HIDE DEF x
    <2>4. CASE o = p
      BY <2>1, <2>4
    <2>5. CASE o = Ok(x)
      <3>1. o.ent = x
        BY <2>3, <2>5, OutcomeOf
      <3> QED BY <2>1, <2>3, <3>1
    <2> QED BY <1>9, <2>4, <2>5 DEF x
  <1> HIDE DEF end
  <1> QED BY <1>4, <1>5, <1>6, <1>7, <1>8, <1>9

\* The straight use: a write anywhere in an idle file that finds space, one
\* behind its end that finds none, and one at the end in an open upload.
LEMMA WriteStraight ==
    ASSUME object \in Seq(Bytes), NEW e \in Entity, Fits(e), NEW w \in Seq(Bytes),
           Idle(e, w) \/ Uploading(e, w),
           NEW start \in Nat, NEW bytes \in Seq(Bytes), Len(bytes) # 0, start + Len(bytes) <= MaxSize,
           NEW o \in WriteOutcomes(e, start, bytes), o.ok,
           o.ent.upload_id => e.map.size <= start,
           e.upload_id => start = e.map.size
    PROVE  Idle(o.ent, Pwrite(w, start, bytes)) \/ Uploading(o.ent, Pwrite(w, start, bytes))
  <1> DEFINE u == Pwrite(w, start, bytes)
             n == Len(bytes)
             stop == start + n
  <1>1. n \in Nat /\ start <= MaxSize /\ e.map.size \in Nat
    <2>1. n \in Nat
      BY LenProperties
    <2> QED BY <2>1, EntityFacts
  <1>2. PICK p \in Prepare(GrowTo(e, start), start) :
              \/ ~ p.ok /\ o = p
              \/ p.ok /\ \E q \in LoadAfter(Written(p.ent, start, bytes), stop) :
                    (~ q.ok /\ o = q) \/ (q.ok /\ o \in PostWritten(q.ent, n))
    BY WriteIs
  <1>3. p.ok
    BY <1>2
  <1>4. PICK q \in LoadAfter(Written(p.ent, start, bytes), stop) : q.ok /\ o \in PostWritten(q.ent, n)
    BY <1>2
  <1>5. p.ent \in Entity /\ Fits(p.ent)
    <2>1. GrowTo(e, start) \in Entity /\ Fits(GrowTo(e, start))
      BY <1>1, GrowType
    <2> QED BY <2>1, PrepareType, TypedEnt
  <1>6. q.ent \in Entity /\ q.ent.upload_id = p.ent.upload_id /\ o.ent.upload_id = p.ent.upload_id
    BY <1>4, <1>5, UploadStays
  <1>7. CASE Idle(e, w) /\ ~ p.ent.upload_id
    <2>1. Idle(q.ent, u)
      BY <1>3, <1>4, <1>7, WriteIdle
    <2>2. o = Ok(q.ent)
      BY <1>4, <1>6, <1>7 DEF PostWritten
    <2> QED BY <1>6, <2>1, <2>2, OutcomeOf
  <1>8. ASSUME Len(w) <= start, Appending(p.ent, Padded(w, start), start)
        PROVE  Uploading(o.ent, u)
    <2>1. Ready(q.ent, u, n)
      BY <1>4, <1>8, WriteReady
    <2>2. n \in Nat \ {0}
      BY <1>1
    <2> HIDE DEF u, n
    <2> QED BY <1>4, <2>1, <2>2, PostWrittenUploads
  <1>9. CASE Idle(e, w) /\ p.ent.upload_id
    <2>1. e.map.size <= start /\ Len(w) <= start
      BY <1>6, <1>9 DEF Idle
    <2>2. Appending(p.ent, Padded(w, start), start)
      BY <1>1, <1>3, <1>9, <2>1, PrepareBegins
    <2> QED BY <1>8, <2>1, <2>2
  <1>10. CASE Uploading(e, w)
    <2>1. start = e.map.size /\ Len(w) <= start
      BY <1>1, <1>10 DEF Uploading
    <2>2. Appending(p.ent, Padded(w, start), start)
      BY <1>10, <2>1, PrepareGoesOn
    <2> QED BY <1>8, <2>1, <2>2
  <1> QED BY <1>7, <1>9, <1>10
-----------------------------------------------------------------------------
(***************************************************************************)
(* The inductive invariant.                                                *)
(***************************************************************************)
\* A part that was not sent keeps the upload from being completed.
Unsent(e) == \E i \in DOMAIN e.etaglist : ~ e.etaglist[i].etag

\* After the flush the file is saved, or the upload is still open and what it
\* would make of the object is the wanted file or nothing.
Flushed ==
    /\ AllLoaded(ent) /\ Len(ent.file) <= ent.map.size /\ ent.mp_start <= ent.map.size
    /\ ~ ent.is_modify => object = want
    /\ ent.is_modify => /\ ent.upload_id
                        /\ Unsent(ent) \/ (ent.mp_size = 0 /\ Bodies(ent.etaglist) = want)

Types ==
    /\ object \in Seq(Bytes) /\ Len(object) <= MaxSize
    /\ want \in Seq(Bytes) /\ Len(want) <= MaxSize
    /\ ent \in Entity /\ Fits(ent)
    /\ history \in {"straight", "last", "bent"}

Inv ==
    /\ Types
    /\ history = "straight" => Idle(ent, want) \/ Uploading(ent, want)
    /\ history = "last" => Flushed

LEMMA NewEntityIs ==
    ASSUME object \in Seq(Bytes), Len(object) <= MaxSize
    PROVE  LET e == NewEntity(Len(object)) IN e \in Entity /\ Fits(e) /\ Idle(e, object)
  <1> DEFINE n == Len(object)
             file == Ftruncate(<< >>, n)
             map == MapInit(n, FALSE)
             e == NewEntity(n)
  <1>1. n \in Nat /\ n <= MaxSize
    BY LenProperties
  <1> HIDE DEF n
  <1>2. file \in Seq(Bytes) /\ Len(file) = n
    <2>1. << >> \in Seq(Bytes)
      BY EmptySeq
    <2> QED BY <1>1, <2>1, FtruncateIs
  <1>3. map \in PageMaps /\ map.size = n /\ map.loaded = {}
    <2>1. map = [size |-> n, loaded |-> {}]
      BY DEF MapInit
    <2>2. [size |-> n, loaded |-> {}] \in PageMaps
      BY <1>1, MapOf
    <2> HIDE DEF map
    <2> QED BY <2>1, <2>2
  <1>4. << >> \in Seq(Part) /\ n \in Size
    BY <1>1, EmptySeq DEF Size
  <1>5. e = [file |-> file, map |-> map, size_orgmeta |-> n, is_modify |-> FALSE,
             upload_id |-> FALSE, etaglist |-> << >>, mp_start |-> 0, mp_size |-> 0]
    BY DEF NewEntity
  <1> HIDE DEF file, map, e
  <1>6. /\ e \in Entity /\ e.file = file /\ e.map = map /\ e.size_orgmeta = n /\ e.is_modify = FALSE
        /\ e.upload_id = FALSE /\ e.etaglist = << >> /\ e.mp_start = 0 /\ e.mp_size = 0
    BY <1>2, <1>3, <1>4, <1>5 DEF Entity
  <1>7. Fits(e)
    BY <1>1, <1>2, <1>3, <1>6 DEF Fits
  <1>8. \A i \in Nat : i < n => Fetched(e, i) = object[i + 1]
    BY <1>1, <1>6, FetchedIs DEF n
  <1>9. Shows(e, object)
    BY <1>2, <1>3, <1>6, <1>8 DEF Shows
  <1>10. Idle(e, object)
    BY <1>1, <1>3, <1>6, <1>9 DEF Idle, n
  <1> QED BY <1>6, <1>7, <1>10 DEF e, n

\* While the object stays, what is said of values holds of the next state.
LEMMA IdleNext ==
    ASSUME object' = object, NEW e, NEW w, Idle(e, w), ent' = e, want' = w
    PROVE  Idle(ent, want)'
  BY DEF Idle, Shows, Fetched, AllLoaded

LEMMA UploadingNext ==
    ASSUME NEW e, NEW w, Uploading(e, w), ent' = e, want' = w
    PROVE  Uploading(ent, want)'
  BY DEF Uploading, AllLoaded, Covers, NoneEmpty

LEMMA TypesNext ==
    ASSUME Types, NEW e \in Entity, Fits(e), ent' = e, UNCHANGED << object, want >>,
           history' \in {"straight", "last", "bent"}
    PROVE  Types'
  BY DEF Types, Fits

LEMMA InvInit == Init => Inv
  <1> SUFFICES ASSUME Init PROVE Inv
    OBVIOUS
  <1>1. PICK n \in Size \cap 0 .. 3, b \in Bytes \ {Zero} : object = [i \in 1 .. n |-> b]
    BY DEF Init
  <1>2. n \in Nat /\ n <= MaxSize
    BY <1>1 DEF Size
  <1>3. object \in Seq(Bytes) /\ Len(object) = n
    <2> DEFINE f == [i \in 1 .. n |-> b]
    <2>1. f \in [1 .. n -> Bytes]
      BY <1>1
    <2> HIDE DEF f
    <2>2. f \in Seq(Bytes) /\ Len(f) = n
      BY <1>2, <2>1, FileOf
    <2> QED BY <1>1, <2>2 DEF f
  <1>4. ent = NewEntity(Len(object)) /\ want = object /\ history = "straight"
    BY DEF Init
  <1>5. ent \in Entity /\ Fits(ent) /\ Idle(ent, want)
    BY <1>2, <1>3, <1>4, NewEntityIs
  <1> QED BY <1>2, <1>3, <1>4, <1>5 DEF Inv, Types

LEMMA InvWrite ==
    ASSUME Inv, NEW start \in Size, NEW bytes \in Seq(Bytes), Len(bytes) # 0, start + Len(bytes) <= MaxSize,
           Write(start, bytes)
    PROVE  Inv'
  <1> DEFINE u == Pwrite(want, start, bytes)
             straight(o) == /\ o.ok /\ history = "straight"
                            /\ o.ent.upload_id => start >= ent.map.size
                            /\ ent.upload_id => start = ent.map.size
  <1>1. PICK o \in WriteOutcomes(ent, start, bytes) :
              /\ ent' = o.ent
              /\ want' = IF o.ok THEN u ELSE want
              /\ history' = IF straight(o) THEN "straight" ELSE "bent"
    BY DEF Write, WriteOutcomes
  <1>2. /\ object \in Seq(Bytes) /\ Len(object) <= MaxSize /\ want \in Seq(Bytes) /\ Len(want) <= MaxSize
        /\ ent \in Entity /\ Fits(ent) /\ object' = object /\ start \in Nat
    BY DEF Inv, Types, Write, Size
  <1>3. o \in Outcome /\ o.ent \in Entity /\ Fits(o.ent)
    <2>1. Typed(o)
      BY <1>2, WriteType
    <2> QED BY <2>1, TypedEnt
  <1>4. u \in Seq(Bytes) /\ Len(u) <= MaxSize
    <2>1. Len(bytes) \in Nat /\ Len(want) \in Nat
      BY <1>2, LenProperties
    <2>2. u \in Seq(Bytes) /\ Len(u) = IF Len(want) < start + Len(bytes) THEN start + Len(bytes) ELSE Len(want)
      BY <1>2, PwriteIs
    <2> HIDE DEF u
    <2> QED BY <1>2, <2>1, <2>2
  <1> HIDE DEF u
  <1>5. Types'
    <2>1. want' \in Seq(Bytes) /\ Len(want') <= MaxSize
      BY <1>1, <1>2, <1>4
    <2>2. history' \in {"straight", "last", "bent"}
      BY <1>1
    <2>3. ent' \in Entity /\ Fits(ent)'
      BY <1>1, <1>3 DEF Fits
    <2> QED BY <1>2, <2>1, <2>2, <2>3 DEF Types
  <1>6. CASE straight(o)
    <2>1. want' = u /\ history' = "straight"
      BY <1>1, <1>6
    <2>2. Idle(ent, want) \/ Uploading(ent, want)
      BY <1>6 DEF Inv
    <2>3. o.ent.upload_id => ent.map.size <= start
      <3>1. ent.map.size \in Nat
        BY <1>2, EntityFacts
      <3> QED BY <1>2, <1>6, <3>1
    <2>4. Idle(o.ent, u) \/ Uploading(o.ent, u)
      BY <1>2, <1>6, <2>2, <2>3, WriteStraight DEF u
    <2>5. Idle(ent, want)' \/ Uploading(ent, want)'
      BY <1>1, <1>2, <2>1, <2>4, IdleNext, UploadingNext
    <2> QED BY <1>5, <2>1, <2>5 DEF Inv
  <1>7. CASE ~ straight(o)
    <2>1. history' = "bent"
      BY <1>1, <1>7
    <2> QED BY <1>5, <2>1 DEF Inv
  <1> QED BY <1>6, <1>7

\* A clean file that is not loaded as a whole stays idle when pages are dropped
\* or loaded.
LEMMA DropIdle ==
    ASSUME object \in Seq(Bytes), NEW e \in Entity, NEW w, Idle(e, w), ~ e.is_modify,
           NEW f \in Reserved(e) \cup NotReserved(e)
    PROVE  Idle(f, w) /\ ~ f.is_modify
  <1>1. f = e \/ f = DropPages(e)
    BY ReservedIs
  <1>2. CASE f = DropPages(e)
    <2>1. f \in Entity /\ Same(e, f) /\ ~ f.is_modify
      BY <1>2, DropIs
    <2>2. e.size_orgmeta = e.map.size /\ object = w /\ Len(w) = e.map.size /\ e.map.size \in Nat
      BY EntityFacts DEF Idle
    <2>3. \A i \in Nat : i < e.map.size => Fetched(e, i) = w[i + 1]
      BY <2>2, FetchedIs
    <2>4. Shows(f, w)
      BY <1>2, <2>3, DropShows
    <2> QED BY <2>1, <2>4 DEF Idle, Same
  <1> QED BY <1>1, <1>2

LEMMA LoadIdle ==
    ASSUME object \in Seq(Bytes), NEW e \in Entity, NEW w, Idle(e, w), ~ e.is_modify,
           NEW start \in Nat, NEW len \in Nat, NEW o \in Load(e, start, len)
    PROVE  Idle(o.ent, w)
  <1>1. Shows(e, w) /\ e.size_orgmeta = e.map.size /\ Fits(e)
    <2>1. Len(e.file) = e.map.size /\ e.map.size \in Nat
      BY EntityFacts DEF Idle, Shows
    <2> QED BY <2>1 DEF Idle, Fits
  <1>2. Shows(o.ent, w) /\ o.ent.is_modify = e.is_modify
    BY <1>1, LoadShows
  <1>3. Same(e, o.ent)
    BY <1>1, LoadType
  <1> QED BY <1>2, <1>3 DEF Idle, Same

LEMMA InvRead ==
    ASSUME Inv, NEW start \in Offset, NEW len \in 1 .. 2, Read(start, len)
    PROVE  Inv'
  <1>1. /\ object \in Seq(Bytes) /\ ent \in Entity /\ Fits(ent) /\ ent.map \in PageMaps /\ ent.map.size \in Nat
        /\ start \in Nat /\ len \in Nat /\ history \in {"straight", "last", "bent"}
    BY EntityFacts DEF Inv, Types, Offset
  <1>2. object' = object /\ want' = want /\ history' = history
    BY DEF Read
  <1>3. ~ AllLoaded(ent) /\ start < ent.map.size
    <2>1. PICK i \in Unloaded(ent.map, start, len) : TRUE
      BY DEF Read
    <2>2. i \in Nat /\ i < ent.map.size /\ start <= i /\ i \notin ent.map.loaded
      BY <1>1, <2>1, UnloadedIs
    <2> QED BY <1>1, <2>2 DEF AllLoaded
  <1>4. /\ history = "straight" => Idle(ent, want) /\ ~ ent.is_modify
        /\ history # "last"
    BY <1>3 DEF Inv, Flushed, Idle, Uploading
  <1>5. ASSUME NEW f \in Entity, Fits(f), ent' = f, history = "straight" => Idle(f, want)
        PROVE  Inv'
    <2>1. Types'
      BY <1>1, <1>2, <1>5, TypesNext DEF Inv
    <2>2. history = "straight" => Idle(ent, want)'
      BY <1>2, <1>5, IdleNext
    <2> QED BY <1>2, <1>4, <2>1, <2>2 DEF Inv
  <1>6. ASSUME NEW e \in Reserved(ent) \cup NotReserved(ent)
        PROVE  e \in Entity /\ Fits(e) /\ (history = "straight" => Idle(e, want) /\ ~ e.is_modify)
    <2>1. e \in Entity /\ Fits(e)
      BY <1>1, ReservedType
    <2> QED BY <1>1, <1>4, <2>1, DropIdle
  <1>7. ASSUME NEW e \in Reserved(ent), NEW size \in Nat, NEW o \in Load(e, start, size), ent' = o.ent
        PROVE  Inv'
    <2>1. e \in Entity /\ Fits(e) /\ (history = "straight" => Idle(e, want) /\ ~ e.is_modify)
      BY <1>6
    <2>2. o \in Outcome /\ Fits(o.ent)
      BY <1>1, <2>1, LoadType
    <2>3. history = "straight" => Idle(o.ent, want)
      BY <1>1, <2>1, LoadIdle
    <2>4. o.ent \in Entity
      BY <2>2 DEF Outcome
    <2> QED BY <1>5, <1>7, <2>2, <2>3, <2>4
  <1>8. CASE ent' \in NotReserved(ent)
    <2>1. PICK e \in NotReserved(ent) : ent' = e
      BY <1>8
    <2> QED BY <1>5, <1>6, <2>1
  <1>9. CASE \E e \in Reserved(ent), size \in {ent.map.size - start} \cup (IF "space" \in Faults THEN {len} ELSE {}) :
                 \E o \in Load(e, start, size) : ent' = o.ent
    <2>1. PICK e \in Reserved(ent), size \in {ent.map.size - start} \cup (IF "space" \in Faults THEN {len} ELSE {}) :
                 \E o \in Load(e, start, size) : ent' = o.ent
      BY <1>9
    <2>2. size \in Nat
      BY <1>1, <1>3, <2>1
    <2> QED BY <1>7, <2>1, <2>2
  <1> QED BY <1>8, <1>9 DEF Read

LEMMA InvClose ==
    ASSUME Inv, Close
    PROVE  Inv'
  <1>1. object \in Seq(Bytes) /\ Len(object) <= MaxSize
    BY DEF Inv, Types
  <1>2. ent' = NewEntity(Len(object)) /\ want' = object /\ history' = "straight" /\ object' = object
    BY DEF Close
  <1> DEFINE e == NewEntity(Len(object))
  <1>3. e \in Entity /\ Fits(e) /\ Idle(e, object)
    BY <1>1, NewEntityIs
  <1> HIDE DEF e
  <1>4. Idle(ent, want)'
    BY <1>2, <1>3, IdleNext DEF e
  <1>5. Types'
    <2>1. ent' = e
      BY <1>2 DEF e
    <2> QED BY <1>1, <1>2, <1>3, <2>1 DEF Types, Fits
  <1> QED BY <1>2, <1>4, <1>5 DEF Inv

\* A file that has been put is the object.
LEMMA InvPut ==
    ASSUME Inv, ent.is_modify, PutRequest, UNCHANGED want
    PROVE  Inv'
  <1> DEFINE n == Len(ent.file)
             f == [ent EXCEPT !.size_orgmeta = n, !.is_modify = FALSE]
             g == [ent EXCEPT !.size_orgmeta = n]
  <1>1. /\ object \in Seq(Bytes) /\ Len(object) <= MaxSize /\ want \in Seq(Bytes) /\ Len(want) <= MaxSize
        /\ ent \in Entity /\ Fits(ent) /\ ~ ent.upload_id /\ history' = history
        /\ history \in {"straight", "last", "bent"}
    BY DEF Inv, Types, PutRequest
  <1>2. ent.file \in Seq(Bytes) /\ n \in Nat /\ ent.map.size \in Nat /\ ent.map.size <= MaxSize
    BY <1>1, EntityFacts
  <1>3. n <= ent.map.size /\ n <= MaxSize /\ n \in Size
    <2>1. n <= ent.map.size
      BY <1>1 DEF Fits
    <2> QED BY <1>2, <2>1 DEF Size
  <1>4. \/ object' = ent.file /\ ent' = f
        \/ object' \in {object, ent.file} /\ ent' = g
    BY DEF PutRequest
  <1>5. object' \in Seq(Bytes) /\ Len(object') <= MaxSize
    BY <1>1, <1>2, <1>3, <1>4
  <1> HIDE DEF n
  <1>6. /\ f \in Entity /\ f.file = ent.file /\ f.map = ent.map /\ f.size_orgmeta = n /\ f.is_modify = FALSE
        /\ f.upload_id = ent.upload_id /\ f.etaglist = ent.etaglist
        /\ f.mp_start = ent.mp_start /\ f.mp_size = ent.mp_size
    BY <1>1, <1>3 DEF Entity
  <1>7. /\ g \in Entity /\ g.file = ent.file /\ g.map = ent.map /\ g.size_orgmeta = n /\ g.is_modify = ent.is_modify
        /\ g.upload_id = ent.upload_id /\ g.etaglist = ent.etaglist
        /\ g.mp_start = ent.mp_start /\ g.mp_size = ent.mp_size
    BY <1>1, <1>3 DEF Entity
  <1> HIDE DEF f, g
  <1>8. /\ ent' \in Entity /\ ent'.file = ent.file /\ ent'.map = ent.map /\ ent'.size_orgmeta = n
        /\ ent'.upload_id = ent.upload_id /\ ent'.etaglist = ent.etaglist
        /\ ent'.mp_start = ent.mp_start /\ ent'.mp_size = ent.mp_size
        /\ ~ ent'.is_modify => object' = ent.file
    BY <1>4, <1>6, <1>7
  <1>9. Types'
    <2>1. Fits(ent)'
      BY <1>1, <1>8 DEF Fits
    <2> QED BY <1>1, <1>5, <1>8, <2>1 DEF Types
  <1>10. history # "last"
    BY <1>1 DEF Inv, Flushed
  <1>11. ASSUME history = "straight" PROVE Idle(ent, want)'
    <2>1. Idle(ent, want) /\ AllLoaded(ent)
      BY <1>1, <1>11 DEF Inv, Idle, Uploading
    <2>2. /\ Len(ent.file) = ent.map.size /\ Len(want) = ent.map.size
          /\ \A i \in Nat : i < ent.map.size => i \in ent.map.loaded
          /\ \A i \in Nat : i < ent.map.size => ent.file[i + 1] = want[i + 1]
          /\ ent.etaglist = << >> /\ ent.mp_start = 0 /\ ent.mp_size = 0
      BY <2>1 DEF Idle, Shows, AllLoaded
    <2>3. ent.file = want
      <3>1. ASSUME NEW i \in 1 .. Len(ent.file) PROVE ent.file[i] = want[i]
        <4>1. i - 1 \in Nat /\ i - 1 < ent.map.size /\ (i - 1) + 1 = i
          BY <1>2, <2>2
        <4>2. ent.file[(i - 1) + 1] = want[(i - 1) + 1]
          BY <2>2, <4>1
        <4> QED BY <4>1, <4>2
      <3> QED BY <1>1, <1>2, <2>2, <3>1, SameFile
    <2>4. Shows(ent, want)'
      BY <1>8, <2>2 DEF Shows
    <2>5. AllLoaded(ent)'
      BY <1>8, <2>2 DEF AllLoaded
    <2>6. n = ent.map.size
      BY <2>2 DEF n
    <2>7. ent'.size_orgmeta <= ent'.map.size
      BY <1>2, <1>8, <2>6
    <2>8. ~ ent'.is_modify => ent'.size_orgmeta = ent'.map.size /\ object' = want'
      BY <1>8, <2>3, <2>6
    <2>9. /\ ~ ent'.upload_id /\ ent'.etaglist = << >> /\ ent'.mp_start = 0 /\ ent'.mp_size = 0
          /\ Len(want') = ent'.map.size
      BY <1>1, <1>8, <2>2
    <2> QED BY <2>4, <2>5, <2>7, <2>8, <2>9 DEF Idle
  <1> QED BY <1>1, <1>9, <1>10, <1>11 DEF Inv

\* The parts of the list are a file.
LEMMA BodiesType ==
    ASSUME NEW list \in Seq(Part)
    PROVE  Bodies(list) \in Seq(Bytes)
  <1>1. << >> \in Seq(Bytes) /\ TRUE \in BOOLEAN
    BY EmptySeq
  <1>2. [body |-> << >>, etag |-> TRUE] \in Part
    BY <1>1, PartOf
  <1> QED BY <1>2, BodiesAppend

\* An entity whose last part has been posted, and one whose upload is complete.
Rested(e) == [e EXCEPT !.mp_start = 0, !.mp_size = 0]
Completed(e) ==
    [e EXCEPT !.upload_id = FALSE, !.etaglist = << >>, !.mp_start = 0, !.mp_size = 0,
              !.file = << >>, !.is_modify = FALSE]

LEMMA RestedIs ==
    ASSUME NEW e \in Entity
    PROVE  LET f == Rested(e)
           IN  /\ f \in Entity /\ f.file = e.file /\ f.map = e.map /\ f.is_modify = e.is_modify
               /\ f.size_orgmeta = e.size_orgmeta /\ f.upload_id = e.upload_id /\ f.etaglist = e.etaglist
               /\ f.mp_start = 0 /\ f.mp_size = 0
  BY DEF Rested, Entity

LEMMA CompletedIs ==
    ASSUME NEW e \in Entity
    PROVE  LET f == Completed(e)
           IN  /\ f \in Entity /\ f.file = << >> /\ f.map = e.map /\ f.is_modify = FALSE
               /\ f.upload_id = FALSE /\ f.mp_start = 0
  <1>1. << >> \in Seq(Part) /\ << >> \in Seq(Bytes)
    BY EmptySeq
  <1> QED BY <1>1 DEF Completed, Entity

LEMMA PostRestIs ==
    ASSUME NEW e, NEW o \in PostRest(e)
    PROVE  \/ e.mp_size = 0 /\ o = Ok(e)
           \/ /\ e.mp_size # 0
              /\ \E p \in PostFrom(e) : (~ p.ok /\ o = p) \/ (p.ok /\ o = Ok(Rested(p.ent)))
  <1> DEFINE posted == PostFrom(e)
             last(p) == IF p.ok THEN {Ok(Rested(p.ent))} ELSE {p}
  <1>1. CASE e.mp_size = 0
    BY <1>1 DEF PostRest
  <1>2. CASE e.mp_size # 0
    <2>1. o \in UNION {last(p) : p \in posted}
      BY <1>2 DEF PostRest, PostFrom, Rested, Then
    <2> HIDE DEF posted
    <2>2. PICK p \in posted : o \in last(p)
      BY <2>1
    <2> QED BY <1>2, <2>2 DEF posted
  <1> QED BY <1>1, <1>2

\* The rest has been posted, or not: the upload is open.
RestPosted(e, o) ==
    /\ o \in Outcome /\ o.ent \in Entity /\ o.ent.upload_id = e.upload_id /\ o.ent.is_modify = e.is_modify
    /\ o.ent.map = e.map /\ o.ent.file = e.file
    /\ o.ent.mp_start = e.mp_start \/ o.ent.mp_start = 0

LEMMA PostRestType ==
    ASSUME NEW e \in Entity, NEW o \in PostRest(e)
    PROVE  RestPosted(e, o)
  <1>1. CASE o = Ok(e)
    BY <1>1, OutcomeOf DEF RestPosted
  <1>2. ASSUME NEW p \in PostFrom(e), (~ p.ok /\ o = p) \/ (p.ok /\ o = Ok(Rested(p.ent)))
        PROVE  RestPosted(e, o)
    <2>1. /\ p \in Outcome /\ p.ent \in Entity /\ p.ent.upload_id = e.upload_id /\ p.ent.is_modify = e.is_modify
          /\ p.ent.map = e.map /\ p.ent.file = e.file /\ p.ent.mp_start = e.mp_start
      BY PostFromType DEF PostResult, InLoop
    <2> DEFINE x == Rested(p.ent)
    <2>2. /\ x \in Entity /\ x.file = p.ent.file /\ x.map = p.ent.map /\ x.is_modify = p.ent.is_modify
          /\ x.upload_id = p.ent.upload_id /\ x.mp_start = 0
      BY <2>1, RestedIs
    <2> HIDE DEF x
    <2>3. CASE o = p
      BY <2>1, <2>3 DEF RestPosted
    <2>4. CASE o = Ok(x)
      <3>1. o \in Outcome /\ o.ent = x
        BY <2>2, <2>4, OutcomeOf
      <3> QED BY <2>1, <2>2, <3>1 DEF RestPosted
    <2> QED BY <1>2, <2>3, <2>4 DEF x
  <1> QED BY <1>1, <1>2, PostRestIs

\* What completing the upload would make of the object: nothing, as a part was
\* not sent, or the wanted file.
Wanted(e, w) == Unsent(e) \/ (e.mp_size = 0 /\ Bodies(e.etaglist) = w)

\* A list stays unsent, and one with a part that was not sent is.
LEMMA UnsentMore ==
    ASSUME NEW list \in Seq(Part), NEW p \in Part,
           (\E i \in DOMAIN list : ~ list[i].etag) \/ ~ p.etag
    PROVE  \E i \in DOMAIN Append(list, p) : ~ Append(list, p)[i].etag
  <1> DEFINE n == Len(list)
             all == Append(list, p)
  <1>1. /\ n \in Nat /\ DOMAIN list = 1 .. n /\ DOMAIN all = 1 .. n + 1
        /\ \A i \in 1 .. n : all[i] = list[i]
        /\ all[n + 1] = p
    BY LenProperties, AppendProperties
  <1> HIDE DEF n, all
  <1>2. CASE \E i \in DOMAIN list : ~ list[i].etag
    <2>1. PICK i \in DOMAIN list : ~ list[i].etag
      BY <1>2
    <2>2. i \in DOMAIN all /\ ~ all[i].etag
      BY <1>1, <2>1
    <2> QED BY <2>2 DEF all
  <1>3. CASE ~ p.etag
    <2>1. n + 1 \in DOMAIN all /\ ~ all[n + 1].etag
      BY <1>1, <1>3
    <2> QED BY <2>1 DEF all
  <1> QED BY <1>2, <1>3

LEMMA RestUploading ==
    ASSUME NEW e \in Entity, NEW w \in Seq(Bytes), Uploading(e, w), NEW o \in PostRest(e)
    PROVE  Wanted(o.ent, w)
  <1>1. /\ e.mp_start \in Nat /\ e.mp_size \in Nat /\ e.map.size \in Nat /\ Len(w) = e.map.size
        /\ e.mp_start + e.mp_size = e.map.size /\ Len(e.file) = e.map.size
        /\ Covers(e.etaglist, w, e.mp_start) /\ NoneEmpty(e.etaglist)
        /\ \A i \in Nat : e.mp_start <= i /\ i < e.map.size => e.file[i + 1] = w[i + 1]
    BY EntityFacts DEF Uploading
  <1>2. CASE e.mp_size = 0 /\ o = Ok(e)
    <2>1. e.mp_start = Len(w)
      BY <1>1, <1>2
    <2>2. Bodies(e.etaglist) = w
      BY <1>1, <2>1, CoversAll
    <2>3. o.ent = e
      BY <1>2, OutcomeOf
    <2> QED BY <1>2, <2>2, <2>3 DEF Wanted
  <1>3. ASSUME e.mp_size # 0, NEW p \in PostFrom(e), (~ p.ok /\ o = p) \/ (p.ok /\ o = Ok(Rested(p.ent)))
        PROVE  Wanted(o.ent, w)
    <2>1. Extends(e, w, p)
      <3>1. e.mp_start + e.mp_size <= Len(e.file)
        BY <1>1
      <3>2. \A i \in Nat : e.mp_start <= i /\ i < e.mp_start + e.mp_size => e.file[i + 1] = w[i + 1]
        BY <1>1
      <3> QED BY <1>1, <1>3, <3>1, <3>2, PostMore
    <2>2. CASE ~ p.ok /\ o = p
      <3>1. PICK part \in Part : part.etag = p.ok /\ p.ent.etaglist = Append(e.etaglist, part)
        BY <2>1 DEF Extends
      <3>2. ~ part.etag
        BY <2>2, <3>1
      <3>3. e.etaglist \in Seq(Part)
        BY EntityFacts
      <3>4. Unsent(p.ent)
        BY <3>1, <3>2, <3>3, UnsentMore DEF Unsent
      <3> QED BY <2>2, <3>4 DEF Wanted
    <2>3. CASE o = Ok(Rested(p.ent))
      <3> DEFINE x == Rested(p.ent)
      <3>1. p.ent \in Entity
        BY <2>1 DEF Extends, InLoop
      <3>2. x \in Entity /\ x.etaglist = p.ent.etaglist /\ x.mp_size = 0
        BY <3>1, RestedIs
      <3> HIDE DEF x
      <3>3. o.ent = x
        BY <2>3, <3>2, OutcomeOf DEF x
      <3>4. Covers(p.ent.etaglist, w, Len(w))
        BY <1>1, <2>1 DEF Extends
      <3>5. Bodies(x.etaglist) = w
        BY <3>2, <3>4, CoversAll
      <3> QED BY <3>2, <3>3, <3>5 DEF Wanted
    <2> QED BY <1>3, <2>2, <2>3
  <1> QED BY <1>2, <1>3, PostRestIs

\* A flush is tried again.
LEMMA RestAgain ==
    ASSUME NEW e \in Entity, NEW w, Wanted(e, w), NEW o \in PostRest(e)
    PROVE  Wanted(o.ent, w)
  <1>1. CASE o = Ok(e)
    BY <1>1, OutcomeOf
  <1>2. ASSUME e.mp_size # 0, NEW p \in PostFrom(e), (~ p.ok /\ o = p) \/ (p.ok /\ o = Ok(Rested(p.ent)))
        PROVE  Wanted(o.ent, w)
    <2> DEFINE body == Area(e.file, e.mp_start, e.mp_start + e.mp_size)
               part == [body |-> body, etag |-> p.ok]
    <2>1. /\ body \in Seq(Bytes) /\ p \in Outcome /\ p.ent \in Entity
          /\ p.ent.etaglist = Append(e.etaglist, part)
      BY PostFromType DEF PostResult, InLoop
    <2> HIDE DEF body
    <2>2. part \in Part
      <3>1. p.ok \in BOOLEAN
        BY <2>1 DEF Outcome
      <3> QED BY <2>1, <3>1, PartOf
    <2> HIDE DEF part
    <2>3. Unsent(p.ent)
      <3>1. \E i \in DOMAIN e.etaglist : ~ e.etaglist[i].etag
        BY <1>2 DEF Wanted, Unsent
      <3>2. e.etaglist \in Seq(Part)
        BY EntityFacts
      <3> QED BY <2>1, <2>2, <3>1, <3>2, UnsentMore DEF Unsent
    <2>4. CASE o = p
      BY <2>3, <2>4 DEF Wanted
    <2>5. CASE o = Ok(Rested(p.ent))
      <3> DEFINE x == Rested(p.ent)
      <3>1. x \in Entity /\ x.etaglist = p.ent.etaglist
        BY <2>1, RestedIs
      <3> HIDE DEF x
      <3>2. o.ent = x
        BY <2>5, <3>1, OutcomeOf DEF x
      <3> QED BY <2>3, <3>1, <3>2 DEF Wanted, Unsent
    <2> QED BY <1>2, <2>4, <2>5
  <1> QED BY <1>1, <1>2, PostRestIs

\* How a flush of an upload ends: the object is made of the parts, and is
\* known to be or not, or nothing happens.
Ends(o) ==
    \/ /\ Complete(o.ent) /\ Len(Bodies(o.ent.etaglist)) <= MaxSize
       /\ object' = Bodies(o.ent.etaglist) /\ ent' = Completed(o.ent)
    \/ ent' = o.ent /\ object' = object
    \/ /\ Len(Bodies(o.ent.etaglist)) <= MaxSize
       /\ ent' = o.ent /\ object' = Bodies(o.ent.etaglist)

LEMMA InvComplete ==
    ASSUME Inv, ent.is_modify, CompleteUpload, UNCHANGED want
    PROVE  Inv'
  <1>1. /\ object \in Seq(Bytes) /\ Len(object) <= MaxSize /\ want \in Seq(Bytes) /\ Len(want) <= MaxSize
        /\ ent \in Entity /\ ent.upload_id /\ want' = want
        /\ history \in {"straight", "last", "bent"}
        /\ history' = IF history = "straight" THEN "last" ELSE history
    BY DEF Inv, Types, CompleteUpload
  <1>2. PICK o \in PostRest(ent) : Ends(o)
    <2>1. PICK o \in PostRest(ent) : \/ o.ok /\ NoCacheCompleteMultipartPost(o.ent)
                                     \/ ~o.ok /\ ent' = o.ent /\ UNCHANGED object
      BY DEF CompleteUpload
    <2>2. Ends(o)
      BY <2>1 DEF NoCacheCompleteMultipartPost, Ends, Completed
    <2> QED BY <2>2
  <1>3. RestPosted(ent, o)
    BY <1>1, PostRestType
  <1>4. /\ o.ent \in Entity /\ o.ent.upload_id /\ o.ent.is_modify /\ o.ent.map = ent.map /\ o.ent.file = ent.file
        /\ o.ent.mp_start = ent.mp_start \/ o.ent.mp_start = 0
    BY <1>1, <1>3 DEF RestPosted
  <1> DEFINE list == o.ent.etaglist
  <1>5. Bodies(list) \in Seq(Bytes)
    <2>1. list \in Seq(Part)
      BY <1>4, EntityFacts
    <2> HIDE DEF list
    <2> QED BY <2>1, BodiesType
  <1> DEFINE x == Completed(o.ent)
  <1>6. /\ x \in Entity /\ x.file = << >> /\ x.map = o.ent.map /\ x.is_modify = FALSE
        /\ x.upload_id = FALSE /\ x.mp_start = 0
    BY <1>4, CompletedIs
  <1>7. Len(<< >>) = 0 /\ ent.map.size \in Nat /\ ent.mp_start \in Nat
    BY <1>1, EntityFacts
  <1> HIDE DEF x
  <1>8. Types'
    <2>1. object' \in Seq(Bytes) /\ Len(object') <= MaxSize
      BY <1>1, <1>2, <1>5 DEF Ends
    <2>2. ent' = x \/ ent' = o.ent
      BY <1>2 DEF Ends, x
    <2>3. Fits(x) /\ Fits(o.ent)
      BY <1>4, <1>6, <1>7 DEF Fits
    <2>4. ent' \in Entity /\ Fits(ent)'
      BY <1>4, <1>6, <2>2, <2>3 DEF Fits
    <2> QED BY <1>1, <2>1, <2>4 DEF Types
  <1>9. ASSUME history # "bent" PROVE Flushed'
    <2>1. AllLoaded(ent) /\ Len(ent.file) <= ent.map.size /\ ent.mp_start <= ent.map.size
      <3>1. CASE history = "straight"
        <4>1. Uploading(ent, want)
          BY <1>1, <3>1 DEF Inv, Idle
        <4>2. ent.mp_start + ent.mp_size = ent.map.size /\ ent.mp_size \in Nat
          BY <1>1, <4>1, EntityFacts DEF Uploading
        <4>3. ent.mp_start <= ent.map.size
          BY <1>7, <4>2
        <4>4. Len(ent.file) <= ent.map.size
          BY <1>7, <4>1 DEF Uploading
        <4> QED BY <4>1, <4>3, <4>4 DEF Uploading
      <3>2. CASE history = "last"
        BY <3>2 DEF Inv, Flushed
      <3> QED BY <1>1, <1>9, <3>1, <3>2
    <2>2. Wanted(o.ent, want)
      <3>1. CASE history = "straight"
        <4>1. Uploading(ent, want)
          BY <1>1, <3>1 DEF Inv, Idle
        <4> QED BY <1>1, <4>1, RestUploading
      <3>2. CASE history = "last"
        <4>1. Wanted(ent, want)
          BY <3>2 DEF Inv, Flushed, Wanted
        <4> QED BY <1>1, <4>1, RestAgain
      <3> QED BY <1>1, <1>9, <3>1, <3>2
    <2>3. CASE Complete(o.ent) /\ object' = Bodies(list) /\ ent' = x
      <3>1. Bodies(list) = want
        BY <2>2, <2>3 DEF Wanted, Unsent, Complete
      <3>2. AllLoaded(ent)'
        BY <1>4, <1>6, <2>1, <2>3 DEF AllLoaded
      <3>3. Len(ent.file)' <= ent'.map.size /\ ent'.mp_start <= ent'.map.size
        BY <1>4, <1>6, <1>7, <2>3
      <3> QED BY <1>1, <1>6, <2>3, <3>1, <3>2, <3>3 DEF Flushed
    <2>4. CASE ent' = o.ent
      <3>1. AllLoaded(ent)'
        BY <1>4, <2>1, <2>4 DEF AllLoaded
      <3>2. Len(ent.file)' <= ent'.map.size /\ ent'.mp_start <= ent'.map.size
        BY <1>4, <1>7, <2>1, <2>4
      <3>3. ent'.is_modify /\ ent'.upload_id /\ Wanted(ent', want')
        BY <1>1, <1>4, <2>2, <2>4
      <3>4. (Unsent(ent) \/ (ent.mp_size = 0 /\ Bodies(ent.etaglist) = want))'
        BY <3>3 DEF Wanted, Unsent, Bodies
      <3> QED BY <3>1, <3>2, <3>3, <3>4 DEF Flushed
    <2> QED BY <1>2, <2>3, <2>4 DEF Ends, x
  <1>10. CASE history = "bent"
    BY <1>1, <1>8, <1>10 DEF Inv
  <1>11. CASE history # "bent"
    <2>1. history' = "last"
      BY <1>1, <1>11
    <2> QED BY <1>8, <1>9, <1>11, <2>1 DEF Inv
  <1> QED BY <1>10, <1>11
-----------------------------------------------------------------------------
(***************************************************************************)
(* The theorems.                                                           *)
(***************************************************************************)
LEMMA InvNext == Inv /\ [Next]_vars => Inv'
  <1> SUFFICES ASSUME Inv, [Next]_vars PROVE Inv'
    OBVIOUS
  <1>1. ASSUME NEW start \in Size, NEW len \in 1 .. 2, NEW b \in Bytes \ {Zero},
               start + len <= MaxSize, Write(start, [i \in 1 .. len |-> b])
        PROVE  Inv'
    <2> DEFINE bytes == [i \in 1 .. len |-> b]
    <2>1. bytes \in Seq(Bytes) /\ Len(bytes) = len
      <3>1. bytes \in [1 .. len -> Bytes] /\ len \in Nat
        OBVIOUS
      <3> HIDE DEF bytes
      <3> QED BY <3>1, FileOf
    <2>2. Write(start, bytes)
      BY <1>1
    <2> HIDE DEF bytes
    <2>3. Len(bytes) # 0 /\ start + Len(bytes) <= MaxSize
      BY <1>1, <2>1
    <2> QED BY <2>1, <2>2, <2>3, InvWrite
  <1>2. ASSUME NEW start \in Offset, NEW len \in 1 .. 2, Read(start, len)
        PROVE  Inv'
    BY <1>2, InvRead
  <1>3. CASE Flush
    BY <1>3, InvPut, InvComplete DEF Flush
  <1>4. CASE Close
    BY <1>4, InvClose
  <1>5. CASE UNCHANGED vars
    <2>1. object' = object /\ ent' = ent /\ want' = want /\ history' = history
      BY <1>5 DEF vars
    <2>2. ent \in Entity /\ Fits(ent) /\ history \in {"straight", "last", "bent"}
      BY DEF Inv, Types
    <2>3. Types'
      BY <2>1, <2>2, TypesNext DEF Inv
    <2>4. history = "straight" => Idle(ent, want)' \/ Uploading(ent, want)'
      BY <2>1, IdleNext, UploadingNext DEF Inv
    <2>5. history = "last" => Flushed'
      BY <2>1 DEF Inv, Flushed, AllLoaded, Unsent, Bodies
    <2> QED BY <2>1, <2>3, <2>4, <2>5 DEF Inv
  <1> QED BY <1>1, <1>2, <1>3, <1>4, <1>5 DEF Next

LEMMA Invariance == Spec => []Inv
  BY InvInit, InvNext, PTL DEF Spec

\* For objects, files and parts of any size, any bytes and any set of faults:
\* the state of the multipart mode of FdEntity has its type, with the file no
\* longer than its page list and no part that begins behind it as long as the
\* mode is used to append (FdEntity::Write, NoCacheLoadAndPost).
THEOREM StateTypes == Spec => []TypeOK
  <1>1. Inv => TypeOK
    <2> SUFFICES ASSUME Inv PROVE TypeOK
      OBVIOUS
    <2>1. /\ object \in Seq(Bytes) /\ Len(object) <= MaxSize
          /\ want \in Seq(Bytes) /\ Len(want) <= MaxSize
          /\ ent \in Entity /\ history \in {"straight", "last", "bent"}
      BY DEF Inv, Types
    <2>2. /\ ent.map \in PageMaps /\ ent.file \in Seq(Bytes)
          /\ ent.size_orgmeta \in Size /\ ent.is_modify \in BOOLEAN /\ ent.upload_id \in BOOLEAN
          /\ ent.mp_start \in Nat /\ ent.mp_size \in Nat
      BY <2>1 DEF Entity
    <2>3. Len(ent.file) \in Nat /\ ent.map.size \in Nat
      BY <2>1, EntityFacts
    <2>4. CASE history = "straight" /\ Idle(ent, want)
      <3>1. Len(ent.file) = ent.map.size /\ ent.mp_start = 0 /\ ent.mp_size = 0 /\ ent.etaglist = << >>
        BY <2>4 DEF Idle, Shows
      <3>2. \A i \in DOMAIN << >> : FALSE
        OBVIOUS
      <3> QED BY <2>1, <2>2, <2>3, <3>1, <3>2 DEF TypeOK
    <2>5. CASE history = "straight" /\ Uploading(ent, want)
      <3>1. /\ Len(ent.file) = ent.map.size /\ ent.mp_start + ent.mp_size = ent.map.size
            /\ ent.mp_size < MultipartSize /\ NoneEmpty(ent.etaglist)
        BY <2>5 DEF Uploading
      <3>2. Len(ent.file) <= ent.map.size /\ ent.mp_start <= ent.map.size
        BY <2>2, <2>3, <3>1
      <3> QED BY <2>1, <2>2, <3>1, <3>2 DEF TypeOK, NoneEmpty
    <2>6. CASE history = "last"
      BY <2>1, <2>2, <2>6 DEF TypeOK, Inv, Flushed
    <2>7. CASE history = "bent"
      BY <2>1, <2>2, <2>7 DEF TypeOK
    <2> QED BY <2>1, <2>4, <2>5, <2>6, <2>7 DEF Inv
  <1> QED BY <1>1, Invariance, PTL

\* For objects, files and parts of any size, any bytes and any set of faults:
\* a file that has only been appended to since the disk ran full and that
\* counts as saved is the object, byte for byte, although it was never in the
\* cache file as a whole (FdEntity::NoCacheLoadAndPost, Write and RowFlush).
THEOREM SavedIsAlwaysFile == Spec => []SavedIsFile
  <1>1. Inv => SavedIsFile
    <2> SUFFICES ASSUME Inv, history # "bent", ~ ent.is_modify PROVE object = want
      BY DEF SavedIsFile
    <2>1. CASE history = "straight"
      BY <2>1 DEF Inv, Idle, Uploading
    <2>2. CASE history = "last"
      BY <2>2 DEF Inv, Flushed
    <2> QED BY <2>1, <2>2 DEF Inv, Types
  <1> QED BY <1>1, Invariance, PTL
=============================================================================
