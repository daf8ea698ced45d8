--------------------------- MODULE MultifsProofs ---------------------------
(***************************************************************************)
(* Proofs about Multifs.tla, for any paths and commands and for any number *)
(* of requests and of requests ahead.                                      *)
(***************************************************************************)
EXTENDS Multifs, SequenceTheorems, TLAPS

PartType == Header \cup {part("struct"), part("rest")}
FileType == [type : {"null", "s3", "smb"}, open_success : BOOLEAN, flags : AccessModes]
-----------------------------------------------------------------------------
(***************************************************************************)
(* Sequences.                                                              *)
(***************************************************************************)
LEMMA TailIs ==
    ASSUME NEW S, NEW s \in Seq(S), s # <<>>
    PROVE  /\ Head(s) = s[1] /\ Head(s) \in S /\ 1 \in DOMAIN s
           /\ Tail(s) \in Seq(S) /\ Len(Tail(s)) = Len(s) - 1 /\ Len(s) \in Nat /\ Len(s) >= 1
           /\ DOMAIN s = 1 .. Len(s) /\ DOMAIN Tail(s) = 1 .. Len(s) - 1
           /\ \A i \in 1 .. Len(s) - 1 : Tail(s)[i] = s[i + 1]
  OBVIOUS

LEMMA AppendIs ==
    ASSUME NEW S, NEW s \in Seq(S), NEW x \in S
    PROVE  /\ Append(s, x) \in Seq(S) /\ Len(Append(s, x)) = Len(s) + 1 /\ Len(s) \in Nat
           /\ DOMAIN s = 1 .. Len(s) /\ DOMAIN Append(s, x) = 1 .. Len(s) + 1
           /\ \A i \in 1 .. Len(s) : Append(s, x)[i] = s[i]
           /\ Append(s, x)[Len(s) + 1] = x
           /\ s \o << x >> = Append(s, x) /\ s \o <<>> = s
  OBVIOUS

\* What is left of a sequence without its first n elements.
LEMMA RestIs ==
    ASSUME NEW S, NEW s \in Seq(S), NEW n \in {1, 2}
    PROVE  LET t == SubSeq(s, n + 1, Len(s))
           IN  /\ t \in Seq(S) /\ Len(s) \in Nat /\ DOMAIN s = 1 .. Len(s)
               /\ n <= Len(s) => /\ Len(t) = Len(s) - n /\ DOMAIN t = 1 .. Len(s) - n
                                 /\ \A i \in 1 .. Len(s) - n : t[i] = s[i + n]
  OBVIOUS
-----------------------------------------------------------------------------
(***************************************************************************)
(* What dspcmd does with a request: it answers, or it crashes.  A payload  *)
(* goes back as it came only for a path of an unknown protocol.            *)
(***************************************************************************)
OpenFile(f) == f \in FileType /\ (f.open_success => f.type = "s3")

LEMMA OpenIs ==
    ASSUME NEW f, OpenFile(f), NEW mode \in AccessModes, NEW result
    PROVE  OpenFile(S3IoOpen(f, mode, result)) /\ OpenFile(S3IoOpenOnce(f, result))
  <1>1. "O_RDONLY" \in AccessModes
    BY DEF AccessModes
  <1>2. ASSUME NEW m \in AccessModes PROVE OpenFile(S3IoOpen(f, m, result))
    <2>1. CASE f.type = "s3"
      <3> DEFINE o == f.open_success \/ result = 0
                 g == [f EXCEPT !.flags = m, !.open_success = o]
      <3>1. S3IoOpen(f, m, result) = g
        BY <2>1 DEF S3IoOpen, OpenFile, FileType
      <3>2. o \in BOOLEAN
        BY DEF OpenFile, FileType
      <3> HIDE DEF o
      <3>3. g \in FileType /\ g.type = "s3"
        BY <2>1, <3>2 DEF OpenFile, FileType
      <3> HIDE DEF g
      <3> QED BY <3>1, <3>3 DEF OpenFile
    <2>2. CASE f.type # "s3"
      BY <2>2 DEF S3IoOpen
    <2> QED BY <2>1, <2>2
  <1> QED BY <1>1, <1>2 DEF S3IoOpenOnce

LEMMA TagIs ==
    ASSUME OpenFile(file), NEW p \in Path
    PROVE  /\ OpenFile(get_tag_fs(p))
           /\ get_tag_fs(p).type = "null" => p \in BadPaths
  <1>1. CASE p \in S3Paths
    <2>1. get_tag_fs(p) = [NullFile EXCEPT !.type = "s3"]
      BY <1>1 DEF get_tag_fs
    <2> QED BY <2>1 DEF NullFile, OpenFile, FileType, AccessModes
  <1>2. CASE p \notin S3Paths /\ p \in SmbPaths
    <2>1. get_tag_fs(p) = [NullFile EXCEPT !.type = "smb"]
      BY <1>2 DEF get_tag_fs
    <2> QED BY <2>1 DEF NullFile, OpenFile, FileType, AccessModes
  <1>3. CASE p \notin S3Paths /\ p \notin SmbPaths
    BY <1>3 DEF get_tag_fs, Path
  <1> QED BY <1>1, <1>2, <1>3

Answered ==
    \E result \in {0, -1}, payload \in {"none", "struct", "request"} :
        /\ Answer(Req, result, payload)
        /\ payload = "request" => Req.command = "STAT" /\ Req.path \in BadPaths

LEMMA ServeIs ==
    ASSUME TypeOK, Serve
    PROVE  /\ proc = "running" /\ requests # <<>> /\ requests' = Tail(requests) /\ UNCHANGED << pending, sent >>
           /\ proc' \in {"running", "exited", "crashed"} /\ OpenFile(file')
           /\ Answered \/ (proc' = "crashed" /\ UNCHANGED answers)
  <1> DEFINE Goal == /\ proc' \in {"running", "exited", "crashed"} /\ OpenFile(file')
                     /\ Answered \/ (proc' = "crashed" /\ UNCHANGED answers)
  <1>1. \E command \in {"OPEN", "CLOSE", "REMOVE", "READ", "WRITE", "STAT", "FLUSH", "TRUNCATE", "CACHE", "LOG"} :
           Take(command)
    BY DEF Serve, Open, Close, Remove, Read, Write, ReadOrWrite, Stat, Flush, Truncate, FlushOrTruncate, Config
  <1>2. proc = "running" /\ requests # <<>> /\ requests' = Tail(requests) /\ UNCHANGED << pending, sent >>
    BY <1>1 DEF Take
  <1> SUFFICES Goal
    BY <1>2
  <1>3. OpenFile(file)
    BY DEF TypeOK, OpenFile, FileType
  <1>4. Req \in Request /\ Req.path \in Path /\ Req.mode \in AccessModes
    <2>1. requests \in Seq(Request)
      BY DEF TypeOK
    <2>2. Req \in Request
      BY <1>2, <2>1, TailIs DEF Req
    <2> QED BY <2>2 DEF Request
  <1>5. \A f : Results(f) \subseteq {0, -1} /\ 0 \in {0, -1} /\ -1 \in {0, -1}
    BY DEF Results
  <1>6. ASSUME NEW result \in {0, -1}, NEW payload \in {"none", "struct"}, Answer(Req, result, payload)
        PROVE  Answered
    BY <1>6 DEF Answered
  <1>7. ASSUME NEW result, ExitIf(Req, result) PROVE proc' \in {"running", "exited", "crashed"}
    BY <1>7 DEF ExitIf
  <1>8. ASSUME DeleteHeader PROVE proc' \in {"running", "exited", "crashed"}
    BY <1>8 DEF DeleteHeader
  <1>9. ASSUME Crash PROVE Goal
    BY <1>3, <1>9 DEF Crash
  <1> DEFINE g == IF file.type = "null" THEN get_tag_fs(Req.path) ELSE file
  <1>10. OpenFile(get_tag_fs(Req.path)) /\ OpenFile(g) /\ (g.type = "null" => Req.path \in BadPaths)
    BY <1>3, <1>4, TagIs
  <1>11. ASSUME NEW opened PROVE OpenFile(S3IoOpenOnce(g, opened))
    BY <1>4, <1>10, OpenIs
  <1>12. CASE Open
    <2> DEFINE f == get_tag_fs(Req.path)
    <2>1. CASE f.type = "null" /\ Answer(Req, 0, "none") /\ ExitIf(Req, 0) /\ UNCHANGED file
      BY <1>3, <1>6, <1>7, <2>1
    <2>2. CASE \E result \in Results(f) :
                 /\ file' = S3IoOpen(f, Req.mode, result)
                 /\ Answer(Req, result, IF result = 0 THEN "struct" ELSE "none")
                 /\ ExitIf(Req, result)
      <3>1. PICK result \in Results(f) :
                 /\ file' = S3IoOpen(f, Req.mode, result)
                 /\ Answer(Req, result, IF result = 0 THEN "struct" ELSE "none")
                 /\ ExitIf(Req, result)
        BY <2>2
      <3> HIDE DEF f
      <3>2. result \in {0, -1}
        BY <1>5
      <3> QED BY <1>4, <1>6, <1>7, <1>10, <3>1, <3>2, OpenIs DEF f
    <2> QED BY <1>12, <2>1, <2>2 DEF Open
  <1>13. CASE Close
    <2>1. CASE Crash
      BY <1>9, <2>1
    <2>2. CASE \E result \in {0, -1} : Answer(Req, result, "none") /\ ExitIf(Req, result) /\ UNCHANGED file
      BY <1>3, <1>6, <1>7, <2>2
    <2> QED BY <1>5, <1>13, <2>1, <2>2 DEF Close
  <1>14. CASE Remove
    <2>1. CASE Answer(Req, 0, "none") /\ ExitIf(Req, 0) /\ UNCHANGED file
      BY <1>3, <1>6, <1>7, <2>1
    <2>2. CASE \E opened, result \in Results(g) :
                 /\ file' = S3IoOpenOnce(g, opened)
                 /\ Answer(Req, result, "none") /\ ExitIf(Req, result)
      <3>1. PICK opened, result \in Results(g) :
                 /\ file' = S3IoOpenOnce(g, opened)
                 /\ Answer(Req, result, "none") /\ ExitIf(Req, result)
        BY <2>2
      <3> HIDE DEF g
      <3>2. result \in {0, -1}
        BY <1>5
      <3> QED BY <1>6, <1>7, <1>11, <3>1, <3>2
    <2> HIDE DEF Goal
    <2> QED BY <1>14, <2>1, <2>2 DEF Remove
  <1>15. CASE Read \/ Write
    <2>1. CASE Crash
      BY <1>9, <2>1
    <2>2. CASE \E result \in {0, -1} :
                 Answer(Req, result, IF result = 0 THEN "struct" ELSE "none") /\ ExitIf(Req, result) /\ UNCHANGED file
      BY <1>3, <1>6, <1>7, <2>2
    <2> QED BY <1>5, <1>15, <2>1, <2>2 DEF Read, Write, ReadOrWrite
  <1>16. CASE Flush \/ Truncate
    <2>1. CASE Crash
      BY <1>9, <2>1
    <2>2. CASE \E result \in {0, -1} : Answer(Req, result, "none") /\ ExitIf(Req, result) /\ UNCHANGED file
      BY <1>3, <1>6, <1>7, <2>2
    <2> QED BY <1>5, <1>16, <2>1, <2>2 DEF Flush, Truncate, FlushOrTruncate
  <1>17. CASE Stat
    <2>1. CASE g.type = "null" /\ Answer(Req, 0, "request") /\ DeleteHeader /\ UNCHANGED file
      <3>1. Req.command = "STAT"
        BY <1>17 DEF Stat, Take, Req
      <3>2. Answered
        BY <1>10, <2>1, <3>1 DEF Answered
      <3> QED BY <1>3, <1>8, <2>1, <3>2
    <2>2. CASE \E opened, result \in Results(g) :
                 /\ file' = S3IoOpenOnce(g, opened)
                 /\ Answer(Req, result, IF result = 0 THEN "struct" ELSE "none")
                 /\ IF result = 0 THEN ExitIf(Req, 0) ELSE DeleteHeader
      <3>1. PICK opened, result \in Results(g) :
                 /\ file' = S3IoOpenOnce(g, opened)
                 /\ Answer(Req, result, IF result = 0 THEN "struct" ELSE "none")
                 /\ IF result = 0 THEN ExitIf(Req, 0) ELSE DeleteHeader
        BY <2>2
      <3> HIDE DEF g
      <3>2. result \in {0, -1}
        BY <1>5
      <3> QED BY <1>6, <1>7, <1>8, <1>11, <3>1, <3>2
    <2> HIDE DEF Goal
    <2> QED BY <1>17, <2>1, <2>2 DEF Stat
  <1>18. CASE Config("CACHE") \/ Config("LOG")
    BY <1>3, <1>6, <1>7, <1>18 DEF Config
  <1> HIDE DEF Goal
  <1> QED BY <1>12, <1>13, <1>14, <1>15, <1>16, <1>17, <1>18 DEF Serve

\* The parts an answer adds to the socket.
LEMMA AnswerIs ==
    ASSUME answers \in Seq(PartType), NEW r \in Request, NEW result \in {0, -1},
           NEW payload \in {"none", "struct", "request"}, Answer(r, result, payload)
    PROVE  LET h == header(r, -result, payload)
           IN  /\ h \in Header /\ answers' \in Seq(PartType)
               /\ payload = "none" => answers' = Append(answers, h)
               /\ payload = "struct" => answers' = Append(Append(answers, h), part("struct"))
  <1> DEFINE h == header(r, -result, payload)
             a == Append(answers, h)
             b == Append(a, part("struct"))
  <1>1. -result \in {0, 1}
    OBVIOUS
  <1>2. h \in Header
    BY <1>1 DEF header, Header, Request
  <1>3. h \in PartType /\ part("struct") \in PartType /\ part("rest") \in PartType
    BY <1>2 DEF PartType
  <1> HIDE DEF h
  <1>4. a \in Seq(PartType) /\ answers \o << h >> = a /\ a \o <<>> = a
    BY <1>3, AppendIs
  <1> HIDE DEF a
  <1>5. b \in Seq(PartType) /\ a \o << part("struct") >> = b /\ b \o <<>> = b
    BY <1>3, <1>4, AppendIs
  <1> HIDE DEF b
  <1>6. b \o << part("rest") >> \in Seq(PartType)
    BY <1>3, <1>5, AppendIs
  <1>7. answers' = answers \o << h >> \o (IF payload = "none" THEN <<>> ELSE << part("struct") >>)
                      \o (IF payload = "request" THEN << part("rest") >> ELSE <<>>)
    BY DEF Answer, h
  <1>8. CASE payload = "none"
    <2>1. answers' = a
      BY <1>4, <1>7, <1>8
    <2> QED BY <1>2, <1>4, <1>8, <2>1 DEF a, h
  <1>9. CASE payload = "struct"
    <2>1. answers' = b
      BY <1>4, <1>5, <1>7, <1>9
    <2> QED BY <1>2, <1>5, <1>9, <2>1 DEF a, b, h
  <1>10. CASE payload = "request"
    <2>1. answers' = b \o << part("rest") >>
      BY <1>4, <1>5, <1>7, <1>10
    <2> QED BY <1>2, <1>6, <1>10, <2>1 DEF h
  <1> QED BY <1>8, <1>9, <1>10
-----------------------------------------------------------------------------
(***************************************************************************)
(* Types.                                                                  *)
(***************************************************************************)
TypeParts ==
    /\ requests \in Seq(Request) /\ pending \in Seq(Request) /\ answers \in Seq(PartType)
    /\ sent \in 0 .. MaxRequests /\ proc \in {"running", "exited", "crashed"} /\ OpenFile(file)

LEMMA TypeIs == TypeOK <=> TypeParts
  BY DEF TypeOK, TypeParts, PartType, OpenFile, FileType

LEMMA SendTypes == ASSUME TypeParts, Send PROVE TypeParts'
  <1>1. PICK r \in Request : requests' = Append(requests, r) /\ pending' = Append(pending, r)
    BY DEF Send
  <1>2. sent < MaxRequests /\ sent' = sent + 1 /\ UNCHANGED << answers, proc, file >>
    BY DEF Send
  <1>3. requests' \in Seq(Request) /\ pending' \in Seq(Request)
    BY <1>1, AppendIs DEF TypeParts
  <1>4. sent' \in 0 .. MaxRequests
    BY <1>2, BoundsAssumption DEF TypeParts
  <1> QED BY <1>2, <1>3, <1>4 DEF TypeParts, OpenFile, FileType, PartType, Request, Header, part

LEMMA ReceiveTypes == ASSUME TypeParts, Receive PROVE TypeParts'
  <1>1. pending # <<>> /\ pending' = Tail(pending) /\ UNCHANGED << requests, sent, proc, file >>
    BY DEF Receive
  <1>2. \E n \in {1, 2} : answers' = SubSeq(answers, n + 1, Len(answers))
    BY DEF Receive
  <1>3. answers' \in Seq(PartType)
    BY <1>2, RestIs DEF TypeParts
  <1>4. pending' \in Seq(Request)
    BY <1>1, TailIs DEF TypeParts
  <1> QED BY <1>1, <1>3, <1>4 DEF TypeParts, OpenFile, FileType, PartType, Request, Header, part

LEMMA ServeTypes == ASSUME TypeParts, Serve PROVE TypeParts'
  <1>1. TypeOK
    BY TypeIs
  <1>2. /\ requests # <<>> /\ requests' = Tail(requests) /\ UNCHANGED << pending, sent >>
        /\ proc' \in {"running", "exited", "crashed"} /\ OpenFile(file')
        /\ Answered \/ (proc' = "crashed" /\ UNCHANGED answers)
    BY <1>1, ServeIs
  <1>3. requests' \in Seq(Request) /\ Req \in Request
    BY <1>2, TailIs DEF TypeParts, Req
  <1>4. answers' \in Seq(PartType)
    <2>1. CASE Answered
      BY <1>3, <2>1, AnswerIs DEF Answered, TypeParts
    <2> QED BY <1>2, <2>1 DEF TypeParts
  <1> QED BY <1>2, <1>3, <1>4 DEF TypeParts, OpenFile, FileType, PartType, Request, Header, part

LEMMA TypeAlways == Spec => []TypeParts
  <1>1. Init => TypeParts
    BY BoundsAssumption DEF Init, TypeParts, OpenFile, FileType, NullFile, AccessModes
  <1>2. TypeParts /\ [Next]_vars => TypeParts'
    <2> SUFFICES ASSUME TypeParts, [Next]_vars PROVE TypeParts'
      OBVIOUS
    <2>1. CASE UNCHANGED vars
      BY <2>1 DEF vars, TypeParts, OpenFile, FileType, PartType, Request, Header, part
    <2> QED BY <2>1, SendTypes, ReceiveTypes, ServeTypes DEF Next
  <1> QED BY <1>1, <1>2, PTL DEF Spec

\* The socket carries whole requests, headers and payloads, a result goes back
\* as 0 or a positive number, and only a file of S3Io is marked open.
THEOREM MultifsTypes == Spec => []TypeOK
  BY TypeAlways, TypeIs, PTL
-----------------------------------------------------------------------------
(***************************************************************************)
(* The order of the answers, for a parent that does not ask for the status *)
(* of a path of an unknown protocol.                                       *)
(***************************************************************************)
KnownPaths == BadPaths = {} \/ "STAT" \notin Commands

\* The requests that are pending are numbered; those main has not read are the
\* last of them.
Numbered ==
    /\ \A n \in DOMAIN pending : pending[n].sequence = sent - Len(pending) + n
    /\ Len(requests) <= Len(pending)
    /\ \A n \in DOMAIN requests : requests[n] = pending[Len(pending) - Len(requests) + n]

\* A header announces what follows it.
Framed ==
    /\ answers # <<>> => answers[1].part = "header"
    /\ \A i \in DOMAIN answers :
          \/ answers[i].part = "header" /\ answers[i].payload = "none" /\ (i < Len(answers) => answers[i + 1].part = "header")
          \/ /\ answers[i].part = "header" /\ answers[i].payload = "struct"
             /\ i < Len(answers) /\ answers[i + 1].part = "struct"
          \/ answers[i].part = "struct" /\ (i < Len(answers) => answers[i + 1].part = "header")

Oldest == sent - Len(pending) + 1       \* the first request that is pending
Latest == sent - Len(requests)          \* the last one main has read

\* Answers are those of requests that main has read, in their order, and only
\* the request main crashed on has none.
InOrder ==
    /\ \A i \in DOMAIN answers : answers[i].part = "header" =>
          /\ answers[i].sequence \in Oldest .. Latest
          /\ answers[i].command = pending[answers[i].sequence - Oldest + 1].command
    /\ \A i, j \in DOMAIN answers :
          answers[i].part = "header" /\ answers[j].part = "header" /\ j < i => answers[j].sequence < answers[i].sequence
    /\ \A s \in Oldest .. Latest :
          \/ \E i \in DOMAIN answers : answers[i].part = "header" /\ answers[i].sequence = s
          \/ proc = "crashed" /\ s = Latest

Inv == TypeParts /\ Numbered /\ Framed /\ InOrder

LEMMA Lengths ==
    ASSUME TypeParts
    PROVE  /\ Len(requests) \in Nat /\ Len(pending) \in Nat /\ Len(answers) \in Nat /\ sent \in Nat
           /\ DOMAIN requests = 1 .. Len(requests) /\ DOMAIN pending = 1 .. Len(pending)
           /\ DOMAIN answers = 1 .. Len(answers)
           /\ answers # <<>> => Len(answers) >= 1
  BY BoundsAssumption DEF TypeParts

LEMMA SendKeeps == ASSUME Inv, Send PROVE Inv'
  <1>1. PICK r \in Request :
           r.sequence = sent + 1 /\ requests' = Append(requests, r) /\ pending' = Append(pending, r)
    BY DEF Send
  <1>2. sent' = sent + 1 /\ answers' = answers /\ proc' = proc
    BY DEF Send
  <1>3. TypeParts'
    BY SendTypes DEF Inv
  <1>4. /\ Len(requests) \in Nat /\ Len(pending) \in Nat /\ sent \in Nat
        /\ DOMAIN requests = 1 .. Len(requests) /\ DOMAIN pending = 1 .. Len(pending)
    BY Lengths DEF Inv
  <1>5. /\ Len(requests') = Len(requests) + 1 /\ DOMAIN requests' = 1 .. Len(requests) + 1
        /\ \A i \in 1 .. Len(requests) : requests'[i] = requests[i]
        /\ requests'[Len(requests) + 1] = r
    BY <1>1, AppendIs DEF Inv, TypeParts
  <1>6. /\ Len(pending') = Len(pending) + 1 /\ DOMAIN pending' = 1 .. Len(pending) + 1
        /\ \A i \in 1 .. Len(pending) : pending'[i] = pending[i]
        /\ pending'[Len(pending) + 1] = r
    BY <1>1, AppendIs DEF Inv, TypeParts
  <1>7. Numbered'
    <2>1. ASSUME NEW n \in DOMAIN pending' PROVE pending'[n].sequence = sent' - Len(pending') + n
      <3>1. CASE n \in 1 .. Len(pending)
        BY <1>2, <1>4, <1>6, <3>1 DEF Inv, Numbered
      <3>2. CASE n = Len(pending) + 1
        BY <1>1, <1>2, <1>4, <1>6, <3>2
      <3> QED BY <1>4, <1>6, <3>1, <3>2
    <2>2. Len(requests') <= Len(pending')
      BY <1>4, <1>5, <1>6 DEF Inv, Numbered
    <2>3. ASSUME NEW n \in DOMAIN requests' PROVE requests'[n] = pending'[Len(pending') - Len(requests') + n]
      <3>1. Len(requests) <= Len(pending)
        BY DEF Inv, Numbered
      <3>2. CASE n \in 1 .. Len(requests)
        <4>1. requests[n] = pending[Len(pending) - Len(requests) + n]
          BY <1>4, <3>2 DEF Inv, Numbered
        <4>2. Len(pending') - Len(requests') + n = Len(pending) - Len(requests) + n
              /\ Len(pending) - Len(requests) + n \in 1 .. Len(pending)
          BY <1>4, <1>5, <1>6, <3>1, <3>2
        <4> QED BY <1>5, <1>6, <3>2, <4>1, <4>2
      <3>3. CASE n = Len(requests) + 1
        <4>1. Len(pending') - Len(requests') + n = Len(pending) + 1
          BY <1>4, <1>5, <1>6, <3>3
        <4> QED BY <1>5, <1>6, <3>3, <4>1
      <3> QED BY <1>4, <1>5, <3>2, <3>3
    <2> QED BY <2>1, <2>2, <2>3 DEF Numbered
  <1>8. Framed'
    BY <1>2 DEF Inv, Framed
  <1>9. Oldest' = Oldest /\ Latest' = Latest
    BY <1>2, <1>4, <1>5, <1>6 DEF Oldest, Latest
  <1>10. InOrder'
    <2>1. ASSUME NEW i \in DOMAIN answers, answers[i].part = "header"
          PROVE  /\ answers[i].sequence \in Oldest .. Latest
                 /\ answers[i].command = pending'[answers[i].sequence - Oldest + 1].command
      <3>1. /\ answers[i].sequence \in Oldest .. Latest
            /\ answers[i].command = pending[answers[i].sequence - Oldest + 1].command
        BY <2>1 DEF Inv, InOrder
      <3>2. answers[i].sequence - Oldest + 1 \in 1 .. Len(pending)
        BY <1>4, <3>1 DEF Oldest, Latest
      <3> QED BY <1>6, <3>1, <3>2
    <2> QED BY <1>2, <1>9, <2>1 DEF Inv, InOrder
  <1> QED BY <1>3, <1>7, <1>8, <1>10 DEF Inv

\* The first answer is that of the oldest request.
LEMMA FirstIsOldest ==
    ASSUME Inv, answers # <<>>
    PROVE  /\ answers[1].part = "header" /\ answers[1].sequence = Oldest
           /\ Oldest \in Int /\ Latest \in Int /\ Oldest <= Latest /\ 1 \in DOMAIN answers
  <1>1. /\ Len(requests) \in Nat /\ Len(pending) \in Nat /\ sent \in Nat /\ Len(answers) \in Nat
        /\ DOMAIN answers = 1 .. Len(answers) /\ Len(answers) >= 1
    BY Lengths DEF Inv
  <1>2. Oldest \in Int /\ Latest \in Int /\ 1 \in DOMAIN answers
    BY <1>1 DEF Oldest, Latest
  <1>3. answers[1].part = "header"
    BY DEF Inv, Framed
  <1>4. answers[1].sequence \in Oldest .. Latest
    BY <1>2, <1>3 DEF Inv, InOrder
  <1>5. Oldest <= Latest
    BY <1>2, <1>4
  <1>6. ASSUME answers[1].sequence # Oldest PROVE FALSE
    <2>1. Oldest < Latest \/ answers[1].sequence = Oldest
      BY <1>2, <1>4
    <2>2. Oldest \in Oldest .. Latest /\ Oldest # Latest
      BY <1>2, <1>5, <1>6, <2>1
    <2>3. PICK i \in DOMAIN answers : answers[i].part = "header" /\ answers[i].sequence = Oldest
      BY <2>2 DEF Inv, InOrder
    <2>4. 1 < i
      BY <1>1, <1>6, <2>3
    <2>5. answers[1].sequence < answers[i].sequence
      BY <1>2, <1>3, <2>3, <2>4 DEF Inv, InOrder
    <2> QED BY <1>2, <1>4, <2>3, <2>5
  <1> QED BY <1>2, <1>3, <1>5, <1>6

\* The parent reads a whole answer, that of the oldest request.
LEMMA ReceiveKeeps == ASSUME Inv, Receive PROVE Inv'
  <1> DEFINE n == IF answers[1].part = "header" /\ answers[1].payload # "none" THEN 2 ELSE 1
  <1>1. /\ answers # <<>> /\ pending # <<>> /\ pending' = Tail(pending)
        /\ answers' = SubSeq(answers, n + 1, Len(answers))
        /\ requests' = requests /\ sent' = sent /\ proc' = proc
    BY DEF Receive
  <1>2. TypeParts'
    BY ReceiveTypes DEF Inv
  <1>3. /\ Len(requests) \in Nat /\ Len(pending) \in Nat /\ sent \in Nat /\ Len(answers) \in Nat
        /\ DOMAIN requests = 1 .. Len(requests) /\ DOMAIN pending = 1 .. Len(pending)
        /\ DOMAIN answers = 1 .. Len(answers) /\ Len(answers) >= 1
    BY <1>1, Lengths DEF Inv
  <1>4. /\ answers[1].part = "header" /\ answers[1].sequence = Oldest
        /\ Oldest \in Int /\ Latest \in Int /\ Oldest <= Latest /\ 1 \in DOMAIN answers
    BY <1>1, FirstIsOldest
  <1>5. /\ n \in {1, 2} /\ n <= Len(answers) /\ (n = 2 => answers[2].part = "struct")
        /\ n < Len(answers) => answers[n + 1].part = "header"
    <2>1. CASE answers[1].payload = "none"
      BY <1>3, <1>4, <2>1 DEF Inv, Framed
    <2>2. CASE answers[1].payload # "none"
      <3>1. 1 < Len(answers) /\ answers[2].part = "struct"
        BY <1>3, <1>4, <2>2 DEF Inv, Framed
      <3>2. 2 \in DOMAIN answers
        BY <1>3, <3>1
      <3>3. 2 < Len(answers) => answers[3].part = "header"
        BY <3>1, <3>2 DEF Inv, Framed
      <3> QED BY <1>3, <1>4, <2>2, <3>1, <3>3
    <2> QED BY <2>1, <2>2
  <1> HIDE DEF n
  <1>6. /\ Len(answers') = Len(answers) - n /\ DOMAIN answers' = 1 .. Len(answers) - n
        /\ \A i \in 1 .. Len(answers) - n : answers'[i] = answers[i + n] /\ i + n \in DOMAIN answers
    <2>1. answers \in Seq(PartType)
      BY DEF Inv, TypeParts
    <2> DEFINE t == SubSeq(answers, n + 1, Len(answers))
    <2>2. /\ Len(t) = Len(answers) - n /\ DOMAIN t = 1 .. Len(answers) - n
          /\ \A i \in 1 .. Len(answers) - n : t[i] = answers[i + n]
      BY <1>5, <2>1, RestIs
    <2>3. answers' = t
      BY <1>1
    <2> HIDE DEF t
    <2>4. \A i \in 1 .. Len(answers) - n : i + n \in DOMAIN answers
      BY <1>3, <1>5
    <2> QED BY <2>2, <2>3, <2>4
  <1>7. /\ Len(pending') = Len(pending) - 1 /\ DOMAIN pending' = 1 .. Len(pending) - 1
        /\ \A i \in 1 .. Len(pending) - 1 : pending'[i] = pending[i + 1] /\ i + 1 \in DOMAIN pending
    <2>1. pending \in Seq(Request)
      BY DEF Inv, TypeParts
    <2> QED BY <1>1, <1>3, <2>1, TailIs
  <1>8. Len(requests) <= Len(pending) - 1
    BY <1>3, <1>4 DEF Oldest, Latest
  <1>9. Numbered'
    <2>1. ASSUME NEW m \in DOMAIN pending' PROVE pending'[m].sequence = sent' - Len(pending') + m
      <3>1. pending[m + 1].sequence = sent - Len(pending) + (m + 1)
        BY <1>7 DEF Inv, Numbered
      <3> QED BY <1>1, <1>3, <1>7, <3>1
    <2>2. ASSUME NEW m \in DOMAIN requests' PROVE requests'[m] = pending'[Len(pending') - Len(requests') + m]
      <3>1. requests[m] = pending[Len(pending) - Len(requests) + m]
        BY <1>1 DEF Inv, Numbered
      <3>2. Len(pending') - Len(requests') + m = Len(pending) - Len(requests) + m - 1
        BY <1>1, <1>3, <1>7
      <3>3. Len(pending) - Len(requests) + m - 1 \in 1 .. Len(pending) - 1
        BY <1>1, <1>3, <1>8
      <3>4. Len(pending) - Len(requests) + m - 1 + 1 = Len(pending) - Len(requests) + m
        BY <1>1, <1>3
      <3> QED BY <1>1, <1>7, <3>1, <3>2, <3>3, <3>4
    <2> QED BY <1>1, <1>7, <1>8, <2>1, <2>2 DEF Numbered
  <1>10. Framed'
    <2>1. answers' # <<>> => answers'[1].part = "header"
      <3>1. ASSUME answers' # <<>> PROVE answers'[1].part = "header"
        <4>1. Len(answers') >= 1
          BY <1>2, <3>1 DEF TypeParts
        <4>2. 1 \in 1 .. Len(answers) - n /\ n < Len(answers) /\ 1 + n = n + 1
          BY <1>3, <1>5, <1>6, <4>1
        <4> QED BY <1>5, <1>6, <4>2
      <3> QED BY <3>1
    <2>2. ASSUME NEW i \in DOMAIN answers'
          PROVE  \/ /\ answers'[i].part = "header" /\ answers'[i].payload = "none"
                    /\ i < Len(answers') => answers'[i + 1].part = "header"
                 \/ /\ answers'[i].part = "header" /\ answers'[i].payload = "struct"
                    /\ i < Len(answers') /\ answers'[i + 1].part = "struct"
                 \/ answers'[i].part = "struct" /\ (i < Len(answers') => answers'[i + 1].part = "header")
      <3>1. answers'[i] = answers[i + n] /\ i + n \in DOMAIN answers
        BY <1>6
      <3>2. i < Len(answers') <=> i + n < Len(answers)
        BY <1>3, <1>5, <1>6
      <3>3. i < Len(answers') => answers'[i + 1] = answers[i + n + 1]
        <4>1. i < Len(answers') => i + 1 \in 1 .. Len(answers) - n /\ (i + 1) + n = i + n + 1
          BY <1>3, <1>5, <1>6
        <4> QED BY <1>6, <4>1
      <3> QED BY <3>1, <3>2, <3>3 DEF Inv, Framed
    <2> QED BY <2>1, <2>2 DEF Framed
  <1>11. Oldest' = Oldest + 1 /\ Latest' = Latest
    BY <1>1, <1>3, <1>7 DEF Oldest, Latest
  <1>12. InOrder'
    <2>1. ASSUME NEW i \in DOMAIN answers', answers'[i].part = "header"
          PROVE  /\ answers'[i].sequence \in Oldest' .. Latest'
                 /\ answers'[i].command = pending'[answers'[i].sequence - Oldest' + 1].command
      <3>1. /\ answers'[i] = answers[i + n] /\ i + n \in DOMAIN answers /\ 1 < i + n
        BY <1>5, <1>6
      <3>2. /\ answers[i + n].sequence \in Oldest .. Latest
            /\ answers[i + n].command = pending[answers[i + n].sequence - Oldest + 1].command
        BY <2>1, <3>1 DEF Inv, InOrder
      <3>3. Oldest < answers[i + n].sequence
        BY <1>4, <2>1, <3>1 DEF Inv, InOrder
      <3> DEFINE k == answers[i + n].sequence - Oldest
      <3>4. answers[i + n].sequence \in Int
        BY <1>4, <3>2
      <3>5. k \in 1 .. Len(pending) - 1 /\ answers[i + n].sequence - Oldest' + 1 = k
        <4>1. answers[i + n].sequence <= sent - Len(requests) /\ Oldest = sent - Len(pending) + 1
          BY <1>3, <1>4, <3>2 DEF Oldest, Latest
        <4> QED BY <1>3, <1>4, <1>11, <3>3, <3>4, <4>1
      <3>6. pending'[k] = pending[k + 1]
        BY <1>7, <3>5
      <3>7. answers[i + n].sequence \in Oldest' .. Latest'
        BY <1>4, <1>11, <3>2, <3>3
      <3> HIDE DEF k
      <3> QED BY <3>1, <3>2, <3>5, <3>6, <3>7 DEF k
    <2>2. ASSUME NEW i \in DOMAIN answers', NEW j \in DOMAIN answers',
                 answers'[i].part = "header", answers'[j].part = "header", j < i
          PROVE  answers'[j].sequence < answers'[i].sequence
      <3>1. /\ answers'[i] = answers[i + n] /\ i + n \in DOMAIN answers
            /\ answers'[j] = answers[j + n] /\ j + n \in DOMAIN answers
        BY <1>6
      <3>2. j + n < i + n
        BY <1>3, <1>5, <1>6, <2>2
      <3> QED BY <2>2, <3>1, <3>2 DEF Inv, InOrder
    <2>3. ASSUME NEW s \in Oldest' .. Latest'
          PROVE  \/ \E i \in DOMAIN answers' : answers'[i].part = "header" /\ answers'[i].sequence = s
                 \/ proc' = "crashed" /\ s = Latest'
      <3>1. s \in Oldest .. Latest /\ s # Oldest
        BY <1>4, <1>11
      <3>2. CASE \E i \in DOMAIN answers : answers[i].part = "header" /\ answers[i].sequence = s
        <4>1. PICK i \in DOMAIN answers : answers[i].part = "header" /\ answers[i].sequence = s
          BY <3>2
        <4>2. i # 1
          BY <1>4, <3>1, <4>1
        <4>3. ~(n = 2 /\ i = 2)
          BY <1>5, <4>1
        <4>4. i - n \in 1 .. Len(answers) - n /\ i - n + n = i
          BY <1>3, <1>5, <4>2, <4>3
        <4>5. answers'[i - n] = answers[i] /\ i - n \in DOMAIN answers'
          BY <1>6, <4>4
        <4> QED BY <4>1, <4>5
      <3> QED BY <1>1, <1>11, <3>1, <3>2 DEF Inv, InOrder
    <2> QED BY <2>1, <2>2, <2>3 DEF InOrder
  <1> QED BY <1>2, <1>9, <1>10, <1>12 DEF Inv

\* main reads the request after the latest it has read, and answers it.
LEMMA ServeKeeps == ASSUME KnownPaths, Inv, Serve PROVE Inv'
  <1> DEFINE L == Len(answers)
  <1>1. TypeOK /\ TypeParts'
    BY TypeIs, ServeTypes DEF Inv
  <1>2. /\ proc = "running" /\ requests # <<>> /\ requests' = Tail(requests) /\ pending' = pending /\ sent' = sent
        /\ Answered \/ (proc' = "crashed" /\ answers' = answers)
    BY <1>1, ServeIs
  <1>3. /\ Len(requests) \in Nat /\ Len(pending) \in Nat /\ sent \in Nat /\ L \in Nat
        /\ DOMAIN requests = 1 .. Len(requests) /\ DOMAIN pending = 1 .. Len(pending)
        /\ DOMAIN answers = 1 .. L
    BY Lengths DEF Inv
  <1>4. /\ Len(requests') = Len(requests) - 1 /\ DOMAIN requests' = 1 .. Len(requests) - 1 /\ Len(requests) >= 1
        /\ \A i \in 1 .. Len(requests) - 1 : requests'[i] = requests[i + 1] /\ i + 1 \in DOMAIN requests
        /\ Req = requests[1] /\ Req \in Request /\ 1 \in DOMAIN requests
    <2>1. requests \in Seq(Request)
      BY DEF Inv, TypeParts
    <2> QED BY <1>2, <1>3, <2>1, TailIs DEF Req
  <1>5. Len(requests) <= Len(pending)
    BY DEF Inv, Numbered
  <1>6. Oldest' = Oldest /\ Latest' = Latest + 1 /\ Oldest \in Int /\ Latest \in Int /\ Oldest <= Latest + 1
    BY <1>2, <1>3, <1>4, <1>5 DEF Oldest, Latest
  <1>7. Numbered'
    <2>1. ASSUME NEW m \in DOMAIN requests' PROVE requests'[m] = pending'[Len(pending') - Len(requests') + m]
      <3>1. requests[m + 1] = pending[Len(pending) - Len(requests) + (m + 1)]
        BY <1>4 DEF Inv, Numbered
      <3>2. Len(pending') - Len(requests') + m = Len(pending) - Len(requests) + (m + 1)
        BY <1>2, <1>3, <1>4
      <3> QED BY <1>2, <1>4, <3>1, <3>2
    <2>2. Len(requests') <= Len(pending')
      BY <1>2, <1>3, <1>4, <1>5
    <2> QED BY <1>2, <2>1, <2>2 DEF Inv, Numbered
  <1>8. Req.sequence = Latest + 1 /\ Req.command = pending[Latest + 1 - Oldest + 1].command
    <2> DEFINE k == Len(pending) - Len(requests) + 1
    <2>1. requests[1] = pending[k]
      BY <1>4 DEF Inv, Numbered
    <2>2. k \in DOMAIN pending /\ Latest + 1 - Oldest + 1 = k /\ sent - Len(pending) + k = Latest + 1
      BY <1>3, <1>4, <1>5 DEF Oldest, Latest
    <2>3. pending[k].sequence = Latest + 1
      BY <2>2 DEF Inv, Numbered
    <2> HIDE DEF k
    <2> QED BY <1>4, <2>1, <2>2, <2>3
  <1>9. ASSUME NEW i \in DOMAIN answers, answers[i].part = "header"
        PROVE  /\ answers[i].sequence \in Oldest' .. Latest' /\ answers[i].sequence < Latest + 1
               /\ answers[i].command = pending'[answers[i].sequence - Oldest' + 1].command
    <2>1. /\ answers[i].sequence \in Oldest .. Latest
          /\ answers[i].command = pending[answers[i].sequence - Oldest + 1].command
      BY <1>9 DEF Inv, InOrder
    <2> QED BY <1>2, <1>6, <2>1
  <1>10. ASSUME NEW s \in Oldest .. Latest
         PROVE  \E i \in DOMAIN answers : answers[i].part = "header" /\ answers[i].sequence = s
    BY <1>2 DEF Inv, InOrder
  <1>11. ASSUME NEW s \in Oldest' .. Latest' PROVE s \in Oldest .. Latest \/ s = Latest'
    BY <1>6
  <1>12. CASE proc' = "crashed" /\ answers' = answers
    <2>1. Framed'
      BY <1>12 DEF Inv, Framed
    <2>2. InOrder'
      <3>1. \A s \in Oldest' .. Latest' :
               \/ \E i \in DOMAIN answers' : answers'[i].part = "header" /\ answers'[i].sequence = s
               \/ proc' = "crashed" /\ s = Latest'
        BY <1>10, <1>11, <1>12
      <3>2. \A i, j \in DOMAIN answers' : answers'[i].part = "header" /\ answers'[j].part = "header" /\ j < i =>
               answers'[j].sequence < answers'[i].sequence
        BY <1>12 DEF Inv, InOrder
      <3> QED BY <1>9, <1>12, <3>1, <3>2 DEF InOrder
    <2> QED BY <1>1, <1>7, <2>1, <2>2 DEF Inv
  <1>13. CASE Answered
    <2>1. PICK result \in {0, -1}, payload \in {"none", "struct", "request"} :
             /\ Answer(Req, result, payload)
             /\ payload = "request" => Req.command = "STAT" /\ Req.path \in BadPaths
      BY <1>13 DEF Answered
    <2>2. payload \in {"none", "struct"}
      BY <1>4, <2>1 DEF KnownPaths, Request
    <2> DEFINE h == header(Req, -result, payload)
    <2>3. /\ h.part = "header" /\ h.sequence = Latest + 1 /\ h.payload = payload
          /\ h.command = pending[Latest + 1 - Oldest + 1].command
      BY <1>8 DEF header
    <2>4. part("struct").part = "struct"
      BY DEF part
    <2>5. answers \in Seq(PartType) /\ h \in PartType /\ part("struct") \in PartType
      BY <1>4, <2>1, AnswerIs DEF Inv, TypeParts, PartType
    <2>6. /\ payload = "none" => answers' = Append(answers, h)
          /\ payload = "struct" => answers' = Append(Append(answers, h), part("struct"))
      BY <1>4, <2>1, <2>5, AnswerIs
    <2> HIDE DEF h
    <2> DEFINE M == Len(answers')
    <2>7. /\ M = IF payload = "none" THEN L + 1 ELSE L + 2
          /\ DOMAIN answers' = 1 .. M
          /\ \A i \in 1 .. L : answers'[i] = answers[i]
          /\ answers'[L + 1] = h
          /\ payload = "struct" => answers'[L + 2] = part("struct")
      <3>1. /\ Append(answers, h) \in Seq(PartType) /\ Len(Append(answers, h)) = L + 1
            /\ DOMAIN Append(answers, h) = 1 .. L + 1
            /\ (\A i \in 1 .. L : Append(answers, h)[i] = answers[i]) /\ Append(answers, h)[L + 1] = h
        BY <2>5, AppendIs
      <3>2. CASE payload = "none"
        BY <2>6, <3>1, <3>2
      <3>3. CASE payload = "struct"
        <4> DEFINE a == Append(answers, h)
                   b == Append(a, part("struct"))
        <4>1. /\ a \in Seq(PartType) /\ Len(a) = L + 1 /\ (\A i \in 1 .. L : a[i] = answers[i]) /\ a[L + 1] = h
          BY <3>1
        <4>2. answers' = b
          BY <2>6, <3>3
        <4> HIDE DEF a
        <4>3. /\ Len(b) = Len(a) + 1 /\ DOMAIN b = 1 .. Len(a) + 1 /\ (\A i \in 1 .. Len(a) : b[i] = a[i])
              /\ b[Len(a) + 1] = part("struct")
          BY <2>5, <4>1, AppendIs
        <4> HIDE DEF b
        <4>4. \A i \in 1 .. L : i \in 1 .. Len(a)
          BY <1>3, <4>1
        <4>5. L + 1 \in 1 .. Len(a) /\ Len(a) + 1 = L + 2
          BY <1>3, <4>1
        <4> QED BY <3>3, <4>1, <4>2, <4>3, <4>4, <4>5
      <3> QED BY <2>2, <3>2, <3>3
    <2> HIDE DEF M, L
    <2>8. \A i \in DOMAIN answers' :
             \/ i \in 1 .. L /\ answers'[i] = answers[i]
             \/ i = L + 1 /\ answers'[i] = h
             \/ i = L + 2 /\ payload = "struct" /\ answers'[i].part = "struct"
      BY <1>3, <2>2, <2>4, <2>7
    <2>9. Framed'
      <3>1. answers'[1].part = "header"
        <4>1. CASE L = 0
          BY <2>3, <2>7, <4>1
        <4>2. CASE L # 0
          <5>1. 1 \in 1 .. L /\ answers # <<>>
            BY <1>3, <4>2 DEF L
          <5> QED BY <2>7, <5>1 DEF Inv, Framed
        <4> QED BY <4>1, <4>2
      <3>2. ASSUME NEW i \in DOMAIN answers'
            PROVE  \/ /\ answers'[i].part = "header" /\ answers'[i].payload = "none"
                      /\ i < Len(answers') => answers'[i + 1].part = "header"
                   \/ /\ answers'[i].part = "header" /\ answers'[i].payload = "struct"
                      /\ i < Len(answers') /\ answers'[i + 1].part = "struct"
                   \/ answers'[i].part = "struct" /\ (i < Len(answers') => answers'[i + 1].part = "header")
        <4>1. CASE i \in 1 .. L /\ i < L
          <5>1. answers'[i] = answers[i] /\ answers'[i + 1] = answers[i + 1] /\ i < M
            BY <1>3, <2>2, <2>7, <4>1
          <5> QED BY <1>3, <4>1, <5>1 DEF Inv, Framed, L, M
        <4>2. CASE i \in 1 .. L /\ ~(i < L)
          <5>1. i = L /\ answers'[i] = answers[i] /\ answers'[i + 1].part = "header"
            BY <1>3, <2>3, <2>7, <4>2
          <5> QED BY <1>3, <4>2, <5>1 DEF Inv, Framed, L
        <4>3. CASE i = L + 1
          <5>1. i + 1 = L + 2 /\ (payload = "struct" => i < M) /\ (payload = "none" => ~(i < M))
            BY <1>3, <2>7, <4>3
          <5> QED BY <2>2, <2>3, <2>4, <2>7, <4>3, <5>1 DEF M
        <4>4. CASE i = L + 2 /\ payload = "struct" /\ answers'[i].part = "struct"
          <5>1. ~(i < M)
            BY <1>3, <2>7, <4>4
          <5> QED BY <4>4, <5>1 DEF M
        <4> QED BY <2>8, <4>1, <4>2, <4>3, <4>4
      <3> QED BY <3>1, <3>2 DEF Framed
    <2>10. InOrder'
      <3>1. ASSUME NEW i \in DOMAIN answers', answers'[i].part = "header"
            PROVE  \/ i \in DOMAIN answers /\ answers'[i] = answers[i]
                   \/ i = L + 1 /\ answers'[i] = h
        BY <1>3, <2>8, <3>1
      <3>2. ASSUME NEW i \in DOMAIN answers', answers'[i].part = "header"
            PROVE  /\ answers'[i].sequence \in Oldest' .. Latest'
                   /\ answers'[i].command = pending'[answers'[i].sequence - Oldest' + 1].command
        <4>1. CASE i \in DOMAIN answers /\ answers'[i] = answers[i]
          BY <1>9, <3>2, <4>1
        <4>2. CASE i = L + 1 /\ answers'[i] = h
          BY <1>2, <1>6, <2>3, <4>2
        <4> QED BY <3>1, <3>2, <4>1, <4>2
      <3>3. ASSUME NEW i \in DOMAIN answers', NEW j \in DOMAIN answers',
                   answers'[i].part = "header", answers'[j].part = "header", j < i
            PROVE  answers'[j].sequence < answers'[i].sequence
        <4>1. CASE i \in DOMAIN answers /\ answers'[i] = answers[i]
          <5>1. j \in DOMAIN answers /\ answers'[j] = answers[j]
            BY <1>3, <3>1, <3>3, <4>1
          <5> QED BY <3>3, <4>1, <5>1 DEF Inv, InOrder
        <4>2. CASE i = L + 1 /\ answers'[i] = h
          <5>1. j \in DOMAIN answers /\ answers'[j] = answers[j]
            BY <1>3, <3>1, <3>3, <4>2
          <5> QED BY <1>9, <2>3, <3>3, <4>2, <5>1
        <4> QED BY <3>1, <3>3, <4>1, <4>2
      <3>4. ASSUME NEW s \in Oldest' .. Latest'
            PROVE  \E i \in DOMAIN answers' : answers'[i].part = "header" /\ answers'[i].sequence = s
        <4>1. CASE s \in Oldest .. Latest
          <5>1. PICK i \in DOMAIN answers : answers[i].part = "header" /\ answers[i].sequence = s
            BY <1>10, <4>1
          <5>2. i \in DOMAIN answers' /\ answers'[i] = answers[i]
            BY <1>3, <2>2, <2>7
          <5> QED BY <5>1, <5>2
        <4>2. CASE s = Latest'
          <5>1. L + 1 \in DOMAIN answers'
            BY <1>3, <2>2, <2>7
          <5> QED BY <1>6, <2>3, <2>7, <4>2, <5>1
        <4> QED BY <1>11, <4>1, <4>2
      <3> QED BY <3>2, <3>3, <3>4 DEF InOrder
    <2> QED BY <1>1, <1>7, <2>9, <2>10 DEF Inv
  <1> QED BY <1>2, <1>12, <1>13
-----------------------------------------------------------------------------
LEMMA InvAlways == KnownPaths => (Spec => []Inv)
  <1> SUFFICES ASSUME KnownPaths PROVE Spec => []Inv
    OBVIOUS
  <1>1. Init => Inv
    <2> SUFFICES ASSUME Init PROVE Inv
      OBVIOUS
    <2>1. requests = <<>> /\ answers = <<>> /\ pending = <<>> /\ sent = 0
      BY DEF Init
    <2>2. Len(requests) = 0 /\ Len(pending) = 0 /\ DOMAIN answers = {} /\ DOMAIN pending = {} /\ DOMAIN requests = {}
      BY <2>1
    <2>3. Numbered /\ Framed
      BY <2>1, <2>2 DEF Numbered, Framed
    <2>4. InOrder
      <3>1. Oldest .. Latest = {}
        BY <2>1, <2>2 DEF Oldest, Latest
      <3> QED BY <2>2, <3>1 DEF InOrder
    <2>5. TypeParts
      BY BoundsAssumption DEF Init, TypeParts, OpenFile, FileType, NullFile, AccessModes
    <2> QED BY <2>3, <2>4, <2>5 DEF Inv
  <1>2. Inv /\ [Next]_vars => Inv'
    <2> SUFFICES ASSUME Inv, [Next]_vars PROVE Inv'
      OBVIOUS
    <2>1. CASE UNCHANGED vars
      <3>1. TypeParts'
        BY <2>1 DEF vars, Inv, TypeParts, OpenFile, FileType, PartType, Request, Header, part
      <3>2. Numbered' /\ Framed' /\ InOrder'
        BY <2>1 DEF vars, Inv, Numbered, Framed, InOrder, Oldest, Latest
      <3> QED BY <3>1, <3>2 DEF Inv
    <2> QED BY <2>1, SendKeeps, ReceiveKeeps, ServeKeeps DEF Next
  <1> QED BY <1>1, <1>2, PTL DEF Spec

\* However many requests a parent sends ahead and whatever their outcome, the
\* answers on the socket are those of the oldest requests it waits for, in
\* order: as long as it does not ask for the status of a path of an unknown
\* protocol, which dspcmd answers with the payload of the request.
THEOREM AnswersComeInOrder ==
    ASSUME BadPaths = {} \/ "STAT" \notin Commands PROVE Spec => []AnswersInOrder
  <1>1. Inv => AnswersInOrder
    <2> SUFFICES ASSUME Inv PROVE AnswersInOrder
      OBVIOUS
    <2>1. /\ Len(requests) \in Nat /\ Len(pending) \in Nat /\ sent \in Nat
          /\ DOMAIN pending = 1 .. Len(pending) /\ Oldest \in Int /\ Latest \in Int
      BY Lengths DEF Inv, Oldest, Latest
    <2>2. ASSUME NEW s \in Oldest .. Latest
          PROVE  s - Oldest + 1 \in DOMAIN pending /\ pending[s - Oldest + 1].sequence = s
      <3>1. s - Oldest + 1 \in DOMAIN pending /\ sent - Len(pending) + (s - Oldest + 1) = s
        BY <2>1 DEF Oldest, Latest
      <3> QED BY <3>1 DEF Inv, Numbered
    <2>3. ASSUME NEW i \in DOMAIN answers, answers[i].part = "header"
          PROVE  /\ answers[i].sequence \in Oldest .. Latest
                 /\ Answers(i, pending[answers[i].sequence - Oldest + 1])
      BY <2>2, <2>3 DEF Inv, InOrder, Answers
    <2>4. ASSUME NEW i \in DOMAIN answers, answers[i].part = "header",
                 NEW n \in DOMAIN pending, pending[n].sequence < answers[i].sequence
          PROVE  \E j \in DOMAIN answers : Answers(j, pending[n])
      <3> DEFINE s == pending[n].sequence
      <3>1. s = sent - Len(pending) + n
        BY DEF Inv, Numbered
      <3>2. s \in Oldest .. Latest /\ s # Latest /\ s - Oldest + 1 = n
        BY <2>1, <2>3, <2>4, <3>1 DEF Oldest
      <3>3. PICK j \in DOMAIN answers : answers[j].part = "header" /\ answers[j].sequence = s
        BY <3>2 DEF Inv, InOrder
      <3> HIDE DEF s
      <3> QED BY <2>3, <3>2, <3>3
    <2>5. \A i, j \in DOMAIN answers : answers[i].part = "header" /\ answers[j].part = "header" /\ j < i =>
             answers[j].sequence < answers[i].sequence
      BY DEF Inv, InOrder
    <2> QED BY <2>2, <2>3, <2>4, <2>5 DEF AnswersInOrder
  <1> QED BY <1>1, InvAlways, PTL DEF KnownPaths

\* The parent finds a header wherever it starts to read an answer, with the
\* same exception.
THEOREM ParentStaysInSync ==
    ASSUME BadPaths = {} \/ "STAT" \notin Commands PROVE Spec => []InSync
  <1>1. Inv => InSync
    <2> SUFFICES ASSUME Inv, answers # <<>> PROVE Head(answers).part = "header"
      BY DEF InSync
    <2>1. answers \in Seq(PartType)
      BY DEF Inv, TypeParts
    <2>2. Head(answers) = answers[1]
      BY <2>1, TailIs
    <2> QED BY <2>2 DEF Inv, Framed
  <1> QED BY <1>1, InvAlways, PTL DEF KnownPaths
=============================================================================
