------------------------------- MODULE Multifs -------------------------------
(***************************************************************************)
(* The multifs process: main and dspcmd of src/src/main.cpp, the file type *)
(* they choose and class S3Io of src/src/protocols/s3/s3io.cpp, seen from  *)
(* the parent process that speaks the protocol of multifs_proto.h with it  *)
(* over a socket pair.  The parent reads answers as multifs-test.cpp does: *)
(* a header and, if its payload is not 0, the struct it expects.           *)
(*                                                                         *)
(* What an operation of S3Io does to the file is FdEntity.tla; here it     *)
(* succeeds or fails.  class FtpIo is left out: its config_cache returns   *)
(* no value.                                                               *)
(***************************************************************************)
EXTENDS Integers, Sequences

CONSTANTS
    S3Paths, SmbPaths, BadPaths,    \* file paths by the protocol they name
    Commands,                       \* the commands the parent sends
    MaxRequests,                    \* how many requests it sends
    MaxPending,                     \* how many of them before it reads an answer
    OpFails                         \* may the operations of S3Io fail

ASSUME PathsAssumption ==
    S3Paths \cap SmbPaths = {} /\ S3Paths \cap BadPaths = {} /\ SmbPaths \cap BadPaths = {}
ASSUME BoundsAssumption == MaxRequests \in Nat /\ MaxPending \in Nat
ASSUME FailsAssumption == OpFails \in BOOLEAN

Path == S3Paths \cup SmbPaths \cup BadPaths
AccessModes == {"O_RDONLY", "O_WRONLY", "O_RDWR"}
HasPath == {"OPEN", "REMOVE", "STAT"}

\* multifs_command_header and what follows it
Request == [command : Commands, path : Path, mode : AccessModes, sequence : 1 .. MaxRequests]

VARIABLES
    requests,               \* the socket, towards the process
    answers,                \* the socket, towards the parent
    pending,                \* requests the parent has no answer to
    sent,                   \* how many requests the parent has sent
    proc,                   \* "running", "exited" or "crashed"
    file                    \* the IFile behind the global pointer

vars == << requests, answers, pending, sent, proc, file >>

NullFile == [type |-> "null", open_success |-> FALSE, flags |-> "O_RDONLY"]
-----------------------------------------------------------------------------
(***************************************************************************)
(* The parent.                                                             *)
(***************************************************************************)
Send ==
    /\ sent < MaxRequests /\ Len(pending) < MaxPending
    /\ \E r \in Request :
          /\ r.sequence = sent + 1
          /\ r.command \notin HasPath => r.path = CHOOSE p \in Path : TRUE
          /\ r.command # "OPEN" => r.mode = "O_RDONLY"
          /\ requests' = Append(requests, r)
          /\ pending' = Append(pending, r)
    /\ sent' = sent + 1
    /\ UNCHANGED << answers, proc, file >>

\* It reads a header, and a struct of the size it expects if there is one.
Receive ==
    /\ answers # <<>> /\ pending # <<>>
    /\ LET n == IF answers[1].part = "header" /\ answers[1].payload # "none" THEN 2 ELSE 1
       IN  answers' = SubSeq(answers, n + 1, Len(answers))
    /\ pending' = Tail(pending)
    /\ UNCHANGED << requests, sent, proc, file >>
-----------------------------------------------------------------------------
(***************************************************************************)
(* The end of dspcmd: the result is negated, and the header that came in   *)
(* goes back with it.  A payload of the request that was not reset goes    *)
(* back too: more than the struct the parent expects, from beyond the      *)
(* header on main's stack.                                                 *)
(***************************************************************************)

\* Faulty: the sequence is advanced.
header_next(r, error, payload) ==
    [part |-> "header", command |-> r.command, sequence |-> r.sequence + 1,
     error |-> error, payload |-> payload]

header(r, error, payload) ==
    [part |-> "header", command |-> r.command, sequence |-> r.sequence,
     error |-> error, payload |-> payload]

part(kind) == [part |-> kind, command |-> "none", sequence |-> 0, error |-> 0, payload |-> "none"]

\* Faulty: a failed operation is only reported on the console.
AnswerSuccess(r, result, payload) ==
    answers' = IF result # 0 THEN answers
               ELSE answers \o << header(r, 0, payload) >>
                       \o (IF payload = "none" THEN <<>> ELSE << part("struct") >>)

Answer(r, result, payload) ==
    answers' = answers \o << header(r, -result, payload) >>
                  \o (IF payload = "none" THEN <<>> ELSE << part("struct") >>)
                  \o (IF payload = "request" THEN << part("rest") >> ELSE <<>>)

\* main leaves its loop after CLOSE, REMOVE and a failed OPEN, and when the
\* negated result is -1, which no result of an IFile is.
ExitIf(r, result) ==
    proc' = IF \/ r.command \in {"CLOSE", "REMOVE"}
               \/ r.command = "OPEN" /\ result # 0
               \/ -result = -1
            THEN "exited" ELSE "running"

\* The request main reads next.
Take(command) ==
    /\ proc = "running" /\ requests # <<>>
    /\ Head(requests).command = command
    /\ requests' = Tail(requests)
    /\ UNCHANGED << pending, sent >>

Req == Head(requests)

\* What an operation of S3Io returns once it gets to s3fs: 0 or a negative
\* number, here -1.  SmbIo's return 0.
Results(f) == IF f.type = "s3" /\ OpFails THEN {0, -1} ELSE {0}

\* A handler that uses file before there is one.
Crash ==
    /\ proc' = "crashed"
    /\ UNCHANGED << answers, file >>
-----------------------------------------------------------------------------
\* get_tag_fs leaves file as it is when it does not know the protocol.
get_tag_fs(p) ==
    IF p \in S3Paths THEN [NullFile EXCEPT !.type = "s3"]
    ELSE IF p \in SmbPaths THEN [NullFile EXCEPT !.type = "smb"]
    ELSE file

\* S3Io::open keeps the mode first, and remembers success last.
S3IoOpen(f, mode, result) ==
    IF f.type = "s3" THEN [f EXCEPT !.flags = mode, !.open_success = @ \/ result = 0] ELSE f

\* S3Io::remove and S3Io::getstat open the path if nothing is open, read only.
S3IoOpenOnce(f, result) == IF f.open_success THEN f ELSE S3IoOpen(f, "O_RDONLY", result)

Open ==
    /\ Take("OPEN")
    /\ LET f == get_tag_fs(Req.path)
       IN  IF f.type = "null"
           THEN /\ Answer(Req, 0, "none")             \* msg_out->error == -1;
                /\ ExitIf(Req, 0)
                /\ UNCHANGED file
           ELSE \E result \in Results(f) :
                /\ file' = S3IoOpen(f, Req.mode, result)
                /\ Answer(Req, result, IF result = 0 THEN "struct" ELSE "none")
                /\ ExitIf(Req, result)

\* S3Io::close: nothing to do, or flush and uninit.
Close ==
    /\ Take("CLOSE")
    /\ IF file.type = "null" THEN Crash
       ELSE \E result \in (IF file.open_success THEN Results(file) ELSE {0}) :
            /\ Answer(Req, result, "none")
            /\ ExitIf(Req, result)
            /\ UNCHANGED file

\* S3Io::remove opens, and unlinks the object: each may fail.
Remove ==
    /\ Take("REMOVE")
    /\ LET f == IF file.type = "null" THEN get_tag_fs(Req.path) ELSE file
       IN  IF f.type = "null"
           THEN /\ Answer(Req, 0, "none")             \* msg_out->error == -1;
                /\ ExitIf(Req, 0)
                /\ UNCHANGED file
           ELSE \E opened, result \in Results(f) :
                /\ file' = S3IoOpenOnce(f, opened)
                /\ f.open_success \/ opened = 0 \/ result = opened
                /\ Answer(Req, result, "none")
                /\ ExitIf(Req, result)

\* S3Io::read, S3Io::write: if the file is open, and open for that.
ReadOrWrite(command, other) ==
    /\ Take(command)
    /\ IF file.type = "null" THEN Crash
       ELSE \E result \in (IF file.type = "s3" /\ (~ file.open_success \/ file.flags = other)
                           THEN {-1} ELSE Results(file)) :
            /\ Answer(Req, result, IF result = 0 THEN "struct" ELSE "none")
            /\ ExitIf(Req, result)
            /\ UNCHANGED file

Read == ReadOrWrite("READ", "O_WRONLY")
Write == ReadOrWrite("WRITE", "O_RDONLY")

\* S3Io::flush and S3Io::truncate, if the file is open.
FlushOrTruncate(command) ==
    /\ Take(command)
    /\ IF file.type = "null" THEN Crash
       ELSE \E result \in (IF file.type = "s3" /\ ~ file.open_success THEN {-1}
                           ELSE Results(file)) :
            /\ Answer(Req, result, "none")
            /\ ExitIf(Req, result)
            /\ UNCHANGED file

Flush == FlushOrTruncate("FLUSH")
Truncate == FlushOrTruncate("TRUNCATE")

\* dspcmd frees the answer of every STAT, also when it is not on the heap but
\* main's own header: the allocator notices or it does not.
DeleteHeader == proc' \in {"running", "crashed"}

\* Faulty: the payload is reset only for the answer of a success.
StatKeepsPayload ==
    /\ Take("STAT")
    /\ LET f == IF file.type = "null" THEN get_tag_fs(Req.path) ELSE file
       IN  \E opened, result \in Results(f) :
                /\ file' = S3IoOpenOnce(f, opened)
                /\ f.open_success \/ opened = 0 \/ result = opened
                /\ Answer(Req, result, IF result = 0 THEN "struct" ELSE "request")
                /\ IF result = 0 THEN ExitIf(Req, 0) ELSE DeleteHeader

Stat ==
    /\ Take("STAT")
    /\ LET f == IF file.type = "null" THEN get_tag_fs(Req.path) ELSE file
       IN  IF f.type = "null"
           THEN /\ Answer(Req, 0, "request")          \* msg_out->error == -1;
                /\ DeleteHeader
                /\ UNCHANGED file
           ELSE \E opened, result \in Results(f) :
                /\ file' = S3IoOpenOnce(f, opened)
                /\ f.open_success \/ opened = 0 \/ result = opened
                /\ Answer(Req, result, IF result = 0 THEN "struct" ELSE "none")
                /\ IF result = 0 THEN ExitIf(Req, 0) ELSE DeleteHeader

\* MFS_COMMAND_CACHE and MFS_COMMAND_LOG keep their arguments for the next OPEN.
Config(command) ==
    /\ Take(command)
    /\ Answer(Req, 0, "none")
    /\ ExitIf(Req, 0)
    /\ UNCHANGED file

Serve ==
    \/ Open \/ Close \/ Remove \/ Read \/ Write \/ Stat \/ Flush \/ Truncate
    \/ Config("CACHE") \/ Config("LOG")

Init ==
    /\ requests = <<>> /\ answers = <<>> /\ pending = <<>> /\ sent = 0
    /\ proc = "running" /\ file = NullFile

Next == Send \/ Receive \/ Serve

\* The process runs, and the parent reads the answers it waits for.
Spec == Init /\ [][Next]_vars /\ WF_vars(Serve) /\ WF_vars(Receive)
-----------------------------------------------------------------------------
(***************************************************************************)
(* Properties.                                                             *)
(***************************************************************************)
Header == [part : {"header"}, command : Commands, sequence : 1 .. MaxRequests,
           error : {0, 1}, payload : {"none", "struct", "request"}]

\* The socket carries requests, headers and payloads of the protocol, and
\* only a file of S3Io is ever marked open.
TypeOK ==
    /\ requests \in Seq(Request) /\ pending \in Seq(Request)
    /\ answers \in Seq(Header \cup {part("struct"), part("rest")})
    /\ sent \in 0 .. MaxRequests
    /\ proc \in {"running", "exited", "crashed"}
    /\ file \in [type : {"null", "s3", "smb"}, open_success : BOOLEAN, flags : AccessModes]
    /\ file.open_success => file.type = "s3"

\* answers[i] is the header that answers r.
Answers(i, r) ==
    answers[i].part = "header" /\ answers[i].command = r.command /\ answers[i].sequence = r.sequence

\* dspcmd answers with the header of the request: whatever a request's outcome,
\* and however many requests the parent sends ahead, every answer on the socket
\* is that of a request it waits for, answers come in the order of the requests,
\* and none comes before the answer of an older request.
AnswersInOrder ==
    \A i \in DOMAIN answers : answers[i].part = "header" =>
        /\ \E n \in DOMAIN pending : Answers(i, pending[n])
        /\ \A j \in DOMAIN answers :
              answers[j].part = "header" /\ j < i => answers[j].sequence < answers[i].sequence
        /\ \A n \in DOMAIN pending : pending[n].sequence < answers[i].sequence =>
              \E j \in DOMAIN answers : Answers(j, pending[n])

\* The parent finds a header where it starts to read an answer: every payload
\* is announced with the length of the struct that the parent reads.
InSync == answers # <<>> => Head(answers).part = "header"

\* Every request is answered, unless main has left its loop or a handler has
\* crashed: no outcome of dspcmd leaves the parent waiting.
EveryRequestAnswered ==
    \A n \in 1 .. MaxRequests :
        (\E i \in 1 .. Len(pending) : pending[i].sequence = n)
            ~> (proc # "running" \/ \A i \in 1 .. Len(pending) : pending[i].sequence # n)
=============================================================================
