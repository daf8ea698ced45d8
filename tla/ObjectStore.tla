---------------------------- MODULE ObjectStore ----------------------------
(***************************************************************************)
(* What the requests of S3fsCurl promise to the file cache, whatever they  *)
(* are made of: the object changes at once, from what it was to what the   *)
(* caller wants, and only while an operation that writes it runs; success  *)
(* means that it has changed.  A failure says nothing: the change may have *)
(* happened and only its answer been lost.  A single download that reports *)
(* success has brought all bytes; a parallel one promises nothing.         *)
(***************************************************************************)
CONSTANTS
    Contents,               \* what a caller may want the object to be
    Gone                    \* there is no object

Writes == {"put", "upload", "delete"}
Reads == {"get", "download"}

VARIABLES
    object,                 \* what the service holds
    op,                     \* the operation that runs, or idle
    want,                   \* what the object shall be
    whole,                  \* all bytes asked for have come
    ret                     \* the result of the last operation

vars == << object, op, want, whole, ret >>

Init ==
    /\ object \in Contents /\ want = object
    /\ op = "idle" /\ whole = FALSE /\ ret = "ok"

Begin ==
    /\ op = "idle"
    /\ \/ op' \in {"put", "upload"} /\ want' \in Contents \ {object}
       \/ op' = "delete" /\ want' = Gone
       \/ op' \in Reads /\ want' = object
    /\ whole' = FALSE
    /\ UNCHANGED << object, ret >>

\* The object becomes what is wanted, or bytes of it arrive.
Change ==
    /\ object' \in IF op \in Writes THEN {object, want} ELSE {object}
    /\ whole' \in IF op \in Reads THEN BOOLEAN ELSE {whole}

Work ==
    /\ op # "idle"
    /\ Change
    /\ UNCHANGED << op, want, ret >>

\* The last answer may be the one of the change.
Return ==
    /\ op # "idle" /\ op' = "idle"
    /\ Change
    /\ ret' \in {"ok", "error"}
    /\ ret' = "ok" => /\ op \in Writes => object' = want
                      /\ op = "get" => whole'
    /\ UNCHANGED want

Next == Begin \/ Work \/ Return

Spec == Init /\ [][Next]_vars
=============================================================================
