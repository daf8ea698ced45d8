----------------------------- MODULE MCSession -----------------------------
(***************************************************************************)
(* Session.tla for TLC: two objects in two buckets, one of them on the     *)
(* hosts of AWS, and paths that name too little or something wrong.        *)
(***************************************************************************)
EXTENDS Session

Named(keys, host, bucket) == [keys |-> keys, host |-> host, bucket |-> bucket]

TwoObjects == {Named("k1", "aws", "b1"), Named("k2", "host", "b2")}
WrongPaths ==
    {Named("k1", "host", "name:x"), Named("k1", "host", "missing")}
AllPaths == TwoObjects \cup WrongPaths
=============================================================================
