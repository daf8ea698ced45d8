----------------------------- MODULE MCPageList -----------------------------
(***************************************************************************)
(* PageList for TLC: every list reachable for files of up to MaxSize bytes. *)
(***************************************************************************)
EXTENDS PageList
=============================================================================
