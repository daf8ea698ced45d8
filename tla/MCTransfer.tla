----------------------------- MODULE MCTransfer -----------------------------
(***************************************************************************)
(* Transfer.tla for TLC.                                                   *)
(***************************************************************************)
EXTENDS Transfer
=============================================================================
