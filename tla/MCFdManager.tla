---------------------------- MODULE MCFdManager ----------------------------
(***************************************************************************)
(* FdManager for TLC: the served file and the files of other processes.    *)
(***************************************************************************)
EXTENDS FdManager
=============================================================================
