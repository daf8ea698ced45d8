----------------------------- MODULE MCFdEntity -----------------------------
(***************************************************************************)
(* FdEntity for TLC.  Two byte values are enough: every content of the     *)
(* object is an initial state, and a write may write either value.         *)
(***************************************************************************)
EXTENDS FdEntity

\* Where the properties speak only of what precedes a write or truncate that
\* failed half way, what follows it is not explored.
NotBroken == ~ broken
=============================================================================
