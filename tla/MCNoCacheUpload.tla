-------------------------- MODULE MCNoCacheUpload --------------------------
(***************************************************************************)
(* NoCacheUpload.tla for TLC.                                              *)
(***************************************************************************)
EXTENDS NoCacheUpload

\* The passing properties say nothing after the mode was used for more than
\* appending; what follows is not explored.
NotBent == history # "bent"
=============================================================================
