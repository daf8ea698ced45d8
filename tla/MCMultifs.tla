------------------------------ MODULE MCMultifs ------------------------------
(***************************************************************************)
(* Multifs.tla for TLC.                                                    *)
(***************************************************************************)
EXTENDS Multifs
=============================================================================
