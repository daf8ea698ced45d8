---------------------------- MODULE MCStatCache ----------------------------
(***************************************************************************)
(* StatCache.tla for TLC.                                                  *)
(***************************************************************************)
EXTENDS StatCache

TwoFiles == << "f", "g" >>

\* The object of a directory, and one that HEAD cannot tell from a file.
TwoKinds == {{"object_$folder$"}, {"object", "children"}}

\* Neither expiry nor negative entries, negative entries alone and with expiry,
\* and expiry by the last use.
Opt(expire, interval, noobj) == [expire |-> expire, interval |-> interval, noobj |-> noobj]
FourOptions ==
    {Opt(FALSE, FALSE, FALSE), Opt(FALSE, FALSE, TRUE), Opt(TRUE, FALSE, TRUE), Opt(TRUE, TRUE, FALSE)}
=============================================================================
