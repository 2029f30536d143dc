------------------------- MODULE MCUavCommandPath -------------------------
(* Instances of UavCommandPath for TLC. *)
EXTENDS UavCommandPath

OneReader == {Ctl}
WholeCommands == {4}
AnyPieces == 1..4
NoWriters == {}
=============================================================================
