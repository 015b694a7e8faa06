---------------------------- MODULE MCTurnStream ----------------------------
(***************************************************************************)
(* Small instances of TurnStream.  Tabs do not influence each other or the *)
(* worker, so one tab meets every order of events a larger number could.   *)
(***************************************************************************)
EXTENDS TurnStream

CONSTANTS v1, c1

OneTab    == {v1}
OneCall   == {c1}
BothKinds == {"chat", "direct"}
=============================================================================
