---------------------------- MODULE MCChatClient ----------------------------
(***************************************************************************)
(* A small instance of ChatClient.  The conversations of a tab meet only   *)
(* in the list and in the numbers of streams, so the run has one.          *)
(***************************************************************************)
EXTENDS ChatClient

CONSTANTS a

OneConv == {a}
=============================================================================
