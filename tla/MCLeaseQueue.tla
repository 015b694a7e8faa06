---------------------------- MODULE MCLeaseQueue ----------------------------
(* Small instances of LeaseQueue: messages of one conversation.             *)
EXTENDS LeaseQueue

CONSTANTS c1

OneConversation == [m \in Message |-> c1]
=============================================================================
