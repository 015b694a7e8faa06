---------------------------- MODULE MCWorkerTurn ----------------------------
(* A small instance of WorkerTurn: one turn, of the tool loop or direct,    *)
(* whichever message is posted, and the workers that may run it.            *)
EXTENDS WorkerTurn, FiniteSets, TLC

CONSTANTS c1

SameConversation == [m \in Message |-> c1]
WorkerSymmetry   == Permutations(Worker)

\* Bound: of the messages that may be posted, one is.
OneTurn == Cardinality({m \in Message : status[m] # "absent"}) <= 1
=============================================================================
