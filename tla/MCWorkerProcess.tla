-------------------------- MODULE MCWorkerProcess --------------------------
(* A small instance of WorkerProcess: one worker process, which crashes, is *)
(* told to stop and is started again anywhere in a turn of the tool loop.   *)
EXTENDS WorkerProcess

CONSTANTS c1

SameConversation == [m \in Message |-> c1]
=============================================================================
