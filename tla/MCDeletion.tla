----------------------------- MODULE MCDeletion -----------------------------
(* A small instance of Deletion: messages, workers and deletes are alike,   *)
(* and the run checks no liveness, so they may be permuted.                 *)
EXTENDS Deletion, TLC

Symmetry ==
    Permutations(Message) \cup Permutations(Worker) \cup Permutations(Deleter)
=============================================================================
