----------------------------- MODULE MCToolLoop -----------------------------
(* Small instances of ToolLoop: an ordinary tool and a parallel-safe one. *)
EXTENDS ToolLoop

\* Bounds: tool rounds of each turn.
ThreeOneNone == <<3, 1, 0>>
TwoEach      == <<2, 2>>
=============================================================================
