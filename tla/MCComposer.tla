----------------------------- MODULE MCComposer -----------------------------
(* A small instance of Composer: tokens that name a tool, begin one, are    *)
(* contained in one, or are none of these.                                  *)
EXTENDS Composer

Starts    == {<<n, n>> : n \in Name} \cup {<<"b", "bash">>} \cup {<<"", n>> : n \in Name}
HasInside == Starts \cup {<<"b", "subagent">>}
=============================================================================
