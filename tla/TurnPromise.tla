---------------------------- MODULE TurnPromise ----------------------------
(***************************************************************************)
(* What the workers together promise for a user message, whatever crashes, *)
(* stalls and reclaims happen: it gets at most one answer, which never     *)
(* changes; everything a client hears as the answer is that answer; and no *)
(* tool call takes effect twice.  A silent message, a direct tool call,    *)
(* has no answer of its own and is reported with the empty content 0.      *)
(***************************************************************************)
EXTENDS Naturals, Sequences, Functions

CONSTANTS Message, Silent

VARIABLES stored, heard, done   \* done[m]: the calls that took effect, each time

promiseVars == <<stored, heard, done>>

PromiseInit ==
  /\ stored = [m \in Message |-> 0]
  /\ heard = [m \in Message |-> {}]
  /\ done = [m \in Message |-> <<>>]

Store(m) ==
  /\ m \notin Silent
  /\ stored[m] = 0
  /\ stored'[m] \in Nat \ {0}
  /\ stored' = [stored EXCEPT ![m] = stored'[m]]
  /\ UNCHANGED <<heard, done>>

Tell(m) ==
  /\ stored[m] # 0 \/ m \in Silent
  /\ heard' = [heard EXCEPT ![m] = @ \cup {stored[m]}]
  /\ UNCHANGED <<stored, done>>

TakeEffect(m) ==
  /\ done'[m] # <<>>
  /\ LET call == done'[m][Len(done'[m])] IN
       /\ call \notin Range(done[m])
       /\ done' = [done EXCEPT ![m] = Append(@, call)]
  /\ UNCHANGED <<stored, heard>>

PromiseNext == \E m \in Message : Store(m) \/ Tell(m) \/ TakeEffect(m)

PromiseSpec == PromiseInit /\ [][PromiseNext]_promiseVars
=============================================================================
