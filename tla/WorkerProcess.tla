---------------------------- MODULE WorkerProcess ----------------------------
(***************************************************************************)
(* The worker process around WorkerTurn (packages/worker/src/index.ts):    *)
(* its claim loop, the signal that ends it, the drain of the turn in       *)
(* flight and the closed pool behind it, up to process.exit and the        *)
(* process that replaces it.                                               *)
(*                                                                         *)
(* The loop claims one row at a time, so inFlight holds the turn of held,  *)
(* or nothing.  pool.end() lets a statement finish that the database is    *)
(* working on and makes every later call reject.                           *)
(***************************************************************************)
EXTENDS WorkerTurn

VARIABLES
  stage,    \* how far shutdown has come
  awaited,  \* the turn that [...inFlight] held when shutdown looked
  begun     \* a pass begun before the signal has not claimed yet

procVars    == <<stage, awaited, begun>>
processVars == <<vars, stage, awaited, begun>>

Stage == {"up", "unsubscribing", "draining", "closing", "gone"}

ProcessTypeOK ==
  /\ TurnTypeOK
  /\ stage \in [Worker -> Stage]
  /\ awaited \in [Worker -> Message \cup {NoMessage}]
  /\ begun \in [Worker -> BOOLEAN]

ProcessInit ==
  /\ TurnInit
  /\ stage = [w \in Worker |-> "up"]
  /\ awaited = [w \in Worker |-> NoMessage]
  /\ begun = [w \in Worker |-> FALSE]

\* A pass of the loop is between its sweep and the end of its claim.
InPass(w) == phase[w] \in {"swept", "claiming"}

\* The pool takes calls.
Connected(w) == stage[w] \in {"up", "unsubscribing", "draining"}

Advance(w, from, to) == stage[w] = from /\ stage' = [stage EXCEPT ![w] = to]

\* Mutant: the loop goes on polling while a turn is drained.
MayBeginAnyPass(w) == phase[w] = "idle" => stage[w] \in Stage

\* claimAndProcess looks at shuttingDown on entry only.
MayBeginPass(w) == phase[w] = "idle" => stage[w] = "up"

\* What w does next, its pass or turn included, leaves the shutdown alone.
Proceeds(w) ==
  /\ begun' = [begun EXCEPT ![w] = @ /\ phase'[w] \in {"swept", "claiming"}]
  /\ UNCHANGED <<stage, awaited>>

-----------------------------------------------------------------------------
(* The loop and its turns. *)

Works(w) ==
  /\ Connected(w)
  /\ MayBeginPass(w)
  /\ TurnStep(w)
  /\ Proceeds(w)

\* Behind pool.end() a turn goes on from call to call of its model and its
\* tools until it needs the database; a claim under way comes through.
WorksCutOff(w) ==
  /\ stage[w] = "closing"
  /\ \/ \E kinds \in (SUBSET Kind) \ {{}} : LlmAsks(w, kinds)
     \/ LlmAnswers(w)
     \/ \E c \in todo[w] : RunCall(w, c)
     \/ Fail(w)
     \/ \E m \in Message : Claim(w, m)
     \/ ClaimNothing(w) /\ UNCHANGED turnVars
  /\ Proceeds(w)

Renews(w) ==
  /\ Connected(w)
  /\ RenewLease(w)
  /\ UNCHANGED <<turnVars, procVars>>

-----------------------------------------------------------------------------
(* shutdown, called by SIGTERM and SIGINT. *)

Signal(w) ==
  /\ phase[w] # "down"
  /\ Advance(w, "up", "unsubscribing")
  /\ begun' = [begun EXCEPT ![w] = InPass(w)]
  /\ UNCHANGED <<vars, awaited>>

\* The one look at inFlight, once unsubscribe is answered.
LooksAtInFlight(w) ==
  /\ Advance(w, "unsubscribing", IF OnTurn(w) THEN "draining" ELSE "closing")
  /\ awaited' = [awaited EXCEPT ![w] = held[w]]
  /\ UNCHANGED <<vars, begun>>

Drained(w) ==
  /\ held[w] # awaited[w]
  /\ Advance(w, "draining", "closing")
  /\ awaited' = [awaited EXCEPT ![w] = NoMessage]
  /\ UNCHANGED <<vars, begun>>

\* Mutant: allSettled alone, without the race against the timeout.
WindowNeverElapses(w) ==
  /\ stage[w] = "never"
  /\ UNCHANGED <<vars, procVars>>

\* env.drainTimeoutMs is over.
WindowElapses(w) ==
  /\ Advance(w, "draining", "closing")
  /\ UNCHANGED <<vars, awaited, begun>>

Leaves(w) ==
  /\ stage' = [stage EXCEPT ![w] = "gone"]
  /\ awaited' = [awaited EXCEPT ![w] = NoMessage]
  /\ begun' = [begun EXCEPT ![w] = FALSE]

\* process.exit, once the database has finished what it was working on.
Exits(w) ==
  /\ stage[w] = "closing"
  /\ phase[w] # "claiming"
  /\ \/ OnTurn(w) /\ Die(w)
     \/ InPass(w) /\ ClaimNothing(w) /\ UNCHANGED turnVars
     \/ phase[w] = "idle" /\ UNCHANGED vars
  /\ Leaves(w)

\* The process dies on a turn, or its catch block rejects and it lives on.
Crashes(w) ==
  /\ Die(w)
  /\ IF phase'[w] = "down" THEN Leaves(w) ELSE Proceeds(w)

Starts(w) ==
  /\ Advance(w, "gone", "up")
  /\ IF phase[w] = "down" THEN Restart(w) /\ UNCHANGED turnVars ELSE UNCHANGED vars
  /\ UNCHANGED <<awaited, begun>>

-----------------------------------------------------------------------------
Shutdown(w) ==
  LooksAtInFlight(w) \/ Drained(w) \/ WindowElapses(w) \/ Exits(w)

\* Users, operators and the clock.
Outside ==
  /\ \E m \in Message :
       \/ (InsertUserMessage(m) \/ LeaseExpires(m) \/ RequeueMessageForRetry(m)) /\ UNCHANGED turnVars
       \/ VetMessage(m)
       \/ \E c \in Requested(m) : ResolveToolCall(m, c)
  /\ UNCHANGED procVars

ProcessNext ==
  \/ Outside
  \/ \E w \in Worker :
       \/ Works(w) \/ WorksCutOff(w) \/ Renews(w)
       \/ Signal(w) \/ Shutdown(w)
       \/ Crashes(w) \/ Starts(w)

ProcessSpec == ProcessInit /\ [][ProcessNext]_processVars

\* Redis answers or rejects, the drain timer fires, and the database ends the
\* statement it was given.  A turn's model and tools may hang.
ProcessFairness ==
  \A w \in Worker :
    /\ WF_processVars(Shutdown(w))
    /\ WF_processVars(stage[w] = "closing" /\ phase[w] = "claiming" /\ WorksCutOff(w))

FairProcessSpec == ProcessSpec /\ ProcessFairness

-----------------------------------------------------------------------------
(* Properties. *)

\* The process only ever steps as WorkerTurn and LeaseQueue allow, so what
\* they promise holds of it, through every shutdown.
ImplementsTurn == TurnSpec

\* After a signal a process claims at most one more row, and only by a pass
\* it had begun before: however the signal meets the loop's awaits, it does
\* not go on taking work while it drains.
ClaimsAfterSignal ==
  [][\A w \in Worker :
       stage[w] # "up" /\ phase[w] = "claiming" /\ phase'[w] = "working" => begun[w]]_processVars

\* Whatever a turn waits on, a process told to stop is gone some time.
ShutdownEnds == \A w \in Worker : stage[w] = "unsubscribing" ~> stage[w] = "gone"

\* "Stops claiming new work immediately" (index.ts, of shutdown).
NoClaimAfterSignal ==
  [][\A w \in Worker :
       stage[w] # "up" => ~(phase[w] = "claiming" /\ phase'[w] = "working")]_processVars
=============================================================================
