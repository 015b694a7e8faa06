----------------------------- MODULE WorkerTurn -----------------------------
(***************************************************************************)
(* A worker's turn on the message it leased: processMessage with the       *)
(* recovery of turn-recovery.ts, the persistence checkpoints of the tool   *)
(* loop and the direct-tool turn of direct-tool.ts, on top of the claim    *)
(* protocol of LeaseQueue, whose actions it conjoins.                      *)
(*                                                                         *)
(* The durable rows of a turn are one tool-call request per iteration, one *)
(* result per tool call id and one final reply.  A tool call id is drawn   *)
(* at random by the attempt that asked for it, so a call is named by that  *)
(* attempt, its iteration and its kind; a reply is named by the attempt    *)
(* that wrote it, 0 standing for no reply and for the empty content of a   *)
(* direct turn.                                                            *)
(***************************************************************************)
EXTENDS LeaseQueue, Sequences, Functions

CONSTANTS
  Direct,     \* messages whose content invokes a bound tool ("/tool ...")
  MaxIter     \* bound of the model: tool-call iterations of one turn

ASSUME WorkerTurnAssumption ==
  /\ Direct \subseteq Message
  /\ MaxIter \in Nat \ {0}

VARIABLES
  requests,   \* [message][iteration]: the calls of the request row, {} if none
  results,    \* [message]: the calls with a result row
  reply,      \* [message]: the attempt that wrote the final reply, 0 if none
  effects,    \* [message]: every effect of a mutating call so far, in order
  published,  \* [message]: contents of the done events sent so far
  vetted,     \* messages scripts/resolve-tool-call.ts found under no live lease
  step,       \* where a worker's try block stands
  iter,       \* the loop's iteration
  todo, ran,  \* calls of this iteration not yet run; run but not recorded
  answer      \* the reply this run is about to report

turnRows   == <<requests, results, reply, effects, published, vetted>>
turnMemory == <<step, iter, todo, ran, answer>>
turnVars   == <<requests, results, reply, effects, published, vetted, step, iter, todo, ran, answer>>
vars       == <<queueVars, turnVars>>

Kind == {"readOnly", "mutating"}
Iter == 0..MaxIter - 1
Call == [by : Nat, iter : Iter, kind : Kind]

Step == {"off", "reconcile", "resolve", "completeDirect", "completeFinal",
         "blocked", "direct", "llm", "request", "persist", "run", "checkRun",
         "answer", "insertReply", "markDone"}

TurnTypeOK ==
  /\ QueueTypeOK
  /\ requests \in [Message -> [Iter -> SUBSET Call]]
  /\ results \in [Message -> SUBSET Call]
  /\ reply \in [Message -> Nat]
  /\ effects \in [Message -> Seq(Call)]
  /\ published \in [Message -> SUBSET Nat]
  /\ vetted \subseteq Message
  /\ step \in [Worker -> Step]
  /\ iter \in [Worker -> 0..MaxIter]
  /\ todo \in [Worker -> SUBSET Call]
  /\ ran \in [Worker -> SUBSET Call]
  /\ answer \in [Worker -> Nat]

TurnInit ==
  /\ QueueInit
  /\ requests = [m \in Message |-> [i \in Iter |-> {}]]
  /\ results = [m \in Message |-> {}]
  /\ reply = [m \in Message |-> 0]
  /\ effects = [m \in Message |-> <<>>]
  /\ published = [m \in Message |-> {}]
  /\ vetted = {}
  /\ step = [w \in Worker |-> "off"]
  /\ iter = [w \in Worker |-> 0]
  /\ todo = [w \in Worker |-> {}]
  /\ ran = [w \in Worker |-> {}]
  /\ answer = [w \in Worker |-> 0]

-----------------------------------------------------------------------------
(* Reading a turn's durable rows. *)

Requested(m) == UNION {requests[m][i] : i \in Iter}

LastIter(m) ==
  CHOOSE i \in Iter :
    requests[m][i] # {} /\ \A j \in Iter : requests[m][j] # {} => j <= i

\* Mutant: a row with some result counts as resolved.
PendingUnlessStarted(m) ==
  IF requests[m][LastIter(m)] \cap results[m] = {} THEN requests[m][LastIter(m)] ELSE {}

Pending(m) == requests[m][LastIter(m)] \ results[m]

\* Mutant: resuming skips an iteration.
NextIterTwice(m) == LastIter(m) + 2

NextIter(m) == LastIter(m) + 1

\* Mutant: every tool counts as read-only.
NoneMutating(calls) == {c \in calls : c.kind = "unknown"}

Mutating(calls) == {c \in calls : c.kind = "mutating"}

Moves(w, from, to) == step[w] = from /\ step' = [step EXCEPT ![w] = to]

\* The try block is left: its locals are gone.
LeaveTry(w) ==
  /\ step' = [step EXCEPT ![w] = "off"]
  /\ iter' = [iter EXCEPT ![w] = 0]
  /\ todo' = [todo EXCEPT ![w] = {}]
  /\ ran' = [ran EXCEPT ![w] = {}]
  /\ answer' = [answer EXCEPT ![w] = 0]

-----------------------------------------------------------------------------
(* Claiming, and reconcileTurnState. *)

Claim(w, m) ==
  /\ ClaimPendingMessage(w, m)
  /\ Moves(w, "off", "reconcile")
  /\ UNCHANGED <<turnRows, iter, todo, ran, answer>>

AlreadyFinal(w) ==
  /\ step[w] = "reconcile"
  /\ reply[held[w]] # 0
  /\ Moves(w, "reconcile", "completeFinal")
  /\ answer' = [answer EXCEPT ![w] = reply[held[w]]]
  /\ UNCHANGED <<queueVars, turnRows, iter, todo, ran>>

\* Nothing durable yet: the direct dispatch (only ever at iteration 0), or
\* the tool loop.
FreshTurn(w) ==
  /\ step[w] = "reconcile"
  /\ reply[held[w]] = 0
  /\ Requested(held[w]) = {}
  /\ Moves(w, "reconcile", IF held[w] \in Direct THEN "direct" ELSE "llm")
  /\ UNCHANGED <<queueVars, turnRows, iter, todo, ran, answer>>

\* Some call of the last request row that mutates has no result.
BlockedMutation(w) ==
  /\ step[w] = "reconcile"
  /\ reply[held[w]] = 0
  /\ Requested(held[w]) # {}
  /\ Mutating(Pending(held[w])) # {}
  /\ Moves(w, "reconcile", "blocked")
  /\ UNCHANGED <<queueVars, turnRows, iter, todo, ran, answer>>

\* Where a turn resumes once its last request row is fully resolved.
Resume(m) == IF m \in Direct THEN "completeDirect" ELSE "llm"

\* Every pending call of the last row is read-only: run them again.
ResumeTurn(w) ==
  LET m == held[w] IN
  /\ step[w] = "reconcile"
  /\ reply[m] = 0
  /\ Requested(m) # {}
  /\ Mutating(Pending(m)) = {}
  /\ Moves(w, "reconcile", IF Pending(m) = {} THEN Resume(m) ELSE "resolve")
  /\ iter' = [iter EXCEPT ![w] = NextIter(m)]
  /\ todo' = [todo EXCEPT ![w] = Pending(m)]
  /\ UNCHANGED <<queueVars, turnRows, ran, answer>>

\* A call runs; it may be refused (truncated, unknown tool, hook) or fail
\* before it takes effect.
TakeEffect(w, c) ==
  \/ /\ c.kind = "mutating"
     /\ effects' = [effects EXCEPT ![held[w]] = Append(@, c)]
  \/ UNCHANGED effects

\* executeToolCall and insertToolResult, without an ownership check.
ResolveCall(w, c) ==
  /\ c \in todo[w]
  /\ results' = [results EXCEPT ![held[w]] = @ \cup {c}]
  /\ todo' = [todo EXCEPT ![w] = @ \ {c}]
  /\ Moves(w, "resolve", IF todo[w] = {c} THEN Resume(held[w]) ELSE "resolve")
  /\ TakeEffect(w, c)
  /\ UNCHANGED <<queueVars, requests, reply, published, vetted, iter, ran, answer>>

-----------------------------------------------------------------------------
(* runToolLoop with processMessage's persistence callbacks, and            *)
(* runDirectToolTurn, which differs in its checks only.                    *)

\* The model's answer to one request: tool calls, or the final text.
LlmAsks(w, kinds) ==
  /\ iter[w] < MaxIter
  /\ Moves(w, "llm", "request")
  /\ todo' = [todo EXCEPT ![w] = {[by |-> attempt[w], iter |-> iter[w], kind |-> k] : k \in kinds}]
  /\ UNCHANGED <<queueVars, turnRows, iter, ran, answer>>

LlmAnswers(w) ==
  /\ Moves(w, "llm", "answer")
  /\ UNCHANGED <<queueVars, turnRows, iter, todo, ran, answer>>

DirectAsks(w, kind) ==
  /\ step[w] = "direct"
  /\ StillOwnsLease(w)
  /\ Moves(w, "direct", "persist")
  /\ todo' = [todo EXCEPT ![w] = {[by |-> attempt[w], iter |-> 0, kind |-> kind]}]
  /\ UNCHANGED <<queueVars, turnRows, iter, ran, answer>>

\* Mutant: the calls run before the request is persisted.
RunUnpersisted(w) ==
  /\ Moves(w, "request", "run")
  /\ StillOwnsLease(w)
  /\ UNCHANGED <<queueVars, turnRows, iter, todo, ran, answer>>

\* onToolCallRequest: stillOwnsLease, and later insertToolCallRequest, ON
\* CONFLICT (turn, iteration) DO NOTHING.  A lost lease throws (LostInLoop).
CheckRequest(w) ==
  /\ Moves(w, "request", "persist")
  /\ StillOwnsLease(w)
  /\ UNCHANGED <<queueVars, turnRows, iter, todo, ran, answer>>

PersistRequest(w) ==
  /\ Moves(w, "persist", "run")
  /\ requests' = [requests EXCEPT ![held[w]][iter[w]] = IF @ = {} THEN todo[w] ELSE @]
  /\ UNCHANGED <<queueVars, results, reply, effects, published, vetted, iter, todo, ran, answer>>

\* Mutant: a call that ran is still to be run.
RunCallAgain(w, c) ==
  /\ c \in todo[w]
  /\ Moves(w, "run", IF held[w] \in Direct THEN "checkRun" ELSE "run")
  /\ ran' = [ran EXCEPT ![w] = @ \cup {c}]
  /\ TakeEffect(w, c)
  /\ UNCHANGED <<queueVars, requests, results, reply, published, vetted, iter, todo, answer>>

\* Sequential and parallelSafe batches interleave runs and records in the
\* ways two calls can.
RunCall(w, c) ==
  /\ c \in todo[w]
  /\ Moves(w, "run", IF held[w] \in Direct THEN "checkRun" ELSE "run")
  /\ todo' = [todo EXCEPT ![w] = @ \ {c}]
  /\ ran' = [ran EXCEPT ![w] = @ \cup {c}]
  /\ TakeEffect(w, c)
  /\ UNCHANGED <<queueVars, requests, results, reply, published, vetted, iter, answer>>

\* The direct turn checks its lease between running and recording.
CheckRun(w) ==
  /\ Moves(w, "checkRun", "run")
  /\ StillOwnsLease(w)
  /\ UNCHANGED <<queueVars, turnRows, iter, todo, ran, answer>>

\* Mutant: a result is kept in memory only.
RecordNowhere(w, c) ==
  /\ step[w] = "run"
  /\ c \in ran[w]
  /\ ran' = [ran EXCEPT ![w] = @ \ {c}]
  /\ IF todo[w] \cup ran[w] = {c}
     THEN /\ step' = [step EXCEPT ![w] = Resume(held[w])]
          /\ iter' = [iter EXCEPT ![w] = @ + 1]
     ELSE UNCHANGED <<step, iter>>
  /\ UNCHANGED <<queueVars, requests, results, reply, effects, published, vetted, todo, answer>>

\* onToolResult: insertToolResult, ON CONFLICT DO NOTHING, never guarded by
\* the lease in the loop.
RecordResult(w, c) ==
  /\ step[w] = "run"
  /\ c \in ran[w]
  /\ results' = [results EXCEPT ![held[w]] = @ \cup {c}]
  /\ ran' = [ran EXCEPT ![w] = @ \ {c}]
  /\ IF todo[w] \cup ran[w] = {c}
     THEN /\ step' = [step EXCEPT ![w] = Resume(held[w])]
          /\ iter' = [iter EXCEPT ![w] = @ + 1]
     ELSE UNCHANGED <<step, iter>>
  /\ UNCHANGED <<queueVars, requests, reply, effects, published, vetted, todo, answer>>

-----------------------------------------------------------------------------
(* Completing the turn. *)

\* Mutant: the reply is reported but not stored.
CheckAnswerOnly(w) == Moves(w, "answer", "markDone") /\ PassFinalCheck(w)

\* Mutant: the answer is stored without the last ownership check.
AnswerUnchecked(w) ==
  /\ Moves(w, "answer", "insertReply")
  /\ phase' = [phase EXCEPT ![w] = "completing"]
  /\ UNCHANGED <<rowVars, held, attempt, candidates>>

\* The last ownership check of each way to complete.
CheckAnswer(w)    == Moves(w, "answer", "insertReply") /\ PassFinalCheck(w)
CompleteFinal(w)  == Moves(w, "completeFinal", "markDone") /\ PassFinalCheck(w)
CompleteDirect(w) == Moves(w, "completeDirect", "markDone") /\ PassFinalCheck(w)

CheckCompletion(w) ==
  /\ CheckAnswer(w) \/ CompleteFinal(w) \/ CompleteDirect(w)
  /\ UNCHANGED <<turnRows, iter, todo, ran, answer>>

\* Mutant: a second reply replaces the first.
ReplaceReply(w) ==
  LET m == held[w] IN
  /\ Moves(w, "insertReply", "markDone")
  /\ reply' = [reply EXCEPT ![m] = attempt[w]]
  /\ answer' = [answer EXCEPT ![w] = reply'[m]]
  /\ UNCHANGED <<queueVars, requests, results, effects, published, vetted, iter, todo, ran>>

\* insertAssistantMessage: ON CONFLICT (turn) DO NOTHING, and the row that
\* won is what the run goes on to report.
InsertReply(w) ==
  LET m == held[w] IN
  /\ Moves(w, "insertReply", "markDone")
  /\ reply' = [reply EXCEPT ![m] = IF @ = 0 THEN attempt[w] ELSE @]
  /\ answer' = [answer EXCEPT ![w] = reply'[m]]
  /\ UNCHANGED <<queueVars, requests, results, effects, published, vetted, iter, todo, ran>>

\* markMessageDone, then the done event, which may be lost.
Finish(w) ==
  /\ step[w] = "markDone"
  /\ MarkMessageDone(w)
  /\ \/ published' = [published EXCEPT ![held[w]] = @ \cup {answer[w]}]
     \/ UNCHANGED published
  /\ LeaveTry(w)
  /\ UNCHANGED <<requests, results, reply, effects, vetted>>

\* The blocked-mutation branch.
Block(w) ==
  /\ step[w] = "blocked"
  /\ PassBlockedCheck(w)
  /\ LeaveTry(w)
  /\ UNCHANGED turnRows

\* Checks that return quietly when the lease is lost, in the try block and
\* in the catch block.
Lost(w) ==
  /\ step[w] \in {"completeFinal", "completeDirect", "blocked", "direct", "checkRun", "answer", "off"}
  /\ LeaseLost(w)
  /\ LeaveTry(w)
  /\ UNCHANGED turnRows

\* An awaited call of the try block rejects, onToolCallRequest's lost lease
\* among them.
Fail(w) ==
  /\ Throw(w)
  /\ LeaveTry(w)
  /\ UNCHANGED turnRows

Recover(w) ==
  /\ PassCatchCheck(w) \/ MarkMessageFailed(w)
  /\ UNCHANGED turnVars

Die(w) ==
  /\ Crash(w)
  /\ LeaveTry(w)
  /\ UNCHANGED turnRows

\* scripts/resolve-tool-call.ts: the operator records a call's real outcome.
\* The script reads the row's lease, and later reads the calls and records
\* one that has no result.
VetMessage(m) ==
  /\ ~(status[m] = "processing" /\ lease[m] = "live")
  /\ status[m] # "absent"
  /\ vetted' = vetted \cup {m}
  /\ UNCHANGED <<queueVars, requests, results, reply, effects, published, turnMemory>>

ResolveToolCall(m, c) ==
  /\ m \in vetted
  /\ c \in Requested(m) \ results[m]
  /\ results' = [results EXCEPT ![m] = @ \cup {c}]
  /\ vetted' = vetted \ {m}
  /\ UNCHANGED <<queueVars, requests, reply, effects, published, turnMemory>>

-----------------------------------------------------------------------------
\* Steps of the queue that no turn takes part in.
QueueOnly ==
  /\ \/ \E m \in Message : InsertUserMessage(m) \/ LeaseExpires(m) \/ RequeueMessageForRetry(m)
     \/ \E w \in Worker : RenewLease(w) \/ Restart(w)
  /\ UNCHANGED turnVars

Poll(w) ==
  /\ SweepExhaustedLeases(w) \/ ClaimSnapshot(w) \/ ClaimNothing(w)
  /\ UNCHANGED turnVars

TurnStep(w) ==
  \/ Poll(w)
  \/ \E m \in Message : Claim(w, m)
  \/ AlreadyFinal(w) \/ FreshTurn(w) \/ BlockedMutation(w) \/ ResumeTurn(w)
  \/ \E c \in todo[w] : ResolveCall(w, c) \/ RunCall(w, c)
  \/ \E kinds \in (SUBSET Kind) \ {{}} : LlmAsks(w, kinds)
  \/ LlmAnswers(w)
  \/ \E kind \in Kind : DirectAsks(w, kind)
  \/ CheckRequest(w) \/ PersistRequest(w) \/ CheckRun(w)
  \/ \E c \in ran[w] : RecordResult(w, c)
  \/ CheckCompletion(w) \/ InsertReply(w) \/ Finish(w)
  \/ Block(w) \/ Lost(w) \/ Fail(w) \/ Recover(w)

TurnNext ==
  \/ QueueOnly
  \/ \E w \in Worker : TurnStep(w) \/ Die(w)
  \/ \E m \in Message : VetMessage(m) \/ \E c \in Requested(m) : ResolveToolCall(m, c)

TurnSpec == TurnInit /\ [][TurnNext]_vars

TurnFairness ==
  /\ \A w \in Worker :
       /\ WF_vars(TurnStep(w)) /\ WF_vars(Restart(w) /\ UNCHANGED turnVars)
       /\ SF_vars(ClaimSnapshot(w) /\ UNCHANGED turnVars)
       /\ SF_vars(\E m \in Message : Claim(w, m))
  /\ \A m \in Message : WF_vars(UntendedLeaseExpires(m) /\ UNCHANGED turnVars)

FairTurnSpec == TurnSpec /\ TurnFairness

-----------------------------------------------------------------------------
(* Properties. *)

\* A turn's part of the lease protocol only ever steps as LeaseQueue allows.
ImplementsQueue == QueueSpec

\* Nothing completes unanswered: a done row has its final reply, or, for a
\* direct turn, a recorded result.
DoneIsAnswered ==
  \A m \in Message :
    status[m] = "done" => IF m \in Direct THEN results[m] # {} ELSE reply[m] # 0

\* No mutating call takes effect twice: the loop runs a call once, and no
\* recovery re-runs one, in this attempt or a later one (turn-recovery.ts).
MutationAtMostOnce ==
  \A m \in Message : IsInjective(effects[m])

\* One stored answer per turn, the only one a client ever hears, and no call
\* taking effect twice, whoever runs the turn: the promise of TurnPromise.
Promise == INSTANCE TurnPromise
  WITH Silent <- Direct, stored <- reply, heard <- published, done <- effects

ImplementsPromise == Promise!PromiseSpec

\* A done turn reads back as an exchange an LLM API accepts: every requested
\* call has a result, and every result answers a requested call.
TranscriptClosed ==
  \A m \in Message : status[m] = "done" => Requested(m) = results[m]

\* The model is never asked to go on while a mutating call of an earlier
\* request of the turn has an unknown outcome (turn-recovery.ts).
NoResumePastUnknown ==
  \A w \in Worker :
    step[w] \in {"llm", "answer", "insertReply"} =>
      Mutating(Requested(held[w])) \subseteq results[held[w]]

\* A call takes effect only once its request is durable ("the request must
\* be persisted before the call executes", direct-tool.ts).
EffectIsRequested ==
  \A m \in Message : Range(effects[m]) \subseteq Requested(m)

\* The operator's script never touches "a row a worker is actively holding a
\* live lease on" (scripts/resolve-tool-call.ts).
ResolvedUnderNoLease ==
  [][\A m \in Message :
       m \in vetted \ vetted' => ~(status[m] = "processing" /\ lease[m] = "live")]_vars
=============================================================================
