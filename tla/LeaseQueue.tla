----------------------------- MODULE LeaseQueue -----------------------------
(***************************************************************************)
(* The claim protocol of the message table: user rows, the worker that     *)
(* leases one, and the worker's main loop (packages/shared/src/db.ts and   *)
(* packages/worker/src/index.ts).  A turn's own work is left to WorkerTurn,*)
(* which extends this module; here a worker on a turn only moves between   *)
(* the phases of processMessage that read or write the user row.           *)
(*                                                                         *)
(* A message is named by its created_at rank, so Message is a set of       *)
(* naturals and ORDER BY created_at is the order of the names.  A lease is *)
(* "none" (lease_expires_at IS NULL), "live" (>= now()) or "expired".      *)
(***************************************************************************)
EXTENDS Naturals

CONSTANTS
  Message,            \* user rows, by created_at rank
  Conversation,
  ConversationOf,     \* the conversation_id of each message
  Worker,             \* worker ids (WORKER_ID), one process each
  NoWorker,           \* worker_id IS NULL
  NoMessage,          \* a worker on no turn
  MaxClaimAttempts,   \* env.maxClaimAttempts
  AttemptBound        \* bound of the model: no claim or requeue beyond it

ASSUME LeaseQueueAssumption ==
  /\ Message \subseteq Nat
  /\ ConversationOf \in [Message -> Conversation]
  /\ NoWorker \notin Worker
  /\ NoMessage \notin Message
  /\ MaxClaimAttempts \in Nat \ {0}
  /\ AttemptBound \in Nat

VARIABLES
  \* the messages table
  status, owner, lease, attempts,
  \* each worker process
  phase, held, attempt, candidates

rowVars    == <<status, owner, lease, attempts>>
workerVars == <<phase, held, attempt, candidates>>
queueVars  == <<status, owner, lease, attempts, phase, held, attempt, candidates>>

Status == {"absent", "pending", "processing", "done", "failed"}
Lease  == {"none", "live", "expired"}

(***************************************************************************)
(* Phases in which processMessage runs: its try block up to the last       *)
(* ownership check, past that check on the way to markMessageDone, past    *)
(* the check of the blocked-mutation branch, and the catch block before    *)
(* and after its own check.                                                *)
(***************************************************************************)
TurnPhase == {"working", "completing", "blocking", "catching", "failing"}
Phase == {"down", "idle", "swept", "claiming"} \cup TurnPhase

QueueTypeOK ==
  /\ status \in [Message -> Status]
  /\ owner \in [Message -> Worker \cup {NoWorker}]
  /\ lease \in [Message -> Lease]
  /\ attempts \in [Message -> Nat]
  /\ phase \in [Worker -> Phase]
  /\ held \in [Worker -> Message \cup {NoMessage}]
  /\ attempt \in [Worker -> Nat]
  /\ candidates \in [Worker -> SUBSET Message]

QueueInit ==
  /\ status = [m \in Message |-> "absent"]
  /\ owner = [m \in Message |-> NoWorker]
  /\ lease = [m \in Message |-> "none"]
  /\ attempts = [m \in Message |-> 0]
  /\ phase = [w \in Worker |-> "idle"]
  /\ held = [w \in Worker |-> NoMessage]
  /\ attempt = [w \in Worker |-> 0]
  /\ candidates = [w \in Worker |-> {}]

-----------------------------------------------------------------------------
(* The conditions of the SQL statements. *)

\* Mutant: an expired lease is not reclaimed.
ClaimablePendingOnly(m) == status[m] = "pending"

\* A row claimPendingMessages may hand out.
Claimable(m) ==
  \/ status[m] = "pending"
  \/ status[m] = "processing" /\ lease[m] # "live"

\* A row that closes its conversation's gate.
LiveRow(m) == status[m] = "processing" /\ lease[m] # "expired"

\* Mutant: no gate.
GateIgnored(m) == m \in Message

\* NOT EXISTS (another live row of the conversation).
GateOpen(m) ==
  \A n \in Message \ {m} : ConversationOf[n] = ConversationOf[m] => ~LiveRow(n)

\* Mutant: the sweep fails a row of that many attempts under a live lease.
ExhaustedUnderLease(m) ==
  status[m] = "processing" /\ attempts[m] >= MaxClaimAttempts

\* A row sweepExhaustedLeases fails.
Exhausted(m) ==
  /\ status[m] = "processing"
  /\ lease[m] = "expired"
  /\ attempts[m] >= MaxClaimAttempts

OnTurn(w) == phase[w] \in TurnPhase

\* Mutant: the worker_id guard is dropped.
StillProcessing(w) == status[held[w]] = "processing"

\* stillOwnsLease and renewLease: worker_id and status, never the expiry.
StillOwnsLease(w) ==
  status[held[w]] = "processing" /\ owner[held[w]] = w

\* Rows another session's statement may have locked when w's FOR UPDATE
\* SKIP LOCKED reaches them.
MaybeLocked(w, m) ==
  \E v \in Worker \ {w} :
    \/ OnTurn(v) /\ held[v] = m
    \/ phase[v] = "claiming" /\ m \in candidates[v]

-----------------------------------------------------------------------------
(* The gateway, the operator and the clock. *)

\* insertUserMessage: created_at follows the order of insertion.  A rank that
\* was passed over is never used.
InsertUserMessage(m) ==
  /\ \A n \in Message : n >= m => status[n] = "absent"
  /\ status' = [status EXCEPT ![m] = "pending"]
  /\ UNCHANGED <<owner, lease, attempts, workerVars>>

\* now() passes lease_expires_at.
LeaseExpires(m) ==
  /\ lease[m] = "live"
  /\ lease' = [lease EXCEPT ![m] = "expired"]
  /\ UNCHANGED <<status, owner, attempts, workerVars>>

\* requeueMessageForRetry, the operator's scripts/requeue-message.ts.
RequeueMessageForRetry(m) ==
  /\ status[m] = "failed" \/ (status[m] = "processing" /\ lease[m] # "live")
  /\ attempts[m] < AttemptBound
  /\ status' = [status EXCEPT ![m] = "pending"]
  /\ owner' = [owner EXCEPT ![m] = NoWorker]
  /\ lease' = [lease EXCEPT ![m] = "none"]
  /\ UNCHANGED <<attempts, workerVars>>

-----------------------------------------------------------------------------
(* claimAndProcess: sweep, then claim one row, then run its turn.  The     *)
(* claim is one READ COMMITTED statement: it scans a snapshot, and before  *)
(* it locks a row it re-evaluates the row's own condition on the row's     *)
(* latest version, the NOT EXISTS subquery still on the snapshot.          *)

SweepExhaustedLeases(w) ==
  /\ phase[w] = "idle"
  /\ status' = [m \in Message |-> IF Exhausted(m) THEN "failed" ELSE status[m]]
  /\ lease' = [m \in Message |-> IF Exhausted(m) THEN "none" ELSE lease[m]]
  /\ phase' = [phase EXCEPT ![w] = "swept"]
  /\ UNCHANGED <<owner, attempts, held, attempt, candidates>>

ClaimSnapshot(w) ==
  /\ phase[w] = "swept"
  /\ phase' = [phase EXCEPT ![w] = "claiming"]
  /\ candidates' = [candidates EXCEPT ![w] = {m \in Message : Claimable(m) /\ GateOpen(m)}]
  /\ UNCHANGED <<rowVars, held, attempt>>

\* Mutant: the row is not re-evaluated when it is locked.
EligibleBySnapshot(w) == {m \in candidates[w] : attempts[m] < AttemptBound}

\* The snapshot's candidates that still pass at lock time.
Eligible(w) ==
  {m \in candidates[w] : Claimable(m) /\ attempts[m] < AttemptBound}

ClaimPendingMessage(w, m) ==
  /\ phase[w] = "claiming"
  /\ m \in Eligible(w)
  /\ \A n \in Eligible(w) : n < m => MaybeLocked(w, n)
  /\ status' = [status EXCEPT ![m] = "processing"]
  /\ owner' = [owner EXCEPT ![m] = w]
  /\ lease' = [lease EXCEPT ![m] = "live"]
  /\ attempts' = [attempts EXCEPT ![m] = @ + 1]
  /\ phase' = [phase EXCEPT ![w] = "working"]
  /\ held' = [held EXCEPT ![w] = m]
  /\ attempt' = [attempt EXCEPT ![w] = attempts[m] + 1]
  /\ candidates' = [candidates EXCEPT ![w] = {}]

\* No eligible row, each of them locked just then, or a call of the pass
\* rejected: the loop logs it and waits for the next poll.
ClaimNothing(w) ==
  /\ phase[w] \in {"swept", "claiming"}
  /\ phase' = [phase EXCEPT ![w] = "idle"]
  /\ candidates' = [candidates EXCEPT ![w] = {}]
  /\ UNCHANGED <<rowVars, held, attempt>>

-----------------------------------------------------------------------------
(* processMessage, as far as the user row is concerned. *)

\* The heartbeat timer; a failed renewal is only logged.
RenewLease(w) ==
  /\ OnTurn(w)
  /\ StillOwnsLease(w)
  /\ lease' = [lease EXCEPT ![held[w]] = "live"]
  /\ UNCHANGED <<status, owner, attempts, workerVars>>

\* An ownership check passes and the turn is to end in the phase next.
PassCheck(w, from, next) ==
  /\ phase[w] = from
  /\ StillOwnsLease(w)
  /\ phase' = [phase EXCEPT ![w] = next]
  /\ UNCHANGED <<rowVars, held, attempt, candidates>>

PassFinalCheck(w)   == PassCheck(w, "working", "completing")
PassBlockedCheck(w) == PassCheck(w, "working", "blocking")
PassCatchCheck(w)   == PassCheck(w, "catching", "failing")

LeaveTurn(w, next) ==
  /\ phase' = [phase EXCEPT ![w] = next]
  /\ held' = [held EXCEPT ![w] = NoMessage]
  /\ attempt' = [attempt EXCEPT ![w] = 0]
  /\ UNCHANGED candidates

\* An ownership check fails: the turn is left alone.
LeaseLost(w) ==
  /\ phase[w] \in {"working", "catching"}
  /\ ~StillOwnsLease(w)
  /\ LeaveTurn(w, "idle")
  /\ UNCHANGED rowVars

\* Any awaited call of the try block rejects.
Throw(w) ==
  /\ phase[w] \in {"working", "completing", "blocking"}
  /\ phase' = [phase EXCEPT ![w] = "catching"]
  /\ UNCHANGED <<rowVars, held, attempt, candidates>>

\* markMessageDone: by id only, whoever owns the row by now.
MarkMessageDone(w) ==
  /\ phase[w] = "completing"
  /\ status' = [status EXCEPT ![held[w]] = "done"]
  /\ lease' = [lease EXCEPT ![held[w]] = "none"]
  /\ LeaveTurn(w, "idle")
  /\ UNCHANGED <<owner, attempts>>

\* Mutant: a status the table does not have.
MarkMessageError(w) ==
  /\ phase[w] \in {"blocking", "failing"}
  /\ status' = [status EXCEPT ![held[w]] = "error"]
  /\ lease' = [lease EXCEPT ![held[w]] = "none"]
  /\ LeaveTurn(w, "idle")
  /\ UNCHANGED <<owner, attempts>>

\* markMessageFailed: by id only as well.
MarkMessageFailed(w) ==
  /\ phase[w] \in {"blocking", "failing"}
  /\ status' = [status EXCEPT ![held[w]] = "failed"]
  /\ lease' = [lease EXCEPT ![held[w]] = "none"]
  /\ LeaveTurn(w, "idle")
  /\ UNCHANGED <<owner, attempts>>

\* A turn is cut off and its row left to its lease: the process dies, or the
\* catch block itself rejects and the loop goes on.  A death between turns
\* changes no row: it is a pause in polling.
Crash(w) ==
  /\ \/ OnTurn(w) /\ LeaveTurn(w, "down")
     \/ phase[w] \in {"catching", "failing"} /\ LeaveTurn(w, "idle")
  /\ UNCHANGED rowVars

Restart(w) ==
  /\ phase[w] = "down"
  /\ phase' = [phase EXCEPT ![w] = "idle"]
  /\ UNCHANGED <<rowVars, held, attempt, candidates>>

-----------------------------------------------------------------------------
\* What a worker that keeps running does next.
WorkerStep(w) ==
  \/ SweepExhaustedLeases(w)
  \/ ClaimSnapshot(w)
  \/ \E m \in Message : ClaimPendingMessage(w, m)
  \/ ClaimNothing(w)
  \/ PassFinalCheck(w)
  \/ PassBlockedCheck(w)
  \/ PassCatchCheck(w)
  \/ LeaseLost(w)
  \/ Throw(w)
  \/ MarkMessageDone(w)
  \/ MarkMessageFailed(w)

QueueNext ==
  \/ \E m \in Message : InsertUserMessage(m) \/ LeaseExpires(m) \/ RequeueMessageForRetry(m)
  \/ \E w \in Worker : WorkerStep(w) \/ RenewLease(w) \/ Crash(w) \/ Restart(w)

QueueSpec == QueueInit /\ [][QueueNext]_queueVars

(***************************************************************************)
(* A running worker takes its next step (its loop polls every second and   *)
(* every await settles), a dead one is restarted, and a lease that no      *)
(* running turn renews runs out.  A row lock lasts one statement and an    *)
(* outage ends, so a worker that polls for ever gets its claim through and *)
(* does not find every row locked each time (strong fairness).  Users,     *)
(* operators and crashes are free.                                         *)
(***************************************************************************)
UntendedLeaseExpires(m) ==
  LeaseExpires(m) /\ \A w \in Worker : held[w] # m

QueueFairness ==
  /\ \A w \in Worker :
       /\ WF_queueVars(WorkerStep(w)) /\ WF_queueVars(Restart(w))
       /\ SF_queueVars(ClaimSnapshot(w))
       /\ SF_queueVars(\E m \in Message : ClaimPendingMessage(w, m))
  /\ \A m \in Message : WF_queueVars(UntendedLeaseExpires(m))

FairQueueSpec == QueueSpec /\ QueueFairness

-----------------------------------------------------------------------------
(* Properties. *)

\* The row's lease columns agree with its status, and a worker is on a turn
\* exactly when it holds a message: what every WHERE clause of db.ts assumes.
RowShape ==
  /\ \A m \in Message :
       /\ status[m] \in {"absent", "pending"} => owner[m] = NoWorker
       /\ status[m] = "processing" => owner[m] \in Worker
       /\ lease[m] # "none" <=> status[m] = "processing"
  /\ \A w \in Worker : OnTurn(w) <=> held[w] # NoMessage

\* stillOwnsLease compares worker ids, not attempts.  It is still a fence: a
\* worker that passes it runs the row's latest attempt, and no two workers
\* ever run the same attempt of a message (db.ts "exactly-once processing
\* across workers, for both fresh claims and reclaims").
FencedOwnership ==
  /\ \A w \in Worker :
       OnTurn(w) /\ StillOwnsLease(w) => attempt[w] = attempts[held[w]]
  /\ \A v, w \in Worker :
       OnTurn(v) /\ held[v] = held[w] /\ attempt[v] = attempt[w] => v = w

\* A worker in its try or catch block writes m's last status and leaves.
SettledByItsTurn(m) ==
  /\ status'[m] \in {"done", "failed"}
  /\ \E w \in Worker :
       /\ phase[w] \in {"completing", "blocking", "failing"}
       /\ held[w] = m /\ held'[w] = NoMessage

\* A row under a live lease is left alone by every claim, sweep and requeue,
\* however old the snapshot it was selected from: it keeps its worker and its
\* attempt_count, and stays "processing" until a worker that had passed an
\* ownership check on this message writes its end.
LiveLeaseNotTaken ==
  [][\A m \in Message :
       LiveRow(m) =>
         /\ owner'[m] = owner[m] /\ attempts'[m] = attempts[m]
         /\ status'[m] = "processing" \/ SettledByItsTurn(m)]_queueVars

\* A row that is done is spared: no worker takes it up, by a claim that
\* selected it before it was completed or after an operator's requeue; no
\* worker on a turn of it passes an ownership check any more; and its status
\* changes only to "failed", by a worker that had passed its check before the
\* row was done.  (After such a failure the row may be requeued.)
DoneIsSpared ==
  [][\A m \in Message :
       status[m] = "done" =>
         /\ status'[m] = "done" \/ (status'[m] = "failed" /\ SettledByItsTurn(m))
         /\ \A w \in Worker :
              held'[w] = m =>
                /\ held[w] = m
                /\ phase'[w] \in {"completing", "blocking", "failing"} => phase'[w] = phase[w]]_queueVars

\* Every message that reaches the table is answered or failed: crashes,
\* lapsed leases and a closed conversation gate only delay it.
EveryMessageSettles ==
  \A m \in Message :
    status[m] \in {"pending", "processing"} ~> status[m] \in {"done", "failed"}

\* "Two workers never both mark a row in the same conversation processing"
\* (docs/FEATURE-multi-conversation-harness-analysis.md): at most one row of
\* a conversation is under a live lease.
OneLiveTurnPerConversation ==
  \A m, n \in Message :
    ConversationOf[m] = ConversationOf[n] /\ LiveRow(m) /\ LiveRow(n) => m = n

\* "A row whose lease has expired this many times (attempt_count) is failed
\* out instead of reclaimed again" (packages/shared/src/env.ts).
ExhaustedNotReclaimed ==
  [][\A m \in Message :
       status[m] = "processing" /\ attempts[m] >= MaxClaimAttempts
         => attempts'[m] = attempts[m]]_queueVars

\* A worker that failed on a turn does not overwrite the row another worker
\* completed ("not overwriting the reclaiming worker's row", index.ts).
DoneNotOverwritten ==
  [][\A m \in Message : status[m] = "done" => status'[m] = "done"]_queueVars
=============================================================================
