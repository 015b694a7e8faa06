---------------------------- MODULE WorkerProofs ----------------------------
(***************************************************************************)
(* Theorems about a worker, for any messages, workers, iterations, calls   *)
(* and attempt cap: about LeaseQueue, about WorkerTurn and about           *)
(* WorkerProcess.  A turn's steps are steps of LeaseQueue or leave its     *)
(* variables alone, so what is proved of the claim protocol, first, holds  *)
(* of a turn; with it, an invariant about where each worker stands in its  *)
(* try block gives the promise of TurnPromise.                             *)
(*                                                                         *)
(* The durable rows of a turn tell what became of its calls as long as no  *)
(* two workers are in the try block of one turn (a stalled worker whose    *)
(* lease lapsed may be: the promise holds of it too, the properties of the *)
(* rows do not).  Last, a process with its loop, its signals and its       *)
(* closed pool steps as WorkerTurn allows, so every theorem about a turn   *)
(* holds of it, and a process told to stop claims by no pass it had not    *)
(* begun.                                                                  *)
(***************************************************************************)
EXTENDS WorkerProcess, TLAPS, WellFoundedInduction

-----------------------------------------------------------------------------
(* The claim protocol.  FencedOwnership is inductive once it is known that  *)
(* a running attempt is never ahead of its row's attempt_count              *)
(* (AttemptOrder): a claim then hands out a number no other worker runs.    *)

\* A worker's attempt number was its row's attempt_count, counted from 1,
\* when it claimed it.
AttemptOrder ==
  \A w \in Worker : OnTurn(w) => attempt[w] # 0 /\ attempt[w] <= attempts[held[w]]

QueueInv == QueueTypeOK /\ RowShape /\ AttemptOrder /\ FencedOwnership

USE LeaseQueueAssumption

\* What every action keeps about the table and the workers' memories.
LEMMA TypeStep == QueueTypeOK /\ RowShape /\ [QueueNext]_queueVars => QueueTypeOK'
<1> SUFFICES ASSUME QueueTypeOK, RowShape, [QueueNext]_queueVars
             PROVE  QueueTypeOK'
  OBVIOUS
<1> USE DEF QueueTypeOK, Status, Lease, Phase, TurnPhase, RowShape, OnTurn
<1>1. CASE UNCHANGED queueVars
  BY <1>1 DEF queueVars
<1>2. ASSUME NEW m \in Message, InsertUserMessage(m)
      PROVE  QueueTypeOK'
  BY <1>2 DEF InsertUserMessage, workerVars
<1>3. ASSUME NEW m \in Message, LeaseExpires(m)
      PROVE  QueueTypeOK'
  BY <1>3 DEF LeaseExpires, workerVars
<1>4. ASSUME NEW m \in Message, RequeueMessageForRetry(m)
      PROVE  QueueTypeOK'
  BY <1>4 DEF RequeueMessageForRetry, workerVars
<1>5. ASSUME NEW w \in Worker, SweepExhaustedLeases(w)
      PROVE  QueueTypeOK'
  BY <1>5 DEF SweepExhaustedLeases
<1>6. ASSUME NEW w \in Worker, ClaimSnapshot(w)
      PROVE  QueueTypeOK'
  BY <1>6 DEF ClaimSnapshot, rowVars
<1>7. ASSUME NEW w \in Worker, NEW m \in Message, ClaimPendingMessage(w, m)
      PROVE  QueueTypeOK'
  BY <1>7 DEF ClaimPendingMessage
<1>8. ASSUME NEW w \in Worker, ClaimNothing(w)
      PROVE  QueueTypeOK'
  BY <1>8 DEF ClaimNothing, rowVars
<1>9. ASSUME NEW w \in Worker, PassFinalCheck(w) \/ PassBlockedCheck(w) \/ PassCatchCheck(w)
      PROVE  QueueTypeOK'
  BY <1>9 DEF PassFinalCheck, PassBlockedCheck, PassCatchCheck, PassCheck, rowVars
<1>10. ASSUME NEW w \in Worker, LeaseLost(w) \/ Throw(w) \/ Crash(w) \/ Restart(w)
       PROVE  QueueTypeOK'
  BY <1>10 DEF LeaseLost, Throw, Crash, Restart, LeaveTurn, rowVars
<1>11. ASSUME NEW w \in Worker, MarkMessageDone(w) \/ MarkMessageFailed(w)
       PROVE  QueueTypeOK'
  BY <1>11 DEF MarkMessageDone, MarkMessageFailed, LeaveTurn
<1>12. ASSUME NEW w \in Worker, RenewLease(w)
       PROVE  QueueTypeOK'
  BY <1>12 DEF RenewLease, workerVars
<1>13. QED
  BY <1>1, <1>2, <1>3, <1>4, <1>5, <1>6, <1>7, <1>8, <1>9, <1>10, <1>11, <1>12
     DEF QueueNext, WorkerStep

LEMMA ShapeStep == QueueTypeOK /\ RowShape /\ [QueueNext]_queueVars => RowShape'
<1> SUFFICES ASSUME QueueTypeOK, RowShape, [QueueNext]_queueVars
             PROVE  RowShape'
  OBVIOUS
<1> USE DEF QueueTypeOK, Status, Lease, Phase, TurnPhase, RowShape, OnTurn
<1>1. CASE UNCHANGED queueVars
  BY <1>1 DEF queueVars
<1>2. ASSUME NEW m \in Message, InsertUserMessage(m)
      PROVE  RowShape'
  BY <1>2 DEF InsertUserMessage, workerVars
<1>3. ASSUME NEW m \in Message, LeaseExpires(m)
      PROVE  RowShape'
  BY <1>3 DEF LeaseExpires, workerVars
<1>4. ASSUME NEW m \in Message, RequeueMessageForRetry(m)
      PROVE  RowShape'
  BY <1>4 DEF RequeueMessageForRetry, workerVars
<1>5. ASSUME NEW w \in Worker, SweepExhaustedLeases(w)
      PROVE  RowShape'
  BY <1>5 DEF SweepExhaustedLeases, Exhausted
<1>6. ASSUME NEW w \in Worker, ClaimSnapshot(w)
      PROVE  RowShape'
  BY <1>6 DEF ClaimSnapshot, rowVars
<1>7. ASSUME NEW w \in Worker, NEW m \in Message, ClaimPendingMessage(w, m)
      PROVE  RowShape'
  BY <1>7 DEF ClaimPendingMessage
<1>8. ASSUME NEW w \in Worker, ClaimNothing(w)
      PROVE  RowShape'
  BY <1>8 DEF ClaimNothing, rowVars
<1>9. ASSUME NEW w \in Worker, PassFinalCheck(w) \/ PassBlockedCheck(w) \/ PassCatchCheck(w)
      PROVE  RowShape'
  BY <1>9 DEF PassFinalCheck, PassBlockedCheck, PassCatchCheck, PassCheck, rowVars
<1>10. ASSUME NEW w \in Worker, LeaseLost(w) \/ Throw(w) \/ Crash(w) \/ Restart(w)
       PROVE  RowShape'
  BY <1>10 DEF LeaseLost, Throw, Crash, Restart, LeaveTurn, rowVars
<1>11. ASSUME NEW w \in Worker, MarkMessageDone(w) \/ MarkMessageFailed(w)
       PROVE  RowShape'
  BY <1>11 DEF MarkMessageDone, MarkMessageFailed, LeaveTurn
<1>12. ASSUME NEW w \in Worker, RenewLease(w)
       PROVE  RowShape'
  BY <1>12 DEF RenewLease, StillOwnsLease, workerVars
<1>13. QED
  BY <1>1, <1>2, <1>3, <1>4, <1>5, <1>6, <1>7, <1>8, <1>9, <1>10, <1>11, <1>12
     DEF QueueNext, WorkerStep

\* Only a claim changes an attempt number or who owns a row.
LEMMA FenceStep ==
  QueueInv /\ [QueueNext]_queueVars => AttemptOrder' /\ FencedOwnership'
<1> SUFFICES ASSUME QueueInv, [QueueNext]_queueVars
             PROVE  AttemptOrder' /\ FencedOwnership'
  OBVIOUS
<1> USE DEF QueueInv, QueueTypeOK, RowShape, AttemptOrder, FencedOwnership,
            StillOwnsLease, OnTurn, TurnPhase
<1>1. CASE UNCHANGED queueVars
  BY <1>1 DEF queueVars
<1>2. ASSUME NEW m \in Message,
             InsertUserMessage(m) \/ LeaseExpires(m) \/ RequeueMessageForRetry(m)
      PROVE  AttemptOrder' /\ FencedOwnership'
  <2>1. /\ UNCHANGED <<phase, held, attempt, attempts>>
        /\ \A n \in Message : status'[n] = "processing"
                               => status[n] = "processing" /\ owner'[n] = owner[n]
    BY <1>2 DEF InsertUserMessage, LeaseExpires, RequeueMessageForRetry, workerVars
  <2>2. \A w \in Worker : OnTurn(w) => held[w] \in Message
    OBVIOUS
  <2>3. AttemptOrder'
    BY <2>1
  <2>4. ASSUME NEW w \in Worker, OnTurn(w)', StillOwnsLease(w)'
        PROVE  attempt'[w] = attempts'[held'[w]]
    <3>1. OnTurn(w) /\ held'[w] = held[w] /\ held[w] \in Message
      BY <2>1, <2>2, <2>4
    <3>2. StillOwnsLease(w)
      BY <2>1, <2>4, <3>1
    <3>3. attempt[w] = attempts[held[w]]
      BY <3>1, <3>2 DEF FencedOwnership
    <3>4. QED
      BY <2>1, <3>1, <3>3
  <2>5. \A v, w \in Worker :
          OnTurn(v)' /\ held'[v] = held'[w] /\ attempt'[v] = attempt'[w] => v = w
    BY <2>1
  <2>6. QED
    BY <2>3, <2>4, <2>5
<1>3. ASSUME NEW w \in Worker, SweepExhaustedLeases(w)
      PROVE  AttemptOrder' /\ FencedOwnership'
  BY <1>3 DEF SweepExhaustedLeases
<1>4. ASSUME NEW w \in Worker, ClaimSnapshot(w) \/ ClaimNothing(w) \/ Restart(w)
      PROVE  AttemptOrder' /\ FencedOwnership'
  BY <1>4 DEF ClaimSnapshot, ClaimNothing, Restart, rowVars
<1>5. ASSUME NEW w \in Worker, NEW m \in Message, ClaimPendingMessage(w, m)
      PROVE  AttemptOrder' /\ FencedOwnership'
  <2>1. /\ attempts' = [attempts EXCEPT ![m] = attempts[m] + 1]
        /\ owner' = [owner EXCEPT ![m] = w]
        /\ status' = [status EXCEPT ![m] = "processing"]
        /\ phase' = [phase EXCEPT ![w] = "working"]
        /\ held' = [held EXCEPT ![w] = m]
        /\ attempt' = [attempt EXCEPT ![w] = attempts[m] + 1]
    BY <1>5 DEF ClaimPendingMessage
  <2>2. AttemptOrder'
    BY <2>1
  <2>3. \A v \in Worker : OnTurn(v)' /\ StillOwnsLease(v)' => attempt'[v] = attempts'[held'[v]]
    BY <2>1
  <2>4. \A v \in Worker \ {w} : OnTurn(v)' /\ held'[v] = m => attempt'[v] < attempt'[w]
    BY <2>1
  <2>5. ASSUME NEW u \in Worker, NEW v \in Worker,
               OnTurn(u)', held'[u] = held'[v], attempt'[u] = attempt'[v]
        PROVE  u = v
    <3>1. CASE u = w
      <4>1. held'[v] = m
        BY <3>1, <2>1, <2>5
      <4>2. OnTurn(v)'
        BY <4>1, <2>1
      <4>3. QED
        BY <3>1, <4>1, <4>2, <2>4, <2>5, <2>1
    <3>2. CASE v = w
      BY <3>2, <2>1, <2>4, <2>5
    <3>3. CASE u # w /\ v # w
      BY <3>3, <2>1, <2>5
    <3>4. QED
      BY <3>1, <3>2, <3>3
  <2>6. QED
    BY <2>2, <2>3, <2>5
<1>6. ASSUME NEW w \in Worker,
             PassFinalCheck(w) \/ PassBlockedCheck(w) \/ PassCatchCheck(w) \/ Throw(w)
      PROVE  AttemptOrder' /\ FencedOwnership'
  BY <1>6 DEF PassFinalCheck, PassBlockedCheck, PassCatchCheck, PassCheck, Throw, rowVars
<1>7. ASSUME NEW w \in Worker,
             LeaseLost(w) \/ Crash(w) \/ MarkMessageDone(w) \/ MarkMessageFailed(w)
      PROVE  AttemptOrder' /\ FencedOwnership'
  <2>1. /\ held' = [held EXCEPT ![w] = NoMessage]
        /\ attempt' = [attempt EXCEPT ![w] = 0]
        /\ phase'[w] \notin TurnPhase
        /\ \A v \in Worker \ {w} : phase'[v] = phase[v]
        /\ UNCHANGED <<owner, attempts>>
    BY <1>7 DEF LeaseLost, Crash, MarkMessageDone, MarkMessageFailed, LeaveTurn, rowVars
  <2>2. \A m \in Message : status'[m] = "processing" => status[m] = "processing"
    BY <1>7 DEF LeaseLost, Crash, MarkMessageDone, MarkMessageFailed, rowVars
  <2>3. \A v \in Worker :
          OnTurn(v)' => /\ v # w /\ OnTurn(v) /\ held[v] \in Message
                        /\ held'[v] = held[v] /\ attempt'[v] = attempt[v]
    BY <2>1
  <2>4. AttemptOrder'
    BY <2>1, <2>3
  <2>5. ASSUME NEW v \in Worker, OnTurn(v)', StillOwnsLease(v)'
        PROVE  attempt'[v] = attempts'[held'[v]]
    <3>1. /\ OnTurn(v) /\ held'[v] = held[v] /\ held[v] \in Message
          /\ attempt'[v] = attempt[v]
      BY <2>3, <2>5
    <3>2. StillOwnsLease(v)
      BY <2>1, <2>2, <2>5, <3>1
    <3>3. attempt[v] = attempts[held[v]]
      BY <3>1, <3>2 DEF FencedOwnership
    <3>4. QED
      BY <2>1, <3>1, <3>3
  <2>6. ASSUME NEW u \in Worker, NEW v \in Worker,
               OnTurn(u)', held'[u] = held'[v], attempt'[u] = attempt'[v]
        PROVE  u = v
    <3>1. u # w /\ held'[u] = held[u] /\ held[u] \in Message /\ attempt'[u] = attempt[u]
      BY <2>3, <2>6
    <3>2. v # w
      BY <2>1, <2>6, <3>1
    <3>3. held'[v] = held[v] /\ attempt'[v] = attempt[v]
      BY <2>1, <3>2
    <3>4. OnTurn(u) /\ held[u] = held[v] /\ attempt[u] = attempt[v]
      BY <2>3, <2>6, <3>1, <3>3
    <3>5. QED
      BY <3>4 DEF FencedOwnership
  <2>7. QED
    BY <2>4, <2>5, <2>6
<1>8. ASSUME NEW w \in Worker, RenewLease(w)
      PROVE  AttemptOrder' /\ FencedOwnership'
  BY <1>8 DEF RenewLease, workerVars
<1>9. QED
  BY <1>1, <1>2, <1>3, <1>4, <1>5, <1>6, <1>7, <1>8 DEF QueueNext, WorkerStep

LEMMA InvInit == QueueInit => QueueInv
BY DEF QueueInit, QueueInv, QueueTypeOK, RowShape, AttemptOrder, FencedOwnership,
       OnTurn, Status, Lease, Phase, TurnPhase

LEMMA InvStep == QueueInv /\ [QueueNext]_queueVars => QueueInv'
BY TypeStep, ShapeStep, FenceStep DEF QueueInv

\* The table and the workers' memories keep their types, and the lease
\* columns agree with the status columns.
THEOREM QueueTypeCorrect == QueueSpec => []QueueTypeOK
<1>1. QueueInv => QueueTypeOK
  BY DEF QueueInv
<1>2. QED
  BY InvInit, InvStep, <1>1, PTL DEF QueueSpec

THEOREM RowShapeCorrect == QueueSpec => []RowShape
<1>1. QueueInv => RowShape
  BY DEF QueueInv
<1>2. QED
  BY InvInit, InvStep, <1>1, PTL DEF QueueSpec

\* stillOwnsLease fences attempts although it compares worker ids only.
THEOREM OwnershipFenced == QueueSpec => []FencedOwnership
<1>1. QueueInv => FencedOwnership
  BY DEF QueueInv
<1>2. QED
  BY InvInit, InvStep, <1>1, PTL DEF QueueSpec

\* A row under a live lease is left alone by every claim, sweep and requeue: it
\* keeps its worker and its attempt, and only a worker on a turn of it, past an
\* ownership check, ends it.
THEOREM LiveLeaseKept == QueueSpec => LiveLeaseNotTaken
<1> DEFINE Kept(m) ==
      /\ owner'[m] = owner[m] /\ attempts'[m] = attempts[m]
      /\ status'[m] = "processing" \/ SettledByItsTurn(m)
<1>1. QueueInv /\ [QueueNext]_queueVars => [\A m \in Message : LiveRow(m) => Kept(m)]_queueVars
  <2> SUFFICES ASSUME QueueInv, QueueNext, NEW m \in Message, LiveRow(m)
               PROVE  Kept(m)
    OBVIOUS
  <2> USE DEF QueueInv, QueueTypeOK, Lease, RowShape, LiveRow
  <2>1. lease[m] = "live" /\ status[m] = "processing"
    OBVIOUS
  <2>2. ASSUME NEW n \in Message,
               InsertUserMessage(n) \/ LeaseExpires(n) \/ RequeueMessageForRetry(n)
        PROVE  Kept(m)
    BY <2>1, <2>2 DEF InsertUserMessage, LeaseExpires, RequeueMessageForRetry
  <2>3. ASSUME NEW w \in Worker, NEW n \in Message, ClaimPendingMessage(w, n)
        PROVE  Kept(m)
    BY <2>1, <2>3 DEF ClaimPendingMessage, Eligible, Claimable
  <2>4. ASSUME NEW w \in Worker, SweepExhaustedLeases(w)
        PROVE  Kept(m)
    BY <2>1, <2>4 DEF SweepExhaustedLeases, Exhausted
  <2>5. ASSUME NEW w \in Worker, MarkMessageDone(w) \/ MarkMessageFailed(w)
        PROVE  Kept(m)
    <3>1. /\ phase[w] \in {"completing", "blocking", "failing"}
          /\ status'[held[w]] \in {"done", "failed"} /\ held'[w] = NoMessage
          /\ \A n \in Message \ {held[w]} : status'[n] = status[n]
          /\ UNCHANGED <<owner, attempts>>
      BY <2>5 DEF MarkMessageDone, MarkMessageFailed, LeaveTurn, OnTurn, TurnPhase
    <3>2. QED
      BY <2>1, <3>1 DEF SettledByItsTurn
  <2>6. ASSUME NEW w \in Worker,
               \/ ClaimSnapshot(w) \/ ClaimNothing(w) \/ LeaseLost(w) \/ Throw(w)
               \/ PassFinalCheck(w) \/ PassBlockedCheck(w) \/ PassCatchCheck(w)
               \/ RenewLease(w) \/ Crash(w) \/ Restart(w)
        PROVE  Kept(m)
    BY <2>1, <2>6 DEF ClaimSnapshot, ClaimNothing, LeaseLost, Throw, PassFinalCheck,
                PassBlockedCheck, PassCatchCheck, PassCheck, RenewLease, Crash, Restart, rowVars
  <2>7. QED
    BY <2>2, <2>3, <2>4, <2>5, <2>6 DEF QueueNext, WorkerStep
<1>2. QED
  BY InvInit, InvStep, <1>1, PTL DEF QueueSpec, LiveLeaseNotTaken

\* A done row is spared: no worker takes it up and none passes an ownership
\* check on it; a worker that had passed one before may still fail it.
THEOREM DoneSpared == QueueSpec => DoneIsSpared
<1> DEFINE KeepsOff(m, w) ==
             held'[w] = m =>
               /\ held[w] = m
               /\ phase'[w] \in {"completing", "blocking", "failing"} => phase'[w] = phase[w]
           Spared(m) ==
             /\ status'[m] = "done" \/ (status'[m] = "failed" /\ SettledByItsTurn(m))
             /\ \A w \in Worker : KeepsOff(m, w)
<1> HIDE DEF Spared
<1>1. ASSUME QueueInv, QueueNext, NEW m \in Message, status[m] = "done"
      PROVE  Spared(m)
  <2> USE <1>1 DEF QueueInv, QueueTypeOK, RowShape, Spared
  <2>1. ASSUME NEW n \in Message,
               InsertUserMessage(n) \/ LeaseExpires(n) \/ RequeueMessageForRetry(n)
        PROVE  Spared(m)
    <3>1. status'[m] = "done" /\ UNCHANGED <<phase, held>>
      BY <2>1 DEF InsertUserMessage, LeaseExpires, RequeueMessageForRetry, workerVars
    <3>2. QED
      BY <3>1
  <2>2. ASSUME NEW w \in Worker, NEW n \in Message, ClaimPendingMessage(w, n)
        PROVE  Spared(m)
    BY <2>2 DEF ClaimPendingMessage, Eligible, Claimable
  <2>3. ASSUME NEW w \in Worker, MarkMessageDone(w) \/ MarkMessageFailed(w)
        PROVE  Spared(m)
    <3>1. /\ phase[w] \in {"completing", "blocking", "failing"}
          /\ phase[w] = "completing" => status'[held[w]] = "done"
          /\ phase[w] # "completing" => status'[held[w]] = "failed"
          /\ \A n \in Message \ {held[w]} : status'[n] = status[n]
          /\ held' = [held EXCEPT ![w] = NoMessage] /\ phase' = [phase EXCEPT ![w] = "idle"]
      BY <2>3 DEF MarkMessageDone, MarkMessageFailed, LeaveTurn, OnTurn, TurnPhase
    <3>2. \A v \in Worker : KeepsOff(m, v)
      BY <3>1, LeaseQueueAssumption
    <3>3. QED
      BY <3>1, <3>2 DEF SettledByItsTurn
  <2>4. ASSUME NEW w \in Worker, SweepExhaustedLeases(w) \/ RenewLease(w)
        PROVE  Spared(m)
    BY <2>4 DEF SweepExhaustedLeases, Exhausted, RenewLease, workerVars
  <2>5. ASSUME NEW w \in Worker,
               ClaimSnapshot(w) \/ ClaimNothing(w) \/ LeaseLost(w) \/ Throw(w) \/ Crash(w) \/ Restart(w)
        PROVE  Spared(m)
    BY <2>5 DEF ClaimSnapshot, ClaimNothing, LeaseLost, Throw, Crash, Restart, LeaveTurn, rowVars
  <2>6. ASSUME NEW w \in Worker, PassFinalCheck(w) \/ PassBlockedCheck(w) \/ PassCatchCheck(w)
        PROVE  Spared(m)
    BY <2>6 DEF PassFinalCheck, PassBlockedCheck, PassCatchCheck, PassCheck, StillOwnsLease, rowVars
  <2>7. QED
    BY <2>1, <2>2, <2>3, <2>4, <2>5, <2>6 DEF QueueNext, WorkerStep
<1>2. QueueInv /\ [QueueNext]_queueVars
        => [\A m \in Message : status[m] = "done" => Spared(m)]_queueVars
  BY <1>1
<1>3. QED
  BY InvInit, InvStep, <1>2, PTL DEF QueueSpec, DoneIsSpared, Spared

HIDE LeaseQueueAssumption
USE WorkerTurnAssumption

-----------------------------------------------------------------------------
(* The turn implements the claim protocol. *)

LEMMA QueueStep == [TurnNext]_vars => [QueueNext]_queueVars
<1> SUFFICES ASSUME [TurnNext]_vars
             PROVE  [QueueNext]_queueVars
  OBVIOUS
<1>1. CASE UNCHANGED vars
  BY <1>1 DEF vars
<1>2. CASE QueueOnly
  BY <1>2 DEF QueueOnly, QueueNext
<1>3. ASSUME NEW w \in Worker, TurnStep(w)
      PROVE  [QueueNext]_queueVars
  <2>1. CASE Poll(w) \/ (\E m \in Message : Claim(w, m))
    BY <2>1 DEF Poll, Claim, QueueNext, WorkerStep
  <2>2. CASE AlreadyFinal(w) \/ FreshTurn(w) \/ BlockedMutation(w) \/ ResumeTurn(w)
    BY <2>2 DEF AlreadyFinal, FreshTurn, BlockedMutation, ResumeTurn
  <2>3. CASE \E c \in todo[w] : ResolveCall(w, c) \/ RunCall(w, c)
    BY <2>3 DEF ResolveCall, RunCall
  <2>4. CASE (\E kinds \in (SUBSET Kind) \ {{}} : LlmAsks(w, kinds)) \/ LlmAnswers(w)
    BY <2>4 DEF LlmAsks, LlmAnswers
  <2>5. CASE (\E kind \in Kind : DirectAsks(w, kind)) \/ CheckRequest(w)
    BY <2>5 DEF DirectAsks, CheckRequest
  <2>6. CASE PersistRequest(w) \/ CheckRun(w)
    BY <2>6 DEF PersistRequest, CheckRun
  <2>7. CASE (\E c \in ran[w] : RecordResult(w, c)) \/ InsertReply(w)
    BY <2>7 DEF RecordResult, InsertReply
  <2>8. CASE CheckCompletion(w)
    BY <2>8 DEF CheckCompletion, CheckAnswer, CompleteFinal, CompleteDirect, QueueNext, WorkerStep
  <2>9. CASE Finish(w) \/ Block(w) \/ Lost(w) \/ Fail(w) \/ Recover(w)
    BY <2>9 DEF Finish, Block, Lost, Fail, Recover, QueueNext, WorkerStep
  <2>10. QED
    BY <1>3, <2>1, <2>2, <2>3, <2>4, <2>5, <2>6, <2>7, <2>8, <2>9 DEF TurnStep
<1>4. ASSUME NEW w \in Worker, Die(w)
      PROVE  [QueueNext]_queueVars
  BY <1>4 DEF Die, QueueNext
<1>5. ASSUME NEW m \in Message, VetMessage(m) \/ \E c \in Requested(m) : ResolveToolCall(m, c)
      PROVE  [QueueNext]_queueVars
  BY <1>5 DEF VetMessage, ResolveToolCall
<1>6. QED
  BY <1>1, <1>2, <1>3, <1>4, <1>5 DEF TurnNext

\* Every step of a turn is a step the claim protocol allows, or none of its
\* business.
THEOREM TurnImplementsQueue == TurnSpec => ImplementsQueue
<1>1. TurnInit => QueueInit
  BY DEF TurnInit
<1>2. QED
  BY <1>1, QueueStep, PTL DEF TurnSpec, ImplementsQueue, QueueSpec

-----------------------------------------------------------------------------
(* Where a worker stands in its try block. *)

\* The try block runs in the phases "working" and "completing"; an attempt's
\* calls carry its number and its iteration; a call that took effect is
\* behind the worker that ran it; and only readOnly calls are run again.
WorkerInv(w) ==
  /\ step[w] \in {"insertReply", "markDone"} <=> phase[w] = "completing"
  /\ step[w] \notin {"off", "insertReply", "markDone"} <=> phase[w] = "working"
  /\ step[w] \in {"off", "reconcile", "direct"} => iter[w] = 0
  /\ step[w] \in {"llm", "request", "answer", "insertReply"} => held[w] \notin Direct
  /\ step[w] \in {"direct", "checkRun", "completeDirect"} => held[w] \in Direct
  /\ step[w] \notin {"completeFinal", "markDone"} => answer[w] = 0
  /\ step[w] = "completeFinal" => answer[w] = reply[held[w]] /\ reply[held[w]] # 0
  /\ step[w] = "markDone" => /\ answer[w] = reply[held[w]]
                             /\ held[w] \in Direct \/ reply[held[w]] # 0
  /\ step[w] \in {"completeDirect", "markDone"} /\ held[w] \in Direct => results[held[w]] # {}
  /\ step[w] = "resolve" => \A c \in todo[w] : c.kind # "mutating"
  /\ step[w] \in {"request", "persist", "run", "checkRun"} =>
       /\ iter[w] < MaxIter
       /\ \A c \in todo[w] : c.by = attempt[w] /\ c.iter = iter[w]
  /\ step[w] # "off" => \A p \in Range(effects[held[w]]) :
       p.by = attempt[w] =>
         \/ p.iter < iter[w]
         \/ p.iter = iter[w] /\ step[w] \in {"run", "checkRun"} /\ p \notin todo[w]

RowInv(m) ==
  /\ m \in Direct => reply[m] = 0
  /\ \A p \in Range(effects[m]) : p.by <= attempts[m]
  /\ status[m] = "done" => IF m \in Direct THEN results[m] # {} ELSE reply[m] # 0

TurnInv ==
  /\ QueueInv
  /\ TurnTypeOK
  /\ \A w \in Worker : WorkerInv(w)
  /\ \A m \in Message : RowInv(m)

\* What one more effect does to the history of a turn's effects.
LEMMA OneMore ==
  ASSUME NEW S, NEW s \in Seq(S), NEW c \in S
  PROVE  /\ Append(s, c) \in Seq(S) /\ Append(s, c) # <<>>
         /\ Append(s, c)[Len(Append(s, c))] = c
         /\ Range(Append(s, c)) = Range(s) \cup {c}
         /\ IsInjective(s) /\ c \notin Range(s) => IsInjective(Append(s, c))
<1>1. /\ Append(s, c) \in Seq(S) /\ DOMAIN Append(s, c) = 1..Len(s) + 1
      /\ DOMAIN s = 1..Len(s) /\ Len(s) \in Nat /\ Len(Append(s, c)) = Len(s) + 1
      /\ Append(s, c)[Len(s) + 1] = c
      /\ \A i \in 1..Len(s) : Append(s, c)[i] = s[i]
  OBVIOUS
<1>2. Range(Append(s, c)) = Range(s) \cup {c}
  <2>1. \A x : x \in Range(Append(s, c)) => x \in Range(s) \cup {c}
    BY <1>1 DEF Range
  <2>2. \A i \in 1..Len(s) : s[i] \in Range(Append(s, c))
    BY <1>1 DEF Range
  <2>3. c \in Range(Append(s, c))
    BY <1>1 DEF Range
  <2>4. \A x \in Range(s) : x \in Range(Append(s, c))
    BY <1>1, <2>2 DEF Range
  <2> QED BY <2>1, <2>3, <2>4
<1>3. ASSUME IsInjective(s), c \notin Range(s),
             NEW i \in 1..Len(s) + 1, NEW j \in 1..Len(s) + 1, Append(s, c)[i] = Append(s, c)[j]
      PROVE  i = j
  <2>1. \A k \in 1..Len(s) : s[k] # c
    BY <1>1, <1>3 DEF Range
  <2>2. CASE i \in 1..Len(s) /\ j \in 1..Len(s)
    BY <1>1, <1>3, <2>2 DEF IsInjective
  <2>3. CASE i = Len(s) + 1 \/ j = Len(s) + 1
    BY <1>1, <1>3, <2>1, <2>3
  <2> QED BY <1>1, <2>2, <2>3
<1> QED BY <1>1, <1>2, <1>3 DEF IsInjective

LEMMA NoneYet == Range(<<>>) = {} /\ IsInjective(<<>>)
BY DEF Range, IsInjective

LEMMA EffectsAreCalls ==
  ASSUME TurnTypeOK, NEW m \in Message
  PROVE  \A p \in Range(effects[m]) : p \in Call /\ p.by \in Nat /\ p.iter \in Nat
<1>1. effects[m] \in Seq(Call)
  BY DEF TurnTypeOK
<1>2. \A i \in DOMAIN effects[m] : effects[m][i] \in Call
  BY <1>1
<1> QED BY <1>2 DEF Range, Call, Iter

\* A non-empty request table has a last row.
LEMMA LastIterExists ==
  ASSUME TurnTypeOK, NEW m \in Message, Requested(m) # {}
  PROVE  /\ LastIter(m) \in Iter /\ requests[m][LastIter(m)] # {}
         /\ \A j \in Iter : requests[m][j] # {} => j <= LastIter(m)
<1> DEFINE T == {n \in 0..MaxIter - 1 : requests[m][MaxIter - 1 - n] # {}}
           Less == {p \in Nat \X Nat : p[1] < p[2]}
<1>1. PICK i \in Iter : requests[m][i] # {}
  BY DEF Requested
<1>2. MaxIter - 1 - i \in T
  BY <1>1 DEF Iter
<1>3. PICK n \in T : \A k \in T : <<k, n>> \notin Less
  <2>1. T \subseteq Nat /\ T # {}
    BY <1>2
  <2>2. IsWellFoundedOn(Less, Nat)
    BY NatLessThanWellFounded DEF OpToRel
  <2> HIDE DEF T, Less
  <2>3. QED
    BY <2>1, <2>2, WFMin
<1>4. \A k \in T : ~(k < n)
  <2>1. n \in Nat /\ \A k \in T : k \in Nat
    BY <1>3
  <2>2. \A k \in T : <<k, n>> \in Less <=> k < n
    BY <2>1
  <2>3. QED
    BY <1>3, <2>2
<1> DEFINE last == MaxIter - 1 - n
<1>5. last \in Iter /\ requests[m][last] # {}
  BY <1>3 DEF Iter
<1>6. ASSUME NEW j \in Iter, requests[m][j] # {}
      PROVE  j <= last
  <2>1. MaxIter - 1 - j \in T
    BY <1>6 DEF Iter
  <2>2. ~(MaxIter - 1 - j < n)
    BY <2>1, <1>4
  <2>3. QED
    BY <2>2, <1>3, <1>6 DEF Iter
<1>7. QED
  BY <1>5, <1>6 DEF LastIter

\* Leaving the try block resets every local.
LEMMA LeaveTryType ==
  ASSUME TurnTypeOK, NEW w \in Worker, LeaveTry(w)
  PROVE  /\ step' \in [Worker -> Step] /\ iter' \in [Worker -> 0..MaxIter]
         /\ todo' \in [Worker -> SUBSET Call] /\ ran' \in [Worker -> SUBSET Call]
         /\ answer' \in [Worker -> Nat]
BY DEF TurnTypeOK, LeaveTry, Step

\* Only the places of the workers change, and what they have in memory.
LEMMA PlacesType ==
  ASSUME TurnTypeOK, QueueTypeOK', step' \in [Worker -> Step], iter' \in [Worker -> 0..MaxIter],
         todo' \in [Worker -> SUBSET Call],
         UNCHANGED <<requests, results, reply, effects, published, vetted, ran, answer>>
  PROVE  TurnTypeOK'
BY DEF TurnTypeOK

LEMMA TurnTypeStep == TurnInv /\ [TurnNext]_vars => TurnTypeOK'
<1> SUFFICES ASSUME TurnInv, [TurnNext]_vars
             PROVE  TurnTypeOK'
  OBVIOUS
<1>0. QueueTypeOK' /\ TurnTypeOK /\ QueueInv
  BY QueueStep, InvStep DEF TurnInv, QueueInv
<1>t. \A w \in Worker : step[w] # "off" => held[w] \in Message /\ attempt[w] \in Nat
  BY <1>0 DEF TurnInv, WorkerInv, QueueInv, QueueTypeOK, RowShape, OnTurn, TurnPhase
<1> USE <1>0 DEF TurnTypeOK
<1>1. CASE UNCHANGED vars \/ QueueOnly
  BY <1>1 DEF vars, turnVars, QueueOnly
<1>2. ASSUME NEW w \in Worker, NEW m \in Message, Claim(w, m)
      PROVE  TurnTypeOK'
  BY <1>2 DEF Claim, Moves, Step, turnRows
<1>3. ASSUME NEW w \in Worker, Poll(w) \/ Recover(w)
      PROVE  TurnTypeOK'
  BY <1>3 DEF Poll, Recover, turnVars
<1>4. ASSUME NEW w \in Worker, AlreadyFinal(w)
      PROVE  TurnTypeOK'
  BY <1>4, <1>t DEF AlreadyFinal, Moves, Step, turnRows
<1>5. ASSUME NEW w \in Worker,
             FreshTurn(w) \/ BlockedMutation(w) \/ LlmAnswers(w) \/ CheckRequest(w) \/ CheckRun(w)
      PROVE  TurnTypeOK'
  <2>1. \E s \in Step : step' = [step EXCEPT ![w] = s]
    BY <1>5 DEF FreshTurn, BlockedMutation, LlmAnswers, CheckRequest, CheckRun, Moves, Step
  <2>2. QED
    BY <1>5, <2>1 DEF FreshTurn, BlockedMutation, LlmAnswers, CheckRequest, CheckRun, turnRows
<1>6. ASSUME NEW w \in Worker, ResumeTurn(w)
      PROVE  TurnTypeOK'
  <2>1. held[w] \in Message /\ Requested(held[w]) # {} /\ step[w] = "reconcile"
    BY <1>6, <1>t DEF ResumeTurn
  <2>2. LastIter(held[w]) \in Iter
    BY <2>1, LastIterExists
  <2>3. NextIter(held[w]) \in 0..MaxIter
    BY <2>2 DEF Iter, NextIter
  <2>4. Pending(held[w]) \in SUBSET Call
    BY <2>1, <2>2 DEF Pending
  <2>5. step' \in [Worker -> Step]
    BY <1>6 DEF ResumeTurn, Resume, Moves, Step
  <2>6. iter' \in [Worker -> 0..MaxIter] /\ todo' \in [Worker -> SUBSET Call]
    BY <1>6, <2>3, <2>4 DEF ResumeTurn
  <2>7. UNCHANGED <<requests, results, reply, effects, published, vetted, ran, answer>>
    BY <1>6 DEF ResumeTurn, turnRows
  <2>8. QED
    BY <2>5, <2>6, <2>7, PlacesType
<1>7. ASSUME NEW w \in Worker, NEW c \in todo[w], ResolveCall(w, c) \/ RunCall(w, c)
      PROVE  TurnTypeOK'
  <2>1. held[w] \in Message /\ attempt[w] \in Nat /\ c \in Call
    BY <1>7, <1>t DEF ResolveCall, RunCall, Moves
  <2>2. effects' \in [Message -> Seq(Call)]
    <3>2. \/ UNCHANGED effects
          \/ effects' = [effects EXCEPT ![held[w]] = Append(@, c)]
      BY <1>7 DEF ResolveCall, RunCall, TakeEffect
    <3>3. CASE effects' = [effects EXCEPT ![held[w]] = Append(@, c)]
      <4>1. PICK x \in Seq(Call) : x = Append(effects[held[w]], c)
        BY <2>1, OneMore
      <4>2. QED
        BY <3>3, <4>1
    <3>4. QED
      BY <3>2, <3>3
  <2>3. \E s \in Step : step' = [step EXCEPT ![w] = s]
    BY <1>7 DEF ResolveCall, RunCall, Resume, Moves, Step
  <2>4. step' \in [Worker -> Step]
    BY <2>3
  <2>5. CASE ResolveCall(w, c)
    BY <2>1, <2>2, <2>4, <2>5 DEF ResolveCall
  <2>6. CASE RunCall(w, c)
    BY <2>1, <2>2, <2>4, <2>6 DEF RunCall
  <2>7. QED
    BY <1>7, <2>5, <2>6
<1>8. ASSUME NEW w \in Worker, NEW kinds \in SUBSET Kind, LlmAsks(w, kinds)
      PROVE  TurnTypeOK'
  <2>1. attempt[w] \in Nat /\ iter[w] \in Iter
    BY <1>8, <1>t DEF LlmAsks, Moves, Iter
  <2>2. {[by |-> attempt[w], iter |-> iter[w], kind |-> k] : k \in kinds} \in SUBSET Call
    BY <2>1 DEF Call
  <2>3. QED
    BY <1>8, <2>2 DEF LlmAsks, Moves, Step, turnRows
<1>9. ASSUME NEW w \in Worker, NEW kind \in Kind, DirectAsks(w, kind)
      PROVE  TurnTypeOK'
  <2>1. attempt[w] \in Nat /\ 0 \in Iter
    BY <1>9, <1>t DEF DirectAsks, Iter
  <2>2. {[by |-> attempt[w], iter |-> 0, kind |-> kind]} \in SUBSET Call
    BY <2>1 DEF Call
  <2>3. QED
    BY <1>9, <2>2 DEF DirectAsks, Moves, Step, turnRows
<1>10. ASSUME NEW w \in Worker, PersistRequest(w)
       PROVE  TurnTypeOK'
  <2>1. held[w] \in Message /\ step[w] = "persist"
    BY <1>10, <1>t DEF PersistRequest, Moves
  <2>2. iter[w] \in Iter
    BY <2>1 DEF TurnInv, WorkerInv, Iter
  <2>3. requests' \in [Message -> [Iter -> SUBSET Call]]
    BY <1>10, <2>1, <2>2 DEF PersistRequest
  <2>4. QED
    BY <1>10, <2>3 DEF PersistRequest, Moves, Step
<1>11. ASSUME NEW w \in Worker, NEW c \in ran[w], RecordResult(w, c)
       PROVE  TurnTypeOK'
  <2>1. held[w] \in Message /\ c \in Call /\ step[w] = "run"
    BY <1>11, <1>t DEF RecordResult
  <2>2. iter[w] + 1 \in 0..MaxIter
    BY <2>1 DEF TurnInv, WorkerInv
  <2>3. step' \in [Worker -> Step] /\ iter' \in [Worker -> 0..MaxIter]
    <3>1. step' \in [Worker -> Step]
      BY <1>11 DEF RecordResult, Resume, Step
    <3>2. iter' \in [Worker -> 0..MaxIter]
      BY <1>11, <2>2 DEF RecordResult
    <3>3. QED
      BY <3>1, <3>2
  <2>4. QED
    BY <1>11, <2>1, <2>3 DEF RecordResult
<1>12. ASSUME NEW w \in Worker, CheckCompletion(w)
       PROVE  TurnTypeOK'
  BY <1>12 DEF CheckCompletion, CheckAnswer, CompleteFinal, CompleteDirect, Moves, Step, turnRows
<1>13. ASSUME NEW w \in Worker, InsertReply(w)
       PROVE  TurnTypeOK'
  <2>1. held[w] \in Message /\ attempt[w] \in Nat
    BY <1>13, <1>t DEF InsertReply, Moves
  <2>2. reply' \in [Message -> Nat] /\ reply'[held[w]] \in Nat
    BY <1>13, <2>1 DEF InsertReply
  <2>3. QED
    BY <1>13, <2>2 DEF InsertReply, Moves, Step
<1>14. ASSUME NEW w \in Worker, Finish(w)
       PROVE  TurnTypeOK'
  <2>1. published' \in [Message -> SUBSET Nat]
    <3>1. UNCHANGED published \/ published' = [published EXCEPT ![held[w]] = @ \cup {answer[w]}]
      BY <1>14 DEF Finish
    <3>2. held[w] \in Message /\ published[held[w]] \cup {answer[w]} \in SUBSET Nat
      BY <1>14, <1>t DEF Finish
    <3> HIDE <1>14
    <3> QED BY <3>1, <3>2
  <2>2. UNCHANGED <<requests, results, reply, effects, vetted>> /\ LeaveTry(w)
    BY <1>14 DEF Finish
  <2>3. QED
    BY <2>1, <2>2, LeaveTryType
<1>15. ASSUME NEW w \in Worker, Block(w) \/ Lost(w) \/ Fail(w) \/ Die(w)
       PROVE  TurnTypeOK'
  BY <1>15, LeaveTryType DEF Block, Lost, Fail, Die, turnRows
<1>16. ASSUME NEW m \in Message, VetMessage(m) \/ \E c \in Requested(m) : ResolveToolCall(m, c)
       PROVE  TurnTypeOK'
  <2>1. results' \in [Message -> SUBSET Call]
    <3>1. ASSUME NEW c \in Requested(m), ResolveToolCall(m, c)
          PROVE  results' \in [Message -> SUBSET Call]
      <4>1. c \in Call
        BY DEF Requested
      <4>2. results[m] \cup {c} \in SUBSET Call /\ results' = [results EXCEPT ![m] = @ \cup {c}]
        BY <3>1, <4>1 DEF ResolveToolCall
      <4> QED BY <4>2
    <3> QED BY <1>16, <3>1 DEF VetMessage
  <2>2. vetted' \subseteq Message
    BY <1>16 DEF VetMessage, ResolveToolCall
  <2>3. UNCHANGED <<requests, reply, effects, published, step, iter, todo, ran, answer>>
    BY <1>16 DEF VetMessage, ResolveToolCall, turnMemory
  <2>4. QED
    BY <2>1, <2>2, <2>3
<1>17. QED
  BY <1>1, <1>2, <1>3, <1>4, <1>5, <1>6, <1>7, <1>8, <1>9, <1>10, <1>11, <1>12, <1>13,
     <1>14, <1>15, <1>16 DEF TurnNext, TurnStep

-----------------------------------------------------------------------------
(* Frames: what a step leaves alone. *)

\* A step that does not move worker v in its turn.
SamePlace(v) ==
  /\ step'[v] = step[v] /\ iter'[v] = iter[v]
  /\ todo'[v] = todo[v] /\ ran'[v] = ran[v] /\ answer'[v] = answer[v]
  /\ phase'[v] = "working" <=> phase[v] = "working"
  /\ phase'[v] = "completing" <=> phase[v] = "completing"
  /\ step[v] # "off" => held'[v] = held[v] /\ attempt'[v] = attempt[v]

\* A step that only adds to message m's rows, and no effect of attempt a.
RowsGrow(m, a) ==
  /\ results[m] \subseteq results'[m]
  /\ reply[m] # 0 \/ m \in Direct => reply'[m] = reply[m]
  /\ \A p \in Range(effects'[m]) \ Range(effects[m]) : p.by # a

LEMMA Bystander ==
  ASSUME NEW v \in Worker, WorkerInv(v), SamePlace(v),
         step[v] # "off" => RowsGrow(held[v], attempt[v])
  PROVE  WorkerInv(v)'
BY DEF WorkerInv, SamePlace, RowsGrow

LEMMA RowFrame ==
  ASSUME NEW m \in Message, RowInv(m), TurnTypeOK,
         results[m] \subseteq results'[m],
         reply'[m] = reply[m] \/ (m \notin Direct /\ reply'[m] # 0),
         effects'[m] = effects[m],
         attempts'[m] \in Nat, attempts[m] <= attempts'[m],
         status'[m] = "done" => status[m] = "done"
  PROVE  RowInv(m)'
<1>1. \A p \in Range(effects[m]) : p.by \in Nat /\ attempts[m] \in Nat
  BY EffectsAreCalls DEF TurnTypeOK, QueueTypeOK
<1>2. QED
  BY <1>1 DEF RowInv

\* attempt_count never decreases, and only markMessageDone completes a row.
LEMMA QueueFrame ==
  ASSUME QueueInv, [QueueNext]_queueVars, NEW m \in Message
  PROVE  /\ attempts'[m] \in Nat /\ attempts[m] <= attempts'[m]
         /\ status'[m] = "done" =>
              \/ status[m] = "done"
              \/ \E w \in Worker : MarkMessageDone(w) /\ held[w] = m
<1> USE DEF QueueInv, QueueTypeOK, RowShape, OnTurn, TurnPhase
<1>1. CASE UNCHANGED queueVars
  BY <1>1 DEF queueVars
<1>2. ASSUME NEW n \in Message,
             InsertUserMessage(n) \/ LeaseExpires(n) \/ RequeueMessageForRetry(n)
      PROVE  UNCHANGED attempts /\ (status'[m] = "done" => status[m] = "done")
  BY <1>2 DEF InsertUserMessage, LeaseExpires, RequeueMessageForRetry
<1>3. ASSUME NEW w \in Worker, NEW n \in Message, ClaimPendingMessage(w, n)
      PROVE  /\ attempts'[m] \in Nat /\ attempts[m] <= attempts'[m]
             /\ status'[m] = "done" => status[m] = "done"
  BY <1>3 DEF ClaimPendingMessage
<1>4. ASSUME NEW w \in Worker, MarkMessageDone(w) \/ MarkMessageFailed(w)
      PROVE  /\ UNCHANGED attempts
             /\ status'[m] = "done" =>
                  status[m] = "done" \/ (MarkMessageDone(w) /\ held[w] = m)
  BY <1>4 DEF MarkMessageDone, MarkMessageFailed
<1>5. ASSUME NEW w \in Worker,
             \/ SweepExhaustedLeases(w) \/ ClaimSnapshot(w) \/ ClaimNothing(w)
             \/ LeaseLost(w) \/ Throw(w) \/ RenewLease(w) \/ Crash(w) \/ Restart(w)
             \/ PassFinalCheck(w) \/ PassBlockedCheck(w) \/ PassCatchCheck(w)
      PROVE  UNCHANGED attempts /\ (status'[m] = "done" => status[m] = "done")
  BY <1>5 DEF SweepExhaustedLeases, ClaimSnapshot, ClaimNothing, LeaseLost, Throw, RenewLease,
              Crash, Restart, PassFinalCheck, PassBlockedCheck, PassCatchCheck, PassCheck, rowVars
<1>6. QED
  BY <1>1, <1>2, <1>3, <1>4, <1>5 DEF QueueNext, WorkerStep

\* A mutating call runs only in the loop, and carries its runner's attempt.
LEMMA NewEffects ==
  ASSUME TurnInv, NEW w \in Worker, NEW c \in todo[w], ResolveCall(w, c) \/ RunCall(w, c)
  PROVE  \/ UNCHANGED effects
         \/ /\ step[w] = "run" /\ c.by = attempt[w] /\ c.iter = iter[w] /\ c \in Call
            /\ held[w] \in Message /\ attempt[w] \in Nat /\ iter[w] \in Nat
            /\ effects' = [effects EXCEPT ![held[w]] = Append(@, c)]
            /\ Range(effects'[held[w]]) = Range(effects[held[w]]) \cup {c}
<1>1. WorkerInv(w) /\ TurnTypeOK /\ QueueTypeOK /\ RowShape
  BY DEF TurnInv, QueueInv
<1>2. CASE ResolveCall(w, c)
  BY <1>1, <1>2 DEF ResolveCall, TakeEffect, WorkerInv, Moves
<1>3. CASE RunCall(w, c)
  <2>1. step[w] = "run" /\ TakeEffect(w, c) /\ c \in Call
    BY <1>1, <1>3 DEF RunCall, Moves, TurnTypeOK
  <2>2. held[w] \in Message /\ attempt[w] \in Nat /\ iter[w] \in Nat
    BY <1>1, <2>1 DEF WorkerInv, QueueTypeOK, TurnTypeOK, RowShape, OnTurn, TurnPhase
  <2>3. effects[held[w]] \in Seq(Call)
    BY <1>1, <2>2 DEF TurnTypeOK
  <2>4. PICK x : x = Append(effects[held[w]], c) /\ Range(x) = Range(effects[held[w]]) \cup {c}
    <3>1. Range(Append(effects[held[w]], c)) = Range(effects[held[w]]) \cup {c}
      BY <2>1, <2>3, OneMore
    <3> QED BY <3>1
  <2>5. effects' = [effects EXCEPT ![held[w]] = Append(@, c)]
          => Range(effects'[held[w]]) = Range(effects[held[w]]) \cup {c}
    BY <1>1, <2>2, <2>4 DEF TurnTypeOK
  <2>6. QED
    BY <1>1, <2>1, <2>2, <2>5 DEF TakeEffect, WorkerInv
<1>4. QED
  BY <1>2, <1>3

\* What a step of worker w does to the rows that another worker's turn reads.
LEMMA RowsOfOthers ==
  ASSUME TurnInv, NEW w \in Worker, TurnStep(w) \/ Die(w),
         NEW v \in Worker \ {w}, step[v] # "off"
  PROVE  RowsGrow(held[v], attempt[v])
<1>1. WorkerInv(w) /\ WorkerInv(v) /\ TurnTypeOK /\ QueueTypeOK /\ RowShape /\ FencedOwnership
  BY DEF TurnInv, QueueInv
<1>2. held[v] \in Message /\ OnTurn(v)
  BY <1>1 DEF WorkerInv, QueueTypeOK, RowShape, OnTurn, TurnPhase
<1>3. CASE UNCHANGED <<results, reply, effects>>
  BY <1>3 DEF RowsGrow
<1>4. ASSUME NEW c \in todo[w], ResolveCall(w, c) \/ RunCall(w, c)
      PROVE  RowsGrow(held[v], attempt[v])
  <2>1. results[held[v]] \subseteq results'[held[v]] /\ UNCHANGED reply
    <3>1. UNCHANGED reply
      BY <1>4 DEF ResolveCall, RunCall
    <3>2. UNCHANGED results \/ results' = [results EXCEPT ![held[w]] = @ \cup {c}]
      BY <1>4 DEF ResolveCall, RunCall
    <3>3. DOMAIN results = Message
      BY <1>1 DEF TurnTypeOK
    <3>4. QED
      BY <1>2, <3>1, <3>2, <3>3
  <2>2. \A p \in Range(effects'[held[v]]) \ Range(effects[held[v]]) : p.by # attempt[v]
    <3>1. CASE UNCHANGED effects
      BY <3>1
    <3>2. CASE /\ step[w] = "run" /\ c.by = attempt[w]
               /\ effects' = [effects EXCEPT ![held[w]] = Append(@, c)]
               /\ Range(effects'[held[w]]) = Range(effects[held[w]]) \cup {c}
      <4>1. OnTurn(w)
        BY <3>2, <1>1 DEF WorkerInv, OnTurn, TurnPhase
      <4>2. held[v] = held[w] => attempt[v] # attempt[w]
        BY <1>1, <1>2, <4>1 DEF FencedOwnership
      <4>3. QED
        BY <3>2, <4>2, <1>1, <1>2 DEF TurnTypeOK
    <3>3. QED
      BY <1>4, <3>1, <3>2, NewEffects
  <2>3. QED
    BY <2>1, <2>2 DEF RowsGrow
<1>5. ASSUME NEW c \in ran[w], RecordResult(w, c)
      PROVE  RowsGrow(held[v], attempt[v])
  BY <1>1, <1>2, <1>5 DEF RecordResult, RowsGrow, TurnTypeOK
<1>6. CASE InsertReply(w)
  BY <1>1, <1>2, <1>6 DEF InsertReply, Moves, RowsGrow, TurnTypeOK, WorkerInv
<1>7. QED
  <2>1. CASE Poll(w) \/ Recover(w) \/ Die(w) \/ Block(w) \/ Lost(w) \/ Fail(w) \/ Finish(w)
    BY <2>1, <1>3 DEF Poll, Recover, Die, Block, Lost, Fail, Finish, turnVars, turnRows
  <2>2. CASE \/ (\E m \in Message : Claim(w, m)) \/ AlreadyFinal(w) \/ FreshTurn(w)
             \/ BlockedMutation(w) \/ ResumeTurn(w) \/ LlmAnswers(w) \/ CheckCompletion(w)
    BY <2>2, <1>3 DEF Claim, AlreadyFinal, FreshTurn, BlockedMutation, ResumeTurn, LlmAnswers,
                      CheckCompletion, turnRows
  <2>3. CASE \/ (\E kinds \in (SUBSET Kind) \ {{}} : LlmAsks(w, kinds))
             \/ (\E kind \in Kind : DirectAsks(w, kind))
             \/ CheckRequest(w) \/ PersistRequest(w) \/ CheckRun(w)
    BY <2>3, <1>3 DEF LlmAsks, DirectAsks, CheckRequest, PersistRequest, CheckRun, turnRows
  <2>4. QED
    BY <2>1, <2>2, <2>3, <1>4, <1>5, <1>6 DEF TurnStep

\* A step of worker w moves no other worker.
LEMMA PlaceOfOthers ==
  ASSUME TurnInv, NEW w \in Worker, TurnStep(w) \/ Die(w), NEW v \in Worker \ {w}
  PROVE  SamePlace(v)
<1>1. TurnTypeOK /\ QueueTypeOK
  BY DEF TurnInv, QueueInv
<1> USE <1>1 DEF TurnTypeOK, QueueTypeOK, SamePlace
<1>2. CASE Poll(w)
  BY <1>2 DEF Poll, SweepExhaustedLeases, ClaimSnapshot, ClaimNothing, turnVars, rowVars
<1>3. ASSUME NEW m \in Message, Claim(w, m)
      PROVE  SamePlace(v)
  BY <1>3 DEF Claim, ClaimPendingMessage, Moves, turnRows
<1>4. CASE AlreadyFinal(w) \/ FreshTurn(w) \/ BlockedMutation(w) \/ LlmAnswers(w)
  BY <1>4 DEF AlreadyFinal, FreshTurn, BlockedMutation, LlmAnswers, Moves, queueVars
<1>5. CASE ResumeTurn(w)
  BY <1>5 DEF ResumeTurn, Moves, queueVars
<1>6. ASSUME NEW c \in todo[w], ResolveCall(w, c) \/ RunCall(w, c)
      PROVE  SamePlace(v)
  BY <1>6 DEF ResolveCall, RunCall, Moves, queueVars
<1>7. ASSUME NEW kinds \in SUBSET Kind, LlmAsks(w, kinds)
      PROVE  SamePlace(v)
  BY <1>7 DEF LlmAsks, Moves, queueVars
<1>8. ASSUME NEW kind \in Kind, DirectAsks(w, kind)
      PROVE  SamePlace(v)
  BY <1>8 DEF DirectAsks, Moves, queueVars
<1>9. CASE CheckRequest(w) \/ PersistRequest(w) \/ CheckRun(w)
  BY <1>9 DEF CheckRequest, PersistRequest, CheckRun, Moves, queueVars
<1>10. ASSUME NEW c \in ran[w], RecordResult(w, c)
       PROVE  SamePlace(v)
  BY <1>10 DEF RecordResult, queueVars
<1>11. CASE CheckCompletion(w)
  BY <1>11 DEF CheckCompletion, CheckAnswer, CompleteFinal, CompleteDirect, PassFinalCheck,
               PassCheck, Moves
<1>12. CASE InsertReply(w)
  BY <1>12 DEF InsertReply, Moves, queueVars
<1>13. CASE Finish(w)
  BY <1>13 DEF Finish, MarkMessageDone, LeaveTurn, LeaveTry
<1>14. CASE Block(w) \/ Fail(w)
  BY <1>14 DEF Block, PassBlockedCheck, PassCheck, Fail, Throw, LeaveTry
<1>15. CASE Lost(w) \/ Die(w)
  BY <1>15 DEF Lost, LeaseLost, Die, Crash, LeaveTurn, LeaveTry
<1>16. CASE Recover(w)
  BY <1>16 DEF Recover, PassCatchCheck, PassCheck, MarkMessageFailed, LeaveTurn, turnVars
<1>17. QED
  BY <1>2, <1>3, <1>4, <1>5, <1>6, <1>7, <1>8, <1>9, <1>10, <1>11, <1>12, <1>13, <1>14,
     <1>15, <1>16 DEF TurnStep

\* Outside the try block nothing is left to keep.
LEMMA OffPlace ==
  ASSUME NEW w \in Worker, TurnTypeOK, QueueTypeOK, LeaveTry(w),
         phase'[w] \notin {"working", "completing"}
  PROVE  WorkerInv(w)'
BY DEF WorkerInv, LeaveTry, TurnTypeOK

\* A claim gives its worker a number that no call carries yet.
LEMMA OwnClaim ==
  ASSUME TurnInv, NEW w \in Worker, NEW m \in Message, Claim(w, m)
  PROVE  WorkerInv(w)'
<1>1. TurnTypeOK /\ QueueTypeOK /\ RowInv(m) /\ WorkerInv(w)
  BY DEF TurnInv, QueueInv
<1>2. /\ step'[w] = "reconcile" /\ phase'[w] = "working" /\ held'[w] = m
      /\ attempt'[w] = attempts[m] + 1 /\ UNCHANGED <<effects, iter, todo, answer>>
      /\ step[w] = "off"
  BY <1>1 DEF Claim, ClaimPendingMessage, Moves, TurnTypeOK, QueueTypeOK, turnRows
<1>3. \A p \in Range(effects[m]) : p.by # attempt'[w]
  <2>1. \A p \in Range(effects[m]) : p.by \in Nat /\ attempts[m] \in Nat /\ p.by <= attempts[m]
    BY <1>1, EffectsAreCalls DEF RowInv, QueueTypeOK
  <2>2. QED
    BY <2>1, <1>2
<1>4. QED
  BY <1>1, <1>2, <1>3 DEF WorkerInv

LEMMA OwnReconcile ==
  ASSUME TurnInv, NEW w \in Worker,
         AlreadyFinal(w) \/ FreshTurn(w) \/ BlockedMutation(w) \/ ResumeTurn(w)
  PROVE  WorkerInv(w)'
<1>1. /\ TurnTypeOK /\ QueueTypeOK /\ WorkerInv(w) /\ step[w] = "reconcile"
      /\ UNCHANGED <<queueVars, turnRows>>
  BY DEF TurnInv, QueueInv, AlreadyFinal, FreshTurn, BlockedMutation, ResumeTurn
<1>2. phase[w] = "working" /\ iter[w] = 0 /\ answer[w] = 0 /\ held[w] \in Message
  BY <1>1 DEF WorkerInv, TurnInv, QueueInv, QueueTypeOK, RowShape, OnTurn, TurnPhase
<1>3. \A p \in Range(effects[held[w]]) : p.by # attempt[w]
  <2>1. \A p \in Range(effects[held[w]]) : p.iter \in Nat
    BY <1>1, <1>2, EffectsAreCalls
  <2>2. QED
    BY <1>1, <1>2, <2>1 DEF WorkerInv
<1> USE <1>1, <1>2, <1>3 DEF WorkerInv, Moves, TurnTypeOK, queueVars, turnRows
<1>4. CASE AlreadyFinal(w)
  BY <1>4 DEF AlreadyFinal
<1>5. CASE FreshTurn(w)
  BY <1>5 DEF FreshTurn
<1>6. CASE BlockedMutation(w)
  BY <1>6 DEF BlockedMutation
<1>7. CASE ResumeTurn(w)
  <2> DEFINE m == held[w]
  <2>1. \A c \in Pending(m) : c.kind # "mutating"
    BY <1>7 DEF ResumeTurn, Mutating
  <2>2. Requested(m) # {}
    BY <1>7 DEF ResumeTurn
  <2>3. requests[m][LastIter(m)] # {}
    BY <2>2, LastIterExists
  <2>4. Pending(m) = {} => results[m] # {}
    BY <2>3 DEF Pending
  <2>5. CASE Pending(m) = {}
    BY <1>7, <2>4, <2>5 DEF ResumeTurn, Resume
  <2>6. CASE Pending(m) # {}
    BY <1>7, <2>1, <2>6 DEF ResumeTurn
  <2>7. QED
    BY <2>5, <2>6
<1>8. QED
  BY <1>4, <1>5, <1>6, <1>7

\* A run call's effect is behind the worker: the call has left todo.
LEMMA OwnCall ==
  ASSUME TurnInv, NEW w \in Worker, NEW c \in todo[w], ResolveCall(w, c) \/ RunCall(w, c)
  PROVE  WorkerInv(w)'
<1>1. TurnTypeOK /\ QueueTypeOK /\ WorkerInv(w)
  BY DEF TurnInv, QueueInv
<1>2. phase[w] = "working" /\ held[w] \in Message /\ step[w] \in {"resolve", "run"}
  BY <1>1 DEF ResolveCall, RunCall, Moves, WorkerInv, TurnInv, QueueInv, QueueTypeOK, RowShape,
              OnTurn, TurnPhase
<1>3. CASE ResolveCall(w, c)
  <2>1. UNCHANGED effects
    BY <1>1, <1>3 DEF ResolveCall, TakeEffect, WorkerInv, Moves
  <2>2. results'[held[w]] # {}
    BY <1>1, <1>2, <1>3 DEF ResolveCall, TurnTypeOK
  <2>3. todo'[w] \subseteq todo[w] /\ step[w] = "resolve"
    BY <1>1, <1>3 DEF ResolveCall, Moves, TurnTypeOK
  <2>4. step'[w] = "resolve" \/ step'[w] = Resume(held[w])
    BY <1>1, <1>3 DEF ResolveCall, Moves, TurnTypeOK
  <2>5. QED
    BY <1>1, <1>2, <1>3, <2>1, <2>2, <2>3, <2>4 DEF ResolveCall, WorkerInv, Resume, TurnTypeOK, queueVars
<1>4. CASE RunCall(w, c)
  <2>1. /\ step[w] = "run" /\ todo'[w] = todo[w] \ {c}
        /\ step'[w] = (IF held[w] \in Direct THEN "checkRun" ELSE "run")
        /\ UNCHANGED <<queueVars, reply, results, iter, answer>>
    BY <1>1, <1>4 DEF RunCall, Moves, TurnTypeOK
  <2>2. \A p \in Range(effects'[held[w]]) : p \in Range(effects[held[w]]) \/ p = c
    <3>1. UNCHANGED effects \/ Range(effects'[held[w]]) = Range(effects[held[w]]) \cup {c}
      BY <1>4, NewEffects
    <3> QED BY <3>1
  <2>3. c.by = attempt[w] /\ c.iter = iter[w]
    BY <1>1, <2>1 DEF WorkerInv
  <2>4. \A p \in Range(effects'[held[w]]) : p.by = attempt[w] =>
          p.iter < iter[w] \/ (p.iter = iter[w] /\ p \notin todo'[w])
    BY <1>1, <2>1, <2>2, <2>3 DEF WorkerInv
  <2>5. QED
    BY <1>1, <1>2, <2>1, <2>4 DEF WorkerInv, queueVars
<1>5. QED
  BY <1>3, <1>4

LEMMA OwnAsk ==
  ASSUME TurnInv, NEW w \in Worker,
         \/ \E kinds \in SUBSET Kind : LlmAsks(w, kinds)
         \/ \E kind \in Kind : DirectAsks(w, kind)
         \/ LlmAnswers(w) \/ CheckRequest(w) \/ PersistRequest(w) \/ CheckRun(w)
  PROVE  WorkerInv(w)'
<1>1. TurnTypeOK /\ QueueTypeOK /\ WorkerInv(w)
  BY DEF TurnInv, QueueInv
<1>2. /\ phase[w] = "working" /\ held[w] \in Message
      /\ step[w] \in {"llm", "direct", "request", "persist", "checkRun"}
      /\ UNCHANGED <<queueVars, results, reply, effects, iter, answer>>
  BY <1>1 DEF LlmAsks, DirectAsks, LlmAnswers, CheckRequest, PersistRequest, CheckRun, Moves,
              WorkerInv, TurnInv, QueueInv, QueueTypeOK, RowShape, OnTurn, TurnPhase, turnRows
<1>3. \A p \in Range(effects[held[w]]) : p.iter \in Nat
  BY <1>1, <1>2, EffectsAreCalls
<1> USE <1>1, <1>2, <1>3, WorkerTurnAssumption DEF WorkerInv, Moves, TurnTypeOK, queueVars
<1>4. ASSUME NEW kinds \in SUBSET Kind, LlmAsks(w, kinds)
      PROVE  WorkerInv(w)'
  BY <1>4 DEF LlmAsks
<1>5. ASSUME NEW kind \in Kind, DirectAsks(w, kind)
      PROVE  WorkerInv(w)'
  BY <1>5 DEF DirectAsks
<1>6. CASE LlmAnswers(w)
  BY <1>6 DEF LlmAnswers
<1>7. CASE CheckRequest(w) \/ PersistRequest(w)
  BY <1>7 DEF CheckRequest, PersistRequest
<1>8. CASE CheckRun(w)
  BY <1>8 DEF CheckRun
<1>9. QED
  BY <1>4, <1>5, <1>6, <1>7, <1>8

LEMMA OwnRecord ==
  ASSUME TurnInv, NEW w \in Worker, NEW c \in ran[w], RecordResult(w, c)
  PROVE  WorkerInv(w)'
<1>1. /\ TurnTypeOK /\ QueueTypeOK /\ WorkerInv(w) /\ step[w] = "run"
      /\ UNCHANGED <<queueVars, reply, effects, todo, answer>>
  BY DEF TurnInv, QueueInv, RecordResult
<1>2. phase[w] = "working" /\ held[w] \in Message
  BY <1>1 DEF WorkerInv, TurnInv, QueueInv, QueueTypeOK, RowShape, OnTurn, TurnPhase
<1>3. results'[held[w]] # {}
  BY <1>1, <1>2 DEF RecordResult, TurnTypeOK
<1>4. \A p \in Range(effects[held[w]]) : p.iter \in Nat /\ iter[w] \in Nat
  BY <1>1, <1>2, EffectsAreCalls DEF TurnTypeOK
<1>5. \/ step'[w] = Resume(held[w]) /\ iter'[w] = iter[w] + 1
      \/ step'[w] = "run" /\ iter'[w] = iter[w]
  BY <1>1 DEF RecordResult, TurnTypeOK
<1>6. CASE step'[w] = Resume(held[w]) /\ iter'[w] = iter[w] + 1
  BY <1>1, <1>2, <1>3, <1>4, <1>6 DEF WorkerInv, Resume, queueVars
<1>7. CASE step'[w] = "run" /\ iter'[w] = iter[w]
  BY <1>1, <1>2, <1>7 DEF WorkerInv, queueVars
<1>8. QED
  BY <1>5, <1>6, <1>7

LEMMA OwnComplete ==
  ASSUME TurnInv, NEW w \in Worker, CheckCompletion(w) \/ InsertReply(w)
  PROVE  WorkerInv(w)'
<1>1. TurnTypeOK /\ QueueTypeOK /\ WorkerInv(w)
  BY DEF TurnInv, QueueInv
<1>2. held[w] \in Message /\ (phase[w] = "completing" => attempt[w] \in Nat)
  BY <1>1 DEF CheckCompletion, CheckAnswer, CompleteFinal, CompleteDirect, InsertReply, Moves,
              WorkerInv, TurnInv, QueueInv, QueueTypeOK, RowShape, OnTurn, TurnPhase
<1>3. CASE CheckCompletion(w)
  <2>1. reply[held[w]] # 0 => held[w] \notin Direct
    BY <1>2 DEF TurnInv, RowInv
  <2>2. phase'[w] = "completing" /\ phase[w] = "working"
    BY <1>1, <1>3 DEF CheckCompletion, CheckAnswer, CompleteFinal, CompleteDirect, PassFinalCheck,
                      PassCheck, QueueTypeOK
  <2>3. UNCHANGED <<held, attempt, turnRows, iter, todo, answer>>
    BY <1>3 DEF CheckCompletion, CheckAnswer, CompleteFinal, CompleteDirect, PassFinalCheck, PassCheck
  <2> USE <1>1, <1>2, <2>1, <2>2, <2>3 DEF Moves, WorkerInv, TurnTypeOK, turnRows
  <2>4. CASE CheckAnswer(w)
    BY <2>4 DEF CheckAnswer
  <2>5. CASE CompleteFinal(w)
    BY <2>5 DEF CompleteFinal
  <2>6. CASE CompleteDirect(w)
    BY <2>6 DEF CompleteDirect
  <2>7. QED
    BY <1>3, <2>4, <2>5, <2>6 DEF CheckCompletion
<1>4. CASE InsertReply(w)
  <2>1. attempt[w] # 0
    BY <1>1, <1>4 DEF InsertReply, Moves, WorkerInv, TurnInv, QueueInv, AttemptOrder, OnTurn, TurnPhase
  <2>2. QED
    BY <1>1, <1>2, <1>4, <2>1 DEF InsertReply, Moves, WorkerInv, TurnTypeOK, queueVars
<1>5. QED
  BY <1>3, <1>4

LEMMA OwnLeave ==
  ASSUME TurnInv, NEW w \in Worker,
         Finish(w) \/ Block(w) \/ Lost(w) \/ Fail(w) \/ Die(w) \/ Recover(w) \/ Poll(w)
  PROVE  WorkerInv(w)'
<1>1. TurnTypeOK /\ QueueTypeOK /\ WorkerInv(w)
  BY DEF TurnInv, QueueInv
<1>2. CASE Finish(w)
  <2>1. LeaveTry(w) /\ phase'[w] = "idle"
    BY <1>1, <1>2 DEF Finish, MarkMessageDone, LeaveTurn, QueueTypeOK
  <2>2. QED
    BY <1>1, <2>1, OffPlace
<1>3. CASE Block(w) \/ Fail(w)
  <2>1. LeaveTry(w) /\ phase'[w] \in {"blocking", "catching"}
    BY <1>1, <1>3 DEF Block, PassBlockedCheck, PassCheck, Fail, Throw, QueueTypeOK
  <2>2. QED
    BY <1>1, <2>1, OffPlace
<1>4. CASE Lost(w) \/ Die(w)
  <2>1. LeaveTry(w) /\ phase'[w] \in {"idle", "down"}
    BY <1>1, <1>4 DEF Lost, LeaseLost, Die, Crash, LeaveTurn, QueueTypeOK
  <2>2. QED
    BY <1>1, <2>1, OffPlace
<1>5. CASE Recover(w) \/ Poll(w)
  <2>1. /\ phase[w] \notin {"working", "completing"} /\ phase'[w] \notin {"working", "completing"}
        /\ UNCHANGED turnVars
    BY <1>1, <1>5 DEF Recover, PassCatchCheck, PassCheck, MarkMessageFailed, LeaveTurn, Poll,
                      SweepExhaustedLeases, ClaimSnapshot, ClaimNothing, QueueTypeOK
  <2>2. step[w] = "off"
    BY <1>1, <2>1 DEF WorkerInv
  <2>3. QED
    BY <1>1, <2>1, <2>2 DEF WorkerInv, turnVars
<1>6. QED
  BY <1>2, <1>3, <1>4, <1>5

\* Each worker's place, over the steps of every worker and of the rest.
LEMMA WorkerInvStep ==
  ASSUME TurnInv, [TurnNext]_vars, NEW v \in Worker
  PROVE  WorkerInv(v)'
<1>1. WorkerInv(v) /\ TurnTypeOK /\ QueueTypeOK /\ RowShape
  BY DEF TurnInv, QueueInv
<1>2. ASSUME UNCHANGED <<step, iter, todo, ran, answer, reply, effects>>,
             results' = results \/ (step[v] # "off" => results[held[v]] \subseteq results'[held[v]]),
             \/ UNCHANGED workerVars
             \/ \E w \in Worker : Restart(w)
      PROVE  WorkerInv(v)'
  <2>1. SamePlace(v)
    BY <1>1, <1>2 DEF SamePlace, workerVars, Restart, QueueTypeOK
  <2>2. step[v] # "off" => RowsGrow(held[v], attempt[v])
    BY <1>2 DEF RowsGrow
  <2>3. QED
    BY <1>1, <2>1, <2>2, Bystander
<1>3. CASE UNCHANGED vars \/ QueueOnly
  BY <1>2, <1>3 DEF vars, queueVars, turnVars, workerVars, QueueOnly, InsertUserMessage,
                    LeaseExpires, RequeueMessageForRetry, RenewLease
<1>4. ASSUME NEW w \in Worker \ {v}, TurnStep(w) \/ Die(w)
      PROVE  WorkerInv(v)'
  BY <1>1, <1>4, PlaceOfOthers, RowsOfOthers, Bystander
<1>5. CASE TurnStep(v) \/ Die(v)
  BY <1>5, OwnClaim, OwnReconcile, OwnCall, OwnAsk, OwnRecord, OwnComplete, OwnLeave DEF TurnStep
<1>6. ASSUME NEW m \in Message, VetMessage(m) \/ \E c \in Requested(m) : ResolveToolCall(m, c)
      PROVE  WorkerInv(v)'
  <2>1. \A n \in Message : results[n] \subseteq results'[n]
    BY <1>1, <1>6 DEF VetMessage, ResolveToolCall, TurnTypeOK
  <2>2. step[v] # "off" => held[v] \in Message
    BY <1>1 DEF WorkerInv, QueueTypeOK, RowShape, OnTurn, TurnPhase
  <2>3. QED
    BY <1>2, <1>6, <2>1, <2>2 DEF VetMessage, ResolveToolCall, turnMemory, queueVars, workerVars
<1>7. QED
  BY <1>3, <1>4, <1>5, <1>6 DEF TurnNext

\* Nothing but Finish takes the step of markMessageDone.
LEMMA OnlyFinish ==
  ASSUME TurnInv, [TurnNext]_vars, NEW v \in Worker, MarkMessageDone(v)
  PROVE  Finish(v)
<1>1. WorkerInv(v) /\ TurnTypeOK /\ QueueTypeOK
  BY DEF TurnInv, QueueInv
<1>2. phase[v] = "completing" /\ phase'[v] = "idle" /\ step[v] \in {"insertReply", "markDone"}
  BY <1>1 DEF MarkMessageDone, LeaveTurn, QueueTypeOK, WorkerInv
<1>3. CASE UNCHANGED vars \/ QueueOnly
  BY <1>1, <1>2, <1>3 DEF vars, queueVars, QueueOnly, InsertUserMessage, LeaseExpires,
                          RequeueMessageForRetry, RenewLease, Restart, workerVars, QueueTypeOK
<1>4. ASSUME NEW w \in Worker \ {v}, TurnStep(w) \/ Die(w)
      PROVE  FALSE
  BY <1>2, <1>4, PlaceOfOthers DEF SamePlace
<1>5. CASE Die(v)
  BY <1>1, <1>2, <1>5 DEF Die, Crash, LeaveTurn, QueueTypeOK
<1>6. CASE TurnStep(v)
  <2>1. CASE InsertReply(v)
    BY <1>2, <2>1 DEF InsertReply, queueVars
  <2>2. CASE Fail(v)
    BY <1>1, <1>2, <2>2 DEF Fail, Throw, QueueTypeOK
  <2>3. CASE Poll(v) \/ Lost(v) \/ Recover(v) \/ Block(v)
    BY <1>2, <2>3 DEF Poll, SweepExhaustedLeases, ClaimSnapshot, ClaimNothing, Lost, LeaseLost,
                      Recover, PassCatchCheck, PassCheck, MarkMessageFailed, Block
  <2>4. ~CheckCompletion(v) /\ ~(\E m \in Message : Claim(v, m))
    BY <1>2 DEF CheckCompletion, CheckAnswer, CompleteFinal, CompleteDirect, Moves, Claim
  <2>5. ~(AlreadyFinal(v) \/ FreshTurn(v) \/ BlockedMutation(v) \/ ResumeTurn(v) \/ LlmAnswers(v))
    BY <1>2 DEF AlreadyFinal, FreshTurn, BlockedMutation, ResumeTurn, LlmAnswers, Moves
  <2>6. ~(\E c \in todo[v] : ResolveCall(v, c) \/ RunCall(v, c)) /\ ~(\E c \in ran[v] : RecordResult(v, c))
    BY <1>2 DEF ResolveCall, RunCall, RecordResult, Moves
  <2>7. /\ ~(\E kinds \in (SUBSET Kind) \ {{}} : LlmAsks(v, kinds))
        /\ ~(\E kind \in Kind : DirectAsks(v, kind))
    BY <1>2 DEF LlmAsks, DirectAsks, Moves
  <2>8. ~(CheckRequest(v) \/ PersistRequest(v) \/ CheckRun(v))
    BY <1>2 DEF CheckRequest, PersistRequest, CheckRun, Moves
  <2>9. QED
    BY <1>6, <2>1, <2>2, <2>3, <2>4, <2>5, <2>6, <2>7, <2>8 DEF TurnStep
<1>7. ASSUME NEW m \in Message, VetMessage(m) \/ \E c \in Requested(m) : ResolveToolCall(m, c)
      PROVE  FALSE
  BY <1>2, <1>7 DEF VetMessage, ResolveToolCall, queueVars
<1>8. QED
  BY <1>3, <1>4, <1>5, <1>6, <1>7 DEF TurnNext

\* Each row, over every step: only Finish completes one, and a call that
\* takes effect carries a number no higher than its row's attempt_count.
LEMMA RowInvStep ==
  ASSUME TurnInv, [TurnNext]_vars, NEW m \in Message
  PROVE  RowInv(m)'
<1>1. RowInv(m) /\ TurnTypeOK /\ QueueTypeOK /\ QueueInv /\ RowShape /\ AttemptOrder
  BY DEF TurnInv, QueueInv
<1>2. /\ attempts'[m] \in Nat /\ attempts[m] <= attempts'[m]
      /\ status'[m] = "done" =>
           status[m] = "done" \/ \E w \in Worker : Finish(w) /\ held[w] = m
  BY <1>1, QueueStep, QueueFrame, OnlyFinish
<1>3. CASE \E w \in Worker : Finish(w)
  <2>1. PICK w \in Worker : Finish(w)
    BY <1>3
  <2>2. UNCHANGED <<results, reply, effects, attempts>>
    BY <2>1 DEF Finish, MarkMessageDone
  <2>3. WorkerInv(w) /\ step[w] = "markDone" /\ (status'[m] = "done" => status[m] = "done" \/ held[w] = m)
    BY <1>1, <2>1 DEF TurnInv, Finish, MarkMessageDone, QueueTypeOK
  <2>4. QED
    BY <1>1, <2>2, <2>3 DEF RowInv, WorkerInv
<1>4. ASSUME ~\E w \in Worker : Finish(w),
             results[m] \subseteq results'[m],
             reply'[m] = reply[m] \/ (m \notin Direct /\ reply'[m] # 0),
             effects'[m] = effects[m]
      PROVE  RowInv(m)'
  BY <1>1, <1>2, <1>4, RowFrame
<1>5. CASE (~\E w \in Worker : Finish(w)) /\ UNCHANGED <<results, reply, effects>>
  BY <1>4, <1>5
<1>6. ASSUME NEW w \in Worker, NEW c \in todo[w], ResolveCall(w, c) \/ RunCall(w, c),
             ~\E v \in Worker : Finish(v)
      PROVE  RowInv(m)'
  <2>1. results[m] \subseteq results'[m] /\ UNCHANGED <<reply, attempts, status>>
    <3>1. UNCHANGED <<reply, attempts, status>>
      BY <1>6 DEF ResolveCall, RunCall, queueVars
    <3>2. UNCHANGED results \/ results' = [results EXCEPT ![held[w]] = @ \cup {c}]
      BY <1>6 DEF ResolveCall, RunCall
    <3>3. DOMAIN results = Message
      BY <1>1 DEF TurnTypeOK
    <3>4. QED
      BY <3>1, <3>2, <3>3
  <2>2. CASE effects'[m] = effects[m]
    BY <1>4, <1>6, <2>1, <2>2
  <2>3. CASE effects'[m] # effects[m]
    <3>1. /\ held[w] = m /\ step[w] = "run" /\ c.by = attempt[w]
          /\ Range(effects'[m]) = Range(effects[m]) \cup {c}
      BY <1>1, <1>6, <2>3, NewEffects DEF TurnTypeOK
    <3>2. attempt[w] <= attempts[m]
      BY <1>1, <3>1 DEF AttemptOrder, TurnInv, WorkerInv, OnTurn, TurnPhase
    <3>3. QED
      BY <1>1, <2>1, <3>1, <3>2 DEF RowInv
  <2>4. QED
    BY <2>2, <2>3
<1>7. ASSUME NEW w \in Worker, InsertReply(w), ~\E v \in Worker : Finish(v)
      PROVE  RowInv(m)'
  <2>1. held[w] \in Message \ Direct /\ attempt[w] # 0
    BY <1>1, <1>7 DEF InsertReply, Moves, TurnInv, WorkerInv, AttemptOrder, RowShape, OnTurn, TurnPhase, QueueTypeOK
  <2>2. reply'[m] = reply[m] \/ (m \notin Direct /\ reply'[m] # 0)
    BY <1>1, <1>7, <2>1 DEF InsertReply, TurnTypeOK
  <2>3. QED
    BY <1>4, <1>7, <2>2 DEF InsertReply
<1>8. ASSUME NEW w \in Worker, NEW c \in ran[w], RecordResult(w, c), ~\E v \in Worker : Finish(v)
      PROVE  RowInv(m)'
  BY <1>1, <1>4, <1>8 DEF RecordResult, TurnTypeOK
<1>9. ASSUME NEW n \in Message, VetMessage(n) \/ \E c \in Requested(n) : ResolveToolCall(n, c), ~\E v \in Worker : Finish(v)
      PROVE  RowInv(m)'
  BY <1>1, <1>4, <1>9 DEF VetMessage, ResolveToolCall, TurnTypeOK
<1>10. ASSUME NEW w \in Worker, TurnStep(w) \/ Die(w)
       PROVE  RowInv(m)'
  <2>1. CASE Poll(w) \/ Recover(w) \/ Die(w) \/ Block(w) \/ Lost(w) \/ Fail(w)
    BY <2>1, <1>3, <1>5 DEF Poll, Recover, Die, Block, Lost, Fail, turnVars, turnRows
  <2>2. CASE \/ (\E n \in Message : Claim(w, n)) \/ AlreadyFinal(w) \/ FreshTurn(w)
             \/ BlockedMutation(w) \/ ResumeTurn(w) \/ LlmAnswers(w) \/ CheckCompletion(w)
    BY <2>2, <1>3, <1>5 DEF Claim, AlreadyFinal, FreshTurn, BlockedMutation, ResumeTurn,
                            LlmAnswers, CheckCompletion, turnRows
  <2>3. CASE \/ (\E kinds \in (SUBSET Kind) \ {{}} : LlmAsks(w, kinds))
             \/ (\E kind \in Kind : DirectAsks(w, kind))
             \/ CheckRequest(w) \/ PersistRequest(w) \/ CheckRun(w)
    BY <2>3, <1>3, <1>5 DEF LlmAsks, DirectAsks, CheckRequest, PersistRequest, CheckRun, turnRows
  <2>4. QED
    BY <1>10, <2>1, <2>2, <2>3, <1>3, <1>6, <1>7, <1>8 DEF TurnStep
<1>11. CASE UNCHANGED vars \/ QueueOnly
  BY <1>3, <1>5, <1>11 DEF vars, QueueOnly, turnVars
<1>12. QED
  BY <1>3, <1>9, <1>10, <1>11 DEF TurnNext

LEMMA TurnInvInit == TurnInit => TurnInv
<1> SUFFICES ASSUME TurnInit
             PROVE  TurnInv
  OBVIOUS
<1>1. QueueInv
  BY InvInit DEF TurnInit
<1>2. TurnTypeOK
  BY <1>1 DEF TurnInit, TurnTypeOK, QueueInv, Step
<1>3. ASSUME NEW w \in Worker
      PROVE  WorkerInv(w)
  BY DEF TurnInit, QueueInit, WorkerInv
<1>4. ASSUME NEW m \in Message
      PROVE  RowInv(m)
  BY NoneYet DEF TurnInit, QueueInit, RowInv
<1>5. QED
  BY <1>1, <1>2, <1>3, <1>4 DEF TurnInv

LEMMA TurnInvStep == TurnInv /\ [TurnNext]_vars => TurnInv'
<1> SUFFICES ASSUME TurnInv, [TurnNext]_vars
             PROVE  TurnInv'
  OBVIOUS
<1>1. QueueInv'
  BY QueueStep, InvStep DEF TurnInv
<1>2. TurnTypeOK'
  BY TurnTypeStep
<1>3. \A w \in Worker : WorkerInv(w)'
  BY WorkerInvStep
<1>4. \A m \in Message : RowInv(m)'
  BY RowInvStep
<1>5. QED
  BY <1>1, <1>2, <1>3, <1>4 DEF TurnInv

LEMMA TurnInvHolds == TurnSpec => []TurnInv
BY TurnInvInit, TurnInvStep, PTL DEF TurnSpec

-----------------------------------------------------------------------------
(* Theorems. *)

\* Every value the turn stores or keeps in memory is of its type: in
\* particular a resumed turn's iteration never runs past the loop's bound.
THEOREM TurnTypeCorrect == TurnSpec => []TurnTypeOK
<1>1. TurnInv => TurnTypeOK
  BY DEF TurnInv
<1>2. QED
  BY <1>1, TurnInvHolds, PTL

\* Nothing completes unanswered, however many workers run the turn: the
\* answer is stored before markMessageDone, or was found stored.
THEOREM NothingDoneUnanswered == TurnSpec => []DoneIsAnswered
<1>1. TurnInv => DoneIsAnswered
  BY DEF TurnInv, RowInv, DoneIsAnswered
<1>2. QED
  BY <1>1, TurnInvHolds, PTL

\* A step of a turn is a step of the promise: a call that runs has not run
\* before, a reply is stored where none was, and the event repeats it.
LEMMA PromiseStep == TurnInv /\ [TurnNext]_vars => [Promise!PromiseNext]_Promise!promiseVars
<1> SUFFICES ASSUME TurnInv, [TurnNext]_vars
             PROVE  [Promise!PromiseNext]_Promise!promiseVars
  OBVIOUS
<1>0. TurnTypeOK /\ QueueTypeOK /\ RowShape /\ AttemptOrder
  BY DEF TurnInv, QueueInv
<1>1. CASE UNCHANGED <<reply, published, effects>>
  BY <1>1 DEF Promise!promiseVars
<1>2. ASSUME NEW w \in Worker, NEW c \in todo[w], ResolveCall(w, c) \/ RunCall(w, c),
             ~UNCHANGED <<reply, published, effects>>
      PROVE  \E m \in Message : Promise!TakeEffect(m)
  <2> DEFINE m == held[w]
  <2>1. UNCHANGED <<reply, published>>
    BY <1>2 DEF ResolveCall, RunCall
  <2>2. /\ step[w] = "run" /\ c.by = attempt[w] /\ c.iter = iter[w] /\ iter[w] \in Nat
        /\ m \in Message /\ effects' = [effects EXCEPT ![m] = Append(@, c)] /\ c \in Call
    BY <1>2, <2>1, NewEffects
  <2>3. c \notin Range(effects[m])
    <3>1. WorkerInv(w)
      BY DEF TurnInv
    <3>2. QED
      BY <2>2, <3>1 DEF WorkerInv
  <2>4. effects'[m] # <<>> /\ effects'[m][Len(effects'[m])] = c
    <3>1. effects[m] \in Seq(Call) /\ effects'[m] = Append(effects[m], c)
      BY <1>0, <2>2 DEF TurnTypeOK
    <3>2. Append(effects[m], c) # <<>> /\ Append(effects[m], c)[Len(Append(effects[m], c))] = c
      BY <2>2, <3>1, OneMore
    <3>3. QED
      BY <3>1, <3>2
  <2>5. Promise!TakeEffect(m)
    BY <2>1, <2>2, <2>3, <2>4 DEF Promise!TakeEffect, Promise!Range, Range
  <2>6. QED
    BY <2>2, <2>5
<1>3. ASSUME NEW w \in Worker, InsertReply(w), ~UNCHANGED <<reply, published, effects>>
      PROVE  \E m \in Message : Promise!Store(m)
  <2> DEFINE m == held[w]
  <2>1. m \in Message \ Direct /\ attempt[w] \in Nat \ {0}
    BY <1>0, <1>3 DEF InsertReply, Moves, TurnInv, WorkerInv, AttemptOrder, RowShape, OnTurn,
                      TurnPhase, QueueTypeOK
  <2>2. reply[m] = 0 /\ reply' = [reply EXCEPT ![m] = attempt[w]] /\ UNCHANGED <<published, effects>>
    BY <1>0, <1>3, <2>1 DEF InsertReply, TurnTypeOK
  <2>3. reply'[m] = attempt[w]
    BY <1>0, <2>1, <2>2 DEF TurnTypeOK
  <2>4. Promise!Store(m)
    BY <2>1, <2>2, <2>3 DEF Promise!Store
  <2>5. QED
    BY <2>1, <2>4
<1>4. ASSUME NEW w \in Worker, Finish(w), ~UNCHANGED <<reply, published, effects>>
      PROVE  \E m \in Message : Promise!Tell(m)
  <2> DEFINE m == held[w]
  <2>1. /\ UNCHANGED <<reply, effects>> /\ published' = [published EXCEPT ![m] = @ \cup {answer[w]}]
        /\ step[w] = "markDone"
    BY <1>4 DEF Finish
  <2>2. m \in Message /\ answer[w] = reply[m] /\ (m \in Direct \/ reply[m] # 0)
    BY <1>0, <2>1 DEF TurnInv, WorkerInv, RowShape, OnTurn, TurnPhase, QueueTypeOK
  <2>3. Promise!Tell(m)
    BY <2>1, <2>2 DEF Promise!Tell
  <2>4. QED
    BY <2>2, <2>3
<1>5. ASSUME NEW w \in Worker, TurnStep(w) \/ Die(w)
      PROVE  [Promise!PromiseNext]_Promise!promiseVars
  <2>1. CASE \/ Poll(w) \/ Recover(w) \/ Die(w) \/ Block(w) \/ Lost(w) \/ Fail(w)
             \/ (\E n \in Message : Claim(w, n)) \/ AlreadyFinal(w) \/ FreshTurn(w)
    BY <2>1, <1>1 DEF Poll, Recover, Die, Block, Lost, Fail, Claim, AlreadyFinal, FreshTurn,
                      turnVars, turnRows
  <2>2. CASE \/ BlockedMutation(w) \/ ResumeTurn(w) \/ LlmAnswers(w) \/ CheckCompletion(w)
             \/ (\E kinds \in (SUBSET Kind) \ {{}} : LlmAsks(w, kinds))
             \/ (\E kind \in Kind : DirectAsks(w, kind))
             \/ CheckRequest(w) \/ PersistRequest(w) \/ CheckRun(w)
    BY <2>2, <1>1 DEF BlockedMutation, ResumeTurn, LlmAnswers, CheckCompletion, LlmAsks, DirectAsks,
                      CheckRequest, PersistRequest, CheckRun, turnRows
  <2>3. CASE \E c \in ran[w] : RecordResult(w, c)
    BY <2>3, <1>1 DEF RecordResult
  <2>4. QED
    BY <1>5, <2>1, <2>2, <2>3, <1>1, <1>2, <1>3, <1>4 DEF TurnStep, Promise!PromiseNext
<1>6. ASSUME NEW m \in Message, VetMessage(m) \/ \E c \in Requested(m) : ResolveToolCall(m, c)
      PROVE  [Promise!PromiseNext]_Promise!promiseVars
  BY <1>6, <1>1 DEF VetMessage, ResolveToolCall
<1>7. CASE UNCHANGED vars \/ QueueOnly
  BY <1>7, <1>1 DEF vars, QueueOnly, turnVars
<1>8. QED
  BY <1>5, <1>6, <1>7 DEF TurnNext

\* Whatever crashes, stalls and reclaims happen: one stored answer per turn,
\* the only one ever published, and no call taking effect twice.
THEOREM TurnKeepsPromise == TurnSpec => ImplementsPromise
<1>1. TurnInit => Promise!PromiseInit
  BY DEF TurnInit, Promise!PromiseInit
<1>2. QED
  BY <1>1, TurnInvHolds, PromiseStep, PTL DEF TurnSpec, ImplementsPromise, Promise!PromiseSpec

\* Recovery re-runs no mutating call: the promise adds to a turn's effects
\* one call at a time, none that is there already.
THEOREM MutationsRunOnce == TurnSpec => []MutationAtMostOnce
<1> DEFINE Once == MutationAtMostOnce
<1>1. TurnInit => Once
  BY NoneYet DEF TurnInit, MutationAtMostOnce
<1>2. TurnInv /\ [TurnNext]_vars /\ Once => Once'
  <2> SUFFICES ASSUME TurnInv, [TurnNext]_vars, Once
               PROVE  Once'
    OBVIOUS
  <2>0. TurnTypeOK
    BY DEF TurnInv
  <2>1. CASE UNCHANGED Promise!promiseVars
    BY <2>1 DEF Promise!promiseVars, MutationAtMostOnce
  <2>2. ASSUME NEW m \in Message, Promise!Store(m) \/ Promise!Tell(m)
        PROVE  Once'
    BY <2>2 DEF Promise!Store, Promise!Tell, MutationAtMostOnce
  <2>3. ASSUME NEW m \in Message, Promise!TakeEffect(m)
        PROVE  Once'
    <3>1. PICK c : /\ c = effects'[m][Len(effects'[m])] /\ c \notin Range(effects[m])
                   /\ effects' = [effects EXCEPT ![m] = Append(@, c)] /\ effects'[m] # <<>>
      BY <2>3, Zenon DEF Promise!TakeEffect, Promise!Range, Range
    <3>2. TurnTypeOK'
      BY TurnTypeStep DEF TurnInv
    <3>3. effects[m] \in Seq(Call) /\ effects'[m] \in Seq(Call) /\ effects'[m] = Append(effects[m], c)
      BY <2>0, <3>1, <3>2 DEF TurnTypeOK
    <3>4. c \in Call
      BY <3>1, <3>3
    <3>5. IsInjective(effects[m]) => IsInjective(effects'[m])
      BY <3>1, <3>3, <3>4, OneMore
    <3>6. QED
      BY <2>0, <3>1, <3>5 DEF MutationAtMostOnce, TurnTypeOK
  <2>4. QED
    BY <2>1, <2>2, <2>3, PromiseStep DEF Promise!PromiseNext
<1>3. QED
  BY <1>1, <1>2, TurnInvHolds, PTL DEF TurnSpec

HIDE WorkerTurnAssumption

-----------------------------------------------------------------------------
(* What the rows of a turn tell of it. *)

\* No worker goes on with a turn that another has claimed.
OneRunner ==
  \A v, w \in Worker : v # w /\ step[v] # "off" /\ step[w] # "off" => held[v] # held[w]

-----------------------------------------------------------------------------
(* The rows, and what each place in the try block has seen to.  A turn's   *)
(* request rows before the last are resolved; its runner is at the first   *)
(* iteration without a row, or works through the last row.                 *)

RowsTold(m) ==
  /\ results[m] \subseteq Requested(m)
  /\ \A p \in Range(effects[m]) : p \in Requested(m)
  /\ \A i, j \in Iter : i < j /\ requests[m][j] # {} => requests[m][i] \subseteq results[m]
  /\ status[m] = "done" \/ reply[m] # 0 => Requested(m) \subseteq results[m]

Unresolved == {"off", "reconcile", "blocked", "resolve", "run", "checkRun"}

\* No row yet at the runner's iteration, nor after it.
Ahead(w)  == \A j \in Iter : j >= iter[w] => requests[held[w]][j] = {}
\* The runner's iteration is the last with a row.
AtLast(w) == \A j \in Iter : j > iter[w] => requests[held[w]][j] = {}

\* The calls the runner has still to run or to record are the open ones.
Covers(w) ==
  /\ Requested(held[w]) \ results[held[w]] \subseteq todo[w] \cup ran[w]
  /\ todo[w] \cup ran[w] \subseteq Requested(held[w])

PlaceTold(w) ==
  /\ step[w] # "off" => status[held[w]] # "done"
  /\ step[w] \notin {"off", "reconcile", "completeFinal", "markDone"} => reply[held[w]] = 0
  /\ step[w] \notin Unresolved => Requested(held[w]) \subseteq results[held[w]]
  /\ step[w] \in {"resolve", "run", "checkRun"} => Covers(w)
  /\ step[w] \in {"llm", "request", "persist", "direct", "resolve"} => Ahead(w)
  /\ step[w] \in {"run", "checkRun"} => AtLast(w)
  /\ step[w] \notin {"run", "checkRun"} => ran[w] = {}

TranscriptInv ==
  /\ \A m \in Message : RowsTold(m)
  /\ \A w \in Worker : PlaceTold(w)

LEMMA TranscriptInit == TurnInit => TranscriptInv
<1> SUFFICES ASSUME TurnInit
             PROVE  TranscriptInv
  OBVIOUS
<1>1. ASSUME NEW m \in Message
      PROVE  RowsTold(m)
  <2>1. Requested(m) = {} /\ results[m] = {} /\ effects[m] = <<>> /\ \A i \in Iter : requests[m][i] = {}
    BY DEF TurnInit, Requested
  <2> QED BY <2>1, NoneYet DEF TurnInit, QueueInit, RowsTold
<1>2. ASSUME NEW w \in Worker
      PROVE  PlaceTold(w)
  BY DEF TurnInit, PlaceTold, Unresolved
<1> QED BY <1>1, <1>2 DEF TranscriptInv

-----------------------------------------------------------------------------
(* Frames. *)

\* A runner is on a message.
LEMMA RunnerHolds ==
  ASSUME TurnInv, NEW w \in Worker, step[w] # "off"
  PROVE  held[w] \in Message /\ attempt[w] \in Nat
BY DEF TurnInv, WorkerInv, QueueInv, QueueTypeOK, RowShape, OnTurn, TurnPhase

\* The rows of message m are left alone, its status aside.
SameRows(m) ==
  /\ requests'[m] = requests[m] /\ results'[m] = results[m]
  /\ reply'[m] = reply[m] /\ effects'[m] = effects[m]

\* Only the runner that has stored or found the answer completes a row.
LEMMA DoneByFinish ==
  ASSUME TurnInv, [TurnNext]_vars, NEW m \in Message, status'[m] = "done", status[m] # "done"
  PROVE  \E v \in Worker : Finish(v) /\ held[v] = m /\ step[v] = "markDone"
<1>1. \E v \in Worker : MarkMessageDone(v) /\ held[v] = m
  BY QueueStep, QueueFrame DEF TurnInv
<1> QED BY <1>1, OnlyFinish DEF Finish

LEMMA QuietRows ==
  ASSUME TurnInv, TranscriptInv, [TurnNext]_vars, NEW m \in Message, SameRows(m)
  PROVE  RowsTold(m)'
<1>1. RowsTold(m) /\ Requested(m)' = Requested(m)
  BY DEF TranscriptInv, Requested, SameRows
<1>2. status'[m] = "done" => status[m] = "done" \/ Requested(m) \subseteq results[m]
  BY DoneByFinish DEF TranscriptInv, PlaceTold, Unresolved
<1> QED BY <1>1, <1>2 DEF RowsTold, SameRows

\* Rows to which results or effects of requested calls are added.
LEMMA GrownRows ==
  ASSUME NEW m \in Message, RowsTold(m), requests'[m] = requests[m],
         results[m] \subseteq results'[m], results'[m] \subseteq Requested(m),
         \A p \in Range(effects'[m]) : p \in Requested(m),
         status'[m] = status[m],
         reply'[m] # 0 => reply[m] # 0 \/ Requested(m) \subseteq results'[m]
  PROVE  RowsTold(m)'
<1>1. Requested(m)' = Requested(m)
  BY DEF Requested
<1> QED BY <1>1 DEF RowsTold

\* A runner that does not move, on rows to which only results are added.
LEMMA UnmovedPlace ==
  ASSUME NEW v \in Worker, PlaceTold(v), SamePlace(v),
         step[v] # "off" =>
           /\ requests'[held[v]] = requests[held[v]] /\ reply'[held[v]] = reply[held[v]]
           /\ results[held[v]] \subseteq results'[held[v]]
           /\ status'[held[v]] = "done" => status[held[v]] = "done"
  PROVE  PlaceTold(v)'
<1>1. CASE step[v] = "off"
  BY <1>1 DEF PlaceTold, SamePlace, Unresolved
<1>2. CASE step[v] # "off"
  <2> DEFINE m == held[v]
  <2>1. held'[v] = m /\ step'[v] = step[v] /\ iter'[v] = iter[v] /\ todo'[v] = todo[v] /\ ran'[v] = ran[v]
    BY <1>2 DEF SamePlace
  <2>2. Requested(held[v])' = Requested(held[v])
    BY <1>2, <2>1 DEF Requested
  <2>3. (Covers(v) => Covers(v)') /\ (Ahead(v) => Ahead(v)') /\ (AtLast(v) => AtLast(v)')
    BY <1>2, <2>1, <2>2 DEF Covers, Ahead, AtLast
  <2> QED BY <1>2, <2>1, <2>2, <2>3 DEF PlaceTold
<1> QED BY <1>1, <1>2

\* A worker's step writes the rows of its own turn only.
LEMMA OtherRows ==
  ASSUME TurnInv, NEW w \in Worker, TurnStep(w) \/ Die(w), NEW m \in Message,
         step[w] = "off" \/ held[w] # m
  PROVE  SameRows(m) /\ (status'[m] = "done" => status[m] = "done")
<1>1. TurnTypeOK /\ (step[w] # "off" => held[w] \in Message)
  BY RunnerHolds DEF TurnInv
<1>2. SameRows(m)
  <2>1. CASE UNCHANGED <<requests, results, reply, effects>>
    BY <2>1 DEF SameRows
  <2>2. CASE \E c \in todo[w] : ResolveCall(w, c) \/ RunCall(w, c)
    BY <1>1, <2>2 DEF ResolveCall, RunCall, TakeEffect, Moves, SameRows, TurnTypeOK
  <2>3. CASE PersistRequest(w) \/ InsertReply(w)
    BY <1>1, <2>3 DEF PersistRequest, InsertReply, Moves, SameRows, TurnTypeOK
  <2>4. CASE \E c \in ran[w] : RecordResult(w, c)
    BY <1>1, <2>4 DEF RecordResult, SameRows, TurnTypeOK
  <2>5. CASE Poll(w) \/ Recover(w) \/ Die(w) \/ Block(w) \/ Lost(w) \/ Fail(w) \/ Finish(w)
    BY <2>1, <2>5 DEF Poll, Recover, Die, Block, Lost, Fail, Finish, turnVars, turnRows
  <2>6. CASE \/ (\E n \in Message : Claim(w, n)) \/ AlreadyFinal(w) \/ FreshTurn(w)
             \/ BlockedMutation(w) \/ ResumeTurn(w) \/ LlmAnswers(w) \/ CheckCompletion(w)
    BY <2>1, <2>6 DEF Claim, AlreadyFinal, FreshTurn, BlockedMutation, ResumeTurn, LlmAnswers,
                      CheckCompletion, turnRows
  <2>7. CASE \/ (\E kinds \in (SUBSET Kind) \ {{}} : LlmAsks(w, kinds))
             \/ (\E kind \in Kind : DirectAsks(w, kind))
             \/ CheckRequest(w) \/ CheckRun(w)
    BY <2>1, <2>7 DEF LlmAsks, DirectAsks, CheckRequest, CheckRun, turnRows
  <2> QED BY <2>2, <2>3, <2>4, <2>5, <2>6, <2>7 DEF TurnStep
<1>3. ASSUME status'[m] = "done", status[m] # "done"
      PROVE  FALSE
  <2>1. [TurnNext]_vars
    BY DEF TurnNext
  <2>2. PICK v \in Worker : Finish(v) /\ held[v] = m /\ step[v] = "markDone"
    BY <1>3, <2>1, DoneByFinish
  <2>3. v # w
    BY <2>2
  <2>4. step'[v] = "off"
    BY <1>1, <2>2 DEF Finish, LeaveTry, TurnTypeOK
  <2>5. step'[v] = step[v]
    BY <2>3, PlaceOfOthers DEF SamePlace
  <2> QED BY <2>2, <2>4, <2>5
<1> QED BY <1>2, <1>3

-----------------------------------------------------------------------------
(* A runner's own steps. *)

\* The request row is written at the first iteration without one, after the
\* calls of all others have their results.
LEMMA PersistedRow ==
  ASSUME TurnInv, TranscriptInv, NEW w \in Worker, PersistRequest(w),
         NEW m \in Message, m = held[w]
  PROVE  RowsTold(m)' /\ PlaceTold(w)'
<1> DEFINE k == iter[w]
<1>1. /\ step[w] = "persist" /\ k \in Iter /\ Ahead(w) /\ ran[w] = {}
      /\ status[m] # "done" /\ reply[m] = 0 /\ Requested(m) \subseteq results[m]
      /\ RowsTold(m) /\ TurnTypeOK
  <2>1. step[w] = "persist" /\ PlaceTold(w) /\ RowsTold(m) /\ TurnTypeOK /\ WorkerInv(w)
    BY DEF PersistRequest, Moves, TranscriptInv, TurnInv
  <2>2. k \in Iter
    <3>1. k < MaxIter /\ k \in 0..MaxIter
      BY <2>1 DEF WorkerInv, TurnTypeOK
    <3> QED BY <3>1, WorkerTurnAssumption DEF Iter
  <2>3. Ahead(w) /\ ran[w] = {} /\ Requested(m) \subseteq results[m]
    BY <2>1 DEF PlaceTold, Unresolved
  <2>4. status[m] # "done" /\ reply[m] = 0
    BY <2>1 DEF PlaceTold
  <2> QED BY <2>1, <2>2, <2>3, <2>4
<1>2. /\ requests'[m] = [requests[m] EXCEPT ![k] = todo[w]]
      /\ UNCHANGED <<queueVars, results, reply, effects, iter, todo, ran>>
      /\ step'[w] = "run"
  <2>1. requests[m][k] = {}
    BY <1>1 DEF Ahead, Iter
  <2>2. requests'[m] = [requests[m] EXCEPT ![k] = IF requests[m][k] = {} THEN todo[w] ELSE requests[m][k]]
    BY <1>1 DEF PersistRequest, TurnTypeOK
  <2>3. step'[w] = "run"
    BY <1>1 DEF PersistRequest, Moves, TurnTypeOK
  <2> QED BY <2>1, <2>2, <2>3 DEF PersistRequest
<1>3. \A i \in Iter : requests'[m][i] = IF i = k THEN todo[w] ELSE requests[m][i]
  BY <1>1, <1>2 DEF TurnTypeOK
<1>4. held'[w] = m /\ status'[m] = status[m] /\ iter'[w] = k
  BY <1>2 DEF queueVars, rowVars, workerVars
<1>5. Requested(m)' = Requested(m) \cup todo[w]
  <2>1. \A c : c \in Requested(m)' <=> \E i \in Iter : c \in requests'[m][i]
    BY DEF Requested
  <2>2. \A c : c \in Requested(m) <=> \E i \in Iter : c \in requests[m][i]
    BY DEF Requested
  <2>3. requests[m][k] = {}
    BY <1>1 DEF Ahead, Iter
  <2> QED BY <2>1, <2>2, <2>3, <1>1, <1>3
<1>6. ASSUME NEW i \in Iter, NEW j \in Iter, i < j, requests'[m][j] # {}
      PROVE  requests'[m][i] \subseteq results[m]
  <2>1. i # k
    BY <1>1, <1>3, <1>6 DEF Ahead, Iter
  <2>2. requests[m][i] \subseteq Requested(m)
    BY DEF Requested
  <2> QED BY <1>1, <1>3, <2>1, <2>2
<1>7. RowsTold(m)'
  BY <1>1, <1>2, <1>4, <1>5, <1>6 DEF RowsTold
<1>8. Covers(w)' /\ AtLast(w)'
  <2>1. AtLast(w)'
    BY <1>1, <1>3, <1>4 DEF AtLast, Ahead, Iter
  <2>2. Covers(w)'
    BY <1>1, <1>2, <1>4, <1>5 DEF Covers
  <2> QED BY <2>1, <2>2
<1>9. PlaceTold(w)'
  BY <1>1, <1>2, <1>4, <1>8 DEF PlaceTold, Unresolved
<1> QED BY <1>7, <1>9

\* What a runner works through is requested.
LEMMA Covered ==
  ASSUME TurnInv, TranscriptInv, NEW w \in Worker, step[w] \in {"resolve", "run", "checkRun"}
  PROVE  /\ held[w] \in Message /\ RowsTold(held[w]) /\ TurnTypeOK
         /\ todo[w] \cup ran[w] \subseteq Requested(held[w])
BY RunnerHolds DEF TranscriptInv, PlaceTold, Covers, TurnInv

LEMMA OwnRows ==
  ASSUME TurnInv, TranscriptInv, NEW w \in Worker, TurnStep(w) \/ Die(w),
         step[w] # "off", NEW m \in Message, m = held[w]
  PROVE  RowsTold(m)'
<1>1. RowsTold(m) /\ TurnTypeOK /\ [TurnNext]_vars
  BY DEF TranscriptInv, TurnInv, TurnNext
<1>2. CASE UNCHANGED <<requests, results, reply, effects>>
  BY <1>1, <1>2, QuietRows DEF SameRows
<1>3. ASSUME NEW c \in todo[w], ResolveCall(w, c) \/ RunCall(w, c)
      PROVE  RowsTold(m)'
  <2>1. c \in Requested(m)
    BY <1>3, Covered DEF ResolveCall, RunCall, Moves
  <2>2. /\ results[m] \subseteq results'[m] /\ results'[m] \subseteq results[m] \cup {c}
        /\ UNCHANGED <<requests, reply, status>>
    BY <1>1, <1>3 DEF ResolveCall, RunCall, TurnTypeOK, queueVars, rowVars
  <2>3. Range(effects'[m]) \subseteq Range(effects[m]) \cup {c}
    BY <1>3, NewEffects
  <2>4. \A p \in Range(effects'[m]) : p \in Requested(m)
    BY <1>1, <2>1, <2>3 DEF RowsTold
  <2>5. results'[m] \subseteq Requested(m)
    BY <1>1, <2>1, <2>2 DEF RowsTold
  <2> QED BY <1>1, <2>2, <2>4, <2>5, GrownRows
<1>4. ASSUME NEW c \in ran[w], RecordResult(w, c)
      PROVE  RowsTold(m)'
  <2>1. c \in Requested(m)
    BY <1>4, Covered DEF RecordResult
  <2>2. /\ results'[m] = results[m] \cup {c}
        /\ UNCHANGED <<requests, reply, status, effects>>
    BY <1>1, <1>4 DEF RecordResult, TurnTypeOK, queueVars, rowVars
  <2>3. results'[m] \subseteq Requested(m) /\ \A p \in Range(effects'[m]) : p \in Requested(m)
    BY <1>1, <2>1, <2>2 DEF RowsTold
  <2> QED BY <1>1, <2>2, <2>3, GrownRows
<1>5. CASE InsertReply(w)
  <2>1. Requested(m) \subseteq results[m]
    BY <1>5 DEF InsertReply, Moves, TranscriptInv, PlaceTold, Unresolved
  <2>2. UNCHANGED <<requests, results, effects, status>>
    BY <1>5 DEF InsertReply, queueVars, rowVars
  <2>3. results'[m] \subseteq Requested(m) /\ \A p \in Range(effects'[m]) : p \in Requested(m)
    BY <1>1, <2>2 DEF RowsTold
  <2> QED BY <1>1, <2>1, <2>2, <2>3, GrownRows
<1>6. CASE Poll(w) \/ Recover(w) \/ Die(w) \/ Block(w) \/ Lost(w) \/ Fail(w) \/ Finish(w)
  BY <1>2, <1>6 DEF Poll, Recover, Die, Block, Lost, Fail, Finish, turnVars, turnRows
<1>7. CASE \/ (\E n \in Message : Claim(w, n)) \/ AlreadyFinal(w) \/ FreshTurn(w)
           \/ BlockedMutation(w) \/ ResumeTurn(w) \/ LlmAnswers(w) \/ CheckCompletion(w)
  BY <1>2, <1>7 DEF Claim, AlreadyFinal, FreshTurn, BlockedMutation, ResumeTurn, LlmAnswers,
                    CheckCompletion, turnRows
<1>8. CASE \/ (\E kinds \in (SUBSET Kind) \ {{}} : LlmAsks(w, kinds))
           \/ (\E kind \in Kind : DirectAsks(w, kind))
           \/ CheckRequest(w) \/ CheckRun(w)
  BY <1>2, <1>8 DEF LlmAsks, DirectAsks, CheckRequest, CheckRun, turnRows
<1> QED BY <1>3, <1>4, <1>5, <1>6, <1>7, <1>8, PersistedRow DEF TurnStep

\* reconcileTurnState: the calls without a result are those of the last
\* request row.
LEMMA ReconciledPlace ==
  ASSUME TurnInv, TranscriptInv, NEW w \in Worker,
         AlreadyFinal(w) \/ FreshTurn(w) \/ BlockedMutation(w) \/ ResumeTurn(w)
  PROVE  PlaceTold(w)'
<1> DEFINE m == held[w]
<1>1. /\ step[w] = "reconcile" /\ m \in Message /\ RowsTold(m) /\ TurnTypeOK
      /\ status[m] # "done" /\ ran[w] = {} /\ iter[w] = 0
  BY RunnerHolds
  DEF AlreadyFinal, FreshTurn, BlockedMutation, ResumeTurn, TranscriptInv, PlaceTold, TurnInv, WorkerInv
<1>2. held'[w] = m /\ status'[m] = status[m] /\ UNCHANGED <<requests, results, reply, ran>>
  BY DEF AlreadyFinal, FreshTurn, BlockedMutation, ResumeTurn, turnRows, queueVars, rowVars, workerVars
<1>3. Requested(m)' = Requested(m)
  BY <1>2 DEF Requested
<1>4. CASE AlreadyFinal(w)
  <2>1. step'[w] = "completeFinal" /\ Requested(m) \subseteq results[m]
    BY <1>1, <1>4 DEF AlreadyFinal, Moves, RowsTold, TurnTypeOK
  <2> QED BY <1>1, <1>2, <1>3, <2>1 DEF PlaceTold, Unresolved
<1>5. CASE FreshTurn(w)
  <2>1. step'[w] \in {"direct", "llm"} /\ Requested(m) = {} /\ reply[m] = 0
    BY <1>1, <1>5 DEF FreshTurn, Moves, TurnTypeOK
  <2>2. \A j \in Iter : requests[m][j] = {}
    BY <2>1 DEF Requested
  <2>3. Ahead(w)'
    BY <1>2, <2>2 DEF Ahead
  <2> QED BY <1>1, <1>2, <1>3, <2>1, <2>3 DEF PlaceTold, Unresolved
<1>6. CASE BlockedMutation(w)
  <2>1. step'[w] = "blocked" /\ reply[m] = 0
    BY <1>1, <1>6 DEF BlockedMutation, Moves, TurnTypeOK
  <2> QED BY <1>1, <1>2, <2>1 DEF PlaceTold, Unresolved
<1>7. CASE ResumeTurn(w)
  <2> DEFINE last == LastIter(m)
  <2>1. reply[m] = 0 /\ Requested(m) # {} /\ iter'[w] = last + 1 /\ todo'[w] = Pending(m)
    BY <1>1, <1>7 DEF ResumeTurn, TurnTypeOK, NextIter
  <2>2. last \in Iter /\ requests[m][last] # {}
    BY <1>1, <2>1, LastIterExists
  <2>3. \A j \in Iter : requests[m][j] # {} => j <= last
    BY <1>1, <2>1, LastIterExists
  <2>4. Ahead(w)'
    BY <1>2, <2>1, <2>2, <2>3 DEF Ahead, Iter
  <2>5. Requested(m) \ results[m] \subseteq Pending(m)
    <3> SUFFICES ASSUME NEW c \in Requested(m) \ results[m]
                 PROVE  c \in Pending(m)
      OBVIOUS
    <3>1. PICK i \in Iter : c \in requests[m][i]
      BY DEF Requested
    <3>2. i <= last /\ ~(i < last)
      BY <1>1, <2>2, <2>3, <3>1 DEF RowsTold
    <3>3. i = last
      BY <2>2, <3>2 DEF Iter
    <3> QED BY <3>1, <3>3 DEF Pending
  <2>6. Pending(m) \subseteq Requested(m)
    BY <2>2 DEF Pending, Requested
  <2>7. CASE Pending(m) = {}
    <3>1. step'[w] \in {"llm", "completeDirect"} /\ Requested(m) \subseteq results[m]
      BY <1>1, <1>7, <2>5, <2>7 DEF ResumeTurn, Resume, Moves, TurnTypeOK
    <3> QED BY <1>1, <1>2, <1>3, <2>1, <2>4, <3>1 DEF PlaceTold, Unresolved
  <2>8. CASE Pending(m) # {}
    <3>1. step'[w] = "resolve"
      BY <1>1, <1>7, <2>8 DEF ResumeTurn, Moves, TurnTypeOK
    <3>2. Covers(w)'
      BY <1>1, <1>2, <1>3, <2>1, <2>5, <2>6 DEF Covers
    <3> QED BY <1>1, <1>2, <2>1, <2>4, <3>1, <3>2 DEF PlaceTold, Unresolved
  <2> QED BY <2>7, <2>8
<1> QED BY <1>4, <1>5, <1>6, <1>7

\* Once the last of the open calls has its result, none is open.
LEMMA LastResult ==
  ASSUME NEW w \in Worker, Covers(w), NEW c, todo[w] \cup ran[w] \subseteq {c}
  PROVE  Requested(held[w]) \subseteq results[held[w]] \cup {c}
BY DEF Covers

LEMMA ResolvedPlace ==
  ASSUME TurnInv, TranscriptInv, NEW w \in Worker, NEW c \in todo[w], ResolveCall(w, c),
         NEW m \in Message, m = held[w]
  PROVE  PlaceTold(w)'
<1>1. /\ step[w] = "resolve" /\ Covers(w) /\ Ahead(w) /\ ran[w] = {}
      /\ status[m] # "done" /\ reply[m] = 0 /\ TurnTypeOK
  BY DEF ResolveCall, Moves, TranscriptInv, PlaceTold, TurnInv
<1>2. /\ results'[m] = results[m] \cup {c} /\ todo'[w] = todo[w] \ {c}
      /\ UNCHANGED <<queueVars, requests, reply, iter, ran>>
  BY <1>1 DEF ResolveCall, TurnTypeOK
<1>3. held'[w] = m /\ status'[m] = status[m]
  BY <1>2 DEF queueVars, rowVars, workerVars
<1>4. Requested(m)' = Requested(m)
  BY <1>2 DEF Requested
<1>5. Ahead(w)'
  BY <1>1, <1>2, <1>3 DEF Ahead
<1>6. CASE todo[w] = {c}
  <2>1. step'[w] \in {"llm", "completeDirect"}
    BY <1>1, <1>6 DEF ResolveCall, Moves, Resume, TurnTypeOK
  <2>2. Requested(m) \subseteq results'[m]
    BY <1>1, <1>2, <1>6, LastResult
  <2> QED BY <1>1, <1>2, <1>3, <1>4, <1>5, <2>1, <2>2 DEF PlaceTold, Unresolved
<1>7. CASE todo[w] # {c}
  <2>1. step'[w] = "resolve"
    BY <1>1, <1>7 DEF ResolveCall, Moves, TurnTypeOK
  <2>2. Covers(w)'
    BY <1>1, <1>2, <1>3, <1>4 DEF Covers
  <2> QED BY <1>1, <1>2, <1>3, <1>5, <2>1, <2>2 DEF PlaceTold, Unresolved
<1> QED BY <1>6, <1>7

LEMMA RanPlace ==
  ASSUME TurnInv, TranscriptInv, NEW w \in Worker, NEW c \in todo[w], RunCall(w, c),
         NEW m \in Message, m = held[w]
  PROVE  PlaceTold(w)'
<1>1. /\ step[w] = "run" /\ Covers(w) /\ AtLast(w)
      /\ status[m] # "done" /\ reply[m] = 0 /\ TurnTypeOK
  BY DEF RunCall, Moves, TranscriptInv, PlaceTold, TurnInv
<1>2. /\ todo'[w] = todo[w] \ {c} /\ ran'[w] = ran[w] \cup {c} /\ step'[w] \in {"run", "checkRun"}
      /\ UNCHANGED <<queueVars, requests, results, reply, iter>>
  BY <1>1 DEF RunCall, Moves, TurnTypeOK
<1>3. held'[w] = m /\ status'[m] = status[m]
  BY <1>2 DEF queueVars, rowVars, workerVars
<1>4. Requested(m)' = Requested(m)
  BY <1>2 DEF Requested
<1>5. AtLast(w)' /\ Covers(w)'
  BY <1>1, <1>2, <1>3, <1>4 DEF AtLast, Covers
<1> QED BY <1>1, <1>2, <1>3, <1>5 DEF PlaceTold, Unresolved

LEMMA RecordedPlace ==
  ASSUME TurnInv, TranscriptInv, NEW w \in Worker, NEW c \in ran[w], RecordResult(w, c),
         NEW m \in Message, m = held[w]
  PROVE  PlaceTold(w)'
<1>1. /\ step[w] = "run" /\ Covers(w) /\ AtLast(w)
      /\ status[m] # "done" /\ reply[m] = 0 /\ TurnTypeOK /\ iter[w] \in Nat
  <2>1. step[w] = "run" /\ PlaceTold(w) /\ TurnTypeOK
    BY DEF RecordResult, TranscriptInv, TurnInv
  <2> QED BY <2>1, WorkerTurnAssumption DEF PlaceTold, TurnTypeOK
<1>2. /\ results'[m] = results[m] \cup {c} /\ ran'[w] = ran[w] \ {c}
      /\ UNCHANGED <<queueVars, requests, reply, todo>>
  BY <1>1 DEF RecordResult, TurnTypeOK
<1>3. held'[w] = m /\ status'[m] = status[m]
  BY <1>2 DEF queueVars, rowVars, workerVars
<1>4. Requested(m)' = Requested(m)
  BY <1>2 DEF Requested
<1>5. CASE todo[w] \cup ran[w] = {c}
  <2>1. step'[w] \in {"llm", "completeDirect"} /\ iter'[w] = iter[w] + 1 /\ ran'[w] = {}
    BY <1>1, <1>2, <1>5 DEF RecordResult, Resume, TurnTypeOK
  <2>2. Requested(m) \subseteq results'[m]
    BY <1>1, <1>2, <1>5, LastResult
  <2>3. Ahead(w)'
    BY <1>1, <1>2, <1>3, <2>1 DEF AtLast, Ahead, Iter
  <2> QED BY <1>1, <1>2, <1>3, <1>4, <2>1, <2>2, <2>3 DEF PlaceTold, Unresolved
<1>6. CASE todo[w] \cup ran[w] # {c}
  <2>1. step'[w] = "run" /\ iter'[w] = iter[w]
    BY <1>1, <1>6 DEF RecordResult
  <2>2. AtLast(w)' /\ Covers(w)'
    BY <1>1, <1>2, <1>3, <1>4, <2>1 DEF AtLast, Covers
  <2> QED BY <1>1, <1>2, <1>3, <2>1, <2>2 DEF PlaceTold, Unresolved
<1> QED BY <1>5, <1>6

\* The steps that ask, check or complete write no row, and find the rows as
\* the place they come from left them.
LEMMA AskedPlace ==
  ASSUME TurnInv, TranscriptInv, NEW w \in Worker,
         \/ \E kinds \in (SUBSET Kind) \ {{}} : LlmAsks(w, kinds)
         \/ \E kind \in Kind : DirectAsks(w, kind)
         \/ LlmAnswers(w) \/ CheckRequest(w) \/ CheckRun(w),
         NEW m \in Message, m = held[w]
  PROVE  PlaceTold(w)'
<1> USE DEF LlmAsks, DirectAsks, LlmAnswers, CheckRequest, CheckRun
<1>1. PlaceTold(w) /\ TurnTypeOK
  BY DEF TranscriptInv, TurnInv
<1>2. UNCHANGED <<queueVars, turnRows, iter, ran>>
  OBVIOUS
<1>3. held'[w] = m /\ UNCHANGED <<status, requests, results, reply>>
  BY <1>2 DEF queueVars, rowVars, workerVars, turnRows
<1>4. Requested(m)' = Requested(m)
  BY <1>3 DEF Requested
<1>5. /\ Ahead(w) => Ahead(w)'
      /\ AtLast(w) => AtLast(w)'
  BY <1>2, <1>3 DEF Ahead, AtLast
<1>6. CASE CheckRun(w)
  <2>1. step[w] = "checkRun" /\ step'[w] = "run" /\ UNCHANGED todo
    BY <1>1, <1>6 DEF Moves, TurnTypeOK
  <2>2. Covers(w)'
    BY <1>1, <1>2, <1>3, <1>4, <2>1 DEF Covers, PlaceTold
  <2> QED BY <1>1, <1>2, <1>3, <1>5, <2>1, <2>2 DEF PlaceTold, Unresolved
<1>7. CASE ~CheckRun(w)
  <2>1. /\ step[w] \in {"llm", "direct", "request"}
        /\ step'[w] \in {"request", "persist", "answer"}
    BY <1>1, <1>7 DEF Moves, TurnTypeOK
  <2> QED BY <1>1, <1>2, <1>3, <1>4, <1>5, <2>1 DEF PlaceTold, Unresolved
<1> QED BY <1>6, <1>7

LEMMA CompletedPlace ==
  ASSUME TurnInv, TranscriptInv, NEW w \in Worker, CheckCompletion(w) \/ InsertReply(w),
         NEW m \in Message, m = held[w]
  PROVE  PlaceTold(w)'
<1> USE DEF CheckCompletion, CheckAnswer, CompleteFinal, CompleteDirect, InsertReply
<1>1. PlaceTold(w) /\ TurnTypeOK
  BY DEF TranscriptInv, TurnInv
<1>2. held'[w] = m /\ UNCHANGED <<status, requests, results, ran>>
  BY DEF PassFinalCheck, PassCheck, turnRows, queueVars, rowVars, workerVars
<1>3. Requested(m)' = Requested(m)
  BY <1>2 DEF Requested
<1>4. CASE CheckAnswer(w) /\ UNCHANGED turnRows
  <2>1. step[w] = "answer" /\ step'[w] = "insertReply" /\ UNCHANGED reply
    BY <1>1, <1>4 DEF Moves, TurnTypeOK, turnRows
  <2> QED BY <1>1, <1>2, <1>3, <2>1 DEF PlaceTold, Unresolved
<1>5. CASE CompleteFinal(w) \/ CompleteDirect(w) \/ InsertReply(w)
  <2>1. step[w] \in {"completeFinal", "completeDirect", "insertReply"} /\ step'[w] = "markDone"
    BY <1>1, <1>5 DEF Moves, TurnTypeOK
  <2> QED BY <1>1, <1>2, <1>3, <2>1 DEF PlaceTold, Unresolved
<1> QED BY <1>4, <1>5

\* Outside the try block nothing is left to keep, and a claim begins anew.
LEMMA LeftPlace ==
  ASSUME TurnInv, TranscriptInv, NEW w \in Worker,
         \/ Poll(w) \/ (\E m \in Message : Claim(w, m)) \/ Finish(w) \/ Block(w) \/ Lost(w)
         \/ Fail(w) \/ Recover(w) \/ Die(w)
  PROVE  PlaceTold(w)'
<1>1. PlaceTold(w) /\ TurnTypeOK /\ QueueTypeOK /\ WorkerInv(w)
  BY DEF TranscriptInv, TurnInv, QueueInv
<1>2. CASE Finish(w) \/ Block(w) \/ Lost(w) \/ Fail(w) \/ Die(w)
  <2>1. step'[w] = "off" /\ ran'[w] = {}
    BY <1>1, <1>2 DEF Finish, Block, Lost, Fail, Die, LeaveTry, TurnTypeOK
  <2> QED BY <2>1 DEF PlaceTold, Unresolved
<1>3. CASE Poll(w) \/ Recover(w)
  <2>1. phase[w] \notin {"working", "completing"}
    BY <1>3 DEF Poll, SweepExhaustedLeases, ClaimSnapshot, ClaimNothing, Recover, PassCatchCheck,
                PassCheck, MarkMessageFailed
  <2>2. step[w] = "off" /\ UNCHANGED <<step, ran>>
    BY <1>1, <1>3, <2>1 DEF WorkerInv, Poll, Recover, turnVars
  <2> QED BY <1>1, <2>2 DEF PlaceTold, Unresolved
<1>4. ASSUME NEW m \in Message, Claim(w, m)
      PROVE  PlaceTold(w)'
  <2>1. step[w] = "off" /\ step'[w] = "reconcile" /\ UNCHANGED ran
    BY <1>1, <1>4 DEF Claim, Moves, TurnTypeOK
  <2>2. held'[w] = m /\ status'[m] = "processing"
    BY <1>1, <1>4 DEF Claim, ClaimPendingMessage, QueueTypeOK
  <2> QED BY <1>1, <2>1, <2>2 DEF PlaceTold, Unresolved
<1> QED BY <1>2, <1>3, <1>4

LEMMA OwnPlace ==
  ASSUME TurnInv, TranscriptInv, NEW w \in Worker, TurnStep(w) \/ Die(w)
  PROVE  PlaceTold(w)'
<1>1. CASE step[w] # "off"
  <2>1. PICK m \in Message : m = held[w]
    BY <1>1, RunnerHolds
  <2>2. CASE \E c \in todo[w] : ResolveCall(w, c) \/ RunCall(w, c)
    BY <2>1, <2>2, ResolvedPlace, RanPlace
  <2>3. CASE PersistRequest(w) \/ (\E c \in ran[w] : RecordResult(w, c))
    BY <2>1, <2>3, PersistedRow, RecordedPlace
  <2>4. CASE \/ \E kinds \in (SUBSET Kind) \ {{}} : LlmAsks(w, kinds)
             \/ \E kind \in Kind : DirectAsks(w, kind)
             \/ LlmAnswers(w) \/ CheckRequest(w) \/ CheckRun(w)
    BY <2>1, <2>4, AskedPlace
  <2>5. CASE CheckCompletion(w) \/ InsertReply(w)
    BY <2>1, <2>5, CompletedPlace
  <2> QED BY <2>2, <2>3, <2>4, <2>5, ReconciledPlace, LeftPlace DEF TurnStep
<1>2. CASE step[w] = "off"
  <2>1. \/ Poll(w) \/ (\E m \in Message : Claim(w, m)) \/ Finish(w) \/ Block(w) \/ Lost(w)
        \/ Fail(w) \/ Recover(w) \/ Die(w)
    BY <1>2 DEF TurnStep, AlreadyFinal, FreshTurn, BlockedMutation, ResumeTurn, ResolveCall, RunCall,
                LlmAsks, LlmAnswers, DirectAsks, CheckRequest, PersistRequest, CheckRun, RecordResult,
                CheckCompletion, CheckAnswer, CompleteFinal, CompleteDirect, InsertReply, Moves
  <2> QED BY <2>1, LeftPlace
<1> QED BY <1>1, <1>2

-----------------------------------------------------------------------------
(* Every step. *)

\* One runner per turn makes a worker's step invisible to the others.
LEMMA WorkerTranscriptStep ==
  ASSUME TurnInv, TranscriptInv, OneRunner, NEW w \in Worker, TurnStep(w) \/ Die(w)
  PROVE  TranscriptInv'
<1>0. [TurnNext]_vars
  BY DEF TurnNext
<1>1. ASSUME NEW m \in Message
      PROVE  RowsTold(m)'
  <2>1. CASE step[w] # "off" /\ held[w] = m
    BY <2>1, OwnRows
  <2>2. CASE step[w] = "off" \/ held[w] # m
    BY <1>0, <2>2, OtherRows, QuietRows
  <2> QED BY <2>1, <2>2
<1>2. ASSUME NEW v \in Worker \ {w}
      PROVE  PlaceTold(v)'
  <2>1. PlaceTold(v) /\ SamePlace(v)
    BY PlaceOfOthers DEF TranscriptInv
  <2>2. CASE step[v] # "off"
    <3>1. held[v] \in Message /\ (step[w] = "off" \/ held[w] # held[v])
      BY <2>2, RunnerHolds DEF OneRunner
    <3>2. PICK m \in Message : m = held[v]
      BY <3>1
    <3>3. SameRows(m) /\ (status'[m] = "done" => status[m] = "done")
      BY <3>1, <3>2, OtherRows
    <3> QED BY <2>1, <3>2, <3>3, UnmovedPlace DEF SameRows
  <2>3. CASE step[v] = "off"
    BY <2>1, <2>3, UnmovedPlace
  <2> QED BY <2>2, <2>3
<1> QED BY <1>1, <1>2, OwnPlace DEF TranscriptInv

\* The clients, the sweeper's rows, the clock and the operator: none completes
\* a row, and the operator adds a result to a requested call.
LEMMA OutsideTranscriptStep ==
  ASSUME TurnInv, TranscriptInv,
         \/ UNCHANGED vars \/ QueueOnly
         \/ \E m \in Message : VetMessage(m) \/ \E c \in Requested(m) : ResolveToolCall(m, c)
  PROVE  TranscriptInv'
<1>0. TurnTypeOK /\ QueueTypeOK /\ [TurnNext]_vars
  BY DEF TurnInv, QueueInv, TurnNext
<1>1. /\ UNCHANGED <<step, iter, todo, ran, answer, reply, effects, requests>>
      /\ \A v \in Worker : SamePlace(v)
  <2>1. UNCHANGED <<step, iter, todo, ran, answer, reply, effects, requests>>
    BY DEF vars, turnVars, QueueOnly, VetMessage, ResolveToolCall, turnMemory
  <2>2. UNCHANGED workerVars \/ \E w \in Worker : Restart(w)
    BY DEF vars, queueVars, workerVars, QueueOnly, InsertUserMessage, LeaseExpires,
           RequeueMessageForRetry, RenewLease, VetMessage, ResolveToolCall
  <2> QED BY <1>0, <2>1, <2>2 DEF SamePlace, workerVars, Restart, QueueTypeOK
<1>2. ASSUME NEW m \in Message
      PROVE  status'[m] = "done" => status[m] = "done"
  <2>1. ~(status'[m] = "done" /\ status[m] # "done")
    <3> SUFFICES ASSUME status'[m] = "done", status[m] # "done"
                 PROVE  FALSE
      OBVIOUS
    <3>1. PICK v \in Worker : Finish(v) /\ step[v] = "markDone"
      BY <1>0, DoneByFinish
    <3>2. step'[v] = "off"
      BY <1>0, <3>1 DEF Finish, LeaveTry, TurnTypeOK
    <3> QED BY <1>1, <3>1, <3>2
  <2> QED BY <2>1
<1>3. ASSUME NEW m \in Message
      PROVE  RowsTold(m)' /\ results[m] \subseteq results'[m]
  <2>1. CASE results'[m] = results[m]
    <3>1. SameRows(m)
      BY <1>1, <2>1 DEF SameRows
    <3> QED BY <1>0, <2>1, <3>1, QuietRows
  <2>2. CASE results'[m] # results[m]
    <3>1. PICK c \in Requested(m) : results'[m] = results[m] \cup {c} /\ UNCHANGED status
      BY <1>0, <2>2 DEF vars, turnVars, QueueOnly, VetMessage, ResolveToolCall, TurnTypeOK,
                        queueVars, rowVars
    <3>2. RowsTold(m)
      BY DEF TranscriptInv
    <3>3. results'[m] \subseteq Requested(m) /\ \A p \in Range(effects'[m]) : p \in Requested(m)
      BY <1>1, <3>1, <3>2 DEF RowsTold
    <3> QED BY <1>1, <3>1, <3>2, <3>3, GrownRows
  <2> QED BY <2>1, <2>2
<1>4. ASSUME NEW v \in Worker
      PROVE  PlaceTold(v)'
  <2>1. step[v] # "off" => held[v] \in Message
    BY RunnerHolds
  <2>2. PlaceTold(v)
    BY DEF TranscriptInv
  <2> QED BY <1>1, <1>2, <1>3, <2>1, <2>2, UnmovedPlace
<1> QED BY <1>3, <1>4 DEF TranscriptInv

LEMMA TranscriptStep == TurnInv /\ TranscriptInv /\ OneRunner /\ [TurnNext]_vars => TranscriptInv'
BY WorkerTranscriptStep, OutsideTranscriptStep DEF TurnNext

LEMMA TranscriptHolds == TurnSpec /\ []OneRunner => []TranscriptInv
BY TurnInvHolds, TranscriptInit, TranscriptStep, PTL DEF TurnSpec

-----------------------------------------------------------------------------
(* Theorems. *)

\* A done turn reads back as requests and results that match, whatever
\* crashes, resumptions and operator's results it went through.
THEOREM DoneTurnsReadBack == TurnSpec /\ []OneRunner => []TranscriptClosed
<1>1. TranscriptInv => TranscriptClosed
  BY DEF TranscriptInv, RowsTold, TranscriptClosed
<1> QED BY <1>1, TranscriptHolds, PTL

\* A resumed turn asks the model to go on only when no mutating call of it is
\* of unknown outcome.
THEOREM ResumesKnowOutcomes == TurnSpec /\ []OneRunner => []NoResumePastUnknown
<1>1. TranscriptInv => NoResumePastUnknown
  BY DEF TranscriptInv, PlaceTold, Unresolved, NoResumePastUnknown, Mutating
<1> QED BY <1>1, TranscriptHolds, PTL

\* No call takes effect that the durable rows do not show as asked for.
THEOREM EffectsAreRequested == TurnSpec /\ []OneRunner => []EffectIsRequested
<1>1. TranscriptInv => EffectIsRequested
  BY DEF TranscriptInv, RowsTold, EffectIsRequested
<1> QED BY <1>1, TranscriptHolds, PTL

\* With one worker there is one runner.
COROLLARY LoneWorkerReadsBack ==
  ASSUME \A v, w \in Worker : v = w
  PROVE  TurnSpec => [](TranscriptClosed /\ NoResumePastUnknown /\ EffectIsRequested)
<1>1. OneRunner
  BY DEF OneRunner
<1> QED BY <1>1, DoneTurnsReadBack, ResumesKnowOutcomes, EffectsAreRequested, PTL

-----------------------------------------------------------------------------
(* The process around a turn. *)

\* Behind the closed pool a turn still steps as a turn does.
LEMMA CutOffTurn ==
  ASSUME NEW w \in Worker, WorksCutOff(w)
  PROVE  TurnStep(w)
<1>1. CASE (\E kinds \in (SUBSET Kind) \ {{}} : LlmAsks(w, kinds)) \/ LlmAnswers(w)
           \/ (\E c \in todo[w] : RunCall(w, c)) \/ Fail(w) \/ (\E m \in Message : Claim(w, m))
  BY <1>1 DEF TurnStep
<1>2. CASE ClaimNothing(w) /\ UNCHANGED turnVars
  BY <1>2 DEF TurnStep, Poll
<1> QED BY <1>1, <1>2 DEF WorksCutOff

\* Every step of a process is a step of its turn, or none of its business.
LEMMA ProcessTurnStep == [ProcessNext]_processVars => [TurnNext]_vars
<1> SUFFICES ASSUME [ProcessNext]_processVars
             PROVE  [TurnNext]_vars
  OBVIOUS
<1>1. CASE UNCHANGED processVars
  BY <1>1 DEF processVars
<1>2. CASE Outside
  BY <1>2 DEF Outside, TurnNext, QueueOnly
<1>3. ASSUME NEW w \in Worker, Works(w) \/ WorksCutOff(w)
      PROVE  [TurnNext]_vars
  BY <1>3, CutOffTurn DEF Works, TurnNext
<1>4. ASSUME NEW w \in Worker, Renews(w) \/ Starts(w)
      PROVE  [TurnNext]_vars
  BY <1>4 DEF Renews, Starts, TurnNext, QueueOnly
<1>5. ASSUME NEW w \in Worker, Exits(w) \/ Crashes(w)
      PROVE  [TurnNext]_vars
  BY <1>5 DEF Exits, Crashes, TurnNext, TurnStep, Poll
<1>6. ASSUME NEW w \in Worker, Signal(w) \/ LooksAtInFlight(w) \/ Drained(w) \/ WindowElapses(w)
      PROVE  [TurnNext]_vars
  BY <1>6 DEF Signal, LooksAtInFlight, Drained, WindowElapses
<1> QED BY <1>1, <1>2, <1>3, <1>4, <1>5, <1>6 DEF ProcessNext, Shutdown

\* Through every shutdown, drain and restart the process only ever steps as
\* WorkerTurn and LeaseQueue allow.
THEOREM ProcessImplementsTurn == ProcessSpec => ImplementsTurn
<1>1. ProcessInit => TurnInit
  BY DEF ProcessInit
<1> QED BY <1>1, ProcessTurnStep, PTL DEF ProcessSpec, ImplementsTurn, TurnSpec

\* One answer per turn, the only one published, and no call taking effect
\* twice, whatever the signals cut off.
THEOREM ProcessKeepsPromise == ProcessSpec => ImplementsPromise /\ []MutationAtMostOnce
  BY ProcessImplementsTurn, TurnKeepsPromise, MutationsRunOnce DEF ImplementsTurn

\* As long as no two processes are in the try block of one turn, what a
\* process reads back after a signal or a restart is a turn's transcript: its
\* requests and results match once it is done, the model is not asked past a
\* call of unknown outcome, and what took effect was asked for.
THEOREM ProcessReadsBack ==
  ProcessSpec /\ []OneRunner => [](TranscriptClosed /\ NoResumePastUnknown /\ EffectIsRequested)
BY ProcessImplementsTurn, DoneTurnsReadBack, ResumesKnowOutcomes, EffectsAreRequested, PTL DEF ImplementsTurn

-----------------------------------------------------------------------------
(* The passes of the claim loop.  A pass is entered from "idle" alone, and  *)
(* there only while no signal has come: begun holds for every other one.    *)

PassInv ==
  /\ begun \in [Worker -> BOOLEAN]
  /\ stage \in [Worker -> Stage]
  /\ \A w \in Worker : stage[w] # "up" /\ InPass(w) => begun[w]

\* A step of w's turn leaves the other workers' phase alone, and w enters a
\* pass from "idle" alone.
PassFrame(w) ==
  /\ \A v \in Worker \ {w} : phase'[v] = phase[v]
  /\ InPass(w)' => InPass(w) \/ phase[w] = "idle"

LEMMA PassFrameHolds ==
  ASSUME TurnInv, NEW w \in Worker, TurnStep(w) \/ Die(w)
  PROVE  PassFrame(w)
<1>1. phase \in [Worker -> Phase]
  BY DEF TurnInv, QueueInv, QueueTypeOK
<1> USE <1>1 DEF PassFrame, InPass
<1>2. CASE Poll(w)
  BY <1>2 DEF Poll, SweepExhaustedLeases, ClaimSnapshot, ClaimNothing
<1>3. CASE \E m \in Message : Claim(w, m)
  BY <1>3 DEF Claim, ClaimPendingMessage
<1>4. CASE AlreadyFinal(w) \/ FreshTurn(w) \/ BlockedMutation(w) \/ ResumeTurn(w) \/ LlmAnswers(w)
  BY <1>4 DEF AlreadyFinal, FreshTurn, BlockedMutation, ResumeTurn, LlmAnswers, queueVars
<1>5. CASE \E c \in todo[w] : ResolveCall(w, c) \/ RunCall(w, c)
  BY <1>5 DEF ResolveCall, RunCall, queueVars
<1>6. CASE (\E kinds \in (SUBSET Kind) \ {{}} : LlmAsks(w, kinds)) \/ (\E kind \in Kind : DirectAsks(w, kind))
  BY <1>6 DEF LlmAsks, DirectAsks, queueVars
<1>7. CASE CheckRequest(w) \/ PersistRequest(w) \/ CheckRun(w) \/ InsertReply(w)
           \/ \E c \in ran[w] : RecordResult(w, c)
  BY <1>7 DEF CheckRequest, PersistRequest, CheckRun, InsertReply, RecordResult, queueVars
<1>8. CASE CheckCompletion(w)
  BY <1>8 DEF CheckCompletion, CheckAnswer, CompleteFinal, CompleteDirect, PassFinalCheck, PassCheck
<1>9. CASE Finish(w) \/ Recover(w)
  BY <1>9 DEF Finish, MarkMessageDone, Recover, PassCatchCheck, PassCheck, MarkMessageFailed, LeaveTurn
<1>10. CASE Block(w) \/ Fail(w)
  BY <1>10 DEF Block, PassBlockedCheck, PassCheck, Fail, Throw
<1>11. CASE Lost(w) \/ Die(w)
  BY <1>11 DEF Lost, LeaseLost, Die, Crash, LeaveTurn
<1> QED BY <1>2, <1>3, <1>4, <1>5, <1>6, <1>7, <1>8, <1>9, <1>10, <1>11 DEF TurnStep

\* Behind the closed pool no pass is entered at all.
LEMMA CutOffPass ==
  ASSUME TurnInv, NEW w \in Worker, WorksCutOff(w), InPass(w)'
  PROVE  InPass(w)
<1>1. phase \in [Worker -> Phase]
  BY DEF TurnInv, QueueInv, QueueTypeOK
<1> USE <1>1 DEF InPass
<1>2. CASE (\E kinds \in (SUBSET Kind) \ {{}} : LlmAsks(w, kinds)) \/ LlmAnswers(w)
           \/ \E c \in todo[w] : RunCall(w, c)
  BY <1>2 DEF LlmAsks, LlmAnswers, RunCall, queueVars
<1>3. CASE Fail(w)
  BY <1>3 DEF Fail, Throw
<1>4. CASE (\E m \in Message : Claim(w, m)) \/ ClaimNothing(w)
  BY <1>4 DEF Claim, ClaimPendingMessage, ClaimNothing
<1> QED BY <1>2, <1>3, <1>4 DEF WorksCutOff

LEMMA PassStep ==
  ASSUME TurnInv, PassInv, [ProcessNext]_processVars
  PROVE  PassInv'
<1>1. phase \in [Worker -> Phase]
  BY DEF TurnInv, QueueInv, QueueTypeOK
<1> USE <1>1 DEF PassInv, Stage
<1>2. CASE UNCHANGED processVars
  BY <1>2 DEF processVars, vars, queueVars, InPass
<1>3. CASE Outside
  BY <1>3 DEF Outside, InsertUserMessage, LeaseExpires, RequeueMessageForRetry, VetMessage,
              ResolveToolCall, workerVars, queueVars, procVars, InPass
<1>4. ASSUME NEW w \in Worker, Works(w)
      PROVE  PassInv'
  <2>1. PassFrame(w)
    BY <1>4, PassFrameHolds DEF Works
  <2>2. stage[w] # "up" /\ InPass(w)' => InPass(w)
    BY <1>4, <2>1 DEF PassFrame, Works, MayBeginPass
  <2> QED BY <1>4, <2>1, <2>2 DEF PassFrame, Works, Proceeds, InPass
<1>5. ASSUME NEW w \in Worker, WorksCutOff(w)
      PROVE  PassInv'
  <2>1. PassFrame(w) /\ (InPass(w)' => InPass(w))
    BY <1>5, PassFrameHolds, CutOffTurn, CutOffPass
  <2> QED BY <1>5, <2>1 DEF PassFrame, WorksCutOff, Proceeds, InPass
<1>6. ASSUME NEW w \in Worker, Renews(w)
      PROVE  PassInv'
  BY <1>6 DEF Renews, RenewLease, workerVars, procVars, InPass
<1>7. ASSUME NEW w \in Worker, Signal(w)
      PROVE  PassInv'
  <2>1. InPass(w) \in BOOLEAN /\ phase' = phase
    BY <1>7 DEF Signal, InPass, vars, queueVars
  <2>2. begun' \in [Worker -> BOOLEAN] /\ begun'[w] = InPass(w)
        /\ \A v \in Worker \ {w} : begun'[v] = begun[v]
    BY <1>7, <2>1 DEF Signal
  <2> QED BY <1>7, <2>1, <2>2 DEF Signal, Advance, InPass
<1>8. ASSUME NEW w \in Worker, LooksAtInFlight(w) \/ Drained(w) \/ WindowElapses(w)
      PROVE  PassInv'
  BY <1>8 DEF LooksAtInFlight, Drained, WindowElapses, Advance, vars, queueVars, InPass
<1>9. ASSUME NEW w \in Worker, Exits(w)
      PROVE  PassInv'
  <2>1. /\ \A v \in Worker \ {w} : phase'[v] = phase[v]
        /\ ~InPass(w)'
    BY <1>9 DEF Exits, Die, Crash, LeaveTurn, ClaimNothing, vars, queueVars, InPass
  <2> QED BY <1>9, <2>1 DEF Exits, Leaves, InPass
<1>10. ASSUME NEW w \in Worker, Crashes(w)
       PROVE  PassInv'
  <2>1. /\ \A v \in Worker \ {w} : phase'[v] = phase[v]
        /\ ~InPass(w)'
    BY <1>10 DEF Crashes, Die, Crash, LeaveTurn, InPass
  <2> QED BY <1>10, <2>1 DEF Crashes, Leaves, Proceeds, InPass
<1>11. ASSUME NEW w \in Worker, Starts(w)
       PROVE  PassInv'
  BY <1>11 DEF Starts, Advance, Restart, vars, queueVars, InPass
<1> QED BY <1>2, <1>3, <1>4, <1>5, <1>6, <1>7, <1>8, <1>9, <1>10, <1>11 DEF ProcessNext, Shutdown

\* However a signal meets the awaits of the claim loop, a process claims
\* after it only by the pass it had begun before.
THEOREM NoPassAfterSignal == ProcessSpec => ClaimsAfterSignal
<1>1. ProcessInit => PassInv
  BY DEF ProcessInit, TurnInit, QueueInit, PassInv, Stage, InPass
<1>2. TurnInv /\ PassInv /\ [ProcessNext]_processVars => PassInv'
  BY PassStep
<1>3. PassInv => \A w \in Worker :
                   stage[w] # "up" /\ phase[w] = "claiming" /\ phase'[w] = "working" => begun[w]
  BY DEF PassInv, InPass
<1>4. ProcessSpec => []TurnInv
  BY ProcessImplementsTurn, TurnInvHolds, PTL DEF ImplementsTurn
<1> QED BY <1>1, <1>2, <1>3, <1>4, PTL DEF ProcessSpec, ClaimsAfterSignal
=============================================================================
