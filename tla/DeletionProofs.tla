--------------------------- MODULE DeletionProofs ---------------------------
(***************************************************************************)
(* Proofs about Deletion, for any number of messages, workers and deletes. *)
(***************************************************************************)
EXTENDS Deletion, TLAPS

Held(d) == seen[d] \cup doomed[d]

\* Locks are taken on rows there are, by one transaction at a time, and only
\* from the check on.
LockInv ==
    /\ \A d \in Deleter : Held(d) \subseteq Rows
    /\ \A d, e \in Deleter : d # e => Held(d) \cap Held(e) = {}
    /\ \A d \in Deleter : stage[d] \in {"idle", "check"} => Held(d) = {}

\* Nothing is posted between the DELETE of the conversation's row and COMMIT.
CommitInv == \A d \in Deleter : stage[d] = "commit" => Rows \subseteq doomed[d]

Inv ==
    /\ DeletionTypeOK
    /\ LockInv
    /\ CommitInv
    /\ CheckedTurnsStayDead
    /\ NothingOutlives
    /\ AcceptedUntilDeleted

LEMMA InitInv == DeletionInit => Inv
  BY DEF DeletionInit, Inv, DeletionTypeOK, LockInv, Held, CommitInv,
         CheckedTurnsStayDead, NothingOutlives, AcceptedUntilDeleted, Rows

-----------------------------------------------------------------------------
LEMMA PostStep ==
  ASSUME Inv, NEW m \in Message, Admit(m) \/ InsertUserMessage(m)
  PROVE  Inv'
<1> USE DEF Inv, deletes, workers, table
<1>1. CASE Admit(m)
  BY <1>1 DEF Admit, DeletionTypeOK, LockInv, Held, CommitInv, CheckedTurnsStayDead,
              LiveTurn, NothingOutlives, AcceptedUntilDeleted, Rows
<1>2. CASE InsertUserMessage(m)
  <2>1. DeletionTypeOK'
    BY <1>2 DEF InsertUserMessage, DeletionTypeOK
  <2>2. Rows' = IF conversation THEN Rows \cup {m} ELSE Rows
    BY <1>2 DEF InsertUserMessage, DeletionTypeOK, Rows
  <2>3. LockInv'
    BY <1>2, <2>2 DEF InsertUserMessage, LockInv, Held
  <2>4. CommitInv'
    BY <1>2 DEF InsertUserMessage, ConversationLocked, CommitInv
  <2>5. CheckedTurnsStayDead'
    BY <1>2 DEF InsertUserMessage, DeletionTypeOK, CheckedTurnsStayDead, LiveTurn
  <2>6. NothingOutlives' /\ AcceptedUntilDeleted'
    BY <1>2, <2>2 DEF InsertUserMessage, DeletionTypeOK, NothingOutlives,
                      AcceptedUntilDeleted
  <2> QED BY <2>1, <2>3, <2>4, <2>5, <2>6
<1> QED BY <1>1, <1>2

\* A step of a turn: it leaves the rows there are where they are, and makes none
\* live that a delete has locked.
TurnStep ==
    \/ \E m \in Message : \/ LeaseExpires(m) \/ Sweep(m) \/ Requeue(m)
                          \/ \E w \in Worker : Claim(w, m)
    \/ \E w \in Worker : \/ Renew(w) \/ CheckOwnership(w) \/ Persist(w)
                         \/ Settle(w) \/ Throw(w) \/ Crash(w)

LEMMA TurnTypeOK == ASSUME Inv, TurnStep PROVE DeletionTypeOK'
<1> USE DEF Inv, deletes, workers, table, DeletionTypeOK
<1>1. ASSUME NEW m \in Message, LeaseExpires(m) PROVE DeletionTypeOK'
  BY <1>1 DEF LeaseExpires
<1>2. ASSUME NEW m \in Message, Sweep(m) \/ Requeue(m) PROVE DeletionTypeOK'
  BY <1>2 DEF Sweep, Requeue
<1>3. ASSUME NEW m \in Message, NEW w \in Worker, Claim(w, m) PROVE DeletionTypeOK'
  BY <1>3 DEF Claim
<1>4. ASSUME NEW w \in Worker, Renew(w) \/ Throw(w) \/ Crash(w) PROVE DeletionTypeOK'
  BY <1>4 DEF Renew, Throw, Crash, Leave
<1>5. ASSUME NEW w \in Worker, CheckOwnership(w) PROVE DeletionTypeOK'
  BY <1>5 DEF CheckOwnership, Leave
<1>6. ASSUME NEW w \in Worker, Persist(w) PROVE DeletionTypeOK'
  BY <1>6 DEF Persist, Rows
<1>7. ASSUME NEW w \in Worker, Settle(w) PROVE DeletionTypeOK'
  BY <1>7 DEF Settle, Leave, Rows
<1> QED BY <1>1, <1>2, <1>3, <1>4, <1>5, <1>6, <1>7 DEF TurnStep

LEMMA TurnKeepsRows ==
  ASSUME Inv, TurnStep
  PROVE  /\ Rows' = Rows
         /\ \A n \in Message : Locked(n) /\ ~LiveTurn(n) => ~LiveTurn(n)'
         /\ children' \subseteq Rows
         /\ UNCHANGED <<conversation, post, stage, seen, doomed>>
<1> DEFINE Goal == /\ Rows' = Rows
                   /\ \A n \in Message : Locked(n) /\ ~LiveTurn(n) => ~LiveTurn(n)'
                   /\ children' \subseteq Rows
                   /\ UNCHANGED <<conversation, post, stage, seen, doomed>>
<1> USE DEF Inv, deletes, workers, table, DeletionTypeOK, Rows, LiveTurn, NothingOutlives
<1>1. ASSUME NEW m \in Message, LeaseExpires(m) PROVE Goal
  BY <1>1 DEF LeaseExpires
<1>2. ASSUME NEW m \in Message, Sweep(m) \/ Requeue(m) PROVE Goal
  BY <1>2 DEF Sweep, Requeue
<1>3. ASSUME NEW m \in Message, NEW w \in Worker, Claim(w, m) PROVE Goal
  BY <1>3 DEF Claim
<1>4. ASSUME NEW w \in Worker, Renew(w) PROVE Goal
  BY <1>4 DEF Renew
<1>5. ASSUME NEW w \in Worker, Throw(w) \/ Crash(w) \/ CheckOwnership(w) PROVE Goal
  BY <1>5 DEF Throw, Crash, CheckOwnership
<1>6. ASSUME NEW w \in Worker, Persist(w) PROVE Goal
  BY <1>6 DEF Persist
<1>7. ASSUME NEW w \in Worker, Settle(w) PROVE Goal
  BY <1>7 DEF Settle
<1> QED BY <1>1, <1>2, <1>3, <1>4, <1>5, <1>6, <1>7 DEF TurnStep

LEMMA TurnsKeepInv == ASSUME Inv, TurnStep PROVE Inv'
<1>1. DeletionTypeOK'
  BY TurnTypeOK
<1>2. LockInv' /\ CommitInv'
  BY TurnKeepsRows DEF Inv, LockInv, Held, CommitInv
<1>3. CheckedTurnsStayDead'
  BY TurnKeepsRows DEF Inv, DeletionTypeOK, CheckedTurnsStayDead, Locked
<1>4. NothingOutlives' /\ AcceptedUntilDeleted'
  BY TurnKeepsRows DEF Inv, NothingOutlives, AcceptedUntilDeleted
<1> QED BY <1>1, <1>2, <1>3, <1>4 DEF Inv

-----------------------------------------------------------------------------
\* A transaction that ends without COMMIT gives up its locks and nothing else.
LEMMA RollbackStep ==
  ASSUME Inv, NEW d \in Deleter, UNCHANGED <<post, workers>>,
         \E answer \in {"not_found", "in_progress", "error"} : Rollback(d, answer)
  PROVE  Inv'
<1> USE DEF Inv, Rollback, End, deletes, workers, table
<1>1. DeletionTypeOK'
  BY DEF DeletionTypeOK
<1>2. LockInv'
  BY DEF DeletionTypeOK, LockInv, Held, Rows
<1>3. CommitInv' /\ CheckedTurnsStayDead'
  BY DEF DeletionTypeOK, CommitInv, CheckedTurnsStayDead, LiveTurn, Rows
<1>4. NothingOutlives' /\ AcceptedUntilDeleted'
  BY DEF NothingOutlives, AcceptedUntilDeleted, Rows
<1> QED BY <1>1, <1>2, <1>3, <1>4

LEMMA CheckStep ==
  ASSUME Inv, NEW d \in Deleter, CheckTurns(d)
  PROVE  Inv'
<1>1. CASE Rollback(d, "in_progress")
  BY <1>1, RollbackStep DEF CheckTurns
<1>2. CASE ~Rollback(d, "in_progress")
  <2> USE DEF Inv, deletes, workers, table
  <2>1. /\ seen' = [seen EXCEPT ![d] = Candidates]
        /\ stage' = [stage EXCEPT ![d] = "empty"]
        /\ stage[d] = "check"
        /\ \A m \in Candidates : ~Locked(m) /\ ~IsLive(d, m)
        /\ UNCHANGED <<conversation, table, doomed, lapsed, outcome, post, workers>>
    BY <1>2 DEF CheckTurns
  <2>2. DeletionTypeOK'
    BY <2>1 DEF DeletionTypeOK, Candidates
  <2>3. LockInv'
    BY <2>1 DEF DeletionTypeOK, LockInv, Held, Rows, Candidates, Locked
  <2>4. CheckedTurnsStayDead'
    BY <2>1 DEF DeletionTypeOK, CheckedTurnsStayDead, LiveTurn, Candidates, IsLive
  <2>5. CommitInv' /\ NothingOutlives' /\ AcceptedUntilDeleted'
    BY <2>1 DEF DeletionTypeOK, CommitInv, NothingOutlives, AcceptedUntilDeleted, Rows
  <2> QED BY <2>2, <2>3, <2>4, <2>5
<1> QED BY <1>1, <1>2

LEMMA DeleteStep ==
  ASSUME Inv, NEW d \in Deleter, Begin(d) \/ Delete(d) \/ Fail(d)
  PROVE  Inv'
<1> USE DEF deletes, workers, table
<1>1. CASE Begin(d)
  <2>1. CASE Rollback(d, "not_found")
    BY <1>1, <2>1, RollbackStep DEF Begin
  <2>2. CASE ~Rollback(d, "not_found")
    <3>1. /\ stage[d] = "idle" /\ stage' = [stage EXCEPT ![d] = "check"]
          /\ UNCHANGED <<conversation, table, post, workers, seen, doomed, lapsed, outcome>>
      BY <1>1, <2>2 DEF Begin
    <3>2. DeletionTypeOK'
      BY <3>1 DEF Inv, DeletionTypeOK
    <3>3. LockInv' /\ CommitInv'
      BY <3>1 DEF Inv, DeletionTypeOK, LockInv, Held, CommitInv, Rows
    <3>4. CheckedTurnsStayDead' /\ NothingOutlives' /\ AcceptedUntilDeleted'
      BY <3>1 DEF Inv, CheckedTurnsStayDead, LiveTurn, NothingOutlives,
                  AcceptedUntilDeleted, Rows
    <3> QED BY <3>2, <3>3, <3>4 DEF Inv
  <2> QED BY <2>1, <2>2
<1>2. CASE CheckTurns(d)
  BY <1>2, CheckStep
<1>3. CASE DeleteMessages(d)
  <2> USE <1>3 DEF DeleteMessages, Inv
  <2>1. DeletionTypeOK'
    BY DEF DeletionTypeOK, Rows
  <2>2. LockInv'
    BY DEF DeletionTypeOK, LockInv, Held, Rows, LockedByOther
  <2>3. CommitInv' /\ CheckedTurnsStayDead' /\ NothingOutlives' /\ AcceptedUntilDeleted'
    BY DEF DeletionTypeOK, CommitInv, CheckedTurnsStayDead, LiveTurn, NothingOutlives,
           AcceptedUntilDeleted, Rows
  <2> QED BY <2>1, <2>2, <2>3
<1>4. CASE DeleteConversationRow(d)
  <2>1. CASE Rollback(d, "error")
    BY <1>4, <2>1, RollbackStep DEF DeleteConversationRow
  <2>2. CASE ~Rollback(d, "error")
    BY <1>4, <2>2 DEF DeleteConversationRow, Inv, DeletionTypeOK, LockInv, Held,
       CommitInv, CheckedTurnsStayDead, LiveTurn, NothingOutlives,
       AcceptedUntilDeleted, Rows
  <2> QED BY <2>1, <2>2
<1>5. CASE Commit(d)
  <2> USE <1>5 DEF Commit, End, Inv
  <2>1. DeletionTypeOK'
    BY DEF DeletionTypeOK
  <2>2. Rows' = {}
    BY DEF DeletionTypeOK, CommitInv, Rows
  <2>3. \A e \in Deleter : Held(e)' = {}
    BY DEF DeletionTypeOK, LockInv, CommitInv, Held
  <2>4. LockInv' /\ CommitInv'
    BY <2>2, <2>3 DEF LockInv, CommitInv
  <2>5. CheckedTurnsStayDead' /\ NothingOutlives' /\ AcceptedUntilDeleted'
    BY <2>2, <2>3 DEF CheckedTurnsStayDead, Held, CommitInv, NothingOutlives,
                      AcceptedUntilDeleted
  <2> QED BY <2>1, <2>4, <2>5
<1>6. CASE Fail(d)
  BY <1>6, RollbackStep DEF Fail
<1> QED BY <1>1, <1>2, <1>3, <1>4, <1>5, <1>6 DEF Delete

LEMMA StutterStep == ASSUME Inv, UNCHANGED vars PROVE Inv'
  BY DEF vars, deletes, workers, table, Inv, DeletionTypeOK, LockInv, Held, CommitInv,
         CheckedTurnsStayDead, LiveTurn, NothingOutlives, AcceptedUntilDeleted, Rows

LEMMA SpecInv == Spec => []Inv
<1>1. ASSUME Inv, [Next]_vars PROVE Inv'
  <2>1. ASSUME NEW m \in Message, Admit(m) \/ InsertUserMessage(m) PROVE Inv'
    BY <1>1, <2>1, PostStep
  <2>2. CASE TurnStep
    BY <1>1, <2>2, TurnsKeepInv
  <2>3. ASSUME NEW d \in Deleter, Begin(d) \/ Delete(d) \/ Fail(d) PROVE Inv'
    BY <1>1, <2>3, DeleteStep
  <2> QED BY <1>1, <2>1, <2>2, <2>3, StutterStep DEF Next, TurnStep
<1> QED BY <1>1, InitInv, PTL DEF Spec

-----------------------------------------------------------------------------
\* Every variable keeps its type (packages/shared/src/db.ts:611).
THEOREM DeletionTypeCorrect == Spec => []DeletionTypeOK
  BY SpecInv, PTL DEF Inv

\* The turns that deleteConversation's check has locked are not live at any
\* moment up to its end, however many deletes, workers and turns there are.
THEOREM CheckIsBinding == Spec => []CheckedTurnsStayDead
  BY SpecInv, PTL DEF Inv

\* The rows of a conversation go with it, and those of a turn with their user
\* row: the foreign keys and the order of the delete's statements leave no
\* orphan.
THEOREM NoOrphans == Spec => []NothingOutlives
  BY SpecInv, PTL DEF Inv

\* A delete that does not succeed removes no accepted message.
THEOREM DeleteIsAllOrNothing == Spec => []AcceptedUntilDeleted
  BY SpecInv, PTL DEF Inv
=============================================================================
