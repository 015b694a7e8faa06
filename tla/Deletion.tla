------------------------------ MODULE Deletion ------------------------------
(***************************************************************************)
(* Deleting a conversation while browsers post into it and workers run its *)
(* turns (deleteConversation in packages/shared/src/db.ts).  One           *)
(* conversation, its user rows, and the statements of the other sessions   *)
(* that read or write them.  The delete is a READ COMMITTED transaction of *)
(* four statements: each sees what others have committed by then, its own  *)
(* writes are seen by nobody before COMMIT, and a row it has locked makes  *)
(* other sessions' statements wait.  Every other session commits each      *)
(* statement by itself.  A turn's own progress is WorkerTurn's subject.    *)
(***************************************************************************)
EXTENDS Naturals, FiniteSets

CONSTANTS
    Message,        \* user messages browsers may post, one POST each
    Worker,
    Deleter,        \* requests to delete the conversation, each may be retried
    NoMessage,      \* a worker on no turn
    NoWorker        \* worker_id IS NULL

ASSUME DeletionAssumption ==
    /\ NoMessage \notin Message
    /\ NoWorker \notin Worker

VARIABLES
    conversation,   \* whether the conversations row exists
    status,         \* message -> its row's status, "absent" if there is no row
    lease,          \* message -> "none" (NULL), "live" or "expired"
    owner,          \* message -> worker_id
    children,       \* messages whose turn has rows that reference them
    post,           \* message -> where its POST is
    phase, held,    \* worker -> what it does, and for which message
    stage,          \* deleter -> the statement its transaction comes to next
    seen,           \* deleter -> rows its SELECT ... FOR UPDATE has locked
    doomed,         \* deleter -> rows its DELETE FROM messages has locked
    lapsed,         \* deleter -> rows whose lease ran out after its BEGIN
    outcome         \* deleter -> the answer it gave last

table   == <<status, lease, owner, children>>
workers == <<phase, held>>
deletes == <<stage, seen, doomed, lapsed, outcome>>
vars    == <<conversation, table, post, workers, deletes>>

Rows == {m \in Message : status[m] # "absent"}

\* A turn some worker is entitled to be running.
LiveTurn(m) == status[m] = "processing" /\ lease[m] # "expired"

\* Mutant: the check's SELECT takes no locks.
LockedOnceDeleted(m) == \E d \in Deleter : m \in doomed[d]

\* A transaction holds the row: an UPDATE of it, and an INSERT that references
\* it, waits for that transaction's end.
Locked(m) == \E d \in Deleter : m \in seen[d] \cup doomed[d]

\* An INSERT that references the conversation waits as well.
ConversationLocked == \E d \in Deleter : stage[d] = "commit"

DeletionInit ==
    /\ conversation = TRUE
    /\ status = [m \in Message |-> "absent"]
    /\ lease = [m \in Message |-> "none"]
    /\ owner = [m \in Message |-> NoWorker]
    /\ children = {}
    /\ post = [m \in Message |-> "new"]
    /\ phase = [w \in Worker |-> "idle"]
    /\ held = [w \in Worker |-> NoMessage]
    /\ stage = [d \in Deleter |-> "idle"]
    /\ seen = [d \in Deleter |-> {}]
    /\ doomed = [d \in Deleter |-> {}]
    /\ lapsed = [d \in Deleter |-> {}]
    /\ outcome = [d \in Deleter |-> "none"]

-----------------------------------------------------------------------------
(***************************************************************************)
(* POST of a message.                                                      *)
(***************************************************************************)

\* getConversation: 404 once the conversation is gone.
Admit(m) ==
    /\ post[m] = "new"
    /\ post' = [post EXCEPT ![m] = IF conversation THEN "admitted" ELSE "refused"]
    /\ UNCHANGED <<conversation, table, workers, deletes>>

\* Mutant: conversation_id references nothing.
InsertUserMessageUnreferenced(m) ==
    /\ post[m] = "admitted"
    /\ post' = [post EXCEPT ![m] = "accepted"]
    /\ status' = [status EXCEPT ![m] = "pending"]
    /\ UNCHANGED <<conversation, lease, owner, children, workers, deletes>>

\* The foreign key lets the row in, or fails the POST.
InsertUserMessage(m) ==
    /\ post[m] = "admitted"
    /\ ~ConversationLocked
    /\ post' = [post EXCEPT ![m] = IF conversation THEN "accepted" ELSE "refused"]
    /\ status' = [status EXCEPT ![m] = IF conversation THEN "pending" ELSE @]
    /\ UNCHANGED <<conversation, lease, owner, children, workers, deletes>>

-----------------------------------------------------------------------------
(***************************************************************************)
(* The rows' life apart from the delete.                                   *)
(***************************************************************************)

\* now() passes lease_expires_at.  A transaction keeps the now() of its BEGIN.
LeaseExpires(m) ==
    /\ lease[m] = "live"
    /\ lease' = [lease EXCEPT ![m] = "expired"]
    /\ lapsed' = [d \in Deleter |->
                    IF stage[d] = "idle" THEN lapsed[d] ELSE lapsed[d] \cup {m}]
    /\ UNCHANGED <<conversation, status, owner, children, post, workers, stage,
                   seen, doomed, outcome>>

\* claimPendingMessages: FOR UPDATE SKIP LOCKED, and no other turn of the
\* conversation live.
Claim(w, m) ==
    /\ phase[w] = "idle"
    /\ status[m] = "pending" \/ (status[m] = "processing" /\ lease[m] # "live")
    /\ \A n \in Message \ {m} : ~LiveTurn(n)
    /\ ~Locked(m)
    /\ status' = [status EXCEPT ![m] = "processing"]
    /\ lease' = [lease EXCEPT ![m] = "live"]
    /\ owner' = [owner EXCEPT ![m] = w]
    /\ phase' = [phase EXCEPT ![w] = "working"]
    /\ held' = [held EXCEPT ![w] = m]
    /\ UNCHANGED <<conversation, children, post, deletes>>

\* sweepExhaustedLeases, on a row that has used up its attempts.
Sweep(m) ==
    /\ status[m] = "processing" /\ lease[m] = "expired"
    /\ ~Locked(m)
    /\ status' = [status EXCEPT ![m] = "failed"]
    /\ lease' = [lease EXCEPT ![m] = "none"]
    /\ UNCHANGED <<conversation, owner, children, post, workers, deletes>>

\* requeueMessageForRetry, by the operator.
Requeue(m) ==
    /\ status[m] = "failed" \/ (status[m] = "processing" /\ lease[m] # "live")
    /\ ~Locked(m)
    /\ status' = [status EXCEPT ![m] = "pending"]
    /\ lease' = [lease EXCEPT ![m] = "none"]
    /\ owner' = [owner EXCEPT ![m] = NoWorker]
    /\ UNCHANGED <<conversation, children, post, workers, deletes>>

Owns(w) == status[held[w]] = "processing" /\ owner[held[w]] = w

Leave(w) ==
    /\ phase' = [phase EXCEPT ![w] = "idle"]
    /\ held' = [held EXCEPT ![w] = NoMessage]

\* renewLease: worker_id and status, never the expiry.
Renew(w) ==
    /\ phase[w] # "idle" /\ Owns(w) /\ ~Locked(held[w])
    /\ lease' = [lease EXCEPT ![held[w]] = "live"]
    /\ UNCHANGED <<conversation, status, owner, children, post, workers, deletes>>

\* stillOwnsLease: before a request, the reply or the end of the turn, and
\* before its failure is recorded.
CheckOwnership(w) ==
    /\ phase[w] \in {"working", "catching"}
    /\ IF Owns(w)
       THEN /\ \E next \in IF phase[w] = "working" THEN {"persisting", "finishing"}
                           ELSE {"failing"} : phase' = [phase EXCEPT ![w] = next]
            /\ UNCHANGED held
       ELSE Leave(w)
    /\ UNCHANGED <<conversation, table, post, deletes>>

\* A tool's result is inserted unchecked, a request or the reply after the
\* check; the foreign key fails the turn if its row is gone.
Persist(w) ==
    /\ phase[w] \in {"working", "persisting"} /\ ~Locked(held[w])
    /\ IF held[w] \in Rows
       THEN /\ children' = children \cup {held[w]}
            /\ \/ phase' = [phase EXCEPT ![w] = "working"]
               \/ phase[w] = "persisting" /\ phase' = [phase EXCEPT ![w] = "finishing"]
       ELSE /\ phase' = [phase EXCEPT ![w] = "catching"]
            /\ UNCHANGED children
    /\ UNCHANGED <<conversation, status, lease, owner, post, held, deletes>>

\* markMessageDone and markMessageFailed: WHERE id, which may match no row.
Settle(w) ==
    /\ phase[w] \in {"finishing", "failing"} /\ ~Locked(held[w])
    /\ IF held[w] \in Rows
       THEN /\ status' = [status EXCEPT ![held[w]] =
                            IF phase[w] = "finishing" THEN "done" ELSE "failed"]
            /\ lease' = [lease EXCEPT ![held[w]] = "none"]
       ELSE UNCHANGED <<status, lease>>
    /\ Leave(w)
    /\ UNCHANGED <<conversation, owner, children, post, deletes>>

\* Any other error of the turn reaches the catch block.
Throw(w) ==
    /\ phase[w] \in {"working", "persisting", "finishing"}
    /\ phase' = [phase EXCEPT ![w] = "catching"]
    /\ UNCHANGED <<conversation, table, post, held, deletes>>

Crash(w) ==
    /\ phase[w] # "idle"
    /\ Leave(w)
    /\ UNCHANGED <<conversation, table, post, deletes>>

-----------------------------------------------------------------------------
(***************************************************************************)
(* deleteConversation.                                                     *)
(***************************************************************************)

\* The transaction ends: its locks are released.
End(d, answer) ==
    /\ stage' = [stage EXCEPT ![d] = "idle"]
    /\ seen' = [seen EXCEPT ![d] = {}]
    /\ doomed' = [doomed EXCEPT ![d] = {}]
    /\ lapsed' = [lapsed EXCEPT ![d] = {}]
    /\ outcome' = [outcome EXCEPT ![d] = answer]

\* Mutant: no transaction, each statement commits by itself.
RollbackTooLate(d, answer) ==
    /\ End(d, answer)
    /\ status' = [m \in Message |-> IF m \in doomed[d] THEN "absent" ELSE status[m]]
    /\ UNCHANGED <<conversation, lease, owner, children>>

\* ROLLBACK: nothing the transaction deleted is gone.
Rollback(d, answer) ==
    /\ End(d, answer)
    /\ UNCHANGED <<conversation, table>>

\* BEGIN and the SELECT of the conversation.
Begin(d) ==
    /\ stage[d] = "idle" /\ outcome[d] # "deleted"
    /\ UNCHANGED <<post, workers>>
    /\ \/ /\ conversation
          /\ stage' = [stage EXCEPT ![d] = "check"]
          /\ UNCHANGED <<conversation, table, seen, doomed, lapsed, outcome>>
       \/ /\ ~conversation
          /\ Rollback(d, "not_found")

\* Rows the check selects, and those of them it takes for live.
Candidates == {m \in Message : status[m] \in {"pending", "processing"}}
IsLive(d, m) ==
    status[m] = "processing" /\ (lease[m] # "expired" \/ m \in lapsed[d])

\* SELECT ... FOR UPDATE: a live turn refuses the delete, otherwise every
\* candidate stays locked.
CheckTurns(d) ==
    /\ stage[d] = "check"
    /\ \A m \in Candidates : ~Locked(m)
    /\ UNCHANGED <<post, workers>>
    /\ \/ /\ \E m \in Candidates : IsLive(d, m)
          /\ Rollback(d, "in_progress")
       \/ /\ \A m \in Candidates : ~IsLive(d, m)
          /\ seen' = [seen EXCEPT ![d] = Candidates]
          /\ stage' = [stage EXCEPT ![d] = "empty"]
          /\ UNCHANGED <<conversation, table, doomed, lapsed, outcome>>

LockedByOther(d) == {m \in Rows : \E e \in Deleter \ {d} : m \in seen[e] \cup doomed[e]}

\* DELETE FROM messages: the rows there are by now, checked or not.
DeleteMessages(d) ==
    /\ stage[d] = "empty"
    /\ LockedByOther(d) = {}
    /\ doomed' = [doomed EXCEPT ![d] = Rows]
    /\ stage' = [stage EXCEPT ![d] = "remove"]
    /\ UNCHANGED <<conversation, table, post, workers, seen, lapsed, outcome>>

\* DELETE FROM conversations: refused by the foreign key of a row that came
\* after the DELETE FROM messages.
DeleteConversationRow(d) ==
    /\ stage[d] = "remove"
    /\ ~ConversationLocked
    /\ UNCHANGED <<post, workers>>
    /\ \/ /\ Rows \subseteq doomed[d]
          /\ stage' = [stage EXCEPT ![d] = "commit"]
          /\ UNCHANGED <<conversation, table, seen, doomed, lapsed, outcome>>
       \/ /\ ~(Rows \subseteq doomed[d])
          /\ Rollback(d, "error")

Commit(d) ==
    /\ stage[d] = "commit"
    /\ conversation' = FALSE
    /\ status' = [m \in Message |-> IF m \in doomed[d] THEN "absent" ELSE status[m]]
    /\ lease' = [m \in Message |-> IF m \in doomed[d] THEN "none" ELSE lease[m]]
    /\ owner' = [m \in Message |-> IF m \in doomed[d] THEN NoWorker ELSE owner[m]]
    /\ children' = children \ doomed[d]
    /\ End(d, "deleted")
    /\ UNCHANGED <<post, workers>>

\* A statement fails (a broken connection, a deadlock Postgres resolves) or the
\* gateway dies: the transaction is rolled back.
Fail(d) ==
    /\ stage[d] # "idle"
    /\ Rollback(d, "error")
    /\ UNCHANGED <<post, workers>>

-----------------------------------------------------------------------------
Delete(d) == CheckTurns(d) \/ DeleteMessages(d) \/ DeleteConversationRow(d) \/ Commit(d)

Next ==
    \/ \E m \in Message : \/ Admit(m) \/ InsertUserMessage(m) \/ LeaseExpires(m)
                          \/ Sweep(m) \/ Requeue(m)
                          \/ \E w \in Worker : Claim(w, m)
    \/ \E w \in Worker : \/ Renew(w) \/ CheckOwnership(w) \/ Persist(w)
                         \/ Settle(w) \/ Throw(w) \/ Crash(w)
    \/ \E d \in Deleter : Begin(d) \/ Delete(d) \/ Fail(d)

Spec == DeletionInit /\ [][Next]_vars

\* A statement is executed, and one that waits for a lock is next in the queue
\* for it: it is not overtaken for ever.
FairSpec == Spec /\ \A d \in Deleter : SF_vars(Delete(d))

-----------------------------------------------------------------------------
DeletionTypeOK ==
    /\ conversation \in BOOLEAN
    /\ status \in [Message -> {"absent", "pending", "processing", "done", "failed"}]
    /\ lease \in [Message -> {"none", "live", "expired"}]
    /\ owner \in [Message -> Worker \cup {NoWorker}]
    /\ children \subseteq Message
    /\ post \in [Message -> {"new", "admitted", "accepted", "refused"}]
    /\ phase \in [Worker -> {"idle", "working", "persisting", "finishing",
                             "catching", "failing"}]
    /\ held \in [Worker -> Message \cup {NoMessage}]
    /\ \A w \in Worker : phase[w] # "idle" => held[w] \in Message
    /\ stage \in [Deleter -> {"idle", "check", "empty", "remove", "commit"}]
    /\ seen \in [Deleter -> SUBSET Message]
    /\ doomed \in [Deleter -> SUBSET Message]
    /\ lapsed \in [Deleter -> SUBSET Message]
    /\ outcome \in [Deleter -> {"none", "deleted", "not_found", "in_progress", "error"}]

\* No row outlives what it belongs to: without the conversation there are no
\* user rows, and without its user row a turn has no request, result or reply,
\* however a POST, a worker's insert and a delete interleave.
NothingOutlives ==
    /\ ~conversation => Rows = {}
    /\ children \subseteq Rows

\* A turn the delete's check has looked at cannot become live under it: no
\* claim, renewal or requeue gets at the row before the transaction ends, so
\* what was not live at the check is not live at the COMMIT that removes it.
CheckedTurnsStayDead ==
    \A d \in Deleter : \A m \in seen[d] : ~LiveTurn(m)

\* A message whose POST was accepted is lost only together with its
\* conversation: a delete that is refused, fails or trips over a message posted
\* in the meantime takes nothing with it.
AcceptedUntilDeleted ==
    conversation => \A m \in Message : post[m] = "accepted" => m \in Rows

\* A delete is answered: whatever the other deletes and the turns of the
\* conversation do, it never waits for a lock that nobody gives back.
DeleteAnswered == \A d \in Deleter : stage[d] # "idle" ~> stage[d] = "idle"

\* What the delete's contract says: a turn that is in progress is never deleted.
ActiveTurnIsKept ==
    [][\A m \in Message : LiveTurn(m) => status'[m] # "absent"]_vars
=============================================================================
