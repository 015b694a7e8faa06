# stateless-chat in TLA+

TLA+ models of stateless-chat: a chat service whose gateway and workers keep no
state of their own.  Conversations, turns, leases and file locks live in
Postgres, progress events pass through Redis, and any worker may take up a turn
that another one left.  What can go wrong is therefore in the interleavings:
of workers that stall and are replaced, of statements of several sessions, of
event streams and reads of the database, of requests and clicks.

Each module says at its top what it abstracts.  `PROJECT.json` maps every
definition to the lines it models, every property to the run that checks it,
and lists the hazards the properties are for.  Operators under a comment that
begins with `Mutant:` are not part of a model: each is a plausible bug, put in
place of the definition that follows it to see that a property notices.

## 1. The system

### Parts, state and operations

| Part | State | Operations | What makes it correct |
|---|---|---|---|
| Claim protocol (`shared/db.ts`, `worker/index.ts`) | the user rows of `messages`: status, worker_id, lease_expires_at, attempt_count; each worker's current turn | insert, sweep, claim, renew, ownership check, done, failed, requeue | a live lease is never taken; worker_id + status fence off a stalled worker; every message settles |
| Turn processing and recovery (`worker/index.ts`, `turn-recovery.ts`, `direct-tool.ts`, operator scripts) | one request row per iteration, one result per call, one final reply; where the worker stands | reconcile, re-run read-only calls, block on mutating ones, request / result / reply checkpoints, publish | one answer per turn, and it is the one clients hear; no mutating call twice; a resumed transcript is well formed |
| Tool loop and compaction (`tool-loop.ts`, `compaction.ts`) | the message list for the LLM, the round's calls, the deadline and the abort flag, the latest compaction row | LLM round, batches of calls, truncation, forced final answer, pre-turn compaction, mid-loop split, history slice, backstop | the list sent is one the provider accepts and forgets nothing; an aborted body stops; the caller always gets an outcome |
| File tools and their lock (`tools/file-lock.ts`, `edit-file.ts`, `write-file.ts`, `atomic-write.ts`) | `file_locks` rows, the files, each call's snapshot and heartbeat | acquire with bounded wait, renew, release, read, validate, write aside and rename | one holder per file; a rename replaces what was read; a lost lock is not reported as success |
| Reply stream (`gateway/index.ts`, `web/lib/api.ts`, the reducer) | a subscription and its buffer per connection, what the bubble shows | subscribe, three reads of Postgres, replay, flush, live events, reconnect | one end per connection, never missed, only of what is stored; nothing shown twice or left out |
| Browser conversation store (`conversationStore.ts`, `App.tsx`) | per conversation: messages, submitting, sending, the stream's handle; requests under way | send, load, poll, attach, end, give up, delete | at most one send in flight; a pending turn is followed; a lost stream is found again |
| Composer and slash invocation (`Composer.tsx`, `slashTools.ts`, `tools.ts`, `direct-tool.ts`) | the draft, the picker, argument entry, the tools fetched; the tools a deployment enables | type, pick, fill in, run, send, fetch, dispatch | what the fields say is what runs; the fast path runs nothing that changes anything |
| Worker process (`worker/index.ts`: `main`, `claimAndProcess`, `shutdown`) | `shuttingDown`, `inFlight`, the drain window, the pool | poll, signal, drain, close the pool, exit, start again | a draining process stops taking work; a stopped one goes away; a restart costs no message |
| Conversation deletion (`deleteConversation`) | a transaction's locks on the conversation's rows | check under FOR UPDATE, delete messages, delete the conversation, roll back | nothing in progress is deleted; all or nothing |
| The rest | | gateway routing, login and its throttle, history formatting, lifecycle registry, subagent, LLM client, read-only tools, path jail, title, configuration, UI rendering, scripts, infrastructure | see "Not modelled" |

### How they interact

    browser tab --POST--> gateway --INSERT--> messages <--claim/renew/mark-- worker
        |                    |                   ^                            |
        |                    +-- DELETE tx ------+--- request/result/reply ---+-- tool loop -- LLM
        |                                                                     |       |
        +--EventSource--> gateway <------- Redis channel <----- events -------+   file tools
                             +------ getReply, rows, status (3 reads)             (file_locks)

* Gateway and workers never call each other.  A POST inserts a row and publishes a
  hint; a worker polls anyway.
* A worker's ownership is a condition in its SQL, checked in one statement and
  relied on in the next.  Between the two, the lease can lapse and another worker
  can claim, finish or fail the row.
* Redis keeps nothing: an event reaches the connections subscribed at that
  moment.  Everything else a tab learns is read from Postgres, at several moments.
* The browser reconnects an EventSource by itself, into the same bubble.

### What is hard here

Two workers on one turn after a stall; crashes between any two durable steps;
statements that see different snapshots; checks and the writes they guard as
separate statements; a timer that gives up on a body that goes on; events that
race the reads of the database; answers of requests that arrive late, out of
order or never; operators acting on rows at the same time; a signal that meets the
claim loop at any of its awaits; a text taken apart by two programs of two
deployments.

## 2. Modules

| Module | Models | Uses |
|---|---|---|
| `LeaseQueue` | the claim protocol | |
| `TurnPromise` | abstract: one answer per message, heard as stored, no call effective twice | |
| `WorkerTurn` | one worker's turn on top of the queue | EXTENDS `LeaseQueue`; refines it and `TurnPromise` |
| `WorkerProcess` | the process around a worker's turns: claim loop, signal, drain, exit | EXTENDS `WorkerTurn`; refines it |
| `ToolLoop` | the LLM/tool loop, its list, its compactions, its backstop | |
| `FileLock` | the lock table, its callers and the files | |
| `TurnStream` | a turn's events from the worker to the bubble | |
| `ChatClient` | one tab's store and requests | |
| `Composer` | a slash command from the keyboard to the worker's dispatch | |
| `Deletion` | the delete transaction among the other sessions | |
| `MC*` | instances for TLC | |
| `WorkerProofs` | theorems about `LeaseQueue`, `WorkerTurn` and `WorkerProcess` | |
| `SequenceLemmas` | lemmas about sequences that no model is part of | |
| `ToolLoopProofs` | lemmas about the lists of `ToolLoop`, and theorems about it | EXTENDS `SequenceLemmas` |
| `TurnStreamProofs` | theorems about `TurnStream` | EXTENDS `SequenceLemmas` |
| `FileLockProofs`, `ChatClientProofs`, `ComposerProofs`, `DeletionProofs` | theorems about the module each is named after | |

`WorkerTurn` composes: each of its actions that touches the user row conjoins the
action of `LeaseQueue` with what it does to the turn's rows.  `WorkerProcess` says
which of these actions a process takes at which stage of its life.  `TurnStream`,
`ToolLoop` and `Deletion` abstract the neighbours they meet: what a worker does to
a row is in `TurnStream` only its order relative to the events, in `Deletion` only
whether it touches a locked row; the loop's checkpoints are single actions of
`WorkerTurn` and lists of rows in `ToolLoop`.

### LeaseQueue

A message is named by its creation rank, a lease is `none`, `live` or `expired`.
`ClaimSnapshot` and `ClaimPendingMessage` are the two moments of the claim
statement: the sub-select evaluates on a snapshot, the row lock and the re-check
of its condition come later (READ COMMITTED).  `ClaimNothing` is a claim that
comes back empty, which SKIP LOCKED allows whenever another session may hold the
row.  The ownership checks (`PassFinalCheck`, `PassBlockedCheck`,
`PassCatchCheck`) are separate from the writes they guard, and
`MarkMessageDone`/`MarkMessageFailed` update by id alone, as the code does.
`LeaseExpires` is unconstrained: a worker may stall for any time.  `Crash` and
`Restart` happen anywhere.

### WorkerTurn and TurnPromise

`AlreadyFinal`, `FreshTurn`, `BlockedMutation` and `ResumeTurn` read the durable rows
and go where `reconcileTurnState` goes: already answered, a new turn (direct or of
the loop), blocked on a mutating call without a result, or re-running the
read-only calls and resuming at the next iteration.  A call is
named by the attempt that asked for it, since ids are drawn anew each time.
Checkpoints 1 to 3 are `PersistRequest` (ON CONFLICT drops a second one for the
same iteration), `RecordResult` and `InsertReply`.  `published` collects the
contents of done events; `effects` is every effect of a mutating call so far, in
order, so that one taking effect twice is seen whichever attempts did it.  The two operator scripts act on the same rows.

### WorkerProcess

`stage` is how far `shutdown()` has come.  The flag `shuttingDown` is looked at
where a pass begins and nowhere else (`MayBeginPass`); `[...inFlight]` is read once,
after the unsubscribe (`LooksAtInFlight`), so that a claim which resolves later is
not waited for.  Behind `pool.end()` a turn goes on until it needs the database
(`WorksCutOff`); `Exits` ends whatever is left, and `Starts` is the process that
replaces it.  Crashes remain possible at every step.

### ToolLoop

Rows and list entries are records, summaries carry the set of rows they were made
of, so that "forgets nothing" can be stated.  Whether a list exceeds the
threshold, and where `keepRecentTokens` is reached, depends on texts and is any
choice.  `Compaction` and `HistoryLimit` are the two ways a worker is configured to
shorten a list; each turn may meet a worker configured either way (`compacts`).
Steps run from one await that can take time to the next, and the
backstop (`Backstop`) can fire at each of them; the body then goes on by itself,
as promises do, until it looks at the abort flag.  The failed turn may end, and the
next begin, while the old body still waits for a model or a tool (`WritesNoMore`):
what it gets back it stores nowhere.  Only a body whose write or summary is under way
at the backstop is waited for, an abstraction: in the code that write may land within
the next turn.
`MaxRounds` gives each turn its bound; `LaterRounds` keeps a first turn that other
turns follow short, so that the long turn and the many turns are both checked
without their product.

### FileLock

A file is a set of lines, an edit replaces one, a write replaces all.  A path may
be a symbolic link, whose key is its target, and a rename onto a link replaces the
link.  A key is computed before the lock is asked for and not again: `misled`
remembers that some call came to change a file under a key that was no longer the
file's.  Every call runs in its own process.  `Lapse` ends the
lease of a row nobody renews, `Stall` that of a row whose live holder was held up
past its heartbeats; `stalled` remembers that this has happened, since what the
lock promises ends there.  A heartbeat may hear of the loss or not, an acquire may
succeed without its answer arriving, a release may fail or come late.

### TurnStream

The worker's side is the order in which a turn's rows and events are written:
a round's tokens, request row, `tool_start`, `tool_end`, result row in the loop;
`tool_start`, request row, result row, `tool_end` in a direct turn; reply, done, done
event.  `said` counts the tokens of all rounds, `round` those before the current one,
`last` is lastAssistantText; `AnswerNow` is the wrap-up past the deadline, and
`InsertReply` has the ways a reply comes about.  A round asks for one call (several
calls are several rounds without text between them), and publications are lost only
with their worker: that a single token's publication fails, or that an aborted body's
late tokens follow the error event, is left out.
The endpoint's side has one action per await: `Subscribe`, `CheckReply` (which
also takes the ids buffered so far), `ReplayTools`, `CheckStatus`, then the
buffer.  The tab appends what arrives as the reducer does.  One worker owns the
turn at a time here: what two do is WorkerTurn's subject.

### ChatClient

The reducer's cases are functions of an entry; each flow of `App.tsx` is cut at
its requests: what the server reads (`PostArrives`, `ReadHistory`, `ReadList`) and
what the tab does with the answer (`PostAnswered`, `LoadAnswered`,
`ListAnswered`) are separate steps with anything in between, and every request
may fail instead.

### Composer

The state is `Composer.tsx`'s: the draft, `forcedPlain` (Escape), the highlighted
row, the picked tool and its fields, and the tools last fetched.  The seven
manifests are `TOOL_MANIFESTS` itself.  A text is one of the kinds the two parsers
tell apart: blank, words, a JSON object, a list with commas, commas alone.  A
posted message remembers how it was entered, so that the worker's `Dispatches`
(`resolveDirectArgs`, and the tools its own deployment binds) can be held against
it.  `Redeploys` changes the flags at any time.

### Deletion

`deleteConversation` statement by statement.  `seen` and `doomed` are the row
locks its SELECT ... FOR UPDATE and its DELETE hold until COMMIT or ROLLBACK; an
UPDATE of such a row, or an INSERT that references it, waits (`Locked`), and so
does an INSERT that references the conversation once its row is being removed
(`ConversationLocked`).  `lapsed` reflects that now() is the transaction's BEGIN.
`Fail` is any statement that fails, a deadlock Postgres resolves included.

## 3. Runs

Nine runs pass.  Three must find a violation: each states what the repository says
of the program, and the findings in `PROJECT.json` quote it.

| Run | Instance | Shows |
|---|---|---|
| `queue_safety` | 2 workers, 2 messages of one conversation, cap 2, 3 attempts | `FencedOwnership`: worker id and status together identify the latest attempt; `LiveLeaseNotTaken`: no claim, sweep or requeue changes the worker, the attempt or the status of a live row; `DoneIsSpared`: a done row goes to no worker, and only one that had passed its check before can still fail it; `EveryMessageSettles` whatever crashes and lapses come between |
| `queue_gate` (violation) | the same | `OneLiveTurnPerConversation`: the conversation gate lets two rows of a conversation be live at once, since its NOT EXISTS is evaluated on a snapshot and a renewal revives an expired lease |
| `process` | 1 process that crashes, is told to stop and starts again, 2 iterations, 3 attempts | `NoResumePastUnknown`: recovery never goes past a mutating call whose outcome is unknown; `TranscriptClosed`, `EffectIsRequested`: what ran is in the durable transcript, and that transcript is well formed; `ClaimsAfterSignal`: at most the pass under way claims after a signal; `ShutdownEnds` whatever hangs |
| `turn_race` | 2 workers on 1 turn of 1 iteration and 2 attempts, of the tool loop or direct | a turn implements `LeaseQueue` and `TurnPromise`; nothing is done unanswered; `MutationAtMostOnce`: no mutating call takes effect twice, within an attempt or across them, also where the request row does not precede the call |
| `loop_turns` | a first turn of 3 rounds, or 3 turns of 1, 1 and 0 rounds, each of up to 2 calls; compacted or cut to 3 rows; all faults | every list sent is closed, forgets nothing and is durable; summaries build on one another without loss; an answered turn leaves no request open; no LLM call and no write after an abort; the caller always gets an outcome |
| `loop_forget` (violation) | 2 turns of 2 rounds with splits | `NothingForgotten`: a mid-loop split in a later turn drops the earlier ones |
| `lock_excludes` | an edit by a file's path, an edit and a write through a link to it, in three processes of which one crashes, fails or is late; stalls | until a stall or a lock got with an outdated key, a rename replaces what its call read and `expected_hash` is honoured; after that, a loss that was heard of is still never a success; a live row goes only by its owner's release; every lock frees |
| `composer` | the seven tools, all drafts, picks, fields and submissions, redeployments in between | `RunsWhatWasEntered`: argument entry runs the picked tool with what its fields say; `FreehandReadsOnly`: Enter on the picker runs at most a read-only tool |
| `composer_draft` (violation) | the same | `MutatingOnlyFromArgEntry`: a draft that is sent as it is can be a mutating call |
| `stream_joins` | 1 tab, a turn of 1 call and 2 tokens, chat or direct, 1 crash, 1 break | one end per connection, only of what is stored, never missed by a live connection; where nothing broke, the text of the rounds without gap or repetition; every watched turn ends in the tab, save in a connection that was live when its end went unpublished (`unheard`) |
| `client_sends` | 1 conversation, 2 messages, each of this tab or of another one, 3 streams at once | one send in flight; what the composer waits for has an open stream; `NotPermanentlyLost`: a turn without a stream is found again; `TurnReleasesComposer`: a settled turn gives the composer back, unless all that follows it are streams that missed its end (`deaf`) |
| `delete_atomic` | 2 deletes, 2 POSTs, 1 worker | no orphans; what does not delete takes nothing away; a turn the check has seen does not come alive under it |

`unheard` and `deaf` are facts about the code and not conveniences of the models: a
worker that dies between markMessageDone and its publication, or a sweep that fails
a row, leaves attached tabs without an end.  The gateway's heartbeat comment keeps
such a connection open, and the poll lists the turn no longer, so nothing but a
break of the connection, a reload or another action of the user ends it.  A tab that
joins or reconnects afterwards is told by Postgres.  In `ChatClient` the streams that
miss an end are any of those open when the turn settles; `TurnReleasesComposer`
speaks of the turn's own hold on the composer and not of the `submitting` flag, which
can stay set (`SubmittingIsInFlight`, section 5).

What a tab shows of a turn is not simply its reply.  It shows the text of every round,
those that go on to ask for calls included, from the moment it subscribed (tokens are
not stored, so a late tab sees the tail only), or, if the reply is stored when it
asks, the reply alone.  The reply is the last round's text, or that of the answer-now
retry; where the retry says nothing or fails, it is an earlier round's text or a
fallback message, and that is announced in the done event but never streamed.
`TextIsContiguous` says the first; the last is not shown until the history is loaded
again (`ReplyRendered`, section 5).

Conditions inside properties say where a promise ends.  `WrittenOverWhatWasRead`
and `ExpectedOrRefused` hold until some process has stalled past its lease, or some call
has got its lock with a key that a rename had outdated (`KeysTrue`).
`FreehandReadsOnly` leaves out a text that is itself a JSON object, which the worker
takes for the arguments, and `RunsWhatWasEntered` leaves to the model what a
redeployment has disabled.
`SentClosed` speaks of lists whose earlier turns are closed: a turn that failed
with a request open leaves it in the list.  `NoLlmCallAfterAbort` and
`NoPersistAfterAbort` leave out what a summarization under way at the abort does
when it comes back.  What happens beyond each of them is in section 5.
`WatchersAnswered` and `TurnReleasesComposer` leave out what `unheard` and `deaf` say.

### Bounds

Counters that grow without end in the code are bounded by named constants:
`AttemptBound` (claims of a row), `MaxIter`, `MaxRounds`, `LaterRounds`, `MaxCalls`,
`MaxTurns`, `NumChunks`, `MaxCrashes`, `MaxDrops`, `NumMessages`,
`MaxStreams`, `MaxLists`; the constraints `OneTurn` (`turn_race`: one of the two
messages is posted) and `OneFault` (`lock_excludes`: one call dies, fails or is
late; stalls are free).  They are chosen so that the case each property is
about happens:

* two workers, since every race is between the worker that lost a row and the one
  that took it; `AttemptBound` is the cap plus one, so that the cap and an operator's requeue past
  it both occur; in `turn_race` it is two, one attempt for each side of a race, and
  for its properties the theorems have no bound;
* two iterations for recovery (resume after a complete one, inside an open one),
  one where two workers race;
* two calls in a round so that results may be partial, three rounds so that a split
  has something before and after it, three turns so that a summary of a summary is
  sent; a turn after the first has at most one round and so is never split, since
  `loop_forget` shows what a split does there;
* three calls on one file, so that one waits while another renames the link the
  waiter's key was computed from;
* a token that begins a tool's name, one contained in another, one that is none,
  and every name itself;
* two tokens so that text can be cut, or stand before a call and behind it; one
  crash and one break, each of which can fall at any await;
* three streams, so that two follow one turn and one the other;
* two messages and two deletes, so that each can meet another of its kind.

`turn_race` and `delete_atomic` permute workers (and messages and
deletes) that are alike; the runs that check liveness use no symmetry.

Where the proofs apply they hold without these bounds on workers, messages,
calls or deletes.

### Fairness and liveness

* `LeaseQueue`, `WorkerTurn`: weak fairness of a worker's own steps, of its
  restart (a supervisor) and of the lapse of a lease no process renews; strong
  fairness of the claim, because a claim that finds its row locked is tried again
  at every poll (`POLL_INTERVAL_MS`) and the lock is only held for statements.
  No fairness of crashes, requeues or stalls.
* `WorkerProcess`: weak fairness of the steps of `shutdown()` (Redis answers or
  rejects, the drain's timer fires, the process exits) and of the claim statement
  the database is working on when the pool closes.  Nothing is assumed of a turn,
  whose model and tools may hang, nor of signals, crashes and restarts.
* `FileLock`: weak fairness of each step of a call that has not died, of the
  heartbeat and of lapses.  The acquire is bounded by its deadline.
* `ToolLoop`: the backstop timer only; `LoopSettles` needs no more.  LLM, tools and writes may hang for ever.
* `TurnStream`: the worker's next step and each connection's next step.
* `ChatClient`: the 20-second poll, loads that are retried by it (strong, as each
  attempt may fail but not every one), and the ends of settled turns for the streams
  that did not miss them.  Nothing is assumed of the others: that a connection
  breaks, or a stream gives up, is never relied on.
* `Deletion`: strong fairness of a delete's next statement: a session that waits
  for a row lock is in Postgres' queue for it.
* `Composer`: none; a user need not do anything.

Runs that check no liveness use the specification without fairness.
`CHECK_DEADLOCK FALSE` is set for `TurnStream`, whose turn ends, and `Deletion`,
whose conversation does.

## 4. Proofs

TLAPS checks these for every value of the constants that satisfies the modules'
ASSUMEs.

**WorkerProofs, the claim protocol.**  `QueueInv` is the type invariant,
`RowShape`, `FencedOwnership` and `AttemptOrder` (a running attempt's number is not
ahead of its row's attempt_count).  The last is what makes `FencedOwnership`
inductive: a claim hands out a number nobody runs.  From it: `QueueTypeCorrect`,
`RowShapeCorrect`, `OwnershipFenced`, and the action properties `LiveLeaseKept`
and `DoneSpared`.  The second lets a done row be failed by a worker that had passed
its ownership check before, as the code does; such a row may then be requeued.

**WorkerProofs, the turn.**  `QueueStep` shows step by step that a turn's action
is a queue action or leaves the queue alone, hence `TurnImplementsQueue`; the queue's
theorems thereby hold of `WorkerTurn`.  `TurnInv` adds, per worker, what its place
in the try block implies about the durable rows, and per message, that results
and effects belong to attempts that have happened.  From it:
`TurnTypeCorrect`, `NothingDoneUnanswered`, `MutationsRunOnce` and, with the
refinement mapping of `Promise`, `TurnKeepsPromise`: the initial state maps to an
initial state of `TurnPromise` and each step to a step or a stutter.

**WorkerProofs, the transcript.**  A worker that stalls past its lease may
run a turn next to the one that reclaimed it; the promise above survives that, the
transcript's shape does not.  So these theorems assume `[]OneRunner`: no two workers
are in the try block of one turn (one worker is a special case,
`LoneWorkerReadsBack`).  `RowsTold` says that request rows before the last are
resolved and that an answered turn has no open call; `PlaceTold` that a runner is at
the first iteration without a row, or that the open calls are those it has still to
run or to record.  From it: `DoneTurnsReadBack`, `ResumesKnowOutcomes` and
`EffectsAreRequested`, for any number of iterations, calls, crashes and resumptions.

**WorkerProofs, the process.**  `ProcessTurnStep` shows that every step of a
process, shutdown included, is a step of `WorkerTurn` or leaves its variables alone,
hence `ProcessImplementsTurn`; with the theorems above, `ProcessKeepsPromise`
(draining, cutting off and restarting processes costs no answer and repeats no
mutating call) and `ProcessReadsBack`.  `PassFrame` relates the stage, the pass and
`begun`; from it `NoPassAfterSignal`.

**ToolLoopProofs, the lists.**  The lists of the loop are made by concatenating, cutting and
replacing, so its theorems rest on lemmas about these operators, for lists of any
length.  A list is closed when it is *met* (each request is followed by its
results) and no result stands alone (`ClosedIff`); both are kept by a cut before a
user row, an answer or a request, and by concatenation.  The history is a
`FlattenSeq`, a recursion: what every turn's rows have, their concatenation has, by
folding prefix by prefix (`FlattenInduction` of `SequenceLemmas`).  `Sliced`, `CompactedList` and
`SplitList` say what a slice, a pre-turn compaction and a split keep of a list, and
what they count as covered.

**ToolLoopProofs, the theorems.**  Four invariants, each inductive given those before it.
`ControlInv` says where the body stands: past an abort the outcome is the
backstop's, only an unfinished round is in progress.  From it
`NoCallBehindTheBackstop` and `NoWriteBehindTheBackstop`.  `RowsInv` says what every
turn's rows are worth (`RowKept`: they begin with the user row, tell of no other
turn, and if they are answered each request has its results) and how the current
turn's rows relate to the round under way (`TurnKept`): `AnsweredTurnsClosed` alone
is not inductive, as nothing in it says that what is written next is the next
result of the open request.  From it `AnswersLeaveNothingOpen`.  `ListInv` says
that the list tells only of stored rows, except for the request whose row is being
written, and that requests in it are met whenever earlier turns are closed; the
last compaction row is part of it, since what it says enters later lists.  From it
`ListsAreInShape` and `SeenIsStored`.
`RemembersInv` adds that the compaction row covers all that lies before its
boundary (`SavedCovers`) and that the list with its summaries covers the history
(`Covers`).  Two steps of the code break it, so `CompactionsForgetNothing` has
two conditions, and it shows that these are the *only* two ways to forget:
`SplitAtHead` (a mid-loop split finds the open turn's user row right behind the
head it keeps; where it does not, the rows between vanish, the finding of
`loop_forget`) and `TurnNotCutInto` (section 5).  `OnlySplitTurnsForget`
says how far the first of them reaches, whatever splits happen: a split leaves no
user row in the list (`SplitKeepsNoUser`), so that the turn's own row tells whether
the list was split (`Unsplit`), and an unsplit list is complete, since the next turn
builds its own from the history and the compaction row, neither of which a split
touches.  `UnsplitInv` is `RemembersInv` weakened accordingly; only `TurnNotCutInto`
remains as a condition.

**FileLockProofs.**  `LockInv` (types; what is about to be renamed was validated;
no success with a known loss) holds for any instance, and gives
`LockTypeCorrect`, `LossIsReported` and `LiveLockStays`.  `HoldersExclude` says that
until a process stalls at most one call holds a key, links or no links; it rests on
`StallIsForEver`.  `AtomicInv` is what makes the read-modify-write atomic while
`KeysTrue`: a holder that is to change a file has that file's key (`KeyTrue`), links
lead to files and not to links (`NoChains`), and a holder's snapshot is still what
its path reads (`FreshSnapshot`).  A rename keeps the last because another
holder's key differs, and so do then the files the two paths lead to
(`RenameApart`).  From it: `NoLostUpdate` and `ExpectedHonoured`.

**DeletionProofs.**  `Inv` adds to the checked properties that locks are on rows
there are, of one transaction each (`LockInv`), and that between the removal of
the conversation's row and COMMIT no row appears (`CommitInv`).  Without these
another session could change or add a row under the transaction.  From it:
`DeletionTypeCorrect`, `CheckIsBinding`, `NoOrphans`, `DeleteIsAllOrNothing`.

**TurnStreamProofs.**  `RowsInv` says that the worker's place tells what is in the
rows (`PlaceInv`): it tells of an end only once the outcome is stored.  Nothing
stored is taken back (`RowsGrow`), so what a connection has read or heard of stays
true.  `ConnInv` says of a connection that it has heard no end before it reaches
one (`Hears`), that the ends in its buffer are of stored outcomes
(`BufferStored`), and that an end it was too late to hear is one it has still to
read (`NotMissed`).  From it: `EndsOnce`, `EndsAreStored`, `EndsAreHeard`.

`TextIsContiguous` speaks of what a tab shows and not of what is on its way there, so
it is not inductive.  Tokens are numbered, so a piece of the stream is `Tokens(j, n)`,
what was published between the j-th and the n-th; such pieces grow at the end
(`TokensGrow`).  `TextInv` adds the buffer: the text, the tokens in the buffer in
their order, and the worker's count of tokens published are one piece from the
subscription on (`Continues`), a bubble has no text before its connection is live,
and after the reply's row no token is published (`SaidInv`).  A publication extends
the piece (`PublishedContinues`), a delivery moves its boundary
(`DeliveredContinues`), and a replay of calls leaves the text alone (`ShownTools`).
What a bubble shows is a fold over the events, whose recursion is derived from its
definition (`ShowRecursion`).  From it, with `ConnInv`: `TextRunsOn`, for any number of
rounds, tokens, calls and tabs, any moment of joining, and any reply, streamed or not.

**ChatClientProofs.**  `StoreInv` says of an entry that at most one POST is under
way, that it is submitting while one is and the conversation is listed
(`SubmitsItsPost`), and that its turn and its handle are those of one open stream
(`Followed`).  From it: `SendsOneAtATime` and `BlockedByAFollowedTurn`.

**ComposerProofs.**  Browser and worker take the tools from deployments of their own
moments, so nothing relates their tool sets; what the proofs have of a message is
how its text was made.  `Posted` says it for each way of posting: the text of
argument entry is `BuildCommand` of what `BuildArgs` made of the fields, that of
Enter on the picker is the bare text behind a read-only tool of at most one argument.
A manifest's arguments have names of their own (`ManifestShape`), so `BuildArgs`
loses none (`BuiltArgs`), and the worker reads back what was built (`EntryResolves`,
`FreehandResolves`).  From it: `EntryRuns` and `EnterOnlyReads`, for any drafts and
any way of matching tools.

**Only model-checked:** liveness (`EveryMessageSettles`, `ShutdownEnds`,
`EveryLockFrees`, `LoopSettles`, `WatchersAnswered`, `NotPermanentlyLost`,
`TurnReleasesComposer`), since fairness is a matter of ENABLED, which the prover does
not handle.  Every other property of a passing run is stated by a theorem, some
under the conditions named above.

## 5. Findings and further properties

Three runs show disagreements between the code and what the repository says of it:

* `queue_gate`: with more than one worker, two messages of a conversation can be
  worked on at once.
* `loop_forget`: a mid-loop split in a later turn replaces the earlier turns by a
  summary made of the current turn alone.
* `composer_draft`: a mutating call can be sent as plain text, without the argument
  entry step: with the Send button while the picker is open, with Enter after
  Escape, before the tools are fetched, or behind leading blanks.

The modules state further properties that comments, documents or tests suggest and
the code does not have.  They belong to no run.  To see one fail, give the
configuration named here that property alone.

| Property | Configuration | What happens |
|---|---|---|
| `ExhaustedNotReclaimed` | `MCLeaseQueue.cfg` | a lease lapsing between sweep and claim passes the attempt cap |
| `DoneNotOverwritten` | `MCLeaseQueue.cfg` | a stalled worker's failure overwrites a row another worker completed |
| `EffectIsRequested` | `MCWorkerTurnRace.cfg` | a request dropped by the unique index, whose calls run all the same |
| `NoClaimAfterSignal` | `MCWorkerProcess.cfg` | a pass begun before the signal claims after it, and is then cut off by the exit |
| `ResolvedUnderNoLease` | `MCWorkerProcess.cfg` | the operator's script resolves a call of a turn claimed after its check |
| `ReclaimedNeverOk` | `MCFileLock.cfg` | a reclaimed holder that finishes before its heartbeat reports success |
| `WrittenOverWhatWasRead` | `MCFileLock.cfg`, without `~misled` in `KeysTrue` | a rename replaces a symbolic link, a call that waited goes on with its outdated key, a change is lost |
| `TurnNotCutInto` | `MCToolLoop.cfg` with `QueuedSends = TRUE` | a message queued behind the turn moves the pre-turn cut into it |
| `DoneBringsReply` | `MCTurnStream.cfg` | the end of a turn whose reply came after the first read is sent as an empty done |
| `ReplyRendered` | `MCTurnStream.cfg` | a reply the retry did not stream (an earlier round's text, the fallback) is only in the done event, which the bubble does not take it from |
| `NoTextTwice` | `MCTurnStream.cfg` | after a reconnect the whole reply is appended to its own beginning |
| `NoCallTwice` | `MCTurnStream.cfg` | a call is replayed from its row and delivered from the buffer |
| `ProgressShown` | `MCTurnStream.cfg` | a call is taken for replayed by neither path and shown by none |
| `NoStaleChip` | `MCTurnStream.cfg` | a chip stays running after the end of its turn |
| `SubmittingIsInFlight` | `MCChatClient.cfg` | the composer stays submitting after a load attached the turn first |
| `BubbleStays` | `MCChatClient.cfg` | a history read earlier removes a bubble sent since |
| `StreamsAreTracked` | `MCChatClient.cfg` | a stream is left open that no entry can close |
| `ActiveTurnIsKept` | `MCDeletion.cfg` | a message posted and claimed after the delete's check is deleted while live |

Three more are conditions of properties that hold otherwise (section 3): a failed
turn's open request makes later turns' lists malformed; a mid-loop split, and a
pre-turn compaction, summarizing at the moment of the abort go on afterwards,
the one to a further LLM call and the other to writing its row.

Some properties hold without being among the kept runs: `RowShape`, `TurnTypeOK`,
`LockTypeOK`, `OneHolder`, `DeletionTypeOK`, `LoopTypeOK` and `ImplementsTurn`, which are theorems;
the type invariants `ProcessTypeOK`, `StreamTypeOK` and `ClientTypeOK`;
`EveryCallReturns` (`FairLockSpec`) and, on an instance with a single message and
without symmetry, `DeleteAnswered` (`FairSpec`, `Message = {m1}`).

## 6. Not modelled

* Gateway routing, JSON, cookies and the shared password: no concurrent state
  beyond the login throttle's counters.
* History formatting, usage figures, titles, UI
  rendering: functions of data the properties do not tell apart.  A title is
  written between the reply and the done mark, swallows its errors, and
  touches one column nothing else reads.
* The subagent's inner loop and the LLM client: calls and completions are choices
  in `ToolLoop`.
* Read-only tools and the path jail's text checks: no state.  `bash` writes are
  outside the file lock by the repository's own statement.
* Worker ids: assumed distinct, as configuration must ensure.
* Two conversations in one tab: entries share nothing but the poll.
* Postgres row locks are taken by a statement all at once; a deadlock between two
  deletes that lock rows one by one appears as a failed transaction (`Fail`).

## 7. Plan

Done, in this order: `LeaseQueue` and its proofs; `TurnPromise`, `WorkerTurn`
and the refinements; `FileLock` and its proofs, later generalised to links;
`ToolLoop`; `TurnStream` and `ChatClient`, later with proofs; `Deletion` and its
proofs; `WorkerProcess` and its proofs; `Composer`; the proofs of `ToolLoop`
and of `Composer`.

What could follow:

1. The login throttle's window, and logout/401 in `ChatClient`; `ChatClient` with
   two conversations once its state space is cut down.
2. An abstract specification of a watched turn (the tab shows a prefix of what is
   stored, then its end), refined by `TurnStream` up to the anomalies found.
3. `ToolLoop`'s persistence shown to be `WorkerTurn`'s checkpoints.
4. The subagent's nested deadline.

## Running

    tlc -workers 2 -config MCLeaseQueue.cfg MCLeaseQueue
    tlapm WorkerProofs.tla
