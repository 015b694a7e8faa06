------------------------------ MODULE ToolLoop ------------------------------
(***************************************************************************)
(* The turns of one conversation as runToolLoop runs them                  *)
(* (packages/worker/src/tool-loop.ts and compaction.ts): the message list  *)
(* each LLM call is sent, the rows the loop persists, its two compactions  *)
(* and the race of the loop's body against the backstop timer.             *)
(*                                                                         *)
(* A step runs from one await that can take time to the next.  Listeners   *)
(* and hooks are in-process and only log, so they are no such awaits.      *)
(* Token counts are not kept: whether a list is over its threshold, and    *)
(* where keepRecentTokens is reached, depends on texts and may be any.     *)
(***************************************************************************)
EXTENDS Naturals, SequencesExt

CONSTANTS
  Tool, ParallelSafe,   \* tool names; those flagged parallelSafe
  MaxTurns, MaxRounds, MaxCalls, \* bounds of the model: user messages,
                        \* tool rounds in each turn, calls in a round
  LaterRounds,          \* bound: tool rounds of a first turn others follow
  Compaction,           \* what env.compactionEnabled may be from turn to turn
  HistoryLimit,         \* env.toolLoopHistoryLimit, 0 for none
  QueuedSends,          \* a user may send again before the turn is over
  Faults                \* what may go wrong: subset of the next definition

FaultKind == {"llm", "persist", "backstop"}

ASSUME ToolLoopAssumption ==
  /\ ParallelSafe \subseteq Tool
  /\ MaxTurns \in Nat /\ MaxRounds \in [1..MaxTurns -> Nat] /\ MaxCalls \in Nat \ {0}
  /\ LaterRounds \in Nat
  /\ HistoryLimit \in Nat
  /\ Compaction \in (SUBSET BOOLEAN) \ {{}} /\ QueuedSends \in BOOLEAN
  /\ Faults \subseteq FaultKind

VARIABLES
  rows,       \* the durable rows, by the user message they reply to
  sent,       \* user messages inserted so far
  turn,       \* the one the loop is on
  saved,      \* the conversation's latest compaction row
  compacts,   \* env.compactionEnabled of the worker of this turn
  phase,      \* the await the body is in
  messages,   \* the list the body keeps for the LLM
  cut,        \* the cut point of a summarization under way
  round, calls, truncated,
  ran,        \* calls of the round that have run
  done,       \* calls of the round whose result is persisted
  late,       \* past the loop's own deadline
  aborted,    \* aborted.value
  settled     \* what runToolLoop's promise came to

bodyVars == <<messages, cut, round, calls, truncated, ran, done>>
loopVars == <<rows, sent, turn, saved, compacts, phase, messages, cut, round, calls,
              truncated, ran, done, late, aborted, settled>>

\* Rows and chat messages.  A result carries its call's place in the round.
System        == [kind |-> "system"]
User(t)       == [kind |-> "user", turn |-> t]
Ask(t, i, cs) == [kind |-> "ask", turn |-> t, iter |-> i, calls |-> cs]
Result(t, i, k) == [kind |-> "result", turn |-> t, iter |-> i, call |-> k]
Reply(t)      == [kind |-> "reply", turn |-> t]
Summary(of)   == [kind |-> "summary", of |-> of]

\* getConversationHistory: every turn's rows behind its user row.
History == FlattenSeq(SubSeq(rows, 1, sent))

\* The rows a list stands for, those its summaries were made of included.
Covered(list) ==
  UNION {IF m.kind = "summary" THEN m.of ELSE {m} : m \in ToSet(list)}

\* Every request is followed by its results at once, and no result stands
\* alone: the shape the provider accepts.
Closed(list) ==
  \A i \in DOMAIN list :
    CASE list[i].kind = "ask" ->
           \A k \in DOMAIN list[i].calls :
             /\ i + k \in DOMAIN list
             /\ list[i + k] = Result(list[i].turn, list[i].iter, k)
      [] list[i].kind = "result" ->
           LET j == i - list[i].call
           IN  /\ j \in DOMAIN list /\ list[j].kind = "ask"
               /\ list[j].turn = list[i].turn /\ list[j].iter = list[i].iter
      [] OTHER -> TRUE

Phase == {"idle", "compacting", "recording", "splitting", "streaming",
          "requesting", "running", "resulting", "answering", "over"}
AwaitsLlm == {"compacting", "splitting", "streaming", "answering"}
SendsList == {"streaming", "answering"}
Persists  == {"recording", "requesting", "resulting"}

LoopTypeOK ==
  /\ sent \in 0..MaxTurns /\ turn \in 0..sent
  /\ \A t \in 1..MaxTurns : rows[t] # <<>> <=> t <= sent
  /\ phase \in Phase
  /\ round \in Nat
  /\ ran \subseteq DOMAIN calls /\ done \in 0..Len(calls)
  /\ cut \in 0..Len(messages)
  /\ compacts \in Compaction
  /\ late \in BOOLEAN /\ aborted \in BOOLEAN /\ truncated \in BOOLEAN
  /\ settled \in {"pending", "resolved", "rejected", "timeout"}
  /\ phase = "idle" \/ messages[1] = System

LoopInit ==
  /\ rows = [t \in 1..MaxTurns |-> <<>>]
  /\ sent = 0 /\ turn = 0
  /\ saved = [first |-> 0, of |-> {}]
  /\ compacts \in Compaction
  /\ phase = "idle"
  /\ messages = <<>> /\ cut = 0
  /\ round = 0 /\ calls = <<>> /\ truncated = FALSE /\ ran = {} /\ done = 0
  /\ late = FALSE /\ aborted = FALSE /\ settled = "pending"

(***************************************************************************)
(* Pure parts of compaction.ts and tool-loop.ts.  The crossing is the      *)
(* index at which the walk back from the newest entry reaches              *)
(* keepRecentTokens.                                                       *)
(***************************************************************************)
PositionsOf(list, kind, from) == {i \in DOMAIN list : i >= from /\ list[i].kind = kind}

LastOf(S) == CHOOSE i \in S : \A j \in S : j <= i

\* Mutant: the cut falls at the crossing itself.
SplitsAnywhere(list) ==
  LET users == PositionsOf(list, "user", 1)
  IN  IF users = {} THEN {} ELSE (LastOf(users) + 2)..Len(list)

\* findTurnCutPoint: the last user row at or before the crossing, past the
\* start of the span.
TurnCuts(list, start) ==
  LET atOrBefore(c) == {i \in PositionsOf(list, "user", start) : i <= c}
  IN  {LastOf(atOrBefore(c)) : c \in {x \in start..Len(list) : atOrBefore(x) # {}}} \ {start}

\* findAssistantCutPoint: the same with the open turn's requests, so that
\* at least one message is summarized.
SplitCuts(list) ==
  LET users == PositionsOf(list, "user", 1)
      start == LastOf(users)
      atOrBefore(c) == {i \in PositionsOf(list, "ask", start + 1)
                                \cup PositionsOf(list, "reply", start + 1) : i <= c}
  IN  IF users = {} THEN {}
      ELSE {LastOf(atOrBefore(c)) : c \in {x \in start + 1..Len(list) : atOrBefore(x) # {}}}
             \ {start + 1}

\* Mutant: history.slice(-limit).
SliceRows(list) ==
  IF HistoryLimit = 0 \/ Len(list) <= HistoryLimit THEN list
  ELSE SubSeq(list, Len(list) - HistoryLimit + 1, Len(list))

\* sliceHistoryAtTurnBoundaries: the last limit rows, back to a user row.
SliceAtTurn(list) ==
  IF HistoryLimit = 0 \/ Len(list) <= HistoryLimit THEN list
  ELSE SubSeq(list, LastOf({1} \cup {i \in PositionsOf(list, "user", 1)
                                       : i <= Len(list) - HistoryLimit + 1}), Len(list))

\* Where the span to summarize starts: the previous compaction's boundary.
SpanStart(list) ==
  LET at == {i \in DOMAIN list : saved.first > 0 /\ list[i] = User(saved.first)}
  IN  IF at = {} THEN 1 ELSE LastOf(at)

\* Mutant: the previous summary is not carried into the next.
SummaryOfSpan(list, c) == ToSet(SubSeq(list, SpanStart(list), c - 1))

\* The list after a pre-turn compaction of a history up to c.
PreTurnSummary(list, c) == saved.of \cup ToSet(SubSeq(list, SpanStart(list), c - 1))
Compacted(list, c) ==
  <<System, Summary(PreTurnSummary(list, c))>> \o SubSeq(list, c, Len(list))

\* Mutant: the summarized prefix stops one message short.
SplitShort(list, c) ==
  LET from == LastOf(PositionsOf(list, "user", 1))
  IN  SubSeq(list, 1, IF list[2].kind = "summary" THEN 2 ELSE 1)
        \o <<Summary(Covered(SubSeq(list, from, c - 2)))>> \o SubSeq(list, c, Len(list))

\* applyCompaction by maybeSplitTurn: the open turn's prefix is summarized,
\* and everything between the kept head and the cut is replaced.
Split(list, c) ==
  LET keep == IF list[2].kind = "summary" THEN 2 ELSE 1
      from == LastOf(PositionsOf(list, "user", 1))
  IN  SubSeq(list, 1, keep)
        \o <<Summary(Covered(SubSeq(list, from, c - 1)))>>
        \o SubSeq(list, c, Len(list))

(***************************************************************************)
(* The conversation around the loop: external to it.                       *)
(***************************************************************************)
\* The bound LaterRounds is passed.
AskedOften == Cardinality({r \in ToSet(rows[1]) : r.kind = "ask"}) > LaterRounds

UserSends ==
  /\ sent < MaxTurns
  /\ ~AskedOften
  /\ QueuedSends \/ (phase = "idle" /\ turn = sent)
  /\ sent' = sent + 1
  /\ rows' = [rows EXCEPT ![sent + 1] = <<User(sent + 1)>>]
  /\ UNCHANGED <<turn, saved, phase, bodyVars, late, aborted, settled, compacts>>

\* Awaits behind which an aborted body stores nothing any more.
WritesNoMore == {"streaming", "splitting", "running", "answering"}

\* processMessage inserts the reply of a loop that resolved.  The turn of one that
\* timed out is over whatever its body waits for; here the next waits for a write.
TurnEnds ==
  /\ phase = "over" \/ (aborted /\ phase \in WritesNoMore)
  /\ rows' = IF settled = "resolved" THEN [rows EXCEPT ![turn] = Append(@, Reply(turn))] ELSE rows
  /\ phase' = "idle"
  /\ messages' = <<>> /\ cut' = 0
  /\ round' = 0 /\ calls' = <<>> /\ truncated' = FALSE /\ ran' = {} /\ done' = 0
  /\ late' = FALSE /\ aborted' = FALSE /\ settled' = "pending"
  /\ compacts' \in Compaction    \* another worker, or a restarted one
  /\ UNCHANGED <<sent, turn, saved>>

(***************************************************************************)
(* Where a synchronous stretch of the body ends.                           *)
(***************************************************************************)
\* Mutant: the body's outcome replaces the one already reported.
SettleAgain(how) == phase' = "over" /\ settled' = how

Settle(how) ==
  /\ phase' = "over"
  /\ settled' = IF settled = "pending" THEN how ELSE settled

\* abortedResult(): the race is already lost, its value is never read.
Stop == Settle("resolved")

\* Ask the model, after a split of the open turn if the list is too long.
AskModel(list) ==
  \/ phase' = "streaming" /\ cut' = 0 /\ UNCHANGED settled
  \/ /\ compacts
     /\ \E c \in SplitCuts(list) : cut' = c
     /\ phase' = "splitting"
     /\ UNCHANGED settled

\* Mutant: the flag is not looked at between iterations.
LoopTopUnchecked(list) ==
  /\ messages' = list
  /\ \/ late /\ phase' = "answering" /\ cut' = 0 /\ UNCHANGED settled
     \/ ~late /\ AskModel(list)

\* The top of the loop with this message list, and the wrap-up behind it.
LoopTop(list) ==
  /\ messages' = list
  /\ \/ aborted /\ Stop /\ cut' = 0
     \/ ~aborted /\ late /\ phase' = "answering" /\ cut' = 0 /\ UNCHANGED settled
     \/ ~aborted /\ ~late /\ AskModel(list)

\* runToolLoop and buildCompactedMessages up to their first await.
StartTurn ==
  /\ phase = "idle"
  /\ turn < sent
  /\ turn' = turn + 1
  /\ \/ compacts /\ LoopTop(<<System>> \o History)
     \/ /\ compacts
        /\ messages' = <<System>> \o History
        /\ \E c \in TurnCuts(History, SpanStart(History)) : cut' = c
        /\ phase' = "compacting"
        /\ UNCHANGED settled
     \/ ~compacts /\ LoopTop(<<System>> \o SliceAtTurn(History))
  /\ UNCHANGED <<rows, sent, saved, round, calls, truncated, ran, done, late, aborted, compacts>>

(***************************************************************************)
(* Compaction.                                                             *)
(***************************************************************************)
Summarized ==
  /\ phase = "compacting"
  /\ \/ /\ phase' = "recording"
        /\ UNCHANGED <<messages, cut, settled>>
     \/ "llm" \in Faults /\ LoopTop(messages)      \* failed, or blank
  /\ UNCHANGED <<rows, sent, turn, saved, round, calls, truncated, ran, done, late, aborted, compacts>>

CompactionRecorded ==
  /\ phase = "recording"
  /\ LET list == Tail(messages)
     IN /\ LoopTop(Compacted(list, cut))
        /\ \/ saved' = [first |-> list[cut].turn, of |-> PreTurnSummary(list, cut)]
           \/ "persist" \in Faults /\ UNCHANGED saved    \* logged, not thrown
  /\ UNCHANGED <<rows, sent, turn, round, calls, truncated, ran, done, late, aborted, compacts>>

SplitSummarized ==
  /\ phase = "splitting"
  /\ messages' = Split(messages, cut) \/ ("llm" \in Faults /\ UNCHANGED messages)
  /\ phase' = "streaming"
  /\ cut' = 0
  /\ UNCHANGED <<rows, sent, turn, saved, round, calls, truncated, ran, done, late, aborted, settled, compacts>>

(***************************************************************************)
(* The model's answer to an iteration.                                     *)
(***************************************************************************)
StreamText ==
  /\ phase = "streaming"
  /\ Settle("resolved")
  /\ UNCHANGED <<rows, sent, turn, saved, bodyVars, late, aborted, compacts>>

StreamAsks(cs, cutShort) ==
  /\ phase = "streaming"
  /\ round < MaxRounds[turn]
  /\ messages' = Append(messages, Ask(turn, round, cs))
  /\ calls' = cs /\ truncated' = cutShort /\ ran' = {} /\ done' = 0
  /\ \/ aborted /\ Stop
     \/ ~aborted /\ phase' = "requesting" /\ UNCHANGED settled
  /\ UNCHANGED <<rows, sent, turn, saved, cut, round, late, aborted, compacts>>

StreamFails ==
  /\ phase = "streaming"
  /\ "llm" \in Faults
  /\ Settle("rejected")
  /\ UNCHANGED <<rows, sent, turn, saved, bodyVars, late, aborted, compacts>>

(***************************************************************************)
(* Running and persisting a round's calls.                                 *)
(***************************************************************************)
Parallel == Len(calls) > 1 /\ ToSet(calls) \subseteq ParallelSafe

\* The next call, or the whole parallel batch, starts to run.
StartTools == phase' = "running" /\ UNCHANGED settled

\* Mutant: the flag is not looked at when a tool returns.
PersistUnchecked == phase' = "resulting" /\ UNCHANGED settled

\* if (aborted.value) return abortedResult(); await onToolResult(record)
PersistNext ==
  \/ aborted /\ Stop
  \/ ~aborted /\ phase' = "resulting" /\ UNCHANGED settled

RequestPersisted ==
  /\ phase = "requesting"
  /\ rows' = [rows EXCEPT ![turn] = Append(@, Ask(turn, round, calls))]
  /\ \/ truncated /\ PersistNext
     \/ ~truncated /\ StartTools
  /\ UNCHANGED <<sent, turn, saved, messages, cut, round, calls, truncated, ran, done, late, aborted, compacts>>

\* A callback throws: the ownership check, or the insert.
PersistFails ==
  /\ phase \in {"requesting", "resulting"}
  /\ "persist" \in Faults
  /\ Settle("rejected")
  /\ UNCHANGED <<rows, sent, turn, saved, bodyVars, late, aborted, compacts>>

ToolReturns(k) ==
  /\ phase = "running"
  /\ k \notin ran
  /\ Parallel \/ k = done + 1
  /\ ran' = ran \cup {k}
  /\ IF Parallel /\ ran' # DOMAIN calls
       THEN UNCHANGED <<phase, settled>>
       ELSE PersistNext
  /\ UNCHANGED <<rows, sent, turn, saved, messages, cut, round, calls, truncated, done, late, aborted, compacts>>

\* Mutant: the error results of a truncated round are only kept in memory.
RowsUnlessTruncated(result) ==
  IF truncated THEN rows ELSE [rows EXCEPT ![turn] = Append(@, result)]

\* insertToolResult
RowsWith(result) == [rows EXCEPT ![turn] = Append(@, result)]

ResultPersisted ==
  /\ phase = "resulting"
  /\ LET result == Result(turn, round, done + 1)
         list == Append(messages, result)
     IN /\ rows' = RowsWith(result)
        /\ \/ /\ done + 1 = Len(calls)
              /\ LoopTop(list)
              /\ round' = round + 1
              /\ done' = done + 1
              /\ UNCHANGED <<calls, ran>>
           \/ /\ done + 1 < Len(calls)
              /\ messages' = list
              /\ done' = done + 1
              /\ IF truncated \/ Parallel THEN PersistNext ELSE StartTools
              /\ UNCHANGED <<cut, round, calls, ran>>
  /\ UNCHANGED <<sent, turn, saved, truncated, late, aborted, compacts>>

\* The answer-now retry: its text, or the fallback when it fails.
Answered ==
  /\ phase = "answering"
  /\ Settle("resolved")
  /\ UNCHANGED <<rows, sent, turn, saved, bodyVars, late, aborted, compacts>>

(***************************************************************************)
(* Clocks.                                                                 *)
(***************************************************************************)
DeadlinePasses ==
  /\ phase \notin {"idle", "over", "compacting", "recording"}  \* deadline not set yet
  /\ ~late
  /\ late' = TRUE
  /\ UNCHANGED <<rows, sent, turn, saved, phase, bodyVars, aborted, settled, compacts>>

\* Mutant: the timer sets the flag but never rejects the race.
BackstopUnheard ==
  /\ "backstop" \in Faults
  /\ phase \notin {"idle", "over"}
  /\ ~aborted
  /\ aborted' = TRUE
  /\ UNCHANGED <<rows, sent, turn, saved, phase, bodyVars, late, settled, compacts>>

Backstop ==
  /\ "backstop" \in Faults
  /\ phase \notin {"idle", "over"}
  /\ ~aborted
  /\ aborted' = TRUE
  /\ settled' = "timeout"
  /\ UNCHANGED <<rows, sent, turn, saved, phase, bodyVars, late, compacts>>

LoopEnded ==
  /\ phase = "idle" /\ turn = sent
  /\ sent = MaxTurns \/ AskedOften
  /\ UNCHANGED loopVars

LoopNext ==
  \/ UserSends \/ StartTurn \/ TurnEnds
  \/ Summarized \/ CompactionRecorded \/ SplitSummarized
  \/ StreamText \/ StreamFails \/ Answered
  \/ \E cs \in BoundedSeq(Tool, MaxCalls) \ {<<>>}, cutShort \in BOOLEAN : StreamAsks(cs, cutShort)
  \/ RequestPersisted \/ PersistFails \/ ResultPersisted
  \/ \E k \in DOMAIN calls : ToolReturns(k)
  \/ DeadlinePasses \/ Backstop \/ LoopEnded

LoopSpec == LoopInit /\ [][LoopNext]_loopVars

\* Timers fire.  Models, tools and the database may hang.
FairLoopSpec == LoopSpec /\ WF_loopVars(Backstop)

(***************************************************************************)
(* Properties.                                                             *)
(***************************************************************************)

\* Every list sent to the model has the shape the provider accepts, across
\* slices, compactions and splits (tool-loop.ts 424-430), as long as no
\* earlier turn has failed with a request open: its row is sent as it is.
SentClosed ==
  phase \in SendsList /\ (\A t \in 1..(turn - 1) : Closed(rows[t])) => Closed(messages)

\* Where lists are compacted and not sliced, every row of the conversation
\* is in the list the model is sent, as itself or in a summary made of it.
NothingForgotten ==
  compacts /\ phase \in SendsList => \A t \in 1..turn : ToSet(rows[t]) \subseteq Covered(messages)

\* A pre-turn compaction never cuts into the turn it runs for
\* (compaction.ts 71-73: the newest user row is taken to be that turn's).
TurnNotCutInto ==
  phase \in {"compacting", "recording"} => User(turn) \notin ToSet(SubSeq(Tail(messages), 1, cut - 1))

\* What the model is told happened in this turn is durable: a crash during
\* the call loses no exchange the answer may rest on.
SeenIsDurable ==
  phase \in AwaitsLlm =>
    {m \in ToSet(messages) : m.kind \in {"ask", "result"}} \subseteq ToSet(History)

\* A turn that got its answer leaves every request with all its results.
AnsweredTurnsClosed ==
  \A t \in 1..MaxTurns : Reply(t) \in ToSet(rows[t]) => Closed(rows[t])

\* After the backstop reported the turn failed the body starts no further
\* LLM call and no further write (tool-loop.ts 1166-1171), but for those
\* behind a summarization: nobody looks at the flag when one is over.
NoLlmCallAfterAbort ==
  [][aborted /\ phase' \in AwaitsLlm => phase' = phase \/ phase = "splitting"]_loopVars
NoPersistAfterAbort ==
  [][aborted /\ phase' \in Persists =>
       \/ phase' = phase /\ done' = done
       \/ phase = "compacting"]_loopVars

\* Whoever awaits runToolLoop gets an outcome, whatever hangs: a worker is
\* never stuck with its one turn.
LoopSettles == phase # "idle" ~> settled # "pending"
=============================================================================
