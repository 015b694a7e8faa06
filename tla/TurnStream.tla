----------------------------- MODULE TurnStream -----------------------------
(***************************************************************************)
(* One turn as the browser watches it: the worker writes the turn's rows   *)
(* and publishes its events on the message's Redis channel, the gateway's  *)
(* stream endpoint joins what Postgres holds with what the channel says,   *)
(* and a browser tab shows what arrives.  Redis keeps nothing: an event    *)
(* reaches exactly the connections that are subscribed when it is          *)
(* published.  What a worker does to the rows of a turn is WorkerTurn's    *)
(* subject; here only the order of its writes and its events matters.      *)
(***************************************************************************)
EXTENDS Naturals, Sequences, FiniteSets, SequencesExt

CONSTANTS
    Viewers,        \* browser tabs that watch the turn
    Calls,          \* the tool calls the turn can make
    NumChunks,      \* bound: tokens that one attempt of the turn publishes
    Kinds,          \* "chat" and "direct" turns, a subset of both
    MaxCrashes,     \* deaths of a worker, and failed publications of an end
    MaxDrops        \* broken connections of a tab

ASSUME StreamAssumption ==
    /\ NumChunks \in Nat \ {0}
    /\ Kinds \in (SUBSET {"chat", "direct"}) \ {{}}
    /\ MaxCrashes \in Nat
    /\ MaxDrops \in Nat

VARIABLES
    kind,           \* whether the user's message invokes a tool directly
    status,         \* the user row's status
    requested,      \* calls whose request row is written
    resulted,       \* calls whose result row is written
    replied,        \* whether the final reply's row is written
    reply,          \* and its content
    wpc,            \* where the worker that owns the turn is
    cur,            \* the call it is busy with
    said,           \* tokens it has published, of every round
    round,          \* of these, the ones before the round under way
    last,           \* lastAssistantText
    crashes,
    unheard,        \* the turn ended and its end will never be published
    pc,             \* viewer -> where its stream request is
    buffered,       \* viewer -> events its subscriber has and has not handled
    skip,           \* viewer -> bufferedCallIds
    view,           \* viewer -> what the tab shows of the turn
    heard,          \* viewer -> the end events this connection was sent
    joined,         \* viewer -> history: tokens published before it subscribed
    drops

vars == <<kind, status, requested, resulted, replied, reply, wpc, cur, said, round,
          last, crashes, unheard, pc, buffered, skip, view, heard, joined, drops>>

rows   == <<kind, status, requested, resulted, replied, reply>>
spoken == <<said, round, last>>
worker == <<wpc, cur, spoken, crashes, unheard>>
tabs   == <<pc, skip, view, heard, joined, drops>>

Nobody  == "nobody"
IsDone  == status = "done"
IsEnded == status \in {"done", "failed"}

\* The text of an attempt: its tokens are numbered as they are published, and a
\* piece of it is named by what was published before and at its end.
Tokens(from, to) == [i \in 1..(to - from) |-> from + i]

\* FALLBACK_MESSAGE, which is stored and never published.
Fallback == <<0>>

(***************************************************************************)
(* Events, and what the tab makes of them.                                 *)
(***************************************************************************)
Token(text)      == [type |-> "token", of |-> text]
ToolStart(call)  == [type |-> "tool_start", of |-> call]
ToolEnd(call)    == [type |-> "tool_end", of |-> call]
Done(content)    == [type |-> "done", of |-> content]
Error            == [type |-> "error", of |-> <<>>]
IsEnd(e)         == e.type \in {"done", "error"}

\* The assistant bubble: its steps in order, text and tool chips apart, and the
\* message's own list of tool calls, shown only by a bubble without steps.
Blank == [text |-> <<>>, chips |-> <<>>, tools |-> {}, state |-> "streaming"]
HasSteps(v) == v.text # <<>> \/ v.chips # <<>>

\* The reducer's turn/token, turn/toolStart, turn/toolEnd, turn/done and
\* turn/error: text and chips are appended, an end event's content is ignored,
\* and a tool_end is felt by the chips already there.
Show(v, e) ==
    CASE e.type = "token" -> [v EXCEPT !.text = @ \o e.of]
      [] e.type = "tool_start" ->
           [v EXCEPT !.chips = Append(@, [call |-> e.of, running |-> TRUE])]
      [] e.type = "tool_end" ->
           [v EXCEPT !.chips = [i \in DOMAIN @ |->
               IF @[i].call = e.of THEN [@[i] EXCEPT !.running = FALSE] ELSE @[i]]]
      [] OTHER -> [v EXCEPT !.state = e.type]

ShowAll(v, events) == FoldLeft(Show, v, events)

\* The gateway writes events to the response, the last of them an end or none.
Send(c, events, end) ==
    /\ view' = [view EXCEPT ![c] = ShowAll(@, events \o end)]
    /\ heard' = [heard EXCEPT ![c] = @ \o end]

\* Mutant: what arrives before the connection is live is not kept.
PublishToLive(e) ==
    buffered' = [c \in Viewers |->
        IF pc[c] = "live" THEN Append(buffered[c], e) ELSE buffered[c]]

Publish(e) ==
    buffered' = [c \in Viewers |->
        IF pc[c] \in {"subscribed", "unanswered", "replayed", "live"}
        THEN Append(buffered[c], e) ELSE buffered[c]]

StreamInit ==
    /\ kind \in Kinds
    /\ status = "pending"
    /\ requested = {} /\ resulted = {}
    /\ replied = FALSE /\ reply = <<>>
    /\ wpc = "down" /\ cur = Nobody
    /\ said = 0 /\ round = 0 /\ last = <<>>
    /\ crashes = 0 /\ unheard = FALSE
    /\ pc = [c \in Viewers |-> "closed"]
    /\ buffered = [c \in Viewers |-> <<>>]
    /\ skip = [c \in Viewers |-> {}]
    /\ view = [c \in Viewers |-> Blank]
    /\ heard = [c \in Viewers |-> <<>>]
    /\ joined = [c \in Viewers |-> 0]
    /\ drops = 0

-----------------------------------------------------------------------------
(***************************************************************************)
(* The worker.                                                             *)
(***************************************************************************)

\* A worker claims the turn, or reclaims it once its lease has lapsed, and
\* finds in the rows how far it got (reconcileTurnState).
\* Mutant: a direct turn with a request row counts as finished.
ReconcileUnanswered ==
    IF replied \/ (kind = "direct" /\ requested # {}) THEN "finish"
    ELSE IF requested # resulted THEN "pending"
    ELSE IF kind = "direct" THEN "direct" ELSE "loop"

Reconcile ==
    LET pending == requested \ resulted IN
    IF replied \/ (kind = "direct" /\ requested # {} /\ pending = {})
    THEN "finish"
    ELSE IF pending # {} THEN "pending"
    ELSE IF kind = "direct" /\ requested = {} THEN "direct" ELSE "loop"

Claim ==
    /\ wpc = "down"
    /\ status \in {"pending", "processing"}
    /\ status' = "processing"
    /\ wpc' = Reconcile
    /\ cur' = Nobody
    /\ said' = 0 /\ round' = 0 /\ last' = <<>>
    /\ UNCHANGED <<kind, requested, resulted, replied, reply, crashes, unheard,
                   buffered, tabs>>

\* A pending call of a read-only tool runs again; no event tells of it.
Rerun ==
    /\ wpc = "pending"
    /\ resulted' = requested
    /\ wpc' = IF kind = "direct" THEN "finish" ELSE "loop"
    /\ UNCHANGED <<kind, status, requested, replied, reply, cur, spoken, crashes, unheard,
                   buffered, tabs>>

\* A round of the tool loop asks for a call, after the text it may have streamed:
\* checkpoint 1 precedes the call's tool_start.
Request(call) ==
    /\ wpc = "loop"
    /\ call \notin requested
    /\ requested' = requested \cup {call}
    /\ cur' = call
    /\ wpc' = "requested"
    /\ last' = IF said > round THEN Tokens(round, said) ELSE last
    /\ round' = said
    /\ UNCHANGED <<kind, status, resulted, replied, reply, said, crashes, unheard,
                   buffered, tabs>>

\* The deadline has passed at the top of a later round: the answer-now retry.
AnswerNow ==
    /\ wpc = "loop" /\ said = round
    /\ cur # Nobody
    /\ wpc' = "answering"
    /\ UNCHANGED <<rows, cur, spoken, crashes, unheard, buffered, tabs>>

StartCall ==
    /\ wpc = "requested"
    /\ Publish(ToolStart(cur))
    /\ wpc' = IF kind = "direct" THEN "request" ELSE "running"
    /\ UNCHANGED <<rows, cur, spoken, crashes, unheard, tabs>>

EndCall ==
    /\ \/ kind = "chat" /\ wpc = "running" /\ wpc' = "ran"
       \/ wpc = "recorded" /\ wpc' = "finish"
    /\ Publish(ToolEnd(cur))
    /\ UNCHANGED <<rows, cur, spoken, crashes, unheard, tabs>>

\* Checkpoint 2: after the tool_end in the loop, before it in a direct turn.
RecordResult ==
    /\ \/ wpc = "ran" /\ wpc' = "loop"
       \/ kind = "direct" /\ wpc = "running" /\ wpc' = "recorded"
    /\ resulted' = resulted \cup {cur}
    /\ UNCHANGED <<kind, status, requested, replied, reply, cur, spoken, crashes, unheard,
                   buffered, tabs>>

\* runDirectToolTurn: the tool_start precedes checkpoint 1.
Direct(call) ==
    /\ wpc = "direct"
    /\ call \notin requested
    /\ cur' = call
    /\ wpc' = "requested"
    /\ UNCHANGED <<rows, spoken, crashes, unheard, buffered, tabs>>

DirectRequest ==
    /\ wpc = "request"
    /\ requested' = requested \cup {cur}
    /\ wpc' = "running"
    /\ UNCHANGED <<kind, status, resulted, replied, reply, cur, spoken, crashes, unheard,
                   buffered, tabs>>

\* The text of a round, whether or not calls follow it, and of the retry.
PublishToken ==
    /\ wpc \in {"loop", "answering"} /\ said < NumChunks
    /\ Publish(Token(<<said + 1>>))
    /\ said' = said + 1
    /\ UNCHANGED <<rows, wpc, cur, round, last, crashes, unheard, tabs>>

\* Checkpoint 3.  A round without calls is the reply, empty or not, and so is a
\* retry that said something.  One that did not, or broke off, leaves the text
\* of an earlier round or the fallback.
InsertReply ==
    /\ \/ wpc = "loop" /\ reply' = Tokens(round, said)
       \/ wpc = "answering" /\ said > round /\ reply' = Tokens(round, said)
       \/ wpc = "answering" /\ reply' = IF last # <<>> THEN last ELSE Fallback
    /\ replied' = TRUE
    /\ wpc' = "finish"
    /\ UNCHANGED <<kind, status, requested, resulted, cur, spoken, crashes, unheard,
                   buffered, tabs>>

MarkDone ==
    /\ wpc = "finish"
    /\ status' = "done"
    /\ wpc' = "tell"
    /\ UNCHANGED <<kind, requested, resulted, replied, reply, cur, spoken, crashes, unheard,
                   buffered, tabs>>

\* A blocked mutation, or an error anywhere before the turn is marked.
MarkFailed ==
    /\ wpc \in {"pending", "loop", "answering", "requested", "running", "ran",
                "direct", "request", "recorded", "finish"}
    /\ status' = "failed"
    /\ wpc' = "tell"
    /\ UNCHANGED <<kind, requested, resulted, replied, reply, cur, spoken, crashes, unheard,
                   buffered, tabs>>

\* The end is published after it is durable.
Tell ==
    /\ wpc = "tell"
    /\ Publish(IF IsDone THEN Done(reply) ELSE Error)
    /\ wpc' = "over"
    /\ UNCHANGED <<rows, cur, spoken, crashes, unheard, tabs>>

\* The worker dies, or its publication of the end fails: a turn that is
\* already settled is not taken up again and nobody publishes its end.
CrashWorker ==
    /\ wpc \notin {"down", "over"}
    /\ crashes < MaxCrashes
    /\ crashes' = crashes + 1
    /\ unheard' = IsEnded
    /\ wpc' = IF IsEnded THEN "over" ELSE "down"
    /\ UNCHANGED <<rows, cur, spoken, buffered, tabs>>

\* sweepExhaustedLeases: the row fails with no event.
Sweep ==
    /\ wpc = "down" /\ status = "processing"
    /\ status' = "failed"
    /\ wpc' = "over"
    /\ unheard' = TRUE
    /\ UNCHANGED <<kind, requested, resulted, replied, reply, cur, spoken, crashes, buffered,
                   tabs>>

-----------------------------------------------------------------------------
(***************************************************************************)
(* The stream endpoint, one await at a time.                               *)
(***************************************************************************)

\* The tab opens its EventSource and the gateway subscribes to the channel.
Subscribe(c) ==
    /\ pc[c] = "closed" /\ view[c].state = "streaming"
    /\ pc' = [pc EXCEPT ![c] = "subscribed"]
    /\ buffered' = [buffered EXCEPT ![c] = <<>>]
    /\ heard' = [heard EXCEPT ![c] = <<>>]
    /\ joined' = [joined EXCEPT ![c] = said]
    /\ UNCHANGED <<rows, worker, skip, view, drops>>

\* Mutant: the finished reply is sent without the early return.
CheckReplyFallsThrough(c) ==
    /\ pc[c] = "subscribed"
    /\ Send(c, IF replied THEN <<Token(reply)>> ELSE <<>>,
               IF replied THEN <<Done(reply)>> ELSE <<>>)
    /\ pc' = [pc EXCEPT ![c] = "unanswered"]
    /\ UNCHANGED <<rows, worker, buffered, skip, joined, drops>>

\* getReply: a finished reply is sent from Postgres.  Otherwise the calls of
\* the events that have arrived so far are remembered.
CheckReply(c) ==
    /\ pc[c] = "subscribed"
    /\ UNCHANGED <<rows, worker, buffered, joined, drops>>
    /\ \/ /\ replied
          /\ Send(c, <<Token(reply)>>, <<Done(reply)>>)
          /\ pc' = [pc EXCEPT ![c] = "ended"]
          /\ UNCHANGED skip
       \/ /\ ~replied
          /\ \E arrived \in 0..Len(buffered[c]) :
                skip' = [skip EXCEPT ![c] =
                    {buffered[c][i].of : i \in
                       {j \in 1..arrived : buffered[c][j].type \in {"tool_start", "tool_end"}}}]
          /\ pc' = [pc EXCEPT ![c] = "unanswered"]
          /\ UNCHANGED <<view, heard>>

\* getMessagesByReplyTo: the persisted calls are replayed, save those.
Replayed(c) ==
    LET due == SetToSeq(requested \ skip[c])
        \* a call's tool_start, and its tool_end if it has a result
        eventsOf(call) == IF call \in resulted THEN <<ToolStart(call), ToolEnd(call)>>
                          ELSE <<ToolStart(call)>>
    IN  FlattenSeq([i \in DOMAIN due |-> eventsOf(due[i])])

ReplayTools(c) ==
    /\ pc[c] = "unanswered"
    /\ Send(c, Replayed(c), <<>>)
    /\ pc' = [pc EXCEPT ![c] = "replayed"]
    /\ UNCHANGED <<rows, worker, buffered, skip, joined, drops>>

\* Mutant: the status is the one read before the subscription.
CheckStatusStale(c) ==
    /\ pc[c] = "replayed"
    /\ pc' = [pc EXCEPT ![c] = "live"]
    /\ UNCHANGED <<rows, worker, buffered, skip, view, heard, joined, drops>>

\* Mutant: only a done turn ends the stream here.
CheckStatusDoneOnly(c) ==
    /\ pc[c] = "replayed"
    /\ Send(c, <<>>, IF IsDone THEN <<Done(<<>>)>> ELSE <<>>)
    /\ pc' = [pc EXCEPT ![c] = IF IsDone THEN "ended" ELSE "live"]
    /\ UNCHANGED <<rows, worker, buffered, skip, joined, drops>>

\* The status is read afresh: a settled turn ends the stream, any other makes
\* the connection live.
CheckStatus(c) ==
    /\ pc[c] = "replayed"
    /\ Send(c, <<>>, IF IsDone THEN <<Done(<<>>)>>
                     ELSE IF status = "failed" THEN <<Error>> ELSE <<>>)
    /\ pc' = [pc EXCEPT ![c] = IF IsEnded THEN "ended" ELSE "live"]
    /\ UNCHANGED <<rows, worker, buffered, skip, joined, drops>>

\* Mutant: the newest buffered event first.
DeliverNewest(c) ==
    /\ pc[c] = "live" /\ buffered[c] # <<>>
    /\ LET e == Last(buffered[c]) IN
        IF IsEnd(e) THEN Send(c, <<>>, <<e>>) /\ pc' = [pc EXCEPT ![c] = "ended"]
        ELSE Send(c, <<e>>, <<>>) /\ UNCHANGED pc
    /\ buffered' = [buffered EXCEPT ![c] = Front(@)]
    /\ UNCHANGED <<rows, worker, skip, joined, drops>>

\* deliver: the buffered events in their order, and then each as it arrives.
Deliver(c) ==
    /\ pc[c] = "live" /\ buffered[c] # <<>>
    /\ LET e == Head(buffered[c]) IN
        IF IsEnd(e) THEN Send(c, <<>>, <<e>>) /\ pc' = [pc EXCEPT ![c] = "ended"]
        ELSE Send(c, <<e>>, <<>>) /\ UNCHANGED pc
    /\ buffered' = [buffered EXCEPT ![c] = Tail(@)]
    /\ UNCHANGED <<rows, worker, skip, joined, drops>>

\* onDone fetches the turn's calls and dispatches turn/toolsReconciled.
ReconcileTools(c) ==
    /\ pc[c] = "ended" /\ view[c].state = "done"
    /\ view' = [view EXCEPT ![c].tools = requested, ![c].state = "reconciled"]
    /\ UNCHANGED <<rows, worker, pc, buffered, skip, heard, joined, drops>>

\* The connection breaks and the browser's EventSource opens it again, with
\* the same handlers on the same bubble.
Drop(c) ==
    /\ pc[c] \notin {"closed", "ended"}
    /\ drops < MaxDrops
    /\ drops' = drops + 1
    /\ pc' = [pc EXCEPT ![c] = "closed"]
    /\ UNCHANGED <<rows, worker, buffered, skip, view, heard, joined>>

-----------------------------------------------------------------------------
WorkerStep ==
    \/ Claim
    \/ Rerun
    \/ \E call \in Calls : Request(call)
    \/ AnswerNow
    \/ StartCall
    \/ EndCall
    \/ RecordResult
    \/ \E call \in Calls : Direct(call)
    \/ DirectRequest
    \/ PublishToken
    \/ InsertReply
    \/ MarkDone
    \/ Tell

StreamStep(c) ==
    \/ Subscribe(c)
    \/ CheckReply(c)
    \/ ReplayTools(c)
    \/ CheckStatus(c)
    \/ Deliver(c)
    \/ ReconcileTools(c)

StreamNext ==
    \/ WorkerStep
    \/ MarkFailed
    \/ CrashWorker
    \/ Sweep
    \/ \E c \in Viewers : StreamStep(c) \/ Drop(c)

\* A worker makes progress, or dies and another one polls; a gateway answers a
\* request and a browser opens its stream.  Nothing has to fail or to drop.
StreamFairness ==
    /\ WF_vars(WorkerStep)
    /\ \A c \in Viewers : WF_vars(StreamStep(c))

StreamSpec == StreamInit /\ [][StreamNext]_vars /\ StreamFairness

-----------------------------------------------------------------------------
IsEvent(e) ==
    \/ e.type \in {"token", "done"} /\ e.of \in Seq(0..NumChunks)
    \/ e.type \in {"tool_start", "tool_end"} /\ e.of \in Calls
    \/ e = Error

\* Type correctness of the turn's rows, the worker's place in them and every
\* connection's buffer and bubble (processMessage, the stream endpoint, the store).
StreamTypeOK ==
    /\ kind \in Kinds
    /\ status \in {"pending", "processing", "done", "failed"}
    /\ resulted \subseteq requested /\ requested \subseteq Calls
    /\ replied \in BOOLEAN /\ unheard \in BOOLEAN
    /\ {reply, last} \subseteq Seq(0..NumChunks)
    /\ wpc \in {"down", "pending", "loop", "answering", "requested", "running", "ran",
                "direct", "request", "recorded", "finish", "tell", "over"}
    /\ cur \in Calls \cup {Nobody}
    /\ said \in 0..NumChunks /\ round \in 0..said
    /\ crashes \in 0..MaxCrashes /\ drops \in 0..MaxDrops
    /\ \A c \in Viewers :
        /\ pc[c] \in {"closed", "subscribed", "unanswered", "replayed", "live", "ended"}
        /\ \A i \in DOMAIN buffered[c] : IsEvent(buffered[c][i])
        /\ skip[c] \subseteq Calls
        /\ view[c].state \in {"streaming", "done", "error", "reconciled"}

\* A connection is sent one end event, whichever of the three places that send
\* one gets to it first, and is over from then on (cleanup's closed flag).
OneEnd ==
    \A c \in Viewers :
        /\ Len(heard[c]) <= 1
        /\ pc[c] # "closed" => (Len(heard[c]) = 1 <=> pc[c] = "ended")

\* A tab is told that its turn ended only of a turn whose outcome is stored: its
\* reply's row, a direct call's result, or its failure.
EndIsDurable ==
    \A c \in Viewers : \A i \in DOMAIN heard[c] :
        IF heard[c][i] = Error THEN status = "failed"
        ELSE replied \/ (kind = "direct" /\ resulted # {})

\* A connection that waits for live events never waits for an end that was
\* published before it listened: the end is in its buffer, or about to be
\* published, or nobody will publish it (subscribe before the checks, and the
\* fresh read of the status before flushing).
NoEndMissed ==
    \A c \in Viewers :
        pc[c] = "live" /\ IsEnded =>
            \/ wpc = "tell"
            \/ unheard
            \/ \E i \in DOMAIN buffered[c] : IsEnd(buffered[c][i])

\* As long as neither a worker nor a connection broke, a tab shows the text that
\* the turn's rounds streamed from the moment it subscribed, without gap or
\* repetition, up to the last token once the reply is announced to it; or, told by
\* Postgres, the reply and nothing else (buffer, flush and Postgres do not overlap).
TextIsContiguous ==
    crashes = 0 /\ drops = 0 =>
        \A c \in Viewers :
            \/ replied /\ view[c].text = reply
            \/ \E n \in joined[c]..said :
                /\ view[c].text = Tokens(joined[c], n)
                /\ heard[c] = <<Done(reply)>> /\ reply # <<>> => n = said

\* Every watched turn comes to an end on the screen.  Of a turn whose end nobody
\* published only a connection that was live by then is left without one: who
\* joins or comes back later is told by Postgres.
WatchersAnswered ==
    \A c \in Viewers :
        (pc[c] # "closed") ~> (view[c].state # "streaming" \/ (unheard /\ pc[c] = "live"))

\* index.ts says a status of done without a stored reply is "reachable ONLY for a
\* direct-tool turn": so the end of any other turn brings its reply.
DoneBringsReply ==
    \A c \in Viewers :
        heard[c] # <<>> /\ heard[c][1].type = "done" /\ kind = "chat" =>
            heard[c][1].of = reply

\* api.ts says a resumed connection "picks up right where it left off": no part
\* of the reply is shown twice.
NoTextTwice ==
    crashes = 0 => \A c \in Viewers : IsInjective(view[c].text)

\* index.ts says of the reply it has just stored that the loop "already streamed
\* this message": the bubble of a tab that was there from the first token on ends
\* with the reply once its done event is shown.
ReplyRendered ==
    crashes = 0 /\ drops = 0 =>
        \A c \in Viewers :
            joined[c] = 0 /\ heard[c] = <<Done(reply)>> => IsSuffix(reply, view[c].text)

\* index.ts says the replay skips what is delivered live, as "replaying one we're
\* about to deliver live anyway would render it twice".
NoCallTwice ==
    \A c \in Viewers : IsInjective([i \in DOMAIN view[c].chips |-> view[c].chips[i].call])

\* index.ts says of the replay that "a reconnect/reload doesn't lose tool
\* progress": a live tab with nothing left to hear shows every call that ended.
ProgressShown ==
    \A c \in Viewers :
        pc[c] = "live" /\ buffered[c] = <<>> =>
            \A call \in resulted :
                \E i \in DOMAIN view[c].chips : view[c].chips[i].call = call

\* The store says toolsReconciled is there for "a stale running chip with no
\* tool_end to clear it": after it no chip of the bubble is running.
NoStaleChip ==
    \A c \in Viewers :
        view[c].state = "reconciled" /\ HasSteps(view[c]) =>
            \A i \in DOMAIN view[c].chips : ~view[c].chips[i].running
=============================================================================
