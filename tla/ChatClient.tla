----------------------------- MODULE ChatClient -----------------------------
(***************************************************************************)
(* One browser tab: the store of its conversations, the event streams it   *)
(* holds open, and its requests under way.  Every request is answered some *)
(* time later, with what the server held when it served it, while the user *)
(* clicks on, streams end and the background refresh polls.                *)
(*                                                                         *)
(* The server is here only what the tab can see of it: which user messages *)
(* a conversation has and whether each is answered.  A stream is opened,   *)
(* ends with its turn, or is given up; what it carries is TurnStream's     *)
(* subject.                                                                *)
(***************************************************************************)
EXTENDS Naturals, Sequences, FiniteSets, SequencesExt

CONSTANTS
    Convs,          \* conversations
    NumMessages,    \* bound: messages posted, by this tab or another one
    MaxStreams,     \* bound: streams open at once
    MaxLists        \* bound: conversation lists under way at once

ASSUME ClientAssumption ==
    {NumMessages, MaxStreams, MaxLists} \subseteq Nat

VARIABLES
    log,            \* server: conversation -> its user messages in order
    stat,           \* server: message -> "unposted", "pending", "done", "failed"
    gone,           \* server: deleted conversations
    known,          \* the conversations of the sidebar
    ent,            \* convState: conversation -> its entry
    open,           \* the open EventSources
    deaf,           \* of these, the ones connected to a turn whose end nobody told them
    posts,          \* conversation -> its POSTs under way, each its message or 0
    loads,          \* conversation -> its loadConversation under way (resumingRef)
    lists           \* conversation lists read by the server and not yet here

vars == <<log, stat, gone, known, ent, open, deaf, posts, loads, lists>>
server == <<log, stat, gone>>

Ids  == 1..NumMessages
None == 0
Unsettled(m) == stat[m] = "pending"

Unposted == {m \in Ids : stat[m] = "unposted"}
NextId   == CHOOSE m \in Unposted : \A k \in Unposted : m <= k

\* The bound leaves room for another message, the POSTs under way counted.
MorePosts ==
    Cardinality(Unposted)
      > Cardinality({s \in Convs \X Ids : s[2] \in DOMAIN posts[s[1]] /\ posts[s[1]][s[2]] = None})

(***************************************************************************)
(* The store.  A message of an entry is a user's, a stored reply, or the   *)
(* bubble that stands for a reply under way ("pending-" and the user       *)
(* message's id).  A conversation without an entry reads as the empty one. *)
(***************************************************************************)
User(m)   == [what |-> "user", of |-> m]
Answer(m) == [what |-> "reply", of |-> m]
Bubble(m) == [what |-> "bubble", of |-> m]

EmptyEntry == [messages |-> <<>>, historyLoaded |-> FALSE, submitting |-> FALSE,
               sending |-> None, closeStream |-> None]
Shows(e, msg) == \E i \in DOMAIN e.messages : e.messages[i] = msg

\* The reducer's actions, as functions of an entry.
HistoryLoaded(e, messages) == [e EXCEPT !.messages = messages, !.historyLoaded = TRUE]
SendStarted(e) == [e EXCEPT !.submitting = TRUE]
SendFailed(e)  == [e EXCEPT !.submitting = FALSE]
TurnStarted(e, m, stream) ==
    IF Shows(e, Bubble(m)) THEN e
    ELSE [e EXCEPT !.messages = @ \o <<User(m), Bubble(m)>>, !.submitting = FALSE,
                   !.sending = m, !.closeStream = stream]
TurnAttached(e, m, stream) ==
    [e EXCEPT !.messages = IF Shows(e, Bubble(m)) THEN @ ELSE Append(@, Bubble(m)),
              !.sending = m, !.closeStream = stream]
\* Mutants: a handler that forgets the handle, or the turn.
TurnOverKeepsHandle(e) == [e EXCEPT !.sending = None]
TurnOverKeepsTurn(e) == [e EXCEPT !.closeStream = None]

TurnOver(e) == [e EXCEPT !.sending = None, !.closeStream = None]
TurnFailed(e, m) ==
    [e EXCEPT !.messages = IF Shows(e, Bubble(m)) THEN @ ELSE Append(@, Bubble(m))]

(***************************************************************************)
(* What the server answers.                                                *)
(***************************************************************************)
HistoryOf(c) ==
    FlattenSeq([i \in DOMAIN log[c] |->
        IF stat[log[c][i]] = "done" THEN <<User(log[c][i]), Answer(log[c][i])>>
        ELSE <<User(log[c][i])>>])

\* findOutstandingUserMessage of a history: its last user message, if it is not
\* answered.
OutstandingInHistory(c) ==
    IF log[c] # <<>> /\ stat[Last(log[c])] # "done" THEN Last(log[c]) ELSE None

\* listConversations: the last user message that is not answered.
OutstandingInList(c) ==
    LET left == {i \in DOMAIN log[c] : stat[log[c][i]] # "done"} IN
    IF c \in gone \/ left = {} THEN None
    ELSE log[c][CHOOSE i \in left : \A k \in left : k <= i]

Idle  == [stage |-> "idle", messages |-> <<>>, outstanding |-> None, failed |-> FALSE]
Asked == [Idle EXCEPT !.stage = "asked"]

\* An EventSource of a message, under a free number.
FreeStreams == {n \in 1..MaxStreams : \A s \in open : s.n # n}
NewStream(c, m) ==
    [n |-> CHOOSE n \in FreeStreams : TRUE, conv |-> c, of |-> m]

ClientInit ==
    /\ log = [c \in Convs |-> <<>>]
    /\ stat = [m \in Ids |-> "unposted"]
    /\ gone = {} /\ known = Convs
    \* a conversation this tab has just created counts as loaded
    /\ ent \in [Convs -> {EmptyEntry, HistoryLoaded(EmptyEntry, <<>>)}]
    /\ open = {} /\ deaf = {}
    /\ posts = [c \in Convs |-> <<>>]
    /\ loads = [c \in Convs |-> Idle]
    /\ lists = {}

-----------------------------------------------------------------------------
(***************************************************************************)
(* The server and the other tab.                                           *)
(***************************************************************************)

\* Turns of a conversation are answered one after the other.  Connected streams
\* that miss the end stay open and are told nothing: the worker died between
\* markMessageDone and the event, or a sweep failed the row without one.
Settle(c) ==
    /\ \E i \in DOMAIN log[c] :
        /\ Unsettled(log[c][i])
        /\ \A k \in 1..(i - 1) : ~Unsettled(log[c][k])
        /\ \E s \in {"done", "failed"} : stat' = [stat EXCEPT ![log[c][i]] = s]
        /\ \E missed \in SUBSET {s \in open : s.of = log[c][i]} : deaf' = deaf \cup missed
    /\ UNCHANGED <<log, gone, known, ent, open, posts, loads, lists>>

Enter(c, m) ==
    /\ log' = [log EXCEPT ![c] = Append(@, m)]
    /\ stat' = [stat EXCEPT ![m] = "pending"]

ForeignPost(c) ==
    /\ c \notin gone /\ MorePosts
    /\ Enter(c, NextId)
    /\ UNCHANGED <<gone, known, ent, open, deaf, posts, loads, lists>>

-----------------------------------------------------------------------------
(***************************************************************************)
(* handleSend: the guard and send/started run at the click, the rest once  *)
(* the POST is answered.                                                   *)
(***************************************************************************)
\* Mutant: only a confirmed turn blocks.
MaySendUnlessConfirmed(e) == e.sending = None

MaySend(e) == e.sending = None /\ ~e.submitting

Send(c) ==
    /\ c \in known /\ MaySend(ent[c])
    /\ MorePosts
    /\ ent' = [ent EXCEPT ![c] = SendStarted(@)]
    /\ posts' = [posts EXCEPT ![c] = Append(@, None)]
    /\ UNCHANGED <<server, known, open, deaf, loads, lists>>

PostArrives(c) ==
    /\ c \notin gone
    /\ \E i \in DOMAIN posts[c] :
        /\ posts[c][i] = None
        /\ Enter(c, NextId)
        /\ posts' = [posts EXCEPT ![c][i] = NextId]
    /\ UNCHANGED <<gone, known, ent, open, deaf, loads, lists>>

\* beginStream with the user's message: the stream is open whether or not
\* turn/started takes it.
PostAnswered(c) ==
    \E i \in DOMAIN posts[c] :
        /\ posts[c][i] # None /\ FreeStreams # {}
        /\ LET stream == NewStream(c, posts[c][i]) IN
           /\ open' = open \cup {stream}
           /\ ent' = [ent EXCEPT ![c] = TurnStarted(@, posts[c][i], stream.n)]
        /\ posts' = [posts EXCEPT ![c] = RemoveAt(@, i)]
        /\ UNCHANGED <<server, known, deaf, loads, lists>>

\* The request or its answer is lost.
PostFails(c) ==
    /\ \E i \in DOMAIN posts[c] : posts' = [posts EXCEPT ![c] = RemoveAt(@, i)]
    /\ ent' = [ent EXCEPT ![c] = SendFailed(@)]
    /\ UNCHANGED <<server, known, open, deaf, loads, lists>>

-----------------------------------------------------------------------------
(***************************************************************************)
(* loadConversation, from ensureLoaded and ensureOutstandingAttached, under*)
(* resumingRef: one per conversation at a time.                            *)
(***************************************************************************)
EnsureLoaded(c) ==
    /\ c \in known
    /\ ~ent[c].historyLoaded /\ loads[c] = Idle
    /\ loads' = [loads EXCEPT ![c] = Asked]
    /\ UNCHANGED <<server, known, ent, open, deaf, posts, lists>>

ReadHistory(c) ==
    /\ loads[c] = Asked /\ c \notin gone
    /\ loads' = [loads EXCEPT ![c] =
         [stage |-> "read", messages |-> HistoryOf(c), outstanding |-> OutstandingInHistory(c),
          failed |-> OutstandingInHistory(c) # None /\ stat[OutstandingInHistory(c)] = "failed"]]
    /\ UNCHANGED <<server, known, ent, open, deaf, posts, lists>>

LoadAnswered(c) ==
    LET load   == loads[c]
        loaded == HistoryLoaded(ent[c], load.messages)
    IN  /\ load.stage = "read"
        /\ loads' = [loads EXCEPT ![c] = Idle]
        /\ \/ /\ load.outstanding = None
              /\ ent' = [ent EXCEPT ![c] = loaded]
              /\ UNCHANGED open
           \/ /\ load.outstanding # None /\ load.failed
              /\ ent' = [ent EXCEPT ![c] = TurnFailed(loaded, load.outstanding)]
              /\ UNCHANGED open
           \/ /\ load.outstanding # None /\ ~load.failed /\ FreeStreams # {}
              /\ LET stream == NewStream(c, load.outstanding) IN
                 /\ open' = open \cup {stream}
                 /\ ent' = [ent EXCEPT ![c] =
                              TurnAttached(loaded, load.outstanding, stream.n)]
        /\ UNCHANGED <<server, known, deaf, posts, lists>>

LoadFails(c) ==
    /\ loads[c] # Idle
    /\ loads' = [loads EXCEPT ![c] = Idle]
    /\ UNCHANGED <<server, known, ent, open, deaf, posts, lists>>

\* refreshConversations: every 20 seconds, and after a send, a done and an error.
ReadList ==
    /\ Cardinality(lists) < MaxLists
    /\ lists' = lists \cup {[c \in Convs |-> OutstandingInList(c)]}
    /\ UNCHANGED <<server, known, ent, open, deaf, posts, loads>>

\* Mutant: a conversation that was loaded once counts as attached.
AttachedOnceLoaded(e, m) == e.historyLoaded

Attached(e, m) == e.sending = m /\ e.closeStream # None

ListAnswered ==
    /\ \E list \in lists :
        /\ lists' = lists \ {list}
        /\ loads' = [c \in Convs |->
             IF list[c] # None /\ ~Attached(ent[c], list[c]) /\ loads[c] = Idle
             THEN Asked ELSE loads[c]]
    /\ UNCHANGED <<server, known, ent, open, deaf, posts>>

-----------------------------------------------------------------------------
(***************************************************************************)
(* Streams, and the deletion of a conversation.                            *)
(***************************************************************************)

\* turn/done and turn/error clear the entry's turn, whichever turn it is.
CloseWith(s) ==
    /\ open' = open \ {s} /\ deaf' = deaf \ {s}
    /\ ent' = [ent EXCEPT ![s.conv] = TurnOver(@)]
    /\ UNCHANGED <<server, known, posts, loads, lists>>

\* A published end, or the status the gateway reads as the stream connects.
StreamEnds(s) == stat[s.of] \in {"done", "failed"} /\ s \notin deaf /\ CloseWith(s)

\* The connection breaks and the browser opens it again.
Reconnect(s) ==
    /\ s \in deaf /\ deaf' = deaf \ {s}
    /\ UNCHANGED <<server, known, ent, open, posts, loads, lists>>

\* The browser gives up reconnecting, or the stream endpoint answers 404.
StreamGivesUp(s) == CloseWith(s)

\* The server deletes a conversation, a pending message's too.
DeleteServed(c) ==
    /\ c \notin gone /\ c \in known
    /\ gone' = gone \cup {c}
    /\ UNCHANGED <<log, stat, known, ent, open, deaf, posts, loads, lists>>

DeleteAnswered(c) ==
    /\ c \in gone \cap known
    /\ known' = known \ {c}
    /\ open' = {s \in open : s.conv # c \/ s.n # ent[c].closeStream}
    /\ deaf' = deaf \cap open'
    /\ ent' = [ent EXCEPT ![c] = EmptyEntry]
    /\ UNCHANGED <<server, posts, loads, lists>>

-----------------------------------------------------------------------------
ClientNext ==
    \/ \E c \in Convs :
        \/ Settle(c)
        \/ ForeignPost(c)
        \/ Send(c)
        \/ PostArrives(c)
        \/ PostAnswered(c)
        \/ PostFails(c)
        \/ EnsureLoaded(c)
        \/ ReadHistory(c)
        \/ LoadAnswered(c)
        \/ LoadFails(c)
        \/ DeleteServed(c)
        \/ DeleteAnswered(c)
    \/ \E s \in open : StreamEnds(s) \/ StreamGivesUp(s) \/ Reconnect(s)
    \/ ReadList
    \/ ListAnswered

\* The poll timer fires for ever and its answers arrive.  A history that is
\* asked for again and again is answered some time, even if requests fail in
\* between, and a stream that did not miss the end of its turn is told of it.
\* Nobody has to click, no turn has to be answered, and a connection that missed
\* an end need not break: the gateway's heartbeat keeps it open.
ClientFairness ==
    /\ WF_vars(ReadList) /\ WF_vars(ListAnswered)
    /\ \A c \in Convs : SF_vars(ReadHistory(c)) /\ SF_vars(LoadAnswered(c))
    /\ WF_vars(\E s \in open : StreamEnds(s))

ClientSpec == ClientInit /\ [][ClientNext]_vars /\ ClientFairness

-----------------------------------------------------------------------------
\* Type correctness of the store, the streams and the requests under way.
ClientTypeOK ==
    /\ \A m \in Ids : stat[m] \in {"unposted", "pending", "done", "failed"}
    /\ \A c \in Convs :
        /\ log[c] \in Seq(Ids) /\ IsInjective(log[c])
        /\ ent[c].sending \in Ids \cup {None}
        /\ ent[c].closeStream \in 0..MaxStreams
        /\ \A i \in DOMAIN posts[c] : posts[c][i] \in Ids \cup {None}
        /\ loads[c].stage \in {"idle", "asked", "read"}
    /\ \A s \in open : s.n \in 1..MaxStreams /\ s.of \in Ids
    /\ \A s, t \in open : s.n = t.n => s = t
    /\ deaf \subseteq {s \in open : ~Unsettled(s.of)}
    /\ gone \subseteq Convs /\ Convs \ known \subseteq gone

\* However fast the user clicks, one POST of a conversation is under way at a time
\* (the submitting flag, set before the request and kept by every handler that
\* runs meanwhile).
OneSendInFlight == \A c \in Convs : Len(posts[c]) <= 1

\* A composer blocked by a turn is blocked by one that some open stream still
\* follows, and the handle the store keeps is that of an open stream of its
\* conversation: no order of loads, answers and ends leaves either behind.
SendingIsFollowed ==
    \A c \in Convs :
        /\ ent[c].sending # None =>
            \E s \in open : s.conv = c /\ s.of = ent[c].sending
        /\ ent[c].closeStream # None =>
            \E s \in open : s.conv = c /\ s.n = ent[c].closeStream
        /\ ent[c].sending = None <=> ent[c].closeStream = None

\* An unanswered turn of a conversation is followed again some time, whatever
\* streams and requests died before: "not permanently lost" (App.tsx).
NotPermanentlyLost ==
    \A c \in Convs : \A m \in Ids :
        (Unsettled(m) /\ log[c] # <<>> /\ Last(log[c]) = m) ~>
            \/ \E s \in open : s.conv = c /\ s.of = m
            \/ ~Unsettled(m) \/ Last(log[c]) # m \/ c \in gone

\* The streams of m in c are all of them deaf to its end, and there are some.
OnlyDeafTo(c, m) ==
    LET followers == {s \in open : s.conv = c /\ s.of = m}
    IN  followers # {} /\ followers \subseteq deaf

\* A composer blocked by a turn that is settled is given back, whatever ends,
\* polls, loads and failures come in between, unless nothing but streams that
\* missed the turn's end follow it; and if one of these reconnects, again it is.
\* (The submitting flag may still keep the composer: SubmittingIsInFlight.)
TurnReleasesComposer ==
    \A c \in Convs : \A m \in Ids :
        (ent[c].sending = m /\ stat[m] \in {"done", "failed"}) ~>
            (ent[c].sending # m \/ OnlyDeafTo(c, m))

\* conversationStore.ts says submitting is "true from the instant a send is
\* dispatched [...] until the server has confirmed a real messageId [...] or the
\* send failed".
SubmittingIsInFlight == \A c \in Convs : ent[c].submitting => posts[c] # <<>>

\* FEATURE-slash-tools.md says "history/loaded is currently only dispatched before
\* any turn has started": so it never removes the bubble of one.
BubbleStays ==
    \A c \in Convs : ent[c].sending # None => Shows(ent[c], Bubble(ent[c].sending))

\* conversationStore.ts calls closeStream the "cleanup handle for this
\* conversation's currently-open EventSource": there is no other.
StreamsAreTracked == \A s \in open : ent[s.conv].closeStream = s.n
=============================================================================
