-------------------------- MODULE ChatClientProofs --------------------------
(***************************************************************************)
(* What the tab's store promises for every set of conversations and any    *)
(* number of messages and streams: one POST of a conversation under way at *)
(* a time, and a composer blocked by a turn that an open stream follows.   *)
(***************************************************************************)
EXTENDS ChatClient, TLAPS

IsEntry(e) ==
  DOMAIN e = {"messages", "historyLoaded", "submitting", "sending", "closeStream"}

\* What a message of the store's reducer leaves alone.
SameTurn(d, e)   == d.sending = e.sending /\ d.closeStream = e.closeStream
SameSubmit(d, e) == d.submitting = e.submitting

\* g is f but for what it has at d.
Changes(g, f, d, e) ==
  DOMAIN g = DOMAIN f /\ g[d] = e /\ \A c \in DOMAIN f \ {d} : g[c] = f[c]

LEMMA Changed ==
  ASSUME NEW f, NEW d \in DOMAIN f, NEW e
  PROVE  Changes([f EXCEPT ![d] = e], f, d, e) /\ Changes(f, f, d, f[d])
  BY DEF Changes

LEMMA LoadedEntry ==
  ASSUME NEW e, IsEntry(e), NEW x, NEW d, d = HistoryLoaded(e, x)
  PROVE  IsEntry(d) /\ SameTurn(d, e) /\ SameSubmit(d, e)
  BY DEF HistoryLoaded, IsEntry, SameTurn, SameSubmit

LEMMA StartedEntry ==
  ASSUME NEW e, IsEntry(e), NEW d, d = SendStarted(e)
  PROVE  IsEntry(d) /\ SameTurn(d, e) /\ d.submitting
  BY DEF SendStarted, IsEntry, SameTurn

LEMMA FailedSendEntry ==
  ASSUME NEW e, IsEntry(e), NEW d, d = SendFailed(e)
  PROVE  IsEntry(d) /\ SameTurn(d, e)
  BY DEF SendFailed, IsEntry, SameTurn

LEMMA TurnEntry ==
  ASSUME NEW e, IsEntry(e), NEW m, NEW n, NEW d, d = TurnStarted(e, m, n)
  PROVE  IsEntry(d) /\ (d = e \/ (d.sending = m /\ d.closeStream = n))
  BY DEF TurnStarted, IsEntry

LEMMA AttachedEntry ==
  ASSUME NEW e, IsEntry(e), NEW m, NEW n, NEW d, d = TurnAttached(e, m, n)
  PROVE  IsEntry(d) /\ SameSubmit(d, e) /\ d.sending = m /\ d.closeStream = n
  BY DEF TurnAttached, IsEntry, SameSubmit

LEMMA OverEntry ==
  ASSUME NEW e, IsEntry(e), NEW d, d = TurnOver(e)
  PROVE  IsEntry(d) /\ SameSubmit(d, e) /\ d.sending = None /\ d.closeStream = None
  BY DEF TurnOver, IsEntry, SameSubmit

LEMMA FailedTurnEntry ==
  ASSUME NEW e, IsEntry(e), NEW m, NEW d, d = TurnFailed(e, m)
  PROVE  IsEntry(d) /\ SameTurn(d, e) /\ SameSubmit(d, e)
  BY DEF TurnFailed, IsEntry, SameTurn, SameSubmit

\* Removing the only one of a sequence.
LEMMA RemoveOnly ==
  ASSUME NEW x, NEW i \in DOMAIN <<x>>
  PROVE  RemoveAt(<<x>>, i) = <<>>
  BY DEF RemoveAt

LEMMA StreamNumber ==
  ASSUME FreeStreams # {}, NEW c, NEW m
  PROVE  /\ NewStream(c, m).n # None
         /\ NewStream(c, m).conv = c /\ NewStream(c, m).of = m
  BY ClientAssumption DEF FreeStreams, NewStream, None

-----------------------------------------------------------------------------
(***************************************************************************)
(* A deleted conversation is no longer in the sidebar, and a send needs    *)
(* that; any other one is submitting while it has a POST under way.        *)
(***************************************************************************)
StoreShape ==
  /\ DOMAIN ent = Convs /\ DOMAIN posts = Convs
  /\ \A c \in Convs : IsEntry(ent[c])
  /\ \A s \in open : s.n # None

AtMostOnePost(c)    == posts[c] = <<>> \/ \E x : posts[c] = <<x>>
SubmitsItsPost(c) == c \in known /\ posts[c] # <<>> => ent[c].submitting

\* A turn and its handle are those of one open stream.
Followed(c) ==
  IF ent[c].sending = None THEN ent[c].closeStream = None
  ELSE \E s \in open : s.conv = c /\ s.of = ent[c].sending /\ s.n = ent[c].closeStream

StoreInv ==
  /\ StoreShape
  /\ \A c \in Convs : AtMostOnePost(c) /\ SubmitsItsPost(c) /\ Followed(c)

LEMMA StoreInit == ClientInit => StoreInv
<1> SUFFICES ASSUME ClientInit
             PROVE  StoreInv
  OBVIOUS
<1>1. IsEntry(EmptyEntry) /\ EmptyEntry.sending = None /\ EmptyEntry.closeStream = None
  BY DEF EmptyEntry, IsEntry
<1>2. PICK e : e = HistoryLoaded(EmptyEntry, <<>>)
  OBVIOUS
<1>3. IsEntry(e) /\ e.sending = None /\ e.closeStream = None
  BY <1>1, <1>2, LoadedEntry DEF SameTurn
<1>4. ent \in [Convs -> {EmptyEntry, e}]
  BY <1>2 DEF ClientInit
<1>5. ASSUME NEW c \in Convs
      PROVE  IsEntry(ent[c]) /\ ent[c].sending = None /\ ent[c].closeStream = None
  BY <1>1, <1>3, <1>4
<1>6. DOMAIN ent = Convs
  BY <1>4
<1> QED BY <1>5, <1>6 DEF ClientInit, StoreInv, StoreShape, AtMostOnePost, SubmitsItsPost, Followed

\* A step of one conversation d that may open streams, and closes none.
LEMMA OwnEntryStep ==
  ASSUME StoreInv, NEW d \in Convs, NEW e, NEW q,
         Changes(ent', ent, d, e), Changes(posts', posts, d, q),
         known' = known, open \subseteq open', \A s \in open' : s.n # None,
         IsEntry(e),
         q = <<>> \/ \E x : q = <<x>>,
         d \in known /\ q # <<>> => e.submitting,
         IF e.sending = None THEN e.closeStream = None
         ELSE \E s \in open' : s.conv = d /\ s.of = e.sending /\ s.n = e.closeStream
  PROVE  StoreInv'
<1>1. StoreShape'
  BY DEF StoreInv, StoreShape, Changes
<1>2. ent'[d] = e /\ posts'[d] = q
  BY DEF Changes
<1>3. ASSUME NEW c \in Convs
      PROVE  (AtMostOnePost(c) /\ SubmitsItsPost(c) /\ Followed(c))'
  <2>1. CASE c = d
    BY <1>2, <2>1 DEF AtMostOnePost, SubmitsItsPost, Followed
  <2>2. CASE c # d
    <3>1. ent'[c] = ent[c] /\ posts'[c] = posts[c]
      BY <2>2 DEF StoreInv, StoreShape, Changes
    <3> QED BY <3>1 DEF StoreInv, AtMostOnePost, SubmitsItsPost, Followed
  <2> QED BY <2>1, <2>2
<1> QED BY <1>1, <1>3 DEF StoreInv

\* The requests of a send.
LEMMA PostStep ==
  ASSUME StoreInv, NEW c \in Convs,
         Send(c) \/ PostArrives(c) \/ PostAnswered(c) \/ PostFails(c)
  PROVE  StoreInv'
<1>1. /\ IsEntry(ent[c]) /\ AtMostOnePost(c) /\ SubmitsItsPost(c) /\ Followed(c)
      /\ \A s \in open : s.n # None
      /\ c \in DOMAIN ent /\ c \in DOMAIN posts
  BY DEF StoreInv, StoreShape
<1>2. PICK e : e = ent[c]
  OBVIOUS
<1>3. CASE Send(c)
  <2>0. posts[c] = <<>>
    BY <1>1, <1>3, Zenon DEF Send, MaySend, SubmitsItsPost
  <2>1. Append(posts[c], None) = <<None>>
    BY <2>0
  <2>2. PICK d, q : d = SendStarted(e) /\ q = <<None>>
    OBVIOUS
  <2>3. IsEntry(d) /\ SameTurn(d, e) /\ d.submitting
    BY <1>1, <1>2, <2>2, StartedEntry
  <2>4. /\ Changes(ent', ent, c, d) /\ Changes(posts', posts, c, q)
        /\ known' = known /\ open' = open
    BY <1>1, <1>2, <1>3, <2>1, <2>2, Changed DEF Send
  <2> QED BY <1>1, <1>2, <2>2, <2>3, <2>4, OwnEntryStep DEF Followed, SameTurn
<1>4. CASE PostArrives(c)
  <2>1. PICK i \in DOMAIN posts[c] : posts' = [posts EXCEPT ![c] = [posts[c] EXCEPT ![i] = NextId]]
    BY <1>4 DEF PostArrives
  <2>2. PICK x : posts[c] = <<x>>
    BY <1>1, <2>1 DEF AtMostOnePost
  <2>3. PICK q : q = <<NextId>>
    OBVIOUS
  <2>4. [posts[c] EXCEPT ![i] = NextId] = q /\ posts[c] # <<>>
    BY <2>1, <2>2, <2>3
  <2>5. /\ Changes(ent', ent, c, e) /\ Changes(posts', posts, c, q)
        /\ known' = known /\ open' = open
    BY <1>1, <1>2, <1>4, <2>1, <2>4, Changed DEF PostArrives
  <2> QED BY <1>1, <1>2, <2>1, <2>3, <2>4, <2>5, OwnEntryStep DEF Followed, SubmitsItsPost
<1>5. CASE PostAnswered(c)
  <2>1. PICK i \in DOMAIN posts[c] :
          /\ posts[c][i] # None /\ FreeStreams # {}
          /\ LET stream == NewStream(c, posts[c][i]) IN
             /\ open' = open \cup {stream}
             /\ ent' = [ent EXCEPT ![c] = TurnStarted(@, posts[c][i], stream.n)]
          /\ posts' = [posts EXCEPT ![c] = RemoveAt(@, i)]
    BY <1>5 DEF PostAnswered
  <2>2. PICK m : posts[c] = <<m>>
    BY <1>1, <2>1 DEF AtMostOnePost
  <2>3. RemoveAt(posts[c], i) = <<>> /\ posts[c][i] = m
    BY <2>1, <2>2, RemoveOnly
  <2>4. PICK s, d : s = NewStream(c, m) /\ d = TurnStarted(e, m, s.n)
    OBVIOUS
  <2>5. s.n # None /\ s.conv = c /\ s.of = m
    BY <2>1, <2>4, StreamNumber
  <2>6. IsEntry(d) /\ (d = e \/ (d.sending = m /\ d.closeStream = s.n))
    BY <1>1, <1>2, <2>4, TurnEntry
  <2>7. PICK q : q = <<>>
    OBVIOUS
  <2>8. /\ Changes(ent', ent, c, d) /\ Changes(posts', posts, c, q)
        /\ known' = known /\ open' = open \cup {s} /\ m # None
    BY <1>1, <1>2, <1>5, Changed, <2>1, <2>3, <2>4, <2>7 DEF PostAnswered
  <2>9. IF d.sending = None THEN d.closeStream = None
        ELSE \E t \in open' : t.conv = c /\ t.of = d.sending /\ t.n = d.closeStream
    BY <1>1, <1>2, <2>5, <2>6, <2>8 DEF Followed
  <2> QED BY <1>1, <2>5, <2>6, <2>7, <2>8, <2>9, OwnEntryStep
<1>6. CASE PostFails(c)
  <2>1. PICK i \in DOMAIN posts[c] : posts' = [posts EXCEPT ![c] = RemoveAt(@, i)]
    BY <1>6 DEF PostFails
  <2>2. PICK m : posts[c] = <<m>>
    BY <1>1, <2>1 DEF AtMostOnePost
  <2>3. RemoveAt(posts[c], i) = <<>>
    BY <2>1, <2>2, RemoveOnly
  <2>4. PICK d, q : d = SendFailed(e) /\ q = <<>>
    OBVIOUS
  <2>5. IsEntry(d) /\ SameTurn(d, e)
    BY <1>1, <1>2, <2>4, FailedSendEntry
  <2>6. /\ Changes(ent', ent, c, d) /\ Changes(posts', posts, c, q)
        /\ known' = known /\ open' = open
    BY <1>1, <1>2, <1>6, Changed, <2>1, <2>3, <2>4 DEF PostFails
  <2> QED BY <1>1, <1>2, <2>4, <2>5, <2>6, OwnEntryStep DEF Followed, SameTurn
<1> QED BY <1>3, <1>4, <1>5, <1>6

\* The requests of a load.
LEMMA LoadStep ==
  ASSUME StoreInv, NEW c \in Convs, LoadAnswered(c)
  PROVE  StoreInv'
<1>1. /\ IsEntry(ent[c]) /\ AtMostOnePost(c) /\ SubmitsItsPost(c) /\ Followed(c)
      /\ \A s \in open : s.n # None
      /\ c \in DOMAIN ent /\ c \in DOMAIN posts
  BY DEF StoreInv, StoreShape
<1>2. PICK e, q, m, l : /\ e = ent[c] /\ q = posts[c] /\ m = loads[c].outstanding
                        /\ l = HistoryLoaded(e, loads[c].messages)
  OBVIOUS
<1>3. IsEntry(l) /\ SameTurn(l, e) /\ SameSubmit(l, e)
  BY <1>1, <1>2, LoadedEntry
<1>4. Changes(posts', posts, c, q) /\ known' = known
  BY <1>1, <1>2, Changed DEF LoadAnswered
<1>5. CASE /\ m = None
           /\ ent' = [ent EXCEPT ![c] = l]
           /\ UNCHANGED open
  <2>1. Changes(ent', ent, c, l)
    BY <1>1, <1>5, Changed
  <2>2. q = <<>> \/ \E x : q = <<x>>
    BY <1>1, <1>2 DEF AtMostOnePost
  <2>3. c \in known /\ q # <<>> => l.submitting
    BY <1>1, <1>2, <1>3 DEF SubmitsItsPost, SameSubmit
  <2> QED BY <1>1, <1>2, <1>3, <1>4, <1>5, <2>1, <2>2, <2>3, OwnEntryStep DEF Followed, SameTurn
<1>6. CASE /\ ent' = [ent EXCEPT ![c] = TurnFailed(l, m)]
           /\ UNCHANGED open
  <2>1. PICK d : d = TurnFailed(l, m)
    OBVIOUS
  <2>2. IsEntry(d) /\ SameTurn(d, l) /\ SameSubmit(d, l)
    BY <1>3, <2>1, FailedTurnEntry
  <2>3. Changes(ent', ent, c, d)
    BY <1>1, <1>6, <2>1, Changed
  <2>4. q = <<>> \/ \E x : q = <<x>>
    BY <1>1, <1>2 DEF AtMostOnePost
  <2>5. c \in known /\ q # <<>> => d.submitting
    BY <1>1, <1>2, <1>3, <2>2 DEF SubmitsItsPost, SameSubmit
  <2> QED BY <1>1, <1>2, <1>3, <1>4, <1>6, <2>2, <2>3, <2>4, <2>5, OwnEntryStep DEF Followed, SameTurn
<1>7. CASE /\ m # None /\ FreeStreams # {}
           /\ open' = open \cup {NewStream(c, m)}
           /\ ent' = [ent EXCEPT ![c] = TurnAttached(l, m, NewStream(c, m).n)]
  <2>1. PICK s, d : s = NewStream(c, m) /\ d = TurnAttached(l, m, s.n)
    OBVIOUS
  <2>2. s.n # None /\ s.conv = c /\ s.of = m
    BY <1>7, <2>1, StreamNumber
  <2>3. IsEntry(d) /\ SameSubmit(d, l) /\ d.sending = m /\ d.closeStream = s.n
    BY <1>3, <2>1, AttachedEntry
  <2>4. Changes(ent', ent, c, d)
    BY <1>1, <1>7, <2>1, Changed
  <2>5. q = <<>> \/ \E x : q = <<x>>
    BY <1>1, <1>2 DEF AtMostOnePost
  <2>6. c \in known /\ q # <<>> => d.submitting
    BY <1>1, <1>2, <1>3, <2>3 DEF SubmitsItsPost, SameSubmit
  <2> QED BY <1>1, <1>4, <1>7, <2>1, <2>2, <2>3, <2>4, <2>5, <2>6, OwnEntryStep
<1> QED BY <1>2, <1>5, <1>6, <1>7 DEF LoadAnswered

\* The end of a stream, which gives up whatever turn its conversation has.
LEMMA CloseStep ==
  ASSUME StoreInv, NEW s \in open, CloseWith(s)
  PROVE  StoreInv'
<1>1. open' = open \ {s} /\ posts' = posts /\ known' = known
  BY DEF CloseWith
<1>2. ASSUME NEW c \in Convs, c # s.conv
      PROVE  (IsEntry(ent[c]) /\ AtMostOnePost(c) /\ SubmitsItsPost(c) /\ Followed(c))'
  <2>1. ent'[c] = ent[c] /\ Followed(c)
    BY <1>2 DEF CloseWith, StoreInv, StoreShape
  <2>2. Followed(c)'
    BY <1>1, <1>2, <2>1 DEF Followed
  <2> QED BY <1>1, <2>1, <2>2 DEF StoreInv, StoreShape, AtMostOnePost, SubmitsItsPost
<1>3. ASSUME NEW c \in Convs, c = s.conv
      PROVE  (IsEntry(ent[c]) /\ AtMostOnePost(c) /\ SubmitsItsPost(c) /\ Followed(c))'
  <2>1. PICK e, d : e = ent[c] /\ d = TurnOver(e)
    OBVIOUS
  <2>2. IsEntry(d) /\ SameSubmit(d, e) /\ d.sending = None /\ d.closeStream = None
    BY <2>1, OverEntry DEF StoreInv, StoreShape
  <2>3. ent'[c] = d
    BY <1>3, <2>1 DEF CloseWith, StoreInv, StoreShape
  <2> QED BY <1>1, <2>1, <2>2, <2>3 DEF StoreInv, AtMostOnePost, SubmitsItsPost, Followed, SameSubmit
<1>4. DOMAIN ent' = Convs
  BY DEF CloseWith, StoreInv, StoreShape
<1> QED BY <1>1, <1>2, <1>3, <1>4 DEF StoreInv, StoreShape

\* The conversation is gone from the sidebar, its entry empty.
LEMMA DeleteStep ==
  ASSUME StoreInv, NEW c \in Convs, DeleteAnswered(c)
  PROVE  StoreInv'
<1>1. /\ known' = known \ {c} /\ posts' = posts
      /\ ent' = [ent EXCEPT ![c] = EmptyEntry]
      /\ open' = {s \in open : s.conv # c \/ s.n # ent[c].closeStream}
  BY DEF DeleteAnswered
<1>2. IsEntry(EmptyEntry) /\ EmptyEntry.sending = None /\ EmptyEntry.closeStream = None
  BY DEF EmptyEntry, IsEntry
<1>3. ASSUME NEW d \in Convs
      PROVE  (IsEntry(ent[d]) /\ AtMostOnePost(d) /\ SubmitsItsPost(d) /\ Followed(d))'
  <2>1. CASE d = c
    <3>1. ent'[d] = EmptyEntry /\ d \notin known'
      BY <1>1, <2>1 DEF StoreInv, StoreShape
    <3> QED BY <1>1, <1>2, <3>1 DEF StoreInv, AtMostOnePost, SubmitsItsPost, Followed
  <2>2. CASE d # c
    <3>1. ent'[d] = ent[d] /\ Followed(d) /\ SubmitsItsPost(d) /\ AtMostOnePost(d) /\ IsEntry(ent[d])
      BY <1>1, <2>2 DEF StoreInv, StoreShape
    <3>2. Followed(d)'
      BY <1>1, <2>2, <3>1 DEF Followed
    <3> QED BY <1>1, <3>1, <3>2 DEF AtMostOnePost, SubmitsItsPost
  <2> QED BY <2>1, <2>2
<1> QED BY <1>1, <1>3 DEF StoreInv, StoreShape

LEMMA StoreInvHolds == ClientSpec => []StoreInv
<1>1. StoreInv /\ [ClientNext]_vars => StoreInv'
  <2> SUFFICES ASSUME StoreInv, [ClientNext]_vars
               PROVE  StoreInv'
    OBVIOUS
  <2>1. CASE UNCHANGED <<ent, posts, open, known>>
    BY <2>1 DEF StoreInv, StoreShape, AtMostOnePost, SubmitsItsPost, Followed
  <2>2. CASE UNCHANGED vars
    BY <2>1, <2>2 DEF vars
  <2>3. ASSUME NEW c \in Convs, Settle(c) \/ ForeignPost(c) \/ EnsureLoaded(c) \/ ReadHistory(c)
                                \/ LoadFails(c) \/ DeleteServed(c)
        PROVE  StoreInv'
    BY <2>1, <2>3 DEF Settle, ForeignPost, EnsureLoaded, ReadHistory, LoadFails, DeleteServed
  <2>4. CASE ReadList \/ ListAnswered
    BY <2>1, <2>4 DEF ReadList, ListAnswered
  <2>5. ASSUME NEW s \in open, StreamEnds(s) \/ StreamGivesUp(s)
        PROVE  StoreInv'
    BY <2>5, CloseStep DEF StreamEnds, StreamGivesUp
  <2>6. ASSUME NEW s \in open, Reconnect(s)
        PROVE  StoreInv'
    BY <2>1, <2>6 DEF Reconnect
  <2> QED BY <2>2, <2>3, <2>4, <2>5, <2>6, PostStep, LoadStep, DeleteStep DEF ClientNext
<1> QED BY <1>1, StoreInit, PTL DEF ClientSpec

\* However the clicks, answers and losses come, one POST of a conversation is
\* under way at a time.
THEOREM SendsOneAtATime == ClientSpec => []OneSendInFlight
<1>1. StoreInv => OneSendInFlight
  <2> SUFFICES ASSUME StoreInv, NEW c \in Convs
               PROVE  Len(posts[c]) <= 1
    BY DEF OneSendInFlight
  <2>1. CASE posts[c] = <<>>
    BY <2>1
  <2>2. ASSUME NEW x, posts[c] = <<x>>
        PROVE  Len(posts[c]) <= 1
    BY <2>2
  <2> QED BY <2>1, <2>2 DEF StoreInv, AtMostOnePost
<1> QED BY <1>1, StoreInvHolds, PTL

\* A blocked composer waits for a turn that an open stream follows, and its
\* handle closes that stream.
THEOREM BlockedByAFollowedTurn == ClientSpec => []SendingIsFollowed
<1>1. StoreInv => SendingIsFollowed
  <2> SUFFICES ASSUME StoreInv, NEW c \in Convs
               PROVE  /\ ent[c].sending # None => \E s \in open : s.conv = c /\ s.of = ent[c].sending
                      /\ ent[c].closeStream # None => \E s \in open : s.conv = c /\ s.n = ent[c].closeStream
                      /\ ent[c].sending = None <=> ent[c].closeStream = None
    BY DEF SendingIsFollowed
  <2>1. Followed(c) /\ \A s \in open : s.n # None
    BY DEF StoreInv, StoreShape
  <2> QED BY <2>1 DEF Followed
<1> QED BY <1>1, StoreInvHolds, PTL
=============================================================================
