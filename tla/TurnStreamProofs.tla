-------------------------- MODULE TurnStreamProofs --------------------------
(***************************************************************************)
(* What the stream endpoint promises for every set of tabs and calls, any  *)
(* number of tokens, crashes and breaks: one end per connection, only of a *)
(* turn whose outcome is stored, no connection that waits for an end       *)
(* published before it listened; and, while neither a worker nor a         *)
(* connection has broken, a text without gap or repetition.                *)
(***************************************************************************)
EXTENDS TurnStream, SequenceLemmas

Working == {"pending", "loop", "answering", "requested", "running", "ran", "direct",
            "request", "recorded", "finish"}

\* Something a done event can stand for is stored.
Answered == replied \/ (kind = "direct" /\ resulted # {})

(***************************************************************************)
(* The worker's side: its place tells what is in the rows.                 *)
(***************************************************************************)
RowsTypes ==
  /\ kind \in {"chat", "direct"}
  /\ status \in {"pending", "processing", "done", "failed"}
  /\ wpc \in Working \cup {"down", "tell", "over"}
  /\ said \in 0..NumChunks /\ round \in 0..said
  /\ last \in Seq(Nat) /\ reply \in Seq(Nat)
  /\ cur \in Calls \cup {Nobody}
  /\ replied \in BOOLEAN
  /\ resulted \subseteq requested

PlaceInv ==
  /\ wpc = "down" => status \in {"pending", "processing"}
  /\ wpc \in Working => status = "processing"
  /\ wpc \in {"tell", "over"} => IsEnded
  /\ wpc = "pending" => requested # {}
  /\ wpc = "requested" /\ kind = "chat" => cur \in requested
  /\ wpc \in {"running", "ran", "recorded"} => cur \in requested
  /\ wpc \in {"loop", "answering", "ran"} => kind = "chat"
  /\ wpc = "direct" => kind = "direct"
  /\ wpc = "recorded" => kind = "direct" /\ resulted # {}
  /\ wpc = "finish" => Answered
  /\ IsDone => Answered

RowsInv == RowsTypes /\ PlaceInv

\* Nothing that is stored of a turn is taken back.
RowsGrow ==
  /\ kind' = kind
  /\ replied => replied'
  /\ resulted \subseteq resulted'
  /\ status = "failed" => status' = "failed"

\* A piece of the text: what it is, and how one more token extends it.
LEMMA TokensType ==
  ASSUME NEW a \in Nat, NEW k \in Nat, a <= k
  PROVE  /\ Tokens(a, k) \in Seq(Nat) /\ Len(Tokens(a, k)) = k - a
         /\ \A i \in 1..(k - a) : Tokens(a, k)[i] = a + i
<1>1. k - a \in Nat
  OBVIOUS
<1>2. Tokens(a, k) \in [1..(k - a) -> Nat] /\ \A i \in 1..(k - a) : Tokens(a, k)[i] = a + i
  BY DEF Tokens
<1> QED BY <1>1, <1>2

LEMMA TokensNone == \A a \in Nat : Tokens(a, a) = <<>>
<1> SUFFICES ASSUME NEW a \in Nat
             PROVE  Tokens(a, a) = <<>>
  OBVIOUS
<1>1. a - a = 0
  OBVIOUS
<1>2. Tokens(a, a) \in Seq(Nat) /\ Len(Tokens(a, a)) = 0
  BY <1>1, TokensType
<1> QED BY <1>2

LEMMA TokensGrow ==
  ASSUME NEW a \in Nat, NEW k \in Nat, a <= k
  PROVE  Tokens(a, k) \o <<k + 1>> = Tokens(a, k + 1)
<1> DEFINE t == Tokens(a, k)
           u == Tokens(a, k + 1)
           w == t \o <<k + 1>>
<1>1. t \in Seq(Nat) /\ Len(t) = k - a /\ \A i \in 1..(k - a) : t[i] = a + i
  BY TokensType
<1>2. k + 1 \in Nat /\ a <= k + 1 /\ k - a \in Nat /\ (k + 1) - a = (k - a) + 1
  OBVIOUS
<1>3. u = [i \in 1..((k - a) + 1) |-> a + i]
  BY <1>2 DEF Tokens
<1>4. <<k + 1>> \in Seq(Nat) /\ Len(<<k + 1>>) = 1 /\ <<k + 1>>[1] = k + 1
  BY <1>2
<1> HIDE DEF t, u
<1>5. w \in Seq(Nat) /\ Len(w) = (k - a) + 1
  BY <1>1, <1>2, <1>4
<1>12. ASSUME NEW i \in 1..((k - a) + 1)
       PROVE  i \in 1..(k - a) \/ (i = (k - a) + 1 /\ a + i = k + 1)
  BY <1>2
<1>13. \A i \in 1..(k - a) : w[i] = t[i]
  BY <1>1, <1>2, <1>4
<1>14. w[(k - a) + 1] = k + 1
  BY <1>1, <1>2, <1>4
<1> HIDE DEF w
<1>6. ASSUME NEW i \in 1..((k - a) + 1)
      PROVE  w[i] = a + i
  <2>1. CASE i \in 1..(k - a)
    BY <1>1, <1>13, <2>1, Zenon
  <2>2. CASE i = (k - a) + 1 /\ a + i = k + 1
    BY <1>14, <2>2, Zenon
  <2> QED BY <1>12, <2>1, <2>2
<1>7. PICK n : n = (k - a) + 1 /\ n \in Nat
  BY <1>2
<1>8. w \in Seq(Nat) /\ Len(w) = n
  BY <1>5, <1>7
<1>9. w = [i \in 1..n |-> w[i]]
  <2>1. w = [i \in 1..Len(w) |-> w[i]]
    BY <1>8, LenProperties
  <2> QED BY <1>8, <2>1
<1>10. [i \in 1..n |-> w[i]] = [i \in 1..n |-> a + i]
  BY <1>6, <1>7
<1>11. w = u
  BY <1>3, <1>7, <1>9, <1>10
<1> QED BY <1>11 DEF t, u, w

LEMMA RowsInit == StreamInit => RowsInv
<1> SUFFICES ASSUME StreamInit
             PROVE  RowsInv
  OBVIOUS
<1>1. kind \in {"chat", "direct"} /\ said \in 0..NumChunks /\ round \in 0..said
      /\ last \in Seq(Nat) /\ reply \in Seq(Nat)
  BY StreamAssumption DEF StreamInit
<1>2. RowsTypes
  BY <1>1 DEF StreamInit, RowsTypes
<1>3. PlaceInv
  BY DEF StreamInit, PlaceInv, Working, IsDone
<1> QED BY <1>2, <1>3 DEF RowsInv

\* A step of the worker, or a sweep, keeps its place and the rows together.
LEMMA WorkerRowsStep ==
  ASSUME RowsInv, WorkerStep \/ MarkFailed \/ CrashWorker \/ Sweep
  PROVE  RowsInv' /\ RowsGrow
<1> USE StreamAssumption DEF RowsInv, RowsTypes, PlaceInv, RowsGrow, Working, Answered, IsEnded, IsDone, spoken
<1>0. Tokens(round, said) \in Seq(Nat) /\ Fallback \in Seq(Nat)
  <2>1. round \in Nat /\ said \in Nat /\ round <= said
    OBVIOUS
  <2>2. Tokens(round, said) \in Seq(Nat)
    BY <2>1, TokensType
  <2> QED BY <2>2 DEF Fallback
<1>1. CASE Claim
  BY <1>1 DEF Claim, Reconcile
<1>2. CASE Rerun
  BY <1>2 DEF Rerun
<1>3. ASSUME NEW call \in Calls, Request(call)
      PROVE  RowsInv' /\ RowsGrow
  BY <1>0, <1>3 DEF Request
<1>16. CASE AnswerNow
  BY <1>16 DEF AnswerNow, rows
<1>4. CASE StartCall
  BY <1>4 DEF StartCall, rows
<1>5. CASE EndCall
  BY <1>5 DEF EndCall, rows
<1>6. CASE RecordResult
  <2>1. resulted' = resulted \cup {cur} /\ cur \in requested /\ cur \in resulted'
    BY <1>6 DEF RecordResult
  <2>2. RowsTypes' /\ RowsGrow
    BY <1>6, <2>1 DEF RecordResult
  <2>3. resulted' # {}
    BY <2>1
  <2>4. CASE wpc = "ran"
    <3>1. status' = "processing" /\ wpc' = "loop" /\ kind' = "chat"
      BY <1>6, <2>4 DEF RecordResult
    <3>2. PlaceInv'
      BY <3>1
    <3> QED BY <2>2, <3>2
  <2>5. CASE wpc = "running"
    <3>1. status' = "processing" /\ wpc' = "recorded" /\ kind' = "direct" /\ cur' \in requested'
      BY <1>6, <2>1, <2>5 DEF RecordResult
    <3>2. PlaceInv'
      BY <2>3, <3>1
    <3> QED BY <2>2, <3>2
  <2> QED BY <1>6, <2>4, <2>5 DEF RecordResult
<1>7. ASSUME NEW call \in Calls, Direct(call)
      PROVE  RowsInv' /\ RowsGrow
  BY <1>7 DEF Direct, rows
<1>8. CASE DirectRequest
  BY <1>8 DEF DirectRequest
<1>9. CASE PublishToken
  BY <1>9 DEF PublishToken, rows
<1>10. CASE InsertReply
  BY <1>0, <1>10 DEF InsertReply
<1>11. CASE MarkDone
  BY <1>11 DEF MarkDone
<1>12. CASE Tell
  BY <1>12 DEF Tell, rows
<1>13. CASE MarkFailed
  BY <1>13 DEF MarkFailed
<1>14. CASE CrashWorker
  BY <1>14 DEF CrashWorker, rows
<1>15. CASE Sweep
  BY <1>15 DEF Sweep
<1> QED BY <1>1, <1>2, <1>3, <1>4, <1>5, <1>6, <1>7, <1>8, <1>9, <1>10, <1>11, <1>12,
           <1>13, <1>14, <1>15, <1>16 DEF WorkerStep

\* A connection's step leaves the worker's side alone.
LEMMA StreamRowsStep ==
  ASSUME NEW c \in Viewers, StreamStep(c) \/ Drop(c)
  PROVE  UNCHANGED <<rows, worker>>
  BY DEF StreamStep, Drop, Subscribe, CheckReply, ReplayTools, CheckStatus, Deliver, ReconcileTools

LEMMA RowsStep ==
  ASSUME RowsInv, [StreamNext]_vars
  PROVE  RowsInv' /\ RowsGrow
<1>1. CASE UNCHANGED <<rows, worker>>
  BY <1>1 DEF rows, worker, spoken, RowsInv, RowsTypes, PlaceInv, RowsGrow, Answered, IsEnded, IsDone
<1>2. CASE UNCHANGED vars
  BY <1>1, <1>2 DEF vars, rows, worker, spoken
<1> QED BY <1>1, <1>2, WorkerRowsStep, StreamRowsStep DEF StreamNext

-----------------------------------------------------------------------------
(***************************************************************************)
(* The connections.  A connection hears nothing until its end, a buffered  *)
(* end is one of a turn whose outcome is stored, and no end goes missing.  *)
(***************************************************************************)
Place == {"closed", "subscribed", "unanswered", "replayed", "live", "ended"}

Ends  == {Done(t) : t \in Seq(Nat)} \cup {Error}
Event == Ends \cup {Token(<<i>>) : i \in 1..NumChunks}
           \cup {ToolStart(x) : x \in Calls \cup {Nobody}}
           \cup {ToolEnd(x) : x \in Calls \cup {Nobody}}

\* The outcome an end event tells of is stored.
Stored(e) == IF e = Error THEN status = "failed" ELSE Answered

ConnTypes ==
  /\ pc \in [Viewers -> Place]
  /\ buffered \in [Viewers -> Seq(Event)]
  /\ heard \in [Viewers -> Seq(Ends)]

\* Nothing is heard before the end, and one thing there.
Hears(c) ==
  IF pc[c] = "ended" THEN \E e \in Ends : heard[c] = <<e>> /\ Stored(e)
  ELSE heard[c] = <<>>

BufferStored(c) ==
  \A i \in DOMAIN buffered[c] : IsEnd(buffered[c][i]) => Stored(buffered[c][i])

\* NoEndMissed, of one connection.
NotMissed(c) ==
  pc[c] = "live" /\ IsEnded =>
    wpc = "tell" \/ unheard \/ \E i \in DOMAIN buffered[c] : IsEnd(buffered[c][i])

ConnInv ==
  /\ ConnTypes
  /\ \A c \in Viewers : Hears(c) /\ BufferStored(c) /\ NotMissed(c)

LEMMA NoText == <<>> \in Seq(Nat)
  OBVIOUS

LEMMA EventKinds ==
  /\ \A e \in Ends : IsEnd(e)
  /\ \A e \in Event : IsEnd(e) => e \in Ends
  /\ \A t : Done(t) # Error
  BY DEF Ends, Event, IsEnd, Done, Error, Token, ToolStart, ToolEnd

\* What is stored of a turn stays stored.
LEMMA StoredStays ==
  ASSUME RowsInv, RowsGrow, NEW e, Stored(e)
  PROVE  Stored(e)'
  BY DEF RowsInv, RowsTypes, RowsGrow, Stored, Answered

LEMMA ConnInit == StreamInit => ConnInv
<1> SUFFICES ASSUME StreamInit
             PROVE  ConnInv
  OBVIOUS
<1>1. ConnTypes
  BY DEF StreamInit, ConnTypes, Place
<1>2. ASSUME NEW c \in Viewers
      PROVE  Hears(c) /\ BufferStored(c) /\ NotMissed(c)
  BY DEF StreamInit, Hears, BufferStored, NotMissed
<1> QED BY <1>1, <1>2 DEF ConnInv

\* A publication reaches some of the buffers.
LEMMA PublishStep ==
  ASSUME RowsInv, ConnInv, RowsGrow, NEW e \in Event, Publish(e), UNCHANGED <<pc, heard>>,
         IsEnd(e) => Stored(e)'
  PROVE  ConnTypes' /\ \A c \in Viewers : Hears(c)' /\ BufferStored(c)'
<1>1. ConnTypes'
  BY DEF ConnInv, ConnTypes, Publish
<1>2. ASSUME NEW c \in Viewers
      PROVE  Hears(c)'
  <2>1. Hears(c)
    BY DEF ConnInv
  <2> QED BY <2>1, StoredStays DEF Hears
<1>3. ASSUME NEW c \in Viewers
      PROVE  BufferStored(c)'
  <2>1. BufferStored(c) /\ buffered[c] \in Seq(Event)
    BY DEF ConnInv, ConnTypes
  <2>2. buffered'[c] = buffered[c] \/ buffered'[c] = Append(buffered[c], e)
    BY DEF Publish, ConnInv, ConnTypes
  <2>3. ASSUME NEW i \in DOMAIN buffered'[c], IsEnd(buffered[c][i])'
        PROVE  Stored(buffered[c][i])'
    <3>1. PICK x : x = buffered'[c][i]
      OBVIOUS
    <3>2. (i \in DOMAIN buffered[c] /\ x = buffered[c][i]) \/ x = e
      BY <2>1, <2>2, <2>3, <3>1
    <3>3. Stored(x) \/ Stored(x)'
      BY <2>1, <2>3, <3>1, <3>2 DEF BufferStored, IsEnd
    <3>4. Stored(x)'
      BY <3>3, StoredStays
    <3> QED BY <3>1, <3>4 DEF Stored
  <2> QED BY <2>3 DEF BufferStored
<1> QED BY <1>1, <1>2, <1>3

\* A worker's step that leaves the buffers alone.
LEMMA SilentStep ==
  ASSUME RowsInv, ConnInv, RowsGrow, UNCHANGED <<buffered, pc, heard>>
  PROVE  ConnTypes' /\ \A c \in Viewers : Hears(c)' /\ BufferStored(c)'
<1>1. ConnTypes'
  BY DEF ConnInv, ConnTypes
<1>2. ASSUME NEW c \in Viewers
      PROVE  Hears(c)' /\ BufferStored(c)'
  <2>1. Hears(c) /\ BufferStored(c)
    BY <1>2 DEF ConnInv
  <2>2. Hears(c)'
    BY <2>1, StoredStays DEF Hears
  <2>3. BufferStored(c)'
    <3>1. ASSUME NEW i \in DOMAIN buffered[c], IsEnd(buffered[c][i])
          PROVE  Stored(buffered[c][i])'
      <4>1. PICK x : x = buffered[c][i]
        OBVIOUS
      <4>2. Stored(x)
        BY <2>1, <3>1, <4>1 DEF BufferStored
      <4>3. Stored(x)'
        BY <4>2, StoredStays
      <4> QED BY <4>1, <4>3 DEF Stored
    <3> QED BY <3>1 DEF BufferStored
  <2> QED BY <2>2, <2>3
<1> QED BY <1>1, <1>2

\* Whatever ends a turn leaves its end to be told, or to nobody; telling it
\* reaches every live connection.
LEMMA EndStep ==
  ASSUME RowsInv, WorkerStep \/ MarkFailed \/ CrashWorker \/ Sweep, IsEnded', ~Tell
  PROVE  wpc' = "tell" \/ unheard'
<1> USE DEF RowsInv, RowsTypes, PlaceInv, Working, IsEnded
<1>1. CASE Claim \/ Rerun \/ DirectRequest \/ InsertReply \/ RecordResult
           \/ (\E call \in Calls : Request(call))
  BY <1>1 DEF Claim, Rerun, DirectRequest, InsertReply, RecordResult, Request
<1>2. CASE StartCall \/ EndCall \/ PublishToken \/ AnswerNow \/ (\E call \in Calls : Direct(call))
  BY <1>2 DEF StartCall, EndCall, PublishToken, AnswerNow, Direct, rows
<1>3. CASE MarkDone \/ MarkFailed \/ Sweep
  BY <1>3 DEF MarkDone, MarkFailed, Sweep
<1>4. CASE CrashWorker
  BY <1>4 DEF CrashWorker, rows
<1> QED BY <1>1, <1>2, <1>3, <1>4 DEF WorkerStep

\* The event a step publishes, if any, is well formed, and an end only of what
\* is stored.
LEMMA WorkerConnStep ==
  ASSUME RowsInv, RowsInv', RowsGrow, ConnInv, WorkerStep \/ MarkFailed \/ CrashWorker \/ Sweep
  PROVE  ConnInv'
<1>1. UNCHANGED <<pc, heard>>
  BY DEF WorkerStep, MarkFailed, CrashWorker, Sweep, Claim, Rerun, Request, AnswerNow, StartCall, EndCall,
         RecordResult, Direct, DirectRequest, PublishToken, InsertReply, MarkDone, Tell, tabs
<1>2. \/ UNCHANGED buffered
      \/ \E e \in Event : Publish(e) /\ (IsEnd(e) => Stored(e)')
  <2>1. CASE StartCall
    <3>1. ToolStart(cur) \in Event /\ ~IsEnd(ToolStart(cur))
      BY DEF Event, ToolStart, IsEnd, RowsInv, RowsTypes
    <3> QED BY <2>1, <3>1 DEF StartCall
  <2>2. CASE EndCall
    <3>1. ToolEnd(cur) \in Event /\ ~IsEnd(ToolEnd(cur))
      BY DEF Event, ToolEnd, IsEnd, RowsInv, RowsTypes
    <3> QED BY <2>2, <3>1 DEF EndCall
  <2>3. CASE PublishToken
    <3>1. said + 1 \in 1..NumChunks
      BY <2>3, StreamAssumption DEF PublishToken, RowsInv, RowsTypes
    <3>2. Token(<<said + 1>>) \in Event /\ ~IsEnd(Token(<<said + 1>>))
      BY <3>1 DEF Event, Token, IsEnd
    <3> QED BY <2>3, <3>2 DEF PublishToken
  <2>4. CASE Tell
    <3>1. PICK e : e = IF IsDone THEN Done(reply) ELSE Error
      OBVIOUS
    <3>2. e \in Event /\ (IsDone => e # Error) /\ (~IsDone => e = Error)
      BY <3>1, EventKinds DEF Event, Ends, RowsInv, RowsTypes
    <3>3. IsDone \/ status = "failed"
      BY <2>4 DEF Tell, RowsInv, PlaceInv, IsEnded, IsDone
    <3>4. Stored(e)
      BY <3>2, <3>3 DEF Stored, RowsInv, PlaceInv, IsDone
    <3>5. Stored(e)'
      BY <3>4, StoredStays
    <3> QED BY <2>4, <3>1, <3>2, <3>5 DEF Tell
  <2>5. CASE ~(StartCall \/ EndCall \/ PublishToken \/ Tell)
    BY <2>5 DEF WorkerStep, MarkFailed, CrashWorker, Sweep, Claim, Rerun, Request, AnswerNow, RecordResult,
         Direct, DirectRequest, InsertReply, MarkDone
  <2> QED BY <2>1, <2>2, <2>3, <2>4, <2>5
<1>3. ConnTypes' /\ \A c \in Viewers : Hears(c)' /\ BufferStored(c)'
  BY <1>1, <1>2, PublishStep, SilentStep
<1>4. ASSUME NEW c \in Viewers
      PROVE  NotMissed(c)'
  <2>1. CASE ~Tell
    BY <2>1, EndStep DEF NotMissed
  <2>2. CASE Tell /\ pc[c] = "live"
    <3>1. PICK e \in Ends : Publish(e)
      BY <2>2 DEF Tell, Ends, RowsInv, RowsTypes
    <3>2. buffered'[c] = Append(buffered[c], e) /\ buffered[c] \in Seq(Event)
      BY <2>2, <3>1 DEF Publish, ConnInv, ConnTypes
    <3>3. Len(buffered[c]) + 1 \in DOMAIN buffered'[c] /\ buffered'[c][Len(buffered[c]) + 1] = e
      BY <3>2
    <3> QED BY <3>1, <3>3, EventKinds DEF NotMissed, IsEnd
  <2>3. CASE pc[c] # "live"
    BY <1>1, <2>3 DEF NotMissed
  <2> QED BY <2>1, <2>2, <2>3
<1> QED BY <1>3, <1>4 DEF ConnInv

\* One connection as it was, over rows as they were.
LEMMA SameConnection ==
  ASSUME NEW c \in Viewers, UNCHANGED <<rows, worker>>,
         pc'[c] = pc[c], heard'[c] = heard[c], buffered'[c] = buffered[c],
         Hears(c), BufferStored(c), NotMissed(c)
  PROVE  Hears(c)' /\ BufferStored(c)' /\ NotMissed(c)'
  BY DEF rows, worker, Hears, BufferStored, NotMissed, Stored, Answered, IsEnded

\* A step of one connection, which leaves it at p with b buffered and h heard.
LEMMA OwnStep ==
  ASSUME ConnInv, UNCHANGED <<rows, worker>>, NEW c \in Viewers,
         NEW p \in Place, NEW b \in Seq(Event), NEW h \in Seq(Ends),
         pc' = [pc EXCEPT ![c] = p],
         buffered' = [buffered EXCEPT ![c] = b],
         heard' = [heard EXCEPT ![c] = h],
         IF p = "ended" THEN \E e \in Ends : h = <<e>> /\ Stored(e) ELSE h = <<>>,
         \A i \in DOMAIN b : IsEnd(b[i]) => Stored(b[i]),
         p = "live" /\ IsEnded => wpc = "tell" \/ unheard \/ \E i \in DOMAIN b : IsEnd(b[i])
  PROVE  ConnInv'
<1>1. ConnTypes'
  BY DEF ConnInv, ConnTypes
<1>2. ASSUME NEW d \in Viewers, d # c
      PROVE  Hears(d)' /\ BufferStored(d)' /\ NotMissed(d)'
  <2>1. pc'[d] = pc[d] /\ heard'[d] = heard[d] /\ buffered'[d] = buffered[d]
    BY <1>2 DEF ConnInv, ConnTypes
  <2> QED BY <2>1, SameConnection DEF ConnInv
<1>3. pc'[c] = p /\ buffered'[c] = b /\ heard'[c] = h
  BY DEF ConnInv, ConnTypes
<1>4. Hears(c)'
  BY <1>3 DEF rows, Hears, Stored, Answered
<1>5. BufferStored(c)'
  BY <1>3 DEF rows, BufferStored, Stored, Answered
<1>6. NotMissed(c)'
  BY <1>3 DEF rows, worker, NotMissed, IsEnded
<1> QED BY <1>1, <1>2, <1>4, <1>5, <1>6 DEF ConnInv

LEMMA StreamConnStep ==
  ASSUME RowsInv, ConnInv, NEW c \in Viewers, StreamStep(c) \/ Drop(c)
  PROVE  ConnInv'
<1>1. UNCHANGED <<rows, worker>>
  BY StreamRowsStep
<1>2. /\ pc[c] \in Place /\ buffered[c] \in Seq(Event) /\ heard[c] \in Seq(Ends)
      /\ Hears(c) /\ BufferStored(c) /\ NotMissed(c)
      /\ pc = [pc EXCEPT ![c] = pc[c]]
      /\ buffered = [buffered EXCEPT ![c] = buffered[c]]
      /\ heard = [heard EXCEPT ![c] = heard[c]]
  BY DEF ConnInv, ConnTypes
<1>3. CASE Subscribe(c)
  <2>1. PICK p, b, h : p = "subscribed" /\ b = <<>> /\ h = <<>>
    OBVIOUS
  <2>2. /\ pc' = [pc EXCEPT ![c] = p] /\ buffered' = [buffered EXCEPT ![c] = b]
        /\ heard' = [heard EXCEPT ![c] = h]
    BY <1>3, <2>1 DEF Subscribe
  <2>3. p \in Place /\ p # "ended" /\ p # "live"
    BY <2>1 DEF Place
  <2>4. b \in Seq(Event) /\ \A i \in DOMAIN b : FALSE
    BY <2>1
  <2>5. h \in Seq(Ends)
    BY <2>1
  <2> QED BY <1>1, <2>1, <2>2, <2>3, <2>4, <2>5, OwnStep
<1>4. CASE CheckReply(c)
  <2>1. CASE replied
    <3>1. heard' = [heard EXCEPT ![c] = <<Done(reply)>>]
      BY <1>2, <1>4, <2>1 DEF CheckReply, Send, Hears
    <3>2. Done(reply) \in Ends /\ <<Done(reply)>> \in Seq(Ends) /\ Stored(Done(reply))
      BY <2>1, EventKinds DEF Ends, Stored, Answered, RowsInv, RowsTypes
    <3>3. pc' = [pc EXCEPT ![c] = "ended"] /\ UNCHANGED buffered /\ "ended" \in Place
      BY <1>4, <2>1 DEF CheckReply, Place
    <3> QED BY <1>1, <1>2, <3>1, <3>2, <3>3, OwnStep DEF BufferStored
  <2>2. CASE ~replied
    <3>1. pc' = [pc EXCEPT ![c] = "unanswered"] /\ UNCHANGED <<buffered, heard>>
          /\ "unanswered" \in Place /\ heard[c] = <<>>
      BY <1>2, <1>4, <2>2 DEF CheckReply, Place, Hears
    <3> QED BY <1>1, <1>2, <3>1, OwnStep DEF BufferStored
  <2> QED BY <2>1, <2>2
<1>5. CASE ReplayTools(c)
  <2>1. heard[c] = <<>> /\ heard[c] \o <<>> = <<>>
    BY <1>2, <1>5 DEF ReplayTools, Hears
  <2>2. pc' = [pc EXCEPT ![c] = "replayed"] /\ UNCHANGED buffered /\ "replayed" \in Place
        /\ heard' = [heard EXCEPT ![c] = <<>>]
    BY <1>5, <2>1 DEF ReplayTools, Send, Place
  <2> QED BY <1>1, <1>2, <2>1, <2>2, OwnStep DEF BufferStored
<1>6. CASE CheckStatus(c)
  <2>0. heard[c] = <<>> /\ UNCHANGED buffered /\ {"live", "ended"} \subseteq Place
    BY <1>2, <1>6 DEF CheckStatus, Hears, Place
  <2>1. CASE ~IsEnded
    <3>1. Send(c, <<>>, <<>>) /\ pc' = [pc EXCEPT ![c] = "live"]
      BY <1>6, <2>1 DEF CheckStatus, IsEnded, IsDone
    <3>2. heard' = [heard EXCEPT ![c] = <<>>]
      BY <2>0, <3>1 DEF Send
    <3> QED BY <1>1, <1>2, <2>0, <2>1, <3>1, <3>2, OwnStep DEF BufferStored
  <2>2. CASE IsEnded
    <3>1. PICK e : e = IF IsDone THEN Done(<<>>) ELSE Error
      OBVIOUS
    <3>2. e \in Ends /\ <<e>> \in Seq(Ends) /\ Stored(e)
      <4>1. Done(<<>>) \in Ends /\ Error \in Ends
        BY NoText DEF Ends
      <4> QED BY <2>2, <3>1, <4>1, EventKinds DEF Stored, IsEnded, IsDone, RowsInv, PlaceInv
    <3>3. Send(c, <<>>, <<e>>) /\ pc' = [pc EXCEPT ![c] = "ended"]
      BY <1>6, <2>2, <3>1 DEF CheckStatus, IsEnded, IsDone
    <3>4. heard' = [heard EXCEPT ![c] = <<e>>]
      BY <2>0, <3>3 DEF Send
    <3> QED BY <1>1, <1>2, <2>0, <3>2, <3>3, <3>4, OwnStep DEF BufferStored
  <2> QED BY <2>1, <2>2
<1>7. CASE Deliver(c)
  <2>1. PICK e, b : e = Head(buffered[c]) /\ b = Tail(buffered[c])
    OBVIOUS
  <2>2. /\ pc[c] = "live" /\ heard[c] = <<>>
        /\ e = buffered[c][1] /\ 1 \in DOMAIN buffered[c] /\ e \in Event /\ b \in Seq(Event)
        /\ buffered' = [buffered EXCEPT ![c] = b]
    BY <1>2, <1>7, <2>1 DEF Deliver, Hears
  <2>3. \A i \in DOMAIN b : i + 1 \in DOMAIN buffered[c] /\ b[i] = buffered[c][i + 1]
    BY <1>2, <1>7, <2>1 DEF Deliver
  <2>4. \A i \in DOMAIN b : IsEnd(b[i]) => Stored(b[i])
    BY <1>2, <2>3 DEF BufferStored
  <2>5. CASE IsEnd(e)
    <3>1. e \in Ends /\ <<e>> \in Seq(Ends) /\ Stored(e)
      BY <1>2, <2>2, <2>5, EventKinds DEF BufferStored
    <3>2. pc' = [pc EXCEPT ![c] = "ended"] /\ heard' = [heard EXCEPT ![c] = <<e>>] /\ "ended" \in Place
      BY <1>7, <2>1, <2>2, <2>5 DEF Deliver, Send, Place
    <3> QED BY <1>1, <1>2, <2>2, <2>4, <3>1, <3>2, OwnStep
  <2>6. CASE ~IsEnd(e)
    <3>1. UNCHANGED pc /\ heard' = [heard EXCEPT ![c] = <<>>]
      BY <1>2, <1>7, <2>1, <2>2, <2>6 DEF Deliver, Send
    <3>2. ASSUME NEW i \in DOMAIN buffered[c], IsEnd(buffered[c][i])
          PROVE  \E j \in DOMAIN b : IsEnd(b[j])
      <4>1. i # 1
        BY <2>2, <2>6, <3>2
      <4>2. i - 1 \in DOMAIN b /\ b[i - 1] = buffered[c][i]
        <5>1. PICK w : w = buffered[c]
          OBVIOUS
        <5>2. w \in Seq(Event) /\ w # <<>> /\ b = Tail(w) /\ i \in 1..Len(w)
          BY <1>2, <2>1, <2>2, <3>2, <5>1
        <5>3. i - 1 \in DOMAIN b /\ b[i - 1] = w[i]
          BY <4>1, <5>2
        <5> QED BY <5>1, <5>3
      <4> QED BY <3>2, <4>2
    <3>3. IsEnded => wpc = "tell" \/ unheard \/ \E j \in DOMAIN b : IsEnd(b[j])
      BY <1>2, <2>2, <3>2 DEF NotMissed
    <3> QED BY <1>1, <1>2, <2>2, <2>4, <3>1, <3>3, OwnStep
  <2> QED BY <2>5, <2>6
<1>8. CASE ReconcileTools(c)
  <2>1. UNCHANGED <<pc, buffered, heard>>
    BY <1>8 DEF ReconcileTools
  <2> QED BY <1>1, <2>1, SameConnection DEF ConnInv, ConnTypes
<1>9. CASE Drop(c)
  <2>1. pc' = [pc EXCEPT ![c] = "closed"] /\ UNCHANGED <<buffered, heard>>
        /\ "closed" \in Place /\ heard[c] = <<>>
    BY <1>2, <1>9 DEF Drop, Hears, Place
  <2> QED BY <1>1, <1>2, <2>1, OwnStep DEF BufferStored
<1> QED BY <1>3, <1>4, <1>5, <1>6, <1>7, <1>8, <1>9 DEF StreamStep

-----------------------------------------------------------------------------
StreamInv == RowsInv /\ ConnInv

LEMMA StreamInvHolds == StreamSpec => []StreamInv
<1>1. StreamInit => StreamInv
  BY RowsInit, ConnInit DEF StreamInv
<1>2. StreamInv /\ [StreamNext]_vars => StreamInv'
  <2> SUFFICES ASSUME StreamInv, [StreamNext]_vars
               PROVE  StreamInv'
    OBVIOUS
  <2>1. RowsInv' /\ RowsGrow
    BY RowsStep DEF StreamInv
  <2>2. CASE UNCHANGED vars
    <3>1. UNCHANGED <<rows, worker, pc, heard, buffered>>
      BY <2>2 DEF vars, rows, worker, spoken
    <3> QED BY <2>1, <3>1, SameConnection DEF StreamInv, ConnInv, ConnTypes
  <2>3. CASE WorkerStep \/ MarkFailed \/ CrashWorker \/ Sweep
    BY <2>1, <2>3, WorkerConnStep DEF StreamInv
  <2>4. ASSUME NEW c \in Viewers, StreamStep(c) \/ Drop(c)
        PROVE  StreamInv'
    BY <2>1, <2>4, StreamConnStep DEF StreamInv
  <2> QED BY <2>2, <2>3, <2>4 DEF StreamNext
<1> QED BY <1>1, <1>2, PTL DEF StreamSpec

\* A connection is sent one end, from whichever of the three places comes to
\* it first, and nothing after it.
THEOREM EndsOnce == StreamSpec => []OneEnd
<1>1. StreamInv => OneEnd
  <2> SUFFICES ASSUME StreamInv, NEW c \in Viewers
               PROVE  /\ Len(heard[c]) <= 1
                      /\ pc[c] # "closed" => (Len(heard[c]) = 1 <=> pc[c] = "ended")
    BY DEF OneEnd
  <2>1. CASE pc[c] = "ended"
    <3>1. PICK e \in Ends : heard[c] = <<e>>
      BY <2>1 DEF StreamInv, ConnInv, Hears
    <3>2. Len(heard[c]) = 1
      BY <3>1
    <3> QED BY <2>1, <3>2
  <2>2. CASE pc[c] # "ended"
    <3>1. heard[c] = <<>> /\ Len(heard[c]) = 0
      BY <2>2 DEF StreamInv, ConnInv, Hears
    <3> QED BY <2>2, <3>1
  <2> QED BY <2>1, <2>2
<1> QED BY <1>1, StreamInvHolds, PTL

\* A tab is told of an end only when the outcome is stored.
THEOREM EndsAreStored == StreamSpec => []EndIsDurable
<1>1. StreamInv => EndIsDurable
  <2> SUFFICES ASSUME StreamInv, NEW c \in Viewers, NEW i \in DOMAIN heard[c]
               PROVE  IF heard[c][i] = Error THEN status = "failed"
                      ELSE replied \/ (kind = "direct" /\ resulted # {})
    BY DEF EndIsDurable
  <2>1. Hears(c)
    BY DEF StreamInv, ConnInv
  <2>2. PICK e \in Ends : heard[c] = <<e>> /\ Stored(e)
    BY <2>1 DEF Hears
  <2>3. heard[c][i] = e
    BY <2>2
  <2> QED BY <2>2, <2>3 DEF Stored, Answered
<1> QED BY <1>1, StreamInvHolds, PTL

\* A live connection never waits for an end that was published before it
\* listened.
THEOREM EndsAreHeard == StreamSpec => []NoEndMissed
<1>1. StreamInv => NoEndMissed
  BY DEF StreamInv, ConnInv, NotMissed, NoEndMissed
<1> QED BY <1>1, StreamInvHolds, PTL

-----------------------------------------------------------------------------
(***************************************************************************)
(* What a bubble shows.  ShowAll folds Show over the events; the fold is   *)
(* a recursion over the sets of their positions.                           *)
(***************************************************************************)
\* The recursion ShowAll is defined by.
LEMMA ShowAllUnfolds ==
  ASSUME NEW v, NEW events
  PROVE  ShowAll(v, events) =
    LET shown == CHOOSE f : f = [s \in SUBSET DOMAIN events |->
                                  IF s = {} THEN v ELSE Show(f[s \ {Max(s)}], events[Max(s)])]
    IN  shown[DOMAIN events]
BY Zenon DEF ShowAll, FoldLeft, MapThenFoldSet

\* Shown one by one.
LEMMA ShowRecursion ==
  ASSUME NEW v, NEW events, NEW n \in Nat, DOMAIN events = 1..n
  PROVE  \E g : /\ g[0] = v
                /\ \A k \in 1..n : g[k] = Show(g[k - 1], events[k])
                /\ ShowAll(v, events) = g[n]
<1> DEFINE Next(f, s) == IF s = {} THEN v ELSE Show(f[s \ {Max(s)}], events[Max(s)])
           Solves(f, k) == \A s \in SUBSET (1..k) : f[s] = Next(f, s)
           G == {k \in 0..n : \E f : Solves(f, k)}
<1>1. 0 \in G
  <2> DEFINE f0 == [s \in SUBSET (1..0) |-> v]
  <2>1. \A s \in SUBSET (1..0) : s = {}
    OBVIOUS
  <2>2. Solves(f0, 0)
    BY <2>1
  <2> HIDE DEF f0, Solves
  <2> QED BY <2>2
<1>2. ASSUME NEW k \in 0..n - 1, k \in G
      PROVE  k + 1 \in G
  <2>1. PICK f : Solves(f, k)
    BY <1>2
  <2> DEFINE g == [s \in SUBSET (1..k + 1) |-> IF k + 1 \in s THEN Show(f[s \ {k + 1}], events[k + 1]) ELSE f[s]]
  <2>2. ASSUME NEW s \in SUBSET (1..k + 1), k + 1 \notin s
        PROVE  g[s] = f[s]
    BY <2>2
  <2>3. ASSUME NEW s \in SUBSET (1..k + 1), k + 1 \in s
        PROVE  g[s] = Show(f[s \ {k + 1}], events[k + 1])
    <3> HIDE DEF Next
    <3> QED BY <2>3
  <2>4. ASSUME NEW s \in SUBSET (1..k + 1)
        PROVE  g[s] = Next(g, s)
    <3>1. CASE k + 1 \in s
      <4>1. k + 1 \in Nat /\ Max(s) = k + 1
        BY <3>1, Greatest
      <4>2. s \ {k + 1} \in SUBSET (1..k + 1) /\ k + 1 \notin s \ {k + 1}
        OBVIOUS
      <4>3. g[s \ {k + 1}] = f[s \ {k + 1}]
        BY <4>2, <2>2
      <4> HIDE DEF g
      <4> QED BY <3>1, <2>3, <4>1, <4>3
    <3>2. CASE k + 1 \notin s
      <4>1. s \in SUBSET (1..k)
        BY <3>2
      <4>2. s \ {Max(s)} \in SUBSET (1..k + 1) /\ k + 1 \notin s \ {Max(s)}
        BY <3>2
      <4>3. g[s \ {Max(s)}] = f[s \ {Max(s)}] /\ g[s] = f[s]
        BY <4>2, <3>2, <2>2
      <4>4. f[s] = Next(f, s)
        BY <4>1, <2>1
      <4> HIDE DEF g
      <4> QED BY <4>3, <4>4
    <3> QED BY <3>1, <3>2
  <2>5. Solves(g, k + 1)
    <3> HIDE DEF g, Next
    <3> QED BY <2>4
  <2>6. k + 1 \in 0..n
    OBVIOUS
  <2> HIDE DEF g, Solves
  <2> QED BY <2>5, <2>6
<1>3. n \in G
  <2> HIDE DEF G
  <2>1. 0..n \subseteq G
    BY <1>1, <1>2, FromZero
  <2> QED BY <2>1
<1>4. PICK f : Solves(f, n)
  <2> HIDE DEF Solves
  <2> QED BY <1>3
<1> DEFINE h == [s \in SUBSET (1..n) |-> f[s]]
           shown == CHOOSE w : w = [s \in SUBSET (1..n) |-> Next(w, s)]
<1>5. h = [s \in SUBSET (1..n) |-> Next(h, s)]
  <2>1. ASSUME NEW s \in SUBSET (1..n)
        PROVE  h[s] = Next(h, s)
    <3>1. s \ {Max(s)} \in SUBSET (1..n)
      OBVIOUS
    <3>2. h[s \ {Max(s)}] = f[s \ {Max(s)}] /\ h[s] = f[s]
      BY <3>1
    <3>3. f[s] = Next(f, s)
      BY <1>4
    <3> HIDE DEF h
    <3> QED BY <3>2, <3>3
  <2> HIDE DEF Next
  <2> QED BY <2>1
<1>6. shown = [s \in SUBSET (1..n) |-> Next(shown, s)]
  <2> HIDE DEF Next, h
  <2> QED BY <1>5, Zenon
<1>7. ShowAll(v, events) = shown[1..n]
  BY ShowAllUnfolds, Zenon
<1> HIDE DEF shown
<1>8. shown[1..0] = v
  <2>1. 1..0 = {} /\ 1..0 \in SUBSET (1..n)
    OBVIOUS
  <2> QED BY <2>1, <1>6
<1>9. ASSUME NEW k \in 1..n
      PROVE  shown[1..k] = Show(shown[1..k - 1], events[k])
  <2>1. 1..k \in SUBSET (1..n) /\ 1..k # {} /\ k \in 1..k /\ k \in Nat /\ (1..k) \ {k} = 1..k - 1
    OBVIOUS
  <2>2. Max(1..k) = k
    BY <2>1, Greatest
  <2>3. shown[1..k] = Next(shown, 1..k)
    <3> HIDE DEF Next
    <3> QED BY <2>1, <1>6
  <2> QED BY <2>1, <2>2, <2>3
<1> DEFINE g == [k \in 0..n |-> shown[1..k]]
<1>10. g[0] = v /\ g[n] = ShowAll(v, events)
  BY <1>7, <1>8
<1>11. \A k \in 1..n : g[k] = Show(g[k - 1], events[k])
  <2>1. ASSUME NEW k \in 1..n
        PROVE  g[k] = Show(g[k - 1], events[k])
    <3>1. k \in 0..n /\ k - 1 \in 0..n
      OBVIOUS
    <3>2. g[k] = shown[1..k] /\ g[k - 1] = shown[1..k - 1]
      BY <3>1
    <3> HIDE DEF g
    <3> QED BY <3>2, <1>9
  <2> QED BY <2>1
<1> HIDE DEF g
<1> QED BY <1>10, <1>11

\* A bubble after no event, one and two.
LEMMA ShowNone == \A v : ShowAll(v, <<>>) = v
<1> SUFFICES ASSUME NEW v PROVE ShowAll(v, <<>>) = v
  OBVIOUS
<1>1. DOMAIN <<>> = 1..0 /\ 0 \in Nat
  OBVIOUS
<1>2. PICK g : g[0] = v /\ ShowAll(v, <<>>) = g[0]
  BY <1>1, ShowRecursion
<1> QED BY <1>2

LEMMA ShowOne == \A v, e : ShowAll(v, <<e>>) = Show(v, e)
<1> SUFFICES ASSUME NEW v, NEW e PROVE ShowAll(v, <<e>>) = Show(v, e)
  OBVIOUS
<1>1. PICK w, n : w = <<e>> /\ n = 1
  OBVIOUS
<1>2. DOMAIN w = 1..n /\ n \in Nat /\ w[1] = e
  BY <1>1
<1>3. PICK g : g[0] = v /\ (\A k \in 1..n : g[k] = Show(g[k - 1], w[k])) /\ ShowAll(v, w) = g[n]
  BY <1>2, ShowRecursion
<1>4. g[1] = Show(g[1 - 1], w[1])
  BY <1>1, <1>3
<1> QED BY <1>1, <1>2, <1>3, <1>4

LEMMA ShowTwo == \A v, d, e : ShowAll(v, <<d, e>>) = Show(Show(v, d), e)
<1> SUFFICES ASSUME NEW v, NEW d, NEW e PROVE ShowAll(v, <<d, e>>) = Show(Show(v, d), e)
  OBVIOUS
<1>1. PICK w, n : w = <<d, e>> /\ n = 2
  OBVIOUS
<1>2. DOMAIN w = 1..n /\ n \in Nat /\ w[1] = d /\ w[2] = e
  BY <1>1
<1>3. PICK g : g[0] = v /\ (\A k \in 1..n : g[k] = Show(g[k - 1], w[k])) /\ ShowAll(v, w) = g[n]
  BY <1>2, ShowRecursion
<1>4. g[1] = Show(g[1 - 1], w[1]) /\ g[2] = Show(g[2 - 1], w[2])
  BY <1>1, <1>3
<1>5. g[1] = Show(v, d) /\ g[2] = Show(g[1], e)
  BY <1>2, <1>3, <1>4
<1> QED BY <1>1, <1>3, <1>5

\* A bubble.
Fields == {"text", "chips", "tools", "state"}
IsView(v) == v = [x \in Fields |-> v[x]]

\* What an event does to the text of a bubble.
LEMMA ShownText ==
  ASSUME NEW v, IsView(v), NEW e
  PROVE  /\ IsView(Show(v, e))
         /\ Show(v, e).text = IF e.type = "token" THEN v.text \o e.of ELSE v.text
<1>1. DOMAIN v = Fields
  BY Zenon DEF IsView
<1>2. ASSUME NEW f \in Fields, NEW x
      PROVE  LET u == [v EXCEPT ![f] = x]
             IN  /\ IsView(u)
                 /\ u.text = IF f = "text" THEN x ELSE v.text
  <2>1. [v EXCEPT ![f] = x] = [y \in Fields |-> IF y = f THEN x ELSE v[y]]
    BY <1>1, Zenon DEF IsView
  <2> QED BY <2>1 DEF IsView, Fields
<1>3. CASE e.type = "token"
  BY <1>2, <1>3 DEF Show, Fields
<1>4. CASE e.type = "tool_start"
  BY <1>2, <1>4 DEF Show, Fields
<1>5. CASE e.type = "tool_end"
  BY <1>2, <1>5 DEF Show, Fields
<1>6. CASE e.type \notin {"token", "tool_start", "tool_end"}
  BY <1>2, <1>6 DEF Show, Fields
<1> QED BY <1>3, <1>4, <1>5, <1>6

ToolEvent == {ToolStart(x) : x \in Calls \cup {Nobody}} \cup {ToolEnd(x) : x \in Calls \cup {Nobody}}

\* Tool events leave the text alone.
LEMMA ShownTools ==
  ASSUME NEW v, IsView(v), NEW events \in Seq(ToolEvent)
  PROVE  IsView(ShowAll(v, events)) /\ ShowAll(v, events).text = v.text
<1> DEFINE n == Len(events)
<1>1. n \in Nat /\ DOMAIN events = 1..n /\ \A k \in 1..n : events[k] \in ToolEvent
  BY LenProperties, ElementOfSeq
<1>2. PICK g : g[0] = v /\ (\A k \in 1..n : g[k] = Show(g[k - 1], events[k])) /\ ShowAll(v, events) = g[n]
  <2> HIDE DEF n
  <2> QED BY <1>1, ShowRecursion
<1> DEFINE G == {k \in 0..n : IsView(g[k]) /\ g[k].text = v.text}
<1>3. 0 \in G
  BY <1>1, <1>2
<1>4. ASSUME NEW k \in 0..n - 1, k \in G
      PROVE  k + 1 \in G
  <2>1. k + 1 \in 1..n /\ (k + 1) - 1 = k /\ k + 1 \in 0..n
    BY <1>1
  <2>2. g[k + 1] = Show(g[k], events[k + 1])
    BY <2>1, <1>2
  <2>3. events[k + 1].type # "token"
    BY <2>1, <1>1 DEF ToolEvent, ToolStart, ToolEnd
  <2>4. IsView(g[k]) /\ g[k].text = v.text
    BY <1>4
  <2>5. ASSUME NEW u, IsView(u), u.text = v.text, NEW e, e.type # "token"
        PROVE  IsView(Show(u, e)) /\ Show(u, e).text = v.text
    BY <2>5, ShownText
  <2>6. IsView(g[k + 1]) /\ g[k + 1].text = v.text
    <3>1. PICK u, e : u = g[k] /\ e = events[k + 1]
      OBVIOUS
    <3>2. IsView(Show(u, e)) /\ Show(u, e).text = v.text
      BY <2>3, <2>4, <2>5, <3>1
    <3>3. g[k + 1] = Show(u, e)
      BY <2>2, <3>1
    <3> QED BY <3>2, <3>3
  <2> QED BY <2>1, <2>6
<1>5. 0..n \subseteq G
  <2> HIDE DEF G, n
  <2> QED BY <1>1, <1>3, <1>4, FromZero
<1> QED BY <1>1, <1>2, <1>5

\* A replay tells of calls only.
LEMMA ReplayedTools ==
  ASSUME NEW c, IsFiniteSet(requested), requested \subseteq Calls \cup {Nobody}
  PROVE  Replayed(c) \in Seq(ToolEvent)
<1> DEFINE due == SetToSeq(requested \ skip[c])
           eventsOf(call) == IF call \in resulted THEN <<ToolStart(call), ToolEnd(call)>>
                             ELSE <<ToolStart(call)>>
           ss == [i \in DOMAIN due |-> eventsOf(due[i])]
           L == [i \in 1..Len(ss) |-> Seq(ToolEvent)]
<1>1. due \in Seq(Calls \cup {Nobody})
  <2>1. IsFiniteSet(requested \ skip[c])
    BY FS_Subset
  <2>2. due \in Seq(requested \ skip[c])
    BY <2>1, Listed
  <2> HIDE DEF due
  <2>3. \A i \in 1..Len(due) : due[i] \in Calls \cup {Nobody}
    BY <2>2
  <2> QED BY <2>2, <2>3
<1>2. Len(due) \in Nat /\ DOMAIN due = 1..Len(due) /\ \A i \in DOMAIN due : due[i] \in Calls \cup {Nobody}
  <2> HIDE DEF due
  <2> QED BY <1>1, LenProperties, ElementOfSeq
<1>3. ASSUME NEW call \in Calls \cup {Nobody}
      PROVE  eventsOf(call) \in Seq(ToolEvent)
  <2>1. PICK d, e \in ToolEvent : d = ToolStart(call) /\ e = ToolEnd(call)
    BY DEF ToolEvent
  <2>2. <<d>> \in Seq(ToolEvent) /\ <<d, e>> \in Seq(ToolEvent)
    OBVIOUS
  <2> QED BY <2>1, <2>2
<1>4. ss \in Seq(Seq(ToolEvent)) /\ Len(ss) = Len(due)
  <2> HIDE DEF due, eventsOf
  <2>1. ss \in [1..Len(due) -> Seq(ToolEvent)]
    BY <1>2, <1>3
  <2> HIDE DEF ss
  <2> QED BY <1>2, <2>1, SeqDef
<1>5. Replayed(c) = FlattenSeq(ss)
  BY Zenon DEF Replayed
<1>6. CASE Len(ss) = 0
  <2>1. FlattenSeq(ss) = ss
    BY <1>6, Zenon DEF FlattenSeq
  <2>2. ss = <<>>
    <3> HIDE DEF ss
    <3> QED BY <1>4, <1>6, EmptySeq
  <2> QED BY <1>5, <2>1, <2>2
<1>7. CASE Len(ss) > 0
  <2> HIDE DEF ss
  <2>1. Len(ss) \in Nat /\ \A i \in 1..Len(ss) : ss[i] \in Seq(ToolEvent)
    BY <1>4, LenProperties, ElementOfSeq
  <2>2. L \in [1..Len(ss) -> SUBSET Seq(ToolEvent)] /\ \A i \in 1..Len(ss) : L[i] = Seq(ToolEvent)
    OBVIOUS
  <2>3. ss[1] \in L[1]
    BY <1>7, <2>1, <2>2
  <2>4. \A i \in 2..Len(ss) : \A s \in L[i - 1] : s \o ss[i] \in L[i]
    <3>1. ASSUME NEW i \in 2..Len(ss), NEW s \in L[i - 1]
          PROVE  s \o ss[i] \in L[i]
      <4>1. i \in 1..Len(ss) /\ i - 1 \in 1..Len(ss)
        BY <2>1
      <4>2. s \in Seq(ToolEvent) /\ ss[i] \in Seq(ToolEvent) /\ L[i] = Seq(ToolEvent)
        BY <2>1, <2>2, <4>1
      <4> HIDE DEF L
      <4> QED BY <4>2, ConcatProperties
    <3> QED BY <3>1
  <2> HIDE DEF L
  <2>5. FlattenSeq(ss) \in L[Len(ss)]
    BY <1>4, <1>7, <2>2, <2>3, <2>4, FlattenInduction
  <2> QED BY <1>5, <1>7, <2>1, <2>2, <2>5
<1>8. Len(ss) \in Nat
  <2> HIDE DEF ss
  <2> QED BY <1>4, LenProperties
<1> HIDE DEF ss
<1> QED BY <1>6, <1>7, <1>8

-----------------------------------------------------------------------------
(***************************************************************************)
(* The text of a bubble.  With neither a crash nor a break, it is what the *)
(* turn's rounds streamed from the moment the tab subscribed, the tokens   *)
(* in the connection's buffer continue it, and those published after them  *)
(* continue what is buffered.                                              *)
(***************************************************************************)
Listening == {"subscribed", "unanswered", "replayed", "live"}
Early == {"closed", "subscribed", "unanswered", "replayed"}

HasDone(b) == \E i \in 1..Len(b) : b[i].type = "done"

\* The reply is stored after the worker's last token.
SaidInv == (replied => wpc \in {"finish", "tell", "over"}) /\ (wpc = "down" => said = 0)

\* n[i] tokens were published up to the i-th of the events b, all m of them up
\* to the last; and only the last announces the reply.
Counts(n, b, m) ==
  /\ n \in [0..Len(b) -> 0..m]
  /\ n[Len(b)] = m
  /\ \A i \in 1..Len(b) :
       /\ b[i].type = "token" => b[i] = Token(<<n[i]>>) /\ n[i] = n[i - 1] + 1
       /\ b[i].type # "token" => n[i] = n[i - 1]
       /\ b[i].type = "done" => i = Len(b)

Continues(j, text, b, m) == \E n : Counts(n, b, m) /\ j <= n[0] /\ text = Tokens(j, n[0])

\* What a tab that subscribed after j tokens keeps when its connection is over.
Settled(j, text, h) ==
  \/ replied /\ text = reply
  \/ \E k \in j..said :
       /\ text = Tokens(j, k)
       /\ h = <<Done(reply)>> /\ reply # <<>> => k = said /\ wpc = "over"

ShownInv(c) ==
  /\ IsView(view[c]) /\ joined[c] \in 0..said
  /\ pc[c] \in Early => view[c].text = <<>>
  /\ pc[c] \in Listening =>
       /\ Continues(joined[c], view[c].text, buffered[c], said)
       /\ HasDone(buffered[c]) => wpc = "over"
  /\ pc[c] = "ended" => Settled(joined[c], view[c].text, heard[c])

Unbroken == crashes = 0 /\ drops = 0

UnbrokenInv ==
  /\ IsFiniteSet(requested) /\ requested \subseteq Calls \cup {Nobody}
  /\ view = [c \in Viewers |-> view[c]] /\ joined = [c \in Viewers |-> joined[c]]
  /\ SaidInv
  /\ \A c \in Viewers : ShownInv(c)

\* Together with StreamInv this is inductive: the text, the buffer and what the
\* worker said fit, unless a worker died or a connection broke.
TextInv ==
  /\ crashes \in Nat /\ drops \in Nat
  /\ Unbroken => UnbrokenInv

\* A buffer of nothing continues what was said so far.
LEMMA NothingYet ==
  ASSUME NEW m \in Nat, NEW b, b = <<>>
  PROVE  Continues(m, <<>>, b, m) /\ ~HasDone(b)
<1> DEFINE n == [i \in 0..0 |-> m]
<1>1. n \in [0..0 -> 0..m] /\ n[0] = m
  OBVIOUS
<1>2. Len(b) = 0
  OBVIOUS
<1> HIDE DEF n
<1>3. Counts(n, b, m)
  BY <1>1, <1>2 DEF Counts
<1>4. Tokens(m, m) = <<>>
  BY TokensNone
<1> QED BY <1>1, <1>2, <1>3, <1>4 DEF Continues, HasDone

\* A token published is the next one; nothing follows the announced reply.
LEMMA PublishedContinues ==
  ASSUME NEW j \in Nat, NEW text, NEW b \in Seq(Event), NEW e \in Event,
         NEW m \in Nat, NEW m1 \in Nat, Continues(j, text, b, m), ~HasDone(b),
         e.type = "token" => e = Token(<<m1>>) /\ m1 = m + 1,
         e.type # "token" => m1 = m
  PROVE  /\ Continues(j, text, Append(b, e), m1)
         /\ HasDone(Append(b, e)) => e.type = "done"
<1>1. PICK n : Counts(n, b, m) /\ j <= n[0] /\ text = Tokens(j, n[0])
  BY DEF Continues
<1> DEFINE k == Len(b)
           n1 == [i \in 0..k + 1 |-> IF i = k + 1 THEN m1 ELSE n[i]]
<1>2. k \in Nat /\ Len(Append(b, e)) = k + 1 /\ Append(b, e)[k + 1] = e
      /\ \A i \in 1..k : Append(b, e)[i] = b[i]
  OBVIOUS
<1>3. n \in [0..k -> 0..m] /\ n[k] = m
  BY <1>1 DEF Counts
<1>4. n1[k + 1] = m1 /\ (\A i \in 0..k : n1[i] = n[i]) /\ n1 \in [0..k + 1 -> 0..m1]
  <2>1. m <= m1
    OBVIOUS
  <2> QED BY <1>2, <1>3, <2>1
<1>5. PICK w : w = Append(b, e)
  OBVIOUS
<1> HIDE DEF n1
<1>6. ASSUME NEW i \in 1..k + 1
      PROVE  /\ w[i].type = "token" => w[i] = Token(<<n1[i]>>) /\ n1[i] = n1[i - 1] + 1
             /\ w[i].type # "token" => n1[i] = n1[i - 1]
             /\ w[i].type = "done" => i = k + 1 /\ e.type = "done"
  <2>1. CASE i = k + 1
    <3>1. w[i] = e /\ n1[i] = m1 /\ i - 1 \in 0..k /\ i - 1 = k
      BY <1>2, <1>4, <1>5, <2>1
    <3>2. n1[i - 1] = m
      BY <1>3, <1>4, <3>1
    <3> QED BY <2>1, <3>1, <3>2
  <2>2. CASE i # k + 1
    <3>1. i \in 1..k /\ i \in 0..k /\ i - 1 \in 0..k
      BY <1>2, <2>2
    <3>2. w[i] = b[i] /\ n1[i] = n[i] /\ n1[i - 1] = n[i - 1]
      BY <1>2, <1>4, <1>5, <3>1
    <3>3. b[i].type # "done"
      BY <3>1 DEF HasDone
    <3> QED BY <1>1, <3>1, <3>2, <3>3 DEF Counts
  <2> QED BY <2>1, <2>2
<1>7. Len(w) = k + 1
  BY <1>2, <1>5
<1>8. n1[0] = n[0]
  BY <1>2, <1>4
<1> HIDE DEF k
<1>9. Counts(n1, w, m1)
  BY <1>4, <1>6, <1>7 DEF Counts
<1>10. HasDone(w) => e.type = "done"
  BY <1>6, <1>7 DEF HasDone
<1> QED BY <1>1, <1>5, <1>8, <1>9, <1>10 DEF Continues

\* A text that a buffer continues is a piece of what was said.
LEMMA ContinuesIsPiece ==
  ASSUME NEW j \in Nat, NEW text, NEW b \in Seq(Event), NEW m \in Nat,
         Continues(j, text, b, m)
  PROVE  \E k \in j..m : text = Tokens(j, k)
<1>1. PICK n : Counts(n, b, m) /\ j <= n[0] /\ text = Tokens(j, n[0])
  BY DEF Continues
<1>2. n[0] \in 0..m
  BY <1>1 DEF Counts
<1> QED BY <1>1, <1>2

\* e is taken from the buffer b, and w and text1 are what it leaves.
Taken(j, text, b, m, e, w, text1) ==
  /\ j \in Nat /\ m \in Nat
  /\ b \in Seq(Event) /\ b # <<>> /\ e = Head(b) /\ w = Tail(b)
  /\ Continues(j, text, b, m)
  /\ e.type = "token" => text1 = text \o e.of
  /\ e.type # "token" => text1 = text

\* The first of the buffered events: a token extends the text, the rest of the
\* buffer still continues it, and with the announced reply it is complete.
LEMMA DeliveredContinues ==
  ASSUME NEW j, NEW text, NEW b, NEW m, NEW e, NEW w, NEW text1,
         Taken(j, text, b, m, e, w, text1)
  PROVE  /\ Continues(j, text1, w, m)
         /\ HasDone(w) => HasDone(b)
         /\ e.type = "done" => HasDone(b) /\ text1 = Tokens(j, m) /\ j <= m
<1>0. /\ j \in Nat /\ m \in Nat
      /\ b \in Seq(Event) /\ b # <<>> /\ e = Head(b) /\ w = Tail(b)
      /\ Continues(j, text, b, m)
      /\ e.type = "token" => text1 = text \o e.of
      /\ e.type # "token" => text1 = text
  BY DEF Taken
<1>1. PICK n : Counts(n, b, m) /\ j <= n[0] /\ text = Tokens(j, n[0])
  BY <1>0 DEF Continues
<1> DEFINE k == Len(b)
           n1 == [i \in 0..k - 1 |-> n[i + 1]]
<1>3. k \in Nat /\ k > 0 /\ e = b[1] /\ Len(w) = k - 1
      /\ \A i \in 1..k - 1 : w[i] = b[i + 1]
  BY <1>0
<1>4. n \in [0..k -> 0..m] /\ n[k] = m
  BY <1>1 DEF Counts
<1>5. n1 \in [0..k - 1 -> 0..m] /\ n1[k - 1] = m /\ \A i \in 0..k - 1 : n1[i] = n[i + 1]
  BY <1>3, <1>4
<1> HIDE DEF n1
<1>6. ASSUME NEW i \in 1..k - 1
      PROVE  /\ w[i].type = "token" => w[i] = Token(<<n1[i]>>) /\ n1[i] = n1[i - 1] + 1
             /\ w[i].type # "token" => n1[i] = n1[i - 1]
             /\ w[i].type = "done" => i = k - 1
             /\ i + 1 \in 1..k /\ w[i] = b[i + 1]
  <2>1. i + 1 \in 1..k /\ i \in 0..k - 1 /\ i - 1 \in 0..k - 1 /\ (i - 1) + 1 = i /\ (i + 1) - 1 = i
    BY <1>3
  <2>2. w[i] = b[i + 1] /\ n1[i] = n[i + 1] /\ n1[i - 1] = n[i]
    BY <1>3, <1>5, <2>1
  <2>3. /\ b[i + 1].type = "token" => b[i + 1] = Token(<<n[i + 1]>>) /\ n[i + 1] = n[(i + 1) - 1] + 1
        /\ b[i + 1].type # "token" => n[i + 1] = n[(i + 1) - 1]
        /\ b[i + 1].type = "done" => i + 1 = k
    BY <1>1, <2>1 DEF Counts
  <2>4. i + 1 = k => i = k - 1
    <3> HIDE DEF k
    <3>1. k \in Int /\ i \in Int
      BY <1>3
    <3> QED BY <3>1
  <2> QED BY <2>1, <2>2, <2>3, <2>4
<1>7. Counts(n1, w, m)
  <2> HIDE DEF k
  <2> QED BY <1>3, <1>5, <1>6 DEF Counts
<1>8. n1[0] = n[1] /\ 1 \in 1..k /\ n[0] \in Nat /\ n[1] \in Nat
  <2>1. 1 \in 1..k /\ 0 \in 0..k /\ 1 \in 0..k /\ 0 \in 0..k - 1
    BY <1>3
  <2>2. n[0] \in 0..m /\ n[1] \in 0..m
    BY <1>4, <2>1
  <2>3. n1[0] = n[1]
    BY <1>5, <2>1
  <2> QED BY <2>1, <2>2, <2>3
<1>9. /\ e.type = "token" => e = Token(<<n[1]>>) /\ n[1] = n[0] + 1
      /\ e.type # "token" => n[1] = n[0]
      /\ e.type = "done" => 1 = k
  <2>1. /\ b[1].type = "token" => b[1] = Token(<<n[1]>>) /\ n[1] = n[1 - 1] + 1
        /\ b[1].type # "token" => n[1] = n[1 - 1]
        /\ b[1].type = "done" => 1 = k
    BY <1>1, <1>8 DEF Counts
  <2> QED BY <1>3, <2>1
<1>10. j <= n[1] /\ text1 = Tokens(j, n[1])
  <2>1. CASE e.type = "token"
    <3>1. PICK t, x, y : t = <<n[1]>> /\ x = n[0] /\ y = n[1]
      OBVIOUS
    <3>2. e = Token(t) /\ y = x + 1
      BY <1>9, <2>1, <3>1
    <3>3. e.of = t
      BY <3>2 DEF Token
    <3>4. text1 = Tokens(j, x) \o <<x + 1>>
      BY <1>1, <1>0, <2>1, <3>1, <3>2, <3>3
    <3>5. x \in Nat /\ j \in Nat /\ j <= x
      BY <1>0, <1>1, <1>8, <3>1
    <3>6. Tokens(j, x) \o <<x + 1>> = Tokens(j, x + 1)
      BY <3>5, TokensGrow, Zenon
    <3>7. text1 = Tokens(j, y)
      BY <3>2, <3>4, <3>6
    <3>8. j <= y
      BY <3>2, <3>5
    <3> QED BY <3>1, <3>7, <3>8, Zenon
  <2>2. CASE e.type # "token"
    BY <1>1, <1>0, <1>9, <2>2
  <2> QED BY <2>1, <2>2
<1>11. HasDone(w) => HasDone(b)
  <2>1. SUFFICES ASSUME NEW i \in 1..Len(w), w[i].type = "done"
                 PROVE  HasDone(b)
    BY DEF HasDone
  <2>2. i \in 1..k - 1
    BY <1>3
  <2>3. i + 1 \in 1..Len(b) /\ b[i + 1].type = "done"
    BY <1>6, <2>1, <2>2
  <2> QED BY <2>3 DEF HasDone
<1>12. e.type = "done" => HasDone(b) /\ n[1] = m
  BY <1>3, <1>4, <1>8, <1>9 DEF HasDone
<1> QED BY <1>0, <1>7, <1>8, <1>10, <1>11, <1>12 DEF Continues

LEMMA TextInit == StreamInit => TextInv
<1> SUFFICES ASSUME StreamInit
             PROVE  TextInv
  OBVIOUS
<1>1. IsFiniteSet(requested) /\ requested \subseteq Calls \cup {Nobody}
  BY FS_EmptySet DEF StreamInit
<1>2. /\ crashes \in Nat /\ drops \in Nat /\ SaidInv
      /\ view = [c \in Viewers |-> view[c]] /\ joined = [c \in Viewers |-> joined[c]]
  BY DEF StreamInit, SaidInv
<1>3. ASSUME NEW c \in Viewers
      PROVE  ShownInv(c)
  <2>1. view[c] = Blank /\ pc[c] = "closed" /\ joined[c] \in 0..said
    BY DEF StreamInit
  <2>2. IsView(Blank)
    BY DEF IsView, Blank, Fields
  <2>3. PICK text : text = view[c].text
    OBVIOUS
  <2>4. text = <<>>
    BY <2>1, <2>3 DEF Blank
  <2> QED BY <2>1, <2>2, <2>3, <2>4 DEF ShownInv, Early, Listening
<1> QED BY <1>1, <1>2, <1>3 DEF TextInv, UnbrokenInv

\* What the worker publishes continues what it published before.
LEMMA WorkerTextStep ==
  ASSUME RowsInv, ConnInv, UnbrokenInv, WorkerStep \/ MarkFailed \/ Sweep
  PROVE  UnbrokenInv'
<1>1. UNCHANGED <<pc, view, heard, joined>>
  BY DEF WorkerStep, MarkFailed, Sweep, Claim, Rerun, Request, AnswerNow, StartCall, EndCall,
         RecordResult, Direct, DirectRequest, PublishToken, InsertReply, MarkDone, Tell, tabs
<1>2. IsFiniteSet(requested') /\ requested' \subseteq Calls \cup {Nobody}
  <2>1. \/ requested' = requested
        \/ \E call \in Calls \cup {Nobody} : requested' = requested \cup {call}
    BY DEF RowsInv, RowsTypes, WorkerStep, MarkFailed, Sweep, Claim, Rerun, Request, AnswerNow, StartCall, EndCall,
         RecordResult, Direct, DirectRequest, PublishToken, InsertReply, MarkDone, Tell, rows
  <2> QED BY <2>1, FS_AddElement DEF UnbrokenInv
<1>3. /\ SaidInv' /\ said' \in Nat /\ said <= said' /\ wpc # "over"
      /\ UNCHANGED <<replied, reply>> \/ (~replied /\ kind = "chat")
      /\ \/ UNCHANGED <<buffered, said>>
         \/ \E e \in Event :
              /\ Publish(e)
              /\ e.type = "token" => e = Token(<<said'>>) /\ said' = said + 1
              /\ e.type # "token" => said' = said
              /\ e.type = "done" => wpc' = "over"
  <2> USE StreamAssumption DEF UnbrokenInv, SaidInv, RowsInv, RowsTypes, PlaceInv, Working, spoken
  <2>1. CASE Claim
    BY <2>1 DEF Claim, Reconcile
  <2>2. CASE Rerun \/ DirectRequest \/ RecordResult \/ MarkDone \/ MarkFailed \/ Sweep
             \/ InsertReply \/ \E call \in Calls : Request(call)
    BY <2>2 DEF Rerun, DirectRequest, RecordResult, MarkDone, MarkFailed, Sweep, Request, InsertReply
  <2>3. CASE AnswerNow \/ \E call \in Calls : Direct(call)
    BY <2>3 DEF AnswerNow, Direct, rows
  <2>4. CASE StartCall
    <3>1. ToolStart(cur) \in Event /\ ToolStart(cur).type \notin {"token", "done"}
      BY DEF Event, ToolStart
    <3>2. Publish(ToolStart(cur)) /\ said' = said /\ SaidInv' /\ wpc # "over" /\ UNCHANGED <<replied, reply>>
      BY <2>4 DEF StartCall, rows
    <3> QED BY <3>1, <3>2
  <2>5. CASE EndCall
    <3>1. ToolEnd(cur) \in Event /\ ToolEnd(cur).type \notin {"token", "done"}
      BY DEF Event, ToolEnd
    <3>2. Publish(ToolEnd(cur)) /\ said' = said /\ SaidInv' /\ wpc # "over" /\ UNCHANGED <<replied, reply>>
      BY <2>5 DEF EndCall, rows
    <3> QED BY <3>1, <3>2
  <2>6. CASE PublishToken
    <3>1. /\ said' \in 1..NumChunks /\ said' = said + 1 /\ Publish(Token(<<said'>>)) /\ SaidInv'
          /\ wpc # "over" /\ UNCHANGED <<replied, reply>>
      BY <2>6 DEF PublishToken, rows
    <3>2. Token(<<said'>>) \in Event /\ Token(<<said'>>).type = "token"
      BY <3>1 DEF Event, Token
    <3> QED BY <3>1, <3>2
  <2>7. CASE Tell
    <3>1. PICK e : e = IF IsDone THEN Done(reply) ELSE Error
      OBVIOUS
    <3>2. e \in Event /\ e.type # "token"
      BY <3>1 DEF Event, Ends, Done, Error
    <3>3. /\ Publish(e) /\ said' = said /\ SaidInv' /\ wpc' = "over" /\ wpc # "over"
          /\ UNCHANGED <<replied, reply>>
      BY <2>7, <3>1 DEF Tell, rows
    <3> QED BY <3>2, <3>3
  <2> QED BY <2>1, <2>2, <2>3, <2>4, <2>5, <2>6, <2>7 DEF WorkerStep
<1>4. ASSUME NEW c \in Viewers
      PROVE  ShownInv(c)'
  <2>1. /\ ShownInv(c) /\ Hears(c) /\ buffered[c] \in Seq(Event) /\ said \in Nat
        /\ joined[c] \in Nat /\ joined[c] \in 0..said'
    BY <1>3 DEF UnbrokenInv, ConnInv, ConnTypes, RowsInv, RowsTypes, ShownInv
  <2>2. pc[c] \in Listening =>
          /\ Continues(joined[c], view[c].text, buffered'[c], said')
          /\ HasDone(buffered'[c]) => wpc' = "over"
    <3>1. SUFFICES ASSUME pc[c] \in Listening
                   PROVE  /\ Continues(joined[c], view[c].text, buffered'[c], said')
                          /\ HasDone(buffered'[c]) => wpc' = "over"
      OBVIOUS
    <3>2. Continues(joined[c], view[c].text, buffered[c], said) /\ ~HasDone(buffered[c])
      BY <1>3, <2>1, <3>1 DEF ShownInv
    <3>3. CASE UNCHANGED <<buffered, said>>
      BY <3>2, <3>3
    <3>4. ASSUME NEW e \in Event, Publish(e),
                 e.type = "token" => e = Token(<<said'>>) /\ said' = said + 1,
                 e.type # "token" => said' = said,
                 e.type = "done" => wpc' = "over"
          PROVE  /\ Continues(joined[c], view[c].text, buffered'[c], said')
                 /\ HasDone(buffered'[c]) => wpc' = "over"
      <4>1. buffered'[c] = Append(buffered[c], e)
        BY <3>1, <3>4 DEF Publish, Listening
      <4>2. PICK j, text, b, m, m1 :
               j = joined[c] /\ text = view[c].text /\ b = buffered[c] /\ m = said /\ m1 = said'
        OBVIOUS
      <4>3. /\ j \in Nat /\ b \in Seq(Event) /\ m \in Nat /\ m1 \in Nat
            /\ Continues(j, text, b, m) /\ ~HasDone(b)
        BY <1>3, <2>1, <3>2, <4>2
      <4>4. /\ e.type = "token" => e = Token(<<m1>>) /\ m1 = m + 1
            /\ e.type # "token" => m1 = m
        BY <3>4, <4>2
      <4>5. Continues(j, text, Append(b, e), m1) /\ (HasDone(Append(b, e)) => e.type = "done")
        BY <4>3, <4>4, PublishedContinues
      <4> QED BY <3>4, <4>1, <4>2, <4>5
    <3> QED BY <1>3, <3>3, <3>4
  <2>3. pc[c] = "ended" => Settled(joined[c], view[c].text, heard[c])'
    <3>1. SUFFICES ASSUME pc[c] = "ended"
                   PROVE  Settled(joined[c], view[c].text, heard[c])'
      OBVIOUS
    <3>2. Settled(joined[c], view[c].text, heard[c])
      BY <2>1, <3>1 DEF ShownInv
    <3>3. CASE replied /\ view[c].text = reply
      BY <1>1, <1>3, <3>3 DEF Settled
    <3>4. ASSUME NEW k \in joined[c]..said, view[c].text = Tokens(joined[c], k),
                 heard[c] = <<Done(reply)>> /\ reply # <<>> => k = said /\ wpc = "over"
          PROVE  Settled(joined[c], view[c].text, heard[c])'
      <4>1. k \in joined[c]..said'
        BY <1>3, <2>1, <3>4
      <4>2. ~(heard[c] = <<Done(reply')>> /\ reply' # <<>>)
        <5>1. CASE UNCHANGED reply
          BY <1>3, <3>4, <5>1
        <5>2. CASE ~replied /\ kind = "chat"
          <6>1. PICK e \in Ends : heard[c] = <<e>> /\ Stored(e)
            BY <2>1, <3>1 DEF Hears
          <6>2. e = Error
            BY <5>2, <6>1 DEF Stored, Answered
          <6> QED BY <6>1, <6>2, EventKinds
        <5> QED BY <1>3, <5>1, <5>2
      <4> QED BY <1>1, <3>4, <4>1, <4>2 DEF Settled
    <3> QED BY <3>2, <3>3, <3>4 DEF Settled
  <2> QED BY <1>1, <2>1, <2>2, <2>3 DEF ShownInv
<1> QED BY <1>1, <1>2, <1>3, <1>4 DEF UnbrokenInv

\* A connection's step, which leaves it at p with b buffered, h heard, the bubble
\* v and j tokens published before it subscribed.
LEMMA OwnTextStep ==
  ASSUME ConnInv, UnbrokenInv, UNCHANGED <<rows, worker>>, NEW c \in Viewers,
         NEW p, NEW b, NEW h, NEW v, NEW j \in 0..said,
         pc' = [pc EXCEPT ![c] = p],
         buffered' = [buffered EXCEPT ![c] = b],
         heard' = [heard EXCEPT ![c] = h],
         view' = [view EXCEPT ![c] = v],
         joined' = [joined EXCEPT ![c] = j],
         IsView(v),
         p \in Early => v.text = <<>>,
         p \in Listening => Continues(j, v.text, b, said),
         p \in Listening /\ HasDone(b) => wpc = "over",
         p = "ended" => Settled(j, v.text, h)
  PROVE  UnbrokenInv'
<1>1. DOMAIN view = Viewers /\ DOMAIN joined = Viewers
  BY DEF UnbrokenInv
<1>2. pc'[c] = p /\ buffered'[c] = b /\ heard'[c] = h /\ view'[c] = v /\ joined'[c] = j
  BY <1>1 DEF ConnInv, ConnTypes
<1>3. UNCHANGED <<said, wpc, replied, reply>>
  BY DEF rows, worker, spoken
<1>4. ShownInv(c)'
  BY <1>2, <1>3 DEF ShownInv, Settled
<1>5. ASSUME NEW d \in Viewers, d # c
      PROVE  ShownInv(d)'
  <2>1. /\ pc'[d] = pc[d] /\ buffered'[d] = buffered[d] /\ heard'[d] = heard[d]
        /\ view'[d] = view[d] /\ joined'[d] = joined[d]
    BY <1>1, <1>5 DEF ConnInv, ConnTypes
  <2>2. ShownInv(d)
    BY DEF UnbrokenInv
  <2> QED BY <1>3, <2>1, <2>2 DEF ShownInv, Settled
<1>6. view' = [d \in Viewers |-> view'[d]] /\ joined' = [d \in Viewers |-> joined'[d]]
  <2>1. DOMAIN view' = Viewers /\ DOMAIN joined' = Viewers
    BY <1>1
  <2>2. view' = [d \in Viewers |-> view'[d]]
    BY <1>1, Zenon
  <2>3. joined' = [d \in Viewers |-> joined'[d]]
    BY <1>1, Zenon
  <2> QED BY <2>2, <2>3
<1>7. SaidInv' /\ UNCHANGED requested
  BY <1>3 DEF UnbrokenInv, SaidInv, rows
<1> QED BY <1>4, <1>5, <1>6, <1>7 DEF UnbrokenInv

\* Nothing of the text changes with an end event.
LEMMA EndShown ==
  ASSUME NEW v, IsView(v), NEW e \in Ends
  PROVE  IsView(ShowAll(v, <<>> \o <<e>>)) /\ ShowAll(v, <<>> \o <<e>>).text = v.text
<1>1. e.type # "token" /\ <<>> \o <<e>> = <<e>>
  BY DEF Ends, Done, Error
<1>2. ShowAll(v, <<>> \o <<e>>) = Show(v, e)
  BY <1>1, ShowOne
<1> QED BY <1>1, <1>2, ShownText

\* What a connection's step shows continues what the tab had.
LEMMA StreamTextStep ==
  ASSUME RowsInv, ConnInv, UnbrokenInv, NEW c \in Viewers, StreamStep(c)
  PROVE  UnbrokenInv'
<1>1. UNCHANGED <<rows, worker>>
  BY StreamRowsStep
<1>2. /\ Hears(c) /\ buffered[c] \in Seq(Event) /\ said \in 0..NumChunks /\ ShownInv(c)
      /\ pc = [pc EXCEPT ![c] = pc[c]]
      /\ buffered = [buffered EXCEPT ![c] = buffered[c]]
      /\ heard = [heard EXCEPT ![c] = heard[c]]
  BY DEF ConnInv, ConnTypes, UnbrokenInv, RowsInv, RowsTypes
<1>3. view = [view EXCEPT ![c] = view[c]] /\ joined = [joined EXCEPT ![c] = joined[c]]
  <2>1. view = [view EXCEPT ![c] = view[c]]
    BY Zenon DEF UnbrokenInv
  <2>2. joined = [joined EXCEPT ![c] = joined[c]]
    BY Zenon DEF UnbrokenInv
  <2> QED BY <2>1, <2>2
<1>4. PICK v, text, j : v = view[c] /\ text = v.text /\ j = joined[c]
  OBVIOUS
<1>5. /\ IsView(v) /\ j \in 0..said /\ j \in Nat /\ said \in Nat
      /\ joined = [joined EXCEPT ![c] = j]
      /\ pc[c] \in Early => text = <<>>
      /\ pc[c] \in Listening => Continues(j, text, buffered[c], said)
      /\ pc[c] \in Listening /\ HasDone(buffered[c]) => wpc = "over"
  BY <1>2, <1>3, <1>4, StreamAssumption DEF ShownInv
<1>6. CASE Subscribe(c)
  <2>1. pc[c] \in Early /\ UNCHANGED view
    BY <1>6 DEF Subscribe, Early
  <2>2. PICK p, b, h, m : p = "subscribed" /\ b = <<>> /\ h = <<>> /\ m = said
    OBVIOUS
  <2>3. /\ pc' = [pc EXCEPT ![c] = p] /\ buffered' = [buffered EXCEPT ![c] = b]
        /\ heard' = [heard EXCEPT ![c] = h] /\ view' = [view EXCEPT ![c] = v]
        /\ joined' = [joined EXCEPT ![c] = m]
    BY <1>3, <1>4, <1>6, <2>1, <2>2 DEF Subscribe
  <2>4. Continues(m, <<>>, b, m) /\ ~HasDone(b)
    BY <1>5, <2>2, NothingYet
  <2>5. p # "ended" /\ m \in 0..said
    BY <1>5, <2>2
  <2>6. IsView(v) /\ v.text = <<>>
    BY <1>4, <1>5, <2>1
  <2>7. Continues(m, v.text, b, said)
    BY <2>2, <2>4, <2>6
  <2> QED BY <1>1, <2>3, <2>4, <2>5, <2>6, <2>7, OwnTextStep
<1>7. CASE CheckReply(c)
  <2>1. CASE replied
    <3>1. PICK t, e, u, h : t = Token(reply) /\ e = Done(reply) /\ u = ShowAll(v, <<t, e>>) /\ h = <<e>>
      OBVIOUS
    <3>2. /\ pc' = [pc EXCEPT ![c] = "ended"] /\ UNCHANGED <<buffered, joined>>
          /\ heard' = [heard EXCEPT ![c] = h]
          /\ view' = [view EXCEPT ![c] = u]
      <4>1. <<t>> \o <<e>> = <<t, e>>
        BY Pair
      <4>2. heard[c] = <<>> /\ <<>> \o <<e>> = <<e>>
        BY <1>2, <1>7 DEF CheckReply, Hears
      <4> QED BY <1>4, <1>7, <2>1, <3>1, <4>1, <4>2 DEF CheckReply, Send
    <3>3. text = <<>>
      BY <1>5, <1>7 DEF CheckReply, Early
    <3>4. u = Show(Show(v, t), e)
      BY <3>1, ShowTwo
    <3>5. t.type = "token" /\ t.of = reply /\ e.type # "token"
      BY <3>1 DEF Token, Done
    <3>6. IsView(Show(v, t)) /\ Show(v, t).text = text \o reply
      BY <1>4, <1>5, <3>5, ShownText
    <3>7. PICK x : x = Show(v, t)
      OBVIOUS
    <3>8. IsView(x) /\ u = Show(x, e) /\ x.text = <<>> \o reply
      BY <3>3, <3>4, <3>6, <3>7
    <3>9. IsView(u) /\ u.text = x.text
      BY <3>5, <3>8, ShownText
    <3>10. <<>> \o reply = reply
      BY DEF RowsInv, RowsTypes
    <3>11. u.text = reply
      BY <3>8, <3>9, <3>10
    <3>12. Settled(j, u.text, h)
      BY <2>1, <3>11 DEF Settled
    <3>13. "ended" \notin Early /\ "ended" \notin Listening
      BY DEF Early, Listening
    <3> QED BY <1>1, <1>2, <1>5, <3>2, <3>9, <3>12, <3>13, OwnTextStep
  <2>2. CASE ~replied
    <3>1. pc' = [pc EXCEPT ![c] = "unanswered"] /\ UNCHANGED <<view, heard, buffered, joined>>
      BY <1>7, <2>2 DEF CheckReply
    <3>2. pc[c] \in Early /\ pc[c] \in Listening
      BY <1>7 DEF CheckReply, Early, Listening
    <3>3. /\ view' = [view EXCEPT ![c] = v] /\ heard' = [heard EXCEPT ![c] = heard[c]]
          /\ buffered' = [buffered EXCEPT ![c] = buffered[c]]
      BY <1>2, <1>3, <1>4, <3>1
    <3>4. /\ IsView(v) /\ v.text = <<>> /\ j \in 0..said
          /\ Continues(j, v.text, buffered[c], said)
          /\ HasDone(buffered[c]) => wpc = "over"
          /\ joined' = [joined EXCEPT ![c] = j]
      BY <1>4, <1>5, <3>1, <3>2
    <3> QED BY <1>1, <3>1, <3>3, <3>4, OwnTextStep
  <2> QED BY <2>1, <2>2
<1>8. CASE ReplayTools(c)
  <2>1. PICK u, events : u = ShowAll(v, events) /\ events = Replayed(c)
    OBVIOUS
  <2>2. events \in Seq(ToolEvent)
    BY <2>1, ReplayedTools DEF UnbrokenInv
  <2>3. IsView(u) /\ u.text = text
    BY <1>4, <1>5, <2>1, <2>2, ShownTools
  <2>4. events \o <<>> = events
    BY <2>2
  <2>5. heard[c] \o <<>> = heard[c]
    BY DEF ConnInv, ConnTypes
  <2>6. /\ pc' = [pc EXCEPT ![c] = "replayed"] /\ UNCHANGED <<buffered, joined>>
        /\ heard' = [heard EXCEPT ![c] = heard[c]]
        /\ view' = [view EXCEPT ![c] = u]
    BY <1>4, <1>8, <2>1, <2>4, <2>5 DEF ReplayTools, Send
  <2>7. pc[c] \in Early /\ pc[c] \in Listening
    BY <1>8 DEF ReplayTools, Early, Listening
  <2> QED BY <1>1, <1>2, <1>5, <2>3, <2>6, <2>7, OwnTextStep
<1>9. CASE CheckStatus(c)
  <2>1. pc[c] \in Early /\ pc[c] \in Listening /\ UNCHANGED <<buffered, joined>>
    BY <1>9 DEF CheckStatus, Early, Listening
  <2>2. CASE ~IsEnded
    <3>1. Send(c, <<>>, <<>>) /\ pc' = [pc EXCEPT ![c] = "live"]
      BY <1>9, <2>2 DEF CheckStatus, IsEnded, IsDone
    <3>2. heard[c] \o <<>> = heard[c] /\ <<>> \o <<>> = <<>>
      BY DEF ConnInv, ConnTypes
    <3>3. /\ heard' = [heard EXCEPT ![c] = heard[c]]
          /\ view' = [view EXCEPT ![c] = v]
      BY <1>4, <3>1, <3>2, ShowNone DEF Send
    <3>4. "live" \notin Early
      BY DEF Early
    <3> QED BY <1>1, <1>2, <1>4, <1>5, <2>1, <3>1, <3>3, <3>4, OwnTextStep
  <2>3. CASE IsEnded
    <3>1. PICK e, u, h : e = (IF IsDone THEN Done(<<>>) ELSE Error) /\ u = ShowAll(v, <<>> \o <<e>>)
                         /\ h = heard[c] \o <<e>>
      OBVIOUS
    <3>2. Send(c, <<>>, <<e>>) /\ pc' = [pc EXCEPT ![c] = "ended"] /\ e \in Ends
      <4>1. Done(<<>>) \in Ends /\ Error \in Ends
        BY NoText DEF Ends
      <4>2. e \in Ends
        BY <3>1, <4>1
      <4> QED BY <1>9, <2>3, <3>1, <4>2 DEF CheckStatus, IsEnded, IsDone
    <3>3. /\ heard' = [heard EXCEPT ![c] = h]
          /\ view' = [view EXCEPT ![c] = u]
      BY <1>4, <3>1, <3>2 DEF Send
    <3>4. IsView(u) /\ u.text = text
      BY <1>4, <1>5, <3>1, <3>2, EndShown
    <3>5. "ended" \notin Early /\ "ended" \notin Listening
      BY DEF Early, Listening
    <3>6. Settled(j, u.text, h)
      <4>1. u.text = Tokens(j, j) /\ j \in j..said
        BY <1>5, <2>1, <3>4, TokensNone
      <4>2. ~(h = <<Done(reply)>> /\ reply # <<>>)
        <5>1. h = <<e>>
          <6>1. heard[c] = <<>>
            BY <1>2, <1>9 DEF CheckStatus, Hears
          <6> QED BY <3>1, <6>1
        <5>2. e.of = <<>>
          BY <3>1 DEF Done, Error
        <5>3. h = <<Done(reply)>> => e = Done(reply)
          BY <5>1
        <5> QED BY <5>2, <5>3 DEF Done
      <4> QED BY <4>1, <4>2 DEF Settled
    <3> QED BY <1>1, <1>2, <1>5, <2>1, <3>2, <3>3, <3>4, <3>5, <3>6, OwnTextStep
  <2> QED BY <2>2, <2>3
<1>10. CASE Deliver(c)
  <2>1. PICK b, e, w, m, text1 :
           /\ b = buffered[c] /\ e = Head(b) /\ w = Tail(b) /\ m = said
           /\ text1 = IF e.type = "token" THEN text \o e.of ELSE text
    OBVIOUS
  <2>2. /\ b \in Seq(Event) /\ b # <<>> /\ m \in Nat /\ Continues(j, text, b, m)
        /\ HasDone(b) => wpc = "over"
    BY <1>2, <1>5, <1>10, <2>1 DEF Deliver, Listening
  <2>3. /\ Continues(j, text1, w, m)
        /\ HasDone(w) => HasDone(b)
        /\ e.type = "done" => HasDone(b) /\ text1 = Tokens(j, m) /\ j <= m
    <3>1. j \in Nat
      BY <1>5
    <3>2. (e.type = "token" => text1 = text \o e.of) /\ (e.type # "token" => text1 = text)
      BY <2>1
    <3>3. Taken(j, text, b, m, e, w, text1)
      BY <2>1, <2>2, <3>1, <3>2 DEF Taken
    <3> QED BY <3>3, DeliveredContinues
  <2>4. e \in Event /\ heard[c] = <<>>
    BY <1>2, <1>10, <2>1, <2>2 DEF Deliver, Hears
  <2>5. buffered' = [buffered EXCEPT ![c] = w] /\ joined' = [joined EXCEPT ![c] = j]
    BY <1>5, <1>10, <2>1 DEF Deliver
  <2>6. CASE IsEnd(e)
    <3>1. PICK u, h : u = ShowAll(v, <<>> \o <<e>>) /\ h = <<e>>
      OBVIOUS
    <3>2. Send(c, <<>>, <<e>>) /\ pc' = [pc EXCEPT ![c] = "ended"] /\ e \in Ends
      BY <1>10, <2>1, <2>4, <2>6, EventKinds DEF Deliver
    <3>3. heard[c] \o <<e>> = h
      BY <2>4, <3>1
    <3>4. /\ heard' = [heard EXCEPT ![c] = h]
          /\ view' = [view EXCEPT ![c] = u]
      BY <1>4, <3>1, <3>2, <3>3 DEF Send
    <3>5. IsView(u) /\ u.text = text
      BY <1>4, <1>5, <3>1, <3>2, EndShown
    <3>6. text = text1
      BY <2>1, <2>6 DEF IsEnd
    <3>7. "ended" \notin Early /\ "ended" \notin Listening
      BY DEF Early, Listening
    <3>9. w \in Seq(Event)
      BY <2>1, <2>2
    <3>8. Settled(j, u.text, h)
      <4>1. CASE e.type = "done"
        <5>1. u.text = Tokens(j, said) /\ said \in j..said /\ wpc = "over"
          <6>1. u.text = Tokens(j, m) /\ j <= m /\ wpc = "over" /\ m = said
            BY <2>1, <2>2, <2>3, <3>5, <3>6, <4>1
          <6>2. m \in j..m
            BY <1>5, <2>2, <6>1
          <6> QED BY <6>1, <6>2
        <5> QED BY <5>1 DEF Settled
      <4>2. CASE e.type # "done"
        <5>1. PICK k \in j..m : text1 = Tokens(j, k)
          BY <1>5, <2>2, <2>3, <3>9, ContinuesIsPiece
        <5>2. h # <<Done(reply)>>
          <6>1. h = <<Done(reply)>> => e = Done(reply)
            BY <3>1
          <6> QED BY <4>2, <6>1 DEF Done
        <5> QED BY <2>1, <3>5, <3>6, <5>1, <5>2 DEF Settled
      <4> QED BY <4>1, <4>2
    <3> QED BY <1>1, <1>5, <2>5, <3>2, <3>4, <3>5, <3>7, <3>8, OwnTextStep
  <2>7. CASE ~IsEnd(e)
    <3>1. PICK u, q : u = Show(v, e) /\ q = pc[c]
      OBVIOUS
    <3>2. Send(c, <<e>>, <<>>) /\ UNCHANGED pc /\ q = "live"
      BY <1>10, <2>1, <2>7, <3>1 DEF Deliver
    <3>3. heard[c] \o <<>> = heard[c] /\ <<e>> \o <<>> = <<e>>
      BY <2>4
    <3>4. /\ heard' = [heard EXCEPT ![c] = heard[c]]
          /\ view' = [view EXCEPT ![c] = u]
      BY <1>4, <3>1, <3>2, <3>3, ShowOne DEF Send
    <3>5. IsView(u) /\ u.text = text1
      <4>1. IsView(Show(v, e)) /\ Show(v, e).text = IF e.type = "token" THEN v.text \o e.of ELSE v.text
        BY <1>5, ShownText
      <4> QED BY <1>4, <2>1, <3>1, <4>1
    <3>6. q \notin Early /\ q # "ended" /\ pc' = [pc EXCEPT ![c] = q]
      BY <1>2, <3>1, <3>2 DEF Early
    <3> QED BY <1>1, <1>5, <2>1, <2>2, <2>3, <2>5, <3>4, <3>5, <3>6, OwnTextStep
  <2> QED BY <2>6, <2>7
<1>11. CASE ReconcileTools(c)
  <2>1. PICK u : u = [v EXCEPT !.tools = requested, !.state = "reconciled"]
    OBVIOUS
  <2>2. view' = [view EXCEPT ![c] = u] /\ UNCHANGED <<pc, buffered, heard, joined>>
    BY <1>4, <1>11, <2>1 DEF ReconcileTools
  <2>3. v = [x \in Fields |-> v[x]]
    BY <1>5 DEF IsView
  <2>4. IsView(u) /\ u.text = text
    BY <1>4, <2>1, <2>3 DEF IsView, Fields
  <2>5. pc[c] = "ended" /\ "ended" \notin Early /\ "ended" \notin Listening
    BY <1>11 DEF ReconcileTools, Early, Listening
  <2>6. Settled(j, u.text, heard[c])
    BY <1>2, <1>4, <2>4, <2>5 DEF ShownInv
  <2> QED BY <1>1, <1>2, <1>5, <2>2, <2>4, <2>5, <2>6, OwnTextStep
<1> QED BY <1>6, <1>7, <1>8, <1>9, <1>10, <1>11 DEF StreamStep

-----------------------------------------------------------------------------
\* A crash or a break ends the claim, and no other step breaks the text.
LEMMA TextStep ==
  ASSUME StreamInv, TextInv, [StreamNext]_vars
  PROVE  TextInv'
<1>1. RowsInv /\ ConnInv
  BY DEF StreamInv
<1>2. CASE UNCHANGED vars
  BY <1>2 DEF vars, TextInv, Unbroken, UnbrokenInv, SaidInv, ShownInv, Settled
<1>3. CASE CrashWorker \/ \E c \in Viewers : Drop(c)
  <2>1. crashes' \in Nat /\ drops' \in Nat /\ (crashes' # 0 \/ drops' # 0)
    BY <1>3 DEF TextInv, CrashWorker, Drop, tabs, worker
  <2> QED BY <2>1 DEF TextInv, Unbroken
<1>4. CASE WorkerStep \/ MarkFailed \/ Sweep
  <2>1. UNCHANGED <<crashes, drops>>
    BY <1>4 DEF WorkerStep, MarkFailed, Sweep, Claim, Rerun, Request, AnswerNow, StartCall, EndCall,
         RecordResult, Direct, DirectRequest, PublishToken, InsertReply, MarkDone, Tell, tabs
  <2> QED BY <1>1, <1>4, <2>1, WorkerTextStep DEF TextInv, Unbroken
<1>5. ASSUME NEW c \in Viewers, StreamStep(c)
      PROVE  TextInv'
  <2>1. UNCHANGED <<crashes, drops>>
    BY <1>5 DEF StreamStep, Subscribe, CheckReply, ReplayTools, CheckStatus, Deliver,
         ReconcileTools, worker
  <2> QED BY <1>1, <1>5, <2>1, StreamTextStep DEF TextInv, Unbroken
<1> QED BY <1>2, <1>3, <1>4, <1>5 DEF StreamNext

\* Unless a worker died or a connection broke, a tab shows what the turn's rounds
\* streamed since it subscribed, one token after the other, and all of them once
\* the reply is announced to it; or it shows the stored reply and nothing else.
THEOREM TextRunsOn == StreamSpec => []TextIsContiguous
<1>1. StreamInit => TextInv
  BY TextInit
<1>2. StreamInv /\ TextInv /\ [StreamNext]_vars => TextInv'
  BY TextStep
<1>3. StreamInv /\ TextInv => TextIsContiguous
  <2> SUFFICES ASSUME StreamInv, TextInv, crashes = 0, drops = 0, NEW c \in Viewers
               PROVE  \/ replied /\ view[c].text = reply
                      \/ \E n \in joined[c]..said :
                           /\ view[c].text = Tokens(joined[c], n)
                           /\ heard[c] = <<Done(reply)>> /\ reply # <<>> => n = said
    BY Zenon DEF TextIsContiguous
  <2>1. ShownInv(c) /\ Hears(c) /\ pc[c] \in Place /\ buffered[c] \in Seq(Event)
    BY DEF TextInv, Unbroken, UnbrokenInv, StreamInv, ConnInv, ConnTypes
  <2>2. joined[c] \in 0..said /\ said \in Nat /\ joined[c] \in Nat
    BY <2>1, StreamAssumption DEF ShownInv, StreamInv, RowsInv, RowsTypes
  <2>3. CASE pc[c] = "ended"
    BY <2>1, <2>3 DEF ShownInv, Settled
  <2>4. CASE pc[c] # "ended"
    <3>1. heard[c] # <<Done(reply)>>
      BY <2>1, <2>4 DEF Hears
    <3>2. \E n \in joined[c]..said : view[c].text = Tokens(joined[c], n)
      <4>1. PICK j, text, b, m : j = joined[c] /\ text = view[c].text /\ b = buffered[c] /\ m = said
        OBVIOUS
      <4>2. CASE pc[c] \in Listening
        BY <2>1, <2>2, <4>1, <4>2, ContinuesIsPiece DEF ShownInv
      <4>3. CASE pc[c] = "closed"
        <5>1. text = Tokens(j, j) /\ j \in j..m
          <6>1. text = <<>> /\ j \in Nat /\ m \in Nat /\ j <= m
            BY <2>1, <2>2, <4>1, <4>3 DEF ShownInv, Early
          <6> QED BY <6>1, TokensNone
        <5> QED BY <4>1, <5>1
      <4> QED BY <2>1, <2>4, <4>2, <4>3 DEF Place, Listening
    <3> QED BY <3>1, <3>2
  <2> QED BY <2>3, <2>4
<1> QED BY <1>1, <1>2, <1>3, StreamInvHolds, PTL DEF StreamSpec
=============================================================================
