--------------------------- MODULE ToolLoopProofs ---------------------------
(***************************************************************************)
(* Theorems about ToolLoop, for any tools, turns, rounds and calls, any    *)
(* history limit and whatever fails.  They rest on lemmas about its lists. *)
(* Four invariants build on one another: where the body stands             *)
(* (ControlInv), what the rows of every turn are worth (RowsInv), what the *)
(* list for the model is worth and that it tells of nothing that is not    *)
(* stored (ListInv), and that the list, with what its summaries were made  *)
(* of, still stands for every row (RemembersInv).                          *)
(***************************************************************************)
EXTENDS ToolLoop, SequenceLemmas

-----------------------------------------------------------------------------
(***************************************************************************)
(* First the lists ToolLoop is built from: the concatenated history, the   *)
(* entries of a list, how requests and results stand in it, and what a     *)
(* slice, a compaction and a split keep of a list.                         *)
(***************************************************************************)

\* A set of positions has a last one, and LastOf is it.
LEMMA LastOfProperties ==
  ASSUME NEW N \in Nat, NEW P \in SUBSET (1..N), P # {}
  PROVE  LastOf(P) \in P /\ \A j \in P : j <= LastOf(P)
<1> DEFINE Less == {p \in Nat \X Nat : p[1] < p[2]}
           FromEnd == {N - i : i \in P}
<1>1. FromEnd \subseteq Nat /\ FromEnd # {}
  <2>1. \A i \in P : N - i \in Nat
    OBVIOUS
  <2>2. PICK i \in P : TRUE
    OBVIOUS
  <2> QED BY <2>1, <2>2
<1>2. PICK n \in FromEnd : \A k \in FromEnd : <<k, n>> \notin Less
  <2>1. IsWellFoundedOn(Less, Nat)
    BY NatLessThanWellFounded DEF OpToRel
  <2> HIDE DEF FromEnd, Less
  <2> QED BY <1>1, <2>1, WFMin
<1>3. PICK last \in P : n = N - last
  BY <1>2
<1>4. ASSUME NEW j \in P
      PROVE  j <= last
  <2>1. <<N - j, n>> \notin Less /\ N - j \in Nat /\ n \in Nat
    BY <1>2, <1>1
  <2>2. ~(N - j < n)
    BY <2>1
  <2> QED BY <2>2, <1>3
<1> QED BY <1>3, <1>4 DEF LastOf

-----------------------------------------------------------------------------
(* Entries, and how requests and results stand in a list. *)

Turns == 1..MaxTurns

RowEntry ==
  [kind : {"user", "reply"}, turn : Turns]
    \cup [kind : {"ask"}, turn : Turns, iter : Nat, calls : Seq(Tool)]
    \cup [kind : {"result"}, turn : Turns, iter : Nat, call : Nat]

SystemEntry == [kind : {"system"}]
Entry == RowEntry \cup SystemEntry \cup [kind : {"summary"}, of : SUBSET (RowEntry \cup SystemEntry)]

\* The fields an entry of each kind has.
LEMMA EntryFields ==
  ASSUME NEW e \in Entry
  PROVE  /\ e.kind = "ask" => /\ e \in RowEntry /\ e.turn \in Turns /\ e.iter \in Nat
                              /\ e.calls \in Seq(Tool) /\ Len(e.calls) \in Nat
                              /\ DOMAIN e.calls = 1..Len(e.calls)
         /\ e.kind = "result" => e.call \in Nat /\ e.turn \in Turns /\ e.iter \in Nat
         /\ e.kind \in {"user", "reply", "result"} => e \in RowEntry /\ e.turn \in Turns
         /\ e \in RowEntry => e.kind \in {"user", "reply", "ask", "result"} /\ e.turn \in Turns
<1>1. e.kind = "ask" => e \in [kind : {"ask"}, turn : Turns, iter : Nat, calls : Seq(Tool)]
  BY DEF Entry, RowEntry, SystemEntry
<1>2. e.kind = "result" => e \in [kind : {"result"}, turn : Turns, iter : Nat, call : Nat]
  BY DEF Entry, RowEntry, SystemEntry
<1>3. e.kind \in {"user", "reply"} => e \in [kind : {"user", "reply"}, turn : Turns]
  BY DEF Entry, RowEntry, SystemEntry
<1>4. e \in RowEntry => e.kind \in {"user", "reply", "ask", "result"} /\ e.turn \in Turns
  BY DEF RowEntry
<1>5. ASSUME e.kind = "ask"
      PROVE  e.calls \in Seq(Tool) /\ Len(e.calls) \in Nat /\ DOMAIN e.calls = 1..Len(e.calls)
  <2>1. e.calls \in Seq(Tool)
    BY <1>1, <1>5
  <2> QED BY <2>1, LenProperties
<1> QED BY <1>1, <1>2, <1>3, <1>4, <1>5 DEF RowEntry

\* The request at i has all its results right behind it.
HasResults(list, i) ==
  \A k \in DOMAIN list[i].calls :
    i + k \in DOMAIN list /\ list[i + k] = Result(list[i].turn, list[i].iter, k)

\* The result at i stands behind its request and the results before it.
HasRequest(list, i) ==
  LET j == i - list[i].call
  IN  /\ j \in DOMAIN list /\ list[j].kind = "ask"
      /\ list[i].call \in DOMAIN list[j].calls
      /\ \A k \in 1..list[i].call : list[j + k] = Result(list[j].turn, list[j].iter, k)

ResultsBelong(list) == \A i \in DOMAIN list : list[i].kind = "result" => HasRequest(list, i)
RequestsMet(list, n) == \A i \in 1..n : list[i].kind = "ask" => HasResults(list, i)
AllMet(list) == RequestsMet(list, Len(list))

\* The list ends in this request and its first n results.
EndsOpen(list, ask, n) ==
  LET p == Len(list) - n
  IN  /\ p \in DOMAIN list
      /\ list[p] = ask
      /\ \A k \in 1..n : list[p + k] = Result(ask.turn, ask.iter, k)

\* The two halves of Closed.
LEMMA ClosedIff ==
  ASSUME NEW s \in Seq(Entry), ResultsBelong(s)
  PROVE  Closed(s) <=> AllMet(s)
<1>1. Len(s) \in Nat /\ DOMAIN s = 1..Len(s) /\ \A i \in 1..Len(s) : s[i] \in Entry
  BY LenProperties, ElementOfSeq
<1>2. ASSUME Closed(s), NEW i \in 1..Len(s), s[i].kind = "ask"
      PROVE  HasResults(s, i)
  BY <1>1, <1>2 DEF Closed, HasResults
<1>3. ASSUME NEW i \in DOMAIN s, s[i].kind = "result"
      PROVE  LET j == i - s[i].call
             IN  /\ j \in DOMAIN s /\ s[j].kind = "ask"
                 /\ s[j].turn = s[i].turn /\ s[j].iter = s[i].iter
  <2> DEFINE c == s[i].call
             j == i - c
  <2>1. c \in Nat /\ i \in Nat
    BY <1>1, EntryFields, <1>3
  <2>2. j \in DOMAIN s /\ s[j].kind = "ask" /\ c \in DOMAIN s[j].calls
        /\ \A k \in 1..c : s[j + k] = Result(s[j].turn, s[j].iter, k)
    BY <1>3 DEF ResultsBelong, HasRequest
  <2>3. c \in 1..c /\ j + c = i
    <3>1. s[j] \in Entry
      BY <2>2, <1>1
    <3>2. DOMAIN s[j].calls = 1..Len(s[j].calls) /\ Len(s[j].calls) \in Nat
      BY <3>1, <2>2, EntryFields
    <3> HIDE DEF c
    <3> QED BY <2>1, <2>2, <3>2
  <2>4. s[i] = Result(s[j].turn, s[j].iter, c)
    BY <2>2, <2>3
  <2> HIDE DEF c, j
  <2>5. s[i].turn = s[j].turn /\ s[i].iter = s[j].iter
    BY <2>4 DEF Result
  <2> QED BY <2>2, <2>5 DEF c, j
<1>4. ASSUME AllMet(s)
      PROVE  Closed(s)
  <2>1. \A i \in DOMAIN s : s[i].kind = "ask" => HasResults(s, i)
    BY <1>1, <1>4 DEF AllMet, RequestsMet
  <2> QED BY <2>1, <1>3 DEF Closed, HasResults
<1> QED BY <1>2, <1>4 DEF AllMet, RequestsMet

\* Two lists without a stray result, or without an open request, one behind
\* the other.
LEMMA ShapeConcat ==
  ASSUME NEW s \in Seq(Entry), NEW t \in Seq(Entry)
  PROVE  /\ ResultsBelong(s) /\ ResultsBelong(t) => ResultsBelong(s \o t)
         /\ AllMet(s) /\ AllMet(t) => AllMet(s \o t)
         /\ \A n \in 0..Len(s) : RequestsMet(s, n) => RequestsMet(s \o t, n)
<1> DEFINE u == s \o t
<1>1. /\ u \in Seq(Entry) /\ Len(u) = Len(s) + Len(t)
      /\ \A i \in 1..Len(s) + Len(t) : u[i] = IF i <= Len(s) THEN s[i] ELSE t[i - Len(s)]
      /\ Len(s) \in Nat /\ Len(t) \in Nat
      /\ DOMAIN u = 1..Len(s) + Len(t) /\ DOMAIN s = 1..Len(s) /\ DOMAIN t = 1..Len(t)
      /\ \A i \in 1..Len(s) : s[i] \in Entry
      /\ \A i \in 1..Len(t) : t[i] \in Entry
  BY ConcatProperties, LenProperties, ElementOfSeq
<1> HIDE DEF u
<1>2. \A i \in 1..Len(s) : i \in DOMAIN u /\ u[i] = s[i]
  BY <1>1
<1>3. ASSUME NEW i \in 1..Len(t)
      PROVE  i + Len(s) \in DOMAIN u /\ u[i + Len(s)] = t[i]
  <2>1. i + Len(s) \in 1..Len(s) + Len(t) /\ ~(i + Len(s) <= Len(s)) /\ (i + Len(s)) - Len(s) = i
    BY <1>1
  <2> QED BY <2>1, <1>1
<1>4. ASSUME NEW i \in 1..Len(s), s[i].kind = "ask", HasResults(s, i)
      PROVE  HasResults(u, i)
  BY <1>1, <1>2, <1>4 DEF HasResults
<1>5. ASSUME NEW i \in 1..Len(t), t[i].kind = "ask", HasResults(t, i)
      PROVE  HasResults(u, i + Len(s))
  <2>1. \A k \in DOMAIN t[i].calls : k \in Nat /\ i + k \in 1..Len(t) /\ (i + k) + Len(s) = (i + Len(s)) + k
    BY <1>1, <1>5, EntryFields DEF HasResults
  <2> QED BY <1>3, <1>5, <2>1 DEF HasResults
<1>6. ASSUME NEW i \in 1..Len(s), s[i].kind = "result", HasRequest(s, i)
      PROVE  HasRequest(u, i)
  <2> DEFINE j == i - s[i].call
  <2>1. s[i].call \in Nat
    BY <1>1, <1>6, EntryFields
  <2>2. j \in 1..Len(s) /\ \A k \in 1..s[i].call : j + k \in 1..Len(s)
    BY <1>1, <1>6, <2>1, SMTT(20) DEF HasRequest
  <2> QED BY <1>1, <1>2, <1>6, <2>2 DEF HasRequest
<1>7. ASSUME NEW i \in 1..Len(t), t[i].kind = "result", HasRequest(t, i)
      PROVE  HasRequest(u, i + Len(s))
  <2> DEFINE c == t[i].call
             j == i - c
  <2>1. c \in Nat /\ u[i + Len(s)] = t[i] /\ i \in Nat /\ Len(s) \in Nat
    BY <1>1, <1>3, <1>7, EntryFields
  <2>2. /\ j \in 1..Len(t) /\ t[j].kind = "ask" /\ c \in DOMAIN t[j].calls
        /\ \A k \in 1..c : t[j + k] = Result(t[j].turn, t[j].iter, k)
    BY <1>1, <1>7 DEF HasRequest
  <2>3. j + Len(s) \in DOMAIN u /\ u[j + Len(s)] = t[j]
    BY <1>3, <2>2
  <2>4. \A k \in 1..c : j + k \in 1..Len(t) /\ (j + k) + Len(s) = (j + Len(s)) + k
    BY <1>1, <2>1, <2>2, SMTT(20)
  <2>5. \A k \in 1..c : u[(j + Len(s)) + k] = t[j + k]
    BY <2>4, <1>3
  <2>6. (i + Len(s)) - c = j + Len(s)
    BY <2>1
  <2> HIDE DEF c, j
  <2>7. \A k \in 1..c : u[(j + Len(s)) + k] = Result(u[j + Len(s)].turn, u[j + Len(s)].iter, k)
    BY <2>2, <2>3, <2>5
  <2> QED BY <2>1, <2>2, <2>3, <2>6, <2>7 DEF HasRequest, c
<1>8. \A i \in 1..Len(u) : i \in 1..Len(s) \/ (i - Len(s) \in 1..Len(t) /\ i = (i - Len(s)) + Len(s))
  BY <1>1
<1>9. ASSUME ResultsBelong(s), ResultsBelong(t), NEW i \in 1..Len(u), u[i].kind = "result"
      PROVE  HasRequest(u, i)
  <2>1. CASE i \in 1..Len(s)
    BY <1>1, <1>2, <1>6, <1>9, <2>1 DEF ResultsBelong
  <2>2. CASE i - Len(s) \in 1..Len(t) /\ i = (i - Len(s)) + Len(s)
    BY <1>1, <1>3, <1>7, <1>9, <2>2 DEF ResultsBelong
  <2> QED BY <1>8, <2>1, <2>2
<1>10. ASSUME NEW n \in 0..Len(s), RequestsMet(s, n), NEW i \in 1..n, u[i].kind = "ask"
       PROVE  HasResults(u, i)
  <2>1. i \in 1..Len(s)
    BY <1>1
  <2> QED BY <1>2, <1>4, <1>10, <2>1 DEF RequestsMet
<1>11. ASSUME AllMet(s), AllMet(t), NEW i \in 1..Len(u), u[i].kind = "ask"
       PROVE  HasResults(u, i)
  <2>1. CASE i \in 1..Len(s)
    BY <1>1, <1>2, <1>4, <1>11, <2>1 DEF AllMet, RequestsMet
  <2>2. CASE i - Len(s) \in 1..Len(t) /\ i = (i - Len(s)) + Len(s)
    BY <1>1, <1>3, <1>5, <1>11, <2>2 DEF AllMet, RequestsMet
  <2> QED BY <1>8, <2>1, <2>2
<1>12. DOMAIN u = 1..Len(u)
  BY <1>1
<1>13. ResultsBelong(s) /\ ResultsBelong(t) => ResultsBelong(u)
  BY <1>9, <1>12 DEF ResultsBelong
<1>14. AllMet(s) /\ AllMet(t) => AllMet(u)
  BY <1>11 DEF AllMet, RequestsMet
<1>15. \A n \in 0..Len(s) : RequestsMet(s, n) => RequestsMet(u, n)
  BY <1>10 DEF RequestsMet
<1> QED BY <1>13, <1>14, <1>15 DEF u

\* A list from an entry on that is no result.
LEMMA ShapeSuffix ==
  ASSUME NEW s \in Seq(Entry), NEW c \in 1..Len(s), s[c].kind # "result"
  PROVE  /\ ResultsBelong(s) => ResultsBelong(SubSeq(s, c, Len(s)))
         /\ AllMet(s) => AllMet(SubSeq(s, c, Len(s)))
<1> DEFINE u == SubSeq(s, c, Len(s))
           off == c - 1
<1>1. /\ u \in Seq(Entry) /\ Len(s) \in Nat /\ DOMAIN s = 1..Len(s)
      /\ Len(u) = Len(s) - off /\ DOMAIN u = 1..Len(u) /\ Len(u) \in Nat
      /\ \A i \in 1..Len(s) : s[i] \in Entry
  BY Suffix, LenProperties, ElementOfSeq
<1>2. ASSUME NEW i \in 1..Len(u)
      PROVE  i + off \in 1..Len(s) /\ u[i] = s[i + off]
  <2>1. i \in 1..Len(s) - c + 1 /\ c + i - 1 = i + off
    BY <1>1
  <2>2. u[i] = s[c + i - 1]
    BY <2>1, Suffix
  <2> QED BY <1>1, <2>1, <2>2
<1>3. off \in Nat /\ c = off + 1
  OBVIOUS
<1> HIDE DEF u, off
<1>4. ASSUME NEW i \in 1..Len(u), u[i].kind = "ask", HasResults(s, i + off)
      PROVE  HasResults(u, i)
  <2>1. s[i + off] = u[i] /\ u[i] \in Entry
    BY <1>1, <1>2
  <2>2. DOMAIN u[i].calls = 1..Len(u[i].calls) /\ Len(u[i].calls) \in Nat
    BY <2>1, <1>4, EntryFields
  <2>3. ASSUME NEW k \in 1..Len(u[i].calls)
        PROVE  i + k \in 1..Len(u) /\ u[i + k] = Result(u[i].turn, u[i].iter, k)
    <3>1. (i + off) + k \in 1..Len(s) /\ s[(i + off) + k] = Result(u[i].turn, u[i].iter, k)
      BY <1>1, <1>4, <2>1, <2>2, <2>3 DEF HasResults
    <3>2. i + k \in 1..Len(u) /\ (i + k) + off = (i + off) + k
      BY <1>1, <1>3, <2>2, <3>1
    <3> QED BY <3>1, <3>2, <1>2
  <2> QED BY <1>1, <2>2, <2>3 DEF HasResults
<1>5. ASSUME NEW i \in 1..Len(u), u[i].kind = "result", HasRequest(s, i + off)
      PROVE  HasRequest(u, i)
  <2> DEFINE n == u[i].call
             j == (i + off) - n
  <2>1. s[i + off] = u[i] /\ i + off \in 1..Len(s) /\ n \in Nat /\ i \in Nat
    BY <1>1, <1>2, <1>5, EntryFields
  <2>2. /\ j \in 1..Len(s) /\ s[j].kind = "ask" /\ n \in DOMAIN s[j].calls
        /\ \A k \in 1..n : s[j + k] = Result(s[j].turn, s[j].iter, k)
    BY <1>1, <1>5, <2>1 DEF HasRequest
  <2>3. ~(j < c)
    <3> SUFFICES ASSUME j < c
                 PROVE  FALSE
      OBVIOUS
    <3>1. c - j \in 1..n /\ j + (c - j) = c
      <4>1. j \in Nat /\ j = (i + off) - n /\ i >= 1 /\ i \in Nat
        BY <2>1, <2>2
      <4> HIDE DEF n, j
      <4> QED BY <1>3, <2>1, <4>1
    <3>2. s[c] = Result(s[j].turn, s[j].iter, c - j)
      BY <2>2, <3>1
    <3> QED BY <3>2 DEF Result
  <2>4. i - n \in 1..Len(u) /\ (i - n) + off = j
    BY <1>1, <1>3, <2>1, <2>2, <2>3
  <2>5. u[i - n] = s[j]
    BY <2>4, <1>2
  <2>6. ASSUME NEW k \in 1..n
        PROVE  u[(i - n) + k] = s[j + k]
    <3>1. (i - n) + k \in 1..Len(u) /\ ((i - n) + k) + off = j + k
      <4>1. k \in Nat /\ 1 <= k /\ k <= n
        BY <2>1
      <4>2. /\ i \in Nat /\ n \in Nat /\ off \in Nat /\ Len(u) \in Nat
            /\ i <= Len(u) /\ 1 <= i - n /\ j = (i + off) - n
        BY <1>1, <1>3, <2>1, <2>4
      <4> HIDE DEF n, j
      <4>3. 1 <= (i - n) + k /\ (i - n) + k <= Len(u)
        BY <4>1, <4>2
      <4> QED BY <4>1, <4>2, <4>3
    <3> QED BY <3>1, <1>2
  <2> HIDE DEF n, j
  <2> QED BY <1>1, <2>2, <2>4, <2>5, <2>6 DEF HasRequest, n
<1>6. ResultsBelong(s) => ResultsBelong(u)
  BY <1>1, <1>2, <1>5 DEF ResultsBelong
<1>7. AllMet(s) => AllMet(u)
  BY <1>1, <1>2, <1>4 DEF AllMet, RequestsMet
<1> QED BY <1>6, <1>7 DEF u

\* One entry alone.
LEMMA ShapeSingle ==
  ASSUME NEW e \in Entry, e.kind # "result"
  PROVE  ResultsBelong(<<e>>) /\ (e.kind # "ask" => AllMet(<<e>>))
<1>1. DOMAIN <<e>> = {1} /\ Len(<<e>>) = 1 /\ <<e>>[1] = e
  OBVIOUS
<1> QED BY <1>1 DEF ResultsBelong, AllMet, RequestsMet

\* One entry more that is no result.
LEMMA ShapeAppend ==
  ASSUME NEW s \in Seq(Entry), NEW e \in Entry, e.kind # "result"
  PROVE  /\ ResultsBelong(s) => ResultsBelong(Append(s, e))
         /\ AllMet(s) => RequestsMet(Append(s, e), Len(s))
         /\ AllMet(s) /\ e.kind # "ask" => AllMet(Append(s, e))
         /\ e.kind = "ask" => EndsOpen(Append(s, e), e, 0)
<1>1. Append(s, e) = s \o <<e>> /\ <<e>> \in Seq(Entry) /\ Len(s) \in Nat
  BY AppendIsConcat, LenProperties
<1>2. ResultsBelong(<<e>>) /\ (e.kind # "ask" => AllMet(<<e>>))
  BY ShapeSingle
<1>3. /\ ResultsBelong(s) => ResultsBelong(s \o <<e>>)
      /\ AllMet(s) /\ e.kind # "ask" => AllMet(s \o <<e>>)
  BY <1>1, <1>2, ShapeConcat
<1>4. AllMet(s) => RequestsMet(s \o <<e>>, Len(s))
  <2>1. Len(s) \in 0..Len(s)
    BY <1>1
  <2> QED BY <1>1, <2>1, ShapeConcat DEF AllMet
<1>5. EndsOpen(Append(s, e), e, 0)
  <2>1. Len(Append(s, e)) = Len(s) + 1 /\ Append(s, e)[Len(s) + 1] = e
        /\ DOMAIN Append(s, e) = 1..Len(s) + 1
    BY <1>1, AppendProperties, LenProperties
  <2> QED BY <1>1, <2>1 DEF EndsOpen
<1> QED BY <1>1, <1>3, <1>4, <1>5

\* The next result of an open request.
LEMMA OpenAppend ==
  ASSUME NEW s \in Seq(Entry), NEW ask \in Entry, ask.kind = "ask", NEW n \in Nat,
         EndsOpen(s, ask, n), n < Len(ask.calls)
  PROVE  LET u == Append(s, Result(ask.turn, ask.iter, n + 1))
         IN  /\ EndsOpen(u, ask, n + 1)
             /\ u \in Seq(Entry)
             /\ ResultsBelong(s) => ResultsBelong(u)
             /\ RequestsMet(s, Len(s) - n - 1) => RequestsMet(u, Len(u) - (n + 1) - 1)
<1> DEFINE r == Result(ask.turn, ask.iter, n + 1)
           u == Append(s, r)
           p == Len(s) - n
<1>1. r \in Entry /\ r.kind = "result" /\ r.call = n + 1
  BY EntryFields DEF Result, Entry, RowEntry
<1>2. /\ u \in Seq(Entry) /\ Len(u) = Len(s) + 1 /\ Len(s) \in Nat
      /\ DOMAIN u = 1..Len(s) + 1 /\ DOMAIN s = 1..Len(s)
      /\ u[Len(s) + 1] = r /\ \A i \in 1..Len(s) : u[i] = s[i] /\ s[i] \in Entry
  BY <1>1, AppendProperties, LenProperties, ElementOfSeq
<1>3. p \in 1..Len(s) /\ s[p] = ask /\ \A k \in 1..n : s[p + k] = Result(ask.turn, ask.iter, k)
  BY <1>2 DEF EndsOpen
<1>4. Len(u) - (n + 1) = p /\ p + (n + 1) = Len(s) + 1
  BY <1>2
<1> HIDE DEF u, r, p
<1>5. ASSUME NEW k \in 1..n + 1
      PROVE  u[p + k] = Result(ask.turn, ask.iter, k)
  <2>1. CASE k = n + 1
    BY <1>2, <1>4, <2>1 DEF r
  <2>2. CASE k # n + 1
    <3>1. k \in 1..n /\ p + k \in 1..Len(s)
      BY <1>2, <1>3, <1>4, <2>2
    <3> QED BY <3>1, <1>2, <1>3
  <2> QED BY <2>1, <2>2
<1>6. p \in DOMAIN u /\ u[p] = ask
  BY <1>2, <1>3
<1>7. EndsOpen(u, ask, n + 1)
  BY <1>4, <1>5, <1>6 DEF EndsOpen
<1>8. HasRequest(u, Len(s) + 1)
  <2>1. (Len(s) + 1) - (n + 1) = p
    BY <1>2, <1>4
  <2>2. n + 1 \in DOMAIN ask.calls
    BY EntryFields
  <2> QED BY <1>1, <1>2, <1>5, <1>6, <2>1, <2>2 DEF HasRequest
<1>9. ASSUME NEW i \in 1..Len(s), s[i].kind = "result", HasRequest(s, i)
      PROVE  HasRequest(u, i)
  <2>1. s[i].call \in Nat
    BY <1>2, <1>9, EntryFields
  <2>2. i - s[i].call \in 1..Len(s) /\ \A k \in 1..s[i].call : (i - s[i].call) + k \in 1..Len(s)
    BY <1>2, <1>9, <2>1, SMTT(20) DEF HasRequest
  <2> QED BY <1>2, <1>9, <2>2 DEF HasRequest
<1>10. ASSUME NEW i \in 1..Len(s), s[i].kind = "ask", HasResults(s, i)
       PROVE  HasResults(u, i)
  BY <1>2, <1>10 DEF HasResults
<1>11. ResultsBelong(s) => ResultsBelong(u)
  <2>1. ASSUME ResultsBelong(s), NEW i \in 1..Len(s) + 1, u[i].kind = "result"
        PROVE  HasRequest(u, i)
    <3>1. CASE i = Len(s) + 1
      BY <1>8, <3>1
    <3>2. CASE i \in 1..Len(s)
      BY <1>2, <1>9, <2>1, <3>2 DEF ResultsBelong
    <3>3. i = Len(s) + 1 \/ i \in 1..Len(s)
      BY <1>2
    <3> QED BY <3>1, <3>2, <3>3
  <2> QED BY <1>2, <2>1 DEF ResultsBelong
<1>12. RequestsMet(s, Len(s) - n - 1) => RequestsMet(u, Len(u) - (n + 1) - 1)
  <2>1. Len(s) - n - 1 = p - 1 /\ Len(u) - (n + 1) - 1 = p - 1 /\ \A i \in 1..p - 1 : i \in 1..Len(s)
    BY <1>2, <1>3, <1>4 DEF p
  <2> QED BY <1>2, <1>10, <2>1 DEF RequestsMet
<1> QED BY <1>2, <1>7, <1>11, <1>12 DEF u, r

\* The last result closes the round.
LEMMA OpenClose ==
  ASSUME NEW s \in Seq(Entry), NEW ask \in Entry, ask.kind = "ask",
         EndsOpen(s, ask, Len(ask.calls)), RequestsMet(s, Len(s) - Len(ask.calls) - 1)
  PROVE  AllMet(s)
<1> DEFINE n == Len(ask.calls)
           p == Len(s) - n
<1>1. n \in Nat /\ DOMAIN ask.calls = 1..n /\ Len(s) \in Nat /\ DOMAIN s = 1..Len(s)
  BY EntryFields, LenProperties
<1>2. p \in 1..Len(s) /\ s[p] = ask /\ \A k \in 1..n : s[p + k] = Result(ask.turn, ask.iter, k)
  BY <1>1 DEF EndsOpen
<1>3. HasResults(s, p)
  <2>1. \A k \in 1..n : p + k \in 1..Len(s)
    BY <1>1, <1>2
  <2> HIDE DEF p, n
  <2> QED BY <1>1, <1>2, <2>1 DEF HasResults
<1>4. ASSUME NEW i \in 1..Len(s), s[i].kind = "ask"
      PROVE  HasResults(s, i)
  <2>1. CASE i < p
    <3>1. i \in 1..Len(s) - Len(ask.calls) - 1
      BY <1>1, <1>2, <2>1
    <3> QED BY <3>1, <1>4 DEF RequestsMet
  <2>2. CASE i = p
    BY <1>3, <2>2
  <2>3. CASE i > p
    <3>1. i - p \in 1..n /\ p + (i - p) = i
      <4>1. p \in Nat /\ p = Len(s) - n /\ i \in Nat /\ i <= Len(s)
        BY <1>1, <1>2
      <4> HIDE DEF p, n
      <4> QED BY <1>1, <2>3, <4>1
    <3>2. s[i] = Result(ask.turn, ask.iter, i - p)
      BY <1>2, <3>1
    <3> QED BY <3>2, <1>4 DEF Result
  <2>4. i < p \/ i = p \/ i > p
    <3>1. p \in Nat /\ i \in Nat
      BY <1>1, <1>2
    <3> HIDE DEF p
    <3> QED BY <3>1
  <2> QED BY <2>1, <2>2, <2>3, <2>4
<1> QED BY <1>4 DEF AllMet, RequestsMet

\* Entries stand in the order of their turns, a user row ahead of its turn's.
Ordered(list) ==
  \A i, j \in DOMAIN list : i < j =>
    list[i].turn <= list[j].turn /\ (list[j].kind = "user" => list[i].turn < list[j].turn)

\* A turn's rows are its own, and only the first is a user row.
OfTurn(list, t) == \A i \in DOMAIN list : list[i].turn = t /\ (list[i].kind = "user" => i = 1)

RowsTyped == rows \in [Turns -> Seq(RowEntry)] /\ sent \in 0..MaxTurns

\* Lists of rows are lists of entries.
LEMMA RowsEntries == Seq(RowEntry) \subseteq Seq(Entry)
  BY SeqMonotonic DEF Entry

\* The turns' row lists, as the history concatenates them.
LEMMA SentRows ==
  ASSUME RowsTyped, sent > 0
  PROVE  LET ss == SubSeq(rows, 1, sent)
         IN  ss \in Seq(Seq(RowEntry)) /\ Len(ss) = sent /\ \A t \in 1..sent : ss[t] = rows[t]
<1>1. sent \in Int /\ 1 \in Int /\ \A t \in 1..sent : rows[t] \in Seq(RowEntry)
  BY ToolLoopAssumption DEF RowsTyped, Turns
<1> HIDE DEF RowEntry
<1>2. /\ SubSeq(rows, 1, sent) \in Seq(Seq(RowEntry))
      /\ Len(SubSeq(rows, 1, sent)) = IF 1 <= sent THEN sent - 1 + 1 ELSE 0
      /\ \A t \in 1..sent - 1 + 1 : SubSeq(rows, 1, sent)[t] = rows[1 + t - 1]
  BY <1>1, SubSeqProperties
<1>3. 1 <= sent /\ sent - 1 + 1 = sent /\ \A t \in 1..sent : 1 + t - 1 = t
  BY <1>1
<1> QED BY <1>2, <1>3

\* getConversationHistory returns the turns' rows, and no others.
LEMMA HistoryRows ==
  ASSUME RowsTyped, sent > 0
  PROVE  /\ History \in Seq(RowEntry)
         /\ ToSet(History) = UNION {ToSet(rows[t]) : t \in 1..sent}
<1> DEFINE ss == SubSeq(rows, 1, sent)
           To(n) == UNION {ToSet(rows[t]) : t \in 1..n}
           L == [n \in 1..sent |-> {s \in Seq(RowEntry) : ToSet(s) = To(n)}]
<1>1. ss \in Seq(Seq(RowEntry)) /\ Len(ss) = sent /\ \A t \in 1..sent : ss[t] = rows[t]
  BY SentRows
<1>2. sent \in Nat /\ \A t \in 1..sent : rows[t] \in Seq(RowEntry)
  BY ToolLoopAssumption DEF RowsTyped, Turns
<1> HIDE DEF ss
<1>3. L \in [1..sent -> SUBSET Seq(RowEntry)]
  <2> HIDE DEF To
  <2> QED OBVIOUS
<1>4. ss[1] \in L[1]
  <2>1. To(1) = ToSet(rows[1])
    OBVIOUS
  <2> HIDE DEF To
  <2> QED BY <1>1, <1>2, <2>1
<1>5. ASSUME NEW i \in 2..sent, NEW s \in L[i - 1]
      PROVE  s \o ss[i] \in L[i]
  <2>1. i - 1 \in 1..sent /\ i \in 1..sent
    BY <1>2
  <2>2. s \in Seq(RowEntry) /\ ToSet(s) = To(i - 1)
    <3> HIDE DEF To
    <3> QED BY <2>1
  <2>3. ss[i] = rows[i] /\ rows[i] \in Seq(RowEntry)
    BY <1>1, <1>2, <2>1
  <2>4. s \o ss[i] \in Seq(RowEntry) /\ ToSet(s \o ss[i]) = ToSet(s) \cup ToSet(rows[i])
    BY <2>2, <2>3, ConcatProperties, ToSetConcat
  <2>5. To(i) = To(i - 1) \cup ToSet(rows[i])
    <3>1. 1..i = (1..i - 1) \cup {i}
      BY <2>1
    <3> QED BY <3>1
  <2> HIDE DEF To
  <2> QED BY <2>1, <2>2, <2>4, <2>5
<1>6. FlattenSeq(ss) \in L[sent]
  <2> HIDE DEF L
  <2> QED BY <1>1, <1>3, <1>4, <1>5, FlattenInduction
<1> HIDE DEF To
<1>7. sent \in 1..sent
  BY <1>2
<1>8. History = FlattenSeq(ss)
  BY DEF History, ss
<1>9. History \in Seq(RowEntry) /\ ToSet(History) = To(sent)
  BY <1>6, <1>7, <1>8
<1> QED BY <1>9 DEF To

\* Where no row of a turn is out of shape, none of the history is.
LEMMA HistoryShape ==
  ASSUME RowsTyped, sent > 0
  PROVE  /\ (\A t \in 1..sent : ResultsBelong(rows[t])) => ResultsBelong(History)
         /\ (\A t \in 1..sent : AllMet(rows[t])) => AllMet(History)
<1> DEFINE ss == SubSeq(rows, 1, sent)
           R == [n \in 1..sent |-> {s \in Seq(Entry) : ResultsBelong(s)}]
           M == [n \in 1..sent |-> {s \in Seq(Entry) : AllMet(s)}]
<1>1. ss \in Seq(Seq(RowEntry)) /\ Len(ss) = sent /\ \A t \in 1..sent : ss[t] = rows[t]
  BY SentRows
<1>2. sent \in Nat /\ \A t \in 1..sent : rows[t] \in Seq(Entry)
  BY ToolLoopAssumption, RowsEntries DEF RowsTyped, Turns
<1>3. ss \in Seq(Seq(Entry))
  BY <1>1, RowsEntries, SeqMonotonic
<1>4. History = FlattenSeq(ss)
  BY DEF History
<1> HIDE DEF ss
<1>5. /\ R \in [1..sent -> SUBSET Seq(Entry)] /\ M \in [1..sent -> SUBSET Seq(Entry)]
      /\ 1 \in 1..sent /\ sent \in 1..sent /\ \A i \in 2..sent : i \in 1..sent /\ i - 1 \in 1..sent
  BY <1>2
<1>6. ASSUME \A t \in 1..sent : ResultsBelong(rows[t])
      PROVE  ResultsBelong(History)
  <2>1. ss[1] \in R[1]
    BY <1>1, <1>2, <1>5, <1>6
  <2>2. ASSUME NEW i \in 2..sent, NEW s \in R[i - 1]
        PROVE  s \o ss[i] \in R[i]
    <3>1. s \in Seq(Entry) /\ ResultsBelong(s) /\ ss[i] \in Seq(Entry) /\ ResultsBelong(ss[i])
      BY <1>1, <1>2, <1>5, <1>6, <2>2
    <3>2. s \o ss[i] \in Seq(Entry) /\ ResultsBelong(s \o ss[i])
      BY <3>1, ShapeConcat, ConcatProperties
    <3> QED BY <1>5, <3>2
  <2>3. FlattenSeq(ss) \in R[sent]
    <3> HIDE DEF R
    <3> QED BY <1>1, <1>3, <1>5, <2>1, <2>2, FlattenInduction
  <2> QED BY <1>4, <1>5, <2>3
<1>7. ASSUME \A t \in 1..sent : AllMet(rows[t])
      PROVE  AllMet(History)
  <2>1. ss[1] \in M[1]
    BY <1>1, <1>2, <1>5, <1>7
  <2>2. ASSUME NEW i \in 2..sent, NEW s \in M[i - 1]
        PROVE  s \o ss[i] \in M[i]
    <3>1. s \in Seq(Entry) /\ AllMet(s) /\ ss[i] \in Seq(Entry) /\ AllMet(ss[i])
      BY <1>1, <1>2, <1>5, <1>7, <2>2
    <3>2. s \o ss[i] \in Seq(Entry) /\ AllMet(s \o ss[i])
      BY <3>1, ShapeConcat, ConcatProperties
    <3> QED BY <1>5, <3>2
  <2>3. FlattenSeq(ss) \in M[sent]
    <3> HIDE DEF M
    <3> QED BY <1>1, <1>3, <1>5, <2>1, <2>2, FlattenInduction
  <2> QED BY <1>4, <1>5, <2>3
<1> QED BY <1>6, <1>7

\* The turns come one behind the other.
LEMMA HistoryOrdered ==
  ASSUME RowsTyped, sent > 0, \A t \in 1..sent : OfTurn(rows[t], t)
  PROVE  Ordered(History)
<1> DEFINE ss == SubSeq(rows, 1, sent)
           UpToTurn(s, n) == Ordered(s) /\ \A i \in DOMAIN s : s[i].turn <= n
           L == [n \in 1..sent |-> {s \in Seq(RowEntry) : UpToTurn(s, n)}]
<1>1. ss \in Seq(Seq(RowEntry)) /\ Len(ss) = sent /\ \A t \in 1..sent : ss[t] = rows[t]
  BY SentRows
<1>2. sent \in Nat /\ \A t \in 1..sent : rows[t] \in Seq(RowEntry)
  BY ToolLoopAssumption DEF RowsTyped, Turns
<1>3. History = FlattenSeq(ss)
  BY DEF History
<1> HIDE DEF ss
<1>4. /\ L \in [1..sent -> SUBSET Seq(RowEntry)]
      /\ 1 \in 1..sent /\ sent \in 1..sent /\ \A i \in 2..sent : i \in 1..sent /\ i - 1 \in 1..sent
  BY <1>2
<1>5. ASSUME NEW t \in 1..sent
      PROVE  UpToTurn(rows[t], t)
  <2>1. DOMAIN rows[t] = 1..Len(rows[t]) /\ Len(rows[t]) \in Nat /\ t \in Nat
    BY <1>2, LenProperties
  <2> QED BY <2>1 DEF OfTurn, Ordered
<1>6. ss[1] \in L[1]
  <2> HIDE DEF UpToTurn
  <2> QED BY <1>1, <1>2, <1>4, <1>5
<1>7. ASSUME NEW i \in 2..sent, NEW s \in Seq(RowEntry), UpToTurn(s, i - 1)
      PROVE  UpToTurn(s \o rows[i], i)
  <2> DEFINE r == rows[i]
             u == s \o r
  <2>1. i \in 1..sent /\ i \in Nat
    BY <1>4
  <2>2. r \in Seq(RowEntry) /\ OfTurn(r, i)
    BY <1>2, <2>1
  <2> HIDE DEF r
  <2>3. /\ Len(u) = Len(s) + Len(r) /\ Len(s) \in Nat /\ Len(r) \in Nat
        /\ \A p \in 1..Len(s) + Len(r) : u[p] = IF p <= Len(s) THEN s[p] ELSE r[p - Len(s)]
        /\ DOMAIN u = 1..Len(s) + Len(r) /\ DOMAIN s = 1..Len(s) /\ DOMAIN r = 1..Len(r)
        /\ \A p \in 1..Len(s) : s[p] \in RowEntry
    BY <2>2, ConcatProperties, LenProperties, ElementOfSeq
  <2> HIDE DEF u
  <2>4. ASSUME NEW p \in 1..Len(s) + Len(r)
        PROVE  \/ p \in 1..Len(s) /\ u[p] = s[p] /\ u[p].turn \in Nat /\ u[p].turn <= i - 1
               \/ p - Len(s) \in 1..Len(r) /\ u[p].turn = i /\ (u[p].kind = "user" => p = Len(s) + 1)
    <3>1. CASE p <= Len(s)
      <4>1. p \in 1..Len(s) /\ u[p] = s[p]
        BY <2>3, <3>1
      <4>2. s[p].turn \in Nat
        BY <4>1, <2>3, EntryFields, ToolLoopAssumption DEF Entry, Turns
      <4> QED BY <4>1, <4>2, <1>7, <2>3
    <3>2. CASE ~(p <= Len(s))
      <4>1. p - Len(s) \in 1..Len(r) /\ u[p] = r[p - Len(s)]
        BY <2>3, <3>2
      <4>2. u[p].turn = i /\ (u[p].kind = "user" => p - Len(s) = 1)
        BY <4>1, <2>2, <2>3 DEF OfTurn
      <4> QED BY <4>1, <4>2, <2>3
    <3> QED BY <3>1, <3>2
  <2>5. ASSUME NEW p \in DOMAIN u, NEW q \in DOMAIN u, p < q
        PROVE  u[p].turn <= u[q].turn /\ (u[q].kind = "user" => u[p].turn < u[q].turn)
    <3>1. CASE q \in 1..Len(s) /\ u[q] = s[q]
      <4>1. p \in 1..Len(s) /\ u[p] = s[p]
        BY <2>3, <2>5, <3>1
      <4> QED BY <2>3, <2>5, <3>1, <4>1, <1>7 DEF Ordered
    <3>2. CASE q - Len(s) \in 1..Len(r) /\ u[q].turn = i /\ (u[q].kind = "user" => q = Len(s) + 1)
      <4>1. CASE p \in 1..Len(s) /\ u[p].turn \in Nat /\ u[p].turn <= i - 1
        BY <2>1, <3>2, <4>1
      <4>2. CASE p - Len(s) \in 1..Len(r) /\ u[p].turn = i
        <5>1. q # Len(s) + 1
          BY <2>3, <2>5, <4>2
        <5> QED BY <2>1, <3>2, <4>2, <5>1
      <4> QED BY <2>3, <2>4, <4>1, <4>2
    <3> QED BY <2>3, <2>4, <3>1, <3>2
  <2>6. \A p \in DOMAIN u : u[p].turn <= i
    BY <2>1, <2>3, <2>4
  <2> QED BY <2>5, <2>6 DEF Ordered, u, r
<1>8. ASSUME NEW i \in 2..sent, NEW s \in L[i - 1]
      PROVE  s \o ss[i] \in L[i]
  <2> HIDE DEF UpToTurn
  <2>1. s \in Seq(RowEntry) /\ UpToTurn(s, i - 1) /\ ss[i] = rows[i] /\ rows[i] \in Seq(RowEntry)
    BY <1>1, <1>2, <1>4
  <2>2. s \o rows[i] \in Seq(RowEntry) /\ UpToTurn(s \o rows[i], i)
    BY <2>1, <1>7, ConcatProperties
  <2> QED BY <1>4, <2>1, <2>2
<1>9. FlattenSeq(ss) \in L[sent]
  <2> HIDE DEF L
  <2> QED BY <1>1, <1>4, <1>6, <1>8, FlattenInduction
<1> QED BY <1>3, <1>4, <1>9

-----------------------------------------------------------------------------
(* The lists that are made of other lists: what each keeps of their shape  *)
(* and of their entries.                                                   *)

\* The exchanges a list tells of.
Told(list) == {m \in ToSet(list) : m.kind \in {"ask", "result"}}

\* The system prompt is no row.
LEMMA SystemFields == System \in Entry /\ System.kind = "system" /\ System \notin RowEntry
  BY DEF System, SystemEntry, RowEntry, Entry

\* Entries of other kinds alone are in shape.
LEMMA ShapePlain ==
  ASSUME NEW s \in Seq(Entry), \A i \in DOMAIN s : s[i].kind \notin {"ask", "result"}
  PROVE  ResultsBelong(s) /\ AllMet(s)
<1>1. DOMAIN s = 1..Len(s)
  BY LenProperties
<1> QED BY <1>1 DEF ResultsBelong, AllMet, RequestsMet

\* What two lists cover and tell, one behind the other.
LEMMA CoveredConcat ==
  ASSUME NEW s \in Seq(Entry), NEW t \in Seq(Entry)
  PROVE  Covered(s \o t) = Covered(s) \cup Covered(t) /\ Told(s \o t) = Told(s) \cup Told(t)
<1>1. ToSet(s \o t) = ToSet(s) \cup ToSet(t)
  BY ToSetConcat
<1> QED BY <1>1 DEF Covered, Told

\* A list covers its own rows, and nothing but rows and system prompts.
LEMMA CoveredRows ==
  ASSUME NEW s \in Seq(Entry)
  PROVE  /\ ToSet(s) \subseteq Entry
         /\ Covered(s) \subseteq RowEntry \cup SystemEntry
         /\ \A r \in ToSet(s) : r \in RowEntry => r \in Covered(s)
         /\ ToSet(s) \subseteq RowEntry => Covered(s) = ToSet(s)
<1>1. ToSet(s) \subseteq Entry
  BY ElementOfSeq, LenProperties DEF ToSet
<1>2. \A m \in Entry : m \in RowEntry => m.kind # "summary"
  BY DEF RowEntry
<1>3. \A m \in Entry : m.kind = "summary" => m.of \subseteq RowEntry \cup SystemEntry
  BY DEF RowEntry, SystemEntry, Entry
<1>4. \A m \in Entry : m.kind # "summary" => m \in RowEntry \cup SystemEntry
  BY DEF RowEntry, SystemEntry, Entry
<1>5. Covered(s) \subseteq RowEntry \cup SystemEntry
  BY <1>1, <1>3, <1>4 DEF Covered
<1>6. ASSUME NEW r \in ToSet(s), r \in RowEntry
      PROVE  r \in Covered(s)
  BY <1>1, <1>2, <1>6 DEF Covered
<1>7. ToSet(s) \subseteq RowEntry => Covered(s) \subseteq ToSet(s)
  BY <1>1, <1>2 DEF Covered
<1> QED BY <1>1, <1>5, <1>6, <1>7

\* A span of a list.
LEMMA Span ==
  ASSUME NEW S, NEW s \in Seq(S), NEW a \in 1..Len(s), NEW b \in 0..Len(s)
  PROVE  SubSeq(s, a, b) \in Seq(S) /\ ToSet(SubSeq(s, a, b)) = {s[i] : i \in a..b}
<1>1. Len(s) \in Nat /\ \A i \in a..b : s[i] \in S
  BY LenProperties, ElementOfSeq
<1>2. /\ SubSeq(s, a, b) \in Seq(S)
      /\ Len(SubSeq(s, a, b)) = IF a <= b THEN b - a + 1 ELSE 0
      /\ \A i \in 1..b - a + 1 : SubSeq(s, a, b)[i] = s[a + i - 1]
  BY <1>1, SubSeqProperties
<1>3. DOMAIN SubSeq(s, a, b) = 1..b - a + 1
  BY <1>1, <1>2, LenProperties
<1>4. \A i \in 1..b - a + 1 : a + i - 1 \in a..b
  BY <1>1
<1>5. ASSUME NEW j \in a..b
      PROVE  j - a + 1 \in 1..b - a + 1 /\ a + (j - a + 1) - 1 = j
  BY <1>1
<1>6. ToSet(SubSeq(s, a, b)) = {SubSeq(s, a, b)[i] : i \in 1..b - a + 1}
  BY <1>3 DEF ToSet
<1>7. ToSet(SubSeq(s, a, b)) \subseteq {s[i] : i \in a..b}
  BY <1>2, <1>4, <1>6
<1>8. ASSUME NEW j \in a..b
      PROVE  s[j] \in ToSet(SubSeq(s, a, b))
  <2>1. SubSeq(s, a, b)[j - a + 1] = s[j]
    BY <1>2, <1>5
  <2> QED BY <2>1, <1>5, <1>6
<1> QED BY <1>2, <1>7, <1>8

\* The system prompt ahead of rows.
LEMMA Headed ==
  ASSUME NEW x \in Seq(RowEntry)
  PROVE  LET u == <<System>> \o x
         IN  /\ u \in Seq(Entry) /\ u # <<>> /\ u[1] = System
             /\ Tail(u) = x /\ Len(u) = Len(x) + 1
             /\ ResultsBelong(x) => ResultsBelong(u)
             /\ AllMet(x) => AllMet(u)
             /\ Told(u) = Told(x)
             /\ ToSet(x) \subseteq Covered(u)
<1> DEFINE h == <<System>>
           u == h \o x
<1>1. x \in Seq(Entry) /\ h \in Seq(Entry) /\ Len(h) = 1 /\ h[1] = System /\ DOMAIN h = {1} /\ ToSet(h) = {System}
  BY RowsEntries, SystemFields DEF ToSet
<1> HIDE DEF h
<1>2. /\ u \in Seq(Entry) /\ Len(u) = 1 + Len(x) /\ Len(x) \in Nat
      /\ \A i \in 1..1 + Len(x) : u[i] = IF i <= 1 THEN h[i] ELSE x[i - 1]
  <2>1. /\ u \in Seq(Entry) /\ Len(u) = Len(h) + Len(x)
        /\ \A i \in 1..Len(h) + Len(x) : u[i] = IF i <= Len(h) THEN h[i] ELSE x[i - Len(h)]
    <3>1. h \in Seq(Entry) /\ x \in Seq(Entry)
      BY <1>1
    <3> QED BY <3>1, ConcatProperties
  <2>2. Len(x) \in Nat
    BY LenProperties
  <2> HIDE DEF u
  <2> QED BY <1>1, <2>1, <2>2
<1>3. u # <<>> /\ u[1] = System /\ Len(u) = Len(x) + 1
  <2>1. 1 \in 1..1 + Len(x) /\ Len(u) # 0
    BY <1>2
  <2> HIDE DEF u
  <2> QED BY <1>1, <1>2, <2>1
<1>4. Tail(u) = x
  <2> HIDE DEF u
  <2>1. /\ Tail(u) \in Seq(Entry) /\ Len(Tail(u)) = Len(x)
        /\ \A i \in 1..Len(Tail(u)) : Tail(u)[i] = u[i + 1]
    BY <1>2, <1>3, HeadTailProperties
  <2>2. ASSUME NEW i \in 1..Len(x)
        PROVE  Tail(u)[i] = x[i]
    <3>1. i + 1 \in 1..1 + Len(x) /\ ~(i + 1 <= 1) /\ (i + 1) - 1 = i
      BY <1>2
    <3> QED BY <1>2, <2>1, <3>1
  <2> QED BY <1>1, <2>1, <2>2, SeqEqual
<1>5. ResultsBelong(h) /\ AllMet(h)
  BY <1>1, SystemFields, ShapePlain
<1>6. /\ ResultsBelong(x) => ResultsBelong(u)
      /\ AllMet(x) => AllMet(u)
  BY <1>1, <1>5, ShapeConcat
<1>7. Told(u) = Told(h) \cup Told(x) /\ Covered(u) = Covered(h) \cup Covered(x)
  BY <1>1, CoveredConcat
<1>8. Told(h) = {}
  BY <1>1, SystemFields DEF Told
<1>9. ToSet(x) \subseteq Covered(x)
  <2>1. ToSet(x) \subseteq RowEntry
    BY ElementOfSeq, LenProperties DEF ToSet
  <2> QED BY <1>1, <2>1, CoveredRows
<1> QED BY <1>2, <1>3, <1>4, <1>6, <1>7, <1>8, <1>9 DEF h

\* The slice of a history without compaction: from a user row on, or all.
LEMMA Sliced ==
  ASSUME NEW x \in Seq(RowEntry), x # <<>>
  PROVE  LET u == SliceAtTurn(x)
         IN  /\ u \in Seq(RowEntry)
             /\ ResultsBelong(x) => ResultsBelong(u)
             /\ AllMet(x) => AllMet(u)
             /\ Told(u) \subseteq Told(x)
<1> DEFINE P == {1} \cup {i \in PositionsOf(x, "user", 1) : i <= Len(x) - HistoryLimit + 1}
<1>1. x \in Seq(Entry) /\ Len(x) \in Nat /\ Len(x) > 0 /\ DOMAIN x = 1..Len(x)
  BY RowsEntries, LenProperties, EmptySeq
<1>2. CASE HistoryLimit = 0 \/ Len(x) <= HistoryLimit
  BY <1>2 DEF SliceAtTurn
<1>3. CASE ~(HistoryLimit = 0 \/ Len(x) <= HistoryLimit)
  <2>1. P \in SUBSET (1..Len(x)) /\ P # {}
    BY <1>1 DEF PositionsOf
  <2>2. PICK c \in P : c = LastOf(P)
    <3> HIDE DEF P
    <3> QED BY <1>1, <2>1, LastOfProperties
  <2>3. SliceAtTurn(x) = SubSeq(x, c, Len(x))
    BY <1>3, <2>2 DEF SliceAtTurn
  <2>4. c \in 1..Len(x) /\ (c = 1 \/ x[c].kind = "user")
    BY <2>1, <2>2 DEF PositionsOf
  <2>5. /\ SubSeq(x, c, Len(x)) \in Seq(RowEntry)
        /\ ToSet(SubSeq(x, c, Len(x))) \subseteq ToSet(x)
    BY <1>1, <2>4, Suffix DEF ToSet
  <2>6. CASE c = 1
    BY <2>3, <2>5, <2>6, SubSeqFull
  <2>7. CASE x[c].kind = "user"
    <3>1. /\ ResultsBelong(x) => ResultsBelong(SubSeq(x, c, Len(x)))
          /\ AllMet(x) => AllMet(SubSeq(x, c, Len(x)))
      BY <1>1, <2>4, <2>7, ShapeSuffix
    <3> QED BY <2>3, <2>5, <3>1 DEF Told
  <2> QED BY <2>4, <2>6, <2>7
<1> QED BY <1>2, <1>3

SavedTyped == saved \in [first : 0..MaxTurns, of : SUBSET RowEntry]

\* The span to summarize starts at an entry of the list.
LEMMA SpanStarts ==
  ASSUME NEW x \in Seq(RowEntry), x # <<>>
  PROVE  SpanStart(x) \in 1..Len(x)
<1> DEFINE at == {i \in DOMAIN x : saved.first > 0 /\ x[i] = User(saved.first)}
<1>1. Len(x) \in Nat /\ Len(x) > 0 /\ DOMAIN x = 1..Len(x) /\ at \in SUBSET (1..Len(x))
  BY LenProperties, EmptySeq
<1>2. CASE at = {}
  BY <1>1, <1>2 DEF SpanStart
<1>3. CASE at # {}
  <2>1. LastOf(at) \in at
    <3> HIDE DEF at
    <3> QED BY <1>1, <1>3, LastOfProperties
  <2>2. SpanStart(x) = LastOf(at)
    BY <1>3 DEF SpanStart
  <2> QED BY <1>1, <2>1, <2>2
<1> QED BY <1>2, <1>3

\* A history compacted up to a user row.
LEMMA CompactedList ==
  ASSUME SavedTyped, NEW x \in Seq(RowEntry), NEW c \in DOMAIN x, x[c].kind = "user"
  PROVE  LET u == Compacted(x, c)
         IN  /\ u \in Seq(Entry) /\ u # <<>> /\ u[1] = System
             /\ ResultsBelong(x) => ResultsBelong(u)
             /\ AllMet(x) => AllMet(u)
             /\ Told(u) \subseteq Told(x)
             /\ PreTurnSummary(x, c) \subseteq RowEntry
             /\ PreTurnSummary(x, c) = saved.of \cup {x[i] : i \in SpanStart(x)..c - 1}
             /\ PreTurnSummary(x, c) \cup {x[i] : i \in c..Len(x)} \subseteq Covered(u)
<1> DEFINE of == PreTurnSummary(x, c)
           h == <<System, Summary(of)>>
           y == SubSeq(x, c, Len(x))
           u == h \o y
<1>1. x \in Seq(Entry) /\ Len(x) \in Nat /\ DOMAIN x = 1..Len(x) /\ x # <<>> /\ c \in 1..Len(x)
      /\ \A i \in 1..Len(x) : x[i] \in RowEntry
  BY RowsEntries, LenProperties, EmptySeq, ElementOfSeq
<1>2. SpanStart(x) \in 1..Len(x) /\ c - 1 \in 0..Len(x)
  BY <1>1, SpanStarts
<1>3. of = saved.of \cup {x[i] : i \in SpanStart(x)..c - 1}
  BY <1>2, Span DEF PreTurnSummary
<1>4. of \subseteq RowEntry
  <2>1. \A i \in SpanStart(x)..c - 1 : i \in 1..Len(x)
    BY <1>1, <1>2
  <2> QED BY <1>1, <1>3, <2>1 DEF SavedTyped
<1> HIDE DEF of
<1>5. Summary(of) \in Entry /\ Summary(of).kind = "summary" /\ Summary(of).of = of
  BY <1>4 DEF Summary, Entry
<1>6. /\ h \in Seq(Entry) /\ Len(h) = 2 /\ DOMAIN h = 1..2 /\ h[1] = System /\ h[2] = Summary(of)
      /\ ToSet(h) = {System, Summary(of)}
  BY <1>5, SystemFields DEF ToSet
<1> HIDE DEF h
<1>7. y \in Seq(Entry) /\ ToSet(y) = {x[i] : i \in c..Len(x)}
  BY <1>1, Suffix
<1>8. ToSet(y) \subseteq ToSet(x) /\ ToSet(y) \subseteq RowEntry
  <2>1. \A i \in c..Len(x) : i \in 1..Len(x)
    BY <1>1
  <2> QED BY <1>1, <1>7, <2>1 DEF ToSet
<1>9. /\ ResultsBelong(x) => ResultsBelong(y)
      /\ AllMet(x) => AllMet(y)
  BY <1>1, ShapeSuffix
<1> HIDE DEF y
<1>10. /\ u \in Seq(Entry) /\ Len(u) = Len(h) + Len(y) /\ Len(y) \in Nat
       /\ \A i \in 1..Len(h) + Len(y) : u[i] = IF i <= Len(h) THEN h[i] ELSE y[i - Len(h)]
  <2>1. h \in Seq(Entry) /\ y \in Seq(Entry)
    BY <1>6, <1>7
  <2> QED BY <2>1, ConcatProperties, LenProperties
<1>11. u # <<>> /\ u[1] = System
  <2> HIDE DEF u
  <2>1. 1 \in 1..Len(h) + Len(y) /\ 1 <= Len(h) /\ Len(u) # 0
    BY <1>6, <1>10
  <2> QED BY <1>6, <1>10, <2>1
<1>12. ResultsBelong(h) /\ AllMet(h)
  <2>1. \A i \in DOMAIN h : h[i].kind \notin {"ask", "result"}
    BY <1>5, <1>6, SystemFields
  <2> QED BY <1>6, <2>1, ShapePlain
<1>13. /\ ResultsBelong(x) => ResultsBelong(u)
       /\ AllMet(x) => AllMet(u)
  BY <1>6, <1>7, <1>9, <1>12, ShapeConcat
<1>14. Told(u) = Told(h) \cup Told(y) /\ Covered(u) = Covered(h) \cup Covered(y)
  BY <1>6, <1>7, CoveredConcat
<1>15. Told(h) = {} /\ of \subseteq Covered(h)
  BY <1>5, <1>6, SystemFields DEF Told, Covered
<1>16. Told(y) \subseteq Told(x) /\ Covered(y) = ToSet(y)
  BY <1>7, <1>8, CoveredRows DEF Told
<1>17. u = Compacted(x, c)
  BY DEF Compacted, of, h, y
<1> HIDE DEF u
<1>18. of \cup {x[i] : i \in c..Len(x)} \subseteq Covered(u)
  BY <1>7, <1>14, <1>15, <1>16
<1> QED BY <1>3, <1>4, <1>10, <1>11, <1>13, <1>14, <1>15, <1>16, <1>17, <1>18 DEF of

\* What is known of a cut in the open turn.
SplitTold(list, c) ==
  /\ c \in DOMAIN list /\ list[c].kind \in {"ask", "reply"}
  /\ PositionsOf(list, "user", 1) # {} /\ LastOf(PositionsOf(list, "user", 1)) < c

\* Every cut of findAssistantCutPoint is one.
LEMMA SplitCutTold ==
  ASSUME NEW list \in Seq(Entry), NEW c \in SplitCuts(list)
  PROVE  SplitTold(list, c)
<1> DEFINE users == PositionsOf(list, "user", 1)
           start == LastOf(users)
           At(x) == {i \in PositionsOf(list, "ask", start + 1) \cup PositionsOf(list, "reply", start + 1) : i <= x}
<1>1. Len(list) \in Nat /\ DOMAIN list = 1..Len(list)
  BY LenProperties
<1>2. users # {}
  BY DEF SplitCuts
<1>3. PICK x \in {y \in start + 1..Len(list) : At(y) # {}} : c = LastOf(At(x))
  BY <1>2 DEF SplitCuts
<1>4. users \in SUBSET (1..Len(list)) /\ At(x) \in SUBSET (1..Len(list)) /\ At(x) # {}
  BY <1>1, <1>3 DEF PositionsOf
<1>5. c \in At(x)
  <2> HIDE DEF At, users, start
  <2> QED BY <1>1, <1>3, <1>4, LastOfProperties
<1>6. start \in 1..Len(list)
  <2>1. LastOf(users) \in users
    <3> HIDE DEF users
    <3> QED BY <1>1, <1>2, <1>4, LastOfProperties
  <2> QED BY <1>4, <2>1
<1>7. c \in DOMAIN list /\ c >= start + 1 /\ list[c].kind \in {"ask", "reply"}
  <2> HIDE DEF start
  <2> QED BY <1>5 DEF PositionsOf
<1>8. start < c
  <2> HIDE DEF start
  <2> QED BY <1>1, <1>6, <1>7
<1> QED BY <1>2, <1>7, <1>8 DEF SplitTold

\* Every split cuts the list behind its head.
SplitAtHead ==
  phase = "splitting" =>
    LastOf(PositionsOf(messages, "user", 1)) = IF messages[2].kind = "summary" THEN 3 ELSE 2

\* A list split in its open turn.
LEMMA SplitList ==
  ASSUME NEW x \in Seq(Entry), NEW c, SplitTold(x, c), x[1] = System
  PROVE  LET u == Split(x, c)
         IN  /\ u \in Seq(Entry) /\ u # <<>> /\ u[1] = System
             /\ ResultsBelong(x) => ResultsBelong(u)
             /\ AllMet(x) => AllMet(u)
             /\ Told(u) \subseteq Told(x)
             /\ LastOf(PositionsOf(x, "user", 1)) = (IF x[2].kind = "summary" THEN 3 ELSE 2)
                  => Covered(x) \subseteq Covered(u)
<1> DEFINE users == PositionsOf(x, "user", 1)
           from == LastOf(users)
           keep == IF x[2].kind = "summary" THEN 2 ELSE 1
           h == SubSeq(x, 1, keep)
           span == SubSeq(x, from, c - 1)
           m == <<Summary(Covered(span))>>
           y == SubSeq(x, c, Len(x))
           u == (h \o m) \o y
<1>1. Len(x) \in Nat /\ DOMAIN x = 1..Len(x) /\ \A i \in 1..Len(x) : x[i] \in Entry
  BY LenProperties, ElementOfSeq
<1>2. from \in 1..Len(x) /\ x[from].kind = "user"
  <2>1. users \in SUBSET (1..Len(x)) /\ users # {}
    BY <1>1 DEF SplitTold, PositionsOf
  <2>2. LastOf(users) \in users
    <3> HIDE DEF users
    <3> QED BY <1>1, <2>1, LastOfProperties
  <2> QED BY <1>1, <2>2 DEF PositionsOf
<1>3. c \in 1..Len(x) /\ x[c].kind \in {"ask", "reply"} /\ from < c
  BY <1>1 DEF SplitTold
<1> HIDE DEF users, from
<1>4. from # 1 /\ c - 1 \in 0..Len(x) /\ c > 2 /\ Len(x) > 2
  BY <1>1, <1>2, <1>3, SystemFields
<1>5. keep \in 1..2 /\ keep \in 0..Len(x) /\ 1 \in 1..Len(x)
  BY <1>4
<1>6. h \in Seq(Entry) /\ ToSet(h) = {x[i] : i \in 1..keep}
  BY <1>5, Span
<1>7. Len(h) = keep /\ \A i \in 1..keep : h[i] = x[i]
  <2>1. 1 \in Int /\ keep \in Int /\ \A i \in 1..keep : x[i] \in Entry
    BY <1>1, <1>5
  <2>2. /\ Len(h) = IF 1 <= keep THEN keep - 1 + 1 ELSE 0
        /\ \A i \in 1..keep - 1 + 1 : h[i] = x[1 + i - 1]
    <3> HIDE DEF keep
    <3> QED BY <2>1, SubSeqProperties
  <2>3. 1 <= keep /\ keep - 1 + 1 = keep /\ \A i \in 1..keep : 1 + i - 1 = i
    BY <1>5
  <2> HIDE DEF h, keep
  <2> QED BY <2>2, <2>3
<1>8. \A i \in 1..keep : x[i].kind \notin {"ask", "result"}
  BY SystemFields
<1>9. span \in Seq(Entry) /\ ToSet(span) = {x[i] : i \in from..c - 1}
  BY <1>2, <1>4, Span
<1>10. y \in Seq(Entry) /\ ToSet(y) = {x[i] : i \in c..Len(x)}
  BY <1>3, Suffix
<1>11. Summary(Covered(span)) \in Entry /\ Summary(Covered(span)).kind = "summary"
       /\ Summary(Covered(span)).of = Covered(span)
  <2>1. Covered(span) \subseteq RowEntry \cup SystemEntry
    BY <1>9, CoveredRows
  <2> QED BY <2>1 DEF Summary, Entry
<1>12. m \in Seq(Entry) /\ DOMAIN m = {1} /\ m[1] = Summary(Covered(span)) /\ ToSet(m) = {Summary(Covered(span))}
  BY <1>11 DEF ToSet
<1>13. /\ ResultsBelong(x) => ResultsBelong(y)
       /\ AllMet(x) => AllMet(y)
  BY <1>3, ShapeSuffix
<1>14. ToSet(h) \subseteq ToSet(x) /\ ToSet(y) \subseteq ToSet(x) /\ \A r \in ToSet(h) : r.kind \notin {"ask", "result"}
  <2>1. (\A i \in 1..keep : i \in 1..Len(x)) /\ \A i \in c..Len(x) : i \in 1..Len(x)
    BY <1>1, <1>3, <1>5
  <2> HIDE DEF keep, h, y
  <2> QED BY <1>1, <1>6, <1>8, <1>10, <2>1 DEF ToSet
<1>15. u = Split(x, c)
  BY DEF Split, from, users
<1> HIDE DEF h, span, m, y, keep
<1>16. ResultsBelong(h) /\ AllMet(h) /\ ResultsBelong(m) /\ AllMet(m)
  <2>1. DOMAIN h = 1..keep
    BY <1>6, <1>7, LenProperties
  <2> QED BY <1>6, <1>7, <1>8, <1>11, <1>12, <2>1, ShapePlain
<1>17. h \o m \in Seq(Entry) /\ u \in Seq(Entry)
  BY <1>6, <1>10, <1>12, ConcatProperties
<1>18. ResultsBelong(h \o m) /\ AllMet(h \o m)
  BY <1>6, <1>12, <1>16, ShapeConcat
<1>19. /\ ResultsBelong(x) => ResultsBelong(u)
       /\ AllMet(x) => AllMet(u)
  <2> DEFINE hm == h \o m
  <2>1. hm \in Seq(Entry) /\ ResultsBelong(hm) /\ AllMet(hm)
    BY <1>17, <1>18
  <2> HIDE DEF hm
  <2>2. /\ ResultsBelong(x) => ResultsBelong(hm \o y)
        /\ AllMet(x) => AllMet(hm \o y)
    BY <1>10, <1>13, <2>1, ShapeConcat
  <2> QED BY <2>2 DEF hm
<1>20. u # <<>> /\ u[1] = System
  <2>1. /\ Len(h \o m) = Len(h) + Len(m) /\ Len(m) \in Nat
        /\ \A i \in 1..Len(h) + Len(m) : (h \o m)[i] = IF i <= Len(h) THEN h[i] ELSE m[i - Len(h)]
    BY <1>6, <1>12, ConcatProperties, LenProperties
  <2>2. 1 \in 1..Len(h) + Len(m) /\ 1 <= Len(h) /\ Len(h \o m) >= 1 /\ Len(h \o m) \in Nat
    BY <1>5, <1>7, <2>1
  <2>3. (h \o m)[1] = System
    BY <1>5, <1>7, <2>1, <2>2
  <2> DEFINE hm == h \o m
  <2>4. hm \in Seq(Entry) /\ Len(hm) \in Nat /\ Len(hm) >= 1 /\ hm[1] = System
    BY <1>17, <2>2, <2>3
  <2> HIDE DEF hm
  <2>5. /\ Len(hm \o y) = Len(hm) + Len(y) /\ Len(y) \in Nat
        /\ \A i \in 1..Len(hm) + Len(y) : (hm \o y)[i] = IF i <= Len(hm) THEN hm[i] ELSE y[i - Len(hm)]
    BY <1>10, <2>4, ConcatProperties, LenProperties
  <2>6. 1 \in 1..Len(hm) + Len(y) /\ Len(hm \o y) # 0
    BY <2>4, <2>5
  <2>7. hm \o y # <<>> /\ (hm \o y)[1] = System
    BY <2>4, <2>5, <2>6
  <2> QED BY <2>7 DEF hm
<1>21. /\ Told(u) = (Told(h) \cup Told(m)) \cup Told(y)
       /\ Covered(u) = (Covered(h) \cup Covered(m)) \cup Covered(y)
  <2>1. Told(h \o m) = Told(h) \cup Told(m) /\ Covered(h \o m) = Covered(h) \cup Covered(m)
    BY <1>6, <1>12, CoveredConcat
  <2>2. Told(u) = Told(h \o m) \cup Told(y) /\ Covered(u) = Covered(h \o m) \cup Covered(y)
    BY <1>10, <1>17, CoveredConcat
  <2> QED BY <2>1, <2>2
<1>22. Told(u) \subseteq Told(x)
  BY <1>11, <1>12, <1>14, <1>21 DEF Told
<1>23. Covered(m) = Covered(span)
  BY <1>11, <1>12 DEF Covered
<1>24. ASSUME from = (IF x[2].kind = "summary" THEN 3 ELSE 2)
       PROVE  Covered(x) \subseteq Covered(u)
  <2>1. from = keep + 1
    BY <1>24 DEF keep
  <2>2. \A i \in 1..Len(x) : i \in 1..keep \/ i \in from..c - 1 \/ i \in c..Len(x)
    BY <1>1, <1>2, <1>3, <1>5, <2>1
  <2>3. ToSet(x) \subseteq (ToSet(h) \cup ToSet(span)) \cup ToSet(y)
    BY <1>1, <1>6, <1>9, <1>10, <2>2 DEF ToSet
  <2>4. Covered(x) \subseteq (Covered(h) \cup Covered(span)) \cup Covered(y)
    BY <2>3 DEF Covered
  <2> QED BY <1>21, <1>23, <2>4
<1> HIDE DEF u
<1> QED BY <1>15, <1>17, <1>19, <1>20, <1>22, <1>24 DEF from, users

-----------------------------------------------------------------------------
(* The control of a turn. *)

Begun == {"requesting", "running", "resulting"}

ControlInv ==
  /\ phase \in Phase /\ compacts \in Compaction
  /\ late \in BOOLEAN /\ aborted \in BOOLEAN /\ truncated \in BOOLEAN
  /\ settled \in {"pending", "resolved", "rejected", "timeout"}
  /\ sent \in 0..MaxTurns /\ turn \in 0..sent
  /\ phase # "idle" => turn > 0
  /\ round \in Nat
  /\ calls \in Seq(Tool) /\ ran \subseteq DOMAIN calls /\ done \in 0..Len(calls)
  /\ phase \in Begun => done < Len(calls)
  /\ phase = "requesting" => done = 0
  /\ phase = "idle" => ~aborted
  /\ aborted => settled = "timeout"
  /\ phase # "over" /\ ~aborted => settled = "pending"
  /\ phase = "over" => settled # "pending"

\* Where a top of the loop may lead.
LEMMA TopLeads ==
  ASSUME NEW list, LoopTop(list)
  PROVE  /\ messages' = list
         /\ \/ aborted /\ phase' = "over" /\ settled' = (IF settled = "pending" THEN "resolved" ELSE settled)
            \/ ~aborted /\ phase' \in {"answering", "streaming", "splitting"} /\ settled' = settled
  BY DEF LoopTop, AskModel, Stop, Settle

\* A round's calls.
LEMMA CallsSeq ==
  ASSUME NEW cs \in BoundedSeq(Tool, MaxCalls) \ {<<>>}
  PROVE  cs \in Seq(Tool) /\ Len(cs) \in Nat /\ Len(cs) > 0
<1>1. cs \in Seq(Tool)
  <2>1. PICK n \in 0..MaxCalls : cs \in [1..n -> Tool]
    BY DEF BoundedSeq, SeqOf
  <2>2. n \in Nat
    BY ToolLoopAssumption
  <2> QED BY <2>1, <2>2, SeqDef
<1> QED BY <1>1, EmptySeq

\* It holds before the first message.
LEMMA ControlInit == LoopInit => ControlInv
<1> SUFFICES ASSUME LoopInit
             PROVE  ControlInv
  OBVIOUS
<1>1. calls \in Seq(Tool) /\ done \in 0..Len(calls) /\ ran \subseteq DOMAIN calls
  BY DEF LoopInit
<1>2. 0 \in 0..MaxTurns /\ 0 \in 0..0
  BY ToolLoopAssumption
<1> QED BY <1>1, <1>2 DEF LoopInit, ControlInv, Phase, Begun

\* Every step keeps it.
LEMMA ControlStep == ControlInv /\ [LoopNext]_loopVars => ControlInv'
<1> SUFFICES ASSUME ControlInv, [LoopNext]_loopVars
             PROVE  ControlInv'
  OBVIOUS
<1>0. Len(calls) \in Nat /\ DOMAIN calls = 1..Len(calls) /\ MaxTurns \in Nat
  BY LenProperties, ToolLoopAssumption DEF ControlInv
<1> USE DEF ControlInv, Phase, Begun, bodyVars
<1>1. CASE UNCHANGED loopVars \/ LoopEnded
  BY <1>1 DEF LoopEnded, loopVars
<1>2. CASE UserSends
  BY <1>0, <1>2 DEF UserSends
<1>3. CASE StartTurn
  <2>1. UNCHANGED <<sent, round, calls, truncated, ran, done, late, aborted, compacts>>
        /\ turn' = turn + 1 /\ turn < sent /\ phase = "idle"
    BY <1>3 DEF StartTurn
  <2>2. phase' \in {"answering", "streaming", "splitting", "compacting"} /\ settled' = settled
    <3>1. CASE \E list : LoopTop(list)
      BY <2>1, <3>1, TopLeads
    <3> QED BY <1>3, <3>1 DEF StartTurn
  <2> QED BY <1>0, <2>1, <2>2
<1>4. CASE TurnEnds
  <2>1. calls' = <<>> /\ ran' = {} /\ done' = 0
    BY <1>4 DEF TurnEnds
  <2>2. calls' \in Seq(Tool) /\ done' \in 0..Len(calls') /\ ran' \subseteq DOMAIN calls'
    BY <2>1
  <2> QED BY <1>4, <2>2 DEF TurnEnds
<1>5. CASE Summarized
  <2>1. UNCHANGED <<sent, turn, round, calls, truncated, ran, done, late, aborted, compacts>> /\ phase = "compacting"
    BY <1>5 DEF Summarized
  <2>2. \/ phase' = "recording" /\ settled' = settled
        \/ LoopTop(messages)
    BY <1>5 DEF Summarized
  <2>3. CASE LoopTop(messages)
    BY <2>1, <2>3, TopLeads
  <2> QED BY <2>1, <2>2, <2>3
<1>6. CASE CompactionRecorded
  <2>1. UNCHANGED <<sent, turn, round, calls, truncated, ran, done, late, aborted, compacts>> /\ phase = "recording"
    BY <1>6 DEF CompactionRecorded
  <2>2. \E list : LoopTop(list)
    BY <1>6 DEF CompactionRecorded
  <2> QED BY <2>1, <2>2, TopLeads
<1>7. CASE SplitSummarized
  BY <1>7 DEF SplitSummarized
<1>8. CASE StreamText \/ StreamFails \/ Answered \/ PersistFails
  BY <1>8 DEF StreamText, StreamFails, Answered, PersistFails, Settle
<1>9. ASSUME NEW cs \in BoundedSeq(Tool, MaxCalls) \ {<<>>}, NEW cutShort \in BOOLEAN, StreamAsks(cs, cutShort)
      PROVE  ControlInv'
  <2>1. cs \in Seq(Tool) /\ Len(cs) \in Nat /\ Len(cs) > 0
    BY CallsSeq
  <2> QED BY <1>9, <2>1 DEF StreamAsks, Stop, Settle
<1>10. CASE RequestPersisted
  BY <1>0, <1>10 DEF RequestPersisted, PersistNext, StartTools, Stop, Settle
<1>11. CASE ResultPersisted
  <2>1. UNCHANGED <<sent, turn, truncated, late, aborted, compacts, calls, ran>> /\ phase = "resulting" /\ done' = done + 1
    BY <1>11 DEF ResultPersisted
  <2>2. \/ done + 1 = Len(calls) /\ round' = round + 1 /\ \E list : LoopTop(list)
        \/ done + 1 < Len(calls) /\ round' = round /\ (PersistNext \/ StartTools)
    BY <1>11 DEF ResultPersisted
  <2>3. CASE done + 1 = Len(calls) /\ round' = round + 1 /\ \E list : LoopTop(list)
    BY <1>0, <2>1, <2>3, TopLeads
  <2>4. CASE done + 1 < Len(calls) /\ round' = round /\ (PersistNext \/ StartTools)
    BY <1>0, <2>1, <2>4 DEF PersistNext, StartTools, Stop, Settle
  <2> QED BY <2>2, <2>3, <2>4
<1>12. ASSUME NEW k \in DOMAIN calls, ToolReturns(k)
       PROVE  ControlInv'
  <2>1. UNCHANGED <<sent, turn, truncated, late, aborted, compacts, calls, round, done>> /\ phase = "running"
        /\ ran' = ran \cup {k}
    BY <1>12 DEF ToolReturns
  <2>2. UNCHANGED <<phase, settled>> \/ PersistNext
    BY <1>12 DEF ToolReturns
  <2> QED BY <1>0, <2>1, <2>2 DEF PersistNext, Stop, Settle
<1>13. CASE DeadlinePasses
  BY <1>13 DEF DeadlinePasses
<1>14. CASE Backstop
  BY <1>14 DEF Backstop
<1> QED BY <1>1, <1>2, <1>3, <1>4, <1>5, <1>6, <1>7, <1>8, <1>9, <1>10, <1>11, <1>12, <1>13, <1>14 DEF LoopNext

\* It holds throughout.
LEMMA ControlHolds == LoopSpec => []ControlInv
  BY ControlInit, ControlStep, PTL DEF LoopSpec

\* Behind the backstop a step leads into an LLM call or a write only from
\* where it already was, from a split or from a compaction's summary.
LEMMA AbortStep ==
  ControlInv /\ [LoopNext]_loopVars =>
    /\ aborted /\ phase' \in AwaitsLlm => phase' = phase \/ phase = "splitting"
    /\ aborted /\ phase' \in Persists => (phase' = phase /\ done' = done) \/ phase = "compacting"
<1> SUFFICES ASSUME ControlInv, [LoopNext]_loopVars, aborted
             PROVE  /\ phase' \in AwaitsLlm => phase' = phase \/ phase = "splitting"
                    /\ phase' \in Persists => (phase' = phase /\ done' = done) \/ phase = "compacting"
  OBVIOUS
<1> USE DEF AwaitsLlm, Persists, bodyVars
<1>1. CASE UNCHANGED loopVars \/ LoopEnded \/ UserSends \/ DeadlinePasses \/ Backstop
  BY <1>1 DEF LoopEnded, loopVars, UserSends, DeadlinePasses, Backstop
<1>2. CASE StartTurn \/ TurnEnds
  BY <1>2 DEF StartTurn, TurnEnds, ControlInv
<1>3. ASSUME NEW list, LoopTop(list)
      PROVE  phase' = "over"
  BY <1>3, TopLeads
<1>4. CASE Summarized
  <2>1. phase = "compacting" /\ (phase' = "recording" \/ LoopTop(messages))
    BY <1>4 DEF Summarized
  <2> QED BY <2>1, <1>3
<1>5. CASE CompactionRecorded
  BY <1>3, <1>5 DEF CompactionRecorded
<1>6. CASE SplitSummarized
  BY <1>6 DEF SplitSummarized
<1>7. CASE StreamText \/ StreamFails \/ Answered \/ PersistFails
  BY <1>7 DEF StreamText, StreamFails, Answered, PersistFails, Settle
<1>8. ASSUME NEW cs, NEW cutShort, StreamAsks(cs, cutShort)
      PROVE  phase' = "over"
  BY <1>8 DEF StreamAsks, Stop, Settle
<1>9. CASE RequestPersisted
  BY <1>9 DEF RequestPersisted, PersistNext, StartTools, Stop, Settle
<1>10. CASE ResultPersisted
  <2>1. phase' = "running" \/ phase' = "over"
    BY <1>3, <1>10 DEF ResultPersisted, PersistNext, StartTools, Stop, Settle
  <2> QED BY <2>1
<1>11. ASSUME NEW k, ToolReturns(k)
       PROVE  phase' \in {"running", "over"}
  BY <1>11 DEF ToolReturns, PersistNext, Stop, Settle
<1> QED BY <1>1, <1>2, <1>4, <1>5, <1>6, <1>7, <1>8, <1>9, <1>10, <1>11 DEF LoopNext

\* Behind the backstop the body starts no call of the model, but for the one
\* behind a split.
THEOREM NoCallBehindTheBackstop == LoopSpec => NoLlmCallAfterAbort
<1>1. ControlInv /\ [LoopNext]_loopVars =>
        (aborted /\ phase' \in AwaitsLlm => phase' = phase \/ phase = "splitting")
  BY AbortStep
<1> QED BY <1>1, ControlHolds, PTL DEF LoopSpec, NoLlmCallAfterAbort

\* Behind the backstop the body starts no write, but for the one of a
\* summary it was waiting for.
THEOREM NoWriteBehindTheBackstop == LoopSpec => NoPersistAfterAbort
<1>1. ControlInv /\ [LoopNext]_loopVars =>
        (aborted /\ phase' \in Persists => (phase' = phase /\ done' = done) \/ phase = "compacting")
  BY AbortStep
<1> QED BY <1>1, ControlHolds, PTL DEF LoopSpec, NoPersistAfterAbort

-----------------------------------------------------------------------------
(* The rows.  A round stays open from its request's insert to its last     *)
(* result's, and what fails or is aborted in between leaves it open.       *)

\* The request of the round.
TheAsk == Ask(turn, round, calls)

\* Whatever came of turn t.
RowKept(t) ==
  /\ t > sent => rows[t] = <<>>
  /\ t \in turn + 1..sent => rows[t] = <<User(t)>>
  /\ t <= sent => rows[t] # <<>> /\ rows[t][1] = User(t)
  /\ OfTurn(rows[t], t)
  /\ ResultsBelong(rows[t])
  /\ Reply(t) \in ToSet(rows[t]) => AllMet(rows[t]) /\ (t = turn => phase = "idle")

\* The turn the loop is on.
TurnKept ==
  /\ phase \notin {"idle", "running", "resulting", "over"} => AllMet(rows[turn])
  /\ phase \in {"running", "resulting"} =>
       /\ EndsOpen(rows[turn], TheAsk, done)
       /\ RequestsMet(rows[turn], Len(rows[turn]) - done - 1)
  /\ phase = "over" /\ settled = "resolved" => AllMet(rows[turn])

RowsInv ==
  /\ RowsTyped
  /\ \A t \in Turns : RowKept(t)
  /\ TurnKept

\* It holds before the first message.
LEMMA RowsInit == LoopInit => RowsInv
<1> SUFFICES ASSUME LoopInit
             PROVE  RowsInv
  OBVIOUS
<1>1. rows = [t \in Turns |-> <<>>] /\ sent = 0 /\ turn = 0 /\ phase = "idle"
  BY DEF LoopInit, Turns
<1>2. RowsTyped
  BY <1>1, ToolLoopAssumption DEF RowsTyped
<1>3. ASSUME NEW t \in Turns
      PROVE  RowKept(t)
  <2>1. rows[t] = <<>> /\ ToSet(rows[t]) = {} /\ t > sent /\ t \notin turn + 1..sent /\ ~(t <= sent)
    BY <1>1, ToolLoopAssumption DEF Turns, ToSet
  <2> QED BY <2>1 DEF RowKept, OfTurn, ResultsBelong
<1> QED BY <1>1, <1>2, <1>3 DEF RowsInv, TurnKept

\* One row more of a turn.
LEMMA RowAppend ==
  ASSUME NEW t \in Turns, NEW s \in Seq(RowEntry), s # <<>>, s[1] = User(t), OfTurn(s, t),
         NEW e \in RowEntry, e.turn = t, e.kind # "user"
  PROVE  LET u == Append(s, e)
         IN  /\ u \in Seq(RowEntry) /\ u # <<>> /\ u[1] = User(t) /\ OfTurn(u, t)
             /\ ToSet(u) = ToSet(s) \cup {e} /\ Len(u) = Len(s) + 1
<1> DEFINE u == Append(s, e)
<1>1. /\ u \in Seq(RowEntry) /\ u # <<>> /\ Len(u) = Len(s) + 1
      /\ \A i \in 1..Len(s) : u[i] = s[i]
      /\ u[Len(s) + 1] = e
      /\ DOMAIN u = 1..Len(s) + 1 /\ DOMAIN s = 1..Len(s) /\ Len(s) \in Nat /\ Len(s) # 0
  BY AppendProperties, LenProperties, EmptySeq
<1>2. ToSet(u) = ToSet(s) \cup {e}
  BY ToSetAppend
<1> HIDE DEF u
<1>3. u[1] = User(t)
  <2>1. 1 \in 1..Len(s)
    BY <1>1
  <2> QED BY <1>1, <2>1
<1>4. ASSUME NEW i \in 1..Len(s) + 1
      PROVE  u[i].turn = t /\ (u[i].kind = "user" => i = 1)
  <2>1. CASE i = Len(s) + 1
    BY <1>1, <2>1
  <2>2. CASE i \in 1..Len(s)
    BY <1>1, <2>2 DEF OfTurn
  <2> QED BY <1>1, <2>1, <2>2
<1>5. OfTurn(u, t)
  BY <1>1, <1>4 DEF OfTurn
<1> QED BY <1>1, <1>2, <1>3, <1>5 DEF u

\* Steps that store nothing.
LEMMA RowsFrame ==
  ASSUME ControlInv, RowsInv, rows' = rows, sent' = sent, turn' = turn, phase = "idle" => phase' = "idle"
  PROVE  RowsTyped' /\ \A t \in Turns : RowKept(t)'
<1>1. RowsTyped'
  BY DEF RowsInv, RowsTyped
<1>2. ASSUME NEW t \in Turns
      PROVE  RowKept(t)'
  BY <1>2 DEF RowsInv, RowKept
<1> QED BY <1>1, <1>2

\* Rows of the turns the step does not write to.
LEMMA OtherRows ==
  ASSUME ControlInv, RowsInv, sent' = sent, turn' = turn, NEW t \in Turns, t # turn, rows'[t] = rows[t]
  PROVE  RowKept(t)'
BY DEF RowsInv, RowKept

\* The rows a turn is made of.
LEMMA EntryKinds ==
  ASSUME NEW t \in Turns, NEW i \in Nat, NEW cs \in Seq(Tool), NEW k \in Nat
  PROVE  /\ User(t) \in RowEntry /\ User(t).kind = "user" /\ User(t).turn = t
         /\ Reply(t) \in RowEntry /\ Reply(t).kind = "reply" /\ Reply(t).turn = t
         /\ Ask(t, i, cs) \in RowEntry /\ Ask(t, i, cs).kind = "ask" /\ Ask(t, i, cs).turn = t
         /\ Ask(t, i, cs).iter = i /\ Ask(t, i, cs).calls = cs
         /\ Result(t, i, k) \in RowEntry /\ Result(t, i, k).kind = "result" /\ Result(t, i, k).turn = t
         /\ RowEntry \subseteq Entry
BY DEF User, Reply, Ask, Result, RowEntry, Entry

\* A message posted is a turn of its own, behind the others.
LEMMA UserSendsRows ==
  ASSUME ControlInv, RowsInv, UserSends
  PROVE  RowsInv'
<1>0. PICK n \in Turns : n = sent + 1
  BY ToolLoopAssumption DEF UserSends, ControlInv, Turns
<1>1. /\ n \in Turns /\ sent' = n /\ turn' = turn /\ n > turn /\ rows' = [rows EXCEPT ![n] = <<User(n)>>]
      /\ rows \in [Turns -> Seq(RowEntry)] /\ sent \in Nat /\ turn \in Nat /\ turn <= sent /\ n \in 0..MaxTurns
      /\ UNCHANGED <<phase, calls, round, done, settled>>
  BY <1>0, ToolLoopAssumption DEF UserSends, ControlInv, RowsInv, RowsTyped, Turns, bodyVars
<1>2. n = sent + 1 /\ Turns \subseteq Nat
  BY <1>0 DEF Turns
<1>3. User(n) \in RowEntry
  BY <1>1 DEF User, RowEntry
<1>4. <<User(n)>> \in Seq(RowEntry) /\ rows'[n] = <<User(n)>> /\ \A t \in Turns \ {n} : rows'[t] = rows[t]
  BY <1>1, <1>3
<1>5. RowsTyped'
  BY <1>1, <1>4 DEF RowsTyped
<1>6. RowKept(n)'
  <2>1. DOMAIN <<User(n)>> = {1} /\ <<User(n)>>[1] = User(n) /\ ToSet(<<User(n)>>) = {User(n)}
    BY DEF ToSet
  <2>2. User(n).kind = "user" /\ User(n).turn = n /\ User(n) # Reply(n)
    BY DEF User, Reply
  <2>3. OfTurn(<<User(n)>>, n) /\ ResultsBelong(<<User(n)>>)
    BY <2>1, <2>2 DEF OfTurn, ResultsBelong
  <2> QED BY <1>1, <1>2, <1>4, <2>1, <2>2, <2>3 DEF RowKept
<1>7. ASSUME NEW t \in Turns, t # n
      PROVE  RowKept(t)'
  <2>1. t > n \/ t <= sent
    BY <1>1, <1>2, <1>7
  <2>2. RowKept(t) /\ rows'[t] = rows[t]
    BY <1>4, <1>7 DEF RowsInv
  <2>3. t > n => t > sent /\ t \notin turn + 1..n /\ ~(t <= n)
    BY <1>1, <1>2
  <2>4. t <= sent => ~(t > n) /\ (t \in turn + 1..n => t \in turn + 1..sent)
    BY <1>1, <1>2
  <2> QED BY <1>1, <2>1, <2>2, <2>3, <2>4 DEF RowKept
<1>8. TurnKept'
  <2>1. CASE phase = "idle"
    BY <1>1, <2>1 DEF TurnKept
  <2>2. CASE phase # "idle"
    <3>1. turn \in Turns \ {n} /\ TheAsk' = TheAsk
      <4>1. turn > 0
        BY <2>2 DEF ControlInv
      <4>2. turn \in Turns /\ turn # n
        BY <4>1, <1>1, <1>2, ToolLoopAssumption DEF Turns
      <4> QED BY <4>2, <1>1 DEF TheAsk
    <3>2. rows'[turn] = rows[turn]
      BY <1>4, <3>1
    <3> QED BY <1>1, <3>1, <3>2 DEF RowsInv, TurnKept
  <2> QED BY <2>1, <2>2
<1> QED BY <1>5, <1>6, <1>7, <1>8 DEF RowsInv

\* A row appended to the open turn's.
LEMMA RowStored ==
  ASSUME ControlInv, RowsInv, phase # "idle", NEW e \in RowEntry, e.turn = turn, e.kind # "user",
         rows' = [rows EXCEPT ![turn] = Append(@, e)], sent' = sent, turn' = turn
  PROVE  /\ RowsTyped'
         /\ turn \in Turns /\ rows[turn] \in Seq(RowEntry) /\ rows[turn] \in Seq(Entry)
         /\ rows'[turn] = Append(rows[turn], e)
         /\ ResultsBelong(rows[turn])
         /\ (/\ ResultsBelong(Append(rows[turn], e))
             /\ e = Reply(turn) => phase' = "idle" /\ AllMet(Append(rows[turn], e)))
              => \A t \in Turns : RowKept(t)'
<1>1. turn \in Turns /\ turn \in Nat /\ sent \in 0..MaxTurns /\ turn <= sent /\ Turns \subseteq Nat
  BY ToolLoopAssumption DEF ControlInv, Turns
<1>2. rows \in [Turns -> Seq(RowEntry)] /\ RowKept(turn)
  BY <1>1 DEF RowsInv, RowsTyped
<1>3. rows[turn] \in Seq(RowEntry) /\ rows[turn] \in Seq(Entry)
  BY <1>1, <1>2, RowsEntries
<1>4. rows'[turn] = Append(rows[turn], e) /\ \A t \in Turns : t # turn => rows'[t] = rows[t]
  BY <1>1, <1>2
<1>5. rows[turn] # <<>> /\ rows[turn][1] = User(turn) /\ OfTurn(rows[turn], turn) /\ ResultsBelong(rows[turn])
      /\ Reply(turn) \notin ToSet(rows[turn])
  BY <1>1, <1>2 DEF RowKept
<1>6. LET u == Append(rows[turn], e)
      IN  /\ u \in Seq(RowEntry) /\ u # <<>> /\ u[1] = User(turn) /\ OfTurn(u, turn)
          /\ ToSet(u) = ToSet(rows[turn]) \cup {e}
  BY <1>1, <1>3, <1>5, RowAppend
<1>7. RowsTyped'
  BY <1>1, <1>2, <1>6 DEF RowsTyped
<1>8. ASSUME ResultsBelong(Append(rows[turn], e)),
             e = Reply(turn) => phase' = "idle" /\ AllMet(Append(rows[turn], e)),
             NEW t \in Turns, t = turn
      PROVE  RowKept(t)'
  <2>1. ~(turn > sent) /\ turn \notin turn + 1..sent
    BY <1>1
  <2>2. Reply(turn) \in ToSet(Append(rows[turn], e)) => e = Reply(turn)
    BY <1>5, <1>6
  <2> QED BY <1>4, <1>6, <1>8, <2>1, <2>2 DEF RowKept
<1>9. \A t \in Turns : t # turn => RowKept(t)'
  BY <1>4, OtherRows
<1> QED BY <1>1, <1>3, <1>4, <1>5, <1>7, <1>8, <1>9

\* The reply of a loop that resolved closes its turn.
LEMMA TurnEndsRows ==
  ASSUME ControlInv, RowsInv, TurnEnds
  PROVE  RowsInv'
<1>1. /\ phase' = "idle" /\ sent' = sent /\ turn' = turn /\ phase # "idle"
      /\ settled = "resolved" => phase = "over"
  BY DEF TurnEnds, WritesNoMore, ControlInv
<1>2. TurnKept'
  BY <1>1 DEF TurnKept
<1>3. CASE settled # "resolved"
  <2>1. rows' = rows
    BY <1>3 DEF TurnEnds
  <2> QED BY <1>1, <1>2, <2>1, RowsFrame DEF RowsInv
<1>4. CASE settled = "resolved"
  <2> DEFINE e == Reply(turn)
  <2>1. turn \in Turns
    BY <1>1, ToolLoopAssumption DEF ControlInv, Turns
  <2>2. e \in RowEntry /\ e.turn = turn /\ e.kind = "reply" /\ e \in Entry
    BY <2>1 DEF Reply, RowEntry, Entry
  <2>3. rows' = [rows EXCEPT ![turn] = Append(@, e)]
    BY <1>4 DEF TurnEnds
  <2>4. AllMet(rows[turn])
    BY <1>1, <1>4 DEF RowsInv, TurnKept
  <2>5. /\ RowsTyped' /\ rows[turn] \in Seq(Entry) /\ ResultsBelong(rows[turn])
        /\ (/\ ResultsBelong(Append(rows[turn], e))
            /\ e = Reply(turn) => phase' = "idle" /\ AllMet(Append(rows[turn], e)))
             => \A t \in Turns : RowKept(t)'
    <3> HIDE DEF e
    <3> QED BY <1>1, <2>2, <2>3, RowStored
  <2>6. ResultsBelong(Append(rows[turn], e)) /\ AllMet(Append(rows[turn], e))
    BY <2>2, <2>4, <2>5, ShapeAppend
  <2> QED BY <1>1, <1>2, <2>5, <2>6 DEF RowsInv
<1> QED BY <1>3, <1>4

\* The request's insert opens a round.
LEMMA RequestRows ==
  ASSUME ControlInv, RowsInv, RequestPersisted
  PROVE  RowsInv'
<1> DEFINE e == TheAsk
           s == rows[turn]
<1>1. /\ phase = "requesting" /\ UNCHANGED <<sent, turn, round, calls, done, aborted>>
      /\ done = 0 /\ turn \in Turns /\ round \in Nat /\ calls \in Seq(Tool)
      /\ rows' = [rows EXCEPT ![turn] = Append(@, e)]
  BY ToolLoopAssumption DEF RequestPersisted, ControlInv, Turns, TheAsk
<1>2. phase' \in {"running", "resulting"} \/ (phase' = "over" /\ settled' # "resolved")
  BY DEF RequestPersisted, PersistNext, StartTools, Stop, Settle, ControlInv
<1>3. e \in RowEntry /\ e \in Entry /\ e.turn = turn /\ e.kind = "ask" /\ e' = e
  BY <1>1 DEF TheAsk, Ask, RowEntry, Entry
<1> HIDE DEF e
<1>4. /\ RowsTyped' /\ s \in Seq(Entry) /\ ResultsBelong(s) /\ rows'[turn] = Append(s, e)
      /\ (/\ ResultsBelong(Append(s, e))
          /\ e = Reply(turn) => phase' = "idle" /\ AllMet(Append(s, e)))
           => \A t \in Turns : RowKept(t)'
  BY <1>1, <1>3, RowStored
<1>5. AllMet(s)
  BY <1>1 DEF RowsInv, TurnKept
<1>6. ResultsBelong(Append(s, e)) /\ RequestsMet(Append(s, e), Len(s)) /\ EndsOpen(Append(s, e), e, 0)
  BY <1>3, <1>4, <1>5, ShapeAppend
<1>7. e # Reply(turn)
  BY <1>3 DEF Reply
<1>8. Len(Append(s, e)) - 0 - 1 = Len(s)
  BY <1>3, <1>4, AppendProperties, LenProperties
<1>9. TurnKept'
  <2>1. rows'[turn'] = Append(s, e) /\ done' = 0 /\ TheAsk' = e
    BY <1>1, <1>3, <1>4 DEF e
  <2> HIDE DEF s
  <2> QED BY <1>2, <1>6, <1>8, <2>1 DEF TurnKept
<1> QED BY <1>4, <1>6, <1>7, <1>9 DEF RowsInv

\* Each result is stored behind its request and the results before it.
LEMMA ResultRows ==
  ASSUME ControlInv, RowsInv, ResultPersisted
  PROVE  RowsInv'
<1> DEFINE ask == TheAsk
           s == rows[turn]
           e == Result(turn, round, done + 1)
           u == Append(s, e)
<1>1. /\ phase = "resulting" /\ UNCHANGED <<sent, turn, calls, aborted>>
      /\ done \in Nat /\ done < Len(calls) /\ turn \in Turns /\ round \in Nat /\ calls \in Seq(Tool)
      /\ done' = done + 1 /\ rows' = [rows EXCEPT ![turn] = Append(@, e)]
  BY ToolLoopAssumption, LenProperties DEF ResultPersisted, RowsWith, ControlInv, Turns, Begun
<1>2. \/ done + 1 = Len(calls) /\ \E list : LoopTop(list)
      \/ done + 1 < Len(calls) /\ round' = round /\ (PersistNext \/ StartTools)
  BY DEF ResultPersisted
<1>3. \/ done + 1 = Len(calls) /\ phase' \notin {"idle", "running", "resulting"}
      \/ /\ done + 1 < Len(calls) /\ round' = round
         /\ phase' \in {"running", "resulting"} \/ (phase' = "over" /\ settled' # "resolved")
  <2>1. CASE done + 1 = Len(calls) /\ \E list : LoopTop(list)
    BY <2>1, TopLeads
  <2>2. CASE done + 1 < Len(calls) /\ round' = round /\ (PersistNext \/ StartTools)
    BY <2>2 DEF PersistNext, StartTools, Stop, Settle, ControlInv
  <2> QED BY <1>2, <2>1, <2>2
<1>4. /\ ask \in Entry /\ ask.kind = "ask" /\ ask.turn = turn /\ ask.iter = round /\ ask.calls = calls
      /\ e \in RowEntry /\ e.turn = turn /\ e.kind = "result" /\ e # Reply(turn)
      /\ e = Result(ask.turn, ask.iter, done + 1)
  BY <1>1 DEF TheAsk, Ask, Result, Reply, RowEntry, Entry
<1>5. /\ RowsTyped' /\ s \in Seq(Entry) /\ ResultsBelong(s) /\ rows'[turn] = u
      /\ ResultsBelong(u) => \A t \in Turns : RowKept(t)'
  <2> HIDE DEF e
  <2> QED BY <1>1, <1>4, RowStored
<1>6. EndsOpen(s, ask, done) /\ RequestsMet(s, Len(s) - done - 1)
  BY <1>1 DEF RowsInv, TurnKept
<1>7. /\ EndsOpen(u, ask, done + 1) /\ u \in Seq(Entry) /\ ResultsBelong(u)
      /\ RequestsMet(u, Len(u) - (done + 1) - 1)
  <2> HIDE DEF ask, s
  <2> QED BY <1>1, <1>4, <1>5, <1>6, OpenAppend
<1>8. TurnKept'
  <2>1. rows'[turn'] = u
    BY <1>1, <1>5
  <2>2. CASE done + 1 = Len(calls) /\ phase' \notin {"idle", "running", "resulting"}
    <3>1. AllMet(u)
      <4> HIDE DEF u, ask
      <4> QED BY <1>4, <1>7, <2>2, OpenClose
    <3> HIDE DEF u
    <3> QED BY <2>1, <2>2, <3>1 DEF TurnKept
  <2>3. CASE /\ done + 1 < Len(calls) /\ round' = round
             /\ phase' \in {"running", "resulting"} \/ (phase' = "over" /\ settled' # "resolved")
    <3>1. TheAsk' = ask
      BY <1>1, <2>3 DEF TheAsk
    <3> HIDE DEF u, ask
    <3> QED BY <1>1, <1>7, <2>1, <2>3, <3>1 DEF TurnKept
  <2> QED BY <1>3, <2>2, <2>3
<1> QED BY <1>5, <1>7, <1>8 DEF RowsInv

\* A turn starts with its user row alone.
LEMMA StartTurnRows ==
  ASSUME ControlInv, RowsInv, StartTurn
  PROVE  RowsInv'
<1>1. PICK n \in Turns : n = turn + 1
  BY ToolLoopAssumption DEF StartTurn, ControlInv, Turns
<1>2. /\ rows' = rows /\ sent' = sent /\ turn' = n /\ turn < sent /\ phase = "idle" /\ ~aborted
      /\ turn \in Nat /\ sent \in Nat /\ Turns \subseteq Nat
  BY <1>1, ToolLoopAssumption DEF StartTurn, ControlInv, Turns
<1>3. phase' \in {"answering", "streaming", "splitting", "compacting"}
  <2>1. ASSUME NEW list, LoopTop(list)
        PROVE  phase' \in {"answering", "streaming", "splitting"}
    BY <1>2, <2>1, TopLeads
  <2> QED BY <2>1 DEF StartTurn
<1>4. rows[n] = <<User(n)>>
  <2>1. n \in turn + 1..sent
    BY <1>1, <1>2
  <2> QED BY <2>1 DEF RowsInv, RowKept
<1>5. User(n) \in Entry /\ User(n).kind = "user"
  BY DEF User, RowEntry, Entry
<1>6. ASSUME NEW t \in Turns
      PROVE  RowKept(t)'
  <2>1. RowKept(t)
    BY DEF RowsInv
  <2>2. t \in n + 1..sent => t \in turn + 1..sent
    BY <1>1, <1>2
  <2>3. Reply(n) \notin ToSet(rows[n])
    BY <1>4 DEF ToSet, Reply, User
  <2> QED BY <1>2, <2>1, <2>2, <2>3 DEF RowKept
<1>7. AllMet(rows[n])
  BY <1>4, <1>5, ShapeSingle
<1>8. TurnKept'
  BY <1>2, <1>3, <1>7 DEF TurnKept
<1>9. RowsTyped'
  BY <1>2 DEF RowsInv, RowsTyped
<1> QED BY <1>6, <1>8, <1>9 DEF RowsInv

\* The steps that store nothing, within a turn.
LEMMA QuietRows ==
  ASSUME ControlInv, RowsInv, [LoopNext]_loopVars,
         ~UserSends, ~StartTurn, ~TurnEnds, ~RequestPersisted, ~ResultPersisted
  PROVE  RowsInv'
<1>1. /\ rows' = rows /\ sent' = sent /\ turn' = turn
      /\ phase = "idle" => phase' = "idle"
      /\ TurnKept'
  <2> USE DEF TurnKept, bodyVars, RowsInv
  <2>1. CASE UNCHANGED loopVars \/ LoopEnded
    BY <2>1 DEF LoopEnded, loopVars, TheAsk
  <2>2. CASE Summarized
    <3>1. UNCHANGED <<rows, sent, turn, aborted>> /\ phase = "compacting"
      BY <2>2 DEF Summarized
    <3>2. phase' = "recording" \/ LoopTop(messages)
      BY <2>2 DEF Summarized
    <3> QED BY <3>1, <3>2, TopLeads
  <2>3. CASE CompactionRecorded
    <3>1. UNCHANGED <<rows, sent, turn, aborted>> /\ phase = "recording" /\ \E list : LoopTop(list)
      BY <2>3 DEF CompactionRecorded
    <3> QED BY <3>1, TopLeads
  <2>4. CASE SplitSummarized
    BY <2>4 DEF SplitSummarized
  <2>5. CASE StreamText \/ Answered
    BY <2>5 DEF StreamText, Answered, Settle
  <2>6. CASE StreamFails \/ PersistFails
    BY <2>6 DEF StreamFails, PersistFails, Settle, ControlInv
  <2>7. ASSUME NEW cs, NEW cutShort, StreamAsks(cs, cutShort)
        PROVE  /\ UNCHANGED <<rows, sent, turn>> /\ phase = "streaming"
               /\ phase' \in {"over", "requesting"}
    BY <2>7 DEF StreamAsks, Stop, Settle
  <2>8. ASSUME NEW k, ToolReturns(k)
        PROVE  /\ UNCHANGED <<rows, sent, turn, round, calls, done>> /\ phase = "running"
               /\ \/ phase' \in {"running", "resulting"}
                  \/ phase' = "over" /\ settled' # "resolved"
    BY <2>8 DEF ToolReturns, PersistNext, Stop, Settle, ControlInv
  <2>9. CASE \E cs, cutShort : StreamAsks(cs, cutShort)
    BY <2>7, <2>9
  <2>10. CASE \E k : ToolReturns(k)
    BY <2>8, <2>10 DEF TheAsk
  <2>11. CASE DeadlinePasses \/ Backstop
    BY <2>11 DEF DeadlinePasses, Backstop, TheAsk
  <2> QED BY <2>1, <2>2, <2>3, <2>4, <2>5, <2>6, <2>9, <2>10, <2>11 DEF LoopNext
<1> QED BY <1>1, RowsFrame DEF RowsInv

\* Every step keeps it.
LEMMA RowsStep == ControlInv /\ RowsInv /\ [LoopNext]_loopVars => RowsInv'
  BY UserSendsRows, StartTurnRows, TurnEndsRows, RequestRows, ResultRows, QuietRows

\* It holds throughout.
LEMMA RowsHold == LoopSpec => []RowsInv
  BY ControlHolds, RowsInit, RowsStep, PTL DEF LoopSpec

\* A turn that got its answer leaves every request of it with all its
\* results right behind it, whatever failed or was aborted in other turns.
THEOREM AnswersLeaveNothingOpen == LoopSpec => []AnsweredTurnsClosed
<1>1. ControlInv /\ RowsInv => AnsweredTurnsClosed
  <2> SUFFICES ASSUME RowsInv, NEW t \in 1..MaxTurns, Reply(t) \in ToSet(rows[t])
               PROVE  Closed(rows[t])
    BY DEF AnsweredTurnsClosed
  <2>1. rows[t] \in Seq(Entry)
    BY RowsEntries DEF RowsInv, RowsTyped, Turns
  <2>2. ResultsBelong(rows[t]) /\ AllMet(rows[t])
    BY DEF RowsInv, RowKept, Turns
  <2> QED BY <2>1, <2>2, ClosedIff
<1> QED BY <1>1, ControlHolds, RowsHold, PTL

-----------------------------------------------------------------------------
(* The list the model is sent. *)

\* The durable rows.
Stored == UNION {ToSet(rows[t]) : t \in 1..sent}

\* No earlier turn has failed with a request open.
EarlierMet == \A t \in 1..turn - 1 : AllMet(rows[t])

\* The awaits between rounds.
Whole == {"compacting", "recording", "splitting", "streaming", "answering"}

\* The history a compaction is under way for.
CompactionTold ==
  LET x == Tail(messages)
  IN  /\ x \in Seq(RowEntry) /\ cut \in DOMAIN x /\ x[cut].kind = "user"
      /\ ResultsBelong(x) /\ Told(x) \subseteq Stored
      /\ EarlierMet => AllMet(x)

ListInv ==
  /\ SavedTyped
  /\ messages \in Seq(Entry) /\ cut \in 0..Len(messages)
  /\ phase # "idle" => messages # <<>> /\ messages[1] = System
  /\ phase \in Whole \cup Begun =>
       /\ ResultsBelong(messages)
       /\ Told(messages) \subseteq Stored \cup (IF phase = "requesting" THEN {TheAsk} ELSE {})
  /\ phase \in Whole /\ EarlierMet => AllMet(messages)
  /\ phase \in Begun =>
       /\ EndsOpen(messages, TheAsk, done)
       /\ EarlierMet => RequestsMet(messages, Len(messages) - done - 1)
  /\ phase = "splitting" => SplitTold(messages, cut)
  /\ phase \in {"compacting", "recording"} => CompactionTold

\* It holds before the first message.
LEMMA ListInit == LoopInit => ListInv
<1> SUFFICES ASSUME LoopInit
             PROVE  ListInv
  OBVIOUS
<1>1. messages = <<>> /\ cut = 0 /\ phase = "idle" /\ saved = [first |-> 0, of |-> {}]
  BY DEF LoopInit
<1>2. messages \in Seq(Entry) /\ Len(messages) = 0 /\ 0 \in 0..0
  BY <1>1
<1>3. SavedTyped
  BY <1>1, ToolLoopAssumption DEF SavedTyped
<1> QED BY <1>1, <1>2, <1>3 DEF ListInv, Whole, Begun

\* Within a turn rows are only added, and to this turn or a later one.
LEMMA StoredGrows ==
  ASSUME ControlInv, RowsInv, [LoopNext]_loopVars, phase \notin {"idle", "over"}
  PROVE  turn' = turn /\ Stored \subseteq Stored' /\ (EarlierMet' => EarlierMet)
<1>1. turn \in Turns /\ sent \in 0..MaxTurns /\ turn <= sent /\ turn \in Nat /\ MaxTurns \in Nat
      /\ rows \in [Turns -> Seq(RowEntry)] /\ Turns = 1..MaxTurns
  BY ToolLoopAssumption DEF ControlInv, RowsInv, RowsTyped, Turns
<1>2. ASSUME rows' = rows, sent' = sent, turn' = turn
      PROVE  turn' = turn /\ Stored \subseteq Stored' /\ (EarlierMet' => EarlierMet)
  BY <1>2 DEF Stored, EarlierMet
<1>3. ASSUME NEW e \in RowEntry, rows' = [rows EXCEPT ![turn] = Append(@, e)], sent' = sent, turn' = turn
      PROVE  turn' = turn /\ Stored \subseteq Stored' /\ (EarlierMet' => EarlierMet)
  <2>1. ASSUME NEW t \in Turns
        PROVE  ToSet(rows[t]) \subseteq ToSet(rows'[t]) /\ (t # turn => rows'[t] = rows[t])
    <3>1. rows[turn] \in Seq(RowEntry)
      BY <1>1
    <3>2. ToSet(Append(rows[turn], e)) = ToSet(rows[turn]) \cup {e}
      BY <3>1, ToSetAppend
    <3> QED BY <1>1, <1>3, <3>2
  <2>2. \A t \in 1..sent : t \in Turns
    BY <1>1
  <2>3. \A t \in 1..turn - 1 : t \in Turns /\ t # turn
    BY <1>1
  <2>4. Stored \subseteq Stored'
    BY <1>3, <2>1, <2>2 DEF Stored
  <2>5. EarlierMet' => EarlierMet
    BY <1>3, <2>1, <2>3 DEF EarlierMet
  <2> QED BY <1>3, <2>4, <2>5
<1>4. CASE UserSends
  <2>1. turn' = turn /\ sent' = sent + 1 /\ rows' = [rows EXCEPT ![sent + 1] = <<User(sent + 1)>>]
    BY <1>4 DEF UserSends
  <2>2. \A t \in 1..sent : t \in Turns /\ t # sent + 1 /\ t \in 1..sent + 1
    BY <1>1
  <2>3. \A t \in 1..sent : rows'[t] = rows[t]
    BY <1>1, <2>1, <2>2
  <2>4. \A t \in 1..turn - 1 : t \in 1..sent
    BY <1>1
  <2>5. Stored \subseteq Stored'
    BY <2>1, <2>2, <2>3 DEF Stored
  <2>6. EarlierMet' => EarlierMet
    BY <2>1, <2>3, <2>4 DEF EarlierMet
  <2> QED BY <2>1, <2>5, <2>6
<1>5. CASE RequestPersisted
  <2>1. TheAsk \in RowEntry
    BY <1>1 DEF TheAsk, Ask, RowEntry, ControlInv
  <2> QED BY <1>3, <1>5, <2>1 DEF RequestPersisted, TheAsk
<1>6. CASE ResultPersisted
  <2>1. Result(turn, round, done + 1) \in RowEntry
    <3>1. done + 1 \in Nat
      BY LenProperties DEF ControlInv
    <3> QED BY <1>1, <3>1 DEF Result, RowEntry, ControlInv
  <2> QED BY <1>3, <1>6, <2>1 DEF ResultPersisted, RowsWith
<1>7. CASE TurnEnds
  <2>1. rows' = rows /\ sent' = sent /\ turn' = turn
    BY <1>7 DEF TurnEnds, WritesNoMore, ControlInv
  <2> QED BY <1>2, <2>1
<1>8. CASE ~UserSends /\ ~RequestPersisted /\ ~ResultPersisted /\ ~TurnEnds
  <2>1. rows' = rows /\ sent' = sent /\ turn' = turn
    BY <1>8 DEF LoopNext, loopVars, LoopEnded, StartTurn, Summarized, CompactionRecorded, SplitSummarized,
         StreamText, StreamFails, Answered, StreamAsks, PersistFails, ToolReturns, DeadlinePasses, Backstop
  <2> QED BY <1>2, <2>1
<1> QED BY <1>4, <1>5, <1>6, <1>7, <1>8

\* The list a top of the loop goes on with.
LEMMA TopList ==
  ASSUME NEW list, LoopTop(list), SavedTyped',
         list \in Seq(Entry), list # <<>>, list[1] = System, ResultsBelong(list),
         Told(list) \subseteq Stored', EarlierMet' => AllMet(list)
  PROVE  ListInv'
<1>1. messages' = list /\ phase' \in {"over", "answering", "streaming", "splitting"}
  BY TopLeads
<1>2. Len(list) \in Nat /\ DOMAIN list = 1..Len(list)
  BY LenProperties
<1>3. cut' = 0 \/ (phase' = "splitting" /\ cut' \in SplitCuts(list))
  BY DEF LoopTop, AskModel
<1>4. cut' = 0 => phase' # "splitting"
  <2>1. 0 \notin SplitCuts(list)
    <3>1. ~(0 \in DOMAIN list)
      BY <1>2
    <3> QED BY <3>1, SplitCutTold DEF SplitTold
  <2> QED BY <2>1 DEF LoopTop, AskModel, Stop, Settle
<1>5. cut' \in SplitCuts(list) => SplitTold(list, cut')
  BY SplitCutTold
<1>6. cut' \in 0..Len(list)
  BY <1>2, <1>3, <1>5 DEF SplitTold
<1>7. SplitTold(messages, cut)' <=> SplitTold(list, cut')
  BY <1>1 DEF SplitTold, PositionsOf, LastOf
<1> QED BY <1>1, <1>3, <1>4, <1>5, <1>6, <1>7 DEF ListInv, Whole, Begun

\* A turn's cut is at a user row behind the start of the span.
LEMMA TurnCutTold ==
  ASSUME NEW x \in Seq(Entry), NEW start \in 1..Len(x), NEW c \in TurnCuts(x, start)
  PROVE  c \in DOMAIN x /\ x[c].kind = "user" /\ start < c
<1> DEFINE At(n) == {i \in PositionsOf(x, "user", start) : i <= n}
<1>1. Len(x) \in Nat /\ DOMAIN x = 1..Len(x)
  BY LenProperties
<1>2. PICK n \in {y \in start..Len(x) : At(y) # {}} : c = LastOf(At(n))
  BY DEF TurnCuts
<1>3. At(n) \in SUBSET (1..Len(x)) /\ At(n) # {}
  BY <1>1, <1>2 DEF PositionsOf
<1>4. c \in At(n)
  <2> HIDE DEF At
  <2> QED BY <1>1, <1>2, <1>3, LastOfProperties
<1>5. c \in DOMAIN x /\ c >= start /\ x[c].kind = "user"
  BY <1>4 DEF PositionsOf
<1>6. c # start
  BY DEF TurnCuts
<1> QED BY <1>1, <1>5, <1>6

\* The history a turn starts from.
LEMMA HistoryTold ==
  ASSUME ControlInv, RowsInv, StartTurn
  PROVE  /\ History \in Seq(RowEntry) /\ History # <<>>
         /\ ResultsBelong(History) /\ Told(History) \subseteq Stored
         /\ EarlierMet' => AllMet(History)
         /\ Stored' = Stored /\ sent' = sent /\ rows' = rows /\ turn' = turn + 1
<1>1. /\ rows' = rows /\ sent' = sent /\ turn' = turn + 1 /\ turn < sent
      /\ turn \in Nat /\ sent \in Nat /\ sent <= MaxTurns /\ MaxTurns \in Nat /\ Turns = 1..MaxTurns
  BY ToolLoopAssumption DEF StartTurn, ControlInv, Turns
<1>2. RowsTyped /\ sent > 0
  BY <1>1 DEF RowsInv
<1>3. History \in Seq(RowEntry) /\ ToSet(History) = Stored
  BY <1>2, HistoryRows DEF Stored
<1>4. History # <<>>
  <2>1. 1 \in 1..sent /\ 1 \in Turns /\ 1 <= sent
    BY <1>1
  <2>2. rows[1] # <<>> /\ rows[1] \in Seq(RowEntry)
    BY <2>1 DEF RowsInv, RowKept, RowsTyped
  <2>3. 1 \in DOMAIN rows[1]
    BY <2>2, EmptySeq, LenProperties
  <2>4. rows[1][1] \in ToSet(rows[1])
    BY <2>3 DEF ToSet
  <2>5. rows[1][1] \in ToSet(History)
    BY <1>3, <2>1, <2>4 DEF Stored
  <2> QED BY <2>5 DEF ToSet
<1>5. ResultsBelong(History)
  <2>1. \A t \in 1..sent : t \in Turns
    BY <1>1
  <2>2. \A t \in 1..sent : ResultsBelong(rows[t])
    BY <2>1 DEF RowsInv, RowKept
  <2> QED BY <1>2, <2>2, HistoryShape
<1>6. ASSUME EarlierMet'
      PROVE  AllMet(History)
  <2>1. ASSUME NEW t \in 1..sent
        PROVE  AllMet(rows[t])
    <3>1. t \in Turns /\ (t \in 1..turn' - 1 \/ t \in turn + 1..sent)
      BY <1>1
    <3>2. CASE t \in 1..turn' - 1
      BY <1>1, <1>6, <3>2 DEF EarlierMet
    <3>3. CASE t \in turn + 1..sent
      <4>1. rows[t] = <<User(t)>>
        BY <3>1, <3>3 DEF RowsInv, RowKept
      <4>2. User(t) \in Entry /\ User(t).kind = "user"
        BY <3>1 DEF User, RowEntry, Entry
      <4> QED BY <4>1, <4>2, ShapeSingle
    <3> QED BY <3>1, <3>2, <3>3
  <2> QED BY <1>2, <2>1, HistoryShape
<1>7. Told(History) \subseteq Stored /\ Stored' = Stored
  BY <1>1, <1>3 DEF Told, Stored
<1> QED BY <1>1, <1>3, <1>4, <1>5, <1>6, <1>7

\* A turn starts with its history behind the system prompt, whole, sliced
\* or to be compacted.
LEMMA StartTurnList ==
  ASSUME ControlInv, RowsInv, ListInv, StartTurn
  PROVE  ListInv'
<1> DEFINE x == History
<1>1. /\ x \in Seq(RowEntry) /\ x # <<>> /\ ResultsBelong(x) /\ Told(x) \subseteq Stored'
      /\ EarlierMet' => AllMet(x)
  BY HistoryTold
<1>2. SavedTyped' /\ SavedTyped
  BY DEF StartTurn, ListInv, SavedTyped
<1>3. ASSUME NEW z \in Seq(RowEntry), ResultsBelong(z), Told(z) \subseteq Stored', EarlierMet' => AllMet(z),
             LoopTop(<<System>> \o z)
      PROVE  ListInv'
  <2> DEFINE u == <<System>> \o z
  <2>1. /\ u \in Seq(Entry) /\ u # <<>> /\ u[1] = System /\ ResultsBelong(u)
        /\ Told(u) \subseteq Stored' /\ (EarlierMet' => AllMet(u))
    BY <1>3, Headed
  <2>2. LoopTop(u)
    BY <1>3
  <2> HIDE DEF u
  <2> QED BY <1>2, <2>1, <2>2, TopList
<1>4. CASE LoopTop(<<System>> \o x)
  <2> HIDE DEF x
  <2> QED BY <1>1, <1>3, <1>4
<1>5. CASE LoopTop(<<System>> \o SliceAtTurn(x))
  <2> DEFINE z == SliceAtTurn(x)
  <2> HIDE DEF x
  <2>1. /\ z \in Seq(RowEntry) /\ ResultsBelong(z) /\ Told(z) \subseteq Stored'
        /\ EarlierMet' => AllMet(z)
    BY <1>1, Sliced
  <2>2. LoopTop(<<System>> \o z)
    BY <1>5
  <2> HIDE DEF z
  <2> QED BY <1>3, <2>1, <2>2
<1>6. CASE /\ messages' = <<System>> \o x
           /\ \E c \in TurnCuts(x, SpanStart(x)) : cut' = c
           /\ phase' = "compacting"
  <2> DEFINE u == <<System>> \o x
  <2> HIDE DEF x
  <2>1. /\ u \in Seq(Entry) /\ u # <<>> /\ u[1] = System /\ ResultsBelong(u)
        /\ Told(u) \subseteq Stored' /\ (EarlierMet' => AllMet(u)) /\ Tail(u) = x /\ Len(u) = Len(x) + 1
    BY <1>1, Headed
  <2>2. messages' = u
    BY <1>6
  <2> HIDE DEF u
  <2>3. cut' \in DOMAIN x /\ x[cut'].kind = "user"
    <3>1. x \in Seq(Entry) /\ SpanStart(x) \in 1..Len(x)
      BY <1>1, <1>2, SpanStarts, RowsEntries
    <3> QED BY <1>6, <3>1, TurnCutTold
  <2>4. cut' \in 0..Len(u)
    BY <2>1, <2>3, <1>1, LenProperties
  <2>5. CompactionTold'
    BY <1>1, <2>1, <2>2, <2>3 DEF CompactionTold
  <2> QED BY <1>2, <1>6, <2>1, <2>2, <2>4, <2>5 DEF ListInv, Whole, Begun
<1> QED BY <1>4, <1>5, <1>6 DEF StartTurn

\* A failed summary: the list as it was.
LEMMA SummarizedList ==
  ASSUME ControlInv, RowsInv, ListInv, Summarized
  PROVE  ListInv'
<1>1. /\ phase = "compacting" /\ UNCHANGED <<rows, sent, turn, saved>>
      /\ \/ phase' = "recording" /\ UNCHANGED <<messages, cut>>
         \/ LoopTop(messages)
  BY DEF Summarized
<1>2. SavedTyped' /\ Stored' = Stored /\ EarlierMet' = EarlierMet
  BY <1>1 DEF ListInv, SavedTyped, Stored, EarlierMet
<1>3. CASE phase' = "recording" /\ UNCHANGED <<messages, cut>>
  <2>1. CompactionTold'
    BY <1>1, <1>2, <1>3 DEF ListInv, CompactionTold
  <2> QED BY <1>1, <1>2, <1>3, <2>1 DEF ListInv, Whole, Begun
<1>4. CASE LoopTop(messages)
  <2>1. /\ messages \in Seq(Entry) /\ messages # <<>> /\ messages[1] = System /\ ResultsBelong(messages)
        /\ Told(messages) \subseteq Stored' /\ (EarlierMet' => AllMet(messages))
    BY <1>1, <1>2 DEF ListInv, Whole
  <2> QED BY <1>2, <1>4, <2>1, TopList
<1> QED BY <1>1, <1>3, <1>4

\* A compacted history, whether its summary was saved or not.
LEMMA RecordedList ==
  ASSUME ControlInv, RowsInv, ListInv, CompactionRecorded
  PROVE  ListInv'
<1> DEFINE x == Tail(messages)
           u == Compacted(x, cut)
<1>1. /\ phase = "recording" /\ UNCHANGED <<rows, sent, turn>> /\ LoopTop(u)
      /\ saved' = saved \/ saved' = [first |-> x[cut].turn, of |-> PreTurnSummary(x, cut)]
  BY DEF CompactionRecorded
<1>2. Stored' = Stored /\ EarlierMet' = EarlierMet
  BY <1>1 DEF Stored, EarlierMet
<1>3. /\ SavedTyped /\ x \in Seq(RowEntry) /\ cut \in DOMAIN x /\ x[cut].kind = "user"
      /\ ResultsBelong(x) /\ Told(x) \subseteq Stored /\ (EarlierMet => AllMet(x))
  BY <1>1 DEF ListInv, CompactionTold
<1>4. /\ u \in Seq(Entry) /\ u # <<>> /\ u[1] = System
      /\ ResultsBelong(x) => ResultsBelong(u)
      /\ AllMet(x) => AllMet(u)
      /\ Told(u) \subseteq Told(x)
      /\ PreTurnSummary(x, cut) \subseteq RowEntry
  <2> HIDE DEF x
  <2> QED BY <1>3, CompactedList
<1>5. SavedTyped'
  <2>1. x[cut] \in RowEntry
    BY <1>3, LenProperties, ElementOfSeq
  <2>2. x[cut].turn \in 0..MaxTurns
    <3>1. x[cut].turn \in Turns
      BY <2>1 DEF RowEntry
    <3>2. \A t \in Turns : t \in 0..MaxTurns
      BY ToolLoopAssumption DEF Turns
    <3> QED BY <3>1, <3>2
  <2> HIDE DEF x
  <2> QED BY <1>1, <1>3, <1>4, <2>2 DEF SavedTyped
<1> HIDE DEF u
<1> QED BY <1>1, <1>2, <1>3, <1>4, <1>5, TopList

\* A split list, or the list as it was when its summary failed.
LEMMA SplitSummarizedList ==
  ASSUME ControlInv, RowsInv, ListInv, SplitSummarized
  PROVE  ListInv'
<1> DEFINE u == Split(messages, cut)
<1>1. /\ phase = "splitting" /\ phase' = "streaming" /\ cut' = 0 /\ UNCHANGED <<rows, sent, turn, saved>>
      /\ messages' = u \/ messages' = messages
  BY DEF SplitSummarized
<1>2. SavedTyped' /\ Stored' = Stored /\ EarlierMet' = EarlierMet
  BY <1>1 DEF ListInv, SavedTyped, Stored, EarlierMet
<1>3. /\ messages \in Seq(Entry) /\ messages # <<>> /\ messages[1] = System /\ ResultsBelong(messages)
      /\ Told(messages) \subseteq Stored /\ (EarlierMet => AllMet(messages)) /\ SplitTold(messages, cut)
  BY <1>1 DEF ListInv, Whole
<1>4. /\ u \in Seq(Entry) /\ u # <<>> /\ u[1] = System
      /\ ResultsBelong(messages) => ResultsBelong(u)
      /\ AllMet(messages) => AllMet(u)
      /\ Told(u) \subseteq Told(messages)
  BY <1>3, SplitList
<1> HIDE DEF u
<1>5. /\ messages' \in Seq(Entry) /\ messages' # <<>> /\ messages'[1] = System /\ ResultsBelong(messages')
      /\ Told(messages') \subseteq Stored' /\ (EarlierMet' => AllMet(messages'))
  BY <1>1, <1>2, <1>3, <1>4
<1>6. cut' \in 0..Len(messages')
  BY <1>1, <1>5, LenProperties
<1> QED BY <1>1, <1>2, <1>5, <1>6 DEF ListInv, Whole, Begun

\* The model's request ends the list.
LEMMA StreamAsksList ==
  ASSUME ControlInv, RowsInv, ListInv, NEW cs \in Seq(Tool), Len(cs) > 0, NEW cutShort, StreamAsks(cs, cutShort)
  PROVE  ListInv'
<1> DEFINE e == Ask(turn, round, cs)
           u == Append(messages, e)
<1>1. /\ phase = "streaming" /\ UNCHANGED <<rows, sent, turn, saved, cut, round>>
      /\ messages' = u /\ calls' = cs /\ done' = 0
      /\ phase' \in {"over", "requesting"}
  BY DEF StreamAsks, Stop, Settle
<1>2. SavedTyped' /\ Stored' = Stored /\ EarlierMet' = EarlierMet
  BY <1>1 DEF ListInv, SavedTyped, Stored, EarlierMet
<1>3. /\ messages \in Seq(Entry) /\ messages # <<>> /\ messages[1] = System /\ ResultsBelong(messages)
      /\ Told(messages) \subseteq Stored /\ (EarlierMet => AllMet(messages)) /\ cut \in 0..Len(messages)
  BY <1>1 DEF ListInv, Whole
<1>4. e \in RowEntry /\ e \in Entry /\ e.kind = "ask" /\ e = TheAsk'
  <2>1. turn \in Turns /\ round \in Nat
    BY <1>1, ToolLoopAssumption DEF ControlInv, Turns
  <2> QED BY <1>1, <2>1 DEF Ask, TheAsk, RowEntry, Entry
<1> HIDE DEF e
<1>5. /\ u \in Seq(Entry) /\ u # <<>> /\ Len(u) = Len(messages) + 1 /\ Len(messages) \in Nat
      /\ \A i \in 1..Len(messages) : u[i] = messages[i]
      /\ ToSet(u) = ToSet(messages) \cup {e}
  BY <1>3, <1>4, AppendProperties, LenProperties, ToSetAppend
<1>6. ResultsBelong(u) /\ (EarlierMet => RequestsMet(u, Len(messages))) /\ EndsOpen(u, e, 0)
  BY <1>3, <1>4, ShapeAppend
<1> HIDE DEF u
<1>7. u[1] = System
  <2>1. 1 \in 1..Len(messages)
    BY <1>3, EmptySeq, LenProperties
  <2> QED BY <1>3, <1>5, <2>1
<1>8. cut \in 0..Len(u) /\ Len(u) - 0 - 1 = Len(messages)
  BY <1>3, <1>5
<1>9. Told(u) \subseteq Stored \cup {e}
  BY <1>3, <1>5 DEF Told
<1> QED BY <1>1, <1>2, <1>4, <1>5, <1>6, <1>7, <1>8, <1>9 DEF ListInv, Whole, Begun

\* The request in the list is durable now.
LEMMA RequestList ==
  ASSUME ControlInv, RowsInv, ListInv, RequestPersisted
  PROVE  ListInv'
<1>1. /\ phase = "requesting" /\ UNCHANGED <<sent, turn, saved, messages, cut, round, calls, done>>
      /\ phase' \in {"over", "running", "resulting"}
      /\ rows' = [rows EXCEPT ![turn] = Append(@, TheAsk)]
  BY DEF RequestPersisted, PersistNext, StartTools, Stop, Settle, TheAsk
<1>2. Stored \subseteq Stored' /\ (EarlierMet' => EarlierMet) /\ TheAsk \in Stored'
  <2>1. turn \in Turns /\ turn \in 1..sent /\ rows \in [Turns -> Seq(RowEntry)]
        /\ round \in Nat /\ calls \in Seq(Tool)
    BY <1>1, ToolLoopAssumption DEF ControlInv, Turns, RowsInv, RowsTyped
  <2>2. TheAsk \in RowEntry
    BY <2>1 DEF TheAsk, Ask, RowEntry
  <2>3. rows[turn] \in Seq(RowEntry) /\ rows'[turn] = Append(rows[turn], TheAsk)
    BY <1>1, <2>1
  <2>4. TheAsk \in ToSet(rows'[turn])
    BY <2>2, <2>3, ToSetAppend
  <2>5. TheAsk \in Stored'
    BY <1>1, <2>1, <2>4 DEF Stored
  <2>6. [LoopNext]_loopVars
    BY DEF LoopNext
  <2> QED BY <1>1, <2>5, <2>6, StoredGrows
<1>3. /\ SavedTyped' /\ TheAsk' = TheAsk
  BY <1>1 DEF ListInv, SavedTyped, TheAsk
<1>4. Told(messages) \subseteq Stored'
  BY <1>1, <1>2 DEF ListInv, Whole, Begun
<1> QED BY <1>1, <1>2, <1>3, <1>4 DEF ListInv, Whole, Begun

\* A result joins the list and the rows; the last one closes the round.
LEMMA ResultList ==
  ASSUME ControlInv, RowsInv, ListInv, ResultPersisted
  PROVE  ListInv'
<1> DEFINE ask == TheAsk
           e == Result(turn, round, done + 1)
           u == Append(messages, e)
<1>1. /\ phase = "resulting" /\ UNCHANGED <<sent, turn, saved, calls>>
      /\ done \in Nat /\ done < Len(calls) /\ turn \in Turns /\ turn \in 1..sent /\ round \in Nat /\ calls \in Seq(Tool)
      /\ rows \in [Turns -> Seq(RowEntry)]
      /\ done' = done + 1 /\ rows' = [rows EXCEPT ![turn] = Append(@, e)]
  BY ToolLoopAssumption, LenProperties
     DEF ResultPersisted, RowsWith, ControlInv, RowsInv, RowsTyped, Turns, Begun
<1>2. \/ done + 1 = Len(calls) /\ LoopTop(u)
      \/ /\ done + 1 < Len(calls) /\ messages' = u /\ UNCHANGED <<cut, round>>
         /\ phase' \in {"running", "resulting", "over"}
  BY DEF ResultPersisted, PersistNext, StartTools, Stop, Settle
<1>3. /\ ask \in Entry /\ ask.kind = "ask" /\ ask.turn = turn /\ ask.iter = round /\ ask.calls = calls
      /\ e \in RowEntry /\ e \in Entry /\ e = Result(ask.turn, ask.iter, done + 1)
  BY <1>1 DEF TheAsk, Ask, Result, RowEntry, Entry
<1>4. /\ messages \in Seq(Entry) /\ messages # <<>> /\ messages[1] = System /\ ResultsBelong(messages)
      /\ Told(messages) \subseteq Stored /\ cut \in 0..Len(messages)
      /\ EndsOpen(messages, ask, done)
      /\ EarlierMet => RequestsMet(messages, Len(messages) - done - 1)
  BY <1>1 DEF ListInv, Whole, Begun
<1>5. Stored \subseteq Stored' /\ (EarlierMet' => EarlierMet) /\ e \in Stored' /\ SavedTyped'
  <2>1. rows[turn] \in Seq(RowEntry) /\ rows'[turn] = Append(rows[turn], e)
    BY <1>1
  <2> HIDE DEF e
  <2>2. e \in ToSet(rows'[turn])
    BY <1>3, <2>1, ToSetAppend
  <2>3. e \in Stored'
    BY <1>1, <2>2 DEF Stored
  <2>4. SavedTyped'
    BY <1>1 DEF ListInv, SavedTyped
  <2>5. [LoopNext]_loopVars
    BY DEF LoopNext
  <2> QED BY <1>1, <2>3, <2>4, <2>5, StoredGrows
<1>6. /\ EndsOpen(u, ask, done + 1) /\ u \in Seq(Entry) /\ ResultsBelong(u)
      /\ EarlierMet => RequestsMet(u, Len(u) - (done + 1) - 1)
  <2> HIDE DEF ask
  <2> QED BY <1>1, <1>3, <1>4, OpenAppend
<1> HIDE DEF e
<1>7. /\ u # <<>> /\ Len(u) = Len(messages) + 1 /\ Len(messages) \in Nat
      /\ \A i \in 1..Len(messages) : u[i] = messages[i]
      /\ ToSet(u) = ToSet(messages) \cup {e}
  BY <1>3, <1>4, AppendProperties, LenProperties, ToSetAppend
<1> HIDE DEF u
<1>8. u[1] = System
  <2>1. 1 \in 1..Len(messages)
    BY <1>4, EmptySeq, LenProperties
  <2> QED BY <1>4, <1>7, <2>1
<1>9. Told(u) \subseteq Stored'
  BY <1>4, <1>5, <1>7 DEF Told
<1>10. CASE done + 1 = Len(calls) /\ LoopTop(u)
  <2>1. EarlierMet' => AllMet(u)
    <3> HIDE DEF ask
    <3> QED BY <1>3, <1>5, <1>6, <1>10, OpenClose
  <2> QED BY <1>5, <1>6, <1>7, <1>8, <1>9, <1>10, <2>1, TopList
<1>11. CASE /\ done + 1 < Len(calls) /\ messages' = u /\ UNCHANGED <<cut, round>>
            /\ phase' \in {"running", "resulting", "over"}
  <2>1. TheAsk' = ask
    BY <1>1, <1>11 DEF TheAsk
  <2>2. cut \in 0..Len(u)
    BY <1>4, <1>7
  <2> HIDE DEF ask
  <2> QED BY <1>1, <1>5, <1>6, <1>7, <1>8, <1>9, <1>11, <2>1, <2>2 DEF ListInv, Whole, Begun
<1> QED BY <1>2, <1>10, <1>11

\* The steps that leave the list alone.
LEMMA QuietList ==
  ASSUME ControlInv, RowsInv, ListInv, [LoopNext]_loopVars,
         ~StartTurn, ~Summarized, ~CompactionRecorded, ~SplitSummarized, ~RequestPersisted, ~ResultPersisted,
         ~(\E cs \in BoundedSeq(Tool, MaxCalls) \ {<<>>}, cutShort \in BOOLEAN : StreamAsks(cs, cutShort))
  PROVE  ListInv'
<1>1. \/ UNCHANGED <<messages, cut, saved, phase, turn, round, calls, done>>
      \/ UNCHANGED <<messages, cut, saved>> /\ phase # "idle" /\ phase' = "over"
      \/ /\ UNCHANGED <<messages, cut, saved, turn, round, calls, done>>
         /\ phase = "running" /\ phase' \in {"running", "resulting"}
      \/ TurnEnds
  <2> USE DEF bodyVars
  <2>1. CASE UNCHANGED loopVars \/ LoopEnded \/ UserSends \/ DeadlinePasses \/ Backstop
    BY <2>1 DEF LoopEnded, loopVars, UserSends, DeadlinePasses, Backstop
  <2>2. CASE StreamText \/ StreamFails \/ Answered \/ PersistFails
    BY <2>2 DEF StreamText, StreamFails, Answered, PersistFails, Settle
  <2>3. ASSUME NEW k, ToolReturns(k)
        PROVE  /\ UNCHANGED <<messages, cut, saved, turn, round, calls, done>>
               /\ phase = "running" /\ phase' \in {"running", "resulting", "over"}
    BY <2>3 DEF ToolReturns, PersistNext, Stop, Settle
  <2>4. CASE \E k : ToolReturns(k)
    BY <2>3, <2>4
  <2> QED BY <2>1, <2>2, <2>4 DEF LoopNext
<1>2. CASE TurnEnds
  <2>1. messages' = <<>> /\ cut' = 0 /\ phase' = "idle" /\ saved' = saved
    BY <1>2 DEF TurnEnds
  <2>2. messages' \in Seq(Entry) /\ 0 \in 0..Len(messages')
    BY <2>1
  <2> QED BY <2>1, <2>2 DEF ListInv, SavedTyped, Whole, Begun
<1>3. CASE UNCHANGED <<messages, cut, saved>> /\ phase # "idle" /\ phase' = "over"
  BY <1>3 DEF ListInv, SavedTyped, Whole, Begun
<1>4. CASE /\ UNCHANGED <<messages, cut, saved, turn, round, calls, done>>
           /\ phase' = phase \/ (phase = "running" /\ phase' \in {"running", "resulting"})
  <2>1. CASE phase \in {"idle", "over"}
    BY <1>4, <2>1 DEF ListInv, SavedTyped, Whole, Begun
  <2>2. CASE phase \notin {"idle", "over"}
    <3>1. Stored \subseteq Stored' /\ (EarlierMet' => EarlierMet) /\ TheAsk' = TheAsk
      BY <1>4, <2>2, StoredGrows DEF TheAsk
    <3>2. SavedTyped' /\ (phase \in {"compacting", "recording"} => CompactionTold')
      BY <1>4, <3>1 DEF ListInv, SavedTyped, CompactionTold
    <3> QED BY <1>4, <2>2, <3>1, <3>2 DEF ListInv, Whole, Begun
  <2> QED BY <2>1, <2>2
<1> QED BY <1>1, <1>2, <1>3, <1>4

\* Every step keeps it.
LEMMA ListStep == ControlInv /\ RowsInv /\ ListInv /\ [LoopNext]_loopVars => ListInv'
<1> SUFFICES ASSUME ControlInv, RowsInv, ListInv, [LoopNext]_loopVars
             PROVE  ListInv'
  OBVIOUS
<1>1. ASSUME NEW cs \in BoundedSeq(Tool, MaxCalls) \ {<<>>}, NEW cutShort \in BOOLEAN, StreamAsks(cs, cutShort)
      PROVE  ListInv'
  BY <1>1, CallsSeq, StreamAsksList
<1> QED BY <1>1, StartTurnList, SummarizedList, RecordedList, SplitSummarizedList, RequestList, ResultList, QuietList

\* It holds throughout.
LEMMA ListHolds == LoopSpec => []ListInv
  BY ControlHolds, RowsHold, ListInit, ListStep, PTL DEF LoopSpec

\* The list the model is sent is in the shape it accepts, as long as no
\* earlier turn has failed with a request open.
THEOREM ListsAreInShape == LoopSpec => []SentClosed
<1>1. ControlInv /\ RowsInv /\ ListInv => SentClosed
  <2> SUFFICES ASSUME ControlInv, RowsInv, ListInv, phase \in SendsList, \A t \in 1..(turn - 1) : Closed(rows[t])
               PROVE  Closed(messages)
    BY DEF SentClosed
  <2>1. phase \in Whole /\ messages \in Seq(Entry) /\ ResultsBelong(messages)
    BY DEF ListInv, SendsList, Whole
  <2>2. ASSUME NEW t \in 1..turn - 1
        PROVE  AllMet(rows[t])
    <3>1. t \in Turns
      BY ToolLoopAssumption DEF ControlInv, Turns
    <3>2. rows[t] \in Seq(Entry) /\ ResultsBelong(rows[t])
      BY <3>1, RowsEntries DEF RowsInv, RowsTyped, RowKept
    <3> QED BY <3>2, ClosedIff
  <2>3. AllMet(messages)
    BY <2>1, <2>2 DEF ListInv, EarlierMet
  <2> QED BY <2>1, <2>3, ClosedIff
<1> QED BY <1>1, ControlHolds, RowsHold, ListHolds, PTL

\* Every exchange the model is told of is durable.
THEOREM SeenIsStored == LoopSpec => []SeenIsDurable
<1>1. ControlInv /\ RowsInv /\ ListInv => SeenIsDurable
  <2> SUFFICES ASSUME ControlInv, RowsInv, ListInv, phase \in AwaitsLlm
               PROVE  Told(messages) \subseteq ToSet(History)
    BY DEF SeenIsDurable, Told
  <2>1. phase \in Whole /\ phase # "requesting" /\ phase # "idle"
    BY DEF AwaitsLlm, Whole
  <2>2. Told(messages) \subseteq Stored
    BY <2>1 DEF ListInv
  <2>3. RowsTyped /\ sent > 0
    BY <2>1, ToolLoopAssumption DEF RowsInv, ControlInv
  <2> QED BY <2>2, <2>3, HistoryRows DEF Stored
<1> QED BY <1>1, ControlHolds, RowsHold, ListHolds, PTL

\* The loop keeps its types.
THEOREM LoopIsTyped == LoopSpec => []LoopTypeOK
<1>1. ControlInv /\ RowsInv /\ ListInv => LoopTypeOK
  <2> SUFFICES ASSUME ControlInv, RowsInv, ListInv
               PROVE  LoopTypeOK
    OBVIOUS
  <2>1. ASSUME NEW t \in 1..MaxTurns
        PROVE  rows[t] # <<>> <=> t <= sent
    <3>1. t \in Nat /\ sent \in Nat /\ t \in Turns
      BY ToolLoopAssumption DEF ControlInv, Turns
    <3>2. t > sent \/ t <= sent
      BY <3>1
    <3>3. ~(t > sent /\ t <= sent)
      BY <3>1
    <3> QED BY <3>1, <3>2, <3>3 DEF RowsInv, RowKept
  <2> QED BY <2>1 DEF LoopTypeOK, ControlInv, ListInv
<1> QED BY <1>1, ControlHolds, RowsHold, ListHolds, PTL

-----------------------------------------------------------------------------
(* What a compacted list still stands for. *)

\* The rows of this turn and of the earlier ones are in a list, or in a
\* summary of it.
Covers(list) == \A t \in 1..turn : ToSet(rows[t]) \subseteq Covered(list)

\* The history a compaction is under way for holds them as themselves.
HistoryHeld ==
  LET x == Tail(messages)
  IN  /\ compacts /\ Ordered(x) /\ ToSet(x) \subseteq Stored
      /\ \A t \in 1..turn : ToSet(rows[t]) \subseteq ToSet(x)

\* The saved boundary and what its summary was made of.
SavedCovers ==
  /\ saved.first \in 0..turn
  /\ \A t \in 1..saved.first - 1 : ToSet(rows[t]) \subseteq saved.of

RemembersInv ==
  /\ SavedCovers
  /\ phase \in {"compacting", "recording"} => HistoryHeld
  /\ compacts /\ phase \notin {"idle", "over"} => Covers(messages)

\* It holds before the first message.
LEMMA RemembersInit == LoopInit => RemembersInv
<1> SUFFICES ASSUME LoopInit
             PROVE  RemembersInv
  OBVIOUS
<1>1. saved = [first |-> 0, of |-> {}] /\ turn = 0 /\ phase = "idle"
  BY DEF LoopInit
<1>2. saved.first = 0 /\ \A t \in 1..saved.first - 1 : FALSE
  BY <1>1
<1> QED BY <1>1, <1>2 DEF RemembersInv, SavedCovers

\* A row's turn is where it is stored.
LEMMA StoredWhere ==
  ASSUME ControlInv, RowsInv, NEW r \in Stored
  PROVE  r \in RowEntry /\ r.turn \in 1..sent /\ r \in ToSet(rows[r.turn])
<1>1. PICK t \in 1..sent : r \in ToSet(rows[t])
  BY DEF Stored
<1>2. t \in Turns
  BY ToolLoopAssumption DEF ControlInv, Turns
<1>3. rows[t] \in Seq(RowEntry) /\ OfTurn(rows[t], t)
  BY <1>2 DEF RowsInv, RowsTyped, RowKept
<1>4. PICK i \in DOMAIN rows[t] : r = rows[t][i]
  BY <1>1 DEF ToSet
<1>5. r \in RowEntry
  BY <1>3, <1>4, ElementOfSeq, LenProperties
<1>6. r.turn = t
  BY <1>3, <1>4 DEF OfTurn
<1> QED BY <1>1, <1>5, <1>6

\* What stands ahead of the span went into the saved summary.
LEMMA AheadOfSpan ==
  ASSUME ControlInv, RowsInv, SavedTyped, SavedCovers,
         NEW x \in Seq(RowEntry), Ordered(x), ToSet(x) \subseteq Stored,
         NEW i \in DOMAIN x, i < SpanStart(x)
  PROVE  x[i] \in saved.of
<1> DEFINE at == {j \in DOMAIN x : saved.first > 0 /\ x[j] = User(saved.first)}
           s == SpanStart(x)
<1>1. Len(x) \in Nat /\ DOMAIN x = 1..Len(x) /\ at \in SUBSET (1..Len(x))
  BY LenProperties
<1>2. CASE at = {}
  <2>1. s = 1
    BY <1>2 DEF SpanStart
  <2> QED BY <1>1, <2>1
<1>3. CASE at # {}
  <2>1. LastOf(at) \in at
    <3> HIDE DEF at
    <3> QED BY <1>1, <1>3, LastOfProperties
  <2>2. s = LastOf(at)
    BY <1>3 DEF SpanStart
  <2>3. s \in DOMAIN x /\ x[s] = User(saved.first) /\ i < s
    BY <2>1, <2>2
  <2>4. x[s].kind = "user" /\ x[s].turn = saved.first
    BY <2>3 DEF User
  <2> HIDE DEF at, s
  <2>5. x[i].turn < saved.first
    BY <2>3, <2>4 DEF Ordered
  <2>6. x[i] \in Stored
    BY DEF ToSet
  <2>7. x[i].turn \in 1..sent /\ x[i] \in ToSet(rows[x[i].turn])
    BY <2>6, StoredWhere
  <2>8. saved.first \in Nat /\ sent \in Nat
    BY ToolLoopAssumption DEF SavedTyped, ControlInv
  <2> DEFINE t == x[i].turn
  <2>9. t \in 1..saved.first - 1 /\ x[i] \in ToSet(rows[t])
    <3>1. t < saved.first /\ t \in 1..sent
      BY <2>5, <2>7
    <3> HIDE DEF t
    <3>2. t \in 1..saved.first - 1
      BY <2>8, <3>1
    <3> QED BY <2>7, <3>2 DEF t
  <2> HIDE DEF t
  <2> QED BY <2>9 DEF SavedCovers
<1> QED BY <1>2, <1>3

\* Rows covered stay covered as the list grows.
LEMMA CoversMore ==
  ASSUME rows' = rows, turn' = turn, NEW list, Covered(list) \subseteq Covered(messages'), Covers(list)
  PROVE  Covers(messages)'
BY DEF Covers, Covered

\* A top of the loop goes on with a list that covers the rows.
LEMMA TopRemembers ==
  ASSUME NEW list, LoopTop(list), SavedCovers', compacts' => \A t \in 1..turn' : ToSet(rows'[t]) \subseteq Covered(list)
  PROVE  RemembersInv'
<1>1. messages' = list /\ phase' \in {"over", "answering", "streaming", "splitting"}
  BY TopLeads
<1> QED BY <1>1 DEF RemembersInv, Covers, Covered

\* A whole history covers its rows.
LEMMA StartTurnRemembers ==
  ASSUME ControlInv, RowsInv, ListInv, RemembersInv, StartTurn
  PROVE  RemembersInv'
<1> DEFINE x == History
           u == <<System>> \o x
<1>1. /\ x \in Seq(RowEntry) /\ Stored' = Stored /\ sent' = sent /\ rows' = rows /\ turn' = turn + 1
  BY HistoryTold
<1>2. turn \in Nat /\ sent \in Nat /\ turn < sent /\ sent \in 0..MaxTurns /\ saved' = saved /\ compacts' = compacts
  BY ToolLoopAssumption DEF ControlInv, StartTurn
<1>3. ToSet(x) = Stored /\ Ordered(x)
  <2>1. RowsTyped /\ sent > 0
    BY <1>2 DEF RowsInv
  <2>2. \A t \in 1..sent : OfTurn(rows[t], t)
    <3>1. \A t \in 1..sent : t \in Turns
      BY <1>2, ToolLoopAssumption DEF Turns
    <3> QED BY <3>1 DEF RowsInv, RowKept
  <2> QED BY <2>1, <2>2, HistoryRows, HistoryOrdered DEF Stored
<1>4. \A t \in 1..turn' : ToSet(rows'[t]) \subseteq ToSet(x)
  <2>1. \A t \in 1..turn' : t \in 1..sent
    BY <1>1, <1>2
  <2> QED BY <1>1, <1>3, <2>1 DEF Stored
<1>5. SavedCovers'
  <2>1. saved.first \in 0..turn'
    BY <1>1, <1>2 DEF RemembersInv, SavedCovers
  <2> QED BY <1>1, <1>2, <2>1 DEF RemembersInv, SavedCovers
<1> HIDE DEF x
<1>6. Tail(u) = x /\ ToSet(x) \subseteq Covered(u)
  BY <1>1, Headed
<1>7. \A t \in 1..turn' : ToSet(rows'[t]) \subseteq Covered(u)
  BY <1>4, <1>6
<1>8. CASE LoopTop(u)
  <2> HIDE DEF u
  <2> QED BY <1>5, <1>7, <1>8, TopRemembers
<1>9. CASE ~compacts /\ \E list : LoopTop(list)
  BY <1>2, <1>5, <1>9, TopRemembers
<1>10. CASE compacts /\ messages' = u /\ phase' = "compacting"
  <2> HIDE DEF u
  <2>1. HistoryHeld'
    <3>1. Tail(messages') = x /\ Ordered(x) /\ ToSet(x) \subseteq Stored' /\ compacts'
      BY <1>1, <1>2, <1>3, <1>6, <1>10
    <3> QED BY <1>4, <3>1 DEF HistoryHeld, Ordered, ToSet
  <2>2. Covers(messages)'
    BY <1>7, <1>10 DEF Covers, Covered
  <2> QED BY <1>5, <1>10, <2>1, <2>2 DEF RemembersInv
<1> QED BY <1>8, <1>9, <1>10 DEF StartTurn, x

\* A failed summary leaves the history as it is.
LEMMA SummarizedRemembers ==
  ASSUME ControlInv, RowsInv, ListInv, RemembersInv, Summarized
  PROVE  RemembersInv'
<1>1. /\ phase = "compacting" /\ UNCHANGED <<rows, sent, turn, saved, compacts>>
      /\ \/ phase' = "recording" /\ UNCHANGED <<messages, cut>>
         \/ LoopTop(messages)
  BY DEF Summarized
<1>2. SavedCovers' /\ Stored' = Stored
  BY <1>1 DEF RemembersInv, SavedCovers, Stored
<1>3. HistoryHeld /\ Covers(messages)
  BY <1>1 DEF RemembersInv, HistoryHeld
<1>4. CASE phase' = "recording" /\ UNCHANGED <<messages, cut>>
  <2>1. HistoryHeld' /\ Covers(messages)'
    BY <1>1, <1>2, <1>3, <1>4 DEF HistoryHeld, Covers
  <2> QED BY <1>2, <1>4, <2>1 DEF RemembersInv
<1>5. CASE LoopTop(messages)
  <2>1. \A t \in 1..turn' : ToSet(rows'[t]) \subseteq Covered(messages)
    BY <1>1, <1>3 DEF Covers
  <2> QED BY <1>2, <1>5, <2>1, TopRemembers
<1> QED BY <1>1, <1>4, <1>5

\* Where the newest user row is that of the turn the compaction runs for.
LEMMA RecordedRemembers ==
  ASSUME ControlInv, RowsInv, ListInv, RemembersInv, TurnNotCutInto, CompactionRecorded
  PROVE  RemembersInv'
<1> DEFINE x == Tail(messages)
           u == Compacted(x, cut)
           of == PreTurnSummary(x, cut)
<1>1. /\ phase = "recording" /\ UNCHANGED <<rows, sent, turn>> /\ LoopTop(u)
      /\ saved' = saved \/ saved' = [first |-> x[cut].turn, of |-> of]
  BY DEF CompactionRecorded
<1>2. /\ SavedTyped /\ x \in Seq(RowEntry) /\ cut \in DOMAIN x /\ x[cut].kind = "user"
      /\ SavedCovers /\ Ordered(x) /\ ToSet(x) \subseteq Stored
      /\ \A t \in 1..turn : ToSet(rows[t]) \subseteq ToSet(x)
  BY <1>1 DEF ListInv, CompactionTold, RemembersInv, HistoryHeld
<1>3. User(turn) \notin ToSet(SubSeq(x, 1, cut - 1))
  BY <1>1 DEF TurnNotCutInto
<1> HIDE DEF x
<1>4. /\ of = saved.of \cup {x[i] : i \in SpanStart(x)..cut - 1}
      /\ of \cup {x[i] : i \in cut..Len(x)} \subseteq Covered(u)
  BY <1>2, CompactedList
<1>5. /\ Len(x) \in Nat /\ DOMAIN x = 1..Len(x) /\ cut \in 1..Len(x) /\ x # <<>>
      /\ SpanStart(x) \in 1..Len(x) /\ \A i \in 1..Len(x) : x[i] \in RowEntry /\ x[i].turn \in Nat
  <2>1. Len(x) \in Nat /\ DOMAIN x = 1..Len(x) /\ cut \in 1..Len(x) /\ x # <<>>
    BY <1>2, LenProperties, EmptySeq
  <2>2. SpanStart(x) \in 1..Len(x)
    BY <1>2, <2>1, SpanStarts
  <2>3. \A i \in 1..Len(x) : x[i] \in RowEntry
    BY <1>2, ElementOfSeq
  <2>4. \A r \in RowEntry : r.turn \in Turns
    BY DEF RowEntry
  <2>5. \A t \in Turns : t \in Nat
    BY ToolLoopAssumption DEF Turns
  <2> QED BY <2>1, <2>2, <2>3, <2>4, <2>5
<1>6. ASSUME NEW i \in 1..Len(x)
      PROVE  x[i] \in Covered(u) /\ (i < cut => x[i] \in of)
  <2>1. i < SpanStart(x) \/ i \in SpanStart(x)..cut - 1 \/ i \in cut..Len(x)
    BY <1>5
  <2>2. CASE i < SpanStart(x)
    <3>1. x[i] \in saved.of
      BY <1>2, <1>5, <2>2, AheadOfSpan
    <3> QED BY <3>1, <1>4
  <2>3. CASE i \in SpanStart(x)..cut - 1
    BY <2>3, <1>4
  <2>4. CASE i \in cut..Len(x) /\ ~(i < cut)
    BY <2>4, <1>4
  <2>5. i \in cut..Len(x) => ~(i < cut)
    BY <1>5
  <2> QED BY <2>1, <2>2, <2>3, <2>4, <2>5
<1> HIDE DEF of, u
<1>7. \A t \in 1..turn' : ToSet(rows'[t]) \subseteq Covered(u)
  <2>1. ToSet(x) \subseteq Covered(u)
    BY <1>5, <1>6 DEF ToSet
  <2> QED BY <1>1, <1>2, <2>1
<1>8. turn \in Turns /\ turn \in 1..turn /\ turn \in Nat
  BY <1>1, ToolLoopAssumption DEF ControlInv, Turns
\* The boundary is no later than this turn's own user row.
<1>9. x[cut].turn \in 0..turn
  <2>1. User(turn) \in ToSet(rows[turn])
    <3>1. rows[turn] \in Seq(RowEntry) /\ rows[turn] # <<>> /\ rows[turn][1] = User(turn)
      BY <1>8 DEF RowsInv, RowsTyped, RowKept, ControlInv
    <3>2. 1 \in DOMAIN rows[turn]
      BY <3>1, EmptySeq, LenProperties
    <3> QED BY <3>1, <3>2 DEF ToSet
  <2>2. PICK p \in 1..Len(x) : x[p] = User(turn)
    BY <1>2, <1>5, <1>8, <2>1 DEF ToSet
  <2>3. ToSet(SubSeq(x, 1, cut - 1)) = {x[i] : i \in 1..cut - 1}
    <3>1. 1 \in 1..Len(x) /\ cut - 1 \in 0..Len(x)
      BY <1>5
    <3> QED BY <1>2, <3>1, Span
  <2>4. ~(p \in 1..cut - 1)
    BY <1>3, <2>2, <2>3
  <2>5. p = cut \/ cut < p
    BY <1>5, <2>4
  <2>6. x[p].turn = turn /\ x[p].kind = "user"
    BY <2>2 DEF User
  <2>7. x[cut].turn <= turn
    BY <1>2, <1>5, <1>8, <2>5, <2>6 DEF Ordered
  <2>8. x[cut].turn \in Nat
    BY <1>5
  <2> QED BY <1>8, <2>7, <2>8
<1>10. ASSUME NEW t \in 1..x[cut].turn - 1
       PROVE  ToSet(rows[t]) \subseteq of
  <2>0. x[cut].turn \in Nat
    BY <1>5
  <2>1. t \in 1..turn /\ t \in Turns /\ t < x[cut].turn
    <3> DEFINE n == x[cut].turn
    <3>1. n \in 0..turn /\ t \in 1..n - 1 /\ turn \in 1..MaxTurns /\ MaxTurns \in Nat
      BY <1>8, <1>9, ToolLoopAssumption DEF Turns
    <3> HIDE DEF n
    <3>2. t \in 1..turn /\ t \in 1..MaxTurns /\ t < n
      BY <3>1
    <3> QED BY <3>2 DEF Turns, n
  <2>2. ASSUME NEW r \in ToSet(rows[t])
        PROVE  r \in of
    <3>1. PICK i \in 1..Len(x) : x[i] = r
      BY <1>2, <1>5, <2>1 DEF ToSet
    <3>2. r.turn = t
      BY <2>1 DEF RowsInv, RowKept, OfTurn, ToSet
    <3>3. ~(cut <= i)
      <4>1. CASE cut = i
        BY <2>1, <3>1, <3>2, <2>0, <4>1
      <4>2. CASE cut < i
        <5>1. x[cut].turn <= x[i].turn
          BY <1>2, <1>5, <4>2 DEF Ordered
        <5>2. x[cut].turn <= t /\ t < x[cut].turn
          BY <2>1, <3>1, <3>2, <5>1
        <5>3. t \in Nat
          BY <1>8, <2>1
        <5> QED BY <2>0, <5>2, <5>3
      <4> QED BY <1>5, <4>1, <4>2
    <3>4. i < cut
      BY <1>5, <3>3
    <3> QED BY <1>6, <3>1, <3>4
  <2> QED BY <2>2
<1>11. SavedCovers'
  <2>1. CASE saved' = saved
    BY <1>1, <1>2, <2>1 DEF SavedCovers
  <2>2. CASE saved' = [first |-> x[cut].turn, of |-> of]
    BY <1>1, <1>9, <1>10, <2>2 DEF SavedCovers
  <2> QED BY <1>1, <2>1, <2>2 DEF x
<1> QED BY <1>1, <1>7, <1>11, TopRemembers DEF u, x

\* A split at the head summarizes all it drops.
LEMMA SplitRemembers ==
  ASSUME ControlInv, RowsInv, ListInv, RemembersInv, SplitAtHead, SplitSummarized
  PROVE  RemembersInv'
<1> DEFINE u == Split(messages, cut)
<1>1. /\ phase = "splitting" /\ phase' = "streaming" /\ UNCHANGED <<rows, sent, turn, saved, compacts>>
      /\ messages' = u \/ messages' = messages
  BY DEF SplitSummarized
<1>2. messages \in Seq(Entry) /\ messages[1] = System /\ SplitTold(messages, cut)
  BY <1>1 DEF ListInv
<1>3. Covered(messages) \subseteq Covered(u)
  BY <1>1, <1>2, SplitList DEF SplitAtHead
<1> HIDE DEF u
<1>4. Covered(messages) \subseteq Covered(messages')
  BY <1>1, <1>3
<1>5. SavedCovers' /\ (compacts => Covers(messages)')
  BY <1>1, <1>4 DEF RemembersInv, SavedCovers, Covers, Covered
<1> QED BY <1>1, <1>5 DEF RemembersInv

\* One entry more is one more that is covered.
LEMMA CoveredAppend ==
  ASSUME NEW s \in Seq(Entry), NEW e \in RowEntry
  PROVE  Covered(s) \cup {e} \subseteq Covered(Append(s, e))
<1>1. ToSet(Append(s, e)) = ToSet(s) \cup {e}
  <2>1. e \in Entry
    BY DEF Entry
  <2> QED BY <2>1, ToSetAppend
<1>2. e.kind # "summary"
  BY DEF RowEntry
<1> QED BY <1>1, <1>2 DEF Covered

\* A request more covers what was covered.
LEMMA StreamAsksRemembers ==
  ASSUME ControlInv, RowsInv, ListInv, RemembersInv, NEW cs \in Seq(Tool), NEW cutShort, StreamAsks(cs, cutShort)
  PROVE  RemembersInv'
<1> DEFINE e == Ask(turn, round, cs)
<1>1. /\ phase = "streaming" /\ UNCHANGED <<rows, sent, turn, saved, compacts>>
      /\ messages' = Append(messages, e) /\ phase' \in {"over", "requesting"}
  BY DEF StreamAsks, Stop, Settle
<1>2. e \in RowEntry /\ messages \in Seq(Entry)
  <2>1. turn \in Turns /\ round \in Nat
    BY <1>1, ToolLoopAssumption DEF ControlInv, Turns
  <2> QED BY <2>1 DEF Ask, RowEntry, ListInv
<1> HIDE DEF e
<1>3. Covered(messages) \subseteq Covered(messages')
  BY <1>1, <1>2, CoveredAppend
<1>4. SavedCovers' /\ (compacts => Covers(messages)')
  BY <1>1, <1>3 DEF RemembersInv, SavedCovers, Covers, Covered
<1> QED BY <1>1, <1>4 DEF RemembersInv

\* A row of the open turn stored, that the list has as well.
LEMMA StoredRemembers ==
  ASSUME ControlInv, RowsInv, ListInv, RemembersInv, phase \in Begun, NEW e \in RowEntry,
         rows' = [rows EXCEPT ![turn] = Append(@, e)], UNCHANGED <<sent, turn, saved, compacts>>,
         NEW list, Covered(messages) \cup {e} \subseteq Covered(list)
  PROVE  SavedCovers' /\ (compacts' => \A t \in 1..turn' : ToSet(rows'[t]) \subseteq Covered(list))
<1>1. turn \in Turns /\ turn \in Nat /\ rows \in [Turns -> Seq(RowEntry)] /\ \A t \in 1..turn : t \in Turns
  BY ToolLoopAssumption DEF ControlInv, RowsInv, RowsTyped, Turns, Begun
<1>2. \A t \in Turns : t # turn => rows'[t] = rows[t]
  BY <1>1
<1>3. ToSet(rows'[turn]) = ToSet(rows[turn]) \cup {e}
  <2>1. rows[turn] \in Seq(RowEntry) /\ rows'[turn] = Append(rows[turn], e)
    BY <1>1
  <2> QED BY <2>1, ToSetAppend
<1>4. ASSUME compacts'
      PROVE  \A t \in 1..turn' : ToSet(rows'[t]) \subseteq Covered(list)
  <2>1. Covers(messages)
    BY <1>4 DEF RemembersInv, Begun
  <2> QED BY <1>1, <1>2, <1>3, <2>1 DEF Covers
<1>5. SavedCovers'
  <2>1. SavedCovers /\ saved' = saved /\ turn' = turn
    BY DEF RemembersInv
  <2> DEFINE f == saved.first
  <2>2. f \in 0..turn /\ \A t \in 1..f - 1 : ToSet(rows[t]) \subseteq saved.of
    BY <2>1 DEF SavedCovers
  <2> HIDE DEF f
  <2>3. \A t \in 1..f - 1 : t \in 1..turn /\ t # turn
    BY <1>1, <2>2
  <2>4. \A t \in 1..f - 1 : rows'[t] = rows[t]
    BY <1>1, <1>2, <2>3
  <2> QED BY <2>1, <2>2, <2>4 DEF SavedCovers, f
<1> QED BY <1>4, <1>5

\* The request stored is in the list.
LEMMA RequestRemembers ==
  ASSUME ControlInv, RowsInv, ListInv, RemembersInv, RequestPersisted
  PROVE  RemembersInv'
<1>1. /\ phase = "requesting" /\ UNCHANGED <<sent, turn, saved, messages, compacts>> /\ done = 0
      /\ phase' \in {"over", "running", "resulting"}
      /\ rows' = [rows EXCEPT ![turn] = Append(@, TheAsk)]
  BY DEF RequestPersisted, PersistNext, StartTools, Stop, Settle, TheAsk, ControlInv
<1>2. TheAsk \in RowEntry
  <2>1. turn \in Turns /\ round \in Nat /\ calls \in Seq(Tool)
    BY <1>1, ToolLoopAssumption DEF ControlInv, Turns
  <2> QED BY <2>1 DEF TheAsk, Ask, RowEntry
<1>3. TheAsk \in Covered(messages)
  <2>1. messages \in Seq(Entry) /\ EndsOpen(messages, TheAsk, 0)
    BY <1>1 DEF ListInv, Begun
  <2>2. TheAsk \in ToSet(messages)
    BY <2>1 DEF EndsOpen, ToSet
  <2> QED BY <1>2, <2>1, <2>2, CoveredRows
<1>4. SavedCovers' /\ (compacts' => \A t \in 1..turn' : ToSet(rows'[t]) \subseteq Covered(messages))
  <2>1. phase \in Begun /\ Covered(messages) \cup {TheAsk} \subseteq Covered(messages)
    BY <1>1, <1>3 DEF Begun
  <2> QED BY <1>1, <1>2, <2>1, StoredRemembers
<1> QED BY <1>1, <1>4 DEF RemembersInv, Covers, Covered

\* The result stored joins the list.
LEMMA ResultRemembers ==
  ASSUME ControlInv, RowsInv, ListInv, RemembersInv, ResultPersisted
  PROVE  RemembersInv'
<1> DEFINE e == Result(turn, round, done + 1)
           u == Append(messages, e)
<1>1. /\ phase = "resulting" /\ UNCHANGED <<sent, turn, saved, compacts>>
      /\ rows' = [rows EXCEPT ![turn] = Append(@, e)]
  BY DEF ResultPersisted, RowsWith
<1>2. \/ LoopTop(u)
      \/ messages' = u /\ phase' \in {"running", "resulting", "over"}
  BY DEF ResultPersisted, PersistNext, StartTools, Stop, Settle
<1>3. e \in RowEntry /\ messages \in Seq(Entry)
  <2>1. turn \in Turns /\ round \in Nat /\ done + 1 \in Nat
    BY <1>1, ToolLoopAssumption, LenProperties DEF ControlInv, Turns
  <2> QED BY <2>1 DEF Result, RowEntry, ListInv
<1> HIDE DEF e
<1>4. Covered(messages) \cup {e} \subseteq Covered(u)
  BY <1>3, CoveredAppend
<1> HIDE DEF u
<1>5. SavedCovers' /\ (compacts' => \A t \in 1..turn' : ToSet(rows'[t]) \subseteq Covered(u))
  <2>1. phase \in Begun
    BY <1>1 DEF Begun
  <2> QED BY <1>1, <1>3, <1>4, <2>1, StoredRemembers
<1>6. CASE LoopTop(u)
  BY <1>5, <1>6, TopRemembers
<1>7. CASE messages' = u /\ phase' \in {"running", "resulting", "over"}
  BY <1>5, <1>7 DEF RemembersInv, Covers, Covered
<1> QED BY <1>2, <1>6, <1>7

\* The steps that leave the list alone.
LEMMA QuietRemembers ==
  ASSUME ControlInv, RowsInv, ListInv, RemembersInv, [LoopNext]_loopVars,
         ~StartTurn, ~Summarized, ~CompactionRecorded, ~SplitSummarized, ~RequestPersisted, ~ResultPersisted,
         ~(\E cs \in BoundedSeq(Tool, MaxCalls) \ {<<>>}, cutShort \in BOOLEAN : StreamAsks(cs, cutShort))
  PROVE  RemembersInv'
<1> USE DEF bodyVars
<1>1. CASE TurnEnds
  <2>1. phase' = "idle" /\ saved' = saved /\ turn' = turn
        /\ (rows' = rows \/ rows' = [rows EXCEPT ![turn] = Append(@, Reply(turn))])
    BY <1>1 DEF TurnEnds
  <2>2. SavedCovers'
    <3>1. /\ turn \in Nat /\ rows \in [Turns -> Seq(RowEntry)] /\ saved.first \in 0..turn
          /\ \A t \in 1..turn : t \in Turns
      BY ToolLoopAssumption DEF ControlInv, RowsInv, RowsTyped, Turns, RemembersInv, SavedCovers
    <3>2. \A t \in 1..saved.first - 1 : t \in Turns /\ t # turn
      BY <3>1
    <3>3. \A t \in 1..saved.first - 1 : rows'[t] = rows[t]
      BY <2>1, <3>1, <3>2
    <3> QED BY <2>1, <3>3 DEF RemembersInv, SavedCovers
  <2> QED BY <2>1, <2>2 DEF RemembersInv
<1>2. CASE UserSends
  <2>1. UNCHANGED <<turn, saved, phase, messages, cut, compacts>> /\ rows' = [rows EXCEPT ![sent + 1] = <<User(sent + 1)>>]
    BY <1>2 DEF UserSends
  <2>2. turn \in Nat /\ sent \in Nat /\ turn <= sent /\ rows \in [Turns -> Seq(RowEntry)]
        /\ (\A t \in 1..turn : t \in Turns /\ t # sent + 1) /\ saved.first \in 0..turn
    BY ToolLoopAssumption DEF ControlInv, RowsInv, RowsTyped, Turns, RemembersInv, SavedCovers
  <2>3. \A t \in 1..turn : rows'[t] = rows[t]
    BY <2>1, <2>2
  <2>4. \A t \in 1..saved.first - 1 : t \in 1..turn
    BY <2>2
  <2>5. SavedCovers'
    BY <2>1, <2>3, <2>4 DEF RemembersInv, SavedCovers
  <2>6. phase \in {"compacting", "recording"} => HistoryHeld'
    <3>1. ASSUME phase \in {"compacting", "recording"}
          PROVE  Stored \subseteq Stored'
      BY <3>1, StoredGrows
    <3> QED BY <2>1, <2>3, <3>1 DEF RemembersInv, HistoryHeld
  <2>7. compacts /\ phase \notin {"idle", "over"} => Covers(messages)'
    BY <2>1, <2>3 DEF RemembersInv, Covers, Covered
  <2> QED BY <2>1, <2>5, <2>6, <2>7 DEF RemembersInv
<1>3. ASSUME UNCHANGED <<rows, sent, turn, saved, messages, compacts>>,
             phase' = phase \/ (phase # "idle" /\ phase' = "over") \/ (phase = "running" /\ phase' \in {"running", "resulting"})
      PROVE  RemembersInv'
  <2>1. SavedCovers' /\ (HistoryHeld => HistoryHeld') /\ (Covers(messages) => Covers(messages)')
    BY <1>3 DEF RemembersInv, SavedCovers, HistoryHeld, Stored, Covers
  <2> QED BY <1>3, <2>1 DEF RemembersInv
<1>4. CASE UNCHANGED loopVars \/ LoopEnded \/ DeadlinePasses \/ Backstop
  BY <1>3, <1>4 DEF LoopEnded, loopVars, DeadlinePasses, Backstop
<1>5. CASE StreamText \/ StreamFails \/ Answered \/ PersistFails
  BY <1>3, <1>5 DEF StreamText, StreamFails, Answered, PersistFails, Settle
<1>6. ASSUME NEW k, ToolReturns(k)
      PROVE  RemembersInv'
  BY <1>3, <1>6 DEF ToolReturns, PersistNext, Stop, Settle
<1> QED BY <1>1, <1>2, <1>4, <1>5, <1>6 DEF LoopNext

\* Every step keeps it.
LEMMA RemembersStep ==
  ControlInv /\ RowsInv /\ ListInv /\ RemembersInv /\ SplitAtHead /\ TurnNotCutInto /\ [LoopNext]_loopVars
    => RemembersInv'
<1> SUFFICES ASSUME ControlInv, RowsInv, ListInv, RemembersInv, SplitAtHead, TurnNotCutInto, [LoopNext]_loopVars
             PROVE  RemembersInv'
  OBVIOUS
<1>1. ASSUME NEW cs \in BoundedSeq(Tool, MaxCalls) \ {<<>>}, NEW cutShort \in BOOLEAN, StreamAsks(cs, cutShort)
      PROVE  RemembersInv'
  BY <1>1, CallsSeq, StreamAsksRemembers
<1> QED BY <1>1, StartTurnRemembers, SummarizedRemembers, RecordedRemembers, SplitRemembers, RequestRemembers,
           ResultRemembers, QuietRemembers

-----------------------------------------------------------------------------
(* What a split leaves behind is missing for the rest of its turn only: the  *)
(* next turn is built from the history again.  A split leaves no user row in *)
(* the list, which tells a turn that was split from one that was not.        *)

Unsplit == User(turn) \in ToSet(messages)

UnsplitInv ==
  /\ SavedCovers
  /\ phase \in {"compacting", "recording"} => HistoryHeld
  /\ compacts /\ phase \notin {"idle", "over"} /\ (Unsplit \/ phase \in {"compacting", "recording"})
       => Covers(messages)

\* A split keeps nothing from the last user row up to its cut, and none behind.
LEMMA SplitKeepsNoUser ==
  ASSUME NEW x \in Seq(Entry), x[1] = System, NEW c, SplitTold(x, c)
  PROVE  \A r \in ToSet(Split(x, c)) : r.kind # "user"
<1> DEFINE users == PositionsOf(x, "user", 1)
           from == LastOf(users)
           keep == IF x[2].kind = "summary" THEN 2 ELSE 1
           h == SubSeq(x, 1, keep)
           span == SubSeq(x, from, c - 1)
           m == <<Summary(Covered(span))>>
           y == SubSeq(x, c, Len(x))
           u == (h \o m) \o y
<1>1. Len(x) \in Nat /\ DOMAIN x = 1..Len(x) /\ \A i \in 1..Len(x) : x[i] \in Entry
  BY LenProperties, ElementOfSeq
<1>2. from \in 1..Len(x) /\ x[from].kind = "user" /\ \A i \in 1..Len(x) : x[i].kind = "user" => i <= from
  <2>1. users \in SUBSET (1..Len(x)) /\ users # {}
    BY <1>1 DEF SplitTold, PositionsOf
  <2>2. LastOf(users) \in users /\ \A i \in users : i <= LastOf(users)
    <3> HIDE DEF users
    <3> QED BY <1>1, <2>1, LastOfProperties
  <2>3. \A i \in 1..Len(x) : x[i].kind = "user" => i \in users
    BY <1>1 DEF PositionsOf
  <2> HIDE DEF users
  <2>4. from \in users /\ \A i \in users : i <= from
    BY <2>2
  <2> HIDE DEF from
  <2> QED BY <1>1, <2>1, <2>3, <2>4 DEF PositionsOf, users
<1>3. c \in 1..Len(x) /\ from < c
  BY <1>1 DEF SplitTold
<1>6. u = Split(x, c)
  BY DEF Split
<1> HIDE DEF from, users
<1>4. from # 1 /\ c - 1 \in 0..Len(x) /\ Len(x) > 2
  BY <1>1, <1>2, <1>3, SystemFields
<1>5. keep \in 1..2 /\ keep \in 0..Len(x) /\ 1 \in 1..Len(x) /\ (keep = 2 => x[2].kind = "summary")
  BY <1>4
<1> HIDE DEF keep
<1>7. h \in Seq(Entry) /\ \A r \in ToSet(h) : r.kind # "user"
  <2>1. h \in Seq(Entry) /\ ToSet(h) = {x[i] : i \in 1..keep}
    BY <1>5, Span
  <2>2. \A i \in 1..keep : i = 1 \/ (i = 2 /\ keep = 2)
    BY <1>5
  <2> HIDE DEF h
  <2> QED BY <1>5, <2>1, <2>2, SystemFields
<1>8. m \in Seq(Entry) /\ \A r \in ToSet(m) : r.kind # "user"
  <2>1. span \in Seq(Entry)
    BY <1>2, <1>4, Span
  <2>2. Summary(Covered(span)) \in Entry
    BY <2>1, CoveredRows DEF Summary, Entry
  <2> HIDE DEF span
  <2> QED BY <2>2 DEF Summary, ToSet
<1>9. y \in Seq(Entry) /\ ToSet(y) = {x[i] : i \in c..Len(x)}
  BY <1>3, Suffix
<1>10. \A r \in ToSet(y) : r.kind # "user"
  <2>1. \A i \in c..Len(x) : i \in 1..Len(x) /\ ~(i <= from)
    BY <1>1, <1>2, <1>3
  <2> HIDE DEF y
  <2> QED BY <1>2, <1>9, <2>1
<1> HIDE DEF h, m, y, span
<1>11. ToSet(u) = (ToSet(h) \cup ToSet(m)) \cup ToSet(y)
  <2>1. h \in Seq(Entry) /\ m \in Seq(Entry)
    BY <1>7, <1>8
  <2>2. ToSet(h \o m) = ToSet(h) \cup ToSet(m)
    BY <2>1, ToSetConcat
  <2> DEFINE hm == h \o m
  <2>3. hm \in Seq(Entry)
    BY <2>1, ConcatProperties
  <2> HIDE DEF hm
  <2>4. hm \in Seq(Entry) /\ y \in Seq(Entry)
    BY <1>9, <2>3
  <2>5. ToSet(hm \o y) = ToSet(hm) \cup ToSet(y)
    BY <2>4, ToSetConcat
  <2> QED BY <2>2, <2>5 DEF hm
<1>12. \A r \in ToSet(u) : r.kind # "user"
  BY <1>7, <1>8, <1>10, <1>11
<1> HIDE DEF u
<1> QED BY <1>6, <1>12

\* Rows stored for this turn or a later one leave the saved summary's alone.
LEMMA SavedCoversKept ==
  ASSUME ControlInv, RowsInv, SavedCovers, UNCHANGED <<turn, saved>>, NEW t \in Nat, t >= turn, NEW list,
         rows' = rows \/ rows' = [rows EXCEPT ![t] = list]
  PROVE  SavedCovers'
<1> DEFINE f == saved.first
<1>1. f \in 0..turn /\ turn \in Nat /\ \A s \in 1..f - 1 : ToSet(rows[s]) \subseteq saved.of
  BY ToolLoopAssumption DEF SavedCovers, ControlInv
<1> HIDE DEF f
<1>2. \A s \in 1..f - 1 : s # t
  BY <1>1
<1>3. \A s \in 1..f - 1 : s \in DOMAIN rows
  <2>1. turn \in 0..MaxTurns /\ MaxTurns \in Nat
    BY ToolLoopAssumption DEF ControlInv
  <2>2. DOMAIN rows = 1..MaxTurns
    BY DEF RowsInv, RowsTyped, Turns
  <2> QED BY <1>1, <2>1, <2>2
<1>4. \A s \in 1..f - 1 : rows'[s] = rows[s]
  BY <1>2, <1>3
<1>5. saved' = saved /\ turn' = turn
  OBVIOUS
<1> QED BY <1>1, <1>4, <1>5 DEF SavedCovers, f

\* A step of a turn that was split, where the list may have forgotten, neither
\* brings the user row back nor touches what the saved summary stands for.
LEMMA SplitTurnStep ==
  ASSUME ControlInv, RowsInv, ListInv, SavedCovers, ~Unsplit,
         phase \notin {"idle", "over", "compacting", "recording"}, [LoopNext]_loopVars
  PROVE  /\ SavedCovers'
         /\ phase' \in {"idle", "over"} \/ (~Unsplit' /\ phase' \notin {"compacting", "recording"})
<1> USE DEF bodyVars
<1>0. turn \in Nat /\ sent \in Nat /\ turn <= sent /\ sent + 1 \in Nat /\ sent + 1 >= turn /\ turn >= turn
      /\ turn \in Turns /\ messages \in Seq(Entry)
  BY ToolLoopAssumption DEF ControlInv, ListInv, Turns
<1>1. ASSUME UNCHANGED <<turn, saved, messages>>,
             \/ rows' = rows
             \/ \E list : rows' = [rows EXCEPT ![turn] = list]
             \/ \E list : rows' = [rows EXCEPT ![sent + 1] = list],
             phase' \notin {"compacting", "recording"}
      PROVE  SavedCovers' /\ ~Unsplit' /\ phase' \notin {"compacting", "recording"}
  <2>1. SavedCovers'
    BY <1>0, <1>1, SavedCoversKept
  <2> QED BY <1>1, <2>1 DEF Unsplit, User
<1>2. CASE UNCHANGED loopVars \/ UserSends \/ DeadlinePasses \/ Backstop
  BY <1>1, <1>2 DEF loopVars, UserSends, DeadlinePasses, Backstop
<1>3. CASE StreamText \/ StreamFails \/ Answered \/ PersistFails \/ RequestPersisted
  BY <1>1, <1>3 DEF StreamText, StreamFails, Answered, PersistFails, RequestPersisted, Settle,
                    PersistNext, StartTools, Stop
<1>4. ASSUME NEW k, ToolReturns(k)
      PROVE  SavedCovers' /\ ~Unsplit' /\ phase' \notin {"compacting", "recording"}
  BY <1>1, <1>4 DEF ToolReturns, PersistNext, Stop, Settle
<1>5. CASE TurnEnds
  <2>1. UNCHANGED <<turn, saved>> /\ phase' = "idle"
        /\ (rows' = rows \/ rows' = [rows EXCEPT ![turn] = Append(rows[turn], Reply(turn))])
    BY <1>5 DEF TurnEnds
  <2>2. SavedCovers'
    BY <1>0, <2>1, SavedCoversKept
  <2> QED BY <2>1, <2>2
<1>6. CASE SplitSummarized
  <2>1. /\ phase = "splitting" /\ phase' = "streaming" /\ UNCHANGED <<rows, turn, saved>>
        /\ messages' = Split(messages, cut) \/ messages' = messages
    BY <1>6 DEF SplitSummarized
  <2>2. SavedCovers'
    BY <1>0, <2>1, SavedCoversKept
  <2>3. messages[1] = System /\ SplitTold(messages, cut)
    BY <2>1 DEF ListInv
  <2>4. ~Unsplit'
    <3>1. \A r \in ToSet(Split(messages, cut)) : r.kind # "user"
      BY <1>0, <2>3, SplitKeepsNoUser
    <3>2. User(turn).kind = "user"
      BY DEF User
    <3>3. User(turn) \notin ToSet(messages')
      BY <2>1, <3>1, <3>2 DEF Unsplit
    <3> QED BY <2>1, <3>3 DEF Unsplit, User
  <2> QED BY <2>1, <2>2, <2>4
<1>7. ASSUME NEW e \in Entry, e.kind # "user", messages' = Append(messages, e), turn' = turn
      PROVE  ~Unsplit'
  <2>1. ToSet(messages') = ToSet(messages) \cup {e}
    BY <1>0, <1>7, ToSetAppend
  <2>2. User(turn) # e
    BY <1>7 DEF User
  <2>3. User(turn) \notin ToSet(messages')
    BY <2>1, <2>2 DEF Unsplit
  <2> QED BY <1>7, <2>3 DEF Unsplit, User
<1>8. ASSUME NEW cs \in Seq(Tool), NEW cutShort, StreamAsks(cs, cutShort)
      PROVE  SavedCovers' /\ ~Unsplit' /\ phase' \notin {"compacting", "recording"}
  <2>1. /\ UNCHANGED <<rows, turn, saved>> /\ messages' = Append(messages, Ask(turn, round, cs))
        /\ phase' \in {"over", "requesting"}
    BY <1>8 DEF StreamAsks, Stop, Settle
  <2>2. Ask(turn, round, cs) \in Entry /\ Ask(turn, round, cs).kind # "user"
    BY <1>0 DEF Ask, RowEntry, Entry, ControlInv
  <2>3. SavedCovers'
    BY <1>0, <2>1, SavedCoversKept
  <2> QED BY <1>7, <2>1, <2>2, <2>3
<1>9. CASE ResultPersisted
  <2> DEFINE e == Result(turn, round, done + 1)
  <2>1. /\ UNCHANGED <<turn, saved>> /\ rows' = [rows EXCEPT ![turn] = Append(rows[turn], e)]
        /\ messages' = Append(messages, e)
        /\ phase' \notin {"compacting", "recording"}
    <3>1. /\ UNCHANGED <<turn, saved>> /\ rows' = [rows EXCEPT ![turn] = Append(rows[turn], e)]
          /\ \/ LoopTop(Append(messages, e))
             \/ messages' = Append(messages, e) /\ phase' \in {"running", "resulting", "over"}
      BY <1>9 DEF ResultPersisted, RowsWith, PersistNext, StartTools, Stop, Settle
    <3> HIDE DEF e
    <3>2. LoopTop(Append(messages, e)) => /\ messages' = Append(messages, e)
                                          /\ phase' \in {"over", "answering", "streaming", "splitting"}
      BY TopLeads
    <3> QED BY <3>1, <3>2
  <2>2. e \in Entry /\ e.kind # "user"
    <3>1. done + 1 \in Nat /\ round \in Nat
      BY LenProperties DEF ControlInv
    <3> QED BY <1>0, <3>1 DEF Result, RowEntry, Entry
  <2> HIDE DEF e
  <2>3. SavedCovers'
    BY <1>0, <2>1, SavedCoversKept
  <2> QED BY <1>7, <2>1, <2>2, <2>3
<1>10. ~StartTurn /\ ~Summarized /\ ~CompactionRecorded /\ ~LoopEnded
  BY DEF StartTurn, Summarized, CompactionRecorded, LoopEnded
<1> QED BY <1>2, <1>3, <1>4, <1>5, <1>6, <1>8, <1>9, <1>10, CallsSeq DEF LoopNext

\* Where nothing was forgotten yet, a step forgets nothing but by a split.
LEMMA UnsplitStep ==
  ControlInv /\ RowsInv /\ ListInv /\ UnsplitInv /\ TurnNotCutInto /\ [LoopNext]_loopVars => UnsplitInv'
<1> SUFFICES ASSUME ControlInv, RowsInv, ListInv, UnsplitInv, TurnNotCutInto, [LoopNext]_loopVars
             PROVE  UnsplitInv'
  OBVIOUS
<1>1. CASE RemembersInv /\ ~SplitSummarized
  <2>1. ASSUME NEW cs \in BoundedSeq(Tool, MaxCalls) \ {<<>>}, NEW cutShort \in BOOLEAN, StreamAsks(cs, cutShort)
        PROVE  RemembersInv'
    BY <1>1, <2>1, CallsSeq, StreamAsksRemembers
  <2>2. RemembersInv'
    BY <1>1, <2>1, StartTurnRemembers, SummarizedRemembers, RecordedRemembers, RequestRemembers,
       ResultRemembers, QuietRemembers
  <2> QED BY <2>2 DEF RemembersInv, UnsplitInv
<1>2. CASE SplitSummarized
  <2>1. /\ phase = "splitting" /\ phase' = "streaming" /\ UNCHANGED <<rows, sent, turn, saved, compacts>>
        /\ messages' = Split(messages, cut) \/ messages' = messages
    BY <1>2 DEF SplitSummarized
  <2>2. turn \in Nat /\ turn >= turn
    BY ToolLoopAssumption DEF ControlInv
  <2>3. SavedCovers'
    BY <2>1, <2>2, SavedCoversKept DEF UnsplitInv
  <2>4. CASE messages' = messages
    <3>1. (Unsplit' <=> Unsplit) /\ (Covers(messages)' <=> Covers(messages))
      BY <2>1, <2>4 DEF Unsplit, Covers, Covered, User
    <3> QED BY <2>1, <2>3, <3>1 DEF UnsplitInv
  <2>5. CASE messages' = Split(messages, cut)
    <3>1. messages \in Seq(Entry) /\ messages[1] = System /\ SplitTold(messages, cut)
      BY <2>1 DEF ListInv
    <3>2. \A r \in ToSet(messages') : r.kind # "user"
      BY <2>5, <3>1, SplitKeepsNoUser
    <3>3. ~Unsplit'
      BY <3>2 DEF Unsplit, User
    <3> QED BY <2>1, <2>3, <3>3 DEF UnsplitInv
  <2> QED BY <2>1, <2>4, <2>5
<1>3. CASE ~RemembersInv
  <2>1. /\ SavedCovers /\ ~Unsplit
        /\ phase \notin {"idle", "over", "compacting", "recording"}
    BY <1>3 DEF UnsplitInv, RemembersInv
  <2> QED BY <2>1, SplitTurnStep DEF UnsplitInv
<1> QED BY <1>1, <1>2, <1>3

\* What is covered at every await is covered when a list is sent.
LEMMA RemembersSends == RemembersInv => NothingForgotten
<1> SUFFICES ASSUME RemembersInv, compacts, phase \in SendsList
             PROVE  \A t \in 1..turn : ToSet(rows[t]) \subseteq Covered(messages)
  BY DEF NothingForgotten
<1>1. phase \notin {"idle", "over"}
  BY DEF SendsList
<1> QED BY <1>1 DEF RemembersInv, Covers

\* However the turns go, compactions that build on one another lose no row,
\* unless a split cuts elsewhere than behind the list's head or a pre-turn
\* cut falls into the turn itself: those two are the only ways to forget.
THEOREM CompactionsForgetNothing == LoopSpec /\ []SplitAtHead /\ []TurnNotCutInto => []NothingForgotten
BY ControlHolds, RowsHold, ListHolds, RemembersInit, RemembersStep, RemembersSends, PTL DEF LoopSpec

\* What a split drops is missing for the rest of its turn only.  Compactions that
\* build on one another hand every turn the whole conversation again, unless a
\* pre-turn cut falls into the turn itself: a list is complete until it is split.
THEOREM OnlySplitTurnsForget ==
  LoopSpec /\ []TurnNotCutInto => [](Unsplit => NothingForgotten)
<1>1. UnsplitInv => (Unsplit => NothingForgotten)
  <2> SUFFICES ASSUME UnsplitInv, Unsplit, compacts, phase \in SendsList
               PROVE  \A t \in 1..turn : ToSet(rows[t]) \subseteq Covered(messages)
    BY DEF NothingForgotten
  <2>1. phase \notin {"idle", "over"}
    BY DEF SendsList
  <2> QED BY <2>1 DEF UnsplitInv, Covers
<1>2. LoopInit => UnsplitInv
  BY RemembersInit DEF RemembersInv, UnsplitInv
<1> QED BY <1>1, <1>2, ControlHolds, RowsHold, ListHolds, UnsplitStep, PTL DEF LoopSpec
=============================================================================
