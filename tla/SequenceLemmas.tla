--------------------------- MODULE SequenceLemmas ---------------------------
(***************************************************************************)
(* Lemmas about numbers and sequences that the proofs about several models *)
(* need and the library does not state.  Concatenation by FlattenSeq is a  *)
(* recursion, so what it keeps is shown by giving each prefix the set of   *)
(* lists with the property and folding (FlattenInduction).                 *)
(***************************************************************************)
EXTENDS Naturals, SequencesExt, SequenceTheorems, FiniteSetTheorems, WellFoundedInduction, TLAPS

\* What holds at 0 and is passed on by every number below n holds up to n.
LEMMA FromZero ==
  ASSUME NEW n \in Nat, NEW G, 0 \in G, \A k \in 0..n - 1 : k \in G => k + 1 \in G
  PROVE  0..n \subseteq G
<1> DEFINE Bad == (0..n) \ G
           Less == {p \in Nat \X Nat : p[1] < p[2]}
<1> SUFFICES ASSUME Bad # {}
             PROVE  FALSE
  OBVIOUS
<1>1. PICK k \in Bad : \A j \in Bad : <<j, k>> \notin Less
  <2>1. IsWellFoundedOn(Less, Nat) /\ Bad \subseteq Nat
    BY NatLessThanWellFounded DEF OpToRel
  <2> HIDE DEF Bad, Less
  <2> QED BY <2>1, WFMin
<1>2. k # 0 /\ k \in 0..n
  BY <1>1
<1>3. k - 1 \in 0..n - 1 /\ (k - 1) + 1 = k
  BY <1>2
<1>4. k - 1 \in Bad
  BY <1>3, <1>1
<1>5. <<k - 1, k>> \in Less
  BY <1>2
<1> QED BY <1>1, <1>4, <1>5

\* What holds at 1 and is passed on by every number below N holds up to N.
LEMMA UpTo ==
  ASSUME NEW N \in Nat, NEW G, 1 \in G, \A n \in 1..N - 1 : n \in G => n + 1 \in G
  PROVE  1..N \subseteq G
<1> DEFINE H == G \cup {0}
<1>1. 0 \in H /\ \A n \in 0..N - 1 : n \in H => n + 1 \in H
  OBVIOUS
<1>2. 0..N \subseteq H
  <2> HIDE DEF H
  <2> QED BY <1>1, FromZero
<1> QED BY <1>2

\* The greatest of the numbers up to n.
LEMMA Greatest ==
  ASSUME NEW n \in Nat, NEW s \in SUBSET (1..n), n \in s
  PROVE  Max(s) = n
<1>1. n \in s /\ \A y \in s : n >= y
  OBVIOUS
<1>2. \A x \in s : (\A y \in s : x >= y) => x = n
  BY <1>1
<1> QED BY <1>1, <1>2 DEF Max

\* The recursion FlattenSeq is defined by has a solution.
LEMMA FlattenRecursion ==
  ASSUME NEW S, NEW ss \in Seq(Seq(S)), Len(ss) > 0
  PROVE  \E f \in [1..Len(ss) -> Seq(S)] :
           /\ f[1] = ss[1] /\ \A i \in 2..Len(ss) : f[i] = f[i - 1] \o ss[i]
           /\ FlattenSeq(ss) = f[Len(ss)]
<1> DEFINE N == Len(ss)
           Cat(f, i) == IF i = 1 THEN ss[i] ELSE f[i - 1] \o ss[i]
           Flattens(f, n) == \A i \in 1..n : f[i] = Cat(f, i)
           G == {n \in 1..N : \E f \in [1..n -> Seq(S)] : Flattens(f, n)}
<1>1. N \in Nat /\ N >= 1 /\ N # 0 /\ \A i \in 1..N : ss[i] \in Seq(S)
  BY LenProperties, ElementOfSeq
<1>2. ASSUME NEW f, NEW i \in 1..N, i # 1 => f[i - 1] \in Seq(S)
      PROVE  Cat(f, i) \in Seq(S)
  BY <1>1, <1>2, ConcatProperties
<1>3. 1 \in G
  <2> DEFINE g == [i \in 1..1 |-> ss[1]]
  <2>1. g \in [1..1 -> Seq(S)]
    BY <1>1
  <2>2. Flattens(g, 1)
    OBVIOUS
  <2>3. 1 \in 1..N
    BY <1>1
  <2> HIDE DEF g, Flattens, N
  <2> QED BY <2>1, <2>2, <2>3
<1>4. ASSUME NEW n \in 1..N - 1, n \in G
      PROVE  n + 1 \in G
  <2>1. PICK f \in [1..n -> Seq(S)] : Flattens(f, n)
    BY <1>4
  <2> DEFINE g == [i \in 1..n + 1 |-> IF i = n + 1 THEN Cat(f, n + 1) ELSE f[i]]
  <2>2. n + 1 \in 1..N /\ n \in 1..n /\ n + 1 # 1 /\ (n + 1) - 1 = n
    BY <1>1
  <2>3. Cat(f, n + 1) \in Seq(S)
    <3>1. f[(n + 1) - 1] \in Seq(S)
      BY <2>2
    <3> HIDE DEF Cat
    <3> QED BY <2>2, <3>1, <1>2
  <2>4. g \in [1..n + 1 -> Seq(S)]
    <3> HIDE DEF Cat
    <3> QED BY <2>3
  <2>5. ASSUME NEW i \in 1..n + 1
        PROVE  g[i] = Cat(g, i)
    <3>1. i # 1 => i - 1 \in 1..n + 1 /\ i - 1 # n + 1
      OBVIOUS
    <3>2. i # 1 => g[i - 1] = f[i - 1]
      BY <3>1
    <3>3. Cat(g, i) = Cat(f, i)
      <4> HIDE DEF g
      <4> QED BY <3>2
    <3>4. g[i] = Cat(f, i)
      <4>1. g[i] = IF i = n + 1 THEN Cat(f, n + 1) ELSE f[i]
        OBVIOUS
      <4>2. i # n + 1 => i \in 1..n
        OBVIOUS
      <4> HIDE DEF g, Cat
      <4> QED BY <4>1, <4>2, <2>1
    <3> QED BY <3>3, <3>4
  <2>6. Flattens(g, n + 1)
    <3> HIDE DEF g, Cat
    <3> QED BY <2>5
  <2> HIDE DEF g, Flattens, N
  <2> QED BY <2>2, <2>4, <2>6
<1>5. N \in G
  <2> HIDE DEF G, N
  <2>1. 1..N \subseteq G
    BY <1>1, <1>3, <1>4, UpTo
  <2> QED BY <2>1, <1>1
<1>6. PICK f \in [1..N -> Seq(S)] : Flattens(f, N)
  <2> HIDE DEF Flattens
  <2> QED BY <1>5
<1>7. f = [i \in 1..N |-> Cat(f, i)]
  <2> HIDE DEF Cat, N
  <2> QED BY <1>6
<1> DEFINE fl == CHOOSE h : h = [i \in 1..N |-> Cat(h, i)]
<1>8. fl = [i \in 1..N |-> Cat(fl, i)]
  <2> HIDE DEF Cat, N
  <2> QED BY <1>7, Zenon
<1>9. FlattenSeq(ss) = fl[N]
  BY <1>1, Zenon DEF FlattenSeq
<1> HIDE DEF fl
<1>10. \A i \in 1..N : fl[i] = Cat(fl, i)
  <2> HIDE DEF Cat, N
  <2> QED BY <1>8
<1>11. fl \in [1..N -> Seq(S)]
  <2> DEFINE H == {n \in 1..N : fl[n] \in Seq(S)}
  <2>1. 1 \in H
    BY <1>1, <1>10
  <2>2. ASSUME NEW n \in 1..N - 1, n \in H
        PROVE  n + 1 \in H
    <3>1. n + 1 \in 1..N /\ (n + 1) - 1 = n /\ fl[n] \in Seq(S)
      BY <1>1, <2>2
    <3>2. Cat(fl, n + 1) \in Seq(S)
      <4> HIDE DEF Cat
      <4> QED BY <3>1, <1>2
    <3> HIDE DEF Cat
    <3> QED BY <3>1, <3>2, <1>10
  <2>3. 1..N \subseteq H
    <3> HIDE DEF H, N
    <3> QED BY <1>1, <2>1, <2>2, UpTo
  <2>4. DOMAIN fl = 1..N
    <3> HIDE DEF Cat, N
    <3> QED BY <1>8
  <2> HIDE DEF Cat, N
  <2> QED BY <2>3, <2>4, <1>8
<1>12. fl[1] = ss[1] /\ \A i \in 2..N : fl[i] = fl[i - 1] \o ss[i]
  <2>1. 1 \in 1..N /\ \A i \in 2..N : i \in 1..N /\ i # 1
    BY <1>1
  <2> HIDE DEF N
  <2> QED BY <2>1, <1>10
<1> QED BY <1>9, <1>11, <1>12

\* What the first of some lists has, and every other hands on when it is put
\* behind those before it, their concatenation has.
LEMMA FlattenInduction ==
  ASSUME NEW S, NEW ss \in Seq(Seq(S)), Len(ss) > 0,
         NEW L \in [1..Len(ss) -> SUBSET Seq(S)],
         ss[1] \in L[1],
         \A i \in 2..Len(ss) : \A s \in L[i - 1] : s \o ss[i] \in L[i]
  PROVE  FlattenSeq(ss) \in L[Len(ss)]
<1> DEFINE N == Len(ss)
<1>1. PICK f \in [1..N -> Seq(S)] :
        /\ f[1] = ss[1] /\ \A i \in 2..N : f[i] = f[i - 1] \o ss[i]
        /\ FlattenSeq(ss) = f[N]
  BY FlattenRecursion
<1> DEFINE G == {n \in 1..N : f[n] \in L[n]}
<1>2. N \in Nat /\ N > 0
  BY LenProperties
<1>3. 1 \in G
  BY <1>1, <1>2
<1>4. ASSUME NEW n \in 1..N - 1, n \in G
      PROVE  n + 1 \in G
  <2>1. n + 1 \in 2..N /\ (n + 1) - 1 = n /\ f[n] \in L[n]
    BY <1>2, <1>4
  <2>2. f[n + 1] = f[n] \o ss[n + 1]
    BY <2>1, <1>1
  <2>3. f[n] \o ss[n + 1] \in L[n + 1]
    BY <2>1
  <2>4. n + 1 \in 1..N /\ f[n + 1] \in L[n + 1]
    BY <2>1, <2>2, <2>3
  <2> QED BY <2>4
<1>5. 1..N \subseteq G
  <2> HIDE DEF G, N
  <2> QED BY <1>2, <1>3, <1>4, UpTo
<1>6. N \in G
  BY <1>2, <1>5
<1>7. f[N] \in L[N]
  BY <1>6
<1> QED BY <1>1, <1>7

\* The entries of lists put together.
LEMMA ToSetConcat ==
  ASSUME NEW S, NEW s \in Seq(S), NEW t \in Seq(S)
  PROVE  ToSet(s \o t) = ToSet(s) \cup ToSet(t)
<1>1. /\ s \o t \in Seq(S) /\ Len(s \o t) = Len(s) + Len(t)
      /\ \A i \in 1..Len(s) + Len(t) : (s \o t)[i] = IF i <= Len(s) THEN s[i] ELSE t[i - Len(s)]
      /\ Len(s) \in Nat /\ Len(t) \in Nat
      /\ DOMAIN (s \o t) = 1..Len(s) + Len(t) /\ DOMAIN s = 1..Len(s) /\ DOMAIN t = 1..Len(t)
  BY ConcatProperties, LenProperties
<1>2. ASSUME NEW i \in 1..Len(s) + Len(t)
      PROVE  (s \o t)[i] \in ToSet(s) \cup ToSet(t)
  <2>1. CASE i <= Len(s)
    BY <1>1, <2>1 DEF ToSet
  <2>2. CASE ~(i <= Len(s))
    <3>1. i - Len(s) \in 1..Len(t)
      BY <1>1, <2>2
    <3> QED BY <1>1, <2>2, <3>1 DEF ToSet
  <2> QED BY <2>1, <2>2
<1>3. ASSUME NEW i \in 1..Len(s)
      PROVE  s[i] \in ToSet(s \o t)
  <2>1. i \in 1..Len(s) + Len(t) /\ i <= Len(s)
    BY <1>1
  <2>2. s[i] = (s \o t)[i]
    BY <2>1, <1>1
  <2> QED BY <2>1, <2>2, <1>1 DEF ToSet
<1>4. ASSUME NEW i \in 1..Len(t)
      PROVE  t[i] \in ToSet(s \o t)
  <2>1. i + Len(s) \in 1..Len(s) + Len(t) /\ ~(i + Len(s) <= Len(s)) /\ (i + Len(s)) - Len(s) = i
    BY <1>1
  <2>2. t[i] = (s \o t)[i + Len(s)]
    BY <2>1, <1>1
  <2> QED BY <2>1, <2>2, <1>1 DEF ToSet
<1>5. ToSet(s \o t) = {(s \o t)[i] : i \in 1..Len(s) + Len(t)}
  BY <1>1 DEF ToSet
<1>6. ToSet(s) = {s[i] : i \in 1..Len(s)} /\ ToSet(t) = {t[i] : i \in 1..Len(t)}
  BY <1>1 DEF ToSet
<1>7. ToSet(s \o t) \subseteq ToSet(s) \cup ToSet(t)
  BY <1>2, <1>5
<1>8. ToSet(s) \subseteq ToSet(s \o t)
  BY <1>3, <1>6
<1>9. ToSet(t) \subseteq ToSet(s \o t)
  BY <1>4, <1>6
<1> QED BY <1>7, <1>8, <1>9

\* What an appended sequence holds.
LEMMA ToSetAppend ==
  ASSUME NEW S, NEW s \in Seq(S), NEW e \in S
  PROVE  ToSet(Append(s, e)) = ToSet(s) \cup {e}
<1>1. PICK w, z : w = <<e>> /\ z = Append(s, e)
  OBVIOUS
<1>2. z = s \o w /\ w \in Seq(S)
  BY <1>1, AppendIsConcat
<1>3. ToSet(w) = {e}
  <2>1. DOMAIN w = {1} /\ w[1] = e
    BY <1>1
  <2>2. ToSet(w) = {w[i] : i \in {1}}
    BY <2>1 DEF ToSet
  <2> QED BY <2>1, <2>2
<1>4. ToSet(s \o w) = ToSet(s) \cup ToSet(w)
  BY <1>2, ToSetConcat
<1>5. ToSet(z) = ToSet(s) \cup {e}
  BY <1>2, <1>3, <1>4
<1> QED BY <1>1, <1>5

\* The end of a list from c on.
LEMMA Suffix ==
  ASSUME NEW S, NEW s \in Seq(S), NEW c \in 1..Len(s)
  PROVE  /\ SubSeq(s, c, Len(s)) \in Seq(S)
         /\ Len(SubSeq(s, c, Len(s))) = Len(s) - c + 1
         /\ \A i \in 1..Len(s) - c + 1 : SubSeq(s, c, Len(s))[i] = s[c + i - 1]
         /\ ToSet(SubSeq(s, c, Len(s))) = {s[i] : i \in c..Len(s)}
<1>1. Len(s) \in Nat /\ \A i \in c..Len(s) : s[i] \in S
  BY LenProperties, ElementOfSeq
<1>2. /\ SubSeq(s, c, Len(s)) \in Seq(S)
      /\ Len(SubSeq(s, c, Len(s))) = Len(s) - c + 1
      /\ \A i \in 1..Len(s) - c + 1 : SubSeq(s, c, Len(s))[i] = s[c + i - 1]
  BY <1>1, SubSeqProperties
<1>3. DOMAIN SubSeq(s, c, Len(s)) = 1..Len(s) - c + 1
  BY <1>2, LenProperties
<1>4. ASSUME NEW i \in 1..Len(s) - c + 1
      PROVE  SubSeq(s, c, Len(s))[i] \in {s[j] : j \in c..Len(s)}
  <2>1. c + i - 1 \in c..Len(s)
    BY <1>1
  <2> QED BY <2>1, <1>2
<1>5. ASSUME NEW j \in c..Len(s)
      PROVE  s[j] \in ToSet(SubSeq(s, c, Len(s)))
  <2>1. j - c + 1 \in 1..Len(s) - c + 1 /\ c + (j - c + 1) - 1 = j
    BY <1>1
  <2>2. SubSeq(s, c, Len(s))[j - c + 1] = s[j]
    BY <2>1, <1>2
  <2> QED BY <2>1, <2>2, <1>3 DEF ToSet
<1>6. ToSet(SubSeq(s, c, Len(s))) = {SubSeq(s, c, Len(s))[i] : i \in 1..Len(s) - c + 1}
  BY <1>3 DEF ToSet
<1> QED BY <1>2, <1>4, <1>5, <1>6

\* Two lists of one.
LEMMA Pair ==
  ASSUME NEW t, NEW e
  PROVE  <<t>> \o <<e>> = <<t, e>>
<1>0. PICK S : S = {t, e}
  OBVIOUS
<1>1. <<t>> \in Seq(S) /\ <<e>> \in Seq(S) /\ <<t, e>> \in Seq(S)
  BY <1>0
<1>2. PICK a, b, z : a = <<t>> /\ b = <<e>> /\ z = <<t, e>>
  OBVIOUS
<1>3. a \in Seq(S) /\ b \in Seq(S) /\ z \in Seq(S) /\ Len(a) = 1 /\ Len(b) = 1 /\ Len(z) = 2
      /\ a[1] = t /\ b[1] = e /\ z[1] = t /\ z[2] = e
  BY <1>1, <1>2
<1>4. PICK w : w = a \o b
  OBVIOUS
<1>5. w \in Seq(S) /\ Len(w) = 2 /\ w[1] = t /\ w[2] = e
  <2>1. a \in Seq(S) /\ b \in Seq(S)
    BY <1>3
  <2>2. /\ w \in Seq(S) /\ Len(w) = Len(a) + Len(b)
        /\ \A i \in 1..Len(a) + Len(b) : w[i] = IF i <= Len(a) THEN a[i] ELSE b[i - Len(a)]
    BY <2>1, <1>4, ConcatProperties
  <2> QED BY <1>3, <2>2
<1>6. \A i \in 1..Len(w) : w[i] = z[i]
  <2>1. \A i \in 1..Len(w) : i = 1 \/ i = 2
    BY <1>5
  <2> QED BY <1>3, <1>5, <2>1
<1>7. w = z
  BY <1>3, <1>5, <1>6, SeqEqual
<1> QED BY <1>2, <1>4, <1>7

\* A finite set is listed by a sequence of its elements.
LEMMA Listed ==
  ASSUME NEW S, IsFiniteSet(S)
  PROVE  SetToSeq(S) \in Seq(S)
<1>1. Cardinality(S) \in Nat /\ ExistsBijection(1..Cardinality(S), S)
  BY FS_CardinalityType
<1>2. \E f \in [1..Cardinality(S) -> S] : IsInjective(f)
  BY <1>1 DEF ExistsBijection, Bijection, Injection
<1>3. SetToSeq(S) \in [1..Cardinality(S) -> S]
  BY <1>2, Zenon DEF SetToSeq
<1> QED BY <1>1, <1>3, SeqDef
=============================================================================
