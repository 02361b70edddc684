-------------------------- MODULE PolicyFileProofs --------------------------
(***************************************************************************)
(* The properties of PolicyFile, for any texts, policies and edits.         *)
(*                                                                         *)
(* Induction over a text is done through least counterexamples (Least): a   *)
(* set of numbers for which something fails has a least one.                *)
(*                                                                         *)
(* Readable says what _validate_markers comes to: the starts of a text and  *)
(* its ends are in a bijection, and blocks follow one another.              *)
(*                                                                         *)
(* A rendering is a splice: a stretch of the text that holds the block of   *)
(* the key, or nothing, gives way to the new block, with line breaks and    *)
(* front matter about it where it is appended.  The lemmas about splices    *)
(* say where its starts, ends and blocks are, that it is accepted if the    *)
(* text was, and what it leaves of human text and of other blocks.  Both    *)
(* renderings, the update and the appending, are instances.                 *)
(***************************************************************************)
EXTENDS PolicyFile, FiniteSetTheorems, FunctionTheorems, SequenceTheorems, TLAPS

-----------------------------------------------------------------------------
\* Sets of numbers.

LEMMA Least ==
    ASSUME NEW S \in SUBSET Nat, S # {}
    PROVE  Min(S) \in S /\ \A i \in S : Min(S) <= i
<1>1. \E least \in S : \A i \in S : ~ (<<i, least>> \in OpToRel(<, Nat))
  BY NatLessThanWellFounded, WFMin, Zenon
<1>2. PICK least \in S : \A i \in S : ~ (i < least)
  BY <1>1 DEF OpToRel
<1>3. \A i \in S : least <= i
  BY <1>2
<1> QED BY <1>3 DEF Min

LEMMA Greatest ==
    ASSUME NEW n \in Nat, NEW S \in SUBSET (1 .. n), S # {}
    PROVE  Max(S) \in S /\ \A i \in S : i <= Max(S)
<1> DEFINE T == {n - i : i \in S}
<1>1. T \in SUBSET Nat /\ T # {}
  <2>1. \A i \in S : n - i \in Nat
    OBVIOUS
  <2> QED BY <2>1
<1>2. Min(T) \in T /\ \A i \in T : Min(T) <= i
  BY <1>1, Least
<1>3. PICK greatest \in S : Min(T) = n - greatest
  BY <1>2
<1>4. \A i \in S : i <= greatest
  <2> SUFFICES ASSUME NEW i \in S PROVE i <= greatest
    OBVIOUS
  <2>1. n - greatest <= n - i
    BY <1>2, <1>3
  <2> QED BY <2>1
<1> QED BY <1>4 DEF Max

\* What FlattenSeq computes on its way.
Partial(s, n, g) == g = [i \in 1 .. n |-> IF i = 1 THEN s[i] ELSE g[i - 1] \o s[i]]

LEMMA PartialIsThere ==
    ASSUME NEW s, NEW n \in Nat
    PROVE  \E g : Partial(s, n, g)
<1> SUFFICES ASSUME ~ \E g : Partial(s, n, g) PROVE FALSE
  OBVIOUS
<1> DEFINE bad == {m \in Nat : ~ \E g : Partial(s, m, g)}
           m == Min(bad)
<1>1. m \in bad /\ \A i \in bad : m <= i
  BY Least
<1> HIDE DEF m
<1>2. m # 0
  <2>1. Partial(s, 0, <<>>)
    BY DEF Partial
  <2> QED BY <1>1, <2>1
<1>3. m - 1 \in Nat /\ ~ (m <= m - 1)
  BY <1>1, <1>2
<1>4. PICK g : Partial(s, m - 1, g)
  BY <1>1, <1>3
<1>5. PICK h : h = [i \in 1 .. m |-> IF i < m THEN g[i] ELSE IF m = 1 THEN s[1] ELSE g[m - 1] \o s[m]]
  OBVIOUS
<1>6. g = [i \in 1 .. m - 1 |-> IF i = 1 THEN s[i] ELSE g[i - 1] \o s[i]]
  BY <1>4 DEF Partial
<1>7. ASSUME NEW i \in 1 .. m PROVE h[i] = IF i = 1 THEN s[i] ELSE h[i - 1] \o s[i]
  <2>1. CASE i < m
    <3>1. i \in 1 .. m - 1 /\ h[i] = g[i]
      BY <1>1, <1>5, <2>1
    <3>2. i # 1 => i - 1 \in 1 .. m /\ i - 1 < m
      BY <1>1
    <3>3. i # 1 => h[i - 1] = g[i - 1]
      BY <1>5, <3>2
    <3>4. g[i] = IF i = 1 THEN s[i] ELSE g[i - 1] \o s[i]
      BY <1>6, <3>1
    <3> QED BY <3>1, <3>3, <3>4
  <2>2. CASE i = m
    <3>1. m # 1 => m - 1 \in 1 .. m /\ m - 1 < m
      BY <1>1, <1>2
    <3>2. m # 1 => h[m - 1] = g[m - 1]
      BY <1>5, <3>1
    <3>3. h[m] = IF m = 1 THEN s[1] ELSE g[m - 1] \o s[m]
      BY <1>1, <1>2, <1>5
    <3> QED BY <2>2, <3>2, <3>3
  <2> QED BY <1>1, <2>1, <2>2
<1>8. h = [i \in 1 .. m |-> h[i]]
  BY <1>5
<1>9. Partial(s, m, h)
  BY <1>7, <1>8 DEF Partial
<1> QED BY <1>1, <1>9

LEMMA PartialTyped ==
    ASSUME NEW T, NEW s \in Seq(Seq(T)), NEW g, Partial(s, Len(s), g), NEW k \in 1 .. Len(s)
    PROVE  g[k] \in Seq(T)
<1> SUFFICES ASSUME g[k] \notin Seq(T) PROVE FALSE
  OBVIOUS
<1> DEFINE bad == {i \in 1 .. Len(s) : g[i] \notin Seq(T)}
           m == Min(bad)
<1>1. m \in bad /\ \A i \in bad : m <= i
  <2>1. bad \in SUBSET Nat
    OBVIOUS
  <2>2. k \in bad
    OBVIOUS
  <2> HIDE DEF bad
  <2> QED BY <2>1, <2>2, Least
<1> HIDE DEF m
<1>2. m \in 1 .. Len(s) /\ s[m] \in Seq(T)
  BY <1>1
<1>3. g[m] = IF m = 1 THEN s[m] ELSE g[m - 1] \o s[m]
  BY <1>2 DEF Partial
<1>4. m # 1
  BY <1>1, <1>2, <1>3
<1>5. m - 1 \in 1 .. Len(s) /\ ~ (m <= m - 1)
  BY <1>2, <1>4
<1>6. g[m - 1] \in Seq(T)
  BY <1>1, <1>5
<1>7. g[m] \in Seq(T)
  BY <1>2, <1>3, <1>4, <1>6
<1> QED BY <1>1, <1>7

\* What is flattened has the elements of its parts.
LEMMA FlattenTyped ==
    ASSUME NEW T, NEW s \in Seq(Seq(T))
    PROVE  FlattenSeq(s) \in Seq(T)
<1>1. CASE Len(s) = 0
  BY <1>1 DEF FlattenSeq
<1>2. CASE Len(s) # 0
  <2> DEFINE f == CHOOSE g : g = [i \in 1 .. Len(s) |-> IF i = 1 THEN s[i] ELSE g[i - 1] \o s[i]]
  <2>1. Len(s) \in Nat /\ Len(s) \in 1 .. Len(s)
    BY <1>2
  <2>2. Partial(s, Len(s), f)
    <3>1. \E g : g = [i \in 1 .. Len(s) |-> IF i = 1 THEN s[i] ELSE g[i - 1] \o s[i]]
      BY <2>1, PartialIsThere DEF Partial
    <3> QED BY <3>1 DEF Partial
  <2>3. FlattenSeq(s) = f[Len(s)]
    BY <1>2 DEF FlattenSeq
  <2> HIDE DEF f
  <2> QED BY <2>1, <2>2, <2>3, PartialTyped
<1> QED BY <1>1, <1>2

-----------------------------------------------------------------------------
\* Positions in their order.

UpTo(S, i) == {j \in S : j <= i}

\* The n-th position is one, and has n up to itself; every position is some n-th.
LEMMA Ranks ==
    ASSUME NEW S \in SUBSET Nat, IsFiniteSet(S)
    PROVE  /\ Cardinality(S) \in Nat
           /\ InOrder(S) \in [1 .. Cardinality(S) -> S]
           /\ \A n \in 1 .. Cardinality(S) : Cardinality(UpTo(S, InOrder(S)[n])) = n
           /\ \A i \in S : /\ Cardinality(UpTo(S, i)) \in 1 .. Cardinality(S)
                           /\ InOrder(S)[Cardinality(UpTo(S, i))] = i
<1> DEFINE c == Cardinality(S)
           rank == [i \in S |-> Cardinality(UpTo(S, i))]
<1>1. c \in Nat
  BY FS_CardinalityType
<1>2. ASSUME NEW i \in S PROVE rank[i] \in 1 .. c
  <2>1. UpTo(S, i) \in SUBSET S /\ UpTo(S, i) # {}
    BY DEF UpTo
  <2>2. IsFiniteSet(UpTo(S, i)) /\ Cardinality(UpTo(S, i)) <= c
    BY <2>1, FS_Subset
  <2>3. Cardinality(UpTo(S, i)) \in Nat /\ Cardinality(UpTo(S, i)) # 0
    BY <2>1, <2>2, FS_CardinalityType, FS_EmptySet
  <2> QED BY <1>1, <2>2, <2>3
<1>3. ASSUME NEW i \in S, NEW j \in S, i < j PROVE rank[i] # rank[j]
  <2>1. UpTo(S, i) \in SUBSET UpTo(S, j) /\ UpTo(S, j) \in SUBSET S
    <3>1. \A k \in S : k <= i => k <= j
      BY <1>3
    <3> QED BY <3>1 DEF UpTo
  <2>2. j \in UpTo(S, j) /\ j \notin UpTo(S, i)
    BY <1>3 DEF UpTo
  <2>3. IsFiniteSet(UpTo(S, j))
    BY <2>1, FS_Subset
  <2>4. Cardinality(UpTo(S, j)) # Cardinality(UpTo(S, i))
    BY <2>1, <2>2, <2>3, FS_Subset
  <2> QED BY <2>4
<1>4. \A i, j \in S : rank[i] = rank[j] => i = j
  <2> SUFFICES ASSUME NEW i \in S, NEW j \in S, rank[i] = rank[j], i # j PROVE FALSE
    OBVIOUS
  <2>1. i < j \/ j < i
    OBVIOUS
  <2> QED BY <2>1, <1>3
<1> HIDE DEF rank
<1>5. rank \in [S -> 1 .. c]
  BY <1>2 DEF rank
<1>6. rank \in Injection(S, 1 .. c)
  BY <1>4, <1>5 DEF Injection, IsInjective
<1>7. IsFiniteSet(1 .. c) /\ Cardinality(1 .. c) = c
  BY <1>1, FS_Interval
<1>8. rank \in Surjection(S, 1 .. c)
  BY <1>6, <1>7, FS_Injection
<1>9. \A n \in 1 .. c : \E i \in S : rank[i] = n
  BY <1>8 DEF Surjection
<1>10. \A i \in S : rank[i] = Cardinality(UpTo(S, i)) /\ UpTo(S, i) = {j \in S : j <= i}
  BY DEF rank, UpTo
<1>11. \A n \in 1 .. c : \E i \in S : Cardinality({j \in S : j <= i}) = n
  BY <1>9, <1>10
<1>12. ASSUME NEW n \in 1 .. c
       PROVE InOrder(S)[n] \in S /\ Cardinality({j \in S : j <= InOrder(S)[n]}) = n
  <2>1. InOrder(S)[n] = CHOOSE i \in S : Cardinality({j \in S : j <= i}) = n
    BY DEF InOrder
  <2> HIDE DEF c
  <2> QED BY <1>11, <2>1, Zenon
<1> DEFINE Nth(n) == CHOOSE i \in S : Cardinality({j \in S : j <= i}) = n
<1>13. InOrder(S) = [n \in 1 .. c |-> Nth(n)]
  BY DEF InOrder
<1> HIDE DEF Nth
<1>14. InOrder(S) \in [1 .. c -> S]
  BY <1>12, <1>13
<1>15. \A n \in 1 .. c : rank[InOrder(S)[n]] = n
  BY <1>10, <1>12
<1>16. \A i \in S : InOrder(S)[rank[i]] = i
  BY <1>4, <1>5, <1>12, <1>15
<1> QED
  <2>1. \A n \in 1 .. c : Cardinality(UpTo(S, InOrder(S)[n])) = n
    BY <1>10, <1>12, <1>15
  <2>2. \A i \in S : Cardinality(UpTo(S, i)) \in 1 .. c /\ InOrder(S)[Cardinality(UpTo(S, i))] = i
    BY <1>5, <1>10, <1>16
  <2> QED BY <1>1, <1>14, <2>1, <2>2

\* Positions that move without passing one another keep their order.
LEMMA OrderMoves ==
    ASSUME NEW S \in SUBSET Nat, IsFiniteSet(S), NEW T \in SUBSET Nat,
           NEW f \in [S -> T], \A i, j \in S : i < j => f[i] < f[j],
           \A t \in T : \E i \in S : f[i] = t
    PROVE  /\ DOMAIN InOrder(T) = DOMAIN InOrder(S)
           /\ \A n \in DOMAIN InOrder(S) : InOrder(S)[n] \in S /\ InOrder(T)[n] = f[InOrder(S)[n]]
<1>1. \A i, j \in S : i <= j <=> f[i] <= f[j]
  <2> SUFFICES ASSUME NEW i \in S, NEW j \in S PROVE i <= j <=> f[i] <= f[j]
    OBVIOUS
  <2>1. i \in Nat /\ j \in Nat /\ f[i] \in Nat /\ f[j] \in Nat
    OBVIOUS
  <2>2. (i < j => f[i] < f[j]) /\ (j < i => f[j] < f[i])
    OBVIOUS
  <2> QED BY <2>1, <2>2
<1>2. \A i, j \in S : f[i] = f[j] => i = j
  BY <1>1
<1>3. f \in Bijection(S, T)
  BY <1>2 DEF Bijection, Injection, IsInjective, Surjection
<1>4. IsFiniteSet(T) /\ Cardinality(T) = Cardinality(S)
  BY <1>3, FS_Bijection DEF ExistsBijection
<1>5. ASSUME NEW i \in S PROVE Cardinality(UpTo(T, f[i])) = Cardinality(UpTo(S, i))
  <2> DEFINE g == [j \in UpTo(S, i) |-> f[j]]
  <2>1. g \in [UpTo(S, i) -> UpTo(T, f[i])]
    BY <1>1 DEF UpTo
  <2>2. \A t \in UpTo(T, f[i]) : \E j \in UpTo(S, i) : g[j] = t
    BY <1>1 DEF UpTo
  <2>3. \A j, k \in UpTo(S, i) : g[j] = g[k] => j = k
    BY <1>2 DEF UpTo
  <2> HIDE DEF g
  <2>4. g \in Bijection(UpTo(S, i), UpTo(T, f[i]))
    BY <2>1, <2>2, <2>3 DEF Bijection, Injection, IsInjective, Surjection
  <2>5. IsFiniteSet(UpTo(S, i))
    BY FS_Subset DEF UpTo
  <2> QED BY <2>4, <2>5, FS_Bijection DEF ExistsBijection
<1>6. DOMAIN InOrder(T) = 1 .. Cardinality(S) /\ DOMAIN InOrder(S) = 1 .. Cardinality(S)
  BY <1>4, Ranks
<1>7. ASSUME NEW n \in 1 .. Cardinality(S)
      PROVE InOrder(S)[n] \in S /\ InOrder(T)[n] = f[InOrder(S)[n]]
  <2>1. InOrder(S)[n] \in S /\ Cardinality(UpTo(S, InOrder(S)[n])) = n
    BY Ranks
  <2>2. Cardinality(UpTo(T, f[InOrder(S)[n]])) = n
    BY <1>5, <2>1
  <2>3. f[InOrder(S)[n]] \in T
    BY <2>1
  <2>4. \A t \in T : InOrder(T)[Cardinality(UpTo(T, t))] = t
    BY <1>4, Ranks
  <2> QED BY <2>1, <2>2, <2>3, <2>4
<1> QED BY <1>6, <1>7

\* Positions behind all the others do not disturb their order.
LEMMA OrderExtends ==
    ASSUME NEW S \in SUBSET Nat, NEW T \in SUBSET Nat, IsFiniteSet(S), IsFiniteSet(T),
           \A i \in S, j \in T : i < j
    PROVE  /\ Cardinality(S) \in Nat /\ Cardinality(S) <= Cardinality(S \cup T)
           /\ \A n \in 1 .. Cardinality(S) : InOrder(S)[n] \in S /\ InOrder(S \cup T)[n] = InOrder(S)[n]
           /\ \A n \in Cardinality(S) + 1 .. Cardinality(S \cup T) : InOrder(S \cup T)[n] \in T
<1>1. S \cup T \in SUBSET Nat /\ IsFiniteSet(S \cup T) /\ S \in SUBSET (S \cup T)
  BY FS_Union
<1>2. Cardinality(S) \in Nat /\ Cardinality(S) <= Cardinality(S \cup T)
  BY <1>1, FS_Subset, FS_CardinalityType
<1>3. ASSUME NEW i \in S PROVE UpTo(S \cup T, i) = UpTo(S, i)
  <2>1. \A j \in T : ~ (j <= i)
    OBVIOUS
  <2> QED BY <2>1 DEF UpTo
<1>4. ASSUME NEW n \in 1 .. Cardinality(S)
      PROVE InOrder(S)[n] \in S /\ InOrder(S \cup T)[n] = InOrder(S)[n]
  <2>1. InOrder(S)[n] \in S /\ Cardinality(UpTo(S, InOrder(S)[n])) = n
    BY Ranks
  <2>2. Cardinality(UpTo(S \cup T, InOrder(S)[n])) = n
    BY <1>3, <2>1
  <2>3. \A t \in S \cup T : InOrder(S \cup T)[Cardinality(UpTo(S \cup T, t))] = t
    BY <1>1, Ranks
  <2> QED BY <2>1, <2>2, <2>3
<1>5. ASSUME NEW n \in Cardinality(S) + 1 .. Cardinality(S \cup T), InOrder(S \cup T)[n] \in S
      PROVE FALSE
  <2> DEFINE i == InOrder(S \cup T)[n]
  <2>1. Cardinality(S \cup T) \in Nat /\ n \in 1 .. Cardinality(S \cup T)
    BY <1>1, <1>2, Ranks
  <2>2. Cardinality(UpTo(S \cup T, i)) = n
    BY <1>1, <2>1, Ranks
  <2>3. Cardinality(UpTo(S, i)) \in 1 .. Cardinality(S)
    BY <1>5, Ranks
  <2>4. UpTo(S \cup T, i) = UpTo(S, i)
    BY <1>3, <1>5
  <2>5. n \in 1 .. Cardinality(S)
    BY <2>2, <2>3, <2>4
  <2> QED BY <1>2, <2>5
<1>6. InOrder(S \cup T) \in [1 .. Cardinality(S \cup T) -> S \cup T]
  BY <1>1, Ranks
<1>7. \A n \in Cardinality(S) + 1 .. Cardinality(S \cup T) : InOrder(S \cup T)[n] \in T
  <2> SUFFICES ASSUME NEW n \in Cardinality(S) + 1 .. Cardinality(S \cup T)
               PROVE InOrder(S \cup T)[n] \in T
    OBVIOUS
  <2>1. Cardinality(S \cup T) \in Nat /\ n \in 1 .. Cardinality(S \cup T)
    BY <1>1, <1>2, Ranks
  <2>2. InOrder(S \cup T)[n] \in S \cup T
    BY <1>6, <2>1
  <2> QED BY <1>5, <2>2
<1> QED BY <1>2, <1>4, <1>7

LEMMA OrderOfOne == ASSUME NEW i \in Nat PROVE InOrder({i}) = <<i>>
<1>1. IsFiniteSet({i}) /\ Cardinality({i}) = 1
  BY FS_Singleton
<1>2. InOrder({i}) \in [1 .. 1 -> {i}]
  BY <1>1, Ranks
<1> QED BY <1>2

-----------------------------------------------------------------------------
\* Texts the renderer accepts.

LEMMA EndOfIsNext ==
    ASSUME NEW text \in Seq(Tokens), NEW s \in Nat, \E e \in Ends(text) : e > s
    PROVE  /\ EndOf(text, s) \in Ends(text) /\ EndOf(text, s) \in 1 .. Len(text) /\ EndOf(text, s) > s
           /\ \A e \in Ends(text) : e > s => EndOf(text, s) <= e
<1> DEFINE later == {e \in Ends(text) : e > s}
<1>1. later \in SUBSET Nat /\ later # {} /\ later \subseteq Ends(text) /\ Ends(text) \subseteq 1 .. Len(text)
  BY DEF Ends
<1>2. Min(later) \in later /\ \A e \in later : Min(later) <= e
  BY <1>1, Least
<1>3. EndOf(text, s) = Min(later)
  BY DEF EndOf
<1> QED BY <1>1, <1>2, <1>3

\* A key at the start of a line, which makes it a start if the line ends here.
Cut(text, i) == text[i] \in Keys /\ text[i - 1] = LF

\* What is known of an accepted text.
Readable(text) ==
    /\ \A s \in Starts(text) : EndOf(text, s) \in Ends(text) /\ s < EndOf(text, s)
    /\ \A s, t \in Starts(text) : s < t => EndOf(text, s) < t
    /\ \A e \in Ends(text) : \E s \in Starts(text) : EndOf(text, s) = e
    /\ \A s \in Starts(text) : s < EndOf(text, s) - 1 => ~ Cut(text, EndOf(text, s) - 1)

LEMMA AcceptedIsReadable ==
    ASSUME NEW text \in Seq(Tokens), _validate_markers(text)
    PROVE  Readable(text)
<1>1. Starts(text) \subseteq 1 .. Len(text) /\ Ends(text) \subseteq 1 .. Len(text) /\ Len(text) \in Nat
  BY DEF Starts, Ends
<1>2. \A s \in Starts(text) : EndOf(text, s) \in Ends(text) /\ s < EndOf(text, s)
  <2> SUFFICES ASSUME NEW s \in Starts(text)
               PROVE EndOf(text, s) \in Ends(text) /\ s < EndOf(text, s)
    OBVIOUS
  <2>1. s \in Nat /\ \E e \in Ends(text) : e > s
    BY <1>1 DEF _validate_markers
  <2> QED BY <1>1, <2>1, EndOfIsNext
<1>3. ASSUME NEW s \in Starts(text), NEW t \in Starts(text), s < t PROVE EndOf(text, s) < t
  <2> SUFFICES ASSUME ~ (EndOf(text, s) < t) PROVE FALSE
    OBVIOUS
  <2>1. EndOf(text, s) \in 1 .. Len(text) /\ text[EndOf(text, s)] = End
    BY <1>1, <1>2 DEF Ends
  <2>2. text[t] \in Keys /\ (t = 1 \/ text[t - 1] = LF) /\ (t + 1 = Len(text) + 1 \/ text[t + 1] = LF)
    BY DEF Starts, IsStart
  <2>3. End \notin Keys
    BY TokensAssumption
  <2>4. t \in s + 1 .. EndOf(text, s) - 1
    BY <1>1, <1>3, <2>1, <2>2, <2>3
  <2>5. ~ IsStart(text, t, EndOf(text, s))
    BY <2>4 DEF _validate_markers
  <2>6. text[t + 1] = LF
    BY <1>1, <2>1, <2>2, <2>4
  <2> QED BY <2>2, <2>5, <2>6 DEF IsStart
<1>4. ASSUME NEW e \in Ends(text) PROVE \E s \in Starts(text) : EndOf(text, s) = e
  <2> DEFINE closes == [s \in Starts(text) |-> EndOf(text, s)]
  <2>1. IsFiniteSet(1 .. Len(text))
    BY <1>1, FS_Interval
  <2>2. IsFiniteSet(Starts(text)) /\ IsFiniteSet(Ends(text))
    BY <1>1, <2>1, FS_Subset
  <2>3. closes \in [Starts(text) -> Ends(text)]
    BY <1>2
  <2>4. \A s, t \in Starts(text) : closes[s] = closes[t] => s = t
    <3> SUFFICES ASSUME NEW s \in Starts(text), NEW t \in Starts(text), closes[s] = closes[t], s # t
                 PROVE FALSE
      OBVIOUS
    <3>1. s \in Nat /\ t \in Nat /\ EndOf(text, s) \in Nat /\ EndOf(text, t) \in Nat
      BY <1>1, <1>2
    <3>2. s < t => EndOf(text, s) < t
      BY <1>3
    <3>3. t < s => EndOf(text, t) < s
      BY <1>3
    <3> QED BY <1>2, <3>1, <3>2, <3>3
  <2> HIDE DEF closes
  <2>5. closes \in Injection(Starts(text), Ends(text))
    BY <2>3, <2>4 DEF Injection, IsInjective
  <2>6. Cardinality(Starts(text)) = Cardinality(Ends(text))
    BY DEF _validate_markers
  <2>7. closes \in Surjection(Starts(text), Ends(text))
    BY <2>2, <2>5, <2>6, FS_Injection
  <2>8. \E s \in Starts(text) : closes[s] = e
    BY <2>7 DEF Surjection
  <2> QED BY <2>8 DEF closes
<1>5. ASSUME NEW s \in Starts(text), s < EndOf(text, s) - 1 PROVE ~ Cut(text, EndOf(text, s) - 1)
  <2> DEFINE e == EndOf(text, s)
  <2>1. s \in 1 .. Len(text) /\ e \in 1 .. Len(text) /\ s < e - 1
    BY <1>1, <1>2, <1>5
  <2>2. \A i \in s + 1 .. e - 1 : ~ IsStart(text, i, e)
    BY DEF _validate_markers
  <2> HIDE DEF e
  <2>3. e - 1 \in s + 1 .. e - 1 /\ (e - 1) + 1 = e
    BY <2>1
  <2>4. ~ Cut(text, e - 1)
    BY <2>2, <2>3 DEF IsStart, Cut
  <2> QED BY <2>4 DEF e
<1> QED BY <1>2, <1>3, <1>4, <1>5 DEF Readable

\* The last of the renderer's checks is what Readable says of it.
LEMMA AsManyEndsAsStarts ==
    ASSUME NEW text \in Seq(Tokens), Readable(text)
    PROVE  Cardinality(Ends(text)) = Cardinality(Starts(text))
<1> DEFINE closes == [s \in Starts(text) |-> EndOf(text, s)]
<1>1. Starts(text) \subseteq 1 .. Len(text) /\ Ends(text) \subseteq 1 .. Len(text) /\ Len(text) \in Nat
  BY DEF Starts, Ends
<1>2. IsFiniteSet(1 .. Len(text))
  BY <1>1, FS_Interval
<1>3. IsFiniteSet(Starts(text))
  BY <1>1, <1>2, FS_Subset
<1>4. closes \in [Starts(text) -> Ends(text)]
  BY DEF Readable
<1>5. ASSUME NEW s \in Starts(text), NEW t \in Starts(text), closes[s] = closes[t] PROVE s = t
  <2>1. s \in Nat /\ t \in Nat /\ EndOf(text, s) \in Nat /\ EndOf(text, t) \in Nat
    BY <1>1 DEF Readable
  <2>2. (s < t => EndOf(text, s) < t) /\ (t < s => EndOf(text, t) < s)
        /\ t < EndOf(text, t) /\ s < EndOf(text, s)
    BY DEF Readable
  <2>3. EndOf(text, s) = EndOf(text, t)
    BY <1>5
  <2> QED BY <2>1, <2>2, <2>3
<1>6. \A e \in Ends(text) : \E s \in Starts(text) : closes[s] = e
  BY DEF Readable
<1> HIDE DEF closes
<1>7. closes \in Bijection(Starts(text), Ends(text))
  BY <1>4, <1>5, <1>6 DEF Bijection, Injection, IsInjective, Surjection
<1> QED BY <1>3, <1>7, FS_Bijection DEF ExistsBijection

LEMMA ReadableIsAccepted ==
    ASSUME NEW text \in Seq(Tokens), Readable(text), Starts(text) # {}
    PROVE  _validate_markers(text)
<1>1. Starts(text) \subseteq 1 .. Len(text) /\ Ends(text) \subseteq 1 .. Len(text) /\ Len(text) \in Nat
      /\ DOMAIN text = 1 .. Len(text)
  BY DEF Starts, Ends
<1>2. ASSUME NEW s \in Starts(text), NEW i \in s + 1 .. EndOf(text, s) - 1, IsStart(text, i, EndOf(text, s))
      PROVE FALSE
  <2> DEFINE e == EndOf(text, s)
  <2>1. s \in 1 .. Len(text) /\ e \in 1 .. Len(text) /\ s < e
    BY <1>1 DEF Readable
  <2>2. ~ (s < i /\ e < i) /\ s < i /\ i \in DOMAIN text /\ i # 1
    BY <1>1, <2>1
  <2>3. i \notin Starts(text)
    BY <2>1, <2>2 DEF Readable
  <2>4. text[i] \in Keys /\ text[i - 1] = LF /\ (i + 1 = e \/ text[i + 1] = LF)
    BY <1>2, <2>2 DEF IsStart
  <2>5. text[i + 1] # LF
    BY <2>2, <2>3, <2>4 DEF Starts, IsStart
  <2>6. i = e - 1 /\ s < e - 1
    BY <2>1, <2>2, <2>4, <2>5
  <2>7. Cut(text, e - 1)
    BY <2>4, <2>6 DEF Cut
  <2> QED BY <2>6, <2>7 DEF Readable
<1>3. \A s \in Starts(text) : \E e \in Ends(text) : e > s
  <2>1. \A s \in Starts(text) : EndOf(text, s) \in Ends(text) /\ EndOf(text, s) > s
    BY <1>1 DEF Readable
  <2> QED BY <2>1
<1> QED BY <1>2, <1>3, AsManyEndsAsStarts DEF _validate_markers

-----------------------------------------------------------------------------
\* A block is put in the place of the positions a..z of a text, which are those
\* of a block or none.

Splice(text, a, z, b) == SubSeq(text, 1, a - 1) \o b \o SubSeq(text, z + 1, Len(text))

\* u is a text with b in the place of a..z, and what followed it moved by d.
IsSplice(u, text, a, z, b, d) ==
    /\ u \in Seq(Tokens) /\ text \in Seq(Tokens) /\ b \in Seq(Tokens)
    /\ a \in 1 .. Len(text) + 1 /\ z \in a - 1 .. Len(text)
    /\ d = Len(b) - (z - a + 1) /\ Len(u) = Len(text) + d
    /\ \A i \in 1 .. a - 1 : u[i] = text[i]
    /\ \A i \in a .. a + Len(b) - 1 : u[i] = b[i - a + 1]
    /\ \A i \in z + 1 .. Len(text) : u[i + d] = text[i]

LEMMA SpliceIsSplice ==
    ASSUME NEW text \in Seq(Tokens), NEW b \in Seq(Tokens),
           NEW a \in 1 .. Len(text) + 1, NEW z \in a - 1 .. Len(text)
    PROVE  IsSplice(Splice(text, a, z, b), text, a, z, b, Len(b) - (z - a + 1))
<1> DEFINE p == SubSeq(text, 1, a - 1)
           q == SubSeq(text, z + 1, Len(text))
           u == (p \o b) \o q
<1>1. Len(text) \in Nat /\ Len(b) \in Nat /\ a \in Nat /\ z \in Nat /\ a - 1 \in 0 .. Len(text)
  OBVIOUS
<1>2. p \in Seq(Tokens) /\ Len(p) = a - 1 /\ \A i \in 1 .. a - 1 : p[i] = text[i]
  BY <1>1
<1>3. q \in Seq(Tokens) /\ Len(q) = Len(text) - z /\ \A i \in 1 .. Len(text) - z : q[i] = text[z + i]
  BY <1>1
<1> HIDE DEF p, q
<1>4. /\ p \o b \in Seq(Tokens) /\ Len(p \o b) = a - 1 + Len(b)
      /\ \A i \in 1 .. a - 1 : (p \o b)[i] = text[i]
      /\ \A i \in a .. a + Len(b) - 1 : (p \o b)[i] = b[i - a + 1]
  <2>1. p \o b \in Seq(Tokens) /\ Len(p \o b) = a - 1 + Len(b)
    BY <1>1, <1>2, SMTT(40)
  <2>2. ASSUME NEW i \in 1 .. a - 1 PROVE (p \o b)[i] = text[i]
    BY <1>1, <1>2
  <2>3. ASSUME NEW i \in a .. a + Len(b) - 1 PROVE (p \o b)[i] = b[i - a + 1]
    <3>1. (p \o b)[i] = b[i - Len(p)]
      BY <1>1, <1>2
    <3> QED BY <1>1, <1>2, <3>1
  <2> QED BY <2>1, <2>2, <2>3
<1> DEFINE pb == p \o b
<1> HIDE DEF pb
<1>5. pb \in Seq(Tokens) /\ Len(pb) = a - 1 + Len(b)
  BY <1>4 DEF pb
<1>6. u = pb \o q /\ u = Splice(text, a, z, b)
  BY DEF pb, Splice, p, q
<1> HIDE DEF u
<1>7. u \in Seq(Tokens) /\ Len(u) = a - 1 + Len(b) + Len(text) - z
  <2>1. pb \o q \in Seq(Tokens) /\ Len(pb \o q) = Len(pb) + Len(q)
    BY <1>3, <1>5, ConcatProperties, Zenon
  <2> QED BY <1>1, <1>3, <1>5, <1>6, <2>1
<1>8. \A i \in 1 .. Len(pb) + Len(q) : u[i] = IF i <= Len(pb) THEN pb[i] ELSE q[i - Len(pb)]
  <2>1. pb \in Seq(Tokens) /\ q \in Seq(Tokens)
    BY <1>3, <1>5
  <2>2. \A i \in 1 .. Len(pb) + Len(q) : (pb \o q)[i] = IF i <= Len(pb) THEN pb[i] ELSE q[i - Len(pb)]
    BY <2>1, ConcatProperties, Zenon
  <2> QED BY <1>6, <2>2
<1>a. Len(pb) = a - 1 + Len(b) /\ Len(q) = Len(text) - z
  BY <1>3, <1>5
<1>b. Len(pb) \in Nat /\ Len(q) \in Nat
  BY <1>1, <1>a
<1>10. \A i \in 1 .. a - 1 + Len(b) : u[i] = pb[i]
  <2>1. \A i \in 1 .. Len(pb) : i \in 1 .. Len(pb) + Len(q) /\ i <= Len(pb)
    BY <1>b
  <2>2. \A i \in 1 .. Len(pb) : u[i] = pb[i]
    BY <1>8, <2>1
  <2> QED BY <1>a, <2>2
<1>9. ASSUME NEW i \in z + 1 .. Len(text) PROVE u[i + (Len(b) - (z - a + 1))] = text[i]
  <2> DEFINE j == i + (Len(b) - (z - a + 1))
  <2>1. j \in Len(pb) + 1 .. Len(pb) + Len(q) /\ j - Len(pb) = i - z
    BY <1>1, <1>3, <1>5
  <2> HIDE DEF j
  <2>2. u[j] = q[j - Len(pb)]
    <3>1. \A m, n \in Nat : \A x \in m + 1 .. m + n : x \in 1 .. m + n /\ ~ (x <= m)
      OBVIOUS
    <3>2. j \in 1 .. Len(pb) + Len(q) /\ ~ (j <= Len(pb))
      BY <1>b, <2>1, <3>1, Zenon
    <3> QED BY <1>8, <3>2
  <2>3. i - z \in 1 .. Len(text) - z /\ z + (i - z) = i
    BY <1>1
  <2>4. u[j] = text[i]
    BY <1>3, <2>1, <2>2, <2>3
  <2> QED BY <2>4 DEF j
<1>11. \A i \in 1 .. a - 1 : u[i] = text[i]
  BY <1>1, <1>4, <1>10 DEF pb
<1>12. \A i \in a .. a + Len(b) - 1 : u[i] = b[i - a + 1]
  BY <1>1, <1>4, <1>10, SMTT(40) DEF pb
<1>13. Len(u) = Len(text) + (Len(b) - (z - a + 1))
  BY <1>1, <1>7
<1> QED BY <1>6, <1>7, <1>9, <1>11, <1>12, <1>13 DEF IsSplice

\* The positions of a spliced text: before b, in b, after b.
LEMMA SplicePositions ==
    ASSUME NEW u, NEW text, NEW a, NEW z, NEW b, NEW d, IsSplice(u, text, a, z, b, d)
    PROVE  /\ a \in Nat /\ z \in Nat /\ d \in Int /\ Len(b) \in Nat /\ Len(text) \in Nat /\ Len(u) \in Nat
           /\ 1 <= a /\ a <= z + 1 /\ z <= Len(text) /\ z + d = a + Len(b) - 1 /\ Len(u) = Len(text) + d
           /\ DOMAIN text = 1 .. Len(text) /\ DOMAIN u = 1 .. Len(u) /\ DOMAIN b = 1 .. Len(b)
           /\ 1 .. a - 1 \subseteq DOMAIN u /\ 1 .. a - 1 \subseteq DOMAIN text
           /\ a .. a + Len(b) - 1 \subseteq DOMAIN u
           /\ \A i \in z + 1 .. Len(text) : i \in DOMAIN text /\ i + d \in DOMAIN u /\ i + d \notin 1 .. a + Len(b) - 1
           /\ \A j \in DOMAIN u : \/ j \in 1 .. a - 1
                                  \/ j \in a .. a + Len(b) - 1
                                  \/ \E i \in z + 1 .. Len(text) : j = i + d
<1>1. /\ u \in Seq(Tokens) /\ text \in Seq(Tokens) /\ b \in Seq(Tokens)
      /\ a \in 1 .. Len(text) + 1 /\ z \in a - 1 .. Len(text)
      /\ d = Len(b) - (z - a + 1) /\ Len(u) = Len(text) + d
  BY DEF IsSplice
<1>2. /\ Len(b) \in Nat /\ Len(text) \in Nat /\ Len(u) \in Nat
      /\ DOMAIN text = 1 .. Len(text) /\ DOMAIN u = 1 .. Len(u) /\ DOMAIN b = 1 .. Len(b)
  BY <1>1, LenProperties, Zenon
<1>3. d \in Int
  BY <1>1, <1>2
<1>4. /\ a \in Nat /\ z \in Nat /\ 1 <= a /\ a <= z + 1 /\ z <= Len(text) /\ z + d = a + Len(b) - 1
      /\ Len(u) = Len(text) + d
  BY <1>1, <1>2
<1>5. \A i \in 1 .. a - 1 : i \in 1 .. Len(u) /\ i \in 1 .. Len(text)
  BY <1>2, <1>3, <1>4, SMT
<1>6. \A i \in a .. a + Len(b) - 1 : i \in 1 .. Len(u)
  BY <1>2, <1>3, <1>4, SMT
<1>7. \A i \in z + 1 .. Len(text) : i \in 1 .. Len(text) /\ i + d \in 1 .. Len(u) /\ i + d \notin 1 .. a + Len(b) - 1
  BY <1>2, <1>3, <1>4, SMT
<1>8. ASSUME NEW j \in 1 .. Len(u), j \notin 1 .. a - 1, j \notin a .. a + Len(b) - 1
      PROVE \E i \in z + 1 .. Len(text) : j = i + d
  <2>1. j - d \in z + 1 .. Len(text) /\ j = (j - d) + d
    BY <1>2, <1>3, <1>4, <1>8, SMT
  <2> QED BY <2>1, Zenon
<1> QED BY <1>1, <1>2, <1>3, <1>4, <1>5, <1>6, <1>7, <1>8, Zenon

\* Where a block may be put: at the start of a line, outside the other blocks.
Gap(text, a, z) ==
    /\ Readable(text)
    /\ a = 1 \/ text[a - 1] = LF
    /\ z + 1 \notin Starts(text)
    /\ \A s \in Starts(text) : s < a => EndOf(text, s) < a
    /\ z = a - 1 \/ (a \in Starts(text) /\ z = EndOf(text, a))

\* A block of the key k, as _block makes them.
IsBlock(b, k) ==
    /\ k \in Keys /\ Len(b) >= 3
    /\ b[1] = k /\ b[2] = LF /\ b[Len(b)] = End
    /\ \A i \in 2 .. Len(b) - 1 : b[i] \notin Markers

LEMMA TokenFacts == /\ LF \notin Keys /\ LF \notin Markers /\ End \notin Keys /\ End \in Markers /\ End # LF
                    /\ Keys \subseteq Markers
<1>1. LF \in Breaks /\ End \in Markers /\ Keys \subseteq Markers
  BY DEF Breaks, Markers
<1>2. Keys \cap (Fields \cup Breaks \cup {End, Bad}) = {}
  BY TokensAssumption
<1>3. LF # End /\ LF # Bad
  BY DEF LF, End, Bad
<1> QED BY <1>1, <1>2, <1>3 DEF Markers

LEMMA SpliceStarts ==
    ASSUME NEW u, NEW text, NEW a, NEW z, NEW b, NEW d, NEW k,
           IsSplice(u, text, a, z, b, d), Gap(text, a, z), IsBlock(b, k)
    PROVE  /\ \A i \in 1 .. a - 1 : i \in Starts(u) <=> i \in Starts(text)
           /\ \A i \in a .. a + Len(b) - 1 : i \in Starts(u) <=> i = a
           /\ \A i \in z + 1 .. Len(text) : i + d \in Starts(u) <=> i \in Starts(text)
           /\ u[a] = k
<1>1. /\ \A i \in 1 .. a - 1 : u[i] = text[i]
      /\ \A i \in a .. a + Len(b) - 1 : u[i] = b[i - a + 1]
      /\ \A i \in z + 1 .. Len(text) : u[i + d] = text[i]
  BY DEF IsSplice
<1>2. k \in Keys /\ Len(b) >= 3 /\ b[1] = k /\ b[2] = LF /\ b[Len(b)] = End
      /\ \A i \in 2 .. Len(b) - 1 : b[i] \notin Markers
  BY DEF IsBlock
<1>3. a \in Nat /\ z \in Nat /\ d \in Int /\ Len(b) \in Nat /\ Len(text) \in Nat /\ Len(u) \in Nat
      /\ 1 <= a /\ a <= z + 1 /\ z <= Len(text) /\ z + d = a + Len(b) - 1 /\ Len(u) = Len(text) + d
  BY SplicePositions
<1>a. /\ 1 .. a - 1 \subseteq DOMAIN u /\ 1 .. a - 1 \subseteq DOMAIN text
      /\ a .. a + Len(b) - 1 \subseteq DOMAIN u
      /\ \A i \in z + 1 .. Len(text) : i \in DOMAIN text /\ i + d \in DOMAIN u
  BY SplicePositions
<1>4. a \in a .. a + Len(b) - 1 /\ a + 1 \in a .. a + Len(b) - 1 /\ a + Len(b) - 1 \in a .. a + Len(b) - 1
      /\ a - a + 1 = 1 /\ (a + 1) - a + 1 = 2 /\ (a + Len(b) - 1) - a + 1 = Len(b)
  BY <1>2, <1>3, SMT
<1>5. u[a] = k /\ u[a + 1] = LF /\ u[a + Len(b) - 1] = End
  <2>1. u[a] = b[a - a + 1] /\ u[a + 1] = b[(a + 1) - a + 1] /\ u[a + Len(b) - 1] = b[(a + Len(b) - 1) - a + 1]
    BY <1>1, <1>4, Zenon
  <2> QED BY <1>2, <1>4, <2>1, Zenon
<1>6. ASSUME NEW i \in 1 .. a - 1 PROVE i \in Starts(u) <=> i \in Starts(text)
  <2>1. i \in DOMAIN u /\ i \in DOMAIN text /\ u[i] = text[i]
    BY <1>1, <1>a
  <2>2. CASE i = a - 1
    <3>1. text[i] = LF
      BY <2>2, <1>3 DEF Gap
    <3> QED BY <2>1, <3>1, TokenFacts DEF Starts, IsStart
  <2>3. CASE i # a - 1
    <3>1. i + 1 \in 1 .. a - 1 /\ i + 1 # Len(u) + 1 /\ i + 1 # Len(text) + 1 /\ (i = 1 \/ i - 1 \in 1 .. a - 1)
      BY <2>3, <1>3, SMT
    <3>2. u[i + 1] = text[i + 1] /\ (i = 1 \/ u[i - 1] = text[i - 1])
      BY <1>1, <3>1
    <3> QED BY <2>1, <3>1, <3>2 DEF Starts, IsStart
  <2> QED BY <2>2, <2>3
<1>7. a \in Starts(u)
  <2>1. a = 1 \/ (a - 1 \in 1 .. a - 1 /\ text[a - 1] = LF)
    BY <1>3 DEF Gap
  <2>2. a = 1 \/ u[a - 1] = LF
    BY <1>1, <2>1
  <2>3. a \in DOMAIN u
    BY <1>4, <1>a
  <2> QED BY <1>2, <1>5, <2>2, <2>3 DEF Starts, IsStart
<1>8. ASSUME NEW i \in a .. a + Len(b) - 1, i # a PROVE i \notin Starts(u)
  <2>1. i - a + 1 \in 2 .. Len(b) - 1 \/ i - a + 1 = Len(b)
    BY <1>3, <1>8, SMT
  <2>2. b[i - a + 1] \notin Keys
    BY <1>2, <2>1, TokenFacts
  <2> QED BY <1>1, <2>2 DEF Starts, IsStart
<1>9. ASSUME NEW i \in z + 1 .. Len(text) PROVE i + d \in Starts(u) <=> i \in Starts(text)
  <2>1. i + d \in DOMAIN u /\ i \in DOMAIN text /\ u[i + d] = text[i]
    BY <1>1, <1>a
  <2>2. CASE i = z + 1
    <3>1. (i + d) - 1 = a + Len(b) - 1 /\ i + d # 1
      BY <1>2, <1>3, <2>2, SMT
    <3>2. u[(i + d) - 1] # LF
      BY <1>5, <3>1, TokenFacts
    <3>3. i \notin Starts(text)
      BY <2>2 DEF Gap
    <3> DEFINE j == i + d
    <3>4. j # 1 /\ u[j - 1] # LF
      BY <3>1, <3>2
    <3> HIDE DEF j
    <3>5. j \notin Starts(u)
      BY <3>4 DEF Starts, IsStart
    <3> QED BY <3>3, <3>5 DEF j
  <2>3. CASE i # z + 1
    <3>1. i # 1 /\ i + d # 1 /\ i - 1 \in z + 1 .. Len(text) /\ (i - 1) + d = (i + d) - 1
      BY <1>2, <1>3, <2>3, SMT
    <3>2. u[(i + d) - 1] = text[i - 1]
      BY <1>1, <3>1
    <3>3. (i + d + 1 = Len(u) + 1 <=> i + 1 = Len(text) + 1)
          /\ (i + 1 = Len(text) + 1 \/ (i + 1 \in z + 1 .. Len(text) /\ (i + 1) + d = (i + d) + 1))
      BY <1>3, SMT
    <3>4. i + 1 = Len(text) + 1 \/ u[i + d + 1] = text[i + 1]
      BY <1>1, <3>3
    <3> DEFINE j == i + d
    <3>5. /\ j \in DOMAIN u /\ u[j] = text[i] /\ j # 1 /\ u[j - 1] = text[i - 1]
          /\ (j + 1 = Len(u) + 1 <=> i + 1 = Len(text) + 1)
          /\ (i + 1 = Len(text) + 1 \/ u[j + 1] = text[i + 1])
      BY <2>1, <3>1, <3>2, <3>3, <3>4
    <3> HIDE DEF j
    <3>6. j \in Starts(u) <=> i \in Starts(text)
      BY <2>1, <3>1, <3>5 DEF Starts, IsStart
    <3> QED BY <3>6 DEF j
  <2> QED BY <2>2, <2>3
<1> QED BY <1>5, <1>6, <1>7, <1>8, <1>9

LEMMA SpliceEnds ==
    ASSUME NEW u, NEW text, NEW a, NEW z, NEW b, NEW d, NEW k,
           IsSplice(u, text, a, z, b, d), IsBlock(b, k)
    PROVE  /\ \A i \in 1 .. a - 1 : i \in Ends(u) <=> i \in Ends(text)
           /\ \A i \in a .. a + Len(b) - 1 : i \in Ends(u) <=> i = a + Len(b) - 1
           /\ \A i \in z + 1 .. Len(text) : i + d \in Ends(u) <=> i \in Ends(text)
<1>1. /\ \A i \in 1 .. a - 1 : u[i] = text[i]
      /\ \A i \in a .. a + Len(b) - 1 : u[i] = b[i - a + 1]
      /\ \A i \in z + 1 .. Len(text) : u[i + d] = text[i]
  BY DEF IsSplice
<1>2. k \in Keys /\ Len(b) >= 3 /\ b[1] = k /\ b[Len(b)] = End /\ \A i \in 2 .. Len(b) - 1 : b[i] \notin Markers
  BY DEF IsBlock
<1>3. ASSUME NEW i \in a .. a + Len(b) - 1 PROVE i \in Ends(u) <=> i = a + Len(b) - 1
  <2>1. a \in Nat /\ Len(b) \in Nat /\ a .. a + Len(b) - 1 \subseteq DOMAIN u
    BY SplicePositions
  <2>2. i - a + 1 \in 2 .. Len(b) - 1 \/ i - a + 1 = 1 \/ i - a + 1 = Len(b)
    BY <2>1, SMT
  <2>3. i - a + 1 = Len(b) <=> i = a + Len(b) - 1
    BY <2>1, SMT
  <2>4. b[i - a + 1] = End <=> i - a + 1 = Len(b)
    BY <1>2, <2>2, TokenFacts
  <2> QED BY <1>1, <2>1, <2>3, <2>4 DEF Ends
<1>4. /\ 1 .. a - 1 \subseteq DOMAIN u /\ 1 .. a - 1 \subseteq DOMAIN text
      /\ \A i \in z + 1 .. Len(text) : i \in DOMAIN text /\ i + d \in DOMAIN u
  BY SplicePositions
<1> QED BY <1>1, <1>3, <1>4 DEF Ends
LEMMA EndIs ==
    ASSUME NEW text \in Seq(Tokens), NEW s \in Nat, NEW e \in Ends(text), e > s,
           \A f \in Ends(text) : f > s => e <= f
    PROVE  EndOf(text, s) = e
<1>1. /\ EndOf(text, s) \in Ends(text) /\ EndOf(text, s) \in 1 .. Len(text) /\ EndOf(text, s) > s
      /\ \A f \in Ends(text) : f > s => EndOf(text, s) <= f
  BY EndOfIsNext
<1>2. e \in 1 .. Len(text)
  BY DEF Ends
<1>3. EndOf(text, s) <= e /\ e <= EndOf(text, s)
  BY <1>1
<1> QED BY <1>1, <1>2, <1>3

LEMMA SpliceEndOf ==
    ASSUME NEW u, NEW text, NEW a, NEW z, NEW b, NEW d, NEW k,
           IsSplice(u, text, a, z, b, d), Gap(text, a, z), IsBlock(b, k)
    PROVE  /\ \A s \in Starts(text) : s < a => EndOf(u, s) = EndOf(text, s)
           /\ EndOf(u, a) = a + Len(b) - 1
           /\ \A s \in Starts(text) : s > z => EndOf(u, s + d) = EndOf(text, s) + d
<1>1. u \in Seq(Tokens) /\ text \in Seq(Tokens)
  BY DEF IsSplice
<1>2. a \in Nat /\ z \in Nat /\ d \in Int /\ Len(b) \in Nat /\ Len(text) \in Nat /\ Len(u) \in Nat
      /\ 1 <= a /\ a <= z + 1 /\ z <= Len(text) /\ z + d = a + Len(b) - 1 /\ Len(u) = Len(text) + d
  BY SplicePositions
<1>3. Len(b) >= 3
  BY DEF IsBlock
<1>4. Ends(u) \subseteq 1 .. Len(u) /\ Ends(text) \subseteq 1 .. Len(text) /\ Starts(text) \subseteq 1 .. Len(text)
  BY <1>1 DEF Ends, Starts
<1>5. \A j \in Ends(u) : \/ j \in 1 .. a - 1 /\ j \in Ends(text)
                         \/ j = a + Len(b) - 1
                         \/ \E i \in z + 1 .. Len(text) : j = i + d /\ i \in Ends(text)
  <2> SUFFICES ASSUME NEW j \in Ends(u)
               PROVE  \/ j \in 1 .. a - 1 /\ j \in Ends(text)
                      \/ j = a + Len(b) - 1
                      \/ \E i \in z + 1 .. Len(text) : j = i + d /\ i \in Ends(text)
    OBVIOUS
  <2>1. j \in DOMAIN u
    BY DEF Ends
  <2>2. \/ j \in 1 .. a - 1
        \/ j \in a .. a + Len(b) - 1
        \/ \E i \in z + 1 .. Len(text) : j = i + d
    BY <2>1, SplicePositions
  <2> QED BY <2>2, SpliceEnds
<1>6. /\ \A i \in 1 .. a - 1 : i \in Ends(text) => i \in Ends(u)
      /\ a + Len(b) - 1 \in Ends(u)
      /\ \A i \in z + 1 .. Len(text) : i \in Ends(text) => i + d \in Ends(u)
  <2>1. a + Len(b) - 1 \in a .. a + Len(b) - 1
    BY <1>2, <1>3
  <2> QED BY <2>1, SpliceEnds
<1>7. \A s \in Starts(text) : s < a => EndOf(text, s) < a
  BY DEF Gap
<1>8. \A s \in Starts(text) : EndOf(text, s) \in Ends(text) /\ s < EndOf(text, s)
  BY DEF Gap, Readable
<1>9. ASSUME NEW s \in Starts(text) PROVE \A f \in Ends(text) : f > s => EndOf(text, s) <= f
  <2>1. s \in Nat /\ \E e \in Ends(text) : e > s
    BY <1>4, <1>8
  <2> QED BY <1>1, <2>1, EndOfIsNext
<1>10. ASSUME NEW s \in Starts(text), s < a PROVE EndOf(u, s) = EndOf(text, s)
  <2> DEFINE e == EndOf(text, s)
  <2>1. e \in 1 .. a - 1 /\ e \in Ends(text) /\ e \in Ends(u) /\ e > s /\ s \in Nat
    BY <1>2, <1>4, <1>6, <1>7, <1>8, <1>10
  <2>2. \A f \in Ends(text) : f > s => e <= f
    BY <1>9
  <2> HIDE DEF e
  <2>3. ASSUME NEW f \in Ends(u), f > s PROVE e <= f
    <3>1. CASE f \in 1 .. a - 1 /\ f \in Ends(text)
      BY <2>2, <2>3, <3>1
    <3>2. CASE f = a + Len(b) - 1
      BY <1>2, <1>3, <2>1, <3>2
    <3>3. CASE \E i \in z + 1 .. Len(text) : f = i + d /\ i \in Ends(text)
      BY <1>2, <1>3, <2>1, <3>3
    <3> QED BY <1>5, <3>1, <3>2, <3>3
  <2>4. EndOf(u, s) = e
    BY <1>1, <2>1, <2>3, EndIs
  <2> QED BY <2>4 DEF e
<1>11. EndOf(u, a) = a + Len(b) - 1
  <2> DEFINE e == a + Len(b) - 1
  <2>1. e \in Ends(u) /\ e > a /\ a \in Nat
    BY <1>2, <1>3, <1>6
  <2>2. ASSUME NEW f \in Ends(u), f > a PROVE e <= f
    <3>1. CASE f \in 1 .. a - 1
      BY <1>2, <2>2, <3>1
    <3>2. CASE f = a + Len(b) - 1
      BY <1>2, <3>2
    <3>3. CASE \E i \in z + 1 .. Len(text) : f = i + d /\ i \in Ends(text)
      BY <1>2, <3>3
    <3> QED BY <1>5, <3>1, <3>2, <3>3
  <2> HIDE DEF e
  <2>3. EndOf(u, a) = e
    BY <1>1, <2>1, <2>2, EndIs
  <2> QED BY <2>3 DEF e
<1>12. ASSUME NEW s \in Starts(text), s > z PROVE EndOf(u, s + d) = EndOf(text, s) + d
  <2>1. /\ EndOf(text, s) \in z + 1 .. Len(text) /\ EndOf(text, s) \in Ends(text)
        /\ EndOf(text, s) > s /\ s \in Nat /\ s \in z + 1 .. Len(text)
    BY <1>2, <1>4, <1>8, <1>12
  <2> DEFINE e == EndOf(text, s) + d
  <2>2. e \in Ends(u)
    BY <1>6, <2>1
  <2>3. e > s + d /\ s + d \in Nat /\ s + d > a + Len(b) - 1
    BY <1>2, <1>3, <2>1
  <2>4. ASSUME NEW f \in Ends(u), f > s + d PROVE e <= f
    <3>1. CASE f \in 1 .. a - 1
      BY <1>2, <1>3, <2>3, <2>4, <3>1
    <3>2. CASE f = a + Len(b) - 1
      BY <1>2, <2>3, <2>4, <3>2
    <3>3. ASSUME NEW i \in z + 1 .. Len(text), f = i + d, i \in Ends(text) PROVE e <= f
      <4>1. i > s
        BY <1>2, <2>1, <2>4, <3>3
      <4>2. EndOf(text, s) <= i
        BY <1>9, <3>3, <4>1
      <4> QED BY <1>2, <2>1, <3>3, <4>2
    <3> QED BY <1>5, <3>1, <3>2, <3>3
  <2> HIDE DEF e
  <2>5. EndOf(u, s + d) = e
    BY <1>1, <2>2, <2>3, <2>4, EndIs
  <2> QED BY <2>5 DEF e
<1> QED BY <1>10, <1>11, <1>12
\* The starts of a spliced text, and those of the text it is made from.
LEMMA SpliceStartsAre ==
    ASSUME NEW u, NEW text, NEW a, NEW z, NEW b, NEW d, NEW k,
           IsSplice(u, text, a, z, b, d), Gap(text, a, z), IsBlock(b, k)
    PROVE  /\ \A s \in Starts(u) : \/ s \in 1 .. a - 1 /\ s \in Starts(text)
                                   \/ s = a
                                   \/ \E i \in z + 1 .. Len(text) : s = i + d /\ i \in Starts(text)
           /\ \A s \in Starts(text) : \/ s \in 1 .. a - 1 /\ s \in Starts(u)
                                      \/ s = a /\ z = EndOf(text, a)
                                      \/ s \in z + 1 .. Len(text) /\ s + d \in Starts(u)
           /\ a \in Starts(u) /\ u[a] = k
<1>1. a \in Nat /\ z \in Nat /\ Len(text) \in Nat /\ Len(b) \in Nat /\ 1 <= a /\ a <= z + 1
  BY SplicePositions
<1>2. DOMAIN text = 1 .. Len(text) /\ \A s \in Starts(text) : s \in DOMAIN text
  BY SplicePositions DEF Starts
<1>3. Len(b) >= 3
  BY DEF IsBlock
<1>4. a \in a .. a + Len(b) - 1
  BY <1>1, <1>3
<1>5. \A s \in Starts(u) : \/ s \in 1 .. a - 1 /\ s \in Starts(text)
                           \/ s = a
                           \/ \E i \in z + 1 .. Len(text) : s = i + d /\ i \in Starts(text)
  <2> SUFFICES ASSUME NEW j \in Starts(u)
               PROVE  \/ j \in 1 .. a - 1 /\ j \in Starts(text)
                      \/ j = a
                      \/ \E i \in z + 1 .. Len(text) : j = i + d /\ i \in Starts(text)
    OBVIOUS
  <2>1. j \in DOMAIN u
    BY DEF Starts
  <2>2. \/ j \in 1 .. a - 1
        \/ j \in a .. a + Len(b) - 1
        \/ \E i \in z + 1 .. Len(text) : j = i + d
    BY <2>1, SplicePositions
  <2> QED BY <2>2, SpliceStarts
<1>6. ASSUME NEW s \in Starts(text), s \notin 1 .. a - 1, s \notin z + 1 .. Len(text)
      PROVE s = a /\ z = EndOf(text, a)
  <2>1. s \in Nat /\ a <= s /\ s <= z
    BY <1>1, <1>2, <1>6
  <2>2. a \in Starts(text) /\ z = EndOf(text, a)
    BY <1>1, <2>1 DEF Gap
  <2>3. ~ (a < s)
    BY <1>1, <2>1, <2>2 DEF Gap, Readable
  <2> QED BY <1>1, <2>1, <2>2, <2>3
<1>7. \A s \in Starts(text) : \/ s \in 1 .. a - 1 /\ s \in Starts(u)
                              \/ s = a /\ z = EndOf(text, a)
                              \/ s \in z + 1 .. Len(text) /\ s + d \in Starts(u)
  BY <1>6, SpliceStarts
<1>8. a \in Starts(u) /\ u[a] = k
  BY <1>4, SpliceStarts
<1> QED BY <1>5, <1>7, <1>8

\* A text with a block put into a gap of it is one the renderer accepts.
LEMMA SpliceIsAccepted ==
    ASSUME NEW u, NEW text, NEW a, NEW z, NEW b, NEW d, NEW k,
           IsSplice(u, text, a, z, b, d), Gap(text, a, z), IsBlock(b, k)
    PROVE  Readable(u) /\ _validate_markers(u)
<1>1. u \in Seq(Tokens) /\ text \in Seq(Tokens)
  BY DEF IsSplice
<1>2. a \in Nat /\ z \in Nat /\ d \in Int /\ Len(b) \in Nat /\ Len(text) \in Nat /\ Len(u) \in Nat
      /\ 1 <= a /\ a <= z + 1 /\ z <= Len(text) /\ z + d = a + Len(b) - 1 /\ Len(u) = Len(text) + d
  BY SplicePositions
<1>3. Len(b) >= 3 /\ \A i \in 2 .. Len(b) - 1 : b[i] \notin Markers
  BY DEF IsBlock
<1>4. /\ \A i \in 1 .. a - 1 : u[i] = text[i]
      /\ \A i \in a .. a + Len(b) - 1 : u[i] = b[i - a + 1]
      /\ \A i \in z + 1 .. Len(text) : u[i + d] = text[i]
  BY DEF IsSplice
<1>5. Ends(text) \subseteq 1 .. Len(text) /\ Starts(text) \subseteq 1 .. Len(text)
  BY <1>1 DEF Ends, Starts
<1>6. /\ \A s \in Starts(text) : EndOf(text, s) \in Ends(text) /\ s < EndOf(text, s)
      /\ \A s, t \in Starts(text) : s < t => EndOf(text, s) < t
      /\ \A e \in Ends(text) : \E s \in Starts(text) : EndOf(text, s) = e
      /\ \A s \in Starts(text) : s < EndOf(text, s) - 1 => ~ Cut(text, EndOf(text, s) - 1)
      /\ \A s \in Starts(text) : s < a => EndOf(text, s) < a
  BY DEF Gap, Readable
<1> DEFINE before(s) == s \in 1 .. a - 1 /\ s \in Starts(text)
           after(s, i) == i \in z + 1 .. Len(text) /\ s = i + d /\ i \in Starts(text)
<1>7. \A s \in Starts(u) : before(s) \/ s = a \/ \E i : after(s, i)
  BY SpliceStartsAre
<1>8. ASSUME NEW s, before(s)
      PROVE /\ EndOf(u, s) = EndOf(text, s) /\ EndOf(u, s) \in 1 .. a - 1 /\ EndOf(u, s) \in Ends(u) /\ s < EndOf(u, s)
            /\ EndOf(text, s) \in Ends(text)
  <2>1. s \in Nat /\ s < a
    BY <1>2, <1>8
  <2>2. EndOf(text, s) \in 1 .. a - 1 /\ EndOf(text, s) \in Ends(text) /\ s < EndOf(text, s)
    BY <1>2, <1>5, <1>6, <1>8, <2>1
  <2>3. EndOf(u, s) = EndOf(text, s)
    BY <1>8, <2>1, SpliceEndOf
  <2>4. EndOf(text, s) \in Ends(u)
    BY <2>2, SpliceEnds
  <2> QED BY <2>2, <2>3, <2>4
<1>9. /\ EndOf(u, a) = a + Len(b) - 1 /\ EndOf(u, a) \in Ends(u) /\ a < EndOf(u, a)
  <2>1. EndOf(u, a) = a + Len(b) - 1
    BY SpliceEndOf
  <2>2. a + Len(b) - 1 \in a .. a + Len(b) - 1 /\ a < a + Len(b) - 1
    BY <1>2, <1>3
  <2>3. a + Len(b) - 1 \in Ends(u)
    BY <2>2, SpliceEnds
  <2> QED BY <2>1, <2>2, <2>3
<1>10. ASSUME NEW s, NEW i, after(s, i)
       PROVE /\ EndOf(u, s) = EndOf(text, i) + d /\ EndOf(u, s) \in Ends(u) /\ s < EndOf(u, s)
             /\ EndOf(text, i) \in z + 1 .. Len(text) /\ EndOf(text, i) \in Ends(text) /\ i > z /\ i < EndOf(text, i)
  <2>1. i \in Nat /\ i > z
    BY <1>2, <1>10
  <2>2. EndOf(text, i) \in z + 1 .. Len(text) /\ EndOf(text, i) \in Ends(text) /\ i < EndOf(text, i)
    BY <1>2, <1>5, <1>6, <1>10, <2>1
  <2>3. EndOf(u, s) = EndOf(text, i) + d
    BY <1>10, <2>1, SpliceEndOf
  <2>4. EndOf(text, i) + d \in Ends(u)
    BY <2>2, SpliceEnds
  <2> QED BY <1>2, <1>10, <2>1, <2>2, <2>3, <2>4
<1>11. \A s \in Starts(u) : EndOf(u, s) \in Ends(u) /\ s < EndOf(u, s)
  BY <1>7, <1>8, <1>9, <1>10
<1>12. ASSUME NEW s \in Starts(u), NEW t \in Starts(u), s < t PROVE EndOf(u, s) < t
  <2>1. CASE before(s)
    <3>1. s \in 1 .. a - 1 /\ EndOf(u, s) < a /\ EndOf(u, s) \in Nat
      BY <1>2, <1>8, <2>1
    <3>2. CASE before(t)
      BY <1>6, <1>8, <1>12, <2>1, <3>2
    <3>3. CASE t = a
      BY <3>1, <3>3
    <3>4. ASSUME NEW j, after(t, j) PROVE EndOf(u, s) < t
      <4>1. t > a
        BY <1>2, <1>3, <3>4
      <4> QED BY <1>2, <3>1, <3>4, <4>1
    <3> QED BY <1>7, <3>2, <3>3, <3>4
  <2>2. CASE s = a
    <3>1. ~ before(t) /\ t # a
      BY <1>2, <1>12, <2>2
    <3>2. PICK j : after(t, j)
      BY <1>7, <3>1
    <3> QED BY <1>2, <1>9, <2>2, <3>2
  <2>3. ASSUME NEW i, after(s, i) PROVE EndOf(u, s) < t
    <3>1. s > a + Len(b) - 1 /\ s > a /\ s \in Int
      BY <1>2, <1>3, <2>3
    <3>2. ~ before(t) /\ t # a
      BY <1>2, <1>3, <1>12, <3>1
    <3>3. PICK j : after(t, j)
      BY <1>7, <3>2
    <3>4. i \in Starts(text) /\ j \in Starts(text) /\ i \in Nat /\ j \in Nat /\ i < j
      BY <1>2, <1>12, <2>3, <3>3
    <3>5. EndOf(text, i) < j /\ EndOf(text, i) \in Nat
      BY <1>2, <1>6, <1>10, <2>3, <3>4, SMTT(40)
    <3>6. EndOf(u, s) = EndOf(text, i) + d
      BY <1>10, <2>3
    <3> QED BY <1>2, <3>3, <3>4, <3>5, <3>6
  <2> QED BY <1>7, <2>1, <2>2, <2>3
<1>13. ASSUME NEW e \in Ends(u) PROVE \E s \in Starts(u) : EndOf(u, s) = e
  <2>1. \/ e \in 1 .. a - 1 /\ e \in Ends(text)
        \/ e = a + Len(b) - 1
        \/ \E i \in z + 1 .. Len(text) : e = i + d /\ i \in Ends(text)
    <3>1. e \in DOMAIN u
      BY DEF Ends
    <3>2. \/ e \in 1 .. a - 1
          \/ e \in a .. a + Len(b) - 1
          \/ \E i \in z + 1 .. Len(text) : e = i + d
      BY <3>1, SplicePositions
    <3> QED BY <3>2, SpliceEnds
  <2>2. CASE e \in 1 .. a - 1 /\ e \in Ends(text)
    <3>1. PICK s \in Starts(text) : EndOf(text, s) = e
      BY <1>6, <2>2
    <3>2. before(s)
      BY <1>2, <1>5, <1>6, <2>2, <3>1
    <3>3. s \in Starts(u)
      BY <3>2, SpliceStarts
    <3> QED BY <1>8, <3>1, <3>2, <3>3
  <2>3. CASE e = a + Len(b) - 1
    BY <1>9, <2>3, SpliceStartsAre
  <2>4. ASSUME NEW i \in z + 1 .. Len(text), e = i + d, i \in Ends(text)
        PROVE \E s \in Starts(u) : EndOf(u, s) = e
    <3>1. PICK s \in Starts(text) : EndOf(text, s) = i
      BY <1>6, <2>4
    <3>2. s \notin 1 .. a - 1
      BY <1>2, <1>6, <3>1
    <3>3. ~ (s = a /\ z = EndOf(text, a))
      BY <1>2, <3>1
    <3>4. s \in z + 1 .. Len(text) /\ s + d \in Starts(u)
      BY <3>2, <3>3, SpliceStartsAre
    <3>5. after(s + d, s)
      BY <3>4
    <3> QED BY <1>10, <2>4, <3>1, <3>4, <3>5
  <2> QED BY <2>1, <2>2, <2>3, <2>4
<1>14. ASSUME NEW s \in Starts(u), s < EndOf(u, s) - 1 PROVE ~ Cut(u, EndOf(u, s) - 1)
  <2>1. CASE before(s)
    <3> DEFINE e == EndOf(text, s)
    <3>1. EndOf(u, s) = e /\ e \in 1 .. a - 1 /\ s \in 1 .. a - 1 /\ s < e - 1
      BY <1>8, <1>14, <2>1
    <3>2. ~ Cut(text, e - 1)
      BY <1>6, <2>1, <3>1
    <3> HIDE DEF e
    <3>3. e - 1 \in 1 .. a - 1 /\ (e - 1) - 1 \in 1 .. a - 1
      BY <1>2, <3>1
    <3>4. ~ Cut(u, e - 1)
      BY <1>4, <3>2, <3>3 DEF Cut
    <3> QED BY <3>1, <3>4
  <2>2. CASE s = a
    <3> DEFINE i == a + Len(b) - 2
    <3>1. i \in a .. a + Len(b) - 1 /\ i - a + 1 \in 2 .. Len(b) - 1 /\ EndOf(u, a) - 1 = i
      BY <1>2, <1>3, <1>9
    <3>2. u[i] \notin Markers
      BY <1>3, <1>4, <3>1
    <3> HIDE DEF i
    <3>3. ~ Cut(u, i)
      BY <3>2, TokenFacts DEF Cut
    <3> QED BY <2>2, <3>1, <3>3
  <2>3. ASSUME NEW i, after(s, i) PROVE ~ Cut(u, EndOf(u, s) - 1)
    <3> DEFINE e == EndOf(text, i)
    <3>1. EndOf(u, s) = e + d /\ e \in z + 1 .. Len(text) /\ i \in Nat /\ i > z /\ i < e - 1
      BY <1>2, <1>10, <1>14, <2>3
    <3>2. ~ Cut(text, e - 1)
      BY <1>6, <2>3, <3>1
    <3> HIDE DEF e
    <3>3. e - 1 \in z + 1 .. Len(text) /\ (e - 1) - 1 \in z + 1 .. Len(text)
          /\ (e + d) - 1 = (e - 1) + d /\ ((e - 1) + d) - 1 = ((e - 1) - 1) + d
      BY <1>2, <3>1
    <3>4. u[(e - 1) + d] = text[e - 1] /\ u[((e - 1) + d) - 1] = text[(e - 1) - 1]
      BY <1>4, <3>3
    <3>5. ~ Cut(u, (e - 1) + d)
      BY <3>2, <3>4 DEF Cut
    <3> QED BY <3>1, <3>3, <3>5
  <2> QED BY <1>7, <2>1, <2>2, <2>3
<1>15. Readable(u)
  BY <1>11, <1>12, <1>13, <1>14 DEF Readable
<1> QED BY <1>1, <1>15, ReadableIsAccepted, SpliceStartsAre
LEMMA SubSeqSame ==
    ASSUME NEW u \in Seq(Tokens), NEW text \in Seq(Tokens), NEW e \in Int,
           NEW m \in 1 .. Len(text) + 1, NEW n \in m - 1 .. Len(text),
           m + e \in 1 .. Len(u) + 1, n + e \in m + e - 1 .. Len(u),
           \A i \in m .. n : u[i + e] = text[i]
    PROVE  SubSeq(u, m + e, n + e) = SubSeq(text, m, n)
<1> DEFINE x == m + e
           y == n + e
           p == SubSeq(text, m, n)
           q == SubSeq(u, x, y)
<1>1. x \in 1 .. Len(u) + 1 /\ y \in x - 1 .. Len(u) /\ Len(u) \in Nat /\ Len(text) \in Nat
      /\ m \in Nat /\ n \in Nat /\ x \in Nat /\ y \in Nat /\ x - m = e /\ y - x + 1 = n - m + 1 /\ n - m + 1 \in Nat
  OBVIOUS
<1>2. \A i \in m .. n : u[i + e] = text[i]
  OBVIOUS
<1> HIDE DEF x, y
<1>3. p \in Seq(Tokens) /\ Len(p) = n - m + 1 /\ \A i \in 1 .. n - m + 1 : p[i] = text[m + i - 1]
  BY <1>1, SubSeqProperties
<1>4. q \in Seq(Tokens) /\ Len(q) = y - x + 1 /\ \A i \in 1 .. y - x + 1 : q[i] = u[x + i - 1]
  BY <1>1, SubSeqProperties
<1> HIDE DEF p, q
<1>5. ASSUME NEW i \in 1 .. n - m + 1 PROVE q[i] = p[i]
  <2>1. m + i - 1 \in m .. n /\ (m + i - 1) + e = x + i - 1
    BY <1>1
  <2>2. u[x + i - 1] = text[m + i - 1]
    BY <1>2, <2>1
  <2>3. i \in 1 .. y - x + 1
    BY <1>1
  <2> QED BY <1>3, <1>4, <2>2, <2>3
<1>6. q = p
  BY <1>1, <1>3, <1>4, <1>5, SeqEqual
<1> QED BY <1>6 DEF p, q, x, y

-----------------------------------------------------------------------------
\* What a spliced text reads as.

Moved(i, a, d) == IF i < a THEN i ELSE i + d

LEMMA MovedInOrder ==
    ASSUME NEW u, NEW text, NEW a, NEW z, NEW b, NEW d, NEW k,
           IsSplice(u, text, a, z, b, d), IsBlock(b, k)
    PROVE  /\ \A i \in DOMAIN text : i \notin a .. z =>
                 /\ \/ i \in 1 .. a - 1 /\ Moved(i, a, d) = i
                    \/ i \in z + 1 .. Len(text) /\ Moved(i, a, d) = i + d
                 /\ Moved(i, a, d) \in DOMAIN u /\ u[Moved(i, a, d)] = text[i]
           /\ \A i, j \in DOMAIN text : i \notin a .. z /\ j \notin a .. z /\ i < j =>
                 Moved(i, a, d) < Moved(j, a, d)
<1>1. a \in Nat /\ z \in Nat /\ d \in Int /\ Len(b) \in Nat /\ Len(text) \in Nat
      /\ 1 <= a /\ a <= z + 1 /\ z <= Len(text) /\ z + d = a + Len(b) - 1 /\ DOMAIN text = 1 .. Len(text)
  BY SplicePositions
<1>2. Len(b) >= 3
  BY DEF IsBlock
<1>3. \A i \in DOMAIN text : i \notin a .. z =>
        \/ i \in 1 .. a - 1 /\ Moved(i, a, d) = i
        \/ i \in z + 1 .. Len(text) /\ Moved(i, a, d) = i + d
  BY <1>1 DEF Moved
<1>4. /\ \A i \in 1 .. a - 1 : i \in DOMAIN u /\ u[i] = text[i]
      /\ \A i \in z + 1 .. Len(text) : i + d \in DOMAIN u /\ u[i + d] = text[i]
  BY SplicePositions DEF IsSplice
<1>5. \A i \in DOMAIN text : i \notin a .. z => Moved(i, a, d) \in DOMAIN u /\ u[Moved(i, a, d)] = text[i]
  BY <1>3, <1>4
<1>6. \A i, j \in DOMAIN text : i \notin a .. z /\ j \notin a .. z /\ i < j => Moved(i, a, d) < Moved(j, a, d)
  BY <1>1, <1>2 DEF Moved
<1> QED BY <1>3, <1>5, <1>6

LEMMA SpliceInside ==
    ASSUME NEW u, NEW text, NEW a, NEW z, NEW b, NEW d, NEW k,
           IsSplice(u, text, a, z, b, d), Gap(text, a, z), IsBlock(b, k)
    PROVE  /\ \A i \in DOMAIN text : IF i \in a .. z THEN Inside(text, i)
                                     ELSE Inside(u, Moved(i, a, d)) <=> Inside(text, i)
           /\ \A j \in a .. a + Len(b) - 1 : Inside(u, j)
<1>1. a \in Nat /\ z \in Nat /\ d \in Int /\ Len(b) \in Nat /\ Len(text) \in Nat
      /\ 1 <= a /\ a <= z + 1 /\ z <= Len(text) /\ z + d = a + Len(b) - 1 /\ DOMAIN text = 1 .. Len(text)
  BY SplicePositions
<1>2. Len(b) >= 3
  BY DEF IsBlock
<1>3. /\ \A s \in Starts(u) : \/ s \in 1 .. a - 1 /\ s \in Starts(text)
                              \/ s = a
                              \/ \E i \in z + 1 .. Len(text) : s = i + d /\ i \in Starts(text)
      /\ \A s \in Starts(text) : \/ s \in 1 .. a - 1 /\ s \in Starts(u)
                                 \/ s = a /\ z = EndOf(text, a)
                                 \/ s \in z + 1 .. Len(text) /\ s + d \in Starts(u)
      /\ a \in Starts(u)
  BY SpliceStartsAre
<1>4. /\ \A s \in Starts(text) : s < a => EndOf(u, s) = EndOf(text, s)
      /\ EndOf(u, a) = a + Len(b) - 1
      /\ \A s \in Starts(text) : s > z => EndOf(u, s + d) = EndOf(text, s) + d
      /\ \A s \in Starts(text) : s < a => EndOf(text, s) < a
      /\ \A s \in Starts(text) : EndOf(text, s) \in 1 .. Len(text)
  <2>1. \A s \in Starts(text) : EndOf(text, s) \in 1 .. Len(text)
    BY <1>1 DEF Gap, Readable, Ends
  <2> QED BY <2>1, SpliceEndOf DEF Gap
<1>5. ASSUME NEW i \in a .. z PROVE Inside(text, i)
  <2>1. a <= i /\ i <= z /\ z # a - 1
    BY <1>1
  <2>2. a \in Starts(text) /\ z = EndOf(text, a)
    BY <2>1 DEF Gap
  <2> QED BY <2>1, <2>2 DEF Inside
<1>6. ASSUME NEW j \in a .. a + Len(b) - 1 PROVE Inside(u, j)
  <2>1. a <= j /\ j <= EndOf(u, a)
    BY <1>1, <1>4
  <2> QED BY <1>3, <2>1 DEF Inside
<1>7. ASSUME NEW i \in 1 .. a - 1 PROVE Inside(u, i) <=> Inside(text, i)
  <2>1. ASSUME NEW s \in Starts(u), s <= i, i <= EndOf(u, s) PROVE Inside(text, i)
    <3>1. s \in 1 .. a - 1 /\ s \in Starts(text)
      BY <1>1, <1>2, <1>3, <2>1
    <3>2. EndOf(u, s) = EndOf(text, s)
      BY <1>1, <1>4, <3>1
    <3> QED BY <2>1, <3>1, <3>2 DEF Inside
  <2>2. ASSUME NEW s \in Starts(text), s <= i, i <= EndOf(text, s) PROVE Inside(u, i)
    <3>1. s \in 1 .. a - 1 /\ s \in Starts(u)
      BY <1>1, <1>3, <2>2
    <3>2. EndOf(u, s) = EndOf(text, s)
      BY <1>1, <1>4, <3>1
    <3> QED BY <2>2, <3>1, <3>2 DEF Inside
  <2> QED BY <2>1, <2>2 DEF Inside
<1>8. ASSUME NEW i \in z + 1 .. Len(text) PROVE Inside(u, i + d) <=> Inside(text, i)
  <2>1. ASSUME NEW s \in Starts(u), s <= i + d, i + d <= EndOf(u, s) PROVE Inside(text, i)
    <3>1. ~ (s \in 1 .. a - 1 /\ s \in Starts(text))
      <4>1. CASE s \in 1 .. a - 1 /\ s \in Starts(text)
        <5>1. EndOf(u, s) = EndOf(text, s) /\ EndOf(text, s) < a /\ EndOf(text, s) \in Nat
          BY <1>1, <1>4, <4>1
        <5> QED BY <1>1, <1>2, <2>1, <5>1
      <4> QED BY <4>1
    <3>2. s # a
      BY <1>1, <1>4, <2>1
    <3>3. PICK t \in z + 1 .. Len(text) : s = t + d /\ t \in Starts(text)
      BY <1>3, <3>1, <3>2
    <3>4. EndOf(u, s) = EndOf(text, t) + d /\ EndOf(text, t) \in Nat
      BY <1>1, <1>4, <3>3
    <3>5. t <= i /\ i <= EndOf(text, t)
      BY <1>1, <2>1, <3>3, <3>4
    <3> QED BY <3>3, <3>5 DEF Inside
  <2>2. ASSUME NEW s \in Starts(text), s <= i, i <= EndOf(text, s) PROVE Inside(u, i + d)
    <3>1. ~ (s \in 1 .. a - 1 /\ s \in Starts(u)) /\ ~ (s = a /\ z = EndOf(text, a))
      BY <1>1, <1>4, <2>2
    <3>2. s \in z + 1 .. Len(text) /\ s + d \in Starts(u)
      BY <1>3, <3>1
    <3>3. EndOf(u, s + d) = EndOf(text, s) + d /\ EndOf(text, s) \in Nat
      BY <1>1, <1>4, <3>2
    <3>4. s + d <= i + d /\ i + d <= EndOf(u, s + d)
      BY <1>1, <2>2, <3>2, <3>3
    <3> QED BY <3>2, <3>4 DEF Inside
  <2> QED BY <2>1, <2>2 DEF Inside
<1>9. ASSUME NEW i \in DOMAIN text, i \notin a .. z PROVE Inside(u, Moved(i, a, d)) <=> Inside(text, i)
  BY <1>7, <1>8, <1>9, MovedInOrder
<1> QED BY <1>5, <1>6, <1>9

\* The human text around a block stays as it is.
LEMMA SpliceHuman ==
    ASSUME NEW u, NEW text, NEW a, NEW z, NEW b, NEW d, NEW k,
           IsSplice(u, text, a, z, b, d), Gap(text, a, z), IsBlock(b, k)
    PROVE  Human(u) = Human(text)
<1> DEFINE S == {i \in DOMAIN text : ~ Inside(text, i)}
           T == {j \in DOMAIN u : ~ Inside(u, j)}
           f == [i \in S |-> Moved(i, a, d)]
<1>1. /\ DOMAIN text = 1 .. Len(text) /\ Len(text) \in Nat /\ DOMAIN u = 1 .. Len(u) /\ Len(u) \in Nat
      /\ d \in Int /\ a \in Nat /\ z \in Nat /\ Len(b) \in Nat
  BY SplicePositions
<1>2. S \in SUBSET Nat /\ IsFiniteSet(S) /\ T \in SUBSET Nat
  <2>1. IsFiniteSet(1 .. Len(text)) /\ S \subseteq 1 .. Len(text)
    BY <1>1, FS_Interval
  <2>2. IsFiniteSet(S)
    BY <2>1, FS_Subset
  <2> QED BY <1>1, <2>2
<1>3. \A i \in S : i \in DOMAIN text /\ i \notin a .. z /\ ~ Inside(text, i)
  BY SpliceInside
<1>4. \A i \in S : Moved(i, a, d) \in T /\ u[Moved(i, a, d)] = text[i]
  BY <1>3, MovedInOrder, SpliceInside
<1>5. f \in [S -> T] /\ \A i \in S : f[i] = Moved(i, a, d)
  BY <1>4
<1>6. \A i, j \in S : i < j => f[i] < f[j]
  BY <1>3, <1>5, MovedInOrder
<1>7. ASSUME NEW t \in T PROVE \E i \in S : f[i] = t
  <2>1. t \in DOMAIN u /\ ~ Inside(u, t) /\ t \notin a .. a + Len(b) - 1
    BY SpliceInside
  <2>2. t \in 1 .. a - 1 \/ \E i \in z + 1 .. Len(text) : t = i + d
    BY <2>1, SplicePositions
  <2>3. PICK i \in DOMAIN text : i \notin a .. z /\ Moved(i, a, d) = t
    <3>1. CASE t \in 1 .. a - 1
      <4>1. t \in DOMAIN text /\ t \notin a .. z /\ Moved(t, a, d) = t
        <5>1. a <= z + 1 /\ z <= Len(text)
          BY SplicePositions
        <5> QED BY <1>1, <3>1, <5>1 DEF Moved
      <4> QED BY <4>1
    <3>2. ASSUME NEW i \in z + 1 .. Len(text), t = i + d
          PROVE i \in DOMAIN text /\ i \notin a .. z /\ Moved(i, a, d) = t
      <4>1. a <= z + 1
        BY SplicePositions
      <4> QED BY <1>1, <3>2, <4>1 DEF Moved
    <3> QED BY <2>2, <3>1, <3>2
  <2>4. ~ Inside(text, i)
    BY <2>1, <2>3, SpliceInside
  <2> QED BY <1>5, <2>3, <2>4
<1>8. Human(text) = [n \in DOMAIN InOrder(S) |-> text[InOrder(S)[n]]]
      /\ Human(u) = [n \in DOMAIN InOrder(T) |-> u[InOrder(T)[n]]]
  BY DEF Human
<1> HIDE DEF S, T, f
<1>9. DOMAIN InOrder(T) = DOMAIN InOrder(S)
      /\ \A n \in DOMAIN InOrder(S) : InOrder(S)[n] \in S /\ InOrder(T)[n] = f[InOrder(S)[n]]
  BY <1>2, <1>5, <1>6, <1>7, OrderMoves
<1>10. \A n \in DOMAIN InOrder(S) : u[InOrder(T)[n]] = text[InOrder(S)[n]]
  BY <1>4, <1>5, <1>9
<1> QED BY <1>8, <1>9, <1>10

\* The block is the only one of its key.
Own(text, a, z, k) ==
    /\ \A s \in Starts(text) : text[s] = k => s = a
    /\ z # a - 1 => text[a] = k

\* The other blocks stay as they are.
LEMMA SpliceOthers ==
    ASSUME NEW u, NEW text, NEW a, NEW z, NEW b, NEW d, NEW k,
           IsSplice(u, text, a, z, b, d), Gap(text, a, z), IsBlock(b, k), Own(text, a, z, k)
    PROVE  OfOthers(u, k) = OfOthers(text, k)
<1> DEFINE S == Starts(text) \ BlocksOf(text, k)
           T == Starts(u) \ BlocksOf(u, k)
           f == [i \in S |-> Moved(i, a, d)]
<1>1. /\ DOMAIN text = 1 .. Len(text) /\ Len(text) \in Nat /\ DOMAIN u = 1 .. Len(u) /\ Len(u) \in Nat
      /\ d \in Int /\ a \in Nat /\ z \in Nat /\ Len(b) \in Nat
      /\ 1 <= a /\ a <= z + 1 /\ z <= Len(text) /\ z + d = a + Len(b) - 1 /\ Len(u) = Len(text) + d
  BY SplicePositions
<1>2. u \in Seq(Tokens) /\ text \in Seq(Tokens)
  BY DEF IsSplice
<1>3. S = {s \in Starts(text) : text[s] # k} /\ T = {s \in Starts(u) : u[s] # k}
  BY DEF BlocksOf
<1>4. S \in SUBSET Nat /\ IsFiniteSet(S) /\ T \in SUBSET Nat
  <2>1. IsFiniteSet(1 .. Len(text)) /\ S \subseteq 1 .. Len(text)
    BY <1>1, FS_Interval DEF Starts
  <2>2. IsFiniteSet(S)
    BY <2>1, FS_Subset
  <2>3. T \subseteq 1 .. Len(u)
    BY <1>1 DEF Starts
  <2> QED BY <1>1, <2>1, <2>2, <2>3
<1>5. ASSUME NEW i \in S
      PROVE /\ i \in Starts(text) /\ i \in DOMAIN text /\ i \notin a .. z /\ Moved(i, a, d) \in T
            /\ EndOf(u, Moved(i, a, d)) = Moved(EndOf(text, i), a, d)
            /\ i < EndOf(text, i) /\ EndOf(text, i) \in DOMAIN text
            /\ \/ i \in 1 .. a - 1 /\ EndOf(text, i) \in 1 .. a - 1
               \/ i \in z + 1 .. Len(text) /\ EndOf(text, i) \in z + 1 .. Len(text)
  <2>1. i \in Starts(text) /\ text[i] # k /\ i \in DOMAIN text
    BY <1>3 DEF Starts
  <2>2. i < EndOf(text, i) /\ EndOf(text, i) \in 1 .. Len(text)
    BY <1>1, <2>1 DEF Gap, Readable, Ends
  <2>3. ~ (i = a /\ z = EndOf(text, a))
    <3>1. ASSUME i = a, z = EndOf(text, a) PROVE FALSE
      <4>1. z # a - 1
        BY <1>1, <2>2, <3>1
      <4> QED BY <2>1, <3>1, <4>1 DEF Own
    <3> QED BY <3>1
  <2>4. \/ i \in 1 .. a - 1 /\ i \in Starts(u)
        \/ i \in z + 1 .. Len(text) /\ i + d \in Starts(u)
    BY <2>1, <2>3, SpliceStartsAre
  <2>5. i \notin a .. z
    BY <1>1, <2>4
  <2>6. Moved(i, a, d) \in T
    <3>1. Moved(i, a, d) \in Starts(u)
      BY <1>1, <2>4 DEF Moved
    <3>2. u[Moved(i, a, d)] = text[i]
      BY <2>1, <2>5, MovedInOrder
    <3> QED BY <1>3, <2>1, <3>1, <3>2
  <2>7. CASE i \in 1 .. a - 1
    <3>1. EndOf(text, i) < a /\ EndOf(u, i) = EndOf(text, i)
      BY <1>1, <2>1, <2>7, SpliceEndOf DEF Gap
    <3>2. Moved(i, a, d) = i /\ Moved(EndOf(text, i), a, d) = EndOf(text, i)
      BY <1>1, <2>7, <3>1 DEF Moved
    <3> QED BY <1>1, <2>1, <2>2, <2>5, <2>6, <2>7, <3>1, <3>2
  <2>8. CASE i \in z + 1 .. Len(text)
    <3>1. EndOf(u, i + d) = EndOf(text, i) + d
      BY <1>1, <2>1, <2>8, SpliceEndOf
    <3>2. Moved(i, a, d) = i + d /\ Moved(EndOf(text, i), a, d) = EndOf(text, i) + d
      BY <1>1, <2>2, <2>8 DEF Moved
    <3> QED BY <1>1, <2>1, <2>2, <2>5, <2>6, <2>8, <3>1, <3>2
  <2> QED BY <2>4, <2>7, <2>8
<1>6. f \in [S -> T] /\ \A i \in S : f[i] = Moved(i, a, d)
  BY <1>5
<1>7. \A i, j \in S : i < j => f[i] < f[j]
  BY <1>5, <1>6, MovedInOrder
<1>8. ASSUME NEW t \in T PROVE \E i \in S : f[i] = t
  <2>1. t \in Starts(u) /\ u[t] # k
    BY <1>3
  <2>2. t # a
    BY <2>1, SpliceStartsAre
  <2>3. \/ t \in 1 .. a - 1 /\ t \in Starts(text)
        \/ \E i \in z + 1 .. Len(text) : t = i + d /\ i \in Starts(text)
    BY <2>1, <2>2, SpliceStartsAre
  <2>4. PICK i \in Starts(text) : i \notin a .. z /\ Moved(i, a, d) = t
    <3>1. CASE t \in 1 .. a - 1 /\ t \in Starts(text)
      <4>1. t \notin a .. z /\ Moved(t, a, d) = t
        BY <1>1, <3>1 DEF Moved
      <4> QED BY <3>1, <4>1
    <3>2. ASSUME NEW i \in z + 1 .. Len(text), t = i + d, i \in Starts(text)
          PROVE i \notin a .. z /\ Moved(i, a, d) = t
      BY <1>1, <3>2 DEF Moved
    <3> QED BY <2>3, <3>1, <3>2
  <2>5. i \in DOMAIN text
    BY DEF Starts
  <2>6. text[i] # k
    BY <2>1, <2>4, <2>5, MovedInOrder
  <2> QED BY <1>3, <1>6, <2>4, <2>6
<1>9. ASSUME NEW i \in S
      PROVE /\ u[f[i]] = text[i]
            /\ SubSeq(u, f[i] + 1, EndOf(u, f[i]) - 1) = SubSeq(text, i + 1, EndOf(text, i) - 1)
  <2>1. f[i] = Moved(i, a, d) /\ EndOf(u, f[i]) = Moved(EndOf(text, i), a, d)
    BY <1>5, <1>6
  <2>2. u[f[i]] = text[i]
    BY <1>5, <2>1, MovedInOrder
  <2> DEFINE m == i + 1
             n == EndOf(text, i) - 1
             e == IF i < a THEN 0 ELSE d
  <2>3. m \in 1 .. Len(text) + 1 /\ n \in m - 1 .. Len(text) /\ e \in Int
    BY <1>1, <1>5
  <2>4. f[i] + 1 = m + e /\ EndOf(u, f[i]) - 1 = n + e
    BY <1>1, <1>5, <2>1, SMTT(40) DEF Moved
  <2>5. /\ \A x \in 1 .. a - 1 : u[x] = text[x]
        /\ \A x \in z + 1 .. Len(text) : u[x + d] = text[x]
    BY DEF IsSplice
  <2>6. ASSUME NEW x \in m .. n PROVE u[x + e] = text[x]
    <3>1. CASE i \in 1 .. a - 1 /\ EndOf(text, i) \in 1 .. a - 1
      <4>1. x \in 1 .. a - 1 /\ x + e = x
        BY <1>1, <3>1
      <4> QED BY <2>5, <4>1
    <3>2. CASE i \in z + 1 .. Len(text) /\ EndOf(text, i) \in z + 1 .. Len(text)
      <4>1. x \in z + 1 .. Len(text) /\ e = d
        BY <1>1, <3>2
      <4> QED BY <2>5, <4>1
    <3> QED BY <1>5, <3>1, <3>2
  <2>7. m + e \in 1 .. Len(u) + 1 /\ n + e \in m + e - 1 .. Len(u)
    <3>1. a + Len(b) - 1 <= Len(u)
      BY <1>1
    <3>2. CASE i \in 1 .. a - 1 /\ EndOf(text, i) \in 1 .. a - 1
      BY <1>1, <1>5, <3>1, <3>2
    <3>3. CASE i \in z + 1 .. Len(text) /\ EndOf(text, i) \in z + 1 .. Len(text)
      <4>1. e = d
        BY <1>1, <3>3
      <4> QED BY <1>1, <1>5, <3>3, <4>1
    <3> QED BY <1>5, <3>2, <3>3
  <2> HIDE DEF m, n, e
  <2>8. SubSeq(u, m + e, n + e) = SubSeq(text, m, n)
    BY <1>2, <2>3, <2>6, <2>7, SubSeqSame
  <2> QED BY <2>2, <2>4, <2>8 DEF m, n
<1> DEFINE Here(i) == [key |-> text[i], body |-> SubSeq(text, i + 1, EndOf(text, i) - 1)]
           There(i) == [key |-> u[i], body |-> SubSeq(u, i + 1, EndOf(u, i) - 1)]
<1>10. \A i \in S : There(f[i]) = Here(i)
  BY <1>9
<1>11. OfOthers(text, k) = [n \in DOMAIN InOrder(S) |-> Here(InOrder(S)[n])]
       /\ OfOthers(u, k) = [n \in DOMAIN InOrder(T) |-> There(InOrder(T)[n])]
  BY DEF OfOthers, Parsed
<1> HIDE DEF S, T, f, Here, There
<1>12. DOMAIN InOrder(T) = DOMAIN InOrder(S)
       /\ \A n \in DOMAIN InOrder(S) : InOrder(S)[n] \in S /\ InOrder(T)[n] = f[InOrder(S)[n]]
  BY <1>4, <1>6, <1>7, <1>8, OrderMoves
<1>13. \A n \in DOMAIN InOrder(S) : There(InOrder(T)[n]) = Here(InOrder(S)[n])
  BY <1>10, <1>12
<1> QED BY <1>11, <1>12, <1>13

\* The block reads as it was written.
LEMMA SplicePolicy ==
    ASSUME NEW u, NEW text, NEW a, NEW z, NEW b, NEW d, NEW k,
           IsSplice(u, text, a, z, b, d), Gap(text, a, z), IsBlock(b, k), Own(text, a, z, k)
    PROVE  /\ BlocksOf(u, k) = {a}
           /\ OfPolicy(u, k) = <<[key |-> k, body |-> SubSeq(b, 2, Len(b) - 1)]>>
<1>1. /\ a \in Nat /\ Len(b) \in Nat /\ Len(u) \in Nat /\ Len(text) \in Nat /\ d \in Int /\ z \in Nat
      /\ 1 <= a /\ a <= z + 1 /\ z <= Len(text) /\ z + d = a + Len(b) - 1 /\ Len(u) = Len(text) + d
      /\ DOMAIN text = 1 .. Len(text)
  BY SplicePositions
<1>2. u \in Seq(Tokens) /\ b \in Seq(Tokens) /\ \A i \in a .. a + Len(b) - 1 : u[i] = b[i - a + 1]
  BY DEF IsSplice
<1>3. Len(b) >= 3
  BY DEF IsBlock
<1>4. ASSUME NEW s \in BlocksOf(u, k), s # a PROVE FALSE
  <2>1. s \in Starts(u) /\ u[s] = k
    BY DEF BlocksOf
  <2>2. \/ s \in 1 .. a - 1 /\ s \in Starts(text)
        \/ \E i \in z + 1 .. Len(text) : s = i + d /\ i \in Starts(text)
    BY <1>4, <2>1, SpliceStartsAre
  <2>3. \A i \in Starts(text) : text[i] = k => i = a
    BY DEF Own
  <2>4. /\ \A i \in 1 .. a - 1 : u[i] = text[i]
        /\ \A i \in z + 1 .. Len(text) : u[i + d] = text[i]
    BY DEF IsSplice
  <2>5. CASE s \in 1 .. a - 1 /\ s \in Starts(text)
    BY <1>4, <2>1, <2>3, <2>4, <2>5
  <2>6. ASSUME NEW i \in z + 1 .. Len(text), s = i + d, i \in Starts(text) PROVE FALSE
    <3>1. text[i] = k
      BY <2>1, <2>4, <2>6
    <3>2. i = a /\ a = z + 1
      BY <1>1, <2>3, <2>6, <3>1
    <3> QED BY <2>6, <3>2 DEF Gap
  <2> QED BY <2>2, <2>5, <2>6
<1>5. BlocksOf(u, k) = {a}
  <2>1. a \in BlocksOf(u, k)
    BY SpliceStartsAre DEF BlocksOf
  <2> QED BY <1>4, <2>1
<1>6. EndOf(u, a) = a + Len(b) - 1 /\ u[a] = k
  BY SpliceEndOf, SpliceStartsAre
<1>7. SubSeq(u, a + 1, EndOf(u, a) - 1) = SubSeq(b, 2, Len(b) - 1)
  <2> DEFINE m == 2
             n == Len(b) - 1
             e == a - 1
  <2>1. m \in 1 .. Len(b) + 1 /\ n \in m - 1 .. Len(b) /\ e \in Int
        /\ m + e \in 1 .. Len(u) + 1 /\ n + e \in m + e - 1 .. Len(u)
        /\ a + 1 = m + e /\ EndOf(u, a) - 1 = n + e
    BY <1>1, <1>3, <1>6
  <2>2. ASSUME NEW x \in m .. n PROVE u[x + e] = b[x]
    <3>1. x + e \in a .. a + Len(b) - 1 /\ (x + e) - a + 1 = x
      BY <1>1
    <3> QED BY <1>2, <3>1
  <2> HIDE DEF m, n, e
  <2>3. SubSeq(u, m + e, n + e) = SubSeq(b, m, n)
    BY <1>2, <2>1, <2>2, SubSeqSame
  <2> QED BY <2>1, <2>3 DEF m, n
<1> DEFINE There(i) == [key |-> u[i], body |-> SubSeq(u, i + 1, EndOf(u, i) - 1)]
<1>8. There(a) = [key |-> k, body |-> SubSeq(b, 2, Len(b) - 1)]
  BY <1>6, <1>7
<1>9. OfPolicy(u, k) = [n \in DOMAIN InOrder({a}) |-> There(InOrder({a})[n])]
  BY <1>5 DEF OfPolicy, Parsed
<1>10. InOrder({a}) = <<a>>
  BY <1>1, OrderOfOne
<1> HIDE DEF There
<1>11. OfPolicy(u, k) = <<There(a)>>
  BY <1>9, <1>10
<1> QED BY <1>5, <1>8, <1>11

-----------------------------------------------------------------------------
\* The block that is written.

\* The body has the tokens of the content, and line breaks.
LEMMA BodyTyped ==
    ASSUME NEW T, NEW c \in Seq(T), NEW newline \in Seq(T)
    PROVE  body(c, newline) \in Seq(T)
<1> DEFINE broken(i) == c[i] \in Breaks
           kept == {i \in DOMAIN c : ~ broken(i)}
           Piece(i) == IF c[i] = CR /\ i < Len(c) /\ c[i + 1] = LF THEN <<>>
                       ELSE IF broken(i) THEN newline ELSE <<c[i]>>
           parts == [n \in 1 .. Max(kept) - Min(kept) + 1 |-> Piece(Min(kept) + n - 1)]
<1>1. body(c, newline) = IF kept = {} THEN <<>> ELSE FlattenSeq(parts)
  BY DEF body
<1>2. Len(c) \in Nat /\ DOMAIN c = 1 .. Len(c) /\ \A i \in 1 .. Len(c) : c[i] \in T
  OBVIOUS
<1>3. kept \subseteq 1 .. Len(c)
  BY <1>2
<1>4. \A i \in 1 .. Len(c) : Piece(i) \in Seq(T)
  <2>1. \A i \in 1 .. Len(c) : <<c[i]>> \in Seq(T) /\ <<>> \in Seq(T)
    BY <1>2
  <2> QED BY <2>1
<1> HIDE DEF kept, Piece
<1>5. CASE kept = {}
  BY <1>1, <1>5
<1>6. CASE kept # {}
  <2>1. Max(kept) \in kept /\ \A i \in kept : i <= Max(kept)
    BY <1>2, <1>3, <1>6, Greatest
  <2>2. Min(kept) \in kept
    BY <1>2, <1>3, <1>6, Least
  <2> DEFINE lo == Min(kept)
             hi == Max(kept)
  <2>3. lo \in 1 .. Len(c) /\ hi \in 1 .. Len(c) /\ lo <= hi
    BY <1>3, <2>1, <2>2
  <2> HIDE DEF lo, hi
  <2>4. hi - lo + 1 \in Nat /\ \A n \in 1 .. hi - lo + 1 : lo + n - 1 \in 1 .. Len(c)
    BY <1>2, <2>3
  <2>5. \A n \in 1 .. hi - lo + 1 : Piece(lo + n - 1) \in Seq(T)
    BY <1>4, <2>4
  <2> DEFINE N == hi - lo + 1
  <2>6. [n \in 1 .. hi - lo + 1 |-> Piece(lo + n - 1)] \in Seq(Seq(T))
    <3>1. N \in Nat /\ \A n \in 1 .. N : Piece(lo + n - 1) \in Seq(T)
      BY <2>4, <2>5
    <3> HIDE DEF N
    <3>2. [n \in 1 .. N |-> Piece(lo + n - 1)] \in [1 .. N -> Seq(T)]
      BY <3>1
    <3>3. [n \in 1 .. N |-> Piece(lo + n - 1)] \in Seq(Seq(T))
      BY <3>1, <3>2, SeqDef
    <3> QED BY <3>3 DEF N
  <2>7. parts \in Seq(Seq(T))
    BY <2>6 DEF lo, hi
  <2> QED BY <1>1, <1>6, <2>7, FlattenTyped
<1> QED BY <1>5, <1>6

LEMMA BreakTokens == CR \in Tokens /\ LF \in Tokens /\ LF \in Breaks /\ End \in Tokens /\ Keys \subseteq Tokens
                     /\ LF \in Tokens \ Markers
  BY TokenFacts DEF Tokens, Breaks, Markers

LEMMA BlockTyped ==
    ASSUME NEW k \in Keys, NEW c \in Seq(Tokens), NEW newline \in Seq(Tokens)
    PROVE  _block(k, c, newline) \in Seq(Tokens)
<1>1. body(c, newline) \in Seq(Tokens)
  BY BodyTyped
<1> DEFINE w == body(c, newline)
<1> HIDE DEF w
<1>2. w \in Seq(Tokens)
  BY <1>1 DEF w
<1>3. <<k>> \in Seq(Tokens) /\ <<End>> \in Seq(Tokens)
  BY BreakTokens
<1>4. <<k>> \o newline \in Seq(Tokens)
  BY <1>3, ConcatProperties
<1>5. <<k>> \o newline \o w \in Seq(Tokens)
  BY <1>2, <1>4, ConcatProperties
<1>6. <<k>> \o newline \o w \o newline \in Seq(Tokens)
  BY <1>5, ConcatProperties
<1>7. <<k>> \o newline \o w \o newline \o <<End>> \in Seq(Tokens)
  BY <1>3, <1>6, ConcatProperties
<1> QED BY <1>7 DEF _block, w

LEMMA BlockIsBlock ==
    ASSUME NEW k \in Keys, NEW c \in Seq(Tokens), Range(c) \cap Markers = {}
    PROVE  LET b == _block(k, c, <<LF>>)
           IN  IsBlock(b, k) /\ SubSeq(b, 2, Len(b) - 1) = <<LF>> \o body(c, <<LF>>) \o <<LF>>
<1> DEFINE b == _block(k, c, <<LF>>)
           w == body(c, <<LF>>)
           m == <<LF>> \o w \o <<LF>>
<1>1. w \in Seq(Tokens \ Markers)
  <2>1. \A i \in 1 .. Len(c) : c[i] \in Tokens \ Markers
    BY DEF Range
  <2>2. c \in Seq(Tokens \ Markers)
    BY <2>1
  <2>3. <<LF>> \in Seq(Tokens \ Markers)
    BY BreakTokens
  <2> QED BY <2>2, <2>3, BodyTyped
<1>2. b = <<k>> \o <<LF>> \o w \o <<LF>> \o <<End>>
  BY DEF _block
<1> HIDE DEF w
<1>3. Len(w) \in Nat /\ w \in Seq(Tokens) /\ \A i \in 1 .. Len(w) : w[i] \in Tokens \ Markers
  <2>1. Tokens \ Markers \subseteq Tokens
    OBVIOUS
  <2>2. w \in Seq(Tokens)
    BY <1>1, <2>1, SeqMonotonic
  <2> QED BY <1>1, <2>2
<1>4. LF \in Tokens /\ k \in Tokens /\ End \in Tokens
  BY BreakTokens
<1> DEFINE p == <<k>> \o <<LF>>
           q == p \o w
           r == q \o <<LF>>
<1>5. p \in Seq(Tokens) /\ Len(p) = 2 /\ p[1] = k /\ p[2] = LF
  BY <1>4
<1> HIDE DEF p
<1>6. /\ q \in Seq(Tokens) /\ Len(q) = 2 + Len(w) /\ q[1] = k /\ q[2] = LF
      /\ \A i \in 1 .. Len(w) : q[2 + i] = w[i]
  <2>1. /\ p \o w \in Seq(Tokens) /\ Len(p \o w) = Len(p) + Len(w)
        /\ \A i \in 1 .. Len(p) + Len(w) : (p \o w)[i] = IF i <= Len(p) THEN p[i] ELSE w[i - Len(p)]
    BY <1>3, <1>5, ConcatProperties
  <2>2. /\ q \in Seq(Tokens) /\ Len(q) = 2 + Len(w)
        /\ \A i \in 1 .. 2 + Len(w) : q[i] = IF i <= 2 THEN p[i] ELSE w[i - 2]
    BY <1>5, <2>1
  <2> HIDE DEF q
  <2>3. \A i \in 1 .. Len(w) : 2 + i \in 1 .. 2 + Len(w) /\ ~ (2 + i <= 2) /\ (2 + i) - 2 = i
    BY <1>3
  <2>4. \A i \in 1 .. Len(w) : q[2 + i] = w[i]
    BY <2>2, <2>3
  <2> QED BY <1>3, <1>5, <2>2, <2>4
<1> HIDE DEF q
<1>7. /\ r \in Seq(Tokens) /\ Len(r) = 3 + Len(w) /\ r[1] = k /\ r[2] = LF
      /\ r[3 + Len(w)] = LF
      /\ \A i \in 1 .. Len(w) : r[2 + i] = w[i]
  BY <1>3, <1>4, <1>6
<1>8. b = r \o <<End>>
  BY <1>2 DEF p, q
<1> HIDE DEF r, b
<1>9. /\ b \in Seq(Tokens) /\ Len(b) = 4 + Len(w) /\ b[1] = k /\ b[2] = LF
      /\ b[3 + Len(w)] = LF /\ b[4 + Len(w)] = End
      /\ \A i \in 1 .. Len(w) : b[2 + i] = w[i]
  BY <1>3, <1>4, <1>7, <1>8
<1>10. ASSUME NEW i \in 2 .. Len(b) - 1 PROVE b[i] \notin Markers
  <2>1. i = 2 \/ i = 3 + Len(w) \/ (i - 2 \in 1 .. Len(w) /\ i = 2 + (i - 2))
    BY <1>3, <1>9
  <2> QED BY <1>3, <1>9, <2>1, TokenFacts
<1>11. IsBlock(b, k)
  BY <1>3, <1>9, <1>10 DEF IsBlock
<1>12. /\ m \in Seq(Tokens) /\ Len(m) = 2 + Len(w) /\ m[1] = LF /\ m[2 + Len(w)] = LF
       /\ \A i \in 1 .. Len(w) : m[1 + i] = w[i]
  <2> DEFINE n == <<LF>> \o w
  <2>1. n \in Seq(Tokens) /\ Len(n) = 1 + Len(w) /\ n[1] = LF /\ \A i \in 1 .. Len(w) : n[1 + i] = w[i]
    BY <1>3, <1>4
  <2> HIDE DEF n
  <2>2. /\ n \o <<LF>> \in Seq(Tokens) /\ Len(n \o <<LF>>) = 2 + Len(w) /\ (n \o <<LF>>)[1] = LF
        /\ (n \o <<LF>>)[2 + Len(w)] = LF
        /\ \A i \in 1 .. Len(w) : (n \o <<LF>>)[1 + i] = w[i]
    BY <1>3, <1>4, <2>1
  <2> QED BY <2>2 DEF n
<1> HIDE DEF m
<1> DEFINE v == SubSeq(b, 2, Len(b) - 1)
<1>13. v \in Seq(Tokens) /\ Len(v) = 2 + Len(w) /\ \A i \in 1 .. 2 + Len(w) : v[i] = b[1 + i]
  <2>1. Len(b) - 1 = 3 + Len(w)
    BY <1>3, <1>9
  <2>2. \A i \in 2 .. 3 + Len(w) : b[i] \in Tokens
    BY <1>3, <1>9
  <2>3. SubSeq(b, 2, 3 + Len(w)) \in Seq(Tokens)
    BY <1>3, <2>2
  <2>4. Len(SubSeq(b, 2, 3 + Len(w))) = 2 + Len(w)
    BY <1>3
  <2>5. \A i \in 1 .. 2 + Len(w) : SubSeq(b, 2, 3 + Len(w))[i] = b[1 + i]
    BY <1>3
  <2> QED BY <2>1, <2>3, <2>4, <2>5
<1> HIDE DEF v
<1>14. ASSUME NEW i \in 1 .. 2 + Len(w) PROVE v[i] = m[i]
  <2>1. i = 1 \/ i = 2 + Len(w) \/ (i - 1 \in 1 .. Len(w) /\ i = 1 + (i - 1) /\ 1 + i = 2 + (i - 1))
    BY <1>3
  <2>2. v[i] = b[1 + i]
    BY <1>13
  <2>3. CASE i = 1
    BY <1>9, <1>12, <2>2, <2>3
  <2>4. CASE i = 2 + Len(w)
    BY <1>3, <1>9, <1>12, <2>2, <2>4
  <2>5. CASE i - 1 \in 1 .. Len(w) /\ i = 1 + (i - 1) /\ 1 + i = 2 + (i - 1)
    BY <1>9, <1>12, <2>2, <2>5
  <2> QED BY <2>1, <2>3, <2>4, <2>5
<1>15. v = m
  BY <1>12, <1>13, <1>14, SeqEqual
<1> QED BY <1>11, <1>15 DEF v, m, b, w

-----------------------------------------------------------------------------
\* Line breaks after a text.

Pads(u, text) ==
    /\ u \in Seq(Tokens) /\ text \in Seq(Tokens) /\ Len(text) <= Len(u)
    /\ \A i \in 1 .. Len(text) : u[i] = text[i]
    /\ \A i \in Len(text) + 1 .. Len(u) : u[i] = LF

LEMMA PadsOnce ==
    ASSUME NEW u, NEW text, Pads(u, text)
    PROVE  Pads(u \o <<LF>>, text) /\ Len(u \o <<LF>>) = Len(u) + 1 /\ (u \o <<LF>>)[Len(u) + 1] = LF
           /\ \A i \in 1 .. Len(u) : (u \o <<LF>>)[i] = u[i]
<1>1. u \in Seq(Tokens) /\ text \in Seq(Tokens) /\ Len(text) <= Len(u) /\ Len(u) \in Nat /\ Len(text) \in Nat
  BY DEF Pads
<1> DEFINE v == u \o <<LF>>
<1>2. v \in Seq(Tokens) /\ Len(v) = Len(u) + 1 /\ v[Len(u) + 1] = LF /\ \A i \in 1 .. Len(u) : v[i] = u[i]
  BY <1>1, BreakTokens
<1> HIDE DEF v
<1>3. \A i \in 1 .. Len(text) : v[i] = text[i]
  BY <1>1, <1>2 DEF Pads
<1>4. \A i \in Len(text) + 1 .. Len(v) : v[i] = LF
  <2> SUFFICES ASSUME NEW i \in Len(text) + 1 .. Len(v) PROVE v[i] = LF
    OBVIOUS
  <2>1. i = Len(u) + 1 \/ (i \in 1 .. Len(u) /\ i \in Len(text) + 1 .. Len(u))
    BY <1>1, <1>2
  <2> QED BY <1>2, <2>1 DEF Pads
<1>5. Pads(v, text)
  BY <1>1, <1>2, <1>3, <1>4 DEF Pads
<1> QED BY <1>2, <1>5 DEF v

LEMMA EndsInTwo ==
    ASSUME NEW text \in Seq(Tokens), IsSuffix(<<LF>> \o <<LF>>, text)
    PROVE  2 <= Len(text) /\ text[Len(text)] = LF /\ text[Len(text) - 1] = LF
<1> DEFINE two == <<LF>> \o <<LF>>
           back == Reverse(text)
<1>1. two \in Seq(Tokens) /\ Len(two) = 2 /\ two[1] = LF /\ two[2] = LF
  BY BreakTokens
<1>2. 2 <= Len(back) /\ SubSeq(Reverse(two), 1, 2) = SubSeq(back, 1, 2)
  <2>1. Len(Reverse(two)) = 2
    <3> HIDE DEF two
    <3> QED BY <1>1 DEF Reverse
  <2> QED BY <2>1 DEF IsSuffix, IsPrefix
<1> HIDE DEF two
<1>3. Reverse(two) \in Seq(Tokens) /\ Reverse(two)[1] = LF /\ Reverse(two)[2] = LF
  <2>1. Reverse(two) = [i \in 1 .. 2 |-> two[(2 - i) + 1]]
    BY <1>1 DEF Reverse
  <2>2. \A i \in 1 .. 2 : two[(2 - i) + 1] = LF
    BY <1>1
  <2>3. Reverse(two) = [i \in 1 .. 2 |-> LF]
    BY <2>1, <2>2
  <2> QED BY <2>3, BreakTokens
<1>4. Len(text) \in Nat /\ back = [i \in 1 .. Len(text) |-> text[(Len(text) - i) + 1]]
  BY DEF Reverse
<1>5. Len(back) = Len(text) /\ back \in Seq(Tokens)
  <2>1. \A i \in 1 .. Len(text) : (Len(text) - i) + 1 \in 1 .. Len(text)
    BY <1>4
  <2>2. \A i \in 1 .. Len(text) : text[(Len(text) - i) + 1] \in Tokens
    BY <1>4, <2>1
  <2>3. back \in [1 .. Len(text) -> Tokens]
    BY <1>4, <2>2
  <2> HIDE DEF back
  <2> QED BY <1>4, <2>3
<1>6. 2 <= Len(text) /\ back[1] = text[Len(text)] /\ back[2] = text[Len(text) - 1]
  <2>1. 2 <= Len(text) /\ 1 \in 1 .. Len(text) /\ 2 \in 1 .. Len(text)
        /\ (Len(text) - 1) + 1 = Len(text) /\ (Len(text) - 2) + 1 = Len(text) - 1
    BY <1>2, <1>4, <1>5
  <2> QED BY <1>4, <2>1
<1> HIDE DEF back
<1>7. \A i \in 1 .. 2 : SubSeq(Reverse(two), 1, 2)[i] = Reverse(two)[i] /\ SubSeq(back, 1, 2)[i] = back[i]
  OBVIOUS
<1> QED BY <1>2, <1>3, <1>6, <1>7

\* What a block is appended to is the text with line breaks after it.
LEMMA SeparatedPads ==
    ASSUME NEW text \in Seq(Tokens)
    PROVE  LET u == separated(text, <<LF>>)
           IN  Pads(u, text) /\ (u # <<>> => u[Len(u)] = LF)
<1> DEFINE ended == IF text = <<>> \/ Last(text) \in Breaks THEN text ELSE text \o <<LF>>
           u == IF ended = <<>> \/ IsSuffix(<<LF>> \o <<LF>>, ended) THEN ended ELSE ended \o <<LF>>
<1>1. separated(text, <<LF>>) = u
  BY DEF separated
<1>2. Pads(text, text)
  BY DEF Pads
<1>3. Pads(ended, text)
  BY <1>2, PadsOnce
<1>4. ended \in Seq(Tokens) /\ Len(ended) \in Nat
  BY <1>3 DEF Pads
<1> HIDE DEF ended
<1>5. CASE ended = <<>>
  BY <1>1, <1>3, <1>5
<1>6. CASE ended # <<>> /\ IsSuffix(<<LF>> \o <<LF>>, ended)
  BY <1>1, <1>3, <1>4, <1>6, EndsInTwo
<1>7. CASE ended # <<>> /\ ~ IsSuffix(<<LF>> \o <<LF>>, ended)
  <2>1. u = ended \o <<LF>>
    BY <1>7
  <2>2. Pads(u, text) /\ Len(u) = Len(ended) + 1 /\ u[Len(ended) + 1] = LF
    BY <1>3, <2>1, PadsOnce
  <2> HIDE DEF u
  <2> QED BY <1>1, <2>2
<1> QED BY <1>5, <1>6, <1>7

\* They change nothing of what the text reads as.
LEMMA PadsRead ==
    ASSUME NEW u, NEW text, Pads(u, text)
    PROVE  /\ Starts(u) = Starts(text) /\ Ends(u) = Ends(text)
           /\ \A s : EndOf(u, s) = EndOf(text, s)
           /\ \A k : BlocksOf(u, k) = BlocksOf(text, k)
<1>1. u \in Seq(Tokens) /\ text \in Seq(Tokens) /\ Len(text) <= Len(u) /\ Len(u) \in Nat /\ Len(text) \in Nat
      /\ DOMAIN u = 1 .. Len(u) /\ DOMAIN text = 1 .. Len(text)
  BY DEF Pads
<1>2. \A i \in 1 .. Len(text) : u[i] = text[i]
  BY DEF Pads
<1>3. \A i \in 1 .. Len(u) : i \in 1 .. Len(text) \/ (i \in Len(text) + 1 .. Len(u) /\ u[i] = LF)
  BY <1>1 DEF Pads
<1>4. ASSUME NEW i \in 1 .. Len(text) PROVE i \in Starts(u) <=> i \in Starts(text)
  <2>1. i \in DOMAIN u /\ i \in DOMAIN text /\ u[i] = text[i]
    BY <1>1, <1>2
  <2>2. i = 1 \/ (i - 1 \in 1 .. Len(text) /\ u[i - 1] = text[i - 1])
    BY <1>1, <1>2
  <2>3. CASE i = Len(text)
    <3>1. i + 1 = Len(u) + 1 \/ u[i + 1] = LF
      BY <1>1, <2>3 DEF Pads
    <3> QED BY <2>1, <2>2, <2>3, <3>1 DEF Starts, IsStart
  <2>4. CASE i # Len(text)
    <3>1. i + 1 \in 1 .. Len(text) /\ i + 1 # Len(u) + 1 /\ i + 1 # Len(text) + 1
      <4>1. Len(text) \in Nat /\ Len(u) \in Nat /\ Len(text) <= Len(u)
        BY <1>1
      <4>2. \A m, n \in Nat : \A x \in 1 .. m : m <= n /\ x # m => x + 1 \in 1 .. m /\ x + 1 # n + 1 /\ x + 1 # m + 1
        OBVIOUS
      <4> QED BY <2>4, <4>1, <4>2, Zenon
    <3>2. u[i + 1] = text[i + 1]
      BY <1>2, <3>1
    <3> QED BY <2>1, <2>2, <3>1, <3>2 DEF Starts, IsStart
  <2> QED BY <2>3, <2>4
<1>5. \A i \in 1 .. Len(u) : i \in Starts(u) \/ i \in Ends(u) => i \in 1 .. Len(text)
  BY <1>3, TokenFacts DEF Starts, IsStart, Ends
<1>6. Starts(u) = Starts(text)
  <2>1. \A i \in Starts(u) : i \in 1 .. Len(u)
    BY <1>1 DEF Starts
  <2>2. \A i \in Starts(text) : i \in 1 .. Len(text)
    BY <1>1 DEF Starts
  <2> QED BY <1>4, <1>5, <2>1, <2>2
<1>7. Ends(u) = Ends(text)
  <2>1. \A i \in Ends(u) : i \in 1 .. Len(u)
    BY <1>1 DEF Ends
  <2>2. \A i \in 1 .. Len(text) : i \in Ends(u) <=> i \in Ends(text)
    BY <1>1, <1>2 DEF Ends
  <2>3. \A i \in Ends(text) : i \in 1 .. Len(text)
    BY <1>1 DEF Ends
  <2> QED BY <1>5, <2>1, <2>2, <2>3
<1>8. \A s : EndOf(u, s) = EndOf(text, s)
  BY <1>7 DEF EndOf
<1>9. \A s \in Starts(text) : u[s] = text[s]
  BY <1>1, <1>2 DEF Starts
<1>10. \A k : BlocksOf(u, k) = BlocksOf(text, k)
  BY <1>6, <1>9 DEF BlocksOf
<1> QED BY <1>6, <1>7, <1>8, <1>10

LEMMA PadsReadable ==
    ASSUME NEW u, NEW text, Pads(u, text), Readable(text)
    PROVE  Readable(u)
<1>1. /\ Starts(u) = Starts(text) /\ Ends(u) = Ends(text)
      /\ \A s : EndOf(u, s) = EndOf(text, s)
  BY PadsRead
<1>2. ASSUME NEW s \in Starts(text), s < EndOf(text, s) - 1 PROVE ~ Cut(u, EndOf(text, s) - 1)
  <2> DEFINE e == EndOf(text, s)
  <2>1. s \in 1 .. Len(text) /\ e \in 1 .. Len(text) /\ Len(text) \in Nat /\ s < e - 1
    <3>1. e \in Ends(text)
      BY DEF Readable
    <3> QED BY <1>2, <3>1 DEF Starts, Ends, Pads
  <2>2. ~ Cut(text, e - 1)
    BY <1>2 DEF Readable
  <2> HIDE DEF e
  <2>3. e - 1 \in 1 .. Len(text) /\ (e - 1) - 1 \in 1 .. Len(text)
    BY <2>1
  <2>4. u[e - 1] = text[e - 1] /\ u[(e - 1) - 1] = text[(e - 1) - 1]
    BY <2>3 DEF Pads
  <2>5. ~ Cut(u, e - 1)
    BY <2>2, <2>4 DEF Cut
  <2> QED BY <2>5 DEF e
<1>3. /\ \A s \in Starts(text) : EndOf(text, s) \in Ends(text) /\ s < EndOf(text, s)
      /\ \A s, t \in Starts(text) : s < t => EndOf(text, s) < t
      /\ \A e \in Ends(text) : \E s \in Starts(text) : EndOf(text, s) = e
  BY DEF Readable
<1> QED BY <1>1, <1>2, <1>3 DEF Readable

LEMMA PadsOthers ==
    ASSUME NEW u, NEW text, NEW k, Pads(u, text), Readable(text)
    PROVE  OfOthers(u, k) = OfOthers(text, k)
<1> DEFINE S == Starts(text) \ BlocksOf(text, k)
           Here(v, i) == [key |-> v[i], body |-> SubSeq(v, i + 1, EndOf(text, i) - 1)]
<1>1. OfOthers(u, k) = [n \in DOMAIN InOrder(S) |-> Here(u, InOrder(S)[n])]
      /\ OfOthers(text, k) = [n \in DOMAIN InOrder(S) |-> Here(text, InOrder(S)[n])]
  BY PadsRead DEF OfOthers, Parsed
<1>2. u \in Seq(Tokens) /\ text \in Seq(Tokens) /\ Len(text) <= Len(u) /\ Len(u) \in Nat /\ Len(text) \in Nat
  BY DEF Pads
<1>3. \A i \in 1 .. Len(text) : u[i] = text[i]
  BY DEF Pads
<1>4. S \in SUBSET Nat /\ IsFiniteSet(S) /\ S \subseteq Starts(text) /\ S \subseteq 1 .. Len(text)
  <2>1. IsFiniteSet(1 .. Len(text))
    BY <1>2, FS_Interval
  <2>2. S \subseteq Starts(text) /\ Starts(text) \subseteq 1 .. Len(text)
    BY <1>2 DEF Starts
  <2>3. IsFiniteSet(S)
    BY <2>1, <2>2, FS_Subset
  <2> QED BY <2>2, <2>3
<1>5. ASSUME NEW i \in S PROVE Here(u, i) = Here(text, i)
  <2> DEFINE m == i + 1
             n == EndOf(text, i) - 1
  <2>1. EndOf(text, i) \in 1 .. Len(text) /\ i < EndOf(text, i)
    BY <1>2, <1>4 DEF Readable, Ends
  <2>2. m \in 1 .. Len(text) + 1 /\ n \in m - 1 .. Len(text) /\ m + 0 = m /\ n + 0 = n
        /\ m + 0 \in 1 .. Len(u) + 1 /\ n + 0 \in m + 0 - 1 .. Len(u)
    BY <1>2, <1>4, <2>1
  <2>3. ASSUME NEW x \in m .. n PROVE u[x + 0] = text[x]
    <3>1. x \in 1 .. Len(text) /\ x + 0 = x
      BY <1>2, <1>4, <2>1
    <3> QED BY <1>3, <3>1
  <2> HIDE DEF m, n
  <2>4. SubSeq(u, m + 0, n + 0) = SubSeq(text, m, n)
    BY <1>2, <2>2, <2>3, SubSeqSame
  <2> QED BY <1>3, <1>4, <2>2, <2>4 DEF m, n
<1> HIDE DEF S, Here
<1>6. \A n \in DOMAIN InOrder(S) : InOrder(S)[n] \in S
  BY <1>4, Ranks
<1> QED BY <1>1, <1>5, <1>6

\* Human text is the text outside the blocks.
LEMMA HumanIs ==
    ASSUME NEW text \in Seq(Tokens)
    PROVE  LET S == {i \in DOMAIN text : ~ Inside(text, i)}
           IN  /\ S \in SUBSET Nat /\ IsFiniteSet(S) /\ Cardinality(S) \in Nat
               /\ Human(text) \in Seq(Tokens) /\ Len(Human(text)) = Cardinality(S)
               /\ \A n \in 1 .. Cardinality(S) : InOrder(S)[n] \in S /\ Human(text)[n] = text[InOrder(S)[n]]
<1> DEFINE S == {i \in DOMAIN text : ~ Inside(text, i)}
<1>1. Len(text) \in Nat /\ DOMAIN text = 1 .. Len(text) /\ S \subseteq 1 .. Len(text)
  OBVIOUS
<1>2. S \in SUBSET Nat /\ IsFiniteSet(S)
  <2>1. IsFiniteSet(1 .. Len(text))
    BY <1>1, FS_Interval
  <2>2. IsFiniteSet(S)
    BY <1>1, <2>1, FS_Subset
  <2> QED BY <1>1, <2>2
<1>3. Human(text) = [n \in DOMAIN InOrder(S) |-> text[InOrder(S)[n]]]
  BY DEF Human
<1> HIDE DEF S
<1>4. Cardinality(S) \in Nat /\ InOrder(S) \in [1 .. Cardinality(S) -> S]
  BY <1>2, Ranks
<1>5. \A i \in S : text[i] \in Tokens
  BY <1>1
<1>6. Human(text) \in [1 .. Cardinality(S) -> Tokens]
  BY <1>3, <1>4, <1>5
<1>7. Human(text) \in Seq(Tokens) /\ Len(Human(text)) = Cardinality(S)
  BY <1>4, <1>6
<1>8. \A n \in 1 .. Cardinality(S) : InOrder(S)[n] \in S /\ Human(text)[n] = text[InOrder(S)[n]]
  BY <1>3, <1>4
<1> QED BY <1>2, <1>4, <1>7, <1>8 DEF S

LEMMA PadsHuman ==
    ASSUME NEW u, NEW text, Pads(u, text), Readable(text)
    PROVE  /\ IsPrefix(Human(text), Human(u))
           /\ \A i \in Len(Human(text)) + 1 .. Len(Human(u)) : Human(u)[i] = LF
<1> DEFINE S == {i \in DOMAIN text : ~ Inside(text, i)}
           V == {i \in DOMAIN u : ~ Inside(u, i)}
           T == Len(text) + 1 .. Len(u)
<1>1. u \in Seq(Tokens) /\ text \in Seq(Tokens) /\ Len(text) <= Len(u) /\ Len(u) \in Nat /\ Len(text) \in Nat
      /\ DOMAIN u = 1 .. Len(u) /\ DOMAIN text = 1 .. Len(text)
  BY DEF Pads
<1>2. /\ \A i \in 1 .. Len(text) : u[i] = text[i]
      /\ \A i \in Len(text) + 1 .. Len(u) : u[i] = LF
  BY DEF Pads
<1>3. \A i : Inside(u, i) <=> Inside(text, i)
  BY PadsRead DEF Inside
<1>4. ASSUME NEW i \in T PROVE ~ Inside(text, i)
  <2>1. \A s \in Starts(text) : EndOf(text, s) \in 1 .. Len(text)
    BY <1>1 DEF Readable, Ends
  <2>2. \A s \in Starts(text) : ~ (i <= EndOf(text, s))
    BY <1>1, <2>1
  <2> QED BY <2>2 DEF Inside
<1>5. V = S \cup T
  <2>1. ASSUME NEW i \in V PROVE i \in S \cup T
    <3>1. i \in DOMAIN text \/ i \in T
      BY <1>1
    <3> QED BY <1>3, <3>1
  <2>2. ASSUME NEW i \in T PROVE i \in V
    <3>1. i \in DOMAIN u
      BY <1>1
    <3> QED BY <1>3, <1>4, <3>1
  <2>3. ASSUME NEW i \in S PROVE i \in V
    <3>1. i \in DOMAIN u
      BY <1>1
    <3> QED BY <1>3, <3>1
  <2> QED BY <2>1, <2>2, <2>3
<1>6. T \in SUBSET Nat /\ IsFiniteSet(T)
  BY <1>1, FS_Interval
<1>7. \A i \in S, j \in T : i < j
  BY <1>1
<1>8. \A i \in S : u[i] = text[i]
  BY <1>1, <1>2
<1>9. \A i \in T : u[i] = LF
  BY <1>2
<1> DEFINE c == Cardinality(S)
           e == Cardinality(V)
           h == Human(text)
           g == Human(u)
<1>10. /\ S \in SUBSET Nat /\ IsFiniteSet(S) /\ c \in Nat /\ h \in Seq(Tokens) /\ Len(h) = c
       /\ \A n \in 1 .. c : InOrder(S)[n] \in S /\ h[n] = text[InOrder(S)[n]]
  BY <1>1, HumanIs
<1>11. /\ e \in Nat /\ g \in Seq(Tokens) /\ Len(g) = e
       /\ \A n \in 1 .. e : g[n] = u[InOrder(V)[n]]
  BY <1>1, HumanIs
<1> HIDE DEF S, T, V
<1>12. /\ c <= e
       /\ \A n \in 1 .. c : InOrder(V)[n] = InOrder(S)[n]
       /\ \A n \in c + 1 .. e : InOrder(V)[n] \in T
  <2>1. /\ Cardinality(S) <= Cardinality(S \cup T)
        /\ \A n \in 1 .. Cardinality(S) : InOrder(S \cup T)[n] = InOrder(S)[n]
        /\ \A n \in Cardinality(S) + 1 .. Cardinality(S \cup T) : InOrder(S \cup T)[n] \in T
    <3>1. S \in SUBSET Nat /\ T \in SUBSET Nat /\ IsFiniteSet(S) /\ IsFiniteSet(T)
      BY <1>6, <1>10
    <3> QED BY <1>7, <3>1, OrderExtends
  <2> QED BY <1>5, <2>1
<1> HIDE DEF c, e, h, g
<1>13. \A n \in 1 .. c : n \in 1 .. e /\ g[n] = h[n]
  <2> SUFFICES ASSUME NEW n \in 1 .. c PROVE n \in 1 .. e /\ g[n] = h[n]
    OBVIOUS
  <2>1. n \in 1 .. e
    BY <1>10, <1>11, <1>12
  <2>2. g[n] = u[InOrder(S)[n]] /\ InOrder(S)[n] \in S /\ h[n] = text[InOrder(S)[n]]
    BY <1>10, <1>11, <1>12, <2>1
  <2> QED BY <1>8, <2>1, <2>2
<1>14. ASSUME NEW n \in c + 1 .. e PROVE g[n] = LF
  <2>1. n \in 1 .. e
    BY <1>10, <1>11
  <2> QED BY <1>9, <1>11, <1>12, <2>1
<1>15. SubSeq(g, 1, c) = SubSeq(h, 1, c)
  <2>1. SubSeq(g, 1, c) \in Seq(Tokens) /\ Len(SubSeq(g, 1, c)) = c /\ \A n \in 1 .. c : SubSeq(g, 1, c)[n] = g[n]
    BY <1>10, <1>11, <1>12
  <2>2. SubSeq(h, 1, c) \in Seq(Tokens) /\ Len(SubSeq(h, 1, c)) = c /\ \A n \in 1 .. c : SubSeq(h, 1, c)[n] = h[n]
    BY <1>10
  <2>3. \A n \in 1 .. Len(SubSeq(g, 1, c)) : SubSeq(g, 1, c)[n] = SubSeq(h, 1, c)[n]
    BY <1>13, <2>1, <2>2
  <2> QED BY <2>1, <2>2, <2>3, SeqEqual
<1>16. IsPrefix(h, g)
  BY <1>10, <1>11, <1>12, <1>15 DEF IsPrefix
<1> QED BY <1>10, <1>11, <1>14, <1>16 DEF h, g

\* A text without blocks is human text.
LEMMA HumanOnly ==
    ASSUME NEW text \in Seq(Tokens), Starts(text) = {}
    PROVE  Human(text) = text
<1> DEFINE n == Len(text)
           S == {i \in DOMAIN text : ~ Inside(text, i)}
<1>1. n \in Nat /\ S = 1 .. n
  BY DEF Inside
<1> HIDE DEF n
<1>2. IsFiniteSet(1 .. n) /\ Cardinality(1 .. n) = n
  BY <1>1, FS_Interval
<1>3. ASSUME NEW i \in 1 .. n PROVE InOrder(1 .. n)[i] = i
  <2>1. UpTo(1 .. n, i) = 1 .. i
    BY <1>1 DEF UpTo
  <2>2. Cardinality(1 .. i) = i
    BY FS_Interval
  <2>3. 1 .. n \in SUBSET Nat
    BY <1>1
  <2>4. InOrder(1 .. n)[Cardinality(UpTo(1 .. n, i))] = i
    BY <1>2, <2>3, Ranks
  <2> QED BY <2>1, <2>2, <2>4
<1>4. Human(text) \in Seq(Tokens) /\ Len(Human(text)) = n /\ \A i \in 1 .. n : Human(text)[i] = text[InOrder(1 .. n)[i]]
  BY <1>1, <1>2, HumanIs
<1>5. \A i \in 1 .. Len(Human(text)) : Human(text)[i] = text[i]
  BY <1>3, <1>4
<1> QED BY <1>4, <1>5, SeqEqual DEF n

-----------------------------------------------------------------------------
\* The front matter of a Skill file.

LEMMA FrontMatterIs ==
    LET text == FrontMatter(<<LF>>)
    IN  /\ text \in Seq(Tokens) /\ Starts(text) = {} /\ Ends(text) = {} /\ Readable(text)
        /\ separated(text, <<LF>>) = text \o <<LF>>
<1> DEFINE text == FrontMatter(<<LF>>)
           Plain == Tokens \ Markers
           g == <<"---">> \o <<LF>> \o <<"name">> \o <<LF>> \o <<"description">> \o <<LF>>
           h == g \o <<"---">>
<1>1. LF \in Plain /\ Fields \subseteq Plain
  <2>1. Fields \cap Keys = {}
    BY TokensAssumption
  <2>2. Fields \cap {End, Bad} = {}
    BY DEF Fields, End, Bad
  <2> QED BY <2>1, <2>2, BreakTokens DEF Tokens, Markers
<1>2. <<LF>> \in Seq(Plain) /\ <<"---">> \in Seq(Plain) /\ <<"name">> \in Seq(Plain) /\ <<"description">> \in Seq(Plain)
  <2>1. "---" \in Plain /\ "name" \in Plain /\ "description" \in Plain
    BY <1>1 DEF Fields
  <2> HIDE DEF Plain
  <2> QED BY <1>1, <2>1
<1> HIDE DEF Plain
<1>3. g \in Seq(Plain)
  <2>1. <<"---">> \o <<LF>> \in Seq(Plain)
    BY <1>2, ConcatProperties
  <2>2. <<"---">> \o <<LF>> \o <<"name">> \in Seq(Plain)
    BY <1>2, <2>1, ConcatProperties
  <2>3. <<"---">> \o <<LF>> \o <<"name">> \o <<LF>> \in Seq(Plain)
    BY <1>2, <2>2, ConcatProperties
  <2>4. <<"---">> \o <<LF>> \o <<"name">> \o <<LF>> \o <<"description">> \in Seq(Plain)
    BY <1>2, <2>3, ConcatProperties
  <2> QED BY <1>2, <2>4, ConcatProperties
<1>4. text = h \o <<LF>>
  BY DEF FrontMatter
<1> HIDE DEF g
<1>5. h \in Seq(Plain) /\ Len(h) = Len(g) + 1 /\ h[Len(h)] = "---" /\ Len(g) \in Nat
  BY <1>2, <1>3
<1> HIDE DEF h
<1>6. h \o <<LF>> \in Seq(Plain) /\ Len(h \o <<LF>>) = Len(h) + 1 /\ (h \o <<LF>>)[Len(h) + 1] = LF
      /\ (h \o <<LF>>)[Len(h)] = h[Len(h)]
  BY <1>2, <1>5
<1> HIDE DEF text
<1>7. /\ text \in Seq(Plain) /\ Len(text) = Len(h) + 1 /\ text[Len(text)] = LF /\ text[Len(text) - 1] = "---"
      /\ Len(text) \in Nat
  BY <1>4, <1>5, <1>6
<1>8. text \in Seq(Tokens) /\ \A i \in DOMAIN text : text[i] \in Plain
  <2>1. Plain \subseteq Tokens
    BY DEF Plain
  <2>2. text \in Seq(Tokens)
    BY <1>7, <2>1, SeqMonotonic
  <2> QED BY <1>7, <2>2
<1>9. Starts(text) = {} /\ Ends(text) = {}
  BY <1>8, TokenFacts DEF Starts, IsStart, Ends, Plain
<1>10. Readable(text)
  BY <1>9 DEF Readable
<1>11. separated(text, <<LF>>) = text \o <<LF>>
  <2>1. text # <<>> /\ Last(text) \in Breaks
    BY <1>5, <1>7, BreakTokens DEF Last
  <2>2. "---" # LF
    BY DEF LF
  <2>3. ~ IsSuffix(<<LF>> \o <<LF>>, text)
    BY <1>7, <1>8, <2>2, EndsInTwo
  <2> QED BY <2>1, <2>3 DEF separated
<1> QED BY <1>8, <1>9, <1>10, <1>11 DEF text

-----------------------------------------------------------------------------
\* What the renderer writes.

LEMMA AtMostOne ==
    ASSUME NEW S, IsFiniteSet(S), Cardinality(S) <= 1, NEW x \in S, NEW y \in S
    PROVE  x = y
<1> SUFFICES ASSUME x # y PROVE FALSE
  OBVIOUS
<1>1. IsFiniteSet({x}) /\ Cardinality({x}) = 1
  BY FS_Singleton
<1>2. {x, y} = {x} \cup {y} /\ y \notin {x}
  OBVIOUS
<1>3. Cardinality({x} \cup {y}) = Cardinality({x}) + 1
  BY <1>1, <1>2, FS_AddElement
<1>4. Cardinality({x, y}) <= Cardinality(S)
  BY FS_Subset
<1>5. Cardinality(S) \in Nat
  BY FS_CardinalityType
<1> QED BY <1>1, <1>2, <1>3, <1>4, <1>5

LEMMA BlocksAreFinite ==
    ASSUME NEW text \in Seq(Tokens), NEW k
    PROVE  IsFiniteSet(BlocksOf(text, k)) /\ BlocksOf(text, k) \subseteq Starts(text) /\ BlocksOf(text, k) \in SUBSET Nat
<1>1. Len(text) \in Nat /\ BlocksOf(text, k) \subseteq 1 .. Len(text) /\ BlocksOf(text, k) \subseteq Starts(text)
  BY DEF BlocksOf, Starts
<1>2. IsFiniteSet(1 .. Len(text))
  BY <1>1, FS_Interval
<1> QED BY <1>1, <1>2, FS_Subset

\* A policy that has no block, and none without one.
LEMMA NoBlocks ==
    ASSUME NEW text \in Seq(Tokens), NEW k
    PROVE  OfPolicy(text, k) = <<>> <=> BlocksOf(text, k) = {}
<1> DEFINE S == BlocksOf(text, k)
<1>1. IsFiniteSet(S) /\ S \in SUBSET Nat
  BY BlocksAreFinite
<1>2. DOMAIN OfPolicy(text, k) = DOMAIN InOrder(S)
  BY DEF OfPolicy, Parsed
<1> HIDE DEF S
<1>3. DOMAIN InOrder(S) = 1 .. Cardinality(S) /\ Cardinality(S) \in Nat
  BY <1>1, Ranks
<1>4. Cardinality(S) = 0 <=> S = {}
  BY <1>1, FS_EmptySet
<1>5. CASE S = {}
  <2>1. OfPolicy(text, k) = [n \in 1 .. 0 |-> OfPolicy(text, k)[n]]
    <3>1. OfPolicy(text, k) = [n \in DOMAIN OfPolicy(text, k) |-> OfPolicy(text, k)[n]]
      BY DEF OfPolicy, Parsed
    <3> QED BY <1>2, <1>3, <1>4, <1>5, <3>1
  <2>2. OfPolicy(text, k) = <<>>
    BY <2>1
  <2> QED BY <1>5, <2>2 DEF S
<1>6. CASE S # {}
  <2>1. 1 \in DOMAIN OfPolicy(text, k)
    BY <1>2, <1>3, <1>4, <1>6
  <2>2. OfPolicy(text, k) # <<>>
    BY <2>1
  <2> QED BY <1>6, <2>2 DEF S
<1> QED BY <1>5, <1>6

\* A block that is there is replaced.
LEMMA UpdateIsSplice ==
    ASSUME NEW text \in Seq(Tokens), NEW k \in Keys, NEW c \in Seq(Tokens),
           Renderable(text, k, c), Unix(text), NEW s \in BlocksOf(text, k)
    PROVE  LET b == _block(k, c, <<LF>>)
               z == EndOf(text, s)
           IN  /\ IsSplice(render_target(text, k, c), text, s, z, b, Len(b) - (z - s + 1))
               /\ render_target(text, k, c) = Splice(text, s, z, b)
               /\ Gap(text, s, z) /\ IsBlock(b, k) /\ Own(text, s, z, k)
<1> DEFINE b == _block(k, c, <<LF>>)
           z == EndOf(text, s)
<1>1. _validate_markers(text) /\ Cardinality(BlocksOf(text, k)) <= 1 /\ Range(c) \cap Markers = {}
  BY DEF Renderable
<1>2. Readable(text)
  BY <1>1, AcceptedIsReadable
<1>3. \A x \in BlocksOf(text, k) : x = s
  BY <1>1, AtMostOne, BlocksAreFinite
<1>4. render_target(text, k, c) = Splice(text, s, z, b)
  <2>1. (CHOOSE i \in BlocksOf(text, k) : TRUE) = s
    BY <1>3
  <2>2. BlocksOf(text, k) # {} /\ _line_ending(text) = <<LF>>
    BY DEF Unix
  <2> QED BY <2>1, <2>2 DEF render_target, Splice
<1>5. s \in Starts(text) /\ text[s] = k
  BY DEF BlocksOf
<1>6. s \in 1 .. Len(text) /\ z \in 1 .. Len(text) /\ s < z /\ text[z] = End /\ Len(text) \in Nat
  BY <1>2, <1>5 DEF Readable, Starts, Ends
<1>7. b \in Seq(Tokens) /\ IsBlock(b, k)
  <2>1. <<LF>> \in Seq(Tokens)
    BY BreakTokens
  <2> QED BY <1>1, <2>1, BlockTyped, BlockIsBlock
<1> HIDE DEF b, z
<1>8. s \in 1 .. Len(text) + 1 /\ z \in s - 1 .. Len(text)
  BY <1>6
<1>9. IsSplice(Splice(text, s, z, b), text, s, z, b, Len(b) - (z - s + 1))
  BY <1>7, <1>8, SpliceIsSplice
<1>10. Gap(text, s, z)
  <2>1. s = 1 \/ text[s - 1] = LF
    BY <1>5 DEF Starts, IsStart
  <2>2. z + 1 \notin Starts(text)
    <3>1. z + 1 # 1 /\ (z + 1) - 1 = z
      BY <1>6
    <3> QED BY <1>6, <3>1, TokenFacts DEF Starts, IsStart
  <2>3. \A t \in Starts(text) : t < s => EndOf(text, t) < s
    BY <1>2, <1>5 DEF Readable
  <2> QED BY <1>2, <1>5, <2>1, <2>2, <2>3 DEF Gap, z
<1>11. Own(text, s, z, k)
  BY <1>3, <1>5 DEF Own, BlocksOf
<1> QED BY <1>4, <1>7, <1>9, <1>10, <1>11 DEF b, z

\* A block that is not there is put before the last line break of the text with
\* line breaks after it.
LEMMA AppendIsSplice ==
    ASSUME NEW text \in Seq(Tokens), NEW k \in Keys, NEW b \in Seq(Tokens), IsBlock(b, k),
           Readable(text), BlocksOf(text, k) = {}
    PROVE  LET before == separated(text, <<LF>>)
               a == Len(before) + 1
           IN  /\ Pads(before \o <<LF>>, text)
               /\ IsSplice(before \o b \o <<LF>>, before \o <<LF>>, a, a - 1, b, Len(b) - (a - 1 - a + 1))
               /\ Gap(before \o <<LF>>, a, a - 1) /\ Own(before \o <<LF>>, a, a - 1, k)
<1> DEFINE before == separated(text, <<LF>>)
           t == before \o <<LF>>
           a == Len(before) + 1
           z == a - 1
<1>1. Pads(before, text) /\ (before # <<>> => before[Len(before)] = LF)
  BY SeparatedPads
<1> HIDE DEF before
<1>2. Pads(t, text) /\ Len(t) = a /\ t[a] = LF /\ \A i \in 1 .. Len(before) : t[i] = before[i]
  BY <1>1, PadsOnce
<1>3. before \in Seq(Tokens) /\ t \in Seq(Tokens) /\ Len(before) \in Nat
  BY <1>1, <1>2 DEF Pads
<1>4. Readable(t)
  BY <1>2, PadsReadable
<1>5. BlocksOf(t, k) = {}
  BY <1>2, PadsRead
<1> HIDE DEF t
<1>6. a \in Nat /\ z \in Nat /\ Len(before) = z /\ Len(t) = a /\ z + 1 = a
  BY <1>2, <1>3
<1>7. SubSeq(t, 1, z) = before
  <2>1. SubSeq(t, 1, z) \in Seq(Tokens) /\ Len(SubSeq(t, 1, z)) = z /\ \A i \in 1 .. z : SubSeq(t, 1, z)[i] = t[i]
    <3> HIDE DEF a, z
    <3> QED BY <1>3, <1>6
  <2>2. \A i \in 1 .. Len(SubSeq(t, 1, z)) : SubSeq(t, 1, z)[i] = before[i]
    BY <1>2, <1>6, <2>1
  <2> QED BY <1>3, <1>6, <2>1, <2>2, SeqEqual
<1>8. SubSeq(t, z + 1, Len(t)) = <<LF>>
  <2>1. SubSeq(t, a, a) \in Seq(Tokens) /\ Len(SubSeq(t, a, a)) = 1 /\ SubSeq(t, a, a)[1] = t[a]
    <3> HIDE DEF a, z
    <3> QED BY <1>3, <1>6
  <2>2. SubSeq(t, a, a) = <<LF>>
    <3> HIDE DEF a, z
    <3> DEFINE w == SubSeq(t, a, a)
    <3>1. w \in Seq(Tokens) /\ Len(w) = 1 /\ w[1] = LF
      BY <1>2, <2>1
    <3> HIDE DEF w
    <3>2. w = <<LF>>
      BY <3>1
    <3> QED BY <3>2 DEF w
  <2> QED BY <1>6, <2>2
<1>9. Splice(t, a, z, b) = before \o b \o <<LF>>
  BY <1>7, <1>8 DEF Splice
<1> HIDE DEF a, z
<1>10. IsSplice(Splice(t, a, z, b), t, a, z, b, Len(b) - (z - a + 1))
  <2>1. a \in 1 .. Len(t) + 1 /\ z \in a - 1 .. Len(t)
    BY <1>6
  <2> QED BY <1>3, <2>1, SpliceIsSplice
<1>11. Gap(t, a, z)
  <2>1. a = 1 \/ t[a - 1] = LF
    <3>1. CASE before = <<>>
      BY <3>1 DEF a
    <3>2. CASE before # <<>>
      <4>1. Len(before) \in 1 .. Len(before) /\ a - 1 = Len(before)
        BY <1>3, <3>2 DEF a
      <4> QED BY <1>1, <1>2, <3>2, <4>1
    <3> QED BY <3>1, <3>2
  <2>2. a \notin Starts(t)
    BY <1>2, TokenFacts DEF Starts, IsStart
  <2>3. ASSUME NEW s \in Starts(t) PROVE EndOf(t, s) < a
    <3>1. EndOf(t, s) \in 1 .. a /\ t[EndOf(t, s)] = End
      BY <1>3, <1>4, <1>6 DEF Readable, Ends
    <3>2. EndOf(t, s) # a
      BY <1>2, <3>1, TokenFacts
    <3> QED BY <1>6, <3>1, <3>2
  <2>4. z = a - 1
    BY DEF z
  <2> QED BY <1>4, <1>6, <2>1, <2>2, <2>3, <2>4 DEF Gap
<1>12. Own(t, a, z, k)
  BY <1>5 DEF Own, BlocksOf, z
<1> QED BY <1>2, <1>9, <1>10, <1>11, <1>12 DEF before, t, a, z

\* What a rendering does to the text it begins with (and an appended block, to
\* the front matter of an empty Skill file).
LEMMA RenderedIs ==
    ASSUME NEW text \in Seq(Tokens), NEW k \in Keys, NEW c \in Seq(Tokens),
           Renderable(text, k, c), Unix(text)
    PROVE  \E t, a, z, d :
              /\ IsSplice(render_target(text, k, c), t, a, z, _block(k, c, <<LF>>), d)
              /\ Gap(t, a, z) /\ IsBlock(_block(k, c, <<LF>>), k) /\ Own(t, a, z, k)
              /\ OfOthers(t, k) = OfOthers(text, k)
              /\ IF BlocksOf(text, k) # {} THEN Human(t) = Human(text)
                 ELSE IF text = <<>> /\ kind = "skill" THEN Human(t) = FrontMatter(<<LF>>) \o <<LF, LF>>
                 ELSE /\ IsPrefix(Human(text), Human(t))
                      /\ \A i \in Len(Human(text)) + 1 .. Len(Human(t)) : Human(t)[i] = LF
<1> DEFINE b == _block(k, c, <<LF>>)
           u == render_target(text, k, c)
           prefix == IF kind = "skill" /\ text = <<>> THEN FrontMatter(<<LF>>) ELSE text
           before == separated(prefix, <<LF>>)
           t == before \o <<LF>>
           a == Len(before) + 1
<1>1. _line_ending(text) = <<LF>> /\ Readable(text) /\ Range(c) \cap Markers = {}
  BY AcceptedIsReadable DEF Renderable, Unix
<1>2. CASE BlocksOf(text, k) # {}
  <2>1. PICK s \in BlocksOf(text, k) : TRUE
    BY <1>2
  <2>2. IsSplice(u, text, s, EndOf(text, s), b, Len(b) - (EndOf(text, s) - s + 1))
        /\ Gap(text, s, EndOf(text, s)) /\ IsBlock(b, k) /\ Own(text, s, EndOf(text, s), k)
    BY UpdateIsSplice
  <2> HIDE DEF b, u
  <2>3. OfOthers(text, k) = OfOthers(text, k) /\ Human(text) = Human(text)
    OBVIOUS
  <2>4. \E x, y, d : IsSplice(u, text, x, y, b, d) /\ Gap(text, x, y) /\ IsBlock(b, k) /\ Own(text, x, y, k)
    BY <2>2, Zenon
  <2> QED BY <1>2, <2>4, Zenon DEF b, u
<1>3. CASE BlocksOf(text, k) = {}
  <2>1. b \in Seq(Tokens) /\ IsBlock(b, k)
    <3>1. <<LF>> \in Seq(Tokens)
      BY BreakTokens
    <3> QED BY <1>1, <3>1, BlockTyped, BlockIsBlock
  <2>2. u = before \o b \o <<LF>>
    BY <1>1, <1>3 DEF render_target
  <2>3. prefix \in Seq(Tokens) /\ Readable(prefix) /\ BlocksOf(prefix, k) = {}
    <3>1. CASE kind = "skill" /\ text = <<>>
      BY <3>1, FrontMatterIs DEF BlocksOf
    <3>2. CASE ~ (kind = "skill" /\ text = <<>>)
      BY <1>1, <1>3, <3>2
    <3> QED BY <3>1, <3>2
  <2> HIDE DEF b, u, prefix
  <2>4. Pads(t, prefix) /\ IsSplice(u, t, a, a - 1, b, Len(b) - (a - 1 - a + 1))
        /\ Gap(t, a, a - 1) /\ Own(t, a, a - 1, k)
    BY <2>1, <2>2, <2>3, AppendIsSplice
  <2>5. OfOthers(t, k) = OfOthers(prefix, k)
    BY <2>3, <2>4, PadsOthers
  <2>6. CASE kind = "skill" /\ text = <<>>
    <3> DEFINE f == FrontMatter(<<LF>>)
    <3>1. prefix = f
      BY <2>6 DEF prefix
    <3>2. f \in Seq(Tokens) /\ Starts(f) = {} /\ separated(f, <<LF>>) = f \o <<LF>>
      BY FrontMatterIs
    <3>3. t = f \o <<LF>> \o <<LF>>
      BY <3>1, <3>2
    <3> HIDE DEF f, t, before, a
    <3>4. t \in Seq(Tokens) /\ Starts(t) = {}
      BY <2>4, <3>1, <3>2, PadsRead DEF Pads
    <3>5. t = f \o <<LF, LF>>
      <4>1. <<LF>> \in Seq(Tokens) /\ <<LF>> \o <<LF>> = <<LF, LF>>
        <5>1. <<LF>> \in Seq(Tokens) /\ <<LF, LF>> \in Seq(Tokens)
          BY BreakTokens
        <5>2. <<LF>> \o <<LF>> \in Seq(Tokens) /\ Len(<<LF>> \o <<LF>>) = 2
              /\ (<<LF>> \o <<LF>>)[1] = LF /\ (<<LF>> \o <<LF>>)[2] = LF
          BY BreakTokens
        <5>3. Len(<<LF, LF>>) = 2 /\ <<LF, LF>>[1] = LF /\ <<LF, LF>>[2] = LF
          OBVIOUS
        <5>4. \A i \in 1 .. 2 : i = 1 \/ i = 2
          OBVIOUS
        <5>5. \A i \in 1 .. Len(<<LF>> \o <<LF>>) : (<<LF>> \o <<LF>>)[i] = <<LF, LF>>[i]
          BY <5>2, <5>3, <5>4, Zenon
        <5>6. Len(<<LF>> \o <<LF>>) = Len(<<LF, LF>>)
          BY <5>2, <5>3, Zenon
        <5> QED BY <5>1, <5>2, <5>5, <5>6, SeqEqual, Zenon
      <4>2. (f \o <<LF>>) \o <<LF>> = f \o (<<LF>> \o <<LF>>)
        BY <3>2, <4>1, ConcatAssociative
      <4> QED BY <3>3, <4>1, <4>2
    <3>6. Human(t) = f \o <<LF, LF>>
      BY <3>4, <3>5, HumanOnly
    <3>7. OfOthers(text, k) = OfOthers(f, k)
      <4>1. Starts(text) = {}
        BY <2>6 DEF Starts
      <4>2. Starts(text) \ BlocksOf(text, k) = {} /\ Starts(f) \ BlocksOf(f, k) = {}
        BY <3>2, <4>1
      <4>3. InOrder({}) = [n \in 1 .. 0 |-> InOrder({})[n]]
        <5>1. InOrder({}) \in [1 .. 0 -> {}]
          BY FS_EmptySet, Ranks
        <5> QED BY <5>1
      <4>4. DOMAIN InOrder({}) = {}
        BY <4>3
      <4> QED BY <4>2, <4>4 DEF OfOthers, Parsed
    <3>8. IsSplice(u, t, a, a - 1, b, Len(b) - (a - 1 - a + 1)) /\ Gap(t, a, a - 1) /\ IsBlock(b, k) /\ Own(t, a, a - 1, k)
      BY <2>1, <2>4
    <3>9. OfOthers(t, k) = OfOthers(text, k)
      BY <2>5, <3>1, <3>7
    <3>10. \E x, y, d : IsSplice(u, t, x, y, b, d) /\ Gap(t, x, y) /\ IsBlock(b, k) /\ Own(t, x, y, k)
      BY <3>8, Zenon
    <3> QED BY <1>3, <2>6, <3>6, <3>9, <3>10, Zenon DEF b, u, f
  <2>7. CASE ~ (kind = "skill" /\ text = <<>>)
    <3>1. prefix = text
      BY <2>7 DEF prefix
    <3> HIDE DEF t, before, a
    <3>2. /\ IsPrefix(Human(text), Human(t))
          /\ \A i \in Len(Human(text)) + 1 .. Len(Human(t)) : Human(t)[i] = LF
      BY <1>1, <2>4, <3>1, PadsHuman
    <3>3. \E x, y, d : IsSplice(u, t, x, y, b, d) /\ Gap(t, x, y) /\ IsBlock(b, k) /\ Own(t, x, y, k)
      BY <2>1, <2>4, Zenon
    <3>4. OfOthers(t, k) = OfOthers(text, k)
      BY <2>5, <3>1
    <3> QED BY <1>3, <2>7, <3>2, <3>3, <3>4, Zenon DEF b, u
  <2> QED BY <2>6, <2>7
<1> QED BY <1>2, <1>3

-----------------------------------------------------------------------------
\* The texts of a file.

Typed ==
    /\ kind \in Kinds
    /\ file \in Seq(Tokens)
    /\ used \in [edits : Nat, applies : Nat]

LEMMA InputsTyped == Texts \subseteq Seq(Tokens) /\ Pieces \subseteq Seq(Tokens) /\ Policies \subseteq Seq(Tokens)
  BY InputAssumption

LEMMA PartTyped ==
    ASSUME NEW text \in Seq(Tokens), NEW m \in Nat, NEW n \in Nat, 1 <= m, n <= Len(text)
    PROVE  SubSeq(text, m, n) \in Seq(Tokens)
<1>1. \A i \in m .. n : text[i] \in Tokens
  OBVIOUS
<1> QED BY <1>1, SubSeqProperties

LEMMA JoinTyped ==
    ASSUME NEW p \in Seq(Tokens), NEW q \in Seq(Tokens), NEW r \in Seq(Tokens)
    PROVE  p \o q \o r \in Seq(Tokens) /\ p \o q \in Seq(Tokens)
<1>1. p \o q \in Seq(Tokens)
  BY ConcatProperties
<1> QED BY <1>1, ConcatProperties

LEMMA SeparatedTyped ==
    ASSUME NEW text \in Seq(Tokens), NEW newline \in Seq(Tokens)
    PROVE  separated(text, newline) \in Seq(Tokens)
<1> DEFINE ended == IF text = <<>> \/ Last(text) \in Breaks THEN text ELSE text \o newline
<1>1. ended \in Seq(Tokens)
  BY ConcatProperties
<1> HIDE DEF ended
<1>2. (IF ended = <<>> \/ IsSuffix(newline \o newline, ended) THEN ended ELSE ended \o newline) \in Seq(Tokens)
  BY <1>1, ConcatProperties
<1> QED BY <1>2 DEF separated, ended

LEMMA FrontMatterTyped ==
    ASSUME NEW newline \in Seq(Tokens)
    PROVE  FrontMatter(newline) \in Seq(Tokens)
<1>1. Fields \subseteq Tokens /\ "---" \in Fields /\ "name" \in Fields /\ "description" \in Fields
  BY DEF Tokens, Fields
<1> DEFINE p == <<"---">> \o newline \o <<"name">>
           q == newline \o <<"description">> \o newline
<1>2. p \in Seq(Tokens) /\ <<"---">> \in Seq(Tokens) /\ <<"description">> \in Seq(Tokens)
  <2>1. <<"---">> \in Seq(Tokens) /\ <<"name">> \in Seq(Tokens) /\ <<"description">> \in Seq(Tokens)
    BY <1>1
  <2> QED BY <2>1, JoinTyped
<1>3. FrontMatter(newline) = p \o newline \o <<"description">> \o newline \o <<"---">> \o newline
  BY DEF FrontMatter
<1> HIDE DEF p
<1>4. p \o newline \o <<"description">> \in Seq(Tokens)
  BY <1>2, JoinTyped
<1>5. p \o newline \o <<"description">> \o newline \o <<"---">> \in Seq(Tokens)
  BY <1>2, <1>4, JoinTyped
<1> QED BY <1>3, <1>5, JoinTyped

LEMMA RenderTyped ==
    ASSUME NEW text \in Seq(Tokens), NEW k \in Keys, NEW c \in Seq(Tokens), Renderable(text, k, c)
    PROVE  render_target(text, k, c) \in Seq(Tokens)
<1> DEFINE newline == _line_ending(text)
           b == _block(k, c, newline)
           s == CHOOSE i \in BlocksOf(text, k) : TRUE
           prefix == IF kind = "skill" /\ text = <<>> THEN FrontMatter(newline) ELSE text
           before == separated(prefix, newline)
<1>1. newline \in Seq(Tokens)
  <2>1. newline = <<CR, LF>> \/ newline = <<LF>>
    BY DEF _line_ending
  <2>2. <<CR, LF>> \in Seq(Tokens) /\ <<LF>> \in Seq(Tokens)
    BY BreakTokens
  <2> HIDE DEF newline
  <2> QED BY <2>1, <2>2
<1>2. render_target(text, k, c) =
        IF BlocksOf(text, k) # {} THEN SubSeq(text, 1, s - 1) \o b \o SubSeq(text, EndOf(text, s) + 1, Len(text))
        ELSE before \o b \o newline
  BY DEF render_target
<1> HIDE DEF newline
<1>3. b \in Seq(Tokens)
  BY <1>1, BlockTyped
<1>4. before \in Seq(Tokens)
  <2>1. prefix \in Seq(Tokens)
    BY <1>1, FrontMatterTyped
  <2> HIDE DEF prefix
  <2> QED BY <1>1, <2>1, SeparatedTyped
<1> HIDE DEF b, before, s
<1>5. CASE BlocksOf(text, k) = {}
  BY <1>1, <1>2, <1>3, <1>4, <1>5, JoinTyped
<1>6. CASE BlocksOf(text, k) # {}
  <2>1. s \in BlocksOf(text, k)
    BY <1>6 DEF s
  <2>2. s \in Starts(text) /\ Readable(text)
    BY <2>1, AcceptedIsReadable DEF BlocksOf, Renderable
  <2>3. s \in 1 .. Len(text) /\ EndOf(text, s) \in 1 .. Len(text) /\ Len(text) \in Nat
    BY <2>2 DEF Readable, Starts, Ends
  <2>4. s - 1 \in Nat /\ s - 1 <= Len(text) /\ EndOf(text, s) + 1 \in Nat /\ 1 <= EndOf(text, s) + 1
    BY <2>3
  <2>5. SubSeq(text, 1, s - 1) \in Seq(Tokens) /\ SubSeq(text, EndOf(text, s) + 1, Len(text)) \in Seq(Tokens)
    BY <2>3, <2>4, PartTyped
  <2> QED BY <1>2, <1>3, <1>6, <2>5, JoinTyped
<1> QED BY <1>5, <1>6

LEMMA EditTyped ==
    ASSUME Typed, HumanEdit
    PROVE  file' \in Seq(Tokens)
<1>1. file \in Seq(Tokens) /\ Len(file) \in Nat /\ DOMAIN file = 1 .. Len(file)
  BY DEF Typed
<1>2. ASSUME NEW i \in 0 .. Len(file), NEW piece \in Pieces,
             file' = SubSeq(file, 1, i) \o piece \o SubSeq(file, i + 1, Len(file))
      PROVE  file' \in Seq(Tokens)
  <2>1. i \in Nat /\ i <= Len(file) /\ i + 1 \in Nat /\ 1 <= i + 1
    BY <1>1
  <2>2. SubSeq(file, 1, i) \in Seq(Tokens) /\ SubSeq(file, i + 1, Len(file)) \in Seq(Tokens)
    BY <1>1, <2>1, PartTyped
  <2>3. piece \in Seq(Tokens)
    BY InputsTyped
  <2> QED BY <1>2, <2>2, <2>3, JoinTyped
<1>3. ASSUME NEW i \in DOMAIN file, file' = RemoveAt(file, i) PROVE file' \in Seq(Tokens)
  <2>1. i - 1 \in Nat /\ i - 1 <= Len(file) /\ i + 1 \in Nat /\ 1 <= i + 1
    BY <1>1
  <2>2. SubSeq(file, 1, i - 1) \in Seq(Tokens) /\ SubSeq(file, i + 1, Len(file)) \in Seq(Tokens)
    BY <1>1, <2>1, PartTyped
  <2> QED BY <1>3, <2>2, JoinTyped DEF RemoveAt
<1>4. ASSUME NEW newline \in {<<LF>>, <<CR, LF>>},
             file' = FlattenSeq([i \in DOMAIN file |->
                        IF file[i] = LF THEN newline ELSE IF file[i] = CR THEN <<>> ELSE <<file[i]>>])
      PROVE  file' \in Seq(Tokens)
  <2> DEFINE part(i) == IF file[i] = LF THEN newline ELSE IF file[i] = CR THEN <<>> ELSE <<file[i]>>
             parts == [i \in DOMAIN file |-> part(i)]
  <2>1. newline \in Seq(Tokens)
    <3>1. <<LF>> \in Seq(Tokens) /\ <<CR, LF>> \in Seq(Tokens)
      BY BreakTokens
    <3> QED BY <3>1
  <2>2. \A i \in 1 .. Len(file) : <<file[i]>> \in Seq(Tokens) /\ <<>> \in Seq(Tokens)
    BY <1>1
  <2>3. \A i \in 1 .. Len(file) : part(i) \in Seq(Tokens)
    BY <2>1, <2>2
  <2>4. parts \in [1 .. Len(file) -> Seq(Tokens)]
    <3> HIDE DEF part
    <3> QED BY <1>1, <2>3
  <2>5. parts \in Seq(Seq(Tokens))
    <3> HIDE DEF parts
    <3> QED BY <1>1, <2>4, SeqDef
  <2>6. file' = FlattenSeq(parts)
    BY <1>4
  <2> HIDE DEF parts
  <2> QED BY <2>5, <2>6, FlattenTyped
<1> QED BY <1>2, <1>3, <1>4 DEF HumanEdit

LEMMA StepTyped == Typed /\ [Next]_vars => Typed'
<1> SUFFICES ASSUME Typed, [Next]_vars PROVE Typed'
  OBVIOUS
<1>1. CASE apply_preview
  <2>1. file' \in Seq(Tokens)
    <3>1. PICK k \in Keys, c \in Policies : Renderable(file, k, c) /\ file' = render_target(file, k, c)
      BY <1>1 DEF apply_preview
    <3>2. c \in Seq(Tokens) /\ file \in Seq(Tokens)
      BY InputsTyped DEF Typed
    <3> QED BY <3>1, <3>2, RenderTyped
  <2>2. used' \in [edits : Nat, applies : Nat] /\ kind' \in Kinds
    BY <1>1 DEF apply_preview, Typed
  <2> QED BY <2>1, <2>2 DEF Typed
<1>2. CASE HumanEdit
  <2>1. used' \in [edits : Nat, applies : Nat] /\ kind' \in Kinds
    BY <1>2 DEF HumanEdit, Typed
  <2> QED BY <1>2, <2>1, EditTyped DEF Typed
<1>3. CASE UNCHANGED vars
  BY <1>3 DEF vars, Typed
<1> QED BY <1>1, <1>2, <1>3 DEF Next

\* The text of a file is always a sequence of tokens, whatever people and
\* TrajWeave do to it (the inductive invariant of the theorems below).
THEOREM FilesAreTexts == Spec => []Typed
<1>1. Init => Typed
  BY InputsTyped DEF Init, Typed
<1> QED BY <1>1, StepTyped, PTL DEF Spec

\* A text the renderer accepts reads in one way only: each of its end markers
\* closes one start, no block begins within another (_validate_markers).
THEOREM AcceptedTextsAreUnambiguous == Spec => []AcceptedIsUnambiguous
<1>1. Typed => AcceptedIsUnambiguous
  <2> SUFFICES ASSUME Typed, _validate_markers(file)
               PROVE /\ \A e \in Ends(file) : \E s \in Starts(file) : EndOf(file, s) = e
                     /\ \A s, t \in Starts(file) : s < t => EndOf(file, s) < t
    BY DEF AcceptedIsUnambiguous
  <2>1. Readable(file)
    BY AcceptedIsReadable DEF Typed
  <2> QED BY <2>1 DEF Readable
<1> QED BY <1>1, FilesAreTexts, PTL

\* What a step that applies a policy is.
LEMMA ApplyIs ==
    ASSUME Typed, [Next]_vars, NEW k \in Keys, NEW c \in Policies, Applies(k, c)
    PROVE  /\ file \in Seq(Tokens) /\ c \in Seq(Tokens)
           /\ Renderable(file, k, c) /\ file' = render_target(file, k, c) /\ kind' = kind
<1>1. last' = [key |-> k, content |-> c] /\ used'.applies # used.applies
  BY DEF Applies
<1>2. ~ HumanEdit /\ ~ UNCHANGED vars
  BY <1>1 DEF HumanEdit, Typed, vars
<1>3. apply_preview
  BY <1>2 DEF Next
<1>4. PICK x \in Keys, y \in Policies :
         Renderable(file, x, y) /\ file' = render_target(file, x, y) /\ last' = [key |-> x, content |-> y]
  BY <1>3 DEF apply_preview
<1>5. x = k /\ y = c
  BY <1>1, <1>4
<1> QED BY <1>3, <1>4, <1>5, InputsTyped DEF apply_preview, Typed

\* Apply inserts or updates exactly its own block, which then holds the approved
\* content: all other blocks and all human text of a file with Unix line breaks
\* stay as they are, but for line breaks where the block is appended and the
\* front matter of an empty Skill file, and the renderer accepts what it has
\* written.  What becomes of edits inside the block is left open (render_target).
THEOREM ApplyChangesOnlyItsBlock == Spec => OnlyOwnBlockChanges
<1> DEFINE Kept(k, c) ==
        Applies(k, c) /\ Unix(file) =>
            /\ _validate_markers(file') /\ Len(OfPolicy(file', k)) = 1
            /\ AsWritten(file, k) => OfPolicy(file', k) = <<[key |-> k, body |-> Written(c)]>>
            /\ OfOthers(file', k) = OfOthers(file, k)
            /\ IF OfPolicy(file, k) # <<>> THEN Human(file') = Human(file)
               ELSE IF file = <<>> /\ kind = "skill" THEN Human(file') = FrontMatter(<<LF>>) \o <<LF, LF>>
               ELSE /\ IsPrefix(Human(file), Human(file'))
                    /\ \A i \in Len(Human(file)) + 1 .. Len(Human(file')) : Human(file')[i] = LF
<1>1. ASSUME Typed, [Next]_vars, NEW k \in Keys, NEW c \in Policies PROVE Kept(k, c)
  <2> SUFFICES ASSUME Applies(k, c), Unix(file)
               PROVE  /\ _validate_markers(file') /\ Len(OfPolicy(file', k)) = 1
                      /\ AsWritten(file, k) => OfPolicy(file', k) = <<[key |-> k, body |-> Written(c)]>>
                      /\ OfOthers(file', k) = OfOthers(file, k)
                      /\ IF OfPolicy(file, k) # <<>> THEN Human(file') = Human(file)
                         ELSE IF file = <<>> /\ kind = "skill" THEN Human(file') = FrontMatter(<<LF>>) \o <<LF, LF>>
                         ELSE /\ IsPrefix(Human(file), Human(file'))
                              /\ \A i \in Len(Human(file)) + 1 .. Len(Human(file')) : Human(file')[i] = LF
    OBVIOUS
  <2> DEFINE b == _block(k, c, <<LF>>)
  <2>1. file \in Seq(Tokens) /\ c \in Seq(Tokens) /\ Renderable(file, k, c) /\ file' = render_target(file, k, c)
    BY <1>1, ApplyIs
  <2>2. PICK t, a, z, d :
              /\ IsSplice(file', t, a, z, b, d)
              /\ Gap(t, a, z) /\ IsBlock(b, k) /\ Own(t, a, z, k)
              /\ OfOthers(t, k) = OfOthers(file, k)
              /\ IF BlocksOf(file, k) # {} THEN Human(t) = Human(file)
                 ELSE IF file = <<>> /\ kind = "skill" THEN Human(t) = FrontMatter(<<LF>>) \o <<LF, LF>>
                 ELSE /\ IsPrefix(Human(file), Human(t))
                      /\ \A i \in Len(Human(file)) + 1 .. Len(Human(t)) : Human(t)[i] = LF
    BY <2>1, RenderedIs
  <2>3. SubSeq(b, 2, Len(b) - 1) = Written(c)
    BY <2>1, BlockIsBlock DEF Renderable, Written
  <2> HIDE DEF b
  <2>4. _validate_markers(file')
    BY <2>2, SpliceIsAccepted
  <2>5. OfPolicy(file', k) = <<[key |-> k, body |-> SubSeq(b, 2, Len(b) - 1)]>>
    BY <2>2, SplicePolicy
  <2>6. OfOthers(file', k) = OfOthers(file, k)
    BY <2>2, SpliceOthers
  <2>7. Human(file') = Human(t)
    BY <2>2, SpliceHuman
  <2>8. OfPolicy(file, k) = <<>> <=> BlocksOf(file, k) = {}
    BY <2>1, NoBlocks
  <2>9. OfPolicy(file', k) = <<[key |-> k, body |-> Written(c)]>> /\ Len(OfPolicy(file', k)) = 1
    BY <2>3, <2>5
  <2> QED BY <2>2, <2>4, <2>6, <2>7, <2>8, <2>9
<1>2. Typed /\ [Next]_vars => [\A k \in Keys, c \in Policies : Kept(k, c)]_vars
  <2> HIDE DEF Kept
  <2> QED BY <1>1
<1>3. OnlyOwnBlockChanges <=> [][\A k \in Keys, c \in Policies : Kept(k, c)]_vars
  BY DEF OnlyOwnBlockChanges
<1> HIDE DEF Kept
<1> QED BY <1>2, <1>3, FilesAreTexts, PTL DEF Spec

\* Rendering twice is rendering once: a policy that was just applied needs no
\* change, in files whose line breaks are Unix ones before and after the first
\* rendering (apply_preview reports it as already applied).
THEOREM ApplyingTwiceIsApplyingOnce == Spec => TwiceIsOnce
<1> DEFINE Same(k, c) ==
        Applies(k, c) /\ Unix(file) /\ Unix(file') =>
            /\ Renderable(file', k, c)
            /\ render_target(file', k, c) = file'
<1>1. ASSUME Typed, [Next]_vars, NEW k \in Keys, NEW c \in Policies PROVE Same(k, c)
  <2> SUFFICES ASSUME Applies(k, c), Unix(file), Unix(file')
               PROVE  Renderable(file', k, c) /\ render_target(file', k, c) = file'
    OBVIOUS
  <2> DEFINE b == _block(k, c, <<LF>>)
             u == file'
  <2>1. file \in Seq(Tokens) /\ c \in Seq(Tokens) /\ Renderable(file, k, c) /\ u = render_target(file, k, c)
    BY <1>1, ApplyIs
  <2>2. PICK t, a, z, d : IsSplice(u, t, a, z, b, d) /\ Gap(t, a, z) /\ IsBlock(b, k) /\ Own(t, a, z, k)
    BY <2>1, RenderedIs
  <2>3. _validate_markers(u)
    BY <2>2, SpliceIsAccepted
  <2>4. BlocksOf(u, k) = {a}
    BY <2>2, SplicePolicy
  <2>5. Renderable(u, k, c)
    <3>1. Cardinality({a}) = 1
      BY FS_Singleton, Zenon
    <3> QED BY <2>1, <2>3, <2>4, <3>1 DEF Renderable
  <2>6. u \in Seq(Tokens) /\ Unix(u) /\ a \in BlocksOf(u, k)
    BY <2>1, <2>2, <2>4 DEF IsSplice
  <2> HIDE DEF b, u
  <2>7. EndOf(u, a) = a + Len(b) - 1
    BY <2>2, SpliceEndOf
  <2> DEFINE v == render_target(u, k, c)
             e == Len(b) - (EndOf(u, a) - a + 1)
  <2>8. IsSplice(v, u, a, EndOf(u, a), b, e)
    BY <2>1, <2>5, <2>6, UpdateIsSplice DEF b
  <2> HIDE DEF v
  <2>9. /\ a \in Nat /\ Len(b) \in Nat /\ Len(u) \in Nat /\ e = 0
        /\ v \in Seq(Tokens) /\ Len(v) = Len(u)
    BY <2>2, <2>7, <2>8, SplicePositions DEF IsSplice
  <2>10. ASSUME NEW i \in 1 .. Len(v) PROVE v[i] = u[i]
    <3>1. /\ \A j \in 1 .. a - 1 : v[j] = u[j]
          /\ \A j \in a .. a + Len(b) - 1 : v[j] = b[j - a + 1]
          /\ \A j \in EndOf(u, a) + 1 .. Len(u) : v[j + e] = u[j]
      BY <2>8 DEF IsSplice
    <3>2. \A j \in a .. a + Len(b) - 1 : u[j] = b[j - a + 1]
      BY <2>2 DEF IsSplice
    <3>3. i \in 1 .. a - 1 \/ i \in a .. a + Len(b) - 1 \/ (i \in EndOf(u, a) + 1 .. Len(u) /\ i + e = i)
      BY <2>7, <2>9
    <3> QED BY <3>1, <3>2, <3>3
  <2>11. v = u
    BY <2>6, <2>9, <2>10, SeqEqual
  <2> QED BY <2>5, <2>11 DEF v, u
<1>2. Typed /\ [Next]_vars => [\A k \in Keys, c \in Policies : Same(k, c)]_vars
  <2> HIDE DEF Same
  <2> QED BY <1>1
<1>3. TwiceIsOnce <=> [][\A k \in Keys, c \in Policies : Same(k, c)]_vars
  BY DEF TwiceIsOnce
<1> HIDE DEF Same
<1> QED BY <1>2, <1>3, FilesAreTexts, PTL DEF Spec
=============================================================================
