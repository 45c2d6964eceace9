--------------------------- MODULE CsvText_proofs ---------------------------
(***************************************************************************)
(* What the rows of a text are, for every text: Ascending and Concat, how  *)
(* ReferenceRows and the line that is still open change with one more      *)
(* character, and what the reference reads from rows that were joined.     *)
(* Nothing here is about the state of a CSV object; Csv_proofs is.         *)
(*                                                                         *)
(* Induction over the naturals is NatInduct, from the least element of a   *)
(* set of numbers.                                                         *)
(***************************************************************************)
EXTENDS Csv, FiniteSetTheorems, SequenceTheorems, WellFoundedInduction, TLAPS

\* Induction over Nat: a set of numbers has a least element.
LEMMA Least == ASSUME NEW T \in SUBSET Nat, T # {} PROVE \E x \in T : \A y \in T : x <= y
  <1> DEFINE R == OpToRel(<, Nat)
  <1>1. IsWellFoundedOn(R, Nat)
    BY NatLessThanWellFounded, Zenon
  <1>2. \A x, y \in Nat : x < y => <<x, y>> \in R
    BY DEF OpToRel
  <1> HIDE DEF R
  <1>3. PICK x \in T : \A y \in T : ~(<<y, x>> \in R)
    BY <1>1, WFMin, Zenon
  <1>4. \A y \in T : ~(y < x)
    BY <1>2, <1>3, Zenon
  <1> QED
    BY <1>4

LEMMA NatInduct == ASSUME NEW T \in SUBSET Nat, 0 \in T, \A n \in T : n + 1 \in T PROVE T = Nat
  <1> SUFFICES ASSUME T # Nat PROVE FALSE
    OBVIOUS
  <1> DEFINE U == Nat \ T
  <1>1. PICK x \in U : \A y \in U : x <= y
    BY Least, Zenon
  <1>2. x - 1 \in Nat /\ x - 1 \notin U
    BY <1>1
  <1> QED
    BY <1>1, <1>2

-----------------------------------------------------------------------------
\* Ascending enumerates a set of positions.
Rank(S, x) == Cardinality({y \in S : y < x})

LEMMA FiniteBelow ==
    ASSUME NEW n \in Nat, NEW S \in SUBSET (1..n)
    PROVE  /\ IsFiniteSet(S) /\ Cardinality(S) \in Nat
           /\ \A x : IsFiniteSet({y \in S : y < x}) /\ Rank(S, x) \in Nat
  <1>1. IsFiniteSet(1..n)
    BY FS_Interval
  <1>2. \A R \in SUBSET S : IsFiniteSet(R) /\ Cardinality(R) \in Nat
    BY <1>1, FS_Subset, FS_CardinalityType, Zenon
  <1> QED
    BY <1>2 DEF Rank

LEMMA RankBounds ==
    ASSUME NEW n \in Nat, NEW S \in SUBSET (1..n), NEW x \in S
    PROVE  /\ Rank(S, x) < Cardinality(S)
           /\ \A z \in S : x < z => Rank(S, x) < Rank(S, z)
  <1> DEFINE B(z) == {y \in S : y < z}
  <1>1. \A z : IsFiniteSet(B(z)) /\ Cardinality(B(z)) \in Nat
    BY FiniteBelow DEF Rank
  <1>2. IsFiniteSet(S) /\ Cardinality(S) \in Nat
    BY FiniteBelow
  <1>3. B(x) \in SUBSET S /\ B(x) # S
    OBVIOUS
  <1>4. ASSUME NEW z \in S, x < z PROVE B(x) \in SUBSET B(z) /\ B(x) # B(z)
    <2>1. x \in B(z) /\ x \notin B(x)
      BY <1>4
    <2>2. \A y \in S : y \in Nat /\ (y < x => y < z)
      BY <1>4
    <2>3. B(x) \in SUBSET B(z)
      BY <2>2, Zenon
    <2> QED
      BY <2>1, <2>3
  <1> HIDE DEF B
  <1>5. \A R, Q : IsFiniteSet(R) /\ Q \in SUBSET R /\ Q # R /\ Cardinality(R) \in Nat
                  /\ Cardinality(Q) \in Nat => Cardinality(Q) < Cardinality(R)
    BY FS_Subset
  <1>6. Cardinality(B(x)) < Cardinality(S)
    BY <1>1, <1>2, <1>3, <1>5
  <1>7. \A z \in S : x < z => Cardinality(B(x)) < Cardinality(B(z))
    BY <1>1, <1>4, <1>5
  <1> QED
    BY <1>6, <1>7 DEF B, Rank

\* A larger element changes no rank but its own.
LEMMA RankGrows ==
    ASSUME NEW n \in Nat, NEW S \in SUBSET (1..n), NEW m \in Nat, n < m
    PROVE  /\ Cardinality(S \cup {m}) = Cardinality(S) + 1
           /\ \A x \in S : Rank(S \cup {m}, x) = Rank(S, x)
           /\ Rank(S \cup {m}, m) = Cardinality(S)
  <1>0. \A y \in S : y \in Nat /\ y < m
    OBVIOUS
  <1>1. m \notin S /\ IsFiniteSet(S)
    <2>1. ~(m < m)
      OBVIOUS
    <2>2. IsFiniteSet(S)
      BY FiniteBelow
    <2> QED
      BY <1>0, <2>1, <2>2, Zenon
  <1>2. \A x \in S : {y \in S \cup {m} : y < x} = {y \in S : y < x}
    BY <1>0
  <1>3. {y \in S \cup {m} : y < m} = S
    <2>1. ~(m < m)
      OBVIOUS
    <2> QED
      BY <1>0, <2>1, Zenon
  <1> QED
    BY <1>1, <1>2, <1>3, FS_AddElement, Zenon DEF Rank

LEMMA RankExists ==
    ASSUME NEW n \in Nat, NEW S \in SUBSET (1..n)
    PROVE  \A k \in 1..Cardinality(S) : \E x \in S : Rank(S, x) = k - 1
  <1> DEFINE P(i) == \A R \in SUBSET (1..i) : \A k \in 1..Cardinality(R) : \E x \in R : Rank(R, x) = k - 1
             T == {i \in Nat : P(i)}
  <1>1. P(0)
    <2>1. \A R \in SUBSET (1..0) : R = {}
      OBVIOUS
    <2>2. 1..Cardinality({}) = {}
      BY FS_EmptySet
    <2> QED
      BY <2>1, <2>2, Zenon
  <1>2. ASSUME NEW i \in Nat, P(i) PROVE P(i + 1)
    <2> SUFFICES ASSUME NEW R \in SUBSET (1..(i + 1)), NEW k \in 1..Cardinality(R)
                 PROVE  \E x \in R : Rank(R, x) = k - 1
      OBVIOUS
    <2>1. CASE i + 1 \notin R
      <3>1. R \in SUBSET (1..i)
        BY <2>1
      <3> QED
        BY <1>2, <3>1
    <2>2. CASE i + 1 \in R
      <3> DEFINE Q == R \ {i + 1}
      <3>1. Q \in SUBSET (1..i) /\ R = Q \cup {i + 1} /\ i < i + 1 /\ i + 1 \in Nat
        BY <2>2
      <3> HIDE DEF Q
      <3>2. /\ Cardinality(R) = Cardinality(Q) + 1 /\ Rank(R, i + 1) = Cardinality(Q)
            /\ \A x \in Q : Rank(R, x) = Rank(Q, x)
        BY <3>1, RankGrows, ZenonT(30)
      <3>3. Cardinality(Q) \in Nat
        BY <3>1, FiniteBelow, Zenon
      <3>4. CASE k = Cardinality(R)
        BY <2>2, <3>2, <3>3, <3>4
      <3>5. CASE k # Cardinality(R)
        <4>1. k \in 1..Cardinality(Q)
          BY <3>2, <3>3, <3>5
        <4>2. PICK x \in Q : Rank(Q, x) = k - 1
          BY <1>2, <3>1, <4>1
        <4> QED
          BY <3>1, <3>2, <4>2, Zenon
      <3> QED
        BY <3>4, <3>5
    <2> QED
      BY <2>1, <2>2
  <1> HIDE DEF P
  <1>3. T = Nat
    <2>1. 0 \in T /\ T \in SUBSET Nat /\ \A i \in T : i + 1 \in T
      BY <1>1, <1>2
    <2> HIDE DEF T
    <2> QED
      BY <2>1, NatInduct
  <1>4. P(n)
    BY <1>3
  <1> QED
    BY <1>4 DEF P

LEMMA AscendingAt ==
    ASSUME NEW n \in Nat, NEW S \in SUBSET (1..n), NEW x \in S
    PROVE  \A k \in 1..Cardinality(S) : Rank(S, x) = k - 1 => Ascending(S)[k] = x
  <1>1. ASSUME NEW z \in S, z # x PROVE Rank(S, z) # Rank(S, x)
    <2>1. x < z \/ z < x
      BY <1>1
    <2>2. x < z => Rank(S, x) < Rank(S, z)
      BY RankBounds, Zenon
    <2>3. z < x => Rank(S, z) < Rank(S, x)
      BY RankBounds
    <2>4. Rank(S, x) \in Nat /\ Rank(S, z) \in Nat
      BY FiniteBelow, Zenon
    <2> QED
      BY <2>1, <2>2, <2>3, <2>4
  <1> QED
    BY <1>1 DEF Ascending, Rank

LEMMA AscendingType ==
    ASSUME NEW n \in Nat, NEW S \in SUBSET (1..n)
    PROVE  /\ Ascending(S) \in Seq(S) /\ Len(Ascending(S)) = Cardinality(S)
           /\ Cardinality(S) \in Nat
  <1>1. Cardinality(S) \in Nat
    BY FiniteBelow, Zenon
  <1>2. ASSUME NEW k \in 1..Cardinality(S) PROVE Ascending(S)[k] \in S
    <2>1. PICK x \in S : Rank(S, x) = k - 1
      BY RankExists
    <2> QED
      BY <2>1, AscendingAt, Zenon
  <1>3. Ascending(S) \in [1..Cardinality(S) -> S]
    BY <1>2, Zenon DEF Ascending
  <1> QED
    BY <1>1, <1>3

LEMMA AscendingEmpty == Ascending({}) = <<>>
  <1>1. Ascending({}) \in Seq({}) /\ Len(Ascending({})) = 0
    <2>1. {} \in SUBSET (1..0)
      OBVIOUS
    <2> QED
      BY <2>1, AscendingType, FS_EmptySet
  <1> QED
    BY <1>1

LEMMA AscendingGrows ==
    ASSUME NEW n \in Nat, NEW S \in SUBSET (1..n), NEW m \in Nat, n < m
    PROVE  Ascending(S \cup {m}) = Append(Ascending(S), m)
  <1> DEFINE R == S \cup {m}
             c == Cardinality(S)
             l == Ascending(R)
             r == Append(Ascending(S), m)
  <1>1. R \in SUBSET (1..m) /\ m \in R
    OBVIOUS
  <1>2. c \in Nat /\ Cardinality(R) = c + 1
    BY RankGrows, FiniteBelow, Zenon
  <1>3. Ascending(S) \in Seq(R) /\ Len(Ascending(S)) = c
    <2>1. Ascending(S) \in Seq(S) /\ Len(Ascending(S)) = c
      BY AscendingType, Zenon
    <2> QED
      BY <2>1, SeqMonotonic
  <1>4. l \in Seq(R) /\ Len(l) = c + 1
    BY <1>1, <1>2, AscendingType, Zenon
  <1>5. r \in Seq(R) /\ Len(r) = c + 1 /\ r[c + 1] = m /\ \A k \in 1..c : r[k] = Ascending(S)[k]
    BY <1>1, <1>2, <1>3
  <1>6. l[c + 1] = m
    <2>1. Rank(R, m) = (c + 1) - 1 /\ c + 1 \in 1..Cardinality(R)
      BY <1>2, RankGrows
    <2> QED
      BY <1>1, <2>1, AscendingAt, Zenon
  <1>7. ASSUME NEW k \in 1..c PROVE l[k] = Ascending(S)[k]
    <2>1. PICK x \in S : Rank(S, x) = k - 1
      BY RankExists
    <2>2. Ascending(S)[k] = x
      BY <2>1, AscendingAt
    <2>3. Rank(R, x) = k - 1 /\ x \in R
      BY <2>1, RankGrows, Zenon
    <2>4. k \in 1..Cardinality(R)
      BY <1>2
    <2>5. Ascending(R)[k] = x
      BY <1>1, <2>3, <2>4, AscendingAt
    <2> QED
      BY <2>2, <2>5
  <1> HIDE DEF l, r, c, R
  <1>8. \A k \in 1..(c + 1) : l[k] = r[k]
    BY <1>2, <1>5, <1>6, <1>7
  <1>9. l = r
    BY <1>2, <1>4, <1>5, <1>8, SeqEqual
  <1> QED
    BY <1>9, Zenon DEF l, r, R

-----------------------------------------------------------------------------
\* Concat from its front: the first sequence, and then the others.
IsFlat(f, s, n) == f = [i \in 1..n |-> IF i = 1 THEN s[i] ELSE f[i - 1] \o s[i]]

LEMMA ConcatIsFlat ==
    ASSUME NEW s, Len(s) # 0
    PROVE  Concat(s) = (CHOOSE f : IsFlat(f, s, Len(s)))[Len(s)]
  BY DEF Concat, IsFlat

LEMMA FlatAt ==
    ASSUME NEW f, NEW s, NEW n, IsFlat(f, s, n), NEW i \in 1..n
    PROVE  f[i] = IF i = 1 THEN s[i] ELSE f[i - 1] \o s[i]
  <1> DEFINE g == [j \in 1..n |-> IF j = 1 THEN s[j] ELSE f[j - 1] \o s[j]]
  <1>1. f = g
    BY Zenon DEF IsFlat
  <1>2. g[i] = IF i = 1 THEN s[i] ELSE f[i - 1] \o s[i]
    OBVIOUS
  <1> HIDE DEF g
  <1> QED
    BY <1>1, <1>2, Zenon

LEMMA FlatEnds ==
    ASSUME NEW f, NEW s, NEW n \in Nat, IsFlat(f, s, n)
    PROVE  /\ n # 0 => f[1] = s[1]
           /\ \A k \in 1..n : k # 1 => f[k] = f[k - 1] \o s[k]
  <1>1. \A k \in 1..n : f[k] = IF k = 1 THEN s[k] ELSE f[k - 1] \o s[k]
    BY FlatAt
  <1>2. n # 0 => 1 \in 1..n
    OBVIOUS
  <1> QED
    BY <1>1, <1>2, Zenon

LEMMA FlatExists ==
    ASSUME NEW s, NEW n \in Nat
    PROVE  \E f : IsFlat(f, s, n)
  <1> DEFINE P(k) == \E f : IsFlat(f, s, k)
             T == {k \in Nat : P(k)}
  <1>1. P(0)
    <2>1. IsFlat([i \in 1..0 |-> <<>>], s, 0)
      BY DEF IsFlat
    <2> QED
      BY <2>1
  <1>2. ASSUME NEW k \in Nat, P(k) PROVE P(k + 1)
    <2>1. PICK f : IsFlat(f, s, k)
      BY <1>2
    <2> DEFINE g == [i \in 1..(k + 1) |-> IF i <= k THEN f[i]
                                          ELSE IF i = 1 THEN s[i] ELSE f[k] \o s[i]]
    <2>2. ASSUME NEW i \in 1..(k + 1)
          PROVE  g[i] = IF i = 1 THEN s[i] ELSE g[i - 1] \o s[i]
      <3>1. CASE i <= k
        <4>1. f[i] = IF i = 1 THEN s[i] ELSE f[i - 1] \o s[i]
          BY <2>1, <3>1, FlatAt
        <4>2. g[i] = f[i] /\ (i # 1 => g[i - 1] = f[i - 1])
          BY <3>1
        <4> QED
          BY <4>1, <4>2
      <3>2. CASE i = k + 1
        <4>1. i # 1 => g[i - 1] = f[k]
          BY <3>2
        <4> QED
          BY <3>2, <4>1
      <3> QED
        BY <3>1, <3>2
    <2>3. IsFlat(g, s, k + 1)
      BY <2>2, Zenon DEF IsFlat
    <2> QED
      BY <2>3
  <1> HIDE DEF P
  <1>3. T = Nat
    <2>1. 0 \in T /\ T \in SUBSET Nat /\ \A k \in T : k + 1 \in T
      BY <1>1, <1>2
    <2> HIDE DEF T
    <2> QED
      BY <2>1, NatInduct
  <1>4. P(n)
    BY <1>3
  <1> QED
    BY <1>4 DEF P

LEMMA FlatType ==
    ASSUME NEW C, NEW s \in Seq(Seq(C)), NEW f, IsFlat(f, s, Len(s))
    PROVE  \A k \in 1..Len(s) : f[k] \in Seq(C)
  <1> DEFINE n == Len(s)
             P(k) == k \in 1..n => f[k] \in Seq(C)
             T == {k \in Nat : P(k)}
  <1>0. n \in Nat /\ \A k \in 1..n : s[k] \in Seq(C)
    BY ElementOfSeq
  <1>1. /\ \A k \in 1..n : k # 1 => f[k] = f[k - 1] \o s[k]
        /\ n # 0 => f[1] = s[1]
    BY <1>0, FlatEnds, Zenon
  <1>2. P(0)
    OBVIOUS
  <1>3. ASSUME NEW k \in Nat, P(k) PROVE P(k + 1)
    <2> SUFFICES ASSUME k + 1 \in 1..n PROVE f[k + 1] \in Seq(C)
      OBVIOUS
    <2>1. CASE k = 0
      BY <1>0, <1>1, <2>1
    <2>2. CASE k # 0
      <3>1. k \in 1..n /\ k + 1 # 1 /\ (k + 1) - 1 = k
        BY <1>0, <2>2
      <3>2. f[k + 1] = f[k] \o s[k + 1]
        BY <1>1, <3>1, Zenon
      <3>3. f[k] \in Seq(C) /\ s[k + 1] \in Seq(C)
        BY <1>0, <1>3, <3>1
      <3> QED
        BY <3>2, <3>3, ConcatProperties
    <2> QED
      BY <2>1, <2>2
  <1> HIDE DEF P
  <1>4. T = Nat
    <2>1. 0 \in T /\ T \in SUBSET Nat /\ \A k \in T : k + 1 \in T
      BY <1>2, <1>3
    <2> HIDE DEF T
    <2> QED
      BY <2>1, NatInduct, Zenon
  <1>5. \A k \in Nat : P(k)
    BY <1>4
  <1> QED
    BY <1>0, <1>5 DEF P

LEMMA ConcatOfNone == Concat(<<>>) = <<>>
  <1>1. Len(<<>>) = 0
    OBVIOUS
  <1> QED
    BY <1>1 DEF Concat

LEMMA ConcatType ==
    ASSUME NEW C, NEW s \in Seq(Seq(C))
    PROVE  Concat(s) \in Seq(C) /\ (s = <<>> => Concat(s) = <<>>)
  <1>1. CASE s = <<>>
    BY <1>1 DEF Concat
  <1>2. CASE s # <<>>
    <2>1. Len(s) \in Nat /\ Len(s) # 0 /\ Len(s) \in 1..Len(s)
      BY <1>2
    <2>2. \E f : IsFlat(f, s, Len(s))
      BY <2>1, FlatExists, Zenon
    <2>3. PICK f : IsFlat(f, s, Len(s)) /\ Concat(s) = f[Len(s)]
      BY <2>1, <2>2, ConcatIsFlat, Zenon
    <2>4. f[Len(s)] \in Seq(C)
      BY <2>1, <2>3, FlatType
    <2> QED
      BY <1>2, <2>3, <2>4
  <1> QED
    BY <1>1, <1>2

Associates(C) == \A s, t, u \in Seq(C) : (s \o t) \o u = s \o (t \o u)

LEMMA Associative == ASSUME NEW C PROVE Associates(C)
  BY ConcatAssociative DEF Associates

LEMMA ConcatCons ==
    ASSUME NEW C, NEW s \in Seq(Seq(C)), s # <<>>
    PROVE  Concat(s) = s[1] \o Concat(Tail(s))
  <1> DEFINE n == Len(s)
             t == Tail(s)
  <1>1. /\ n \in Nat \ {0} /\ t \in Seq(Seq(C)) /\ Len(t) = n - 1
        /\ \A k \in 1..(n - 1) : t[k] = s[k + 1]
        /\ \A k \in 1..n : s[k] \in Seq(C)
    BY ElementOfSeq
  <1> HIDE DEF n, t
  <1>2. PICK f : IsFlat(f, s, n) /\ Concat(s) = f[n]
    <2>1. \E f : IsFlat(f, s, n)
      BY <1>1, FlatExists, Zenon
    <2> QED
      BY <1>1, <2>1, ConcatIsFlat, Zenon DEF n
  <1>3. /\ f[1] = s[1]
        /\ \A k \in 1..n : k # 1 => f[k] = f[k - 1] \o s[k]
    <2>1. n \in Nat /\ n # 0
      BY <1>1
    <2> QED
      BY <1>2, <2>1, FlatEnds, ZenonT(30)
  <1>4. CASE n = 1
    <2>1. t = <<>>
      BY <1>1, <1>4
    <2>2. Concat(t) = <<>>
      BY <1>1, <2>1, ConcatType, Zenon
    <2>3. s[1] \in Seq(C) /\ Concat(s) = s[1]
      BY <1>1, <1>2, <1>3, <1>4
    <2>4. s[1] \o <<>> = s[1]
      BY <2>3, ConcatEmptySeq
    <2> QED
      BY <2>2, <2>3, <2>4 DEF t
  <1>5. CASE n # 1
    <2>1. Len(t) \in Nat /\ Len(t) # 0
      BY <1>1, <1>5
    <2>2. PICK g : IsFlat(g, t, Len(t)) /\ Concat(t) = g[Len(t)]
      <3>1. \E g : IsFlat(g, t, Len(t))
        BY <2>1, FlatExists, Zenon
      <3> QED
        BY <2>1, <3>1, ConcatIsFlat, Zenon
    <2>3. /\ \A k \in 1..(n - 1) : g[k] \in Seq(C)
          /\ g[1] = t[1]
          /\ \A k \in 1..(n - 1) : k # 1 => g[k] = g[k - 1] \o t[k]
      <3>1. \A k \in 1..Len(t) : g[k] \in Seq(C)
        BY <1>1, <2>2, FlatType
      <3>2. /\ g[1] = t[1]
            /\ \A k \in 1..Len(t) : k # 1 => g[k] = g[k - 1] \o t[k]
        BY <2>1, <2>2, FlatEnds, ZenonT(30)
      <3> QED
        BY <1>1, <3>1, <3>2, Zenon
    <2> DEFINE P(k) == k \in 1..(n - 1) => f[k + 1] = s[1] \o g[k]
               T == {k \in Nat : P(k)}
    <2>4. P(0)
      OBVIOUS
    <2>5. ASSUME NEW k \in Nat, P(k) PROVE P(k + 1)
      <3> SUFFICES ASSUME k + 1 \in 1..(n - 1) PROVE f[(k + 1) + 1] = s[1] \o g[k + 1]
        BY Zenon
      <3>1. (k + 1) + 1 \in 1..n /\ (k + 1) + 1 # 1 /\ ((k + 1) + 1) - 1 = k + 1
        BY <1>1
      <3>2. f[(k + 1) + 1] = f[k + 1] \o t[k + 1]
        BY <1>1, <1>3, <3>1, Zenon
      <3>3. CASE k = 0
        <4>1. k + 1 = 1
          BY <3>3
        <4> QED
          BY <1>3, <2>3, <3>2, <4>1, Zenon
      <3>4. CASE k # 0
        <4>1. k \in 1..(n - 1) /\ k + 1 # 1 /\ (k + 1) - 1 = k
          BY <1>1, <3>4
        <4>2. f[k + 1] = s[1] \o g[k]
          BY <2>5, <4>1, Zenon
        <4>3. g[k + 1] = g[k] \o t[k + 1]
          BY <2>3, <4>1, Zenon
        <4>4. s[1] \in Seq(C) /\ g[k] \in Seq(C) /\ t[k + 1] \in Seq(C)
          BY <1>1, <2>3, <3>1, <4>1
        <4>5. (s[1] \o g[k]) \o t[k + 1] = s[1] \o (g[k] \o t[k + 1])
          <5> DEFINE u == s[1]
                     v == g[k]
                     w == t[k + 1]
          <5>1. u \in Seq(C) /\ v \in Seq(C) /\ w \in Seq(C)
            BY <4>4
          <5> HIDE DEF u, v, w
          <5>2. Associates(C)
            BY Associative
          <5>3. (u \o v) \o w = u \o (v \o w)
            BY <5>1, <5>2, Zenon DEF Associates
          <5> QED
            BY <5>3 DEF u, v, w
        <4> QED
          BY <3>2, <4>2, <4>3, <4>5
      <3> QED
        BY <3>3, <3>4, Zenon
    <2> HIDE DEF P
    <2>6. T = Nat
      <3>1. 0 \in T /\ T \in SUBSET Nat /\ \A k \in T : k + 1 \in T
        BY <2>4, <2>5
      <3> HIDE DEF T
      <3> QED
        BY <3>1, NatInduct, Zenon
    <2>7. P(n - 1)
      BY <1>1, <2>6, SMTT(20)
    <2>8. f[n] = s[1] \o g[n - 1]
      <3>1. n - 1 \in 1..(n - 1) /\ (n - 1) + 1 = n
        BY <1>1, <1>5
      <3> QED
        BY <2>7, <3>1, Zenon DEF P
    <2> QED
      BY <1>1, <1>2, <2>2, <2>8, Zenon DEF t
  <1> QED
    BY <1>4, <1>5

\* What the steps of the parser do to the blocks: one character less, one empty block
\* less.
LEMMA ConcatTakesChar ==
    ASSUME NEW C, NEW s \in Seq(Seq(C)), s # <<>>, s[1] # <<>>
    PROVE  /\ [s EXCEPT ![1] = Tail(@)] \in Seq(Seq(C))
           /\ Concat(s) = <<Head(s[1])>> \o Concat([s EXCEPT ![1] = Tail(@)])
           /\ Head(s[1]) \in C
  <1> DEFINE r == [s EXCEPT ![1] = Tail(@)]
  <1>1. 1 \in 1..Len(s) /\ s[1] \in Seq(C)
    BY ElementOfSeq
  <1>2. Tail(s[1]) \in Seq(C) /\ Head(s[1]) \in C /\ s[1] = <<Head(s[1])>> \o Tail(s[1])
    <2>1. Tail(s[1]) \in Seq(C) /\ Head(s[1]) \in C
      BY <1>1
    <2>2. ASSUME NEW u \in Seq(C), u # <<>> PROVE u = <<Head(u)>> \o Tail(u)
      <3>1. /\ Len(u) \in Nat \ {0} /\ Tail(u) \in Seq(C) /\ Len(Tail(u)) = Len(u) - 1
            /\ \A i \in 1..(Len(u) - 1) : Tail(u)[i] = u[i + 1]
            /\ <<Head(u)>> \in Seq(C) /\ Len(<<Head(u)>>) = 1 /\ <<Head(u)>>[1] = u[1]
        BY <2>2
      <3> DEFINE v == <<Head(u)>> \o Tail(u)
      <3>2. /\ v \in Seq(C) /\ Len(v) = Len(u)
            /\ \A i \in 1..Len(u) : v[i] = IF i <= 1 THEN <<Head(u)>>[i] ELSE Tail(u)[i - 1]
        BY <3>1, ConcatProperties
      <3> HIDE DEF v
      <3>3. \A i \in 1..Len(u) : v[i] = u[i]
        BY <3>1, <3>2
      <3>4. v = u
        BY <3>2, <3>3, SeqEqual
      <3> QED
        BY <3>4 DEF v
    <2> QED
      BY <1>1, <2>1, <2>2
  <1>3. r \in Seq(Seq(C)) /\ r # <<>> /\ r[1] = Tail(s[1]) /\ Len(r) = Len(s)
        /\ \A i \in 1..Len(s) : i # 1 => r[i] = s[i]
    <2>1. r = [s EXCEPT ![1] = Tail(s[1])]
      BY <1>1
    <2> HIDE DEF r
    <2>2. /\ r \in Seq(Seq(C)) /\ Len(r) = Len(s)
          /\ \A j \in 1..Len(s) : r[j] = IF j = 1 THEN Tail(s[1]) ELSE s[j]
      BY <1>1, <1>2, <2>1, ExceptSeq
    <2> QED
      BY <1>1, <2>2
  <1> HIDE DEF r
  <1>4. Tail(r) = Tail(s)
    <2>1. /\ Tail(r) \in Seq(Seq(C)) /\ Tail(s) \in Seq(Seq(C)) /\ Len(Tail(s)) = Len(s) - 1
          /\ Len(Tail(r)) = Len(s) - 1 /\ Len(s) \in Nat \ {0}
          /\ \A i \in 1..(Len(s) - 1) : Tail(r)[i] = r[i + 1] /\ Tail(s)[i] = s[i + 1]
      BY <1>3, HeadTailProperties
    <2>2. \A i \in 1..Len(Tail(r)) : Tail(r)[i] = Tail(s)[i]
      BY <1>3, <2>1
    <2> QED
      BY <2>1, <2>2, SeqEqual, Zenon
  <1>5. Concat(s) = (<<Head(s[1])>> \o Tail(s[1])) \o Concat(Tail(s))
    BY <1>2, ConcatCons
  <1>6. Concat(r) = Tail(s[1]) \o Concat(Tail(s))
    BY <1>3, <1>4, ConcatCons, Zenon
  <1>7. <<Head(s[1])>> \in Seq(C) /\ Concat(Tail(s)) \in Seq(C)
    <2>1. <<Head(s[1])>> \in Seq(C)
      BY <1>2
    <2>2. Tail(s) \in Seq(Seq(C))
      OBVIOUS
    <2> QED
      BY <2>1, <2>2, ConcatType, Zenon
  <1>8. Concat(s) = <<Head(s[1])>> \o Concat(r)
    <2>1. (<<Head(s[1])>> \o Tail(s[1])) \o Concat(Tail(s))
            = <<Head(s[1])>> \o (Tail(s[1]) \o Concat(Tail(s)))
      <3> DEFINE u == <<Head(s[1])>>
                 v == Tail(s[1])
                 w == Concat(Tail(s))
      <3>1. u \in Seq(C) /\ v \in Seq(C) /\ w \in Seq(C)
        BY <1>2, <1>7
      <3> HIDE DEF u, v, w
      <3>2. Associates(C)
        BY Associative
      <3>3. (u \o v) \o w = u \o (v \o w)
        BY <3>1, <3>2, SMTT(20) DEF Associates
      <3> QED
        BY <3>3, Zenon DEF u, v, w
    <2> QED
      BY <1>5, <1>6, <2>1, Zenon
  <1> QED
    BY <1>2, <1>3, <1>8 DEF r

LEMMA ConcatDropsEmpty ==
    ASSUME NEW C, NEW s \in Seq(Seq(C)), s # <<>>, s[1] = <<>>
    PROVE  Tail(s) \in Seq(Seq(C)) /\ Concat(Tail(s)) = Concat(s)
  <1>1. Tail(s) \in Seq(Seq(C))
    OBVIOUS
  <1>2. Concat(Tail(s)) \in Seq(C)
    BY <1>1, ConcatType, Zenon
  <1> QED
    BY <1>1, <1>2, ConcatCons, ConcatEmptySeq, Zenon

-----------------------------------------------------------------------------
\* The reference, one more character at a time.
LEMMA SubSeqFacts ==
    ASSUME NEW C, NEW t \in Seq(C), NEW a \in 1..(Len(t) + 1), NEW b \in (a - 1)..Len(t)
    PROVE  /\ SubSeq(t, a, b) \in Seq(C) /\ Len(SubSeq(t, a, b)) = b - a + 1
           /\ \A i \in 1..(b - a + 1) : SubSeq(t, a, b)[i] = t[a + i - 1]
  <1>1. Len(t) \in Nat /\ a \in Int /\ b \in Int
    OBVIOUS
  <1>2. \A i \in a..b : t[i] \in C
    BY <1>1, ElementOfSeq
  <1> QED
    BY <1>1, <1>2, SubSeqProperties

LEMMA AppendFacts ==
    ASSUME NEW C, NEW t \in Seq(C), NEW c \in C
    PROVE  /\ Append(t, c) \in Seq(C) /\ Len(Append(t, c)) = Len(t) + 1 /\ Len(t) \in Nat
           /\ Append(t, c)[Len(t) + 1] = c
           /\ \A i \in 1..Len(t) : Append(t, c)[i] = t[i]
           /\ DOMAIN t = 1..Len(t) /\ DOMAIN Append(t, c) = 1..(Len(t) + 1)
  OBVIOUS

\* Where a field ends.
Ending(t, a, b) ==
    /\ b \in a..Len(t)
    /\ \A k \in a..b : ~Separator(t[k])
    /\ b = Len(t) \/ Separator(t[b + 1])

LEMMA FieldFromIs ==
    ASSUME NEW C, NEW t \in Seq(C), NEW a \in 1..Len(t), NEW b, Ending(t, a, b)
    PROVE  FieldFrom(t, a) = SubSeq(t, a, b)
  <1> DEFINE F == {SubSeq(t, a, i) : i \in a..Len(t)}
             Q(f) == /\ \A k \in DOMAIN f : ~Separator(f[k])
                     /\ a + Len(f) > Len(t) \/ Separator(t[a + Len(f)])
  <1>0. Len(t) \in Nat /\ b \in a..Len(t)
    BY DEF Ending
  <1>1. ASSUME NEW i \in a..Len(t)
        PROVE  /\ Len(SubSeq(t, a, i)) = i - a + 1 /\ DOMAIN SubSeq(t, a, i) = 1..(i - a + 1)
               /\ \A k \in 1..(i - a + 1) : SubSeq(t, a, i)[k] = t[a + k - 1]
    <2>1. a \in 1..(Len(t) + 1) /\ i \in (a - 1)..Len(t)
      BY <1>0
    <2>2. /\ SubSeq(t, a, i) \in Seq(C) /\ Len(SubSeq(t, a, i)) = i - a + 1
          /\ \A k \in 1..(i - a + 1) : SubSeq(t, a, i)[k] = t[a + k - 1]
      BY <2>1, SubSeqFacts
    <2>3. DOMAIN SubSeq(t, a, i) = 1..Len(SubSeq(t, a, i))
      BY <2>2
    <2> QED
      BY <2>2, <2>3
  <1>2. SubSeq(t, a, b) \in F /\ Q(SubSeq(t, a, b))
    <2>1. SubSeq(t, a, b) \in F
      BY <1>0
    <2>2. ASSUME NEW k \in 1..(b - a + 1) PROVE ~Separator(t[a + k - 1])
      <3>1. a + k - 1 \in a..b
        BY <1>0
      <3> QED
        BY <3>1 DEF Ending
    <2>3. a + (b - a + 1) = b + 1
      BY <1>0
    <2>4. b + 1 > Len(t) \/ Separator(t[b + 1])
      BY <1>0 DEF Ending
    <2> QED
      BY <1>0, <1>1, <2>1, <2>2, <2>3, <2>4
  <1>3. ASSUME NEW i \in a..Len(t), Q(SubSeq(t, a, i)) PROVE i = b
    <2>1. \A k \in 1..(i - a + 1) : ~Separator(t[a + k - 1])
      BY <1>1, <1>3, Zenon
    <2>2. i + 1 > Len(t) \/ Separator(t[i + 1])
      <3>1. a + (i - a + 1) = i + 1
        BY <1>0
      <3> QED
        BY <1>1, <1>3, <3>1
    <2>3. CASE i < b
      <3>1. i + 1 \in a..b /\ ~(i + 1 > Len(t))
        BY <1>0, <2>3
      <3> QED
        BY <2>2, <3>1 DEF Ending
    <2>4. CASE i > b
      <3>1. b # Len(t) /\ (b + 1) - a + 1 \in 1..(i - a + 1) /\ a + ((b + 1) - a + 1) - 1 = b + 1
        BY <1>0, <2>4
      <3>2. ~Separator(t[b + 1])
        BY <2>1, <3>1, Zenon
      <3> QED
        BY <3>1, <3>2 DEF Ending
    <2> QED
      BY <1>0, <2>3, <2>4
  <1>4. FieldFrom(t, a) = CHOOSE f \in F : Q(f)
    BY DEF FieldFrom
  <1> HIDE DEF Q
  <1>5. \A f \in F : Q(f) => f = SubSeq(t, a, b)
    BY <1>3, Zenon
  <1> HIDE DEF F
  <1> QED
    BY <1>2, <1>4, <1>5

LEMMA EndingExists ==
    ASSUME NEW C, NEW t \in Seq(C), NEW a \in 1..Len(t), ~Separator(t[a])
    PROVE  \E b : Ending(t, a, b)
  <1> DEFINE T == {b \in a..Len(t) : b = Len(t) \/ Separator(t[b + 1])}
  <1>0. Len(t) \in Nat
    OBVIOUS
  <1>1. T \in SUBSET Nat /\ Len(t) \in T
    BY <1>0
  <1>2. PICK b \in T : \A y \in T : b <= y
    BY <1>1, Least, Zenon
  <1>3. ASSUME NEW k \in a..b PROVE ~Separator(t[k])
    <2>1. CASE k = a
      BY <2>1
    <2>2. CASE k # a
      <3>1. k - 1 \in a..Len(t) /\ k - 1 < b /\ (k - 1) + 1 = k
        BY <1>0, <1>2, <2>2
      <3>2. ~(b <= k - 1)
        BY <3>1, <1>2
      <3>3. k - 1 \notin T
        BY <1>2, <3>2, Zenon
      <3> QED
        BY <3>1, <3>3
    <2> QED
      BY <2>1, <2>2
  <1>4. Ending(t, a, b)
    BY <1>2, <1>3 DEF Ending
  <1> QED
    BY <1>4

\* A character behind a separator, or a separator, changes no field before it.
LEMMA FieldKept ==
    ASSUME NEW C, NEW t \in Seq(C), NEW c \in C, NEW a \in 1..Len(t), ~Separator(t[a]),
           NEW e \in (a + 1)..(Len(t) + 1), Separator(Append(t, c)[e])
    PROVE  FieldFrom(Append(t, c), a) = FieldFrom(t, a)
  <1> DEFINE u == Append(t, c)
             n == Len(t)
  <1>0. /\ u \in Seq(C) /\ Len(u) = n + 1 /\ n \in Nat /\ u[n + 1] = c
        /\ \A i \in 1..n : u[i] = t[i]
    BY AppendFacts
  <1>1. PICK b : Ending(t, a, b)
    BY EndingExists
  <1>2. b \in a..n /\ (\A k \in a..b : ~Separator(t[k])) /\ (b = n \/ Separator(t[b + 1]))
    BY <1>1 DEF Ending
  <1>3. Separator(u[e])
    OBVIOUS
  <1> HIDE DEF u, n
  <1>4. \A k \in a..b : ~Separator(u[k])
    BY <1>0, <1>2
  <1>5. Separator(u[b + 1])
    <2>1. CASE b = n
      <3>1. \A k \in a..n : ~Separator(u[k])
        BY <1>4, <2>1
      <3>2. e \notin a..n
        BY <1>3, <3>1
      <3>3. e = n + 1
        BY <1>0, <3>2 DEF n
      <3> QED
        BY <1>3, <2>1, <3>3
    <2>2. CASE b # n
      <3>1. b + 1 \in 1..n
        BY <1>0, <1>2, <2>2 DEF n
      <3> QED
        BY <1>0, <1>2, <2>2, <3>1
    <2> QED
      BY <2>1, <2>2
  <1>6. Ending(u, a, b)
    BY <1>0, <1>2, <1>4, <1>5 DEF Ending
  <1>7. FieldFrom(t, a) = SubSeq(t, a, b)
    BY <1>1, FieldFromIs
  <1>8. FieldFrom(u, a) = SubSeq(u, a, b)
    <2>1. a \in 1..Len(u)
      BY <1>0 DEF n
    <2> QED
      BY <1>0, <1>6, <2>1, FieldFromIs
  <1>9. SubSeq(u, a, b) = SubSeq(t, a, b)
    <2>1. a \in 1..(Len(t) + 1) /\ b \in (a - 1)..Len(t) /\ a \in 1..(Len(u) + 1) /\ b \in (a - 1)..Len(u)
      BY <1>0, <1>2 DEF n
    <2>2. /\ SubSeq(t, a, b) \in Seq(C) /\ Len(SubSeq(t, a, b)) = b - a + 1
          /\ \A i \in 1..(b - a + 1) : SubSeq(t, a, b)[i] = t[a + i - 1]
      BY <2>1, SubSeqFacts, Zenon
    <2>3. /\ SubSeq(u, a, b) \in Seq(C) /\ Len(SubSeq(u, a, b)) = b - a + 1
          /\ \A i \in 1..(b - a + 1) : SubSeq(u, a, b)[i] = u[a + i - 1]
      BY <1>0, <2>1, SubSeqFacts
    <2>4. \A i \in 1..(b - a + 1) : a + i - 1 \in 1..n
      BY <1>0, <1>2 DEF n
    <2>5. \A i \in 1..(b - a + 1) : SubSeq(u, a, b)[i] = SubSeq(t, a, b)[i]
      BY <1>0, <2>2, <2>3, <2>4
    <2> QED
      BY <2>2, <2>3, <2>5, SeqEqual
  <1> QED
    BY <1>7, <1>8, <1>9 DEF u

LEMMA StartsKept ==
    ASSUME NEW C, NEW t \in Seq(C), NEW c \in C, NEW e \in 1..(Len(t) + 1)
    PROVE  /\ Starts(Append(t, c), e) = Starts(t, e)
           /\ Starts(t, e) \in SUBSET (1..(e - 1)) /\ Starts(t, e) \in SUBSET (1..Len(t))
  <1> DEFINE u == Append(t, c)
             n == Len(t)
  <1>0. n \in Nat /\ \A i \in 1..n : u[i] = t[i]
    BY AppendFacts
  <1> HIDE DEF u
  <1>1. \A a \in 1..(e - 1) : a \in 1..n /\ (a # 1 => a - 1 \in 1..n) /\ \A b \in a..(e - 1) : b \in 1..n
    BY <1>0
  <1>2. \A a \in 1..(e - 1) : a \in Starts(u, e) <=> a \in Starts(t, e)
    BY <1>0, <1>1 DEF Starts
  <1>3. Starts(u, e) \in SUBSET (1..(e - 1)) /\ Starts(t, e) \in SUBSET (1..(e - 1))
    BY DEF Starts
  <1>4. Starts(u, e) = Starts(t, e)
    BY <1>2, <1>3, Zenon
  <1>5. Starts(t, e) \in SUBSET (1..n)
    BY <1>1, <1>3
  <1> QED
    BY <1>3, <1>4, <1>5 DEF u

\* Something at each of a set of positions, in their order: rows and fields are this.
Along(S, F) == [k \in DOMAIN Ascending(S) |-> F[Ascending(S)[k]]]

LEMMA AlongEmpty == ASSUME NEW F PROVE Along({}, F) = <<>>
  BY AscendingEmpty DEF Along

LEMMA AlongKept ==
    ASSUME NEW n \in Nat, NEW S \in SUBSET (1..n), NEW F, NEW G, \A a \in S : G[a] = F[a]
    PROVE  Along(S, G) = Along(S, F)
  <1>1. Ascending(S) \in Seq(S)
    BY AscendingType, Zenon
  <1>2. \A k \in DOMAIN Ascending(S) : Ascending(S)[k] \in S
    BY <1>1
  <1> QED
    BY <1>2, Zenon DEF Along

LEMMA AlongGrows ==
    ASSUME NEW n \in Nat, NEW S \in SUBSET (1..n), NEW m \in Nat, n < m, NEW F
    PROVE  /\ Along(S \cup {m}, F) = Append(Along(S, F), F[m])
           /\ \E V : Along(S, F) \in Seq(V)
  <1> DEFINE A == Ascending(S)
             B == Append(A, m)
  <1>1. A \in Seq(S) /\ Len(A) \in Nat /\ DOMAIN A = 1..Len(A)
    <2>1. A \in Seq(S)
      BY AscendingType, Zenon
    <2> HIDE DEF A
    <2> QED
      BY <2>1
  <1>2. Ascending(S \cup {m}) = B
    BY AscendingGrows, Zenon
  <1> HIDE DEF A
  <1>3. /\ DOMAIN B = 1..(Len(A) + 1) /\ B[Len(A) + 1] = m
        /\ \A k \in 1..Len(A) : B[k] = A[k]
    <2>1. A \in Seq(S \cup {m})
      BY <1>1, SeqMonotonic
    <2> QED
      BY <2>1
  <1> HIDE DEF B
  <1> DEFINE f == Along(S, F)
             g == Along(S \cup {m}, F)
             x == F[m]
             V == {F[B[k]] : k \in 1..(Len(A) + 1)}
  <1>4. f = [k \in 1..Len(A) |-> F[A[k]]]
    BY <1>1 DEF Along, A
  <1>5. g = [k \in 1..(Len(A) + 1) |-> F[B[k]]]
    BY <1>2, <1>3, Zenon DEF Along
  <1>6. f \in Seq(V) /\ Len(f) = Len(A) /\ g \in Seq(V) /\ Len(g) = Len(A) + 1 /\ x \in V
    <2>1. \A k \in 1..(Len(A) + 1) : F[B[k]] \in V
      OBVIOUS
    <2>2. x \in V /\ \A k \in 1..Len(A) : F[A[k]] \in V
      BY <1>1, <1>3, <2>1
    <2> HIDE DEF f, g, V
    <2> QED
      BY <1>1, <1>4, <1>5, <2>1, <2>2
  <1>7. \A k \in 1..(Len(A) + 1) : g[k] = IF k = Len(A) + 1 THEN x ELSE f[k]
    BY <1>1, <1>3, <1>4, <1>5
  <1> HIDE DEF f, g, x, V
  <1>8. /\ Append(f, x) \in Seq(V) /\ Len(Append(f, x)) = Len(A) + 1
        /\ \A k \in 1..(Len(A) + 1) : Append(f, x)[k] = IF k = Len(A) + 1 THEN x ELSE f[k]
    BY <1>1, <1>6
  <1>9. g = Append(f, x)
    BY <1>6, <1>7, <1>8, SeqEqual
  <1>10. \E W : f \in Seq(W)
    BY <1>6
  <1> QED
    BY <1>9, <1>10, Zenon DEF f, g, x

LEMMA AppendCancels ==
    ASSUME NEW C, NEW s \in Seq(C), NEW t \in Seq(C), NEW x \in C, Append(s, x) = Append(t, x)
    PROVE  s = t
  BY AppendInjective

FieldsOf(t) == [a \in Nat |-> FieldFrom(t, a)]

RowsOf(t) == [e \in Nat |-> RowEndedAt(t, e)]

RowEnds(t) == {e \in DOMAIN t : t[e] = "\n" /\ Starts(t, e) # {}}

LEMMA RowIsAlong ==
    ASSUME NEW t, NEW e \in Nat
    PROVE  RowEndedAt(t, e) = Along(Starts(t, e), FieldsOf(t))
  <1> DEFINE S == Starts(t, e)
             A == Ascending(S)
  <1>1. S \in SUBSET (1..e)
    BY DEF Starts
  <1> HIDE DEF S
  <1>2. A \in Seq(S)
    BY <1>1, AscendingType, Zenon
  <1> HIDE DEF A
  <1>3. \A k \in DOMAIN A : A[k] \in Nat
    <2>1. \A k \in DOMAIN A : A[k] \in S
      BY <1>2
    <2>2. \A a \in S : a \in Nat
      BY <1>1
    <2> QED
      BY <2>1, <2>2
  <1>4. \A k \in DOMAIN A : FieldsOf(t)[A[k]] = FieldFrom(t, A[k])
    BY <1>3 DEF FieldsOf
  <1>5. Along(S, FieldsOf(t)) = [k \in DOMAIN A |-> FieldsOf(t)[A[k]]]
    BY DEF Along, A
  <1>6. RowEndedAt(t, e) = [k \in DOMAIN A |-> FieldFrom(t, A[k])]
    BY DEF RowEndedAt, A, S
  <1> QED
    BY <1>4, <1>5, <1>6 DEF S

LEMMA ReferenceIsAlong ==
    ASSUME NEW C, NEW t \in Seq(C)
    PROVE  ReferenceRows(t) = Along(RowEnds(t), RowsOf(t)) /\ RowEnds(t) \in SUBSET (1..Len(t))
  <1> DEFINE S == RowEnds(t)
             A == Ascending(S)
  <1>1. S \in SUBSET (1..Len(t)) /\ Len(t) \in Nat
    BY DEF RowEnds
  <1> HIDE DEF S
  <1>2. A \in Seq(S)
    BY <1>1, AscendingType, Zenon
  <1> HIDE DEF A
  <1>3. \A k \in DOMAIN A : A[k] \in Nat
    <2>1. \A k \in DOMAIN A : A[k] \in S
      BY <1>2
    <2>2. \A a \in S : a \in Nat
      BY <1>1
    <2> QED
      BY <2>1, <2>2
  <1>4. \A k \in DOMAIN A : RowsOf(t)[A[k]] = RowEndedAt(t, A[k])
    BY <1>3 DEF RowsOf
  <1>5. Along(S, RowsOf(t)) = [k \in DOMAIN A |-> RowsOf(t)[A[k]]]
    BY DEF Along, A
  <1>6. ReferenceRows(t) = [k \in DOMAIN A |-> RowEndedAt(t, A[k])]
    BY DEF ReferenceRows, A, S, RowEnds
  <1> QED
    BY <1>1, <1>4, <1>5, <1>6 DEF S

\* A row is complete with its separator.
LEMMA RowKept ==
    ASSUME NEW C, NEW t \in Seq(C), NEW c \in C, NEW e \in 1..(Len(t) + 1),
           Separator(Append(t, c)[e])
    PROVE  RowEndedAt(Append(t, c), e) = RowEndedAt(t, e)
  <1> DEFINE u == Append(t, c)
             S == Starts(t, e)
  <1>1. Starts(u, e) = S /\ S \in SUBSET (1..(e - 1)) /\ S \in SUBSET (1..Len(t)) /\ Len(t) \in Nat
    BY StartsKept
  <1>2. ASSUME NEW a \in S PROVE FieldsOf(u)[a] = FieldsOf(t)[a]
    <2>1. a \in 1..Len(t) /\ ~Separator(t[a]) /\ a \in Nat
      BY <1>1 DEF Starts
    <2>2. e \in (a + 1)..(Len(t) + 1)
      BY <1>1
    <2>3. FieldFrom(u, a) = FieldFrom(t, a)
      BY <2>1, <2>2, FieldKept
    <2> QED
      BY <2>1, <2>3 DEF FieldsOf
  <1>3. RowEndedAt(u, e) = Along(S, FieldsOf(u)) /\ RowEndedAt(t, e) = Along(S, FieldsOf(t))
    BY <1>1, RowIsAlong
  <1> HIDE DEF u, S
  <1>4. Along(S, FieldsOf(u)) = Along(S, FieldsOf(t))
    BY <1>1, <1>2, AlongKept, Zenon
  <1> QED
    BY <1>3, <1>4 DEF u

\* A line end adds the row before it, if there is one; nothing else changes the rows.
LEMMA ReferenceStep ==
    ASSUME NEW C, NEW t \in Seq(C), NEW c \in C
    PROVE  ReferenceRows(Append(t, c)) =
               IF c = "\n" /\ Starts(t, Len(t) + 1) # {}
               THEN Append(ReferenceRows(t), RowEndedAt(t, Len(t) + 1))
               ELSE ReferenceRows(t)
  <1> DEFINE u == Append(t, c)
             n == Len(t)
             S == RowEnds(t)
  <1>0. /\ u \in Seq(C) /\ Len(u) = n + 1 /\ n \in Nat /\ u[n + 1] = c
        /\ (\A i \in 1..n : u[i] = t[i]) /\ DOMAIN t = 1..n /\ DOMAIN u = 1..(n + 1)
    BY AppendFacts
  <1>1. \A e \in 1..(n + 1) : Starts(u, e) = Starts(t, e)
    BY StartsKept
  <1>2. /\ ReferenceRows(t) = Along(S, RowsOf(t)) /\ S \in SUBSET (1..n)
        /\ ReferenceRows(u) = Along(RowEnds(u), RowsOf(u))
    BY <1>0, ReferenceIsAlong, Zenon
  <1>3. ASSUME NEW e \in 1..(n + 1), u[e] = "\n" PROVE RowsOf(u)[e] = RowEndedAt(t, e)
    <2>1. Separator(u[e])
      BY <1>3 DEF Separator
    <2>2. RowEndedAt(u, e) = RowEndedAt(t, e)
      BY <2>1, RowKept
    <2>3. e \in Nat
      OBVIOUS
    <2> QED
      BY <2>2, <2>3 DEF RowsOf
  <1>4. RowEnds(u) = IF c = "\n" /\ Starts(t, n + 1) # {} THEN S \cup {n + 1} ELSE S
    <2>1. \A e \in 1..(n + 1) :
             e \in RowEnds(u) <=> e \in S \/ (e = n + 1 /\ c = "\n" /\ Starts(t, n + 1) # {})
      BY <1>0, <1>1 DEF RowEnds
    <2>2. RowEnds(u) \in SUBSET (1..(n + 1)) /\ S \in SUBSET (1..(n + 1)) /\ n + 1 \in 1..(n + 1)
      BY <1>0, <1>2 DEF RowEnds
    <2> HIDE DEF S, u
    <2> QED
      BY <2>1, <2>2, Zenon
  <1>5. Along(S, RowsOf(u)) = Along(S, RowsOf(t))
    <2>1. ASSUME NEW e \in S PROVE RowsOf(u)[e] = RowsOf(t)[e]
      <3>1. e \in 1..(n + 1) /\ u[e] = "\n" /\ e \in Nat
        BY <1>0, <1>2 DEF RowEnds
      <3> QED
        BY <1>3, <3>1, Zenon DEF RowsOf
    <2> HIDE DEF S, u, n
    <2> QED
      BY <1>0, <1>2, <2>1, AlongKept, Zenon
  <1>6. CASE c = "\n" /\ Starts(t, n + 1) # {}
    <2>1. n + 1 \in Nat /\ n < n + 1 /\ n + 1 \in 1..(n + 1)
      BY <1>0
    <2>2. RowsOf(u)[n + 1] = RowEndedAt(t, n + 1)
      BY <1>0, <1>3, <1>6, <2>1
    <2> HIDE DEF S, u
    <2>3. Along(S \cup {n + 1}, RowsOf(u)) = Append(Along(S, RowsOf(u)), RowsOf(u)[n + 1])
      BY <1>0, <1>2, <2>1, AlongGrows, Zenon
    <2>4. ReferenceRows(u) = Append(ReferenceRows(t), RowEndedAt(t, n + 1))
      BY <1>2, <1>4, <1>5, <1>6, <2>2, <2>3, Zenon
    <2> QED
      BY <1>6, <2>4 DEF u
  <1>7. CASE ~(c = "\n" /\ Starts(t, n + 1) # {})
    <2> HIDE DEF S, u
    <2>1. ReferenceRows(u) = ReferenceRows(t)
      BY <1>2, <1>4, <1>5, <1>7
    <2> QED
      BY <1>7, <2>1 DEF u
  <1> QED
    BY <1>6, <1>7

\* The fields of the line that is not yet ended.
Line(t) == RowEndedAt(t, Len(t) + 1)

LEMMA LineEmpty ==
    ASSUME NEW C, NEW t \in Seq(C)
    PROVE  Line(t) = <<>> <=> Starts(t, Len(t) + 1) = {}
  <1> DEFINE S == Starts(t, Len(t) + 1)
             A == Ascending(S)
             n == Len(t)
  <1>1. n \in Nat /\ n + 1 \in Nat /\ S \in SUBSET (1..n)
    BY DEF Starts
  <1>2. Line(t) = Along(S, FieldsOf(t))
    BY <1>1, RowIsAlong DEF Line
  <1> HIDE DEF S, n
  <1>3. A \in Seq(S) /\ Len(A) = Cardinality(S) /\ Cardinality(S) \in Nat /\ IsFiniteSet(S)
    BY <1>1, AscendingType, FiniteBelow, Zenon
  <1>4. Cardinality(S) = 0 <=> S = {}
    BY <1>3, FS_EmptySet
  <1>5. Along(S, FieldsOf(t)) = [k \in 1..Len(A) |-> FieldsOf(t)[A[k]]]
    BY <1>3 DEF Along
  <1> HIDE DEF A
  <1>6. Along(S, FieldsOf(t)) = <<>> <=> Len(A) = 0
    <2> DEFINE f == [k \in 1..Len(A) |-> FieldsOf(t)[A[k]]]
    <2>1. DOMAIN f = 1..Len(A)
      OBVIOUS
    <2>2. Len(A) = 0 => f = <<>>
      OBVIOUS
    <2>3. Len(A) # 0 => 1 \in DOMAIN f
      BY <1>3
    <2>4. 1 \notin DOMAIN <<>>
      OBVIOUS
    <2> HIDE DEF f
    <2>5. f = <<>> <=> Len(A) = 0
      BY <2>2, <2>3, <2>4
    <2> QED
      BY <1>5, <2>5 DEF f
  <1> QED
    BY <1>2, <1>3, <1>4, <1>6 DEF S, n

LEMMA LineAtSeparator ==
    ASSUME NEW C, NEW t \in Seq(C), NEW c \in C, Separator(c)
    PROVE  Line(Append(t, c)) = IF c = "," THEN Line(t) ELSE <<>>
  <1> DEFINE u == Append(t, c)
             n == Len(t)
  <1>0. /\ u \in Seq(C) /\ Len(u) = n + 1 /\ n \in Nat /\ u[n + 1] = c
        /\ (\A i \in 1..n : u[i] = t[i])
    BY AppendFacts
  <1>1. n + 1 \in 1..(n + 1) /\ n + 1 \in Nat /\ n + 2 \in Nat
    BY <1>0
  <1>2. CASE c = ","
    <2>1. \A a \in 1..(n + 1) : a \in Starts(u, n + 2) <=> a \in Starts(u, n + 1)
      <3>1. n + 1 \notin Starts(u, n + 2) /\ n + 1 \notin Starts(u, n + 1)
        BY <1>0 DEF Starts
      <3>2. ASSUME NEW a \in 1..n PROVE a \in Starts(u, n + 2) <=> a \in Starts(u, n + 1)
        <4>1. /\ \A b \in a..n : b \in a..(n + 1)
              /\ \A b \in a..(n + 1) : b \in a..n \/ b = n + 1
          BY <1>0
        <4>2. u[n + 1] # "\n"
          BY <1>0, <1>2, Zenon
        <4>3. a \in 1..((n + 2) - 1) /\ a \in 1..((n + 1) - 1) /\ (n + 2) - 1 = n + 1 /\ (n + 1) - 1 = n
          BY <1>0
        <4> HIDE DEF u
        <4> QED
          BY <4>1, <4>2, <4>3 DEF Starts
      <3> QED
        BY <1>0, <3>1, <3>2
    <2>2. Starts(u, n + 2) \in SUBSET (1..(n + 1)) /\ Starts(u, n + 1) \in SUBSET (1..(n + 1))
      BY <1>0 DEF Starts
    <2>3. Starts(u, n + 2) = Starts(u, n + 1)
      BY <2>1, <2>2
    <2>4. RowEndedAt(u, n + 2) = RowEndedAt(u, n + 1)
      BY <1>1, <2>3, RowIsAlong
    <2>5. RowEndedAt(u, n + 1) = RowEndedAt(t, n + 1)
      BY <1>0, <1>1, RowKept
    <2>6. Len(u) + 1 = n + 2
      BY <1>0
    <2> QED
      BY <1>2, <2>4, <2>5, <2>6, Zenon DEF Line
  <1>3. CASE c = "\n"
    <2>1. \A a \in 1..(n + 1) : n + 1 \in a..((n + 2) - 1)
      BY <1>0
    <2>2. Starts(u, n + 2) = {}
      <3>1. (n + 2) - 1 = n + 1
        BY <1>0
      <3> QED
        BY <1>0, <1>3, <2>1, <3>1 DEF Starts
    <2>3. Len(u) + 1 = n + 2
      BY <1>0
    <2>4. Line(u) = <<>>
      BY <1>0, <2>2, <2>3, LineEmpty, Zenon
    <2> QED
      BY <1>3, <2>4
  <1> QED
    BY <1>2, <1>3, Zenon DEF Separator

\* The field that is not yet ended: the letters behind the last separator.
IsOpenField(t, f) ==
    /\ Len(f) \in 0..Len(t)
    /\ \A i \in 1..Len(f) : f[i] = t[Len(t) - Len(f) + i] /\ ~Separator(f[i])
    /\ Len(f) = Len(t) \/ Separator(t[Len(t) - Len(f)])

LEMMA OpenFieldStep ==
    ASSUME NEW C, NEW t \in Seq(C), NEW c \in C, NEW D, NEW f \in Seq(D), c \in D,
           IsOpenField(t, f)
    PROVE  /\ ~Separator(c) => IsOpenField(Append(t, c), Append(f, c))
           /\ Separator(c) => IsOpenField(Append(t, c), <<>>)
  <1> DEFINE u == Append(t, c)
             g == Append(f, c)
             n == Len(t)
             m == Len(f)
  <1>0. /\ Len(u) = n + 1 /\ n \in Nat /\ u[n + 1] = c /\ (\A i \in 1..n : u[i] = t[i])
        /\ Len(g) = m + 1 /\ m \in Nat /\ g[m + 1] = c /\ (\A i \in 1..m : g[i] = f[i])
    BY AppendFacts
  <1>1. /\ m \in 0..n
        /\ \A i \in 1..m : f[i] = t[n - m + i] /\ ~Separator(f[i])
        /\ m = n \/ Separator(t[n - m])
    BY DEF IsOpenField
  <1> HIDE DEF u, g, n, m
  <1>2. ASSUME ~Separator(c) PROVE IsOpenField(u, g)
    <2>1. (n + 1) - (m + 1) = n - m /\ m + 1 \in 0..(n + 1)
      BY <1>0, <1>1
    <2>2. ASSUME NEW i \in 1..(m + 1) PROVE g[i] = u[n - m + i] /\ ~Separator(g[i])
      <3>1. CASE i = m + 1
        <4>1. n - m + i = n + 1
          BY <1>0, <3>1
        <4> QED
          BY <1>0, <1>2, <3>1, <4>1
      <3>2. CASE i # m + 1
        <4>1. i \in 1..m /\ n - m + i \in 1..n
          BY <1>0, <1>1, <3>2
        <4> QED
          BY <1>0, <1>1, <4>1
      <3> QED
        BY <3>1, <3>2
    <2>3. m + 1 = n + 1 \/ Separator(u[n - m])
      <3>1. m # n => n - m \in 1..n
        BY <1>0, <1>1
      <3> QED
        BY <1>0, <1>1, <3>1
    <2> QED
      BY <1>0, <2>1, <2>2, <2>3 DEF IsOpenField
  <1>3. ASSUME Separator(c) PROVE IsOpenField(u, <<>>)
    <2>1. Len(<<>>) = 0 /\ 1..0 = {} /\ (n + 1) - 0 = n + 1 /\ 0 \in 0..(n + 1)
      BY <1>0
    <2> QED
      BY <1>0, <1>3, <2>1 DEF IsOpenField
  <1> QED
    BY <1>2, <1>3 DEF u, g

\* The line before its open field: S holds the starts of the fields that are ended.
LEMMA StartsBeforeOpen ==
    ASSUME NEW C, NEW t \in Seq(C), NEW f, IsOpenField(t, f), NEW c \in C, ~Separator(c)
    PROVE  LET n == Len(t)
               a0 == n + 1 - Len(f)
               S == Starts(t, n + 1) \ {a0}
           IN  /\ a0 \in 1..(n + 1) /\ S \in SUBSET (1..(a0 - 1))
               /\ Starts(t, n + 1) = IF Len(f) = 0 THEN S ELSE S \cup {a0}
               /\ Starts(Append(t, c), n + 2) = S \cup {a0}
               /\ \A a \in S : ~Separator(t[a]) /\ a0 - 1 \in (a + 1)..n /\ Separator(t[a0 - 1])
  <1> DEFINE u == Append(t, c)
             n == Len(t)
             m == Len(f)
             a0 == n + 1 - m
             T == Starts(t, n + 1)
             S == T \ {a0}
  <1>0. /\ Len(u) = n + 1 /\ n \in Nat /\ u[n + 1] = c /\ \A i \in 1..n : u[i] = t[i]
    BY AppendFacts
  <1>1. /\ m \in 0..n /\ (\A i \in 1..m : f[i] = t[n - m + i] /\ ~Separator(f[i]))
        /\ m = n \/ Separator(t[n - m])
    BY DEF IsOpenField
  <1>2. \A a : a \in T <=> /\ a \in 1..n /\ ~Separator(t[a]) /\ (a = 1 \/ Separator(t[a - 1]))
                           /\ \A b \in a..n : t[b] # "\n"
    <2>1. (n + 1) - 1 = n
      BY <1>0
    <2> QED
      BY <2>1 DEF Starts
  <1>3. \A a : a \in Starts(u, n + 2) <=>
                  /\ a \in 1..(n + 1) /\ ~Separator(u[a]) /\ (a = 1 \/ Separator(u[a - 1]))
                  /\ \A b \in a..(n + 1) : u[b] # "\n"
    <2>1. (n + 2) - 1 = n + 1
      BY <1>0
    <2> HIDE DEF u
    <2> QED
      BY <2>1 DEF Starts
  <1>4. c # "\n"
    BY Zenon DEF Separator
  <1> HIDE DEF u, n, m, T
  <1>5. a0 \in 1..(n + 1) /\ a0 \in Nat /\ a0 - 1 = n - m
    BY <1>0, <1>1
  <1>6. \A k \in a0..n : ~Separator(t[k]) /\ t[k] # "\n"
    <2>1. ASSUME NEW k \in a0..n PROVE ~Separator(t[k])
      <3>1. k - (n - m) \in 1..m /\ n - m + (k - (n - m)) = k
        BY <1>0, <1>1
      <3> QED
        BY <1>1, <3>1
    <2> QED
      BY <2>1, Zenon DEF Separator
  <1>7. \A a \in T : a <= a0
    <2> SUFFICES ASSUME NEW a \in T, a > a0 PROVE FALSE
      BY <1>0, <1>2, <1>5
    <2>1. a \in 1..n /\ a # 1 /\ a - 1 \in a0..n
      BY <1>0, <1>2, <1>5
    <2> QED
      BY <1>2, <1>6, <2>1
  <1>8. S \in SUBSET (1..(a0 - 1))
    BY <1>0, <1>2, <1>5, <1>7
  <1>9. ASSUME NEW a \in S
        PROVE  ~Separator(t[a]) /\ a0 - 1 \in (a + 1)..n /\ Separator(t[a0 - 1])
    <2>1. a \in 1..(a0 - 1) /\ ~Separator(t[a])
      BY <1>2, <1>8
    <2>2. m # n /\ Separator(t[a0 - 1])
      BY <1>0, <1>1, <1>5, <2>1
    <2>3. a # a0 - 1
      BY <2>1, <2>2
    <2> QED
      BY <1>0, <1>1, <1>5, <2>1, <2>2, <2>3
  <1>10. m # 0 => a0 \in T
    <2> SUFFICES ASSUME m # 0 PROVE a0 \in T
      OBVIOUS
    <2>1. a0 \in 1..n /\ a0 \in a0..n
      BY <1>0, <1>1
    <2>2. a0 = 1 \/ Separator(t[a0 - 1])
      BY <1>0, <1>1, <1>5
    <2> QED
      BY <1>2, <1>6, <2>1, <2>2
  <1>11. m = 0 => a0 \notin T
    BY <1>0, <1>2
  <1>12. T = IF m = 0 THEN S ELSE S \cup {a0}
    BY <1>10, <1>11
  <1>13. ASSUME NEW a \in 1..n PROVE a \in Starts(u, n + 2) <=> a \in T
    <2>1. /\ u[a] = t[a] /\ (a # 1 => u[a - 1] = t[a - 1])
          /\ \A b \in a..n : b \in a..(n + 1) /\ u[b] = t[b]
          /\ \A b \in a..(n + 1) : b \in a..n \/ b = n + 1
          /\ a \in 1..(n + 1)
      BY <1>0
    <2>2. (\A b \in a..(n + 1) : u[b] # "\n") <=> \A b \in a..n : t[b] # "\n"
      BY <1>0, <1>4, <2>1
    <2> QED
      BY <1>2, <1>3, <2>1, <2>2
  <1>14. n + 1 \in Starts(u, n + 2) <=> m = 0
    <2>1. \A b \in (n + 1)..(n + 1) : u[b] # "\n"
      BY <1>0, <1>4
    <2>2. n + 1 \in Starts(u, n + 2) <=> n + 1 = 1 \/ Separator(u[(n + 1) - 1])
      <3>1. n + 1 \in 1..(n + 1) /\ ~Separator(u[n + 1])
        BY <1>0
      <3> QED
        BY <1>3, <2>1, <3>1, Zenon
    <2>3. n # 0 => u[(n + 1) - 1] = t[n]
      BY <1>0
    <2>4. CASE m = 0
      <3>1. n - m = n
        BY <1>0, <2>4
      <3> QED
        BY <1>0, <1>1, <2>2, <2>3, <2>4, <3>1
    <2>5. CASE m # 0
      <3>1. n \in a0..n /\ n # 0
        BY <1>0, <1>1, <2>5
      <3>2. ~Separator(t[n])
        BY <1>6, <3>1
      <3> QED
        BY <1>0, <2>2, <2>3, <2>5, <3>1, <3>2
    <2> QED
      BY <2>4, <2>5
  <1>15. Starts(u, n + 2) = S \cup {a0}
    <2>1. \A a \in Starts(u, n + 2) : a \in 1..(n + 1)
      BY <1>3
    <2>2. CASE m = 0
      <3>1. a0 = n + 1 /\ S = T
        BY <1>0, <1>12, <2>2
      <3>2. \A a \in T : a \in 1..n
        BY <1>2
      <3>3. \A a \in 1..(n + 1) : a \in 1..n \/ a = n + 1
        BY <1>0
      <3> QED
        BY <1>13, <1>14, <2>1, <2>2, <3>1, <3>2, <3>3
    <2>3. CASE m # 0
      <3>1. S \cup {a0} = T
        BY <1>12, <2>3
      <3>2. \A a \in T : a \in 1..n
        BY <1>2
      <3>3. \A a \in 1..(n + 1) : a \in 1..n \/ a = n + 1
        BY <1>0
      <3> QED
        BY <1>13, <1>14, <2>1, <2>3, <3>1, <3>2, <3>3
    <2> QED
      BY <2>2, <2>3
  <1> QED
    BY <1>5, <1>8, <1>9, <1>12, <1>15 DEF u, n, m, T

\* A letter makes the open field longer, and is the first one of it behind a separator.
LEMMA LineAtLetter ==
    ASSUME NEW C, NEW t \in Seq(C), NEW c \in C, ~Separator(c), NEW D, NEW f \in Seq(D), c \in D,
           IsOpenField(t, f), NEW row \in Seq(Seq(D)),
           Line(t) = IF f # <<>> THEN Append(row, f) ELSE row
    PROVE  Line(Append(t, c)) = Append(row, Append(f, c))
  <1> DEFINE u == Append(t, c)
             n == Len(t)
             g == Append(f, c)
             a0 == n + 1 - Len(f)
             S == Starts(t, n + 1) \ {a0}
             R == Along(S, FieldsOf(t))
  <1>0. /\ u \in Seq(C) /\ Len(u) = n + 1 /\ n \in Nat /\ u[n + 1] = c
        /\ (\A i \in 1..n : u[i] = t[i])
    BY AppendFacts
  <1>1. /\ a0 \in 1..(n + 1) /\ S \in SUBSET (1..(a0 - 1))
        /\ Starts(t, n + 1) = IF Len(f) = 0 THEN S ELSE S \cup {a0}
        /\ Starts(u, n + 2) = S \cup {a0}
        /\ \A a \in S : ~Separator(t[a]) /\ a0 - 1 \in (a + 1)..n /\ Separator(t[a0 - 1])
    BY StartsBeforeOpen, Zenon
  <1>2. /\ Len(f) \in 0..n
        /\ \A i \in 1..Len(f) : f[i] = t[n - Len(f) + i] /\ ~Separator(f[i])
    BY DEF IsOpenField
  <1>3. /\ Line(u) = Along(S \cup {a0}, FieldsOf(u))
        /\ Line(t) = Along(Starts(t, n + 1), FieldsOf(t))
    <2>1. n + 1 \in Nat /\ n + 2 \in Nat /\ Len(u) + 1 = n + 2
      BY <1>0
    <2> QED
      BY <1>1, <2>1, RowIsAlong, Zenon DEF Line
  <1>4. /\ g \in Seq(D) /\ Len(g) = Len(f) + 1 /\ g[Len(f) + 1] = c /\ Len(f) \in Nat
        /\ \A i \in 1..Len(f) : g[i] = f[i]
    BY AppendFacts
  <1>5. FieldFrom(u, a0) = g
    <2>1. /\ a0 \in 1..Len(u) /\ n + 1 \in a0..Len(u) /\ n + 1 = Len(u)
          /\ a0 \in 1..(Len(u) + 1) /\ n + 1 \in (a0 - 1)..Len(u) /\ (n + 1) - a0 + 1 = Len(f) + 1
      BY <1>0, <1>1, <1>4
    <2>2. ASSUME NEW i \in 1..(Len(f) + 1) PROVE u[a0 + i - 1] = g[i] /\ ~Separator(g[i])
      <3>1. CASE i = Len(f) + 1
        <4>1. a0 + i - 1 = n + 1
          BY <1>0, <1>4, <3>1
        <4> QED
          BY <1>0, <1>4, <3>1, <4>1
      <3>2. CASE i # Len(f) + 1
        <4>1. i \in 1..Len(f) /\ a0 + i - 1 = n - Len(f) + i /\ a0 + i - 1 \in 1..n
          BY <1>0, <1>2, <1>4, <3>2
        <4> QED
          BY <1>0, <1>2, <1>4, <4>1
      <3> QED
        BY <3>1, <3>2, Zenon
    <2>3. ASSUME NEW k \in a0..(n + 1) PROVE ~Separator(u[k])
      <3>1. k - a0 + 1 \in 1..(Len(f) + 1) /\ a0 + (k - a0 + 1) - 1 = k
        BY <1>0, <1>1, <1>4
      <3>2. u[a0 + (k - a0 + 1) - 1] = g[k - a0 + 1] /\ ~Separator(g[k - a0 + 1])
        BY <2>2, <3>1, Zenon
      <3> HIDE DEF a0, g
      <3> QED
        BY <3>1, <3>2, Zenon
    <2> HIDE DEF u, g, a0
    <2>4. Ending(u, a0, n + 1)
      BY <2>1, <2>3 DEF Ending
    <2>5. FieldFrom(u, a0) = SubSeq(u, a0, n + 1)
      BY <1>0, <2>1, <2>4, FieldFromIs, Zenon
    <2>6. /\ SubSeq(u, a0, n + 1) \in Seq(C) /\ Len(SubSeq(u, a0, n + 1)) = Len(f) + 1
          /\ \A i \in 1..(Len(f) + 1) : SubSeq(u, a0, n + 1)[i] = u[a0 + i - 1]
      <3> DEFINE b == n + 1
      <3>1. a0 \in 1..(Len(u) + 1) /\ b \in (a0 - 1)..Len(u) /\ b - a0 + 1 = Len(f) + 1
        BY <2>1
      <3> HIDE DEF b
      <3>2. /\ SubSeq(u, a0, b) \in Seq(C) /\ Len(SubSeq(u, a0, b)) = b - a0 + 1
            /\ \A i \in 1..(b - a0 + 1) : SubSeq(u, a0, b)[i] = u[a0 + i - 1]
        BY <1>0, <3>1, SubSeqFacts
      <3> QED
        BY <3>1, <3>2, SMTT(20) DEF b
    <2>7. \A i \in 1..(Len(f) + 1) : SubSeq(u, a0, n + 1)[i] = g[i]
      BY <2>2, <2>6
    <2>8. SubSeq(u, a0, n + 1) \in Seq(C \cup D) /\ g \in Seq(C \cup D)
      BY <1>4, <2>6, SeqMonotonic, Zenon
    <2>9. SubSeq(u, a0, n + 1) = g
      BY <1>4, <2>6, <2>7, <2>8, SeqEqual, ZenonT(30)
    <2> QED
      BY <2>5, <2>9
  <1>6. Along(S, FieldsOf(u)) = R
    <2>1. ASSUME NEW a \in S PROVE FieldsOf(u)[a] = FieldsOf(t)[a]
      <3>1. a \in 1..(a0 - 1) /\ ~Separator(t[a]) /\ a0 - 1 \in (a + 1)..n /\ Separator(t[a0 - 1])
        BY <1>1
      <3>2. /\ a \in 1..Len(t) /\ a \in Nat /\ a0 - 1 \in (a + 1)..(Len(t) + 1)
            /\ a0 - 1 \in 1..n
        BY <1>0, <1>1, <3>1, SMTT(20)
      <3>3. Separator(u[a0 - 1])
        BY <1>0, <3>1, <3>2
      <3>4. FieldFrom(u, a) = FieldFrom(t, a)
        <4> DEFINE e == a0 - 1
        <4>1. e \in (a + 1)..(Len(t) + 1) /\ Separator(Append(t, c)[e])
          BY <3>2, <3>3
        <4>2. a \in 1..Len(t) /\ ~Separator(t[a])
          BY <3>1, <3>2
        <4> HIDE DEF e, S
        <4> QED
          BY <4>1, <4>2, FieldKept, Zenon
      <3> QED
        BY <3>2, <3>4 DEF FieldsOf
    <2>2. a0 - 1 \in Nat
      BY <1>1
    <2> HIDE DEF S, u, a0
    <2> QED
      BY <1>1, <2>1, <2>2, AlongKept, Zenon
  <1>7. a0 \in Nat /\ a0 - 1 \in Nat /\ a0 - 1 < a0
    BY <1>1
  <1>8. \A F : Along(S \cup {a0}, F) = Append(Along(S, F), F[a0])
    <2> HIDE DEF S, a0
    <2> QED
      BY <1>1, <1>7, AlongGrows, Zenon
  <1>9. Line(u) = Append(R, g)
    <2>1. FieldsOf(u)[a0] = g
      BY <1>5, <1>7 DEF FieldsOf
    <2> HIDE DEF S, a0, u, g, R
    <2> QED
      BY <1>3, <1>6, <1>8, <2>1, Zenon
  <1>10. row = R
    <2>1. CASE f = <<>>
      <3>1. Len(f) = 0
        BY <2>1
      <3> QED
        BY <1>1, <1>3, <2>1, <3>1, Zenon
    <2>2. CASE f # <<>>
      <3>1. Len(f) # 0 /\ Len(f) \in Nat
        BY <2>2
      <3>2. FieldFrom(t, a0) = f
        <4>1. /\ a0 \in 1..n /\ n \in a0..n /\ a0 \in 1..(n + 1) /\ n \in (a0 - 1)..n
              /\ n - a0 + 1 = Len(f)
          BY <1>0, <1>2, <3>1
        <4>2. ASSUME NEW i \in 1..Len(f) PROVE t[a0 + i - 1] = f[i] /\ ~Separator(f[i])
          <5>1. a0 + i - 1 = n - Len(f) + i
            BY <1>0, <3>1
          <5> QED
            BY <1>2, <5>1
        <4>3. ASSUME NEW k \in a0..n PROVE ~Separator(t[k])
          <5>1. k - a0 + 1 \in 1..Len(f) /\ a0 + (k - a0 + 1) - 1 = k
            BY <1>0, <3>1, <4>1
          <5>2. t[a0 + (k - a0 + 1) - 1] = f[k - a0 + 1] /\ ~Separator(f[k - a0 + 1])
            BY <4>2, <5>1
          <5> HIDE DEF a0
          <5> QED
            BY <5>1, <5>2
        <4> HIDE DEF a0
        <4>4. Ending(t, a0, n)
          BY <4>1, <4>3 DEF Ending
        <4>5. FieldFrom(t, a0) = SubSeq(t, a0, n)
          BY <4>1, <4>4, FieldFromIs
        <4>6. /\ SubSeq(t, a0, n) \in Seq(C) /\ Len(SubSeq(t, a0, n)) = Len(f)
              /\ \A i \in 1..Len(f) : SubSeq(t, a0, n)[i] = t[a0 + i - 1]
          BY <1>0, <4>1, SubSeqFacts
        <4>7. \A i \in 1..Len(f) : SubSeq(t, a0, n)[i] = f[i]
          BY <4>2, <4>6
        <4>8. SubSeq(t, a0, n) \in Seq(C \cup D) /\ f \in Seq(C \cup D)
          BY <4>6, SeqMonotonic
        <4>9. SubSeq(t, a0, n) = f
          BY <4>6, <4>7, <4>8, SeqEqual, Zenon
        <4> QED
          BY <4>5, <4>9
      <3>3. FieldsOf(t)[a0] = f
        BY <1>7, <3>2 DEF FieldsOf
      <3>4. Append(row, f) = Append(R, f)
        <4> HIDE DEF S, a0
        <4> QED
          BY <1>1, <1>3, <1>8, <2>2, <3>1, <3>3, Zenon
      <3>5. PICK V : R \in Seq(V)
        <4> HIDE DEF S, a0
        <4> QED
          BY <1>1, <1>7, AlongGrows, Zenon
      <3> HIDE DEF R
      <3> DEFINE W == V \cup Seq(D)
      <3>6. R \in Seq(W) /\ row \in Seq(W) /\ f \in W
        BY <3>5, SeqMonotonic
      <3> HIDE DEF W
      <3> QED
        BY <3>4, <3>6, AppendCancels, Zenon
    <2> QED
      BY <2>1, <2>2
  <1> QED
    BY <1>9, <1>10 DEF u, g

LEMMA ReferenceOfEmpty == ReferenceRows(<<>>) = <<>> /\ Line(<<>>) = <<>>
  <1>1. <<>> \in Seq({}) /\ Len(<<>>) = 0 /\ DOMAIN <<>> = {}
    OBVIOUS
  <1>2. RowEnds(<<>>) = {}
    BY <1>1 DEF RowEnds
  <1>3. Starts(<<>>, Len(<<>>) + 1) = {}
    BY <1>1 DEF Starts
  <1> QED
    BY <1>1, <1>2, <1>3, ReferenceIsAlong, AlongEmpty, LineEmpty, Zenon

-----------------------------------------------------------------------------
LEMMA CharTypes ==
    /\ Letters \subseteq Chars /\ "," \in Chars /\ "\n" \in Chars
    /\ Separator(",") /\ Separator("\n")
    /\ \A c \in Letters : ~Separator(c) /\ c \in Chars
  BY CsvAssumption, Zenon DEF Chars, Separator

-----------------------------------------------------------------------------
\* The text in two parts.
LEMMA PrefixOfConcat ==
    ASSUME NEW C, NEW s \in Seq(C), NEW t \in Seq(C)
    PROVE  SubSeq(s \o t, 1, Len(s \o t) - Len(t)) = s
  <1> DEFINE x == s \o t
             n == Len(s)
  <1>1. /\ x \in Seq(C) /\ Len(x) = n + Len(t) /\ n \in Nat /\ Len(t) \in Nat
        /\ \A i \in 1..(n + Len(t)) : x[i] = IF i <= n THEN s[i] ELSE t[i - n]
    BY ConcatProperties
  <1> HIDE DEF x, n
  <1>2. Len(x) - Len(t) = n /\ 1 \in 1..(Len(x) + 1) /\ n \in (1 - 1)..Len(x)
    BY <1>1
  <1>3. /\ SubSeq(x, 1, n) \in Seq(C) /\ Len(SubSeq(x, 1, n)) = n - 1 + 1
        /\ \A i \in 1..(n - 1 + 1) : SubSeq(x, 1, n)[i] = x[1 + i - 1]
    BY <1>1, <1>2, SubSeqFacts
  <1>4. n - 1 + 1 = n /\ \A i \in 1..n : 1 + i - 1 = i /\ i \in 1..(n + Len(t)) /\ i <= n
    BY <1>1
  <1>5. \A i \in 1..n : SubSeq(x, 1, n)[i] = s[i]
    BY <1>1, <1>3, <1>4
  <1>6. SubSeq(x, 1, n) = s
    BY <1>3, <1>4, <1>5, SeqEqual DEF n
  <1> QED
    BY <1>2, <1>6 DEF x

LEMMA AppendThenConcat ==
    ASSUME NEW C, NEW s \in Seq(C), NEW c \in C, NEW t \in Seq(C)
    PROVE  Append(s, c) \o t = s \o (<<c>> \o t)
  <1>1. <<c>> \in Seq(C) /\ Len(<<c>>) = 1 /\ <<c>>[1] = c
    OBVIOUS
  <1>2. Append(s, c) = s \o <<c>>
    BY AppendIsConcat
  <1> DEFINE y == <<c>>
  <1>3. y \in Seq(C)
    BY <1>1
  <1> HIDE DEF y
  <1>4. (s \o y) \o t = s \o (y \o t)
    BY <1>3, ConcatAssociative
  <1> QED
    BY <1>2, <1>4 DEF y

-----------------------------------------------------------------------------
\* A saved file, read again.  The reference has read t: rows are its rows, row the ended
\* fields of its last line and f the field behind them, and every line end ended a row.
NewLines(t) == {e \in 1..Len(t) : t[e] = "\n"}

Reads(t, rows, row, f) ==
    /\ t \in Seq(Chars) /\ rows \in Seq(Seq(Seq(Letters))) /\ row \in Seq(Seq(Letters))
    /\ f \in Seq(Letters) /\ IsOpenField(t, f)
    /\ ReferenceRows(t) = rows /\ Line(t) = IF f # <<>> THEN Append(row, f) ELSE row
    /\ IsFiniteSet(NewLines(t)) /\ Cardinality(NewLines(t)) = Len(rows)

LEMMA NewLinesStep ==
    ASSUME NEW C, NEW t \in Seq(C), NEW c \in C, IsFiniteSet(NewLines(t))
    PROVE  /\ IsFiniteSet(NewLines(Append(t, c)))
           /\ c # "\n" => NewLines(Append(t, c)) = NewLines(t)
           /\ c = "\n" => Cardinality(NewLines(Append(t, c))) = Cardinality(NewLines(t)) + 1
  <1> DEFINE n == Len(t)
             u == Append(t, c)
  <1>1. /\ Len(u) = n + 1 /\ n \in Nat /\ u[n + 1] = c /\ \A i \in 1..n : u[i] = t[i]
    BY AppendFacts
  <1> HIDE DEF u, n
  <1>2. c # "\n" => NewLines(u) = NewLines(t)
    BY <1>1 DEF NewLines, n
  <1>3. c = "\n" => NewLines(u) = NewLines(t) \cup {n + 1}
    BY <1>1 DEF NewLines, n
  <1>4. n + 1 \notin NewLines(t)
    BY <1>1 DEF NewLines, n
  <1>5. /\ IsFiniteSet(NewLines(t) \cup {n + 1})
        /\ Cardinality(NewLines(t) \cup {n + 1}) = Cardinality(NewLines(t)) + 1
    BY <1>4, FS_AddElement
  <1> QED
    BY <1>2, <1>3, <1>5, Zenon DEF u

LEMMA ReadsNothing == Reads(<<>>, <<>>, <<>>, <<>>)
  <1>1. NewLines(<<>>) = {}
    BY DEF NewLines
  <1>2. IsFiniteSet(NewLines(<<>>)) /\ Cardinality(NewLines(<<>>)) = 0
    BY <1>1, FS_EmptySet
  <1>3. IsOpenField(<<>>, <<>>)
    BY DEF IsOpenField
  <1> QED
    BY <1>2, <1>3, ReferenceOfEmpty DEF Reads

LEMMA ReadsLetter ==
    ASSUME NEW t, NEW rows, NEW row, NEW f, Reads(t, rows, row, f), NEW c \in Letters
    PROVE  Reads(Append(t, c), rows, row, Append(f, c))
  <1>1. c \in Chars /\ ~Separator(c) /\ c # "\n"
    BY CharTypes, Zenon DEF Separator
  <1>2. t \in Seq(Chars) /\ row \in Seq(Seq(Letters)) /\ f \in Seq(Letters) /\ IsOpenField(t, f)
    BY DEF Reads
  <1>3. Append(t, c) \in Seq(Chars) /\ Append(f, c) \in Seq(Letters) /\ Append(f, c) # <<>>
    BY <1>1, <1>2, AppendProperties
  <1>4. IsOpenField(Append(t, c), Append(f, c))
    BY <1>1, <1>2, OpenFieldStep
  <1>5. ReferenceRows(Append(t, c)) = ReferenceRows(t)
    BY <1>1, <1>2, ReferenceStep
  <1>6. Line(Append(t, c)) = Append(row, Append(f, c))
    BY <1>1, <1>2, LineAtLetter DEF Reads
  <1>7. NewLines(Append(t, c)) = NewLines(t)
    BY <1>1, <1>2, NewLinesStep DEF Reads
  <1> QED
    BY <1>2, <1>3, <1>4, <1>5, <1>6, <1>7 DEF Reads

LEMMA ReadsSeparator ==
    ASSUME NEW t, NEW rows, NEW row, NEW f, Reads(t, rows, row, f), f # <<>>
    PROVE  /\ Reads(Append(t, ","), rows, Append(row, f), <<>>)
           /\ Reads(Append(t, "\n"), Append(rows, Append(row, f)), <<>>, <<>>)
  <1> DEFINE r == Append(row, f)
  <1>1. /\ t \in Seq(Chars) /\ row \in Seq(Seq(Letters)) /\ f \in Seq(Letters) /\ IsOpenField(t, f)
        /\ rows \in Seq(Seq(Seq(Letters))) /\ ReferenceRows(t) = rows /\ Line(t) = r
        /\ IsFiniteSet(NewLines(t)) /\ Cardinality(NewLines(t)) = Len(rows)
    BY DEF Reads
  <1>2. r \in Seq(Seq(Letters)) /\ r # <<>>
    <2> DEFINE V == Seq(Letters)
    <2>1. row \in Seq(V) /\ f \in V
      BY <1>1
    <2> HIDE DEF V
    <2>2. r \in Seq(V) /\ r # <<>>
      BY <2>1, AppendProperties
    <2> QED
      BY <2>2 DEF V
  <1> HIDE DEF r
  <1>3. Append(rows, r) \in Seq(Seq(Seq(Letters))) /\ Len(Append(rows, r)) = Len(rows) + 1
    <2> DEFINE V == Seq(Seq(Letters))
    <2>1. rows \in Seq(V) /\ r \in V
      BY <1>1, <1>2
    <2> HIDE DEF V
    <2>2. Append(rows, r) \in Seq(V) /\ Len(Append(rows, r)) = Len(rows) + 1
      BY <2>1, AppendProperties
    <2> QED
      BY <2>2 DEF V
  <1>4. /\ "," \in Chars /\ "\n" \in Chars /\ Separator(",") /\ Separator("\n") /\ "," # "\n"
    BY CharTypes, Zenon
  <1>5. Append(t, ",") \in Seq(Chars) /\ Append(t, "\n") \in Seq(Chars)
    BY <1>1, <1>4, AppendProperties, Zenon
  <1>6. IsOpenField(Append(t, ","), <<>>) /\ IsOpenField(Append(t, "\n"), <<>>)
    <2>1. f \in Seq(Chars)
      BY <1>1, CharTypes, SeqMonotonic, Zenon
    <2> QED
      BY <1>1, <1>4, <2>1, OpenFieldStep, Zenon
  <1>7. Line(Append(t, ",")) = r /\ Line(Append(t, "\n")) = <<>>
    BY <1>1, <1>4, LineAtSeparator, Zenon
  <1>8. Starts(t, Len(t) + 1) # {}
    BY <1>1, <1>2, LineEmpty
  <1>9. /\ ReferenceRows(Append(t, ",")) = rows
        /\ ReferenceRows(Append(t, "\n")) = Append(rows, r)
    BY <1>1, <1>4, <1>8, ReferenceStep, Zenon DEF Line
  <1>10. /\ NewLines(Append(t, ",")) = NewLines(t) /\ IsFiniteSet(NewLines(Append(t, "\n")))
         /\ Cardinality(NewLines(Append(t, "\n"))) = Len(rows) + 1
    BY <1>1, <1>4, NewLinesStep, Zenon
  <1>11. <<>> \in Seq(Letters) /\ <<>> \in Seq(Seq(Letters))
    OBVIOUS
  <1>12. Reads(Append(t, ","), rows, r, <<>>)
    BY <1>1, <1>2, <1>5, <1>6, <1>7, <1>9, <1>10, <1>11, ZenonT(30) DEF Reads
  <1>13. Reads(Append(t, "\n"), Append(rows, r), <<>>, <<>>)
    BY <1>3, <1>5, <1>6, <1>7, <1>9, <1>10, <1>11, ZenonT(30) DEF Reads
  <1> QED
    BY <1>12, <1>13, Zenon DEF r

LEMMA ConcatAppend ==
    ASSUME NEW C, NEW s \in Seq(C), NEW x \in Seq(C), NEW c \in C
    PROVE  s \o Append(x, c) = Append(s \o x, c)
  <1> DEFINE y == <<c>>
             z == s \o x
  <1>1. y \in Seq(C) /\ z \in Seq(C) /\ Append(x, c) = x \o y /\ Append(z, c) = z \o y
    BY AppendIsConcat, ConcatProperties
  <1>2. Associates(C)
    BY Associative
  <1> HIDE DEF y
  <1>3. (s \o x) \o y = s \o (x \o y)
    BY <1>1, <1>2, SMTT(20) DEF Associates
  <1> HIDE DEF z
  <1>4. z \o y = s \o (x \o y)
    BY <1>3 DEF z
  <1> QED
    BY <1>1, <1>4 DEF z

LEMMA SubSeqGrows ==
    ASSUME NEW C, NEW f \in Seq(C), NEW k \in Nat, k < Len(f)
    PROVE  /\ SubSeq(f, 1, k + 1) = Append(SubSeq(f, 1, k), f[k + 1])
           /\ SubSeq(f, 1, k) \in Seq(C) /\ f[k + 1] \in C
  <1> DEFINE n == k + 1
             x == SubSeq(f, 1, k)
  <1>1. n \in 1..Len(f) /\ 1 \in 1..Len(f) /\ n - 1 = k
    OBVIOUS
  <1>2. f[n] \in C
    BY <1>1, ElementOfSeq
  <1>3. x \in Seq(C)
    <2>1. 1 \in 1..(Len(f) + 1) /\ k \in (1 - 1)..Len(f)
      OBVIOUS
    <2> QED
      BY <2>1, SubSeqFacts
  <1> HIDE DEF n
  <1>4. SubSeq(f, 1, n) = SubSeq(f, 1, n - 1) \o << f[n] >>
    BY <1>1, SubSeqRecursiveSecond
  <1>5. SubSeq(f, 1, n) = x \o << f[n] >>
    BY <1>1, <1>4
  <1> HIDE DEF x
  <1>6. Append(x, f[n]) = x \o << f[n] >>
    BY <1>2, <1>3, AppendIsConcat
  <1> QED
    BY <1>2, <1>3, <1>5, <1>6 DEF n, x

LEMMA ReadsField ==
    ASSUME NEW t, NEW rows, NEW row, Reads(t, rows, row, <<>>), NEW f \in Seq(Letters)
    PROVE  Reads(t \o f, rows, row, f)
  <1> DEFINE x(k) == SubSeq(f, 1, k)
             P(k) == k <= Len(f) => Reads(t \o x(k), rows, row, x(k))
             T == {k \in Nat : P(k)}
  <1>1. t \in Seq(Chars) /\ Len(f) \in Nat
    BY DEF Reads
  <1>2. P(0)
    <2>1. x(0) = <<>>
      OBVIOUS
    <2>2. t \o <<>> = t
      BY <1>1, ConcatEmptySeq
    <2> QED
      BY <2>1, <2>2, Zenon
  <1>3. ASSUME NEW k \in Nat, P(k) PROVE P(k + 1)
    <2> SUFFICES ASSUME k + 1 <= Len(f) PROVE Reads(t \o x(k + 1), rows, row, x(k + 1))
      OBVIOUS
    <2> DEFINE y == x(k)
               c == f[k + 1]
    <2>1. k < Len(f) /\ k <= Len(f)
      BY <1>1
    <2>2. x(k + 1) = Append(y, c) /\ y \in Seq(Letters) /\ c \in Letters
      BY <2>1, SubSeqGrows
    <2>3. Reads(t \o y, rows, row, y)
      BY <1>3, <2>1
    <2> HIDE DEF y, c
    <2>4. y \in Seq(Chars) /\ c \in Chars
      BY <2>2, CharTypes, SeqMonotonic, Zenon
    <2>5. t \o Append(y, c) = Append(t \o y, c)
      BY <1>1, <2>4, ConcatAppend
    <2>6. Reads(Append(t \o y, c), rows, row, Append(y, c))
      BY <2>2, <2>3, ReadsLetter
    <2> HIDE DEF x
    <2> QED
      BY <2>2, <2>5, <2>6, Zenon
  <1> HIDE DEF P
  <1>4. 0 \in T /\ T \in SUBSET Nat /\ \A k \in T : k + 1 \in T
    BY <1>2, <1>3
  <1> HIDE DEF T
  <1>5. T = Nat
    BY <1>4, NatInduct
  <1>6. P(Len(f))
    BY <1>1, <1>5 DEF T
  <1>7. x(Len(f)) = f /\ Len(f) <= Len(f)
    BY <1>1, SubSeqFull
  <1> HIDE DEF x
  <1>8. Reads(t \o x(Len(f)), rows, row, x(Len(f)))
    BY <1>6, <1>7 DEF P
  <1> QED
    BY <1>7, <1>8

\* Fields as the parser and the operations on an object store them.
Field == Seq(Letters) \ {<<>>}

LEMMA ReadsPiece ==
    ASSUME NEW t, NEW rows, NEW row, Reads(t, rows, row, <<>>), NEW f \in Field
    PROVE  /\ Reads(t \o f, rows, row, f)
           /\ Reads(t \o Append(f, ","), rows, Append(row, f), <<>>)
           /\ f \in Seq(Chars) /\ Append(f, ",") \in Seq(Chars)
  <1>1. f \in Seq(Letters) /\ f # <<>>
    BY DEF Field
  <1>2. f \in Seq(Chars) /\ "," \in Chars
    BY <1>1, CharTypes, SeqMonotonic, Zenon
  <1>3. t \in Seq(Chars)
    BY DEF Reads
  <1>4. Reads(t \o f, rows, row, f)
    BY <1>1, ReadsField
  <1>5. Reads(Append(t \o f, ","), rows, Append(row, f), <<>>)
    BY <1>1, <1>4, ReadsSeparator, Zenon
  <1>6. t \o Append(f, ",") = Append(t \o f, ",")
    <2> DEFINE c == ","
    <2>1. t \in Seq(Chars) /\ f \in Seq(Chars) /\ c \in Chars
      BY <1>2, <1>3, Zenon
    <2> HIDE DEF c
    <2>2. t \o Append(f, c) = Append(t \o f, c)
      BY <2>1, ConcatAppend
    <2> QED
      BY <2>2, Zenon DEF c
  <1>7. Append(f, ",") \in Seq(Chars)
    BY <1>2, AppendProperties, Zenon
  <1> QED
    BY <1>2, <1>4, <1>5, <1>6, <1>7, Zenon

\* Join from the left: f[k] is what it has written behind the k-th sequence.
Piece(seqs, sep, k) == IF k < Len(seqs) THEN Append(seqs[k], sep) ELSE seqs[k]

IsJoin(f, seqs, sep, C) ==
    /\ Join(seqs, sep) = f[Len(seqs)]
    /\ f[1] = Piece(seqs, sep, 1)
    /\ \A k \in 1..Len(seqs) : k # 1 => f[k] = f[k - 1] \o Piece(seqs, sep, k)
    /\ \A k \in 1..Len(seqs) : f[k] \in Seq(C) /\ Piece(seqs, sep, k) \in Seq(C)

LEMMA JoinExists ==
    ASSUME NEW C, NEW seqs \in Seq(Seq(C)), NEW sep \in C, seqs # <<>>
    PROVE  \E f : IsJoin(f, seqs, sep, C)
  <1> DEFINE n == Len(seqs)
             s == [k \in 1..n |-> Piece(seqs, sep, k)]
  <1>1. n \in Nat /\ n # 0 /\ DOMAIN seqs = 1..n
    OBVIOUS
  <1>2. ASSUME NEW k \in 1..n PROVE Piece(seqs, sep, k) \in Seq(C)
    <2>1. seqs[k] \in Seq(C)
      BY ElementOfSeq
    <2>2. Append(seqs[k], sep) \in Seq(C)
      BY <2>1, AppendProperties
    <2> QED
      BY <2>1, <2>2 DEF Piece
  <1>3. Join(seqs, sep) = Concat(s)
    BY <1>1 DEF Join, Piece
  <1> HIDE DEF n
  <1>4. s \in Seq(Seq(C)) /\ Len(s) = n /\ \A k \in 1..n : s[k] = Piece(seqs, sep, k)
    BY <1>1, <1>2
  <1> HIDE DEF s
  <1> DEFINE f == CHOOSE g : IsFlat(g, s, n)
  <1>5. IsFlat(f, s, n)
    BY <1>1, FlatExists
  <1>6. Concat(s) = f[n]
    BY <1>1, <1>4, ConcatIsFlat
  <1> HIDE DEF f
  <1>7. f[1] = s[1] /\ \A k \in 1..n : k # 1 => f[k] = f[k - 1] \o s[k]
    BY <1>1, <1>5, FlatEnds, Zenon
  <1>8. \A k \in 1..n : f[k] \in Seq(C)
    BY <1>4, <1>5, FlatType
  <1>9. 1 \in 1..n
    BY <1>1
  <1>10. IsJoin(f, seqs, sep, C)
    BY <1>2, <1>3, <1>4, <1>6, <1>7, <1>8, <1>9, Zenon DEF IsJoin, n
  <1> QED
    BY <1>10

\* The fields of a row with the delimiters between them.
LEMMA ReadsLine ==
    ASSUME NEW t, NEW rows, Reads(t, rows, <<>>, <<>>), NEW r \in Seq(Field), r # <<>>
    PROVE  /\ Join(r, ",") \in Seq(Chars)
           /\ Reads(t \o Join(r, ","), rows, SubSeq(r, 1, Len(r) - 1), r[Len(r)])
  <1> DEFINE n == Len(r)
             c == ","
             x(k) == SubSeq(r, 1, k)
  <1>1. n \in Nat /\ n # 0 /\ 1 \in 1..n /\ c \in Chars /\ \A k \in 1..n : r[k] \in Field
    <2>1. n \in Nat /\ n # 0 /\ 1 \in 1..n
      OBVIOUS
    <2>2. \A k \in 1..n : r[k] \in Field
      BY ElementOfSeq
    <2> QED
      BY <2>1, <2>2, CharTypes, Zenon
  <1>2. r \in Seq(Seq(Chars))
    <2>1. Field \subseteq Seq(Chars)
      BY CharTypes, SeqMonotonic, Zenon DEF Field
    <2> QED
      BY <2>1, SeqMonotonic
  <1>3. t \in Seq(Chars)
    BY DEF Reads
  <1> HIDE DEF c
  <1>4. PICK f : IsJoin(f, r, c, Chars)
    BY <1>1, <1>2, JoinExists
  <1>5. /\ Join(r, c) = f[n] /\ f[1] = Piece(r, c, 1)
        /\ \A k \in 1..n : k # 1 => f[k] = f[k - 1] \o Piece(r, c, k)
        /\ \A k \in 1..n : f[k] \in Seq(Chars) /\ Piece(r, c, k) \in Seq(Chars)
    BY <1>4 DEF IsJoin
  <1> DEFINE Mid(u, k) == IF k < n THEN Reads(u, rows, x(k), <<>>) ELSE Reads(u, rows, x(k - 1), r[k])
  <1>6. ASSUME NEW u, NEW k \in 1..n, Reads(u, rows, x(k - 1), <<>>)
        PROVE  Mid(u \o Piece(r, c, k), k)
    <2> DEFINE e == r[k]
               row == x(k - 1)
    <2>1. e \in Field
      BY <1>1
    <2>2. Append(row, e) = x(k)
      <3> DEFINE j == k - 1
      <3>1. j \in Nat /\ j < Len(r) /\ j + 1 = k
        BY <1>1
      <3> HIDE DEF j
      <3>2. SubSeq(r, 1, j + 1) = Append(SubSeq(r, 1, j), r[j + 1])
        BY <3>1, SubSeqGrows
      <3>3. SubSeq(r, 1, k) = Append(SubSeq(r, 1, j), r[k])
        BY <3>1, <3>2
      <3> QED
        BY <3>3 DEF j
    <2> HIDE DEF e, row, x
    <2>3. Reads(u, rows, row, <<>>)
      BY <1>6 DEF row
    <2>4. Reads(u \o e, rows, row, e) /\ Reads(u \o Append(e, c), rows, Append(row, e), <<>>)
      BY <2>1, <2>3, ReadsPiece, Zenon DEF c
    <2>5. k < n => Piece(r, c, k) = Append(e, c)
      BY DEF Piece, e, n
    <2>6. ~(k < n) => Piece(r, c, k) = e
      BY DEF Piece, e, n
    <2> QED
      BY <2>2, <2>4, <2>5, <2>6, Zenon DEF e, row
  <1> DEFINE P(k) == k + 1 \in 1..n => Mid(t \o f[k + 1], k + 1)
             T == {k \in Nat : P(k)}
  <1>7. P(0)
    <2>1. x(1 - 1) = <<>> /\ 0 + 1 = 1
      OBVIOUS
    <2>2. Reads(t, rows, x(1 - 1), <<>>)
      BY <2>1, Zenon
    <2> HIDE DEF x, Mid, n
    <2>3. Mid(t \o Piece(r, c, 1), 1)
      BY <1>1, <1>6, <2>2
    <2> QED
      BY <1>5, <2>1, <2>3
  <1>8. ASSUME NEW k \in Nat, P(k) PROVE P(k + 1)
    <2> SUFFICES ASSUME k + 1 + 1 \in 1..n PROVE Mid(t \o f[k + 1 + 1], k + 1 + 1)
      OBVIOUS
    <2> DEFINE j == k + 1
               i == j + 1
    <2>1. j \in 1..n /\ i \in 1..n /\ i # 1 /\ i - 1 = j /\ j < n
      BY <1>1
    <2>2. Reads(t \o f[j], rows, x(j), <<>>)
      BY <1>8, <2>1
    <2> HIDE DEF x, Mid, n, j
    <2>3. Reads(t \o f[j], rows, x(i - 1), <<>>)
      BY <2>1, <2>2
    <2> HIDE DEF i
    <2>4. Mid((t \o f[j]) \o Piece(r, c, i), i)
      BY <1>6, <2>1, <2>3
    <2>5. f[i] = f[j] \o Piece(r, c, i) /\ f[j] \in Seq(Chars) /\ Piece(r, c, i) \in Seq(Chars)
      BY <1>5, <2>1
    <2>6. (t \o f[j]) \o Piece(r, c, i) = t \o f[i]
      <3> DEFINE y == f[j]
                 z == Piece(r, c, i)
      <3>1. t \in Seq(Chars) /\ y \in Seq(Chars) /\ z \in Seq(Chars) /\ f[i] = y \o z
        BY <1>3, <2>5
      <3>2. Associates(Chars)
        BY Associative
      <3> HIDE DEF y, z
      <3>3. (t \o y) \o z = t \o (y \o z)
        BY <3>1, <3>2, Zenon DEF Associates
      <3> QED
        BY <3>1, <3>3 DEF y, z
    <2>7. Mid(t \o f[i], i)
      BY <2>4, <2>6
    <2> QED
      BY <2>7 DEF i, j
  <1> HIDE DEF P
  <1>9. 0 \in T /\ T \in SUBSET Nat /\ \A k \in T : k + 1 \in T
    BY <1>7, <1>8
  <1> HIDE DEF T
  <1>10. T = Nat
    BY <1>9, NatInduct
  <1>11. P(n - 1) /\ n - 1 + 1 = n /\ n \in 1..n
    <2>1. n - 1 \in Nat /\ n - 1 + 1 = n /\ n \in 1..n
      BY <1>1
    <2> HIDE DEF n
    <2> QED
      BY <1>10, <2>1 DEF T
  <1>12. Mid(t \o f[n], n)
    <2> HIDE DEF Mid, n
    <2> QED
      BY <1>11 DEF P
  <1>13. ~(n < n)
    BY <1>1
  <1> HIDE DEF x
  <1>14. Reads(t \o f[n], rows, x(n - 1), r[n])
    BY <1>12, <1>13
  <1> QED
    BY <1>5, <1>11, <1>14, Zenon DEF c, x

\* Prefixes, and that the rows of a prefix are the first rows of the text.
Extends(s, u) == Len(s) <= Len(u) /\ \A e \in 1..Len(s) : u[e] = s[e]

LEMMA ExtendsAppend ==
    ASSUME NEW C, NEW s \in Seq(C), NEW c \in C
    PROVE  Extends(s, s) /\ Extends(s, Append(s, c))
  <1>1. Len(s) \in Nat
    OBVIOUS
  <1> QED
    BY <1>1, AppendFacts DEF Extends

LEMMA ExtendsConcat ==
    ASSUME NEW C, NEW s \in Seq(C), NEW x \in Seq(C)
    PROVE  Extends(s, s \o x)
  <1>1. /\ Len(s) \in Nat /\ Len(x) \in Nat /\ Len(s \o x) = Len(s) + Len(x)
        /\ \A i \in 1..(Len(s) + Len(x)) : (s \o x)[i] = IF i <= Len(s) THEN s[i] ELSE x[i - Len(s)]
    BY ConcatProperties
  <1> DEFINE y == s \o x
  <1> HIDE DEF y
  <1>2. Len(y) = Len(s) + Len(x) /\ \A i \in 1..Len(s) : y[i] = s[i]
    BY <1>1 DEF y
  <1>3. Extends(s, y)
    BY <1>1, <1>2 DEF Extends
  <1> QED
    BY <1>3 DEF y

LEMMA ExtendsTransitive ==
    ASSUME NEW C, NEW s \in Seq(C), NEW D, NEW u \in Seq(D), NEW E, NEW v \in Seq(E),
           Extends(s, u), Extends(u, v)
    PROVE  Extends(s, v)
  <1>1. Len(s) \in Nat /\ Len(u) \in Nat /\ Len(v) \in Nat
    OBVIOUS
  <1> QED
    BY <1>1 DEF Extends

LEMMA ReferenceIsSeq ==
    ASSUME NEW C, NEW t \in Seq(C)
    PROVE  \E V : ReferenceRows(t) \in Seq(V)
  <1> DEFINE n == Len(t)
             m == n + 1
  <1>1. n \in Nat /\ m \in Nat /\ n < m
    OBVIOUS
  <1>2. ReferenceRows(t) = Along(RowEnds(t), RowsOf(t)) /\ RowEnds(t) \in SUBSET (1..n)
    BY ReferenceIsAlong
  <1> HIDE DEF n, m
  <1> DEFINE S == RowEnds(t)
             F == RowsOf(t)
  <1>3. S \in SUBSET (1..n)
    BY <1>2
  <1> HIDE DEF S, F
  <1>4. \E V : Along(S, F) \in Seq(V)
    BY <1>1, <1>3, AlongGrows, Zenon
  <1> QED
    BY <1>2, <1>4 DEF S, F

LEMMA ReferenceStepExtends ==
    ASSUME NEW C, NEW t \in Seq(C), NEW c \in C
    PROVE  Extends(ReferenceRows(t), ReferenceRows(Append(t, c)))
  <1> DEFINE a == ReferenceRows(t)
             e == RowEndedAt(t, Len(t) + 1)
  <1>1. ReferenceRows(Append(t, c)) = a \/ ReferenceRows(Append(t, c)) = Append(a, e)
    BY ReferenceStep
  <1>2. PICK V : a \in Seq(V)
    BY ReferenceIsSeq
  <1> HIDE DEF a, e
  <1> DEFINE W == V \cup {e}
  <1>3. a \in Seq(W) /\ e \in W
    <2>1. V \subseteq W /\ e \in W
      OBVIOUS
    <2> HIDE DEF W
    <2> QED
      BY <1>2, <2>1, SeqMonotonic
  <1> HIDE DEF W
  <1>4. Extends(a, a) /\ Extends(a, Append(a, e))
    BY <1>3, ExtendsAppend
  <1> QED
    BY <1>1, <1>4, Zenon DEF a

LEMMA ReferenceExtends ==
    ASSUME NEW C, NEW s \in Seq(C), NEW u \in Seq(C), Extends(s, u)
    PROVE  Extends(ReferenceRows(s), ReferenceRows(u))
  <1> DEFINE m == Len(s)
             x(k) == SubSeq(u, 1, m + k)
             P(k) == m + k <= Len(u) => Extends(ReferenceRows(s), ReferenceRows(x(k)))
             T == {k \in Nat : P(k)}
  <1>1. m \in Nat /\ Len(u) \in Nat /\ m <= Len(u) /\ \A e \in 1..m : u[e] = s[e]
    BY DEF Extends
  <1>2. P(0)
    <2>1. SubSeq(u, 1, m) = s
      <3>1. 1 \in 1..(Len(u) + 1) /\ m \in (1 - 1)..Len(u) /\ m - 1 + 1 = m
        BY <1>1
      <3>2. /\ SubSeq(u, 1, m) \in Seq(C) /\ Len(SubSeq(u, 1, m)) = m - 1 + 1
            /\ \A i \in 1..(m - 1 + 1) : SubSeq(u, 1, m)[i] = u[1 + i - 1]
        BY <3>1, SubSeqFacts
      <3>3. \A i \in 1..m : 1 + i - 1 = i
        BY <1>1
      <3>4. \A i \in 1..m : SubSeq(u, 1, m)[i] = s[i]
        BY <1>1, <3>1, <3>2, <3>3
      <3> QED
        BY <3>1, <3>2, <3>4, SeqEqual
    <2>2. m + 0 = m
      BY <1>1
    <2>3. x(0) = s
      BY <2>1, <2>2
    <2>4. PICK V : ReferenceRows(s) \in Seq(V)
      BY ReferenceIsSeq
    <2>5. Extends(ReferenceRows(s), ReferenceRows(s))
      <3>1. Len(ReferenceRows(s)) \in Nat
        BY <2>4
      <3> QED
        BY <3>1 DEF Extends
    <2> HIDE DEF x
    <2> QED
      BY <2>3, <2>5
  <1>3. ASSUME NEW k \in Nat, P(k) PROVE P(k + 1)
    <2> SUFFICES ASSUME m + (k + 1) <= Len(u)
                 PROVE  Extends(ReferenceRows(s), ReferenceRows(x(k + 1)))
      OBVIOUS
    <2> DEFINE j == m + k
               y == x(k)
               c == u[j + 1]
    <2>1. j \in Nat /\ j < Len(u) /\ m + (k + 1) = j + 1 /\ m + k <= Len(u)
      BY <1>1
    <2>2. SubSeq(u, 1, j + 1) = Append(SubSeq(u, 1, j), c) /\ SubSeq(u, 1, j) \in Seq(C) /\ c \in C
      BY <2>1, SubSeqGrows
    <2>3. x(k + 1) = Append(y, c) /\ y \in Seq(C) /\ c \in C
      BY <2>1, <2>2
    <2>4. Extends(ReferenceRows(s), ReferenceRows(y))
      BY <1>3, <2>1
    <2> HIDE DEF y, c, x
    <2>5. Extends(ReferenceRows(y), ReferenceRows(Append(y, c))) /\ Append(y, c) \in Seq(C)
      BY <2>3, ReferenceStepExtends, AppendProperties
    <2>6. /\ \E V : ReferenceRows(s) \in Seq(V)
          /\ \E V : ReferenceRows(y) \in Seq(V)
          /\ \E V : ReferenceRows(Append(y, c)) \in Seq(V)
      BY <2>3, <2>5, ReferenceIsSeq, Zenon
    <2>7. Extends(ReferenceRows(s), ReferenceRows(Append(y, c)))
      BY <2>4, <2>5, <2>6, ExtendsTransitive
    <2> QED
      BY <2>3, <2>7, Zenon
  <1> HIDE DEF P
  <1>4. 0 \in T /\ T \in SUBSET Nat /\ \A k \in T : k + 1 \in T
    BY <1>2, <1>3
  <1> HIDE DEF T
  <1>5. T = Nat
    BY <1>4, NatInduct
  <1> DEFINE d == Len(u) - m
  <1>6. d \in Nat /\ m + d = Len(u) /\ m + d <= Len(u)
    BY <1>1
  <1> HIDE DEF d
  <1>7. P(d)
    BY <1>5, <1>6 DEF T
  <1>8. x(d) = u
    BY <1>6, SubSeqFull
  <1> HIDE DEF x
  <1> QED
    BY <1>6, <1>7, <1>8 DEF P

Row == Seq(Field) \ {<<>>}

EndsLine(t) == Len(t) # 0 /\ t[Len(t)] = "\n"

LEMMA ReadsRow ==
    ASSUME NEW t, NEW rows, Reads(t, rows, <<>>, <<>>), NEW r \in Row
    PROVE  LET u == t \o Append(Join(r, ","), "\n")
           IN  Reads(u, Append(rows, r), <<>>, <<>>) /\ EndsLine(u)
  <1> DEFINE n == Len(r)
             l == Join(r, ",")
             row == SubSeq(r, 1, n - 1)
             f == r[n]
             c == "\n"
  <1>1. r \in Seq(Field) /\ r # <<>>
    BY DEF Row
  <1>2. n \in Nat /\ n # 0
    BY <1>1
  <1>3. l \in Seq(Chars) /\ Reads(t \o l, rows, row, f)
    BY <1>1, ReadsLine, Zenon
  <1>4. Append(row, f) = r /\ f \in Field
    <2> DEFINE j == n - 1
    <2>1. j \in Nat /\ j < Len(r) /\ j + 1 = n
      BY <1>2
    <2> HIDE DEF j
    <2>2. SubSeq(r, 1, j + 1) = Append(SubSeq(r, 1, j), r[j + 1]) /\ r[j + 1] \in Field
      BY <1>1, <2>1, SubSeqGrows
    <2>3. SubSeq(r, 1, n) = r
      BY <1>1, SubSeqFull
    <2> QED
      BY <2>1, <2>2, <2>3 DEF j
  <1>5. t \in Seq(Chars) /\ c \in Chars
    BY CharTypes, Zenon DEF Reads
  <1> HIDE DEF l, row, f
  <1>6. Reads(Append(t \o l, c), Append(rows, r), <<>>, <<>>)
    BY <1>3, <1>4, ReadsSeparator, Zenon DEF Field
  <1> HIDE DEF c
  <1>7. t \o Append(l, c) = Append(t \o l, c)
    BY <1>3, <1>5, ConcatAppend
  <1>8. EndsLine(Append(t \o l, c))
    <2> DEFINE y == t \o l
    <2>1. y \in Seq(Chars)
      BY <1>3, <1>5, ConcatProperties
    <2> HIDE DEF y
    <2>2. Len(Append(y, c)) = Len(y) + 1 /\ Len(y) \in Nat /\ Append(y, c)[Len(y) + 1] = c
      BY <1>5, <2>1, AppendFacts
    <2>3. Len(Append(y, c)) # 0 /\ Append(y, c)[Len(Append(y, c))] = c
      BY <2>2
    <2> QED
      BY <2>3 DEF EndsLine, y, c
  <1> QED
    BY <1>6, <1>7, <1>8, Zenon DEF l, c

\* What saveToFile writes for rows.
Lines(rows) == [i \in DOMAIN rows |-> Join(rows[i], ",")]

LEMMA LinesType ==
    ASSUME NEW rows \in Seq(Row)
    PROVE  /\ Lines(rows) \in Seq(Seq(Chars)) /\ Len(Lines(rows)) = Len(rows)
           /\ \A i \in 1..Len(rows) : Lines(rows)[i] = Join(rows[i], ",")
  <1> DEFINE n == Len(rows)
  <1>1. n \in Nat /\ DOMAIN rows = 1..n
    OBVIOUS
  <1>2. ASSUME NEW i \in 1..n PROVE Join(rows[i], ",") \in Seq(Chars)
    <2>1. rows[i] \in Row
      BY ElementOfSeq
    <2> DEFINE r == rows[i]
    <2>2. r \in Seq(Field) /\ r # <<>>
      BY <2>1 DEF Row
    <2> HIDE DEF r
    <2>3. Join(r, ",") \in Seq(Chars)
      BY <2>2, ReadsNothing, ReadsLine, Zenon
    <2> QED
      BY <2>3, Zenon DEF r
  <1> HIDE DEF n
  <1>3. Lines(rows) = [i \in 1..n |-> Join(rows[i], ",")]
    BY <1>1 DEF Lines
  <1>4. Lines(rows) \in Seq(Seq(Chars)) /\ Len(Lines(rows)) = n
    <2> DEFINE V == Seq(Chars)
               E(i) == Join(rows[i], ",")
    <2>1. Lines(rows) = [i \in 1..n |-> E(i)] /\ \A i \in 1..n : E(i) \in V
      BY <1>2, <1>3, Zenon
    <2> HIDE DEF V, E
    <2>2. Lines(rows) \in Seq(V) /\ Len(Lines(rows)) = n
      BY <1>1, <2>1
    <2> QED
      BY <2>2 DEF V
  <1>5. \A i \in 1..n : Lines(rows)[i] = Join(rows[i], ",")
    BY <1>3, Zenon
  <1> QED
    BY <1>4, <1>5, Zenon DEF n

\* Behind each line end of the file the reference has exactly the rows before it.
LEMMA ReadsFile ==
    ASSUME NEW rows \in Seq(Row), rows # <<>>, NEW f, IsJoin(f, Lines(rows), "\n", Chars)
    PROVE  /\ \A k \in 1..(Len(rows) - 1) :
                  Reads(f[k], SubSeq(rows, 1, k), <<>>, <<>>) /\ EndsLine(f[k])
           /\ IsFiniteSet(NewLines(f[Len(rows)]))
           /\ Cardinality(NewLines(f[Len(rows)])) = Len(rows) - 1
  <1> DEFINE m == Len(rows)
             L == Lines(rows)
             c == "\n"
             x(k) == SubSeq(rows, 1, k)
             Mid(k) == Reads(f[k], x(k), <<>>, <<>>) /\ EndsLine(f[k])
             P(k) == k + 1 \in 1..(m - 1) => Mid(k + 1)
             T == {k \in Nat : P(k)}
  <1>1. m \in Nat /\ m # 0 /\ 1 \in 1..m
    OBVIOUS
  <1>2. Len(L) = m /\ \A i \in 1..m : L[i] = Join(rows[i], ",")
    BY LinesType, Zenon
  <1>3. /\ f[1] = Piece(L, c, 1)
        /\ \A k \in 1..m : k # 1 => f[k] = f[k - 1] \o Piece(L, c, k)
        /\ \A k \in 1..m : f[k] \in Seq(Chars) /\ Piece(L, c, k) \in Seq(Chars)
    BY <1>2, Zenon DEF IsJoin
  <1>4. \A k \in 1..m : rows[k] \in Row
    BY ElementOfSeq
  <1>5. ASSUME NEW k \in 1..(m - 1) PROVE Piece(L, c, k) = Append(Join(rows[k], ","), c)
    <2>1. k \in 1..m /\ k < m
      BY <1>1
    <2> HIDE DEF L, c, m
    <2> QED
      BY <1>2, <2>1, Zenon DEF Piece
  <1>6. Piece(L, c, m) = Join(rows[m], ",")
    <2>1. m \in 1..m /\ ~(m < m)
      BY <1>1
    <2> HIDE DEF L, c, m
    <2> QED
      BY <1>2, <2>1, Zenon DEF Piece
  <1>7. ASSUME NEW k \in 1..(m - 1), NEW t, Reads(t, x(k - 1), <<>>, <<>>)
        PROVE  Reads(t \o Piece(L, c, k), x(k), <<>>, <<>>) /\ EndsLine(t \o Piece(L, c, k))
    <2>1. k \in 1..m
      BY <1>1
    <2>2. Append(x(k - 1), rows[k]) = x(k)
      <3> DEFINE j == k - 1
      <3>1. j \in Nat /\ j < Len(rows) /\ j + 1 = k
        BY <1>1
      <3> HIDE DEF j
      <3>2. SubSeq(rows, 1, j + 1) = Append(SubSeq(rows, 1, j), rows[j + 1])
        BY <3>1, SubSeqGrows
      <3>3. SubSeq(rows, 1, k) = Append(SubSeq(rows, 1, j), rows[k])
        BY <3>1, <3>2
      <3> QED
        BY <3>3 DEF j
    <2> DEFINE a == x(k - 1)
               b == rows[k]
    <2>3. Reads(t, a, <<>>, <<>>) /\ b \in Row
      BY <1>4, <1>7, <2>1
    <2> HIDE DEF a, b, x
    <2>4. LET u == t \o Append(Join(b, ","), "\n")
          IN  Reads(u, Append(a, b), <<>>, <<>>) /\ EndsLine(u)
      BY <2>3, ReadsRow, Zenon
    <2> QED
      BY <1>5, <2>2, <2>4, Zenon DEF a, b
  <1>8. x(0) = <<>>
    OBVIOUS
  <1>9. P(0)
    <2> SUFFICES ASSUME 1 \in 1..(m - 1) PROVE Mid(1)
      OBVIOUS
    <2>1. Reads(<<>>, x(1 - 1), <<>>, <<>>)
      <3>1. x(1 - 1) = <<>>
        OBVIOUS
      <3> HIDE DEF x
      <3> QED
        BY <3>1, ReadsNothing
    <2>2. <<>> \o Piece(L, c, 1) = f[1]
      BY <1>1, <1>3, ConcatEmptySeq
    <2> HIDE DEF x, L, c, m
    <2>3. Reads(<<>> \o Piece(L, c, 1), x(1), <<>>, <<>>) /\ EndsLine(<<>> \o Piece(L, c, 1))
      BY <1>7, <2>1, Zenon
    <2> QED
      BY <2>2, <2>3
  <1>10. ASSUME NEW k \in Nat, P(k) PROVE P(k + 1)
    <2> SUFFICES ASSUME k + 1 + 1 \in 1..(m - 1) PROVE Mid(k + 1 + 1)
      OBVIOUS
    <2> DEFINE j == k + 1
               i == j + 1
    <2>1. j \in 1..(m - 1) /\ i \in 1..m /\ i \in 1..(m - 1) /\ i # 1 /\ i - 1 = j
      BY <1>1
    <2>2. Reads(f[j], x(j), <<>>, <<>>)
      BY <1>10, <2>1
    <2> HIDE DEF x, L, c, m, j
    <2>3. Reads(f[j], x(i - 1), <<>>, <<>>)
      BY <2>1, <2>2
    <2> HIDE DEF i
    <2>4. Reads(f[j] \o Piece(L, c, i), x(i), <<>>, <<>>) /\ EndsLine(f[j] \o Piece(L, c, i))
      BY <1>7, <2>1, <2>3
    <2>5. f[i] = f[j] \o Piece(L, c, i)
      BY <1>3, <2>1
    <2>6. Mid(i)
      BY <2>4, <2>5
    <2> QED
      BY <2>6 DEF i, j
  <1> HIDE DEF P, Mid
  <1>11. 0 \in T /\ T \in SUBSET Nat /\ \A k \in T : k + 1 \in T
    BY <1>9, <1>10
  <1> HIDE DEF T
  <1>12. T = Nat
    BY <1>11, NatInduct, SMTT(20)
  <1>13. ASSUME NEW k \in 1..(m - 1) PROVE Mid(k)
    <2> DEFINE j == k - 1
    <2>1. j \in Nat /\ j + 1 = k
      BY <1>1
    <2> HIDE DEF j
    <2>2. P(j)
      BY <1>12, <2>1 DEF T
    <2> QED
      BY <2>1, <2>2 DEF P
  <1>14. \E t : Reads(t, x(m - 1), <<>>, <<>>) /\ f[m] = t \o Piece(L, c, m)
    <2>1. CASE m = 1
      <3>1. <<>> \o Piece(L, c, 1) = f[1]
        BY <1>1, <1>3, ConcatEmptySeq
      <3>2. x(m - 1) = <<>>
        BY <1>8, <2>1
      <3> HIDE DEF x, L, c, m
      <3>3. Reads(<<>>, x(m - 1), <<>>, <<>>) /\ f[m] = <<>> \o Piece(L, c, m)
        BY <2>1, <3>1, <3>2, ReadsNothing
      <3> QED
        BY <3>3, Zenon
    <2>2. CASE m # 1
      <3> HIDE DEF x, L, c, m
      <3>1. m - 1 \in 1..(m - 1) /\ m \in 1..m
        BY <1>1, <2>2
      <3>2. f[m] = f[m - 1] \o Piece(L, c, m)
        BY <1>3, <2>2, <3>1, Zenon
      <3>3. Reads(f[m - 1], x(m - 1), <<>>, <<>>)
        BY <1>13, <3>1 DEF Mid
      <3> QED
        BY <3>2, <3>3, Zenon
    <2> QED
      BY <2>1, <2>2, Zenon
  <1>15. IsFiniteSet(NewLines(f[m])) /\ Cardinality(NewLines(f[m])) = m - 1
    <2>1. PICK t : Reads(t, x(m - 1), <<>>, <<>>) /\ f[m] = t \o Piece(L, c, m)
      BY <1>14
    <2> DEFINE r == rows[m]
               y == x(m - 1)
    <2>2. r \in Seq(Field) /\ r # <<>>
      BY <1>1, <1>4 DEF Row
    <2>3. Len(y) = m - 1
      <3> DEFINE j == m - 1
      <3>1. 1 \in 1..(Len(rows) + 1) /\ j \in (1 - 1)..Len(rows) /\ j - 1 + 1 = j
        BY <1>1
      <3> HIDE DEF j
      <3>2. Len(SubSeq(rows, 1, j)) = j
        BY <3>1, SubSeqFacts
      <3> QED
        BY <3>2 DEF j
    <2> HIDE DEF x, r, y, m
    <2>4. Reads(t, y, <<>>, <<>>)
      BY <2>1 DEF y
    <2>5. Reads(t \o Join(r, ","), y, SubSeq(r, 1, Len(r) - 1), r[Len(r)])
      BY <2>2, <2>4, ReadsLine, Zenon
    <2>6. f[m] = t \o Join(r, ",")
      BY <1>6, <2>1, Zenon DEF r
    <2> QED
      BY <2>3, <2>5, <2>6, Zenon DEF Reads
  <1> QED
    BY <1>13, <1>15 DEF Mid

LEMMA JoinExtends ==
    ASSUME NEW C, NEW seqs \in Seq(Seq(C)), NEW sep, NEW f, IsJoin(f, seqs, sep, C),
           NEW i \in 1..Len(seqs)
    PROVE  Extends(f[i], f[Len(seqs)])
  <1> DEFINE n == Len(seqs)
             P(k) == i + k <= n => Extends(f[i], f[i + k])
             T == {k \in Nat : P(k)}
  <1>1. n \in Nat /\ i \in 1..n
    OBVIOUS
  <1>2. /\ \A k \in 1..n : k # 1 => f[k] = f[k - 1] \o Piece(seqs, sep, k)
        /\ \A k \in 1..n : f[k] \in Seq(C) /\ Piece(seqs, sep, k) \in Seq(C)
    BY DEF IsJoin
  <1> HIDE DEF n
  <1>3. P(0)
    <2>1. i + 0 = i
      BY <1>1
    <2>2. Len(f[i]) \in Nat
      BY <1>1, <1>2
    <2>3. Extends(f[i], f[i])
      BY <2>2 DEF Extends
    <2> QED
      BY <2>1, <2>3
  <1>4. ASSUME NEW k \in Nat, P(k) PROVE P(k + 1)
    <2> SUFFICES ASSUME i + (k + 1) <= n PROVE Extends(f[i], f[i + (k + 1)])
      OBVIOUS
    <2> DEFINE j == i + k
               h == i + (k + 1)
               x == f[j]
               y == Piece(seqs, sep, h)
    <2>1. j \in 1..n /\ h \in 1..n /\ h # 1 /\ h - 1 = j /\ i + k <= n
      BY <1>1
    <2>2. Extends(f[i], x)
      BY <1>4, <2>1
    <2> HIDE DEF j, h
    <2>3. f[h] = x \o y /\ x \in Seq(C) /\ y \in Seq(C) /\ f[i] \in Seq(C) /\ f[h] \in Seq(C)
      BY <1>1, <1>2, <2>1, SMTT(20)
    <2> HIDE DEF x, y
    <2>4. Extends(x, x \o y)
      BY <2>3, ExtendsConcat
    <2>5. Extends(f[i], f[h])
      BY <2>2, <2>3, <2>4, ExtendsTransitive, Zenon
    <2> QED
      BY <2>5 DEF h
  <1> HIDE DEF P
  <1>5. 0 \in T /\ T \in SUBSET Nat /\ \A k \in T : k + 1 \in T
    BY <1>3, <1>4, SMTT(20)
  <1> HIDE DEF T
  <1>6. T = Nat
    BY <1>5, NatInduct, Zenon
  <1> DEFINE d == n - i
  <1>7. d \in Nat /\ i + d = n /\ i + d <= n
    BY <1>1
  <1> HIDE DEF d
  <1>8. P(d)
    BY <1>6, <1>7 DEF T
  <1> QED
    BY <1>7, <1>8, Zenon DEF P, n
=============================================================================
