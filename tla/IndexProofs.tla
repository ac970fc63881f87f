---------------------------- MODULE IndexProofs -----------------------------
(***************************************************************************)
(* Sets of indices: Min and Max of FiniteSetsExt on sets of naturals, and  *)
(* what Filter picks from a sequence.                                      *)
(***************************************************************************)
EXTENDS Filter, FiniteSetsExt, FiniteSetTheorems, SequenceTheorems, WellFoundedInduction, TLAPS

\* Min of a non-empty set of naturals is its least element.
LEMMA MinIsLeast ==
    ASSUME NEW S, S \subseteq Nat, S # {}
    PROVE  Min(S) \in S /\ \A y \in S : Min(S) <= y
<1>1. PICK x \in S : \A y \in S : ~(<<y, x>> \in OpToRel(<, Nat))
  BY NatLessThanWellFounded, WFMin
<1>2. \A y \in S : ~(y < x)
  BY <1>1, Zenon DEF OpToRel
<1>3. \A y \in S : x <= y
  BY <1>2
<1>4. QED
  BY <1>3 DEF Min

\* Max of a non-empty bounded set of naturals is its greatest element.
LEMMA MaxIsGreatest ==
    ASSUME NEW N \in Nat, NEW S, S \subseteq 0..N, S # {}
    PROVE  Max(S) \in S /\ \A y \in S : y <= Max(S)
<1> DEFINE T == {N - y : y \in S}
<1>1. T \subseteq Nat /\ T # {}
  <2>1. \A y \in S : N - y \in Nat
    OBVIOUS
  <2>2. QED
    BY <2>1
<1>2. PICK x \in S : N - x = Min(T)
  BY <1>1, MinIsLeast
<1>3. ASSUME NEW y \in S PROVE y <= x
  <2>1. N - y \in T
    OBVIOUS
  <2>2. N - x <= N - y
    BY <1>1, <1>2, <2>1, MinIsLeast
  <2>3. x \in Nat /\ y \in Nat
    OBVIOUS
  <2>4. QED
    BY <2>2, <2>3
<1>4. x \in Nat /\ \A y \in S : x >= y
  BY <1>3
<1>5. Max(S) \in S /\ \A y \in S : Max(S) >= y
  BY <1>4 DEF Max
<1>6. QED
  BY <1>5

-----------------------------------------------------------------------------
(***************************************************************************)
(* The nth index of a set.                                                 *)
(***************************************************************************)

\* How many indices of I are at most i.
Rank(I, i) == Cardinality({j \in I : j <= i})

LEMMA RankGrows ==
    ASSUME NEW c \in Nat, NEW I, I \subseteq 1..c
    PROVE  /\ IsFiniteSet(I) /\ Cardinality(I) \in Nat
           /\ \A i \in 1..c : Rank(I, i) \in Nat
           /\ \A i, k \in I : i < k => Rank(I, i) < Rank(I, k)
<1>1. IsFiniteSet(1..c)
  BY FS_Interval
<1>2. IsFiniteSet(I) /\ Cardinality(I) \in Nat
  BY <1>1, FS_Subset, FS_CardinalityType
<1>3. ASSUME NEW i \in 1..c PROVE IsFiniteSet({j \in I : j <= i}) /\ Rank(I, i) \in Nat
  <2> DEFINE A == {j \in I : j <= i}
  <2>1. IsFiniteSet(A)
    BY <1>2, FS_Subset
  <2> HIDE DEF A
  <2>2. Cardinality(A) \in Nat
    BY <2>1, FS_CardinalityType
  <2>3. QED
    BY <2>1, <2>2 DEF A, Rank
<1>4. ASSUME NEW i \in I, NEW k \in I, i < k PROVE Rank(I, i) < Rank(I, k)
  <2> DEFINE A == {j \in I : j <= i}
             B == {j \in I : j <= k}
  <2>0. i \in 1..c /\ k \in 1..c
    OBVIOUS
  <2>1. IsFiniteSet(B) /\ Cardinality(B) \in Nat /\ Cardinality(A) \in Nat
    BY <1>3, <2>0 DEF Rank
  <2>2. A \subseteq B /\ k \in B /\ k \notin A
    <3>1. \A j \in I : j \in Int
      OBVIOUS
    <3>2. \A j \in I : j <= i => j <= k
      BY <1>4, <2>0, <3>1
    <3>3. k <= k /\ ~(k <= i)
      BY <1>4, <2>0
    <3>4. QED
      BY <3>2, <3>3
  <2> HIDE DEF A, B
  <2>3. Cardinality(A) <= Cardinality(B) /\ (Cardinality(B) = Cardinality(A) => B = A)
    BY <2>1, <2>2, FS_Subset
  <2>4. Cardinality(A) < Cardinality(B)
    BY <2>1, <2>2, <2>3
  <2>5. QED
    BY <2>4 DEF A, B, Rank
<1>5. QED
  BY <1>2, <1>3, <1>4

\* Every rank up to the size of the set is some index's.
LEMMA RankOnto ==
    ASSUME NEW c \in Nat, NEW I, I \subseteq 1..c, NEW n \in 1..Cardinality(I)
    PROVE  \E i \in I : Rank(I, i) = n
<1>0. /\ IsFiniteSet(I) /\ Cardinality(I) \in Nat /\ I \subseteq Nat /\ I \subseteq 0..c
      /\ \A i \in I : Rank(I, i) \in Nat
  <2>1. /\ IsFiniteSet(I) /\ Cardinality(I) \in Nat
        /\ \A i \in 1..c : Rank(I, i) \in Nat
    BY RankGrows
  <2>2. I \subseteq Nat /\ I \subseteq 0..c
    OBVIOUS
  <2>3. QED
    BY <2>1, <2>2
<1> DEFINE X == {i \in I : Rank(I, i) >= n}
<1>1. X # {}
  <2>1. I # {}
    BY <1>0, FS_EmptySet
  <2>2. Max(I) \in I /\ \A j \in I : j <= Max(I)
    BY <1>0, <2>1, MaxIsGreatest
  <2>3. {j \in I : j <= Max(I)} = I
    BY <2>2
  <2>4. Rank(I, Max(I)) = Cardinality(I)
    BY <2>3 DEF Rank
  <2>5. QED
    BY <1>0, <2>2, <2>4
<1>2. PICK i \in X : \A k \in X : i <= k
  BY <1>0, <1>1, MinIsLeast
<1>3. Rank(I, i) = n
  <2> SUFFICES ASSUME Rank(I, i) # n PROVE FALSE
    BY <1>2
  <2> DEFINE A == {j \in I : j <= i}
             B == A \ {i}
  <2>1. IsFiniteSet(A) /\ i \in A /\ i \in 1..c
    BY <1>0, <1>2, FS_Subset
  <2>2. Cardinality(B) = Cardinality(A) - 1 /\ IsFiniteSet(B)
    <3> HIDE DEF A
    <3>1. QED
      BY <2>1, FS_RemoveElement
  <2>3. Cardinality(A) > n /\ Cardinality(A) \in Nat
    BY <1>0, <1>2 DEF Rank
  <2>4. Cardinality(B) >= n /\ Cardinality(B) \in Nat /\ Cardinality(B) # 0
    BY <2>2, <2>3
  <2>5. B # {}
    BY <2>4, FS_EmptySet
  <2>6. B \subseteq 0..c
    BY <1>0
  <2>7. PICK y \in B : \A j \in B : j <= y
    <3> HIDE DEF B
    <3>1. QED
      BY <2>5, <2>6, MaxIsGreatest
  <2>8. y \in I /\ y < i
    BY <2>1, <2>7
  <2>9. {j \in I : j <= y} = B
    <3>1. ASSUME NEW j \in I PROVE j <= y <=> j <= i /\ j # i
      <4>1. j \in Nat /\ y \in Nat /\ i \in Nat
        BY <1>0, <2>1, <2>8
      <4>2. j <= i /\ j # i => j <= y
        BY <2>7
      <4>3. QED
        BY <2>8, <4>1, <4>2
    <3>2. QED
      BY <3>1
  <2>10. Rank(I, y) >= n
    BY <2>4, <2>9 DEF Rank
  <2>11. i <= y
    BY <1>2, <2>8, <2>10
  <2>12. QED
    BY <2>1, <2>8, <2>11
<1>4. QED
  BY <1>2, <1>3

\* So NthIndex finds the index of that rank, and only that one.
LEMMA NthIndexIs ==
    ASSUME NEW c \in Nat, NEW I, I \subseteq 1..c, NEW i \in I
    PROVE  NthIndex(I, Rank(I, i)) = i
<1>1. \A k \in I : Rank(I, k) = Rank(I, i) => k = i
  <2>1. \A k \in I : k \in 1..c /\ Rank(I, k) \in Nat
    BY RankGrows
  <2>2. \A k \in I : (k < i => Rank(I, k) < Rank(I, i)) /\ (i < k => Rank(I, i) < Rank(I, k))
    BY RankGrows
  <2>3. QED
    BY <2>1, <2>2
<1>2. QED
  BY <1>1 DEF NthIndex, Rank

LEMMA NthIndexFacts ==
    ASSUME NEW c \in Nat, NEW I, I \subseteq 1..c, NEW n \in 1..Cardinality(I)
    PROVE  NthIndex(I, n) \in I /\ Rank(I, NthIndex(I, n)) = n
<1>1. PICK i \in I : Rank(I, i) = n
  BY RankOnto
<1>2. QED
  BY <1>1, NthIndexIs

\* When the set is the end of the indices, the nth is found by counting.
LEMMA NthIndexOfSuffix ==
    ASSUME NEW c \in Nat, NEW I, I \subseteq 1..c,
           \A i \in I, k \in 1..c : i <= k => k \in I,
           NEW n \in 1..Cardinality(I)
    PROVE  NthIndex(I, n) = c - Cardinality(I) + n
<1>0. I # {} /\ I \subseteq Nat
  <2>1. ASSUME I = {} PROVE FALSE
    BY <2>1, FS_EmptySet
  <2>2. QED
    BY <2>1
<1>1. PICK m \in I : \A i \in I : m <= i
  BY <1>0, MinIsLeast
<1>2. m \in 1..c
  OBVIOUS
<1>3. I = m..c /\ \A i \in I : {j \in I : j <= i} = m..i
  <2>1. I = m..c
    <3>1. \A i \in I : i \in m..c
      BY <1>1, <1>2
    <3>2. \A k \in m..c : k \in 1..c /\ m <= k
      BY <1>2
    <3>3. \A k \in m..c : k \in I
      BY <1>1, <3>2
    <3>4. QED
      BY <3>1, <3>3
  <2>2. QED
    BY <1>2, <2>1
<1>4. Cardinality(I) = c - m + 1
  BY <1>2, <1>3, FS_Interval
<1>5. m - 1 + n \in I /\ Rank(I, m - 1 + n) = n
  <2>1. m - 1 + n \in m..c /\ n \in Nat
    BY <1>2, <1>4
  <2>2. Rank(I, m - 1 + n) = Cardinality(m..(m - 1 + n))
    BY <1>3, <2>1 DEF Rank
  <2>3. Cardinality(m..(m - 1 + n)) = n
    BY <1>2, <2>1, FS_Interval
  <2>4. QED
    BY <1>3, <2>1, <2>2, <2>3
<1>6. NthIndex(I, n) = m - 1 + n
  BY <1>5, NthIndexIs
<1>7. QED
  BY <1>2, <1>4, <1>6

LEMMA AtIndicesType ==
    ASSUME NEW S, NEW s \in Seq(S), NEW I, I \subseteq 1..Len(s)
    PROVE  /\ AtIndices(s, I) \in Seq(S) /\ Len(AtIndices(s, I)) = Cardinality(I)
           /\ Cardinality(I) \in Nat
           /\ \A n \in 1..Cardinality(I) : AtIndices(s, I)[n] = s[NthIndex(I, n)]
<1>0. Len(s) \in Nat
  OBVIOUS
<1>1. Len(s) \in Nat /\ Cardinality(I) \in Nat
  BY <1>0, RankGrows
<1>2. \A n \in 1..Cardinality(I) : s[NthIndex(I, n)] \in S
  BY <1>1, NthIndexFacts, ElementOfSeq
<1>3. AtIndices(s, I) \in [1..Cardinality(I) -> S]
  BY <1>2 DEF AtIndices
<1>4. AtIndices(s, I) \in Seq(S)
  BY <1>1, <1>3, SeqDef
<1>5. Len(AtIndices(s, I)) = Cardinality(I)
  BY <1>1, <1>3, <1>4, LenProperties
<1>6. QED
  BY <1>1, <1>4, <1>5 DEF AtIndices

\* The sequence t begins as s does.
Begins(t, s) == Len(s) <= Len(t) /\ \A i \in 1..Len(s) : s[i] = t[i]

\* A longer sequence, and a set that has more indices at its end only: what is
\* picked begins with what was picked before.
LEMMA AtIndicesPrefix ==
    ASSUME NEW S, NEW s \in Seq(S), NEW t \in Seq(S), Begins(t, s),
           NEW J, J \subseteq 1..Len(t), NEW I, I \subseteq J, I \subseteq 1..Len(s),
           \A j \in J : j <= Len(s) => j \in I
    PROVE  Begins(AtIndices(t, J), AtIndices(s, I))
<1>0. /\ Len(s) \in Nat /\ Len(t) \in Nat /\ Len(s) <= Len(t)
      /\ \A i \in I : i \in 1..Len(s) /\ i <= Len(s)
  BY DEF Begins
<1>1. Cardinality(I) <= Cardinality(J) /\ Cardinality(I) \in Nat /\ Cardinality(J) \in Nat
  <2>1. IsFiniteSet(J) /\ Cardinality(J) \in Nat /\ Cardinality(I) \in Nat
    BY <1>0, RankGrows
  <2>2. Cardinality(I) <= Cardinality(J)
    BY <1>0, <2>1, FS_Subset
  <2>3. QED
    BY <2>1, <2>2
<1>2. Len(AtIndices(s, I)) = Cardinality(I) /\ Len(AtIndices(t, J)) = Cardinality(J)
  <2>1. Len(AtIndices(s, I)) = Cardinality(I)
    BY AtIndicesType
  <2>2. Len(AtIndices(t, J)) = Cardinality(J)
    BY AtIndicesType
  <2>3. QED
    BY <2>1, <2>2
<1>3. ASSUME NEW n \in 1..Cardinality(I)
      PROVE  NthIndex(I, n) \in 1..Len(s) /\ NthIndex(J, n) = NthIndex(I, n)
  <2>1. PICK i \in I : Rank(I, i) = n
    BY <1>0, RankOnto
  <2>2. {j \in I : j <= i} = {j \in J : j <= i}
    <3>1. \A j \in J : j <= i => j <= Len(s)
      BY <1>0
    <3>2. QED
      BY <1>0, <3>1
  <2>3. Rank(J, i) = n /\ i \in J
    BY <1>0, <2>1, <2>2 DEF Rank
  <2>4. NthIndex(I, n) = i
    BY <1>0, <2>1, NthIndexIs
  <2>5. NthIndex(J, n) = i
    BY <1>0, <2>3, NthIndexIs
  <2>6. QED
    BY <1>0, <2>4, <2>5
<1>4. ASSUME NEW n \in 1..Cardinality(I) PROVE AtIndices(s, I)[n] = AtIndices(t, J)[n]
  <2>1. n \in 1..Cardinality(J)
    BY <1>1
  <2>2. s[NthIndex(I, n)] = t[NthIndex(J, n)]
    BY <1>3 DEF Begins
  <2>3. AtIndices(s, I)[n] = s[NthIndex(I, n)]
    BY DEF AtIndices
  <2>4. AtIndices(t, J)[n] = t[NthIndex(J, n)]
    BY <2>1 DEF AtIndices
  <2>5. QED
    BY <2>2, <2>3, <2>4
<1>5. QED
  BY <1>1, <1>2, <1>4 DEF Begins
=============================================================================
