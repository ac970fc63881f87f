-------------------------- MODULE BufferPoolProofs --------------------------
(***************************************************************************)
(* Theorems about BufferPool, for any number of clients, frames and pages: *)
(* what holds in every state, whichever calls meet.  What holds until two  *)
(* of them race is in BufferPoolSoundProofs.                               *)
(***************************************************************************)
EXTENDS BufferPool, SequenceTheorems, FiniteSetTheorems, TLAPS

-----------------------------------------------------------------------------
(***************************************************************************)
(* The pool's two lists of frames, for every list: which frames are in a   *)
(* list after an operation, none of them twice.                            *)
(***************************************************************************)

\* A concatenation repeats nothing when neither part does and they share nothing.
LEMMA ListsDisjoint ==
    ASSUME NEW S, NEW s \in Seq(S), NEW t \in Seq(S)
    PROVE  IsInjective(s \o t) <=>
               /\ IsInjective(s) /\ IsInjective(t)
               /\ \A f : ~(Contains(s, f) /\ Contains(t, f))
<1> DEFINE u == s \o t
<1>1. /\ Len(s) \in Nat /\ DOMAIN s = 1..Len(s)
      /\ Len(t) \in Nat /\ DOMAIN t = 1..Len(t)
      /\ u \in Seq(S) /\ Len(u) = Len(s) + Len(t)
      /\ DOMAIN u = 1..(Len(s) + Len(t))
      /\ \A i \in 1..Len(s) : u[i] = s[i]
      /\ \A i \in 1..Len(t) : u[Len(s) + i] = t[i]
  BY LenProperties, ConcatProperties
<1>2. ASSUME IsInjective(u)
      PROVE  /\ IsInjective(s) /\ IsInjective(t)
             /\ \A f : ~(Contains(s, f) /\ Contains(t, f))
  <2>1. \A i, j \in 1..(Len(s) + Len(t)) : u[i] = u[j] => i = j
    BY <1>1, <1>2 DEF IsInjective
  <2>2. \A i, j \in 1..Len(s) : s[i] = s[j] => i = j
    BY <1>1, <2>1
  <2>3. \A i, j \in 1..Len(t) : t[i] = t[j] => i = j
    <3> SUFFICES ASSUME NEW i \in 1..Len(t), NEW j \in 1..Len(t), t[i] = t[j]
                 PROVE  i = j
      OBVIOUS
    <3>1. Len(s) + i \in 1..(Len(s) + Len(t)) /\ Len(s) + j \in 1..(Len(s) + Len(t))
      BY <1>1
    <3>2. u[Len(s) + i] = u[Len(s) + j]
      BY <1>1
    <3>3. QED
      BY <1>1, <2>1, <3>1, <3>2
  <2>4. \A i \in 1..Len(s), j \in 1..Len(t) : s[i] # t[j]
    <3> SUFFICES ASSUME NEW i \in 1..Len(s), NEW j \in 1..Len(t), s[i] = t[j]
                 PROVE  FALSE
      OBVIOUS
    <3>1. i \in 1..(Len(s) + Len(t)) /\ Len(s) + j \in 1..(Len(s) + Len(t)) /\ i # Len(s) + j
      BY <1>1
    <3>2. u[i] = u[Len(s) + j]
      BY <1>1
    <3>3. QED
      BY <2>1, <3>1, <3>2
  <2>5. QED
    BY <1>1, <2>2, <2>3, <2>4 DEF IsInjective, Contains
<1>3. ASSUME IsInjective(s), IsInjective(t), \A f : ~(Contains(s, f) /\ Contains(t, f))
      PROVE  IsInjective(u)
  <2>1. \A i, j \in 1..Len(s) : s[i] = s[j] => i = j
    BY <1>1, <1>3 DEF IsInjective
  <2>2. \A i, j \in 1..Len(t) : t[i] = t[j] => i = j
    BY <1>1, <1>3 DEF IsInjective
  <2>3. \A i \in 1..Len(s), j \in 1..Len(t) : s[i] # t[j]
    BY <1>3 DEF Contains
  <2> SUFFICES ASSUME NEW i \in 1..(Len(s) + Len(t)), NEW j \in 1..(Len(s) + Len(t)), u[i] = u[j]
               PROVE  i = j
    BY <1>1 DEF IsInjective
  <2>4. \A k \in 1..(Len(s) + Len(t)) :
            \/ k \in 1..Len(s) /\ u[k] = s[k]
            \/ k - Len(s) \in 1..Len(t) /\ u[k] = t[k - Len(s)]
    <3> SUFFICES ASSUME NEW k \in 1..(Len(s) + Len(t)), k \notin 1..Len(s)
                 PROVE  k - Len(s) \in 1..Len(t) /\ u[k] = t[k - Len(s)]
      BY <1>1
    <3>1. k - Len(s) \in 1..Len(t) /\ Len(s) + (k - Len(s)) = k
      BY <1>1
    <3>2. QED
      BY <1>1, <3>1
  <2>5. CASE i \in 1..Len(s) /\ u[i] = s[i]
    BY <2>1, <2>3, <2>4, <2>5
  <2>6. CASE i - Len(s) \in 1..Len(t) /\ u[i] = t[i - Len(s)]
    <3>1. CASE j \in 1..Len(s) /\ u[j] = s[j]
      BY <2>3, <2>6, <3>1
    <3>2. CASE j - Len(s) \in 1..Len(t) /\ u[j] = t[j - Len(s)]
      <4>1. i - Len(s) = j - Len(s)
        BY <2>2, <2>6, <3>2
      <4>2. QED
        BY <1>1, <4>1
    <3>3. QED
      BY <2>4, <3>1, <3>2
  <2>7. QED
    BY <2>4, <2>5, <2>6
<1>4. QED
  BY <1>2, <1>3

\* Pin takes the frame, and nothing else, out of the list.
LEMMA PinRemoves ==
    ASSUME NEW S, NEW s \in Seq(S), IsInjective(s), NEW f
    PROVE  /\ AfterPin(s, f) \in Seq(S)
           /\ IsInjective(AfterPin(s, f))
           /\ \A g : Contains(AfterPin(s, f), g) <=> Contains(s, g) /\ g # f
<1>1. CASE ~Contains(s, f)
  BY <1>1 DEF AfterPin
<1>2. CASE Contains(s, f)
  <2> DEFINE i == Place(s, f)
             a == SubSeq(s, 1, i - 1)
             b == SubSeq(s, i + 1, Len(s))
             r == a \o b
  <2>1. i \in 1..Len(s) /\ s[i] = f
    BY <1>2 DEF Contains, Place
  <2>2. Len(s) \in Nat /\ DOMAIN s = 1..Len(s) /\ \A j \in 1..Len(s) : s[j] \in S
    BY LenProperties, ElementOfSeq
  <2>3. AfterPin(s, f) = r
    BY <1>2 DEF AfterPin, RemoveAt
  <2> HIDE DEF i
  <2>4. a \in Seq(S) /\ Len(a) = i - 1 /\ \A j \in 1..(i - 1) : a[j] = s[j]
    <3>1. \A j \in 1..(i - 1) : s[j] \in S
      BY <2>1, <2>2
    <3>2. /\ a \in Seq(S) /\ Len(a) = IF 1 <= i - 1 THEN i - 1 - 1 + 1 ELSE 0
          /\ \A j \in 1..(i - 1 - 1 + 1) : a[j] = s[1 + j - 1]
      BY <2>1, <2>2, <3>1, SubSeqProperties
    <3>3. i \in Int /\ i >= 1
      BY <2>1
    <3>4. Len(a) = i - 1
      BY <3>2, <3>3
    <3>5. ASSUME NEW j \in 1..(i - 1) PROVE a[j] = s[j]
      <4>1. j \in 1..(i - 1 - 1 + 1) /\ 1 + j - 1 = j
        BY <3>3
      <4>2. QED
        BY <3>2, <4>1
    <3>6. QED
      BY <3>2, <3>4, <3>5
  <2>5. b \in Seq(S) /\ Len(b) = Len(s) - i /\ \A j \in 1..(Len(s) - i) : b[j] = s[i + j]
    <3>1. \A j \in (i + 1)..Len(s) : s[j] \in S
      BY <2>1, <2>2
    <3>2. /\ b \in Seq(S) /\ Len(b) = IF i + 1 <= Len(s) THEN Len(s) - (i + 1) + 1 ELSE 0
          /\ \A j \in 1..(Len(s) - (i + 1) + 1) : b[j] = s[(i + 1) + j - 1]
      BY <2>1, <2>2, <3>1, SubSeqProperties
    <3>3. i \in Int /\ i >= 1 /\ i <= Len(s) /\ Len(s) \in Nat
      BY <2>1, <2>2
    <3>4. Len(b) = Len(s) - i
      BY <3>2, <3>3
    <3>5. ASSUME NEW j \in 1..(Len(s) - i) PROVE b[j] = s[i + j]
      <4>1. j \in 1..(Len(s) - (i + 1) + 1) /\ (i + 1) + j - 1 = i + j
        BY <3>3
      <4>2. QED
        BY <3>2, <4>1
    <3>6. QED
      BY <3>2, <3>4, <3>5
  <2> HIDE DEF a, b
  <2>6. /\ r \in Seq(S) /\ Len(r) = Len(s) - 1
        /\ \A j \in 1..(Len(s) - 1) : r[j] = IF j < i THEN s[j] ELSE s[j + 1]
    <3>1. /\ r \in Seq(S) /\ Len(r) = Len(a) + Len(b)
          /\ \A j \in 1..(Len(a) + Len(b)) : r[j] = IF j <= Len(a) THEN a[j] ELSE b[j - Len(a)]
      BY <2>4, <2>5, ConcatProperties
    <3>2. i \in Int /\ i >= 1 /\ i <= Len(s) /\ Len(s) \in Nat
      BY <2>1, <2>2
    <3>3. Len(a) + Len(b) = Len(s) - 1
      BY <2>4, <2>5, <3>2
    <3>4. ASSUME NEW j \in 1..(Len(s) - 1)
          PROVE  r[j] = IF j < i THEN s[j] ELSE s[j + 1]
      <4>1. r[j] = IF j <= Len(a) THEN a[j] ELSE b[j - Len(a)]
        BY <3>1, <3>3
      <4>2. CASE j < i
        <5>1. j \in 1..(i - 1) /\ j <= Len(a)
          BY <2>4, <3>2, <4>2
        <5>2. QED
          BY <2>4, <4>1, <4>2, <5>1
      <4>3. CASE ~(j < i)
        <5>1. /\ ~(j <= Len(a)) /\ j - Len(a) \in 1..(Len(s) - i)
              /\ i + (j - Len(a)) = j + 1
          BY <2>4, <3>2, <4>3
        <5>2. b[j - Len(a)] = s[i + (j - Len(a))]
          BY <2>5, <5>1
        <5>3. QED
          BY <4>1, <4>3, <5>1, <5>2
      <4>4. QED
        BY <4>2, <4>3
    <3>5. QED
      BY <3>1, <3>3, <3>4
  <2>7. DOMAIN r = 1..(Len(s) - 1)
    BY <2>6, LenProperties
  <2> HIDE DEF r
  <2>8. \A j, k \in 1..Len(s) : s[j] = s[k] => j = k
    BY <2>2 DEF IsInjective
  <2>9. \A j, k \in 1..(Len(s) - 1) : r[j] = r[k] => j = k
    BY <2>1, <2>2, <2>6, <2>8
  <2>10. ASSUME NEW g, Contains(r, g) PROVE Contains(s, g) /\ g # f
    <3>1. PICK j \in 1..(Len(s) - 1) : r[j] = g
      BY <2>6, <2>10 DEF Contains
    <3>2. CASE j < i
      BY <2>1, <2>2, <2>6, <2>8, <3>1, <3>2 DEF Contains
    <3>3. CASE ~(j < i)
      <4>1. j + 1 \in 1..Len(s) /\ s[j + 1] = g /\ j + 1 # i
        BY <2>1, <2>2, <2>6, <3>1, <3>3
      <4>2. QED
        BY <2>1, <2>8, <4>1 DEF Contains
    <3>4. QED
      BY <3>2, <3>3
  <2>11. ASSUME NEW g, Contains(s, g), g # f PROVE Contains(r, g)
    <3>1. PICK j \in 1..Len(s) : s[j] = g
      BY <2>11 DEF Contains
    <3>2. CASE j < i
      <4>1. j \in 1..(Len(s) - 1) /\ r[j] = g
        BY <2>1, <2>2, <2>6, <3>1, <3>2
      <4>2. QED
        BY <2>6, <4>1 DEF Contains
    <3>3. CASE ~(j < i)
      <4>1. j # i
        BY <2>1, <2>11, <3>1
      <4>2. j - 1 \in 1..(Len(s) - 1) /\ ~(j - 1 < i) /\ (j - 1) + 1 = j
        BY <2>1, <2>2, <3>3, <4>1
      <4>3. r[j - 1] = g
        BY <2>6, <3>1, <4>2
      <4>4. QED
        BY <2>6, <4>2, <4>3 DEF Contains
    <3>4. QED
      BY <3>2, <3>3
  <2>12. QED
    BY <2>3, <2>6, <2>7, <2>9, <2>10, <2>11 DEF IsInjective
<1>3. QED
  BY <1>1, <1>2

\* The front of a list lacks only its last frame.
LEMMA FrontDropsLast ==
    ASSUME NEW S, NEW s \in Seq(S), s # <<>>, IsInjective(s)
    PROVE  /\ Front(s) \in Seq(S)
           /\ IsInjective(Front(s))
           /\ Last(s) \in S /\ Contains(s, Last(s))
           /\ \A g : Contains(Front(s), g) <=> Contains(s, g) /\ g # Last(s)
<1> DEFINE n == Len(s)
           r == Front(s)
<1>1. /\ n \in Nat /\ n > 0 /\ DOMAIN s = 1..n
      /\ \A j \in 1..n : s[j] \in S
      /\ \A j, k \in 1..n : s[j] = s[k] => j = k
  BY LenProperties, EmptySeq, ElementOfSeq DEF IsInjective
<1>2. r \in Seq(S) /\ Len(r) = n - 1 /\ \A j \in 1..(n - 1) : r[j] = s[j]
  <2>1. \A j \in 1..(n - 1) : s[j] \in S
    BY <1>1
  <2>2. /\ r \in Seq(S) /\ Len(r) = IF 1 <= n - 1 THEN n - 1 - 1 + 1 ELSE 0
        /\ \A j \in 1..(n - 1 - 1 + 1) : r[j] = s[1 + j - 1]
    BY <1>1, <2>1, SubSeqProperties DEF Front
  <2> HIDE DEF n, r
  <2>3. n - 1 - 1 + 1 = n - 1 /\ Len(r) = n - 1
    BY <1>1, <2>2
  <2>4. \A j \in 1..(n - 1) : 1 + j - 1 = j
    BY <1>1
  <2>5. QED
    BY <2>2, <2>3, <2>4
<1>3. DOMAIN r = 1..(n - 1)
  BY <1>2, LenProperties
<1>4. Last(s) = s[n] /\ n \in 1..n
  BY <1>1 DEF Last
<1>5. IsInjective(r)
  BY <1>1, <1>2, <1>3 DEF IsInjective
<1>6. ASSUME NEW g PROVE Contains(r, g) <=> Contains(s, g) /\ g # s[n]
  <2>1. Contains(r, g) <=> \E j \in 1..(n - 1) : s[j] = g
    BY <1>2 DEF Contains
  <2>2. Contains(s, g) <=> \E j \in 1..n : s[j] = g
    BY DEF Contains
  <2>3. QED
    BY <1>1, <2>1, <2>2
<1>7. QED
  BY <1>1, <1>2, <1>4, <1>5, <1>6 DEF Contains

\* A free frame taken is the head of the list, and only it is gone.
LEMMA TailDropsHead ==
    ASSUME NEW S, NEW s \in Seq(S), s # <<>>, IsInjective(s)
    PROVE  /\ Tail(s) \in Seq(S)
           /\ IsInjective(Tail(s))
           /\ Head(s) \in S /\ Contains(s, Head(s))
           /\ \A g : Contains(Tail(s), g) <=> Contains(s, g) /\ g # Head(s)
<1> DEFINE n == Len(s)
           r == Tail(s)
<1>1. /\ n \in Nat /\ n > 0 /\ DOMAIN s = 1..n
      /\ \A j, k \in 1..n : s[j] = s[k] => j = k
  BY LenProperties, EmptySeq DEF IsInjective
<1>2. /\ r \in Seq(S) /\ Len(r) = n - 1 /\ \A j \in 1..(n - 1) : r[j] = s[j + 1]
      /\ Head(s) \in S
  BY HeadTailProperties
<1>3. DOMAIN r = 1..(n - 1)
  BY <1>2, LenProperties
<1>4. Head(s) = s[1] /\ 1 \in 1..n
  BY <1>1
<1>5. IsInjective(r)
  BY <1>1, <1>2, <1>3 DEF IsInjective
<1>6. ASSUME NEW g PROVE Contains(r, g) <=> Contains(s, g) /\ g # s[1]
  <2>1. Contains(r, g) <=> \E j \in 1..(n - 1) : s[j + 1] = g
    BY <1>2 DEF Contains
  <2>2. (\E j \in 1..(n - 1) : s[j + 1] = g) <=> (\E j \in 2..n : s[j] = g)
    <3> HIDE DEF n
    <3>1. \A j \in 2..n : j - 1 \in 1..(n - 1) /\ (j - 1) + 1 = j
      BY <1>1
    <3>2. \A j \in 1..(n - 1) : j + 1 \in 2..n
      BY <1>1
    <3>3. QED
      BY <3>1, <3>2
  <2>3. Contains(s, g) <=> \E j \in 1..n : s[j] = g
    BY DEF Contains
  <2>4. QED
    BY <1>1, <2>1, <2>2, <2>3
<1>7. QED
  BY <1>1, <1>2, <1>4, <1>5, <1>6 DEF Contains

\* Unpin may put the frame in the list and may push one out of it.
LEMMA UnpinAdds ==
    ASSUME NEW S, NEW s \in Seq(S), IsInjective(s), NEW f \in S, NEW capacity \in Nat \ {0}
    PROVE  /\ AfterUnpin(s, f, capacity) \in Seq(S)
           /\ IsInjective(AfterUnpin(s, f, capacity))
           /\ \A g : Contains(AfterUnpin(s, f, capacity), g) => Contains(s, g) \/ g = f
           /\ Len(s) < capacity \/ Contains(s, f) =>
                  \A g : Contains(AfterUnpin(s, f, capacity), g) <=> Contains(s, g) \/ g = f
<1> DEFINE t == IF Len(s) >= capacity THEN Front(s) ELSE s
<1>1. CASE Contains(s, f)
  BY <1>1 DEF AfterUnpin
<1>2. CASE ~Contains(s, f)
  <2>1. t \in Seq(S) /\ IsInjective(t) /\ \A g : Contains(t, g) => Contains(s, g)
    <3>1. Len(s) >= capacity => s # <<>>
      BY EmptySeq, LenProperties
    <3>2. QED
      BY <3>1, FrontDropsLast
  <2> HIDE DEF t
  <2>2. AfterUnpin(s, f, capacity) = <<f>> \o t
    BY <1>2 DEF AfterUnpin, t
  <2>3. /\ <<f>> \in Seq(S) /\ IsInjective(<<f>>)
        /\ \A g : Contains(<<f>>, g) <=> g = f
    BY DEF IsInjective, Contains
  <2>4. IsInjective(<<f>> \o t)
    BY <1>2, <2>1, <2>3, ListsDisjoint
  <2>5. <<f>> \o t \in Seq(S)
    BY <2>1, <2>3, ConcatProperties
  <2>6. \A g : Contains(<<f>> \o t, g) => Contains(t, g) \/ g = f
    <3> SUFFICES ASSUME NEW g, Contains(<<f>> \o t, g), g # f
                 PROVE  Contains(t, g)
      OBVIOUS
    <3>1. /\ Len(<<f>> \o t) = 1 + Len(t) /\ Len(t) \in Nat
          /\ \A i \in 1..(1 + Len(t)) : (<<f>> \o t)[i] = IF i <= 1 THEN f ELSE t[i - 1]
      BY <2>1, <2>3, ConcatProperties, LenProperties
    <3>2. PICK i \in 1..(1 + Len(t)) : (<<f>> \o t)[i] = g
      BY <3>1 DEF Contains
    <3>3. i - 1 \in 1..Len(t) /\ t[i - 1] = g
      BY <3>1, <3>2
    <3>4. QED
      BY <3>3 DEF Contains
  <2>7. ASSUME Len(s) < capacity, NEW g, Contains(s, g) \/ g = f
        PROVE  Contains(<<f>> \o t, g)
    <3>1. t = s
      BY <2>7, LenProperties DEF t
    <3>2. /\ Len(<<f>> \o s) = 1 + Len(s) /\ Len(s) \in Nat
          /\ \A i \in 1..(1 + Len(s)) : (<<f>> \o s)[i] = IF i <= 1 THEN f ELSE s[i - 1]
      BY <2>3, ConcatProperties, LenProperties
    <3>3. CASE g = f
      BY <3>1, <3>2, <3>3 DEF Contains
    <3>4. CASE Contains(s, g)
      <4>1. PICK i \in 1..Len(s) : s[i] = g
        BY <3>4 DEF Contains
      <4>2. i + 1 \in 1..(1 + Len(s)) /\ (<<f>> \o s)[i + 1] = g
        BY <3>2, <4>1
      <4>3. QED
        BY <3>1, <3>2, <4>2 DEF Contains
    <3>5. QED
      BY <2>7, <3>3, <3>4
  <2>8. QED
    BY <1>2, <2>1, <2>2, <2>4, <2>5, <2>6, <2>7
<1>3. QED
  BY <1>1, <1>2

\* A list without repetitions that lacks a frame is shorter than the pool.
LEMMA RoomForOne ==
    ASSUME NEW n \in Nat, NEW s \in Seq(0..(n - 1)), IsInjective(s),
           NEW f \in 0..(n - 1), ~Contains(s, f)
    PROVE  Len(s) < n
<1> DEFINE all == 0..(n - 1)
           rest == all \ {f}
<1>1. Len(s) \in Nat /\ DOMAIN s = 1..Len(s) /\ s \in [1..Len(s) -> all]
  BY LenProperties
<1>2. s \in Injection(1..Len(s), rest)
  BY <1>1 DEF Contains, Injection
<1>3. IsFiniteSet(all) /\ Cardinality(all) = n
  BY FS_Interval
<1>4. IsFiniteSet(rest) /\ Cardinality(rest) = n - 1
  <2> HIDE DEF all
  <2>1. f \in all
    BY DEF all
  <2>2. /\ IsFiniteSet(all \ {f})
        /\ Cardinality(all \ {f}) = IF f \in all THEN Cardinality(all) - 1 ELSE Cardinality(all)
    BY <1>3, FS_RemoveElement
  <2>3. QED
    BY <1>3, <2>1, <2>2
<1>5. Cardinality(1..Len(s)) <= Cardinality(rest)
  BY <1>2, <1>4, FS_Injection
<1>6. \A m \in Nat : Cardinality(1..m) = m
  BY FS_Interval
<1>7. QED
  BY <1>1, <1>4, <1>5, <1>6

-----------------------------------------------------------------------------
(***************************************************************************)
(* What holds in every state.                                              *)
(***************************************************************************)

\* Calls that have taken a frame, and have not yet published it.
Loads(c) == call[c].at \in {"write", "reset", "fill", "publish"}

\* What a call has to have, by the section that comes next, and its caller.
CallFormed(r, h) ==
    /\ r.op = "idle" => r = Idle
    /\ r.at = "" => r = Idle
    /\ r.at \notin {"", "scan"} => r.page \in Page /\ r.frame \in Frame
    /\ r.at \in {"write", "reset", "fill", "publish"} => r.op \in {"fetch", "new"}
    /\ r.op \in {"fetch", "new"} => h = NoHold
    /\ r.at \in {"asleep", "awake"} => r.op \in {"fetch", "unpin", "flush"}
    /\ r.at \in {"count", "release"} => r.op = "unpin"
    /\ r.at = "force" => r.op = "flush"
    /\ r.at = "scan" => r.op = "flushAll"

HoldFormed(h) == h # NoHold => h.page \in Page /\ h.frame \in Frame

CallsFormed == \A c \in Client : CallFormed(call[c], hold[c]) /\ HoldFormed(hold[c])

\* Frames that FindFreeFrame may take.
Listed(f) == Contains(freeList, f) \/ Contains(lru, f)

\* A free frame is in no one's hands.
FreeUnused ==
    \A f \in Frame : Contains(freeList, f) =>
        /\ ~Contains(lru, f)
        /\ \A p \in Page : table[p] # f
        /\ \A c \in Client : call[c].frame # f

TypeInv == TypeOK /\ CallsFormed /\ FreeUnused

\* The file grows to the pages that were allocated, and no others are written.
FileEnd ==
    /\ \A p \in MissingPages : numPages <= p
    /\ \A p \in Page : numPages <= p => disk[p] = Zeros

FileInv ==
    /\ FileEnd
    /\ \A f \in Frame : pageId[f] < numPages
    /\ \A c \in Client : call[c].op = "new" => call[c].page < numPages

-----------------------------------------------------------------------------
(***************************************************************************)
(* The types.                                                              *)
(***************************************************************************)

LEMMA Constants ==
    /\ PoolSize \in Nat \ {0} /\ MaxPages \in Nat /\ MaxVersion \in Nat
    /\ IsFiniteSet(Client) /\ MissingPages \subseteq Page /\ WrittenPages \subseteq Page
    /\ Page = 0..(MaxPages - 1) /\ Frame = 0..(PoolSize - 1)
    /\ NoPage \notin Page /\ NoFrame \notin Frame
  BY PoolSizeAssumption, MaxPagesAssumption, BoundAssumption, ClientAssumption,
     PagesAssumption DEF Page, Frame, NoPage, NoFrame

LEMMA RecordTypes ==
    /\ Idle \in CallRecord /\ NoHold \in HoldRecord
    /\ Idle.op = "idle" /\ Idle.at = "" /\ Idle.page = NoPage /\ Idle.frame = NoFrame
    /\ NoHold.page = NoPage /\ NoHold.frame = NoFrame /\ NoHold.wrote = FALSE
    /\ \A h : CallFormed(Idle, h)
    /\ HoldFormed(NoHold)
  BY DEF Idle, NoHold, CallRecord, HoldRecord, CallFormed, HoldFormed

\* The next section of a call: only `at` is changed.
LEMMA CallAt ==
    ASSUME NEW r \in CallRecord,
           NEW a \in {"asleep", "awake", "write", "reset", "fill", "publish",
                      "count", "release", "force", "scan"}
    PROVE  /\ [r EXCEPT !.at = a] \in CallRecord
           /\ [r EXCEPT !.at = a].at = a
           /\ [r EXCEPT !.at = a].op = r.op
           /\ [r EXCEPT !.at = a].page = r.page
           /\ [r EXCEPT !.at = a].frame = r.frame
  BY DEF CallRecord

\* A call that begins, or goes on from a lookup.
LEMMA CallingTyped ==
    ASSUME NEW op \in {"fetch", "new", "unpin", "flush"},
           NEW at \in {"asleep", "awake", "write", "reset", "fill", "publish",
                       "count", "release", "force"},
           NEW p \in Page, NEW f \in Frame
    PROVE  /\ Calling(op, at, p, f) \in CallRecord
           /\ Calling(op, at, p, f).op = op
           /\ Calling(op, at, p, f).at = at
           /\ Calling(op, at, p, f).page = p
           /\ Calling(op, at, p, f).frame = f
  BY DEF Calling, CallRecord

\* A step that changes nothing but one client's call.
LEMMA OnlyCallTyped ==
    ASSUME TypeInv, NEW c \in Client, NEW r \in CallRecord,
           call' = [call EXCEPT ![c] = r],
           CallFormed(r, hold[c]),
           \A f \in Frame : Contains(freeList, f) => r.frame # f,
           UNCHANGED <<frameVars, poolVars, diskVars, hold, latest>>, raced' \in BOOLEAN
    PROVE  TypeInv'
<1>1. TypeOK'
  BY DEF TypeInv, TypeOK, frameVars, poolVars, diskVars
<1>2. \A d \in Client : call'[d] = IF d = c THEN r ELSE call[d]
  BY DEF TypeInv, TypeOK
<1>3. CallsFormed'
  BY <1>2 DEF TypeInv, CallsFormed
<1>4. FreeUnused'
  BY <1>2 DEF TypeInv, FreeUnused, poolVars
<1>5. QED
  BY <1>1, <1>3, <1>4 DEF TypeInv

\* Facts about a client's call and page, from TypeInv.
LEMMA Typed ==
    ASSUME TypeInv, NEW c \in Client
    PROVE  /\ call[c] \in CallRecord /\ hold[c] \in HoldRecord
           /\ CallFormed(call[c], hold[c]) /\ HoldFormed(hold[c])
           /\ \A f \in Frame : Contains(freeList, f) => call[c].frame # f
  BY DEF TypeInv, TypeOK, CallsFormed, FreeUnused

LEMMA SleepTyped ==
    ASSUME TypeInv, NEW c \in Client, NEW p \in Page, NEW op \in {"fetch", "unpin", "flush"},
           Sleep(c, op, p)
    PROVE  TypeInv'
<1>1. table[p] \in Frame /\ \A f \in Frame : Contains(freeList, f) => table[p] # f
  BY DEF Sleep, TypeInv, TypeOK, FreeUnused
<1>2. op = "fetch" => hold[c] = NoHold
  BY DEF Sleep, MayAsk
<1> DEFINE r == Calling(op, "asleep", p, table[p])
<1>3. /\ r \in CallRecord /\ r.op = op /\ r.at = "asleep"
      /\ r.page = p /\ r.frame = table[p]
  BY <1>1, CallingTyped
<1>4. call' = [call EXCEPT ![c] = r] /\ UNCHANGED <<frameVars, poolVars, diskVars, hold, history>>
  BY DEF Sleep
<1> HIDE DEF r
<1>5. CallFormed(r, hold[c])
  BY <1>1, <1>2, <1>3 DEF CallFormed
<1>6. raced' \in BOOLEAN /\ latest' = latest
  BY <1>4 DEF TypeInv, TypeOK, history
<1>7. QED
  BY <1>1, <1>3, <1>4, <1>5, <1>6, OnlyCallTyped

LEMMA SleepAgainTyped ==
    ASSUME TypeInv, NEW c \in Client, SleepAgain(c)
    PROVE  TypeInv'
<1> DEFINE r == [call[c] EXCEPT !.at = "asleep"]
<1>1. call[c].at = "awake" /\ call' = [call EXCEPT ![c] = r]
      /\ UNCHANGED <<frameVars, poolVars, diskVars, hold, history>>
  BY DEF SleepAgain, TypeInv, TypeOK
<1>2. /\ r \in CallRecord /\ r.op = call[c].op /\ r.at = "asleep"
      /\ r.page = call[c].page /\ r.frame = call[c].frame
  BY CallAt, Typed, ZenonT(60)
<1> HIDE DEF r
<1>3. CallFormed(r, hold[c])
  BY <1>1, <1>2, Typed DEF CallFormed
<1>4. raced' \in BOOLEAN /\ latest' = latest
  BY <1>1 DEF TypeInv, TypeOK, history
<1>5. QED
  BY <1>1, <1>2, <1>3, <1>4, Typed, OnlyCallTyped

\* A lookup that has found frame f: by the table, or when it fell asleep.
LEMMA ReadyTyped ==
    ASSUME TypeInv, NEW c \in Client, NEW p \in Page, NEW f \in Frame,
           NEW op \in {"fetch", "unpin", "flush"}, Ready(c, op, p, f)
    PROVE  /\ ~Contains(freeList, f)
           /\ op = "fetch" => hold[c] = NoHold
<1>1. CASE MayCall(c) /\ MayAsk(c, op, p) /\ table[p] = f
  BY <1>1 DEF MayAsk, TypeInv, FreeUnused
<1>2. CASE \E at \in {"asleep", "awake"} : call[c] = Calling(op, at, p, f)
  <2>1. call[c].op = op /\ call[c].frame = f
    BY <1>2 DEF Calling
  <2>2. QED
    BY <2>1, Typed DEF CallFormed
<1>3. QED
  BY <1>1, <1>2 DEF Ready

LEMMA FoundTyped ==
    ASSUME TypeInv, NEW c \in Client, NEW p \in Page, NEW f \in Frame,
           UnpinFound(c, p, f) \/ FlushFound(c, p, f)
    PROVE  TypeInv'
<1>1. PICK r \in {Calling("unpin", "count", p, f), Calling("flush", "force", p, f)} :
          call' = [call EXCEPT ![c] = r]
  BY DEF UnpinFound, FlushFound
<1>2. UNCHANGED <<frameVars, poolVars, diskVars, hold, history>> /\ ~Contains(freeList, f)
  BY ReadyTyped DEF UnpinFound, FlushFound
<1>3. /\ r \in CallRecord /\ r.page = p /\ r.frame = f
      /\ (r.op = "unpin" /\ r.at = "count") \/ (r.op = "flush" /\ r.at = "force")
  BY CallingTyped
<1>4. CallFormed(r, hold[c])
  BY <1>3 DEF CallFormed
<1>5. raced' \in BOOLEAN /\ latest' = latest
  BY <1>2 DEF TypeInv, TypeOK, history
<1>6. QED
  BY <1>1, <1>2, <1>3, <1>4, <1>5, OnlyCallTyped

\* A step in which one client's call and page change.
LEMMA OneClient ==
    ASSUME TypeInv, NEW c \in Client, NEW r \in CallRecord, NEW h \in HoldRecord,
           call' = [call EXCEPT ![c] = r], hold' = [hold EXCEPT ![c] = h],
           CallFormed(r, h), HoldFormed(h)
    PROVE  /\ call' \in [Client -> CallRecord] /\ hold' \in [Client -> HoldRecord]
           /\ CallsFormed'
           /\ call'[c] = r /\ hold'[c] = h
           /\ \A d \in Client \ {c} : call'[d] = call[d] /\ hold'[d] = hold[d]
<1>1. call \in [Client -> CallRecord] /\ hold \in [Client -> HoldRecord]
  BY DEF TypeInv, TypeOK
<1>2. /\ call' \in [Client -> CallRecord] /\ hold' \in [Client -> HoldRecord]
      /\ call'[c] = r /\ hold'[c] = h
      /\ \A d \in Client \ {c} : call'[d] = call[d] /\ hold'[d] = hold[d]
  BY <1>1
<1>3. CallsFormed'
  BY <1>2 DEF TypeInv, CallsFormed
<1>4. QED
  BY <1>2, <1>3

\* The client's page stays as it is.
LEMMA SameHold ==
    ASSUME TypeInv, NEW c \in Client, UNCHANGED hold
    PROVE  hold' = [hold EXCEPT ![c] = hold[c]]
  BY DEF TypeInv, TypeOK

\* A client has just got a page.
LEMMA HoldTyped ==
    ASSUME NEW p \in Page, NEW f \in Frame, NEW w \in BOOLEAN
    PROVE  LET h == [page |-> p, frame |-> f, wrote |-> w]
           IN  /\ h \in HoldRecord /\ HoldFormed(h)
               /\ h.page = p /\ h.frame = f /\ h.wrote = w /\ h # NoHold
<1> DEFINE h == [page |-> p, frame |-> f, wrote |-> w]
<1>1. h \in HoldRecord /\ h.page = p /\ h.frame = f /\ h.wrote = w
  BY DEF HoldRecord
<1>2. NoHold.page = NoPage /\ p # NoPage
  BY Constants DEF NoHold
<1>3. QED
  BY <1>1, <1>2 DEF HoldFormed

\* The lists, as TypeOK has them.
LEMMA ListsTyped ==
    ASSUME TypeInv
    PROVE  /\ freeList \in Seq(Frame) /\ lru \in Seq(Frame)
           /\ IsInjective(freeList) /\ IsInjective(lru)
           /\ \A f : ~(Contains(freeList, f) /\ Contains(lru, f))
<1>1. freeList \in Seq(Frame) /\ lru \in Seq(Frame) /\ IsInjective(freeList \o lru)
  BY DEF TypeInv, TypeOK
<1>2. QED
  BY <1>1, ListsDisjoint

\* A frame leaves the LRU list, or stays off it.
LEMMA PinTyped ==
    ASSUME TypeInv, NEW f, lru' = AfterPin(lru, f), UNCHANGED freeList
    PROVE  /\ lru' \in Seq(Frame) /\ IsInjective(freeList' \o lru')
           /\ \A g : Contains(lru', g) <=> Contains(lru, g) /\ g # f
<1>1. /\ lru' \in Seq(Frame) /\ IsInjective(lru')
      /\ \A g : Contains(lru', g) <=> Contains(lru, g) /\ g # f
  BY ListsTyped, PinRemoves
<1>2. QED
  BY <1>1, ListsTyped, ListsDisjoint

\* What FindFreeFrame and Pin leave of the two lists.
LEMMA FrameTaken ==
    ASSUME TypeInv, FrameAvailable, TakeFrame
    PROVE  /\ TheFrame \in Frame /\ Listed(TheFrame)
           /\ freeList' \in Seq(Frame) /\ lru' \in Seq(Frame)
           /\ IsInjective(freeList' \o lru')
           /\ \A g : Contains(freeList', g) <=> Contains(freeList, g) /\ g # TheFrame
           /\ \A g : Contains(lru', g) <=> Contains(lru, g) /\ g # TheFrame
<1>1. CASE freeList # <<>>
  <2>1. /\ TheFrame = Head(freeList) /\ freeList' = Tail(freeList)
        /\ lru' = AfterPin(lru, TheFrame)
    BY <1>1 DEF TheFrame, TakeFrame
  <2>2. /\ freeList' \in Seq(Frame) /\ IsInjective(freeList')
        /\ TheFrame \in Frame /\ Contains(freeList, TheFrame)
        /\ \A g : Contains(freeList', g) <=> Contains(freeList, g) /\ g # TheFrame
    BY <1>1, <2>1, ListsTyped, TailDropsHead
  <2>3. /\ lru' \in Seq(Frame) /\ IsInjective(lru')
        /\ \A g : Contains(lru', g) <=> Contains(lru, g) /\ g # TheFrame
    BY <2>1, ListsTyped, PinRemoves
  <2>4. QED
    BY <2>2, <2>3, ListsTyped, ListsDisjoint DEF Listed
<1>2. CASE freeList = <<>>
  <2>1. /\ TheFrame = Last(lru) /\ freeList' = freeList /\ lru # <<>>
        /\ lru' = AfterPin(Front(lru), TheFrame)
    BY <1>2 DEF TheFrame, TakeFrame, FrameAvailable, CanEvict, EvictedFrame, AfterEvict
  <2>2. /\ Front(lru) \in Seq(Frame) /\ IsInjective(Front(lru))
        /\ TheFrame \in Frame /\ Contains(lru, TheFrame)
        /\ \A g : Contains(Front(lru), g) <=> Contains(lru, g) /\ g # TheFrame
    BY <2>1, ListsTyped, FrontDropsLast
  <2>3. /\ lru' \in Seq(Frame) /\ IsInjective(lru')
        /\ \A g : Contains(lru', g) <=> Contains(Front(lru), g) /\ g # TheFrame
    BY <2>1, <2>2, PinRemoves
  <2>4. \A g : ~Contains(freeList, g)
    BY <1>2 DEF Contains
  <2>5. QED
    BY <2>1, <2>2, <2>3, <2>4, ListsTyped, ListsDisjoint DEF Listed
<1>3. QED
  BY <1>1, <1>2

\* The free list may lose a frame x, which only then may be used.
LEMMA FreeStaysUnused ==
    ASSUME TypeInv, NEW x,
           \A g \in Frame : Contains(freeList', g) => Contains(freeList, g) /\ g # x,
           \A g \in Frame : Contains(lru', g) => Contains(lru, g) \/ g = x,
           \A q \in Page : table'[q] \in {table[q], x, NoFrame},
           \A d \in Client : call'[d].frame \in {call[d].frame, x, NoFrame}
    PROVE  FreeUnused'
<1> SUFFICES ASSUME NEW g \in Frame, Contains(freeList', g)
             PROVE  /\ ~Contains(lru', g)
                    /\ \A q \in Page : table'[q] # g
                    /\ \A d \in Client : call'[d].frame # g
  BY DEF FreeUnused
<1>1. /\ ~Contains(lru, g) /\ g # x /\ g # NoFrame
      /\ \A q \in Page : table[q] # g
      /\ \A d \in Client : call[d].frame # g
  BY Constants DEF TypeInv, FreeUnused
<1>2. QED
  BY <1>1

LEMMA FetchHitTyped ==
    ASSUME TypeInv, NEW c \in Client, NEW p \in Page, NEW f \in Frame, FetchHit(c, p, f)
    PROVE  TypeInv'
<1> DEFINE h == [page |-> p, frame |-> f, wrote |-> FALSE]
<1>1. /\ Ready(c, "fetch", p, f)
      /\ pinCount' = [pinCount EXCEPT ![f] = @ + 1] /\ lru' = AfterPin(lru, f)
      /\ hold' = [hold EXCEPT ![c] = h] /\ call' = [call EXCEPT ![c] = Idle]
      /\ raced' = (raced \/ table[p] # f)
      /\ UNCHANGED <<pageId, data, dirty, loading, table, freeList, diskVars, latest>>
  BY DEF FetchHit, PinFrame
<1>2. h \in HoldRecord /\ HoldFormed(h)
  BY HoldTyped
<1> HIDE DEF h
<1>3. /\ call' \in [Client -> CallRecord] /\ hold' \in [Client -> HoldRecord] /\ CallsFormed'
      /\ call'[c] = Idle /\ \A d \in Client \ {c} : call'[d] = call[d]
  BY <1>1, <1>2, RecordTypes, OneClient
<1>4. /\ lru' \in Seq(Frame) /\ IsInjective(freeList' \o lru')
      /\ \A g : Contains(lru', g) <=> Contains(lru, g) /\ g # f
  BY <1>1, PinTyped
<1>5. pinCount' \in [Frame -> Nat]
  BY <1>1 DEF TypeInv, TypeOK
<1>6. raced' \in BOOLEAN
  BY <1>1
<1>7. TypeOK'
  BY <1>1, <1>3, <1>4, <1>5, <1>6 DEF TypeInv, TypeOK, diskVars
<1>8. FreeUnused'
  <2>1. \A d \in Client : call'[d].frame \in {call[d].frame, NoFrame}
    BY <1>3, RecordTypes
  <2>2. NoFrame \notin Frame
    BY Constants
  <2>3. QED
    BY <1>1, <1>4, <2>1, <2>2, FreeStaysUnused, ZenonT(60)
<1>9. QED
  BY <1>3, <1>7, <1>8 DEF TypeInv

LEMMA UnpinNotFoundTyped ==
    ASSUME TypeInv, NEW c \in Client, UnpinNotFound(c)
    PROVE  TypeInv'
<1>1. /\ call[c] = Idle /\ hold' = [hold EXCEPT ![c] = NoHold]
      /\ UNCHANGED <<frameVars, poolVars, diskVars, call, history>>
  BY DEF UnpinNotFound, MayCall
<1>2. call' = [call EXCEPT ![c] = Idle]
  BY <1>1 DEF TypeInv, TypeOK
<1>3. hold' \in [Client -> HoldRecord] /\ CallsFormed'
  BY <1>1, <1>2, RecordTypes, OneClient
<1>4. TypeOK'
  BY <1>1, <1>3 DEF TypeInv, TypeOK, frameVars, poolVars, diskVars, history
<1>5. FreeUnused'
  BY <1>1 DEF TypeInv, FreeUnused, poolVars
<1>6. QED
  BY <1>3, <1>4, <1>5 DEF TypeInv

\* A table without the old page of a frame, and with a page in it.
LEMMA WithoutTyped ==
    ASSUME TypeInv, NEW f \in Frame
    PROVE  /\ WithoutOldPage(f) \in [Page -> Frame \cup {NoFrame}]
           /\ \A q \in Page : WithoutOldPage(f)[q] = IF pageId[f] = q THEN NoFrame ELSE table[q]
<1>1. table \in [Page -> Frame \cup {NoFrame}] /\ pageId[f] \in Page \cup {NoPage}
  BY DEF TypeInv, TypeOK
<1>2. CASE pageId[f] = NoPage
  BY <1>1, <1>2, Constants DEF WithoutOldPage
<1>3. CASE pageId[f] # NoPage
  BY <1>1, <1>3 DEF WithoutOldPage
<1>4. QED
  BY <1>2, <1>3

LEMMA FetchMissTyped ==
    ASSUME TypeInv, NEW c \in Client, NEW p \in Page, FetchMiss(c, p)
    PROVE  TypeInv'
<1> DEFINE f == TheFrame
           r == Calling("fetch", "write", p, f)
<1>1. /\ hold[c] = NoHold /\ FrameAvailable /\ TakeFrame
      /\ table' = [WithoutOldPage(f) EXCEPT ![p] = f]
      /\ loading' = [loading EXCEPT ![f] = TRUE]
      /\ call' = [call EXCEPT ![c] = r]
      /\ UNCHANGED <<pageId, data, pinCount, dirty, diskVars, hold, history>>
  BY DEF FetchMiss, MayAsk
<1>2. /\ f \in Frame
      /\ freeList' \in Seq(Frame) /\ lru' \in Seq(Frame) /\ IsInjective(freeList' \o lru')
      /\ \A g : Contains(freeList', g) => Contains(freeList, g) /\ g # f
      /\ \A g : Contains(lru', g) => Contains(lru, g) /\ g # f
  BY <1>1, FrameTaken
<1>3. /\ r \in CallRecord /\ r.op = "fetch" /\ r.at = "write" /\ r.page = p /\ r.frame = f
  BY <1>2, CallingTyped
<1> HIDE DEF r
<1>4. CallFormed(r, hold[c])
  BY <1>1, <1>2, <1>3 DEF CallFormed
<1>5. /\ call' \in [Client -> CallRecord] /\ hold' \in [Client -> HoldRecord] /\ CallsFormed'
      /\ call'[c] = r /\ \A d \in Client \ {c} : call'[d] = call[d]
  BY <1>1, <1>3, <1>4, SameHold, Typed, OneClient
<1>6. /\ table' \in [Page -> Frame \cup {NoFrame}]
      /\ \A q \in Page : table'[q] \in {f, NoFrame, table[q]}
  BY <1>1, <1>2, WithoutTyped
<1>7. loading' \in [Frame -> BOOLEAN]
  BY <1>1 DEF TypeInv, TypeOK
<1>8. TypeOK'
  BY <1>1, <1>2, <1>5, <1>6, <1>7 DEF TypeInv, TypeOK, diskVars, history
<1>9. FreeUnused'
  <2>1. \A d \in Client : call'[d].frame \in {call[d].frame, f}
    BY <1>3, <1>5
  <2> HIDE DEF f
  <2>2. QED
    BY <1>2, <1>6, <2>1, FreeStaysUnused
<1>10. QED
  BY <1>5, <1>8, <1>9 DEF TypeInv

LEMMA NewPageTyped ==
    ASSUME TypeInv, NEW c \in Client, NewPage(c)
    PROVE  TypeInv'
<1> DEFINE f == TheFrame
           r == Calling("new", "write", numPages, f)
<1>1. /\ hold[c] = NoHold /\ FrameAvailable /\ TakeFrame /\ numPages < MaxPages
      /\ table' = WithoutOldPage(f)
      /\ numPages' = numPages + 1 /\ disk' = [disk EXCEPT ![numPages] = Zeros]
      /\ call' = [call EXCEPT ![c] = r]
      /\ UNCHANGED <<frameVars, hold, history>>
  BY DEF NewPage, AllocatePage, NextPageId
<1>2. /\ f \in Frame
      /\ freeList' \in Seq(Frame) /\ lru' \in Seq(Frame) /\ IsInjective(freeList' \o lru')
      /\ \A g : Contains(freeList', g) => Contains(freeList, g) /\ g # f
      /\ \A g : Contains(lru', g) => Contains(lru, g) /\ g # f
  BY <1>1, FrameTaken
<1>3. numPages \in Page /\ numPages' \in 0..MaxPages
  BY <1>1, Constants DEF TypeInv, TypeOK
<1>4. /\ r \in CallRecord /\ r.op = "new" /\ r.at = "write" /\ r.page = numPages /\ r.frame = f
  BY <1>2, <1>3, CallingTyped
<1> HIDE DEF r
<1>5. CallFormed(r, hold[c])
  BY <1>1, <1>2, <1>3, <1>4 DEF CallFormed
<1>6. /\ call' \in [Client -> CallRecord] /\ hold' \in [Client -> HoldRecord] /\ CallsFormed'
      /\ call'[c] = r /\ \A d \in Client \ {c} : call'[d] = call[d]
  BY <1>1, <1>4, <1>5, SameHold, Typed, OneClient
<1>7. /\ table' \in [Page -> Frame \cup {NoFrame}]
      /\ \A q \in Page : table'[q] \in {NoFrame, table[q]}
  BY <1>1, <1>2, WithoutTyped
<1>8. disk' \in [Page -> Contents]
  <2>1. Zeros \in Contents
    BY DEF Contents
  <2>2. QED
    BY <1>1, <2>1 DEF TypeInv, TypeOK
<1>9. TypeOK'
  BY <1>1, <1>2, <1>3, <1>6, <1>7, <1>8 DEF TypeInv, TypeOK, frameVars, history
<1>10. FreeUnused'
  <2>1. \A d \in Client : call'[d].frame \in {call[d].frame, f}
    BY <1>4, <1>6
  <2> HIDE DEF f
  <2>2. QED
    BY <1>2, <1>7, <2>1, FreeStaysUnused
<1>11. QED
  BY <1>6, <1>9, <1>10 DEF TypeInv

\* A call that goes on to another section, or returns.
LEMMA NextSection ==
    ASSUME TypeInv, NEW c \in Client,
           NEW a \in {"reset", "fill", "publish", "release", "scan"},
           call[c].at # "", call[c].at # "scan" \/ a = "scan",
           a \in {"reset", "fill", "publish"} => Loads(c),
           a = "release" => call[c].at = "count",
           a = "scan" => call[c].at = "scan",
           call' = [call EXCEPT ![c].at = a], UNCHANGED hold
    PROVE  /\ call' \in [Client -> CallRecord] /\ hold' \in [Client -> HoldRecord] /\ CallsFormed'
           /\ call'[c].at = a /\ call'[c].op = call[c].op
           /\ call'[c].page = call[c].page /\ call'[c].frame = call[c].frame
           /\ \A d \in Client \ {c} : call'[d] = call[d]
           /\ \A d \in Client : call'[d].frame = call[d].frame
<1> DEFINE r == [call[c] EXCEPT !.at = a]
<1>1. call' = [call EXCEPT ![c] = r]
  BY DEF TypeInv, TypeOK
<1>2. /\ r \in CallRecord /\ r.at = a /\ r.op = call[c].op
      /\ r.page = call[c].page /\ r.frame = call[c].frame
  <2>1. call[c] \in CallRecord
    BY Typed
  <2>2. QED
    BY <2>1 DEF CallRecord
<1> HIDE DEF r
<1>3. call[c].op # "idle"
  BY Typed, RecordTypes DEF CallFormed
<1>4. CallFormed(r, hold[c])
  BY <1>2, <1>3, Typed DEF CallFormed, Loads
<1>5. HoldFormed(hold[c]) /\ hold[c] \in HoldRecord
  BY Typed
<1>6. QED
  BY <1>1, <1>2, <1>4, <1>5, SameHold, OneClient

LEMMA Returns ==
    ASSUME TypeInv, NEW c \in Client, NEW h \in HoldRecord, HoldFormed(h),
           call' = [call EXCEPT ![c] = Idle], hold' = [hold EXCEPT ![c] = h]
    PROVE  /\ call' \in [Client -> CallRecord] /\ hold' \in [Client -> HoldRecord] /\ CallsFormed'
           /\ call'[c] = Idle /\ hold'[c] = h
           /\ \A d \in Client \ {c} : call'[d] = call[d] /\ hold'[d] = hold[d]
           /\ \A d \in Client : call'[d].frame \in {call[d].frame, NoFrame}
<1>1. /\ call' \in [Client -> CallRecord] /\ hold' \in [Client -> HoldRecord] /\ CallsFormed'
      /\ call'[c] = Idle /\ hold'[c] = h
      /\ \A d \in Client \ {c} : call'[d] = call[d] /\ hold'[d] = hold[d]
  BY RecordTypes, OneClient
<1>2. QED
  BY <1>1 DEF Idle

\* The lists and the table stay as they are, and no call gets a new frame.
LEMMA SameLists ==
    ASSUME TypeInv, UNCHANGED poolVars,
           \A d \in Client : call'[d].frame \in {call[d].frame, NoFrame}
    PROVE  FreeUnused'
<1>1. UNCHANGED <<table, freeList, lru>> /\ NoFrame \notin Frame
  BY Constants DEF poolVars
<1>2. QED
  BY <1>1, FreeStaysUnused

\* Writing a page of a frame to disk.
LEMMA WriteTyped ==
    ASSUME TypeInv, NEW f \in Frame,
           disk' = disk \/ WritePage(pageId[f], data[f])
    PROVE  disk' \in [Page -> Contents]
  BY DEF TypeInv, TypeOK, WritePage

LEMMA WriteBackTyped ==
    ASSUME TypeInv, NEW c \in Client, WriteBack(c)
    PROVE  TypeInv'
<1>1. /\ call[c].at = "write" /\ call' = [call EXCEPT ![c].at = "reset"]
      /\ disk' = disk \/ WritePage(pageId[call[c].frame], data[call[c].frame])
      /\ UNCHANGED <<frameVars, poolVars, numPages, hold, history>>
  BY DEF WriteBack
<1>2. /\ call' \in [Client -> CallRecord] /\ hold' \in [Client -> HoldRecord] /\ CallsFormed'
      /\ \A d \in Client : call'[d].frame = call[d].frame
  BY <1>1, NextSection DEF Loads
<1>3. disk' \in [Page -> Contents]
  BY <1>1, Typed, WriteTyped DEF CallFormed
<1>4. TypeOK'
  BY <1>1, <1>2, <1>3 DEF TypeInv, TypeOK, frameVars, poolVars, history
<1>5. QED
  BY <1>1, <1>2, <1>4, SameLists DEF TypeInv

LEMMA ResetFrameTyped ==
    ASSUME TypeInv, NEW c \in Client, ResetFrame(c)
    PROVE  TypeInv'
<1> DEFINE f == call[c].frame
<1>1. /\ call[c].at = "reset" /\ call' = [call EXCEPT ![c].at = "fill"]
      /\ data' = [data EXCEPT ![f] = Zeros] /\ pageId' = [pageId EXCEPT ![f] = NoPage]
      /\ pinCount' = [pinCount EXCEPT ![f] = 0] /\ dirty' = [dirty EXCEPT ![f] = FALSE]
      /\ loading' = [loading EXCEPT ![f] = FALSE]
      /\ UNCHANGED <<poolVars, diskVars, hold, history>>
  BY DEF ResetFrame
<1>2. /\ call' \in [Client -> CallRecord] /\ hold' \in [Client -> HoldRecord] /\ CallsFormed'
      /\ \A d \in Client : call'[d].frame = call[d].frame
  BY <1>1, NextSection DEF Loads
<1>3. Zeros \in Contents
  BY DEF Contents
<1>4. /\ data' \in [Frame -> Contents] /\ pageId' \in [Frame -> Page \cup {NoPage}]
      /\ pinCount' \in [Frame -> Nat] /\ dirty' \in [Frame -> BOOLEAN]
      /\ loading' \in [Frame -> BOOLEAN]
  BY <1>1, <1>3 DEF TypeInv, TypeOK
<1>5. TypeOK'
  BY <1>1, <1>2, <1>4 DEF TypeInv, TypeOK, poolVars, diskVars, history
<1>6. QED
  BY <1>1, <1>2, <1>5, SameLists DEF TypeInv

LEMMA FillTyped ==
    ASSUME TypeInv, NEW c \in Client, Fill(c)
    PROVE  TypeInv'
<1> DEFINE f == call[c].frame
           p == call[c].page
<1>1. /\ call[c].at = "fill" /\ call' = [call EXCEPT ![c].at = "publish"]
      /\ data' = [data EXCEPT ![f] = disk[p]] \/ data' = data
      /\ pageId' = [pageId EXCEPT ![f] = p]
      /\ pinCount' = [pinCount EXCEPT ![f] = @ + 1] /\ dirty' = [dirty EXCEPT ![f] = FALSE]
      /\ raced' = (raced \/ Outdated(p))
      /\ UNCHANGED <<loading, poolVars, diskVars, hold, latest>>
  BY DEF Fill, ReadPage
<1>2. /\ call' \in [Client -> CallRecord] /\ hold' \in [Client -> HoldRecord] /\ CallsFormed'
      /\ \A d \in Client : call'[d].frame = call[d].frame
  BY <1>1, NextSection DEF Loads
<1>3. p \in Page /\ f \in Frame
  BY <1>1, Typed DEF CallFormed
<1> HIDE DEF f, p
<1>4. /\ data' \in [Frame -> Contents] /\ pageId' \in [Frame -> Page \cup {NoPage}]
      /\ pinCount' \in [Frame -> Nat] /\ dirty' \in [Frame -> BOOLEAN]
  <2>1. /\ data \in [Frame -> Contents] /\ disk \in [Page -> Contents]
        /\ pageId \in [Frame -> Page \cup {NoPage}]
        /\ pinCount \in [Frame -> Nat] /\ dirty \in [Frame -> BOOLEAN]
    BY DEF TypeInv, TypeOK
  <2>2. data' \in [Frame -> Contents]
    BY <1>1, <1>3, <2>1
  <2>3. pageId' \in [Frame -> Page \cup {NoPage}] /\ dirty' \in [Frame -> BOOLEAN]
    BY <1>1, <1>3, <2>1
  <2>4. pinCount' \in [Frame -> Nat]
    BY <1>1, <1>3, <2>1
  <2>5. QED
    BY <2>2, <2>3, <2>4
<1>5. raced' \in BOOLEAN
  BY <1>1
<1>6. TypeOK'
  BY <1>1, <1>2, <1>4, <1>5 DEF TypeInv, TypeOK, poolVars, diskVars
<1>7. QED
  BY <1>1, <1>2, <1>6, SameLists DEF TypeInv

LEMMA FillThrowsTyped ==
    ASSUME TypeInv, NEW c \in Client, FillThrows(c)
    PROVE  TypeInv'
<1>1. /\ call' = [call EXCEPT ![c] = Idle]
      /\ UNCHANGED <<frameVars, poolVars, diskVars, hold, history>>
  BY DEF FillThrows
<1>2. /\ call' \in [Client -> CallRecord] /\ hold' \in [Client -> HoldRecord] /\ CallsFormed'
      /\ \A d \in Client : call'[d].frame \in {call[d].frame, NoFrame}
  BY <1>1, SameHold, Typed, Returns
<1>3. TypeOK'
  BY <1>1, <1>2 DEF TypeInv, TypeOK, frameVars, poolVars, diskVars, history
<1>4. QED
  BY <1>1, <1>2, <1>3, SameLists DEF TypeInv

\* NotifyReady changes nothing but where the sleepers are.
LEMMA WokenTyped ==
    ASSUME TypeInv, NEW f
    PROVE  /\ Woken(f) \in [Client -> CallRecord]
           /\ \A d \in Client :
                  /\ Woken(f)[d].op = call[d].op /\ Woken(f)[d].page = call[d].page
                  /\ Woken(f)[d].frame = call[d].frame
                  /\ \/ Woken(f)[d] = call[d]
                     \/ call[d].at = "asleep" /\ Woken(f)[d].at = "awake"
<1> SUFFICES ASSUME NEW d \in Client
             PROVE  /\ Woken(f)[d] \in CallRecord
                    /\ Woken(f)[d].op = call[d].op /\ Woken(f)[d].page = call[d].page
                    /\ Woken(f)[d].frame = call[d].frame
                    /\ \/ Woken(f)[d] = call[d]
                       \/ call[d].at = "asleep" /\ Woken(f)[d].at = "awake"
  BY DEF Woken
<1>1. call[d] \in CallRecord
  BY Typed
<1>2. CASE call[d].at = "asleep" /\ call[d].frame = f
  <2>1. Woken(f)[d] = [call[d] EXCEPT !.at = "awake"]
    BY <1>2 DEF Woken
  <2>2. QED
    BY <1>1, <1>2, <2>1 DEF CallRecord
<1>3. CASE ~(call[d].at = "asleep" /\ call[d].frame = f)
  BY <1>1, <1>3 DEF Woken
<1>4. QED
  BY <1>2, <1>3

\* What publishing does to the calls and pages of the clients.
LEMMA PublishCalls ==
    ASSUME TypeInv, NEW c \in Client, Publish(c)
    PROVE  /\ call' \in [Client -> CallRecord] /\ hold' \in [Client -> HoldRecord] /\ CallsFormed'
           /\ call'[c] = Idle
           /\ hold'[c] = [page |-> call[c].page, frame |-> call[c].frame, wrote |-> FALSE]
           /\ \A d \in Client \ {c} :
                  /\ call'[d].op = call[d].op /\ call'[d].page = call[d].page
                  /\ call'[d].frame = call[d].frame
                  /\ \/ call'[d] = call[d]
                     \/ call[d].at = "asleep" /\ call'[d].at = "awake"
                  /\ hold'[d] = hold[d]
           /\ \A d \in Client : call'[d].frame \in {call[d].frame, NoFrame}
<1> DEFINE f == call[c].frame
           p == call[c].page
           h == [page |-> p, frame |-> f, wrote |-> FALSE]
           w == call'
<1>1. /\ call[c].at = "publish"
      /\ call' = [Woken(f) EXCEPT ![c] = Idle] \/ call' = [call EXCEPT ![c] = Idle]
      /\ hold' = [hold EXCEPT ![c] = h]
  BY DEF Publish
<1>2. p \in Page /\ f \in Frame
  BY <1>1, Typed DEF CallFormed
<1>3. h \in HoldRecord /\ HoldFormed(h)
  BY <1>2, HoldTyped
<1>4. call \in [Client -> CallRecord] /\ hold \in [Client -> HoldRecord] /\ Idle \in CallRecord
  BY RecordTypes DEF TypeInv, TypeOK
<1> HIDE DEF h, f, p
<1>5. /\ call' \in [Client -> CallRecord] /\ call'[c] = Idle
      /\ \A d \in Client \ {c} :
            /\ call'[d].op = call[d].op /\ call'[d].page = call[d].page
            /\ call'[d].frame = call[d].frame
            /\ \/ call'[d] = call[d]
               \/ call[d].at = "asleep" /\ call'[d].at = "awake"
  <2>1. CASE call' = [call EXCEPT ![c] = Idle]
    BY <1>4, <2>1
  <2>2. CASE call' = [Woken(f) EXCEPT ![c] = Idle]
    <3>1. Woken(f) \in [Client -> CallRecord]
      BY WokenTyped
    <3>2. /\ call' \in [Client -> CallRecord] /\ call'[c] = Idle
          /\ \A d \in Client \ {c} : call'[d] = Woken(f)[d]
      BY <1>4, <2>2, <3>1
    <3>3. QED
      BY <3>2, WokenTyped
  <2>3. QED
    BY <1>1, <2>1, <2>2
<1>6. /\ hold' \in [Client -> HoldRecord] /\ hold'[c] = h
      /\ \A d \in Client \ {c} : hold'[d] = hold[d]
  BY <1>1, <1>3, <1>4
<1>7. ASSUME NEW d \in Client PROVE CallFormed(call'[d], hold'[d]) /\ HoldFormed(hold'[d])
  <2>1. CASE d = c
    BY <1>3, <1>5, <1>6, <2>1, RecordTypes
  <2>2. CASE d # c /\ call'[d] = call[d]
    BY <1>6, <2>2, Typed
  <2>3. CASE d # c /\ call[d].at = "asleep" /\ call'[d].at = "awake"
    <3>1. call'[d].op = call[d].op /\ call'[d].page = call[d].page
          /\ call'[d].frame = call[d].frame /\ hold'[d] = hold[d]
      BY <1>5, <1>6, <2>3
    <3>2. CallFormed(call[d], hold[d]) /\ HoldFormed(hold[d])
      BY Typed
    <3>3. call[d].op \in {"fetch", "unpin", "flush"}
      BY <2>3, <3>2 DEF CallFormed
    <3>4. QED
      BY <2>3, <3>1, <3>2, <3>3 DEF CallFormed
  <2>4. QED
    BY <1>5, <2>1, <2>2, <2>3
<1>8. CallsFormed'
  BY <1>7 DEF CallsFormed
<1>9. \A d \in Client : call'[d].frame \in {call[d].frame, NoFrame}
  BY <1>5, RecordTypes
<1>10. QED
  BY <1>5, <1>6, <1>8, <1>9 DEF h, f, p

LEMMA PublishTyped ==
    ASSUME TypeInv, NEW c \in Client, Publish(c)
    PROVE  TypeInv'
<1> DEFINE f == call[c].frame
           p == call[c].page
<1>1. /\ call[c].at = "publish"
      /\ loading' = [loading EXCEPT ![f] = FALSE] \/ loading' = loading
      /\ table' = [table EXCEPT ![p] = f] \/ table' = table
      /\ UNCHANGED <<pageId, data, pinCount, dirty, freeList, lru, diskVars, history>>
  BY DEF Publish
<1>2. /\ call' \in [Client -> CallRecord] /\ hold' \in [Client -> HoldRecord] /\ CallsFormed'
      /\ \A d \in Client : call'[d].frame \in {call[d].frame, NoFrame}
  BY PublishCalls
<1>3. p \in Page /\ f \in Frame /\ ~Contains(freeList, f)
  BY <1>1, Typed DEF CallFormed
<1> HIDE DEF f, p
<1>4. loading' \in [Frame -> BOOLEAN] /\ table' \in [Page -> Frame \cup {NoFrame}]
  BY <1>1, <1>3 DEF TypeInv, TypeOK
<1>5. \A q \in Page : table'[q] \in {table[q], f, NoFrame}
  BY <1>1, <1>3 DEF TypeInv, TypeOK
<1>6. TypeOK'
  BY <1>1, <1>2, <1>4 DEF TypeInv, TypeOK, diskVars, history
<1>7. \A g \in Frame : Contains(freeList', g) => Contains(freeList, g) /\ g # f
  BY <1>1, <1>3
<1>8. FreeUnused'
  BY <1>1, <1>2, <1>5, <1>7, FreeStaysUnused
<1>9. QED
  BY <1>2, <1>6, <1>8 DEF TypeInv

\* What unpinning does to the calls and pages of the clients.
LEMMA UnpinCalls ==
    ASSUME TypeInv, NEW c \in Client, Unpin(c)
    PROVE  /\ call' \in [Client -> CallRecord] /\ hold' \in [Client -> HoldRecord] /\ CallsFormed'
           /\ hold'[c] = NoHold
           /\ call'[c] = Idle \/ (/\ call'[c].at = "release" /\ call'[c].op = "unpin"
                                  /\ call'[c].page = call[c].page
                                  /\ call'[c].frame = call[c].frame
                                  /\ pageId[call[c].frame] = call[c].page
                                  /\ pinCount[call[c].frame] = 1)
           /\ \A d \in Client \ {c} : call'[d] = call[d] /\ hold'[d] = hold[d]
           /\ \A d \in Client : call'[d].frame \in {call[d].frame, NoFrame}
<1> DEFINE r == [call[c] EXCEPT !.at = "release"]
<1>1. /\ call[c].at = "count" /\ hold' = [hold EXCEPT ![c] = NoHold]
      /\ \/ call' = [call EXCEPT ![c] = Idle]
         \/ /\ call' = [call EXCEPT ![c] = r]
            /\ pageId[call[c].frame] = call[c].page /\ pinCount[call[c].frame] = 1
  BY DEF Unpin, TypeInv, TypeOK
<1>2. CASE call' = [call EXCEPT ![c] = Idle]
  BY <1>1, <1>2, RecordTypes, Returns
<1>3. CASE /\ call' = [call EXCEPT ![c] = r]
           /\ pageId[call[c].frame] = call[c].page /\ pinCount[call[c].frame] = 1
  <2>1. /\ r \in CallRecord /\ r.at = "release" /\ r.op = call[c].op
        /\ r.page = call[c].page /\ r.frame = call[c].frame
    BY Typed, CallAt
  <2> HIDE DEF r
  <2>2. call[c].op = "unpin" /\ call[c].page \in Page /\ call[c].frame \in Frame
    BY <1>1, Typed DEF CallFormed
  <2>3. CallFormed(r, NoHold)
    BY <2>1, <2>2 DEF CallFormed
  <2>4. /\ call' \in [Client -> CallRecord] /\ hold' \in [Client -> HoldRecord] /\ CallsFormed'
        /\ call'[c] = r /\ hold'[c] = NoHold
        /\ \A d \in Client \ {c} : call'[d] = call[d] /\ hold'[d] = hold[d]
    BY <1>1, <1>3, <2>1, <2>3, RecordTypes, OneClient
  <2>5. QED
    BY <1>3, <2>1, <2>2, <2>4
<1>4. QED
  BY <1>1, <1>2, <1>3

LEMMA UnpinTyped ==
    ASSUME TypeInv, NEW c \in Client, Unpin(c)
    PROVE  TypeInv'
<1> DEFINE f == call[c].frame
<1>1. /\ call[c].at = "count"
      /\ dirty' = [dirty EXCEPT ![f] = DirtyAfterUnpin(f, hold[c].wrote)] \/ dirty' = dirty
      /\ pinCount' = [pinCount EXCEPT ![f] = IF @ > 0 THEN @ - 1 ELSE 0] \/ pinCount' = pinCount
      /\ UNCHANGED <<pageId, data, loading, poolVars, diskVars, history>>
  BY DEF Unpin
<1>2. /\ call' \in [Client -> CallRecord] /\ hold' \in [Client -> HoldRecord] /\ CallsFormed'
      /\ \A d \in Client : call'[d].frame \in {call[d].frame, NoFrame}
  BY UnpinCalls
<1>3. f \in Frame
  BY <1>1, Typed DEF CallFormed
<1> HIDE DEF f
<1>4. DirtyAfterUnpin(f, hold[c].wrote) \in BOOLEAN
  BY <1>3 DEF DirtyAfterUnpin, TypeInv, TypeOK, HoldRecord
<1>5. dirty' \in [Frame -> BOOLEAN]
  BY <1>1, <1>3, <1>4 DEF TypeInv, TypeOK
<1>6. pinCount' \in [Frame -> Nat]
  <2>1. pinCount \in [Frame -> Nat]
    BY DEF TypeInv, TypeOK
  <2>2. QED
    BY <1>1, <1>3, <2>1
<1>7. TypeOK'
  BY <1>1, <1>2, <1>5, <1>6 DEF TypeInv, TypeOK, poolVars, diskVars, history
<1>8. QED
  BY <1>1, <1>2, <1>7, SameLists DEF TypeInv

LEMMA ReleaseTyped ==
    ASSUME TypeInv, NEW c \in Client, Release(c)
    PROVE  TypeInv'
<1> DEFINE f == call[c].frame
<1>1. /\ call[c].at = "release" /\ lru' = AfterUnpin(lru, f, PoolSize)
      /\ call' = [call EXCEPT ![c] = Idle] /\ raced' = (raced \/ InUse(f))
      /\ UNCHANGED <<frameVars, table, freeList, diskVars, hold, latest>>
  BY DEF Release
<1>2. /\ call' \in [Client -> CallRecord] /\ hold' \in [Client -> HoldRecord] /\ CallsFormed'
      /\ \A d \in Client : call'[d].frame \in {call[d].frame, NoFrame}
  BY <1>1, SameHold, Typed, Returns
<1>3. f \in Frame /\ ~Contains(freeList, f)
  BY <1>1, Typed DEF CallFormed
<1> HIDE DEF f
<1>4. /\ lru' \in Seq(Frame) /\ IsInjective(lru')
      /\ \A g : Contains(lru', g) => Contains(lru, g) \/ g = f
  <2>1. lru \in Seq(Frame) /\ IsInjective(lru) /\ PoolSize \in Nat \ {0}
    BY ListsTyped, PoolSizeAssumption
  <2>2. lru' = AfterUnpin(lru, f, PoolSize)
    BY <1>1
  <2>3. QED
    BY <1>3, <2>1, <2>2, UnpinAdds
<1>5. IsInjective(freeList' \o lru')
  BY <1>1, <1>3, <1>4, ListsTyped, ListsDisjoint
<1>6. raced' \in BOOLEAN
  BY <1>1
<1>7. TypeOK'
  BY <1>1, <1>2, <1>4, <1>5, <1>6 DEF TypeInv, TypeOK, frameVars, diskVars
<1>8. FreeUnused'
  BY <1>1, <1>2, <1>3, <1>4, FreeStaysUnused
<1>9. QED
  BY <1>2, <1>7, <1>8 DEF TypeInv

LEMMA FlushWriteTyped ==
    ASSUME TypeInv, NEW c \in Client, FlushWrite(c)
    PROVE  TypeInv'
<1> DEFINE f == call[c].frame
<1>1. /\ call[c].at = "force"
      /\ disk' = disk \/ WritePage(pageId[f], data[f])
      /\ dirty' = [dirty EXCEPT ![f] = FALSE] \/ dirty' = dirty
      /\ call' = [call EXCEPT ![c] = Idle]
      /\ raced' = (raced \/ (pageId[f] = call[c].page /\ table[pageId[f]] # f))
      /\ UNCHANGED <<pageId, data, pinCount, loading, poolVars, numPages, hold, latest>>
  BY DEF FlushWrite
<1>2. /\ call' \in [Client -> CallRecord] /\ hold' \in [Client -> HoldRecord] /\ CallsFormed'
      /\ \A d \in Client : call'[d].frame \in {call[d].frame, NoFrame}
  BY <1>1, SameHold, Typed, Returns
<1>3. f \in Frame
  BY <1>1, Typed DEF CallFormed
<1> HIDE DEF f
<1>4. disk' \in [Page -> Contents]
  BY <1>1, <1>3, WriteTyped
<1>5. dirty' \in [Frame -> BOOLEAN] /\ raced' \in BOOLEAN
  BY <1>1, <1>3 DEF TypeInv, TypeOK
<1>6. TypeOK'
  BY <1>1, <1>2, <1>4, <1>5 DEF TypeInv, TypeOK, poolVars
<1>7. QED
  BY <1>1, <1>2, <1>6, SameLists DEF TypeInv

LEMMA FlushAllPagesTyped ==
    ASSUME TypeInv, NEW c \in Client, FlushAllPages(c)
    PROVE  TypeInv'
<1> DEFINE r == [Calling("flushAll", "scan", NoPage, NoFrame) EXCEPT !.todo = MappedFrames]
<1>1. /\ call' = [call EXCEPT ![c] = r]
      /\ UNCHANGED <<frameVars, poolVars, diskVars, hold, history>>
  BY DEF FlushAllPages
<1>2. MappedFrames \in SUBSET Frame
  BY DEF MappedFrames, TypeInv, TypeOK
<1>3. r \in CallRecord /\ r.op = "flushAll" /\ r.at = "scan" /\ r.frame = NoFrame
  BY <1>2 DEF Calling, CallRecord
<1> HIDE DEF r
<1>4. CallFormed(r, hold[c])
  BY <1>3 DEF CallFormed
<1>5. raced' \in BOOLEAN /\ latest' = latest
  BY <1>1 DEF TypeInv, TypeOK, history
<1>6. QED
  BY <1>1, <1>3, <1>4, <1>5, Constants, OnlyCallTyped

\* What one frame of FlushAllPages does to its call.
LEMMA ScanCalls ==
    ASSUME TypeInv, NEW c \in Client, NEW f \in Frame, Scan(c, f)
    PROVE  /\ call' \in [Client -> CallRecord] /\ hold' \in [Client -> HoldRecord] /\ CallsFormed'
           /\ call'[c] = Idle \/ (call'[c].at = "scan" /\ call'[c].op = "flushAll")
           /\ hold' = hold
           /\ \A d \in Client \ {c} : call'[d] = call[d]
           /\ \A d \in Client : call'[d].frame \in {call[d].frame, NoFrame}
<1> DEFINE t == call[c].todo \ {f}
           r == [call[c] EXCEPT !.todo = t]
<1>1. /\ call[c].at = "scan" /\ hold' = hold
      /\ call' = [call EXCEPT ![c] = Idle] \/ call' = [call EXCEPT ![c] = r]
  BY DEF Scan, TypeInv, TypeOK
<1>2. CASE call' = [call EXCEPT ![c] = Idle]
  <2>1. hold[c] \in HoldRecord /\ HoldFormed(hold[c]) /\ hold' = [hold EXCEPT ![c] = hold[c]]
    BY <1>1, SameHold, Typed
  <2>2. QED
    BY <1>1, <1>2, <2>1, Returns
<1>3. CASE call' = [call EXCEPT ![c] = r]
  <2>1. call[c] \in CallRecord /\ call[c].op = "flushAll"
    BY <1>1, Typed DEF CallFormed
  <2>2. r \in CallRecord /\ r.at = "scan" /\ r.op = "flushAll" /\ r.frame = call[c].frame
    BY <1>1, <2>1 DEF CallRecord
  <2> HIDE DEF r
  <2>3. CallFormed(r, hold[c])
    BY <2>2 DEF CallFormed
  <2>4. hold[c] \in HoldRecord /\ HoldFormed(hold[c]) /\ hold' = [hold EXCEPT ![c] = hold[c]]
    BY <1>1, SameHold, Typed
  <2>5. /\ call' \in [Client -> CallRecord] /\ hold' \in [Client -> HoldRecord] /\ CallsFormed'
        /\ call'[c] = r /\ \A d \in Client \ {c} : call'[d] = call[d]
    BY <1>3, <2>2, <2>3, <2>4, OneClient
  <2>6. QED
    BY <1>1, <2>2, <2>5
<1>4. QED
  BY <1>1, <1>2, <1>3

LEMMA ScanTyped ==
    ASSUME TypeInv, NEW c \in Client, NEW f \in Frame, Scan(c, f)
    PROVE  TypeInv'
<1>1. /\ disk' = disk \/ WritePage(pageId[f], data[f])
      /\ dirty' = [dirty EXCEPT ![f] = FALSE] \/ dirty' = dirty
      /\ UNCHANGED <<pageId, data, pinCount, loading, poolVars, numPages, history>>
  BY DEF Scan
<1>2. /\ call' \in [Client -> CallRecord] /\ hold' \in [Client -> HoldRecord] /\ CallsFormed'
      /\ \A d \in Client : call'[d].frame \in {call[d].frame, NoFrame}
  BY ScanCalls
<1>3. disk' \in [Page -> Contents]
  BY <1>1, WriteTyped
<1>4. dirty' \in [Frame -> BOOLEAN]
  BY <1>1 DEF TypeInv, TypeOK
<1>5. TypeOK'
  BY <1>1, <1>2, <1>3, <1>4 DEF TypeInv, TypeOK, poolVars, history
<1>6. QED
  BY <1>1, <1>2, <1>5, SameLists DEF TypeInv

\* A content that is one write later.
LEMMA NextVersion ==
    ASSUME NEW p \in Page, NEW content \in Contents, Version(content) < MaxVersion
    PROVE  Written(p, Version(content) + 1) \in Contents
<1>1. Version(content) \in Nat
  <2>1. CASE content = Zeros
    BY <2>1 DEF Version
  <2>2. CASE content # Zeros
    <3>1. PICK q \in Page, v \in 1..MaxVersion : content = <<q, v>>
      BY <2>2 DEF Contents, Written
    <3>2. Version(content) = v
      BY <2>2, <3>1 DEF Version
    <3>3. QED
      BY <3>2, Constants
  <2>3. QED
    BY <2>1, <2>2
<1>2. Version(content) + 1 \in 1..MaxVersion
  BY <1>1, Constants
<1>3. QED
  BY <1>2 DEF Contents

LEMMA WriteStepTyped ==
    ASSUME TypeInv, NEW c \in Client, Write(c)
    PROVE  TypeInv'
<1> DEFINE f == hold[c].frame
           p == hold[c].page
           v == Written(p, Version(latest[p]) + 1)
           h == [hold[c] EXCEPT !.wrote = TRUE]
<1>1. /\ hold[c] # NoHold /\ Version(latest[p]) < MaxVersion
      /\ data' = [data EXCEPT ![f] = v]
      /\ latest' = [latest EXCEPT ![p] = v]
      /\ hold' = [hold EXCEPT ![c] = h] /\ call[c] = Idle
      /\ UNCHANGED <<pageId, pinCount, dirty, loading, poolVars, diskVars, call, raced>>
  BY DEF Write, MayCall, TypeInv, TypeOK
<1>2. p \in Page /\ f \in Frame /\ hold[c] \in HoldRecord
  BY <1>1, Typed DEF HoldFormed
<1>3. h \in HoldRecord /\ h.page = p /\ h.frame = f
  BY <1>2 DEF HoldRecord
<1>4. v \in Contents
  BY <1>1, <1>2, NextVersion DEF TypeInv, TypeOK
<1> HIDE DEF f, p, v, h
<1>5. HoldFormed(h) /\ call' = [call EXCEPT ![c] = Idle]
  BY <1>1, <1>2, <1>3 DEF HoldFormed, TypeInv, TypeOK
<1>6. hold' \in [Client -> HoldRecord] /\ CallsFormed'
  BY <1>1, <1>3, <1>5, Returns
<1>7. data' \in [Frame -> Contents] /\ latest' \in [Page -> Contents]
  BY <1>1, <1>2, <1>4 DEF TypeInv, TypeOK
<1>8. TypeOK'
  BY <1>1, <1>6, <1>7 DEF TypeInv, TypeOK, poolVars, diskVars
<1>9. FreeUnused'
  BY <1>1 DEF TypeInv, FreeUnused, poolVars
<1>10. QED
  BY <1>6, <1>8, <1>9 DEF TypeInv

\* The constructor's free list.
LEMMA AllFramesTyped ==
    /\ AllFrames \in Seq(Frame) /\ <<>> \in Seq(Frame)
    /\ IsInjective(AllFrames \o <<>>)
    /\ \A g : ~Contains(<<>>, g)
<1>1. PoolSize \in Nat /\ \A i \in 1..PoolSize : i - 1 \in Frame
  BY PoolSizeAssumption DEF Frame
<1>2. AllFrames \in Seq(Frame)
  BY <1>1, IsASeq DEF AllFrames
<1>3. <<>> \in Seq(Frame)
  BY EmptySeq
<1>4. IsInjective(AllFrames)
  BY <1>1 DEF IsInjective, AllFrames
<1>5. AllFrames \o <<>> = AllFrames
  BY <1>2, ConcatEmptySeq
<1>6. QED
  BY <1>2, <1>3, <1>4, <1>5 DEF Contains

\* A process that has just started, on a file of any length.
Started ==
    /\ pageId = [f \in Frame |-> NoPage]
    /\ data = [f \in Frame |-> Zeros]
    /\ pinCount = [f \in Frame |-> 0]
    /\ dirty = [f \in Frame |-> FALSE]
    /\ loading = [f \in Frame |-> FALSE]
    /\ table = [p \in Page |-> NoFrame]
    /\ freeList = AllFrames
    /\ lru = <<>>
    /\ call = [c \in Client |-> Idle]
    /\ hold = [c \in Client |-> NoHold]
    /\ latest = disk
    /\ raced = FALSE
    /\ disk \in [Page -> Contents] /\ numPages \in 0..MaxPages

LEMMA StartedTyped == Started => TypeInv
<1> SUFFICES ASSUME Started PROVE TypeInv
  OBVIOUS
<1>1. Zeros \in Contents
  BY DEF Contents
<1>2. /\ pageId \in [Frame -> Page \cup {NoPage}] /\ data \in [Frame -> Contents]
      /\ pinCount \in [Frame -> Nat] /\ dirty \in [Frame -> BOOLEAN]
      /\ loading \in [Frame -> BOOLEAN] /\ table \in [Page -> Frame \cup {NoFrame}]
      /\ latest \in [Page -> Contents] /\ raced \in BOOLEAN
  BY <1>1 DEF Started
<1>3. call \in [Client -> CallRecord] /\ hold \in [Client -> HoldRecord]
  BY RecordTypes DEF Started
<1>4. freeList \in Seq(Frame) /\ lru \in Seq(Frame) /\ IsInjective(freeList \o lru)
  BY AllFramesTyped DEF Started
<1>5. TypeOK
  BY <1>2, <1>3, <1>4 DEF TypeOK, Started
<1>6. CallsFormed
  BY RecordTypes DEF CallsFormed, Started
<1>7. FreeUnused
  <2>1. /\ \A g : ~Contains(lru, g)
        /\ \A p \in Page : table[p] = NoFrame
        /\ \A c \in Client : call[c].frame = NoFrame
    BY AllFramesTyped, RecordTypes DEF Started
  <2>2. QED
    BY <2>1, Constants DEF FreeUnused
<1>8. QED
  BY <1>5, <1>6, <1>7 DEF TypeInv

LEMMA InitStarted == Init => Started
<1> SUFFICES ASSUME Init PROVE Started
  OBVIOUS
<1>1. Zeros \in Contents
  BY DEF Contents
<1>2. disk = [p \in Page |-> Zeros] /\ numPages = 0
  BY DEF Init, DiskInit
<1>3. disk \in [Page -> Contents] /\ numPages \in 0..MaxPages
  BY <1>1, <1>2, MaxPagesAssumption
<1>4. QED
  BY <1>3 DEF Init, Started

LEMMA CrashStarted ==
    ASSUME TypeInv, CrashAndReopen
    PROVE  Started'
  BY DEF CrashAndReopen, Started, TypeInv, TypeOK, diskVars

LEMMA TypeStep ==
    ASSUME TypeInv, [Next]_vars
    PROVE  TypeInv'
<1>1. CASE UNCHANGED vars
  BY <1>1 DEF vars, frameVars, poolVars, diskVars, history, TypeInv, TypeOK, CallsFormed, FreeUnused
<1>2. ASSUME NEW c \in Client, CallStep(c) PROVE TypeInv'
  BY <1>2, SleepAgainTyped, WriteBackTyped, ResetFrameTyped, FillTyped, FillThrowsTyped,
     PublishTyped, UnpinTyped, ReleaseTyped, FlushWriteTyped, ScanTyped DEF CallStep
<1>3. ASSUME NEW c \in Client, NEW p \in Page, NEW f \in Frame, Lookup(c, p, f)
      PROVE  TypeInv'
  BY <1>3, FetchHitTyped, FoundTyped DEF Lookup
<1>4. ASSUME NEW c \in Client, StartCall(c) PROVE TypeInv'
  BY <1>4, SleepTyped, FetchMissTyped, UnpinNotFoundTyped, NewPageTyped,
     FlushAllPagesTyped, WriteStepTyped DEF StartCall
<1>5. CASE CrashAndReopen
  <2>1. Started'
    BY <1>5, CrashStarted
  <2>2. QED
    BY <2>1, StartedTyped, PTL
<1>6. QED
  BY <1>1, <1>2, <1>3, <1>4, <1>5 DEF Next

-----------------------------------------------------------------------------
(***************************************************************************)
(* The file.                                                               *)
(***************************************************************************)

\* No call of NewPage begins or changes its page.
OldNews ==
    \A d \in Client : call'[d].op = "new" =>
        call[d].op = "new" /\ call'[d].page = call[d].page

\* A step that allocates no page, and writes none that is not allocated.
LEMMA FileKept ==
    ASSUME TypeInv, FileInv, OldNews, UNCHANGED numPages,
           \A f \in Frame : pageId'[f] = pageId[f] \/ pageId'[f] < numPages,
           \A p \in Page : numPages <= p => disk'[p] = disk[p]
    PROVE  FileInv'
  BY DEF FileInv, FileEnd, OldNews

\* Writing the page of a frame leaves alone what is not allocated.
LEMMA WriteKeepsRest ==
    ASSUME TypeInv, FileInv, NEW f \in Frame,
           disk' = disk \/ WritePage(pageId[f], data[f])
    PROVE  \A p \in Page : numPages <= p => disk'[p] = disk[p]
<1>1. disk \in [Page -> Contents] /\ numPages \in Int /\ pageId[f] \in Int /\ pageId[f] < numPages
  BY Constants DEF TypeInv, TypeOK, FileInv, Page, NoPage
<1>2. \A p \in Page : p \in Int
  BY DEF Page
<1>3. QED
  BY <1>1, <1>2 DEF WritePage

\* The steps that change calls, pages held, flags, counts and lists only.
LEMMA FileUntouched ==
    ASSUME TypeInv, FileInv, OldNews, UNCHANGED <<pageId, diskVars>>
    PROVE  FileInv'
<1>1. numPages' = numPages /\ disk' = disk /\ pageId' = pageId
  BY DEF diskVars
<1>2. QED
  BY <1>1, FileKept

LEMMA CallStepFile ==
    ASSUME TypeInv, FileInv, NEW c \in Client, CallStep(c)
    PROVE  FileInv'
<1>1. CASE SleepAgain(c)
  <2>1. UNCHANGED <<pageId, diskVars>> /\ call' = [call EXCEPT ![c].at = "asleep"]
    BY <1>1 DEF SleepAgain, frameVars
  <2>2. OldNews
    BY <2>1, Typed DEF OldNews, TypeInv, TypeOK, CallRecord
  <2>3. QED
    BY <2>1, <2>2, FileUntouched
<1>2. CASE WriteBack(c)
  <2>1. /\ call[c].at = "write" /\ call' = [call EXCEPT ![c].at = "reset"]
        /\ disk' = disk \/ WritePage(pageId[call[c].frame], data[call[c].frame])
        /\ UNCHANGED <<pageId, numPages, hold>>
    BY <1>2 DEF WriteBack, frameVars
  <2>2. OldNews
    BY <2>1, NextSection, ZenonT(60) DEF Loads, OldNews
  <2>3. \A p \in Page : numPages <= p => disk'[p] = disk[p]
    BY <2>1, Typed, WriteKeepsRest DEF CallFormed
  <2>4. QED
    BY <2>1, <2>2, <2>3, FileKept
<1>3. CASE ResetFrame(c)
  <2>1. /\ call[c].at = "reset" /\ call' = [call EXCEPT ![c].at = "fill"]
        /\ pageId' = [pageId EXCEPT ![call[c].frame] = NoPage]
        /\ UNCHANGED <<diskVars, hold>>
    BY <1>3 DEF ResetFrame
  <2>2. OldNews
    BY <2>1, NextSection, ZenonT(60) DEF Loads, OldNews
  <2>3. \A f \in Frame : pageId'[f] = pageId[f] \/ pageId'[f] < numPages
    <3>1. pageId \in [Frame -> Page \cup {NoPage}] /\ numPages \in Nat
      BY Constants DEF TypeInv, TypeOK
    <3>2. NoPage < numPages
      BY <3>1 DEF NoPage
    <3>3. QED
      BY <2>1, <3>1, <3>2
  <2>4. QED
    BY <2>1, <2>2, <2>3, FileKept DEF diskVars
<1>4. CASE Fill(c)
  <2>1. /\ call[c].at = "fill" /\ call' = [call EXCEPT ![c].at = "publish"]
        /\ call[c].op = "fetch" => call[c].page < numPages
        /\ pageId' = [pageId EXCEPT ![call[c].frame] = call[c].page]
        /\ UNCHANGED <<diskVars, hold>>
    BY <1>4 DEF Fill, Readable
  <2>2. OldNews
    BY <2>1, NextSection, ZenonT(60) DEF Loads, OldNews
  <2>3. call[c].page < numPages
    BY <2>1, Typed DEF FileInv, CallFormed
  <2>4. \A f \in Frame : pageId'[f] = pageId[f] \/ pageId'[f] < numPages
    BY <2>1, <2>3 DEF TypeInv, TypeOK
  <2>5. QED
    BY <2>1, <2>2, <2>4, FileKept DEF diskVars
<1>5. CASE FillThrows(c)
  <2>1. UNCHANGED <<pageId, diskVars>> /\ call' = [call EXCEPT ![c] = Idle]
    BY <1>5 DEF FillThrows, frameVars
  <2>2. OldNews
    BY <2>1, RecordTypes DEF OldNews, TypeInv, TypeOK
  <2>3. QED
    BY <2>1, <2>2, FileUntouched
<1>6. CASE Publish(c)
  <2>1. UNCHANGED <<pageId, diskVars>>
    BY <1>6 DEF Publish
  <2>2. OldNews
    BY <1>6, PublishCalls, RecordTypes DEF OldNews
  <2>3. QED
    BY <2>1, <2>2, FileUntouched
<1>7. CASE Unpin(c)
  <2>1. UNCHANGED <<pageId, diskVars>>
    BY <1>7 DEF Unpin
  <2>2. OldNews
    BY <1>7, UnpinCalls, RecordTypes DEF OldNews
  <2>3. QED
    BY <2>1, <2>2, FileUntouched
<1>8. CASE Release(c)
  <2>1. UNCHANGED <<pageId, diskVars>> /\ call' = [call EXCEPT ![c] = Idle]
    BY <1>8 DEF Release, frameVars
  <2>2. OldNews
    BY <2>1, RecordTypes DEF OldNews, TypeInv, TypeOK
  <2>3. QED
    BY <2>1, <2>2, FileUntouched
<1>9. CASE FlushWrite(c)
  <2>1. /\ call[c].at = "force" /\ call' = [call EXCEPT ![c] = Idle]
        /\ disk' = disk \/ WritePage(pageId[call[c].frame], data[call[c].frame])
        /\ UNCHANGED <<pageId, numPages>>
    BY <1>9 DEF FlushWrite
  <2>2. OldNews
    BY <2>1, RecordTypes DEF OldNews, TypeInv, TypeOK
  <2>3. \A p \in Page : numPages <= p => disk'[p] = disk[p]
    BY <2>1, Typed, WriteKeepsRest DEF CallFormed
  <2>4. QED
    BY <2>1, <2>2, <2>3, FileKept
<1>10. ASSUME NEW f \in Frame, Scan(c, f) PROVE FileInv'
  <2>1. /\ disk' = disk \/ WritePage(pageId[f], data[f])
        /\ UNCHANGED <<pageId, numPages>>
    BY <1>10 DEF Scan
  <2>2. OldNews
    BY <1>10, ScanCalls, RecordTypes DEF OldNews
  <2>3. \A p \in Page : numPages <= p => disk'[p] = disk[p]
    BY <2>1, WriteKeepsRest
  <2>4. QED
    BY <2>1, <2>2, <2>3, FileKept
<1>11. QED
  BY <1>1, <1>2, <1>3, <1>4, <1>5, <1>6, <1>7, <1>8, <1>9, <1>10 DEF CallStep

LEMMA LookupFile ==
    ASSUME TypeInv, FileInv, NEW c \in Client, NEW p \in Page, NEW f \in Frame, Lookup(c, p, f)
    PROVE  FileInv'
<1>1. /\ UNCHANGED <<pageId, diskVars>>
      /\ \E r \in {Idle, Calling("unpin", "count", p, f), Calling("flush", "force", p, f)} :
             call' = [call EXCEPT ![c] = r]
  BY DEF Lookup, FetchHit, UnpinFound, FlushFound, frameVars
<1>2. PICK r \in {Idle, Calling("unpin", "count", p, f), Calling("flush", "force", p, f)} :
          call' = [call EXCEPT ![c] = r]
  BY <1>1
<1>3. r.op # "new"
  <2>1. /\ Idle.op = "idle" /\ Calling("unpin", "count", p, f).op = "unpin"
        /\ Calling("flush", "force", p, f).op = "flush"
    BY DEF Calling, Idle
  <2>2. r = Idle \/ r = Calling("unpin", "count", p, f) \/ r = Calling("flush", "force", p, f)
    OBVIOUS
  <2>3. QED
    BY <2>1, <2>2
<1>4. OldNews
  BY <1>2, <1>3 DEF OldNews, TypeInv, TypeOK
<1>5. QED
  BY <1>1, <1>4, FileUntouched

LEMMA StartCallFile ==
    ASSUME TypeInv, FileInv, NEW c \in Client, StartCall(c)
    PROVE  FileInv'
<1>1. ASSUME NEW p \in Page, NEW op \in {"fetch", "unpin", "flush"}, Sleep(c, op, p)
      PROVE  FileInv'
  <2>1. /\ UNCHANGED <<pageId, diskVars>>
        /\ call' = [call EXCEPT ![c] = Calling(op, "asleep", p, table[p])]
    BY <1>1 DEF Sleep, frameVars
  <2>2. OldNews
    BY <2>1 DEF OldNews, TypeInv, TypeOK, Calling
  <2>3. QED
    BY <2>1, <2>2, FileUntouched
<1>2. ASSUME NEW p \in Page, FetchMiss(c, p) PROVE FileInv'
  <2>1. /\ UNCHANGED <<pageId, diskVars>>
        /\ call' = [call EXCEPT ![c] = Calling("fetch", "write", p, TheFrame)]
    BY <1>2 DEF FetchMiss
  <2>2. OldNews
    BY <2>1 DEF OldNews, TypeInv, TypeOK, Calling
  <2>3. QED
    BY <2>1, <2>2, FileUntouched
<1>3. CASE UnpinNotFound(c)
  <2>1. UNCHANGED <<pageId, diskVars, call>>
    BY <1>3 DEF UnpinNotFound, frameVars
  <2>2. QED
    BY <2>1, FileUntouched DEF OldNews
<1>4. CASE NewPage(c)
  <2>1. /\ numPages' = numPages + 1 /\ disk' = [disk EXCEPT ![numPages] = Zeros]
        /\ numPages \notin MissingPages /\ pageId' = pageId
        /\ call' = [call EXCEPT ![c] = Calling("new", "write", numPages, TheFrame)]
    BY <1>4 DEF NewPage, AllocatePage, NextPageId, frameVars
  <2>2. /\ numPages \in Int /\ MissingPages \subseteq Page
        /\ \A p \in Page : p \in Int
        /\ \A f \in Frame : pageId[f] \in Int
    BY Constants DEF TypeInv, TypeOK, Page, NoPage
  <2>3. \A p \in MissingPages : numPages' <= p
    BY <2>1, <2>2 DEF FileInv, FileEnd
  <2>4. \A f \in Frame : pageId'[f] < numPages'
    BY <2>1, <2>2 DEF FileInv
  <2>5. \A d \in Client : call'[d].op = "new" => call'[d].page < numPages'
    <3>1. /\ call \in [Client -> CallRecord]
          /\ Calling("new", "write", numPages, TheFrame).page = numPages
      BY DEF TypeInv, TypeOK, Calling
    <3>2. /\ call'[c].page = numPages
          /\ \A d \in Client \ {c} : call'[d] = call[d]
      BY <2>1, <3>1
    <3>3. \A d \in Client : call[d].page \in Int
      <4>1. Page \cup {NoPage} \subseteq Int
        BY <2>2 DEF NoPage
      <4>2. QED
        BY <3>1, <4>1 DEF CallRecord
    <3>4. QED
      BY <2>1, <2>2, <3>2, <3>3 DEF FileInv
  <2>6. \A p \in Page : numPages' <= p => disk'[p] = Zeros
    <3>1. disk \in [Page -> Contents]
      BY DEF TypeInv, TypeOK
    <3>2. QED
      BY <2>1, <2>2, <3>1 DEF FileInv, FileEnd
  <2>7. QED
    BY <2>3, <2>4, <2>5, <2>6 DEF FileInv, FileEnd
<1>5. CASE FlushAllPages(c)
  <2>1. /\ UNCHANGED <<pageId, diskVars>>
        /\ call' = [call EXCEPT ![c] =
               [Calling("flushAll", "scan", NoPage, NoFrame) EXCEPT !.todo = MappedFrames]]
    BY <1>5 DEF FlushAllPages, frameVars
  <2>2. OldNews
    BY <2>1 DEF OldNews, TypeInv, TypeOK, Calling
  <2>3. QED
    BY <2>1, <2>2, FileUntouched
<1>6. CASE Write(c)
  <2>1. UNCHANGED <<pageId, diskVars, call>>
    BY <1>6 DEF Write
  <2>2. QED
    BY <2>1, FileUntouched DEF OldNews
<1>7. QED
  BY <1>1, <1>2, <1>3, <1>4, <1>5, <1>6 DEF StartCall

\* A process that starts finds a file with nothing beyond its end.
LEMMA StartedFile ==
    Started /\ FileEnd => FileInv
<1> SUFFICES ASSUME Started, FileEnd PROVE FileInv
  OBVIOUS
<1>1. /\ numPages \in Nat /\ \A f \in Frame : pageId[f] = NoPage
      /\ \A c \in Client : call[c].op = "idle"
  <2>1. 0..MaxPages \subseteq Nat
    BY MaxPagesAssumption
  <2>2. QED
    BY <2>1, RecordTypes DEF Started
<1>2. \A f \in Frame : pageId[f] < numPages
  BY <1>1 DEF NoPage
<1>3. QED
  BY <1>1, <1>2 DEF FileInv

LEMMA InitFile == Init => FileInv
<1> SUFFICES ASSUME Init PROVE FileInv
  OBVIOUS
<1>1. disk = [p \in Page |-> Zeros] /\ numPages = 0
  BY DEF Init, DiskInit
<1>2. FileEnd
  BY <1>1, Constants DEF Page, FileEnd
<1>3. Started
  BY InitStarted
<1>4. QED
  BY <1>1, <1>2, <1>3, StartedFile

LEMMA FileStep ==
    ASSUME TypeInv, FileInv, [Next]_vars
    PROVE  FileInv'
<1>1. CASE UNCHANGED vars
  BY <1>1 DEF vars, frameVars, diskVars, FileInv, FileEnd
<1>2. CASE CrashAndReopen
  <2>1. Started' /\ UNCHANGED <<disk, numPages>>
    BY <1>2, CrashStarted DEF CrashAndReopen, diskVars
  <2>2. FileEnd'
    BY <2>1 DEF FileInv, FileEnd
  <2>3. QED
    BY <2>1, <2>2, StartedFile, PTL
<1>3. QED
  BY <1>1, <1>2, CallStepFile, LookupFile, StartCallFile DEF Next

\* Every state has its types, and no frame is listed twice (TypeOK in
\* BufferPool), whatever calls meet.
THEOREM PoolTypes == Spec => []TypeOK
<1>1. Init => TypeInv
  BY InitStarted, StartedTyped
<1>2. TypeInv /\ [Next]_vars => TypeInv'
  BY TypeStep
<1>3. TypeInv => TypeOK
  BY DEF TypeInv
<1>4. QED
  BY <1>1, <1>2, <1>3, PTL DEF Spec
=============================================================================
