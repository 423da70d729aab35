---------------------------- MODULE ContentsProofs -----------------------------
(***************************************************************************)
(* Theorems about the contents: that their order survives moves, deletions *)
(* and drags (ContentOrder), and that watching one, like the other rows    *)
(* that earn, is rewarded once (RewardProducers).                          *)
(***************************************************************************)
EXTENDS ContentOrder, RewardProducers, FiniteSetTheorems, SequenceTheorems,
        NaturalsInduction, TLAPS

-------------------------------------------------------------------------------
(* Lists of contents, place by place.                                      *)
LEMMA Removed ==
    ASSUME NEW S, NEW s \in Seq(S), NEW i \in 1 .. Len(s)
    PROVE  /\ RemoveAt(s, i) \in Seq(S) /\ Len(RemoveAt(s, i)) = Len(s) - 1
           /\ \A j \in 1 .. Len(s) - 1 : RemoveAt(s, i)[j] = IF j < i THEN s[j] ELSE s[j + 1]
<1> DEFINE t == SubSeq(s, 1, i - 1)
           u == SubSeq(s, i + 1, Len(s))
<1>9. RemoveAt(s, i) = t \o u
  BY DEF RemoveAt
<1>0. Len(s) \in Nat /\ i \in Int
  OBVIOUS
<1>1. /\ t \in Seq(S) /\ Len(t) = i - 1
      /\ \A j \in 1 .. i - 1 : t[j] = s[j]
  BY SubSeqProperties
<1>2. /\ u \in Seq(S) /\ Len(u) = Len(s) - i
      /\ \A j \in 1 .. Len(s) - i : u[j] = s[i + j]
  BY SubSeqProperties
<1> HIDE DEF t, u
<1>3. /\ t \o u \in Seq(S) /\ Len(t \o u) = Len(t) + Len(u)
      /\ \A j \in 1 .. Len(t) + Len(u) : (t \o u)[j] = IF j <= Len(t) THEN t[j] ELSE u[j - Len(t)]
  BY <1>1, <1>2, ConcatProperties
<1>4. ASSUME NEW j \in 1 .. Len(s) - 1
      PROVE  (t \o u)[j] = IF j < i THEN s[j] ELSE s[j + 1]
  <2>1. CASE j < i
    BY <1>1, <1>2, <1>3, <2>1
  <2>2. CASE j >= i
    <3>1. j - (i - 1) \in 1 .. Len(s) - i /\ (t \o u)[j] = u[j - (i - 1)]
      <4>1. j \in 1 .. Len(t) + Len(u) /\ ~(j <= Len(t)) /\ j - Len(t) = j - (i - 1)
        BY <1>1, <1>2, <2>2
      <4>2. (t \o u)[j] = u[j - Len(t)]
        BY <1>3, <4>1
      <4> QED
        BY <2>2, <4>1, <4>2
    <3>2. u[j - (i - 1)] = s[i + (j - (i - 1))] /\ i + (j - (i - 1)) = j + 1
      BY <1>2, <3>1
    <3> QED
      BY <2>2, <3>1, <3>2
  <2>3. j < i \/ j >= i
    BY <1>0
  <2> QED
    BY <2>1, <2>2, <2>3, Zenon
<1> QED
  <2>2. Len(t \o u) = Len(s) - 1
    BY <1>1, <1>2, <1>3
  <2> QED
    BY <1>9, <1>3, <1>4, <2>2

LEMMA Inserted ==
    ASSUME NEW S, NEW s \in Seq(S), NEW i \in 1 .. Len(s) + 1, NEW c \in S
    PROVE  /\ InsertAt(s, i, c) \in Seq(S) /\ Len(InsertAt(s, i, c)) = Len(s) + 1
           /\ \A j \in 1 .. Len(s) + 1 :
                  InsertAt(s, i, c)[j] = IF j < i THEN s[j] ELSE IF j = i THEN c ELSE s[j - 1]
<1> DEFINE t == SubSeq(s, 1, i - 1)
           u == SubSeq(s, i, Len(s))
           v == t \o <<c>>
<1>9. InsertAt(s, i, c) = v \o u
  BY DEF InsertAt
<1>0. Len(s) \in Nat /\ i \in Int
  OBVIOUS
<1>1. /\ t \in Seq(S) /\ Len(t) = i - 1
      /\ \A j \in 1 .. i - 1 : t[j] = s[j]
  BY SubSeqProperties
<1>2. /\ u \in Seq(S) /\ Len(u) = Len(s) + 1 - i
      /\ \A j \in 1 .. Len(s) + 1 - i : u[j] = s[i + j - 1]
  BY SubSeqProperties
<1> HIDE DEF t, u
<1>3. <<c>> \in Seq(S) /\ Len(<<c>>) = 1 /\ <<c>>[1] = c
  OBVIOUS
<1>4. /\ v \in Seq(S) /\ Len(v) = Len(t) + 1
      /\ \A j \in 1 .. Len(t) + 1 : v[j] = IF j <= Len(t) THEN t[j] ELSE <<c>>[j - Len(t)]
  BY <1>1, <1>3, ConcatProperties
<1> HIDE DEF v
<1>5. /\ v \o u \in Seq(S) /\ Len(v \o u) = Len(v) + Len(u)
      /\ \A j \in 1 .. Len(v) + Len(u) : (v \o u)[j] = IF j <= Len(v) THEN v[j] ELSE u[j - Len(v)]
  BY <1>2, <1>4, ConcatProperties
<1>6. ASSUME NEW j \in 1 .. Len(s) + 1
      PROVE  (v \o u)[j] = IF j < i THEN s[j] ELSE IF j = i THEN c ELSE s[j - 1]
  <2>1. CASE j < i
    <3>1. /\ j \in 1 .. Len(v) + Len(u) /\ j <= Len(v) /\ j \in 1 .. Len(t) + 1
          /\ j <= Len(t) /\ j \in 1 .. i - 1
      BY <1>0, <1>1, <1>2, <1>4, <2>1
    <3>2. (v \o u)[j] = v[j] /\ v[j] = t[j] /\ t[j] = s[j]
      BY <1>1, <1>4, <1>5, <3>1
    <3> QED
      BY <2>1, <3>2
  <2>2. CASE j = i
    <3>1. j \in 1 .. Len(v) + Len(u) /\ j <= Len(v) /\ j \in 1 .. Len(t) + 1 /\ ~(j <= Len(t))
      BY <1>1, <1>2, <1>4, <2>2
    <3>2. (v \o u)[j] = v[j] /\ v[j] = <<c>>[j - Len(t)]
      BY <1>4, <1>5, <3>1
    <3>3. j - Len(t) = 1
      BY <1>1, <2>2
    <3> QED
      BY <1>3, <2>2, <3>2, <3>3
  <2>3. CASE j > i
    <3>1. j - i \in 1 .. Len(s) + 1 - i /\ (v \o u)[j] = u[j - i]
      <4>1. j \in 1 .. Len(v) + Len(u) /\ ~(j <= Len(v)) /\ j - Len(v) = j - i
        BY <1>1, <1>2, <1>4, <2>3
      <4>2. (v \o u)[j] = u[j - Len(v)]
        BY <1>5, <4>1
      <4> QED
        BY <2>3, <4>1, <4>2
    <3>2. u[j - i] = s[i + (j - i) - 1] /\ i + (j - i) - 1 = j - 1
      BY <1>2, <3>1
    <3> QED
      BY <2>3, <3>1, <3>2
  <2>4. j < i \/ j = i \/ j > i
    BY <1>0
  <2> QED
    BY <2>1, <2>2, <2>3, <2>4, Zenon
<1> QED
  <2>2. Len(v \o u) = Len(s) + 1
    BY <1>1, <1>2, <1>4, <1>5
  <2> QED
    BY <1>9, <1>5, <1>6, <2>2

LEMMA Placed ==
    ASSUME NEW s, IsInjective(s), NEW i \in DOMAIN s
    PROVE  PlaceIn(s, s[i]) = i
BY DEF PlaceIn, IsInjective

LEMMA Ranges ==
    ASSUME NEW S, NEW s \in Seq(S)
    PROVE  /\ DOMAIN s = 1 .. Len(s) /\ Range(s) \subseteq S
           /\ \A c : c \in Range(s) <=> \E i \in 1 .. Len(s) : s[i] = c
BY DEF Range

(* One left out: those before it keep their place, the others move up.     *)
LEMMA LeftOut ==
    ASSUME NEW S, NEW s \in Seq(S), IsInjective(s), NEW k \in 1 .. Len(s)
    PROVE  /\ Without(s, s[k]) \in Seq(S) /\ Len(Without(s, s[k])) = Len(s) - 1
           /\ \A j \in 1 .. Len(s) - 1 :
                  Without(s, s[k])[j] = IF j < k THEN s[j] ELSE s[j + 1]
<1>1. s[k] \in Range(s) /\ PlaceIn(s, s[k]) = k
  BY Ranges, Placed
<1> QED
  BY <1>1, Removed DEF Without

LEMMA NotThere == ASSUME NEW s, NEW c, c \notin Range(s) PROVE Without(s, c) = s
BY DEF Without

LEMMA WithoutOne ==
    ASSUME NEW S, NEW s \in Seq(S), IsInjective(s), NEW c
    PROVE  /\ Without(s, c) \in Seq(S) /\ IsInjective(Without(s, c))
           /\ Range(Without(s, c)) = Range(s) \ {c}
<1>1. CASE c \notin Range(s)
  BY <1>1, NotThere
<1>2. CASE c \in Range(s)
  <2>1. PICK k \in 1 .. Len(s) : s[k] = c
    BY <1>2, Ranges
  <2> DEFINE w == Without(s, c)
  <2>2. /\ w \in Seq(S) /\ Len(w) = Len(s) - 1
        /\ \A j \in 1 .. Len(s) - 1 : w[j] = IF j < k THEN s[j] ELSE s[j + 1]
    BY <2>1, LeftOut
  <2> HIDE DEF w
  <2>3. \A i, j \in 1 .. Len(s) : s[i] = s[j] => i = j
    BY DEF IsInjective
  <2>4. \A i, j \in 1 .. Len(w) : w[i] = w[j] => i = j
    BY <2>2, <2>3
  <2>5. IsInjective(w)
    BY <2>2, <2>4 DEF IsInjective
  <2>6. ASSUME NEW d PROVE d \in Range(w) <=> d \in Range(s) \ {c}
    <3>1. ASSUME NEW j \in 1 .. Len(w), w[j] = d PROVE d \in Range(s) \ {c}
      <4>1. j \in 1 .. Len(s) /\ j + 1 \in 1 .. Len(s) /\ ((w[j] = s[j] /\ j < k) \/ (w[j] = s[j + 1] /\ j >= k))
        BY <2>2
      <4>2. d # c
        BY <2>1, <2>3, <3>1, <4>1
      <4> QED
        BY <3>1, <4>1, <4>2, Ranges
    <3>2. ASSUME NEW i \in 1 .. Len(s), s[i] = d, d # c PROVE \E j \in 1 .. Len(w) : w[j] = d
      <4>1. CASE i < k
        BY <2>2, <3>2, <4>1
      <4>2. CASE i > k
        <5>1. i - 1 \in 1 .. Len(w) /\ w[i - 1] = s[i]
          BY <2>2, <4>2
        <5> QED
          BY <3>2, <5>1
      <4> QED
        BY <2>1, <3>2, <4>1, <4>2
    <3> QED
      BY <2>2, <3>1, <3>2, Ranges
  <2> QED
    BY <2>2, <2>5, <2>6 DEF w
<1> QED
  BY <1>1, <1>2

LEMMA WithOne ==
    ASSUME NEW S, NEW s \in Seq(S), IsInjective(s), NEW i \in 1 .. Len(s) + 1,
           NEW c \in S, c \notin Range(s)
    PROVE  /\ InsertAt(s, i, c) \in Seq(S) /\ IsInjective(InsertAt(s, i, c))
           /\ Range(InsertAt(s, i, c)) = Range(s) \cup {c}
<1> DEFINE w == InsertAt(s, i, c)
<1>0. Len(s) \in Nat /\ i \in Int
  OBVIOUS
<1>1. /\ w \in Seq(S) /\ Len(w) = Len(s) + 1
      /\ \A j \in 1 .. Len(s) + 1 : w[j] = IF j < i THEN s[j] ELSE IF j = i THEN c ELSE s[j - 1]
  <2> HIDE DEF w
  <2>1. \A e \in S : e \notin Range(s) =>
           /\ InsertAt(s, i, e) \in Seq(S) /\ Len(InsertAt(s, i, e)) = Len(s) + 1
           /\ \A j \in 1 .. Len(s) + 1 :
                  InsertAt(s, i, e)[j] = IF j < i THEN s[j] ELSE IF j = i THEN e ELSE s[j - 1]
    BY Inserted
  <2> QED
    BY <2>1 DEF w
<1> HIDE DEF w
<1>2. \A j, k \in 1 .. Len(s) : s[j] = s[k] => j = k
  BY DEF IsInjective
<1>3. \A j \in 1 .. Len(s) : s[j] # c
  BY Ranges
<1>4. \A j, k \in 1 .. Len(w) : w[j] = w[k] => j = k
  <2>1. \A j \in 1 .. Len(w) : \/ j < i /\ j \in 1 .. Len(s) /\ w[j] = s[j]
                               \/ j = i /\ w[j] = c
                               \/ j > i /\ j - 1 \in 1 .. Len(s) /\ w[j] = s[j - 1]
    BY <1>0, <1>1
  <2>2. SUFFICES ASSUME NEW j \in 1 .. Len(w), NEW k \in 1 .. Len(w), w[j] = w[k] PROVE j = k
    OBVIOUS
  <2>3. j = i <=> k = i
    BY <1>0, <1>3, <2>1, <2>2
  <2>4. CASE j < i /\ k < i
    BY <1>0, <1>2, <2>1, <2>2, <2>4
  <2>5. CASE j < i /\ k > i
    BY <1>0, <1>2, <2>1, <2>2, <2>5
  <2>6. CASE j > i /\ k < i
    BY <1>0, <1>2, <2>1, <2>2, <2>6
  <2>7. CASE j > i /\ k > i
    BY <1>0, <1>2, <2>1, <2>2, <2>7
  <2> QED
    BY <1>0, <1>1, <2>3, <2>4, <2>5, <2>6, <2>7
<1>5. IsInjective(w)
  BY <1>1, <1>4 DEF IsInjective
<1>6. ASSUME NEW d PROVE d \in Range(w) <=> d \in Range(s) \cup {c}
  <2>1. ASSUME NEW j \in 1 .. Len(w), w[j] = d PROVE d \in Range(s) \cup {c}
    <3>1. \/ j \in 1 .. Len(s) /\ w[j] = s[j]
          \/ w[j] = c
          \/ j - 1 \in 1 .. Len(s) /\ w[j] = s[j - 1]
      BY <1>1
    <3> QED
      BY <2>1, <3>1, Ranges
  <2>2. ASSUME NEW k \in 1 .. Len(s), s[k] = d PROVE \E j \in 1 .. Len(w) : w[j] = d
    <3>1. CASE k < i
      BY <1>1, <2>2, <3>1
    <3>2. CASE k >= i
      <4>1. k + 1 \in 1 .. Len(w) /\ w[k + 1] = s[k]
        BY <1>1, <3>2
      <4> QED
        BY <2>2, <4>1
    <3> QED
      BY <3>1, <3>2
  <2>3. i \in 1 .. Len(w) /\ w[i] = c
    BY <1>1
  <2> QED
    BY <1>1, <2>1, <2>2, <2>3, Ranges
<1> QED
  BY <1>1, <1>5, <1>6 DEF w

(* arrayMove takes an item out and puts it in again.                       *)
LEMMA Dragged ==
    ASSUME NEW S, NEW s \in Seq(S), IsInjective(s), NEW i \in DOMAIN s, NEW j \in DOMAIN s
    PROVE  ArrayMove(s, i, j) \in Seq(S) /\ IsInjective(ArrayMove(s, i, j))
<1>1. i \in 1 .. Len(s) /\ j \in 1 .. Len(s) /\ s[i] \in S
  OBVIOUS
<1>2. Without(s, s[i]) = RemoveAt(s, i)
  BY <1>1, Ranges, Placed DEF Without
<1>3. /\ RemoveAt(s, i) \in Seq(S) /\ IsInjective(RemoveAt(s, i))
      /\ Range(RemoveAt(s, i)) = Range(s) \ {s[i]}
  BY <1>2, WithoutOne
<1>4. Len(RemoveAt(s, i)) = Len(s) - 1
  BY <1>1, Removed
<1>5. j \in 1 .. Len(RemoveAt(s, i)) + 1 /\ s[i] \notin Range(RemoveAt(s, i))
  BY <1>1, <1>3, <1>4
<1> HIDE DEF RemoveAt
<1> QED
  BY <1>1, <1>3, <1>5, WithOne DEF ArrayMove

-------------------------------------------------------------------------------
(* Lists sorted by position.                                               *)
LEMMA Listed ==
    ASSUME NEW cs, IsFiniteSet(cs), NEW s \in SetToSeqs(cs)
    PROVE  s \in Seq(cs) /\ IsInjective(s) /\ Range(s) = cs
<1> DEFINE D == 1 .. Cardinality(cs)
<1>1. Cardinality(cs) \in Nat
  BY FS_CardinalityType
<1>2. s \in [D -> cs] /\ \A i, j \in D : i # j => s[i] # s[j]
  BY DEF SetToSeqs
<1>3. IsFiniteSet(D) /\ Cardinality(D) = Cardinality(cs)
  BY <1>1, FS_Interval
<1> HIDE DEF D
<1>4. s \in Injection(D, cs)
  BY <1>2 DEF Injection, IsInjective
<1>5. s \in Surjection(D, cs)
  BY <1>3, <1>4, FS_Injection
<1>6. Range(s) = cs
  BY <1>2, <1>5 DEF Surjection, Range
<1>7. IsInjective(s)
  BY <1>2 DEF IsInjective
<1>8. s \in Seq(cs)
  BY <1>1, <1>2 DEF D
<1> QED
  BY <1>6, <1>7, <1>8

LEMMA Least ==
    ASSUME NEW S \in SUBSET Nat, S # {}
    PROVE  \E n \in S : \A k \in S : n <= k
<1> DEFINE R == OpToRel(<, Nat)
<1>1. IsWellFoundedOn(R, Nat)
  BY NatLessThanWellFounded
<1>2. \A x, y \in Nat : y < x => <<y, x>> \in R
  BY DEF OpToRel
<1> HIDE DEF R
<1>3. PICK n \in S : \A k \in S : <<k, n>> \notin R
  BY <1>1, WFMin
<1>4. \A k \in S : ~(k < n)
  BY <1>2, <1>3
<1> QED
  BY <1>3, <1>4

(* Sorted, the numbered contents come first, each at the place that the    *)
(* number of smaller positions gives it.                                   *)
LEMMA InLine ==
    ASSUME NEW S, NEW s \in Seq(S), IsInjective(s), InSortOrder(s),
           NEW w \in Seq(S), IsInjective(w), Range(w) = Numbered(Range(s)),
           \A i \in 1 .. Len(w) : Sort(w[i]) \in Nat,
           \A i, j \in 1 .. Len(w) : i < j => Sort(w[i]) < Sort(w[j])
    PROVE  Len(w) <= Len(s) /\ \A i \in 1 .. Len(w) : s[i] = w[i]
<1>1. \A i, j \in 1 .. Len(s) : s[i] = s[j] => i = j
  BY DEF IsInjective
<1>2. \A i, j \in 1 .. Len(w) : w[i] = w[j] => i = j
  BY DEF IsInjective
<1>3. \A i \in 1 .. Len(w) : Sort(w[i]) # Null /\ \E j \in 1 .. Len(s) : s[j] = w[i]
  <2> TAKE i \in 1 .. Len(w)
  <2>1. w[i] \in Numbered(Range(s))
    BY Ranges
  <2>2. w[i] \in Range(s) /\ Sort(w[i]) # Null
    BY <2>1 DEF Numbered
  <2> QED
    BY <2>2, Ranges
<1>4. \A j \in 1 .. Len(s) : Sort(s[j]) # Null => \E i \in 1 .. Len(w) : w[i] = s[j]
  <2> SUFFICES ASSUME NEW j \in 1 .. Len(s), Sort(s[j]) # Null
               PROVE  \E i \in 1 .. Len(w) : w[i] = s[j]
    OBVIOUS
  <2>1. s[j] \in Numbered(Range(s))
    BY Ranges DEF Numbered
  <2> QED
    BY <2>1, Ranges
<1> DEFINE Off == {i \in 1 .. Len(w) : i > Len(s) \/ s[i] # w[i]}
<1>5. ASSUME Off # {} PROVE FALSE
  <2>0. Off \in SUBSET Nat
    OBVIOUS
  <2> HIDE DEF Off
  <2>1. PICK i \in Off : \A k \in Off : i <= k
    BY <1>5, <2>0, Least
  <2>2. i \in 1 .. Len(w) /\ (i > Len(s) \/ s[i] # w[i])
    BY <2>1 DEF Off
  <2>3. \A k \in 1 .. Len(w) : k < i => k <= Len(s) /\ s[k] = w[k]
    BY <2>1, <2>2 DEF Off
  <2>4. PICK j \in 1 .. Len(s) : s[j] = w[i]
    BY <1>3, <2>2
  <2>5. ~(j < i)
    BY <1>2, <2>2, <2>3, <2>4
  <2>6. i < j /\ i \in 1 .. Len(s) /\ s[i] # w[i]
    BY <2>2, <2>4, <2>5
  <2>7. ~Before(s[j], s[i])
    BY <2>6 DEF InSortOrder
  <2>8. Sort(s[i]) # Null /\ ~(Sort(w[i]) < Sort(s[i]))
    BY <1>3, <2>2, <2>4, <2>7 DEF Before
  <2>9. PICK k \in 1 .. Len(w) : w[k] = s[i]
    BY <1>4, <2>6, <2>8
  <2>10. ~(i < k)
    BY <2>2, <2>8, <2>9
  <2>11. k < i
    BY <2>2, <2>6, <2>9, <2>10
  <2>12. s[k] = s[i] /\ k \in 1 .. Len(s)
    BY <2>3, <2>9, <2>11
  <2> QED
    BY <1>1, <2>6, <2>11, <2>12
<1>6. \A i \in 1 .. Len(w) : i <= Len(s) /\ s[i] = w[i]
  BY <1>5
<1>7. Len(w) <= Len(s)
  <2>1. CASE Len(w) = 0
    BY <2>1
  <2>2. CASE Len(w) # 0
    BY <1>6, <2>2
  <2> QED
    BY <2>1, <2>2
<1> QED
  BY <1>6, <1>7

LEMMA Continued ==
    ASSUME NEW S, NEW s \in Seq(S), NEW w \in Seq(S), Len(w) <= Len(s),
           \A i \in 1 .. Len(w) : s[i] = w[i]
    PROVE  w \o SubSeq(s, Len(w) + 1, Len(s)) = s
<1>1. SubSeq(s, 1, Len(w)) = w
  <2> DEFINE t == SubSeq(s, 1, Len(w))
  <2>1. t \in Seq(S) /\ Len(t) = Len(w) /\ \A i \in 1 .. Len(w) : t[i] = s[i]
    BY SubSeqProperties
  <2> HIDE DEF t
  <2>2. t = w
    BY <2>1
  <2> QED
    BY <2>2 DEF t
<1>2. /\ 1 \in 1 .. Len(s) + 1
      /\ Len(w) \in 1 - 1 .. Len(s)
      /\ Len(s) \in Len(w) .. Len(s)
  OBVIOUS
<1>3. SubSeq(s, 1, Len(w)) \o SubSeq(s, Len(w) + 1, Len(s)) = SubSeq(s, 1, Len(s))
  BY <1>2, ConcatAdjacentSubSeq
<1> QED
  BY <1>1, <1>3, SubSeqFull

-------------------------------------------------------------------------------
(* The inductive invariant.                                                *)
Positions == Nat \ {0}

(* What a request carries at each of its places.                           *)
Sound == {q \in RequestType :
    /\ q.at \in {"match", "shift", "set"} =>
          /\ q.content \in Contents /\ q.to \in Positions
          /\ q.from \in Positions \cup {Null} /\ q.to # q.from
    /\ q.at = "delete" => q.content \in Contents
    /\ q.at = "sort" => q.content \in Tutorials
    /\ q.at = "number" => q.content \in Tutorials \cup {Null}
    /\ IsInjective(q.ids)}

Placings == [pos : Positions \cup {Null}, active : BOOLEAN] \cup {Null}

(* The type invariant, with every position at or after the first place.    *)
OrderTyped ==
    /\ contents \in [Contents -> Placings]
    /\ shown \in Seq(Tutorials) /\ IsInjective(shown)
    /\ order = Null \/ (order \in Seq(Tutorials) /\ IsInjective(order))
    /\ opened \in 0 .. MaxRequests
    /\ req \in [AdminRequests -> Sound \cup {Null}]

(* Who is alone is alone, and an order is only kept for such.              *)
OneAtATime ==
    /\ \A r, q \in AdminRequests :
          req[r] # Null /\ req[q] # Null /\ req[r].alone => q = r
    /\ order # Null => \A r \in AdminRequests : req[r] # Null => req[r].alone

Ordered == /\ Range(order) = Numbered(Existing)
           /\ \A i \in DOMAIN order : Sort(order[i]) = i

(* The row of r's content is gone, the others are where the order has them. *)
OrderedBut(r) ==
    LET c == req[r].content
    IN  /\ contents[c] = Null /\ Range(order) \ {c} = Numbered(Existing)
        /\ \A i \in DOMAIN order : order[i] # c => Sort(order[i]) = i

(* Where the shift of a move puts what was at p.                           *)
ShiftedTo(p, from, to) ==
    IF from = Null THEN IF p >= to THEN p + 1 ELSE p
    ELSE IF to < from THEN IF p >= to /\ p < from THEN p + 1 ELSE p
    ELSE IF p > from /\ p <= to THEN p - 1 ELSE p

(* The others are where r's move is to have them.                          *)
OrderedFor(r) ==
    LET c == req[r].content
        from == req[r].from
    IN  /\ contents[c] # Null
        /\ Range(order) \cup {c} = Numbered(Existing) \cup {c}
        /\ IF from = Null THEN c \notin Range(order) ELSE from \in DOMAIN order /\ order[from] = c
        /\ \A i \in DOMAIN order :
              order[i] # c => Sort(order[i]) = ShiftedTo(i, from, req[r].to)

(* What the order is to a request that is alone.                           *)
Under(r) ==
    LET q == req[r]
    IN  /\ q.at \in {"match", "shift", "delete", "refused"} => Ordered
        /\ q.at \in {"match", "shift"} => contents[q.content] # Null /\ Sort(q.content) = q.from
        /\ q.at = "shift" => q.rows = {d \in There : Shifts(d, q.from, q.to)}
        /\ q.at = "set" /\ q.content \in Tutorials => OrderedFor(r)
        /\ q.at \in {"sort", "number"} /\ q.content # Null => OrderedBut(r)
        /\ q.at = "number" /\ q.content # Null => InSortOrder(q.ids)

Kept(r) ==
    req[r] # Null /\ req[r].alone =>
        /\ req[r].at = "number" => Range(req[r].ids) = Existing
        /\ order # Null => Under(r)

UnderWay == \A r \in AdminRequests : Kept(r)

OrderInv == OrderTyped /\ OneAtATime /\ UnderWay /\ InOrder

-------------------------------------------------------------------------------
(* What becomes of the open requests.                                      *)
LEMMA TypedOrder == OrderTyped => FromOne
<1> SUFFICES ASSUME OrderTyped PROVE FromOne
  OBVIOUS
<1>1. contents \in [Contents -> Rows \cup {Null}]
  BY DEF OrderTyped, Placings, Positions, Rows
<1>2. req \in [AdminRequests -> RequestType \cup {Null}]
  BY DEF OrderTyped, Sound
<1>3. ASSUME NEW r \in AdminRequests, req[r] # Null
      PROVE  /\ req[r].at \in {"match", "shift", "set"} => req[r].to # req[r].from
             /\ IsInjective(req[r].ids)
  BY <1>3 DEF OrderTyped, Sound
<1>4. OrderTypeOK
  BY <1>1, <1>2, <1>3 DEF OrderTyped, OrderTypeOK
<1>5. ASSUME NEW c \in Numbered(There) PROVE Sort(c) >= 1
  <2>1. c \in Contents /\ contents[c] # Null /\ contents[c].pos # Null
    BY DEF Numbered, There, Sort
  <2>2. contents[c].pos \in Positions
    BY <2>1 DEF OrderTyped, Placings
  <2> QED
    BY <2>2 DEF Sort, Positions
<1> QED
  BY <1>4, <1>5 DEF FromOne

(* Whoever goes on leaves the others as they are.                          *)
LEMMA GoesOn ==
    ASSUME OrderTyped, OneAtATime, NEW r \in AdminRequests, req[r] # Null, req'[r] # Null,
           req' = [req EXCEPT ![r] = req'[r]], req'[r].alone <=> req[r].alone,
           order' = order, Kept(r)'
    PROVE  OneAtATime' /\ UnderWay' /\ InOrder'
<1>1. \A q \in AdminRequests : q # r => req'[q] = req[q]
  BY DEF OrderTyped
<1>2. OneAtATime'
  BY <1>1, Zenon DEF OneAtATime
<1>3. \A q \in AdminRequests : q # r /\ req[q] # Null => ~req[q].alone
  BY Zenon DEF OneAtATime
<1>4. UnderWay'
  <2> SUFFICES ASSUME NEW q \in AdminRequests, q # r PROVE Kept(q)'
    BY Zenon DEF UnderWay
  <2> QED
    BY <1>1, <1>3, Zenon DEF Kept
<1>5. ~Quiet'
  BY DEF Quiet
<1> QED
  BY <1>2, <1>4, <1>5 DEF InOrder

LEMMA AreDisturbed ==
    ASSUME OrderTyped
    PROVE  /\ Disturbed \in [AdminRequests -> Sound \cup {Null}]
           /\ \A q \in AdminRequests : req[q] = Null <=> Disturbed[q] = Null
           /\ \A q \in AdminRequests : Disturbed[q] # Null => ~Disturbed[q].alone
<1> SUFFICES ASSUME NEW q \in AdminRequests
             PROVE  /\ Disturbed[q] \in Sound \cup {Null}
                    /\ req[q] = Null <=> Disturbed[q] = Null
                    /\ Disturbed[q] # Null => ~Disturbed[q].alone
  BY DEF Disturbed
<1>1. CASE req[q] = Null
  BY <1>1 DEF Disturbed
<1>2. CASE req[q] # Null
  <2> DEFINE x == req[q]
             y == [x EXCEPT !.alone = FALSE]
  <2>1. x \in Sound
    BY <1>2 DEF OrderTyped
  <2> HIDE DEF x
  <2>2. x \in RequestType
    BY <2>1 DEF Sound
  <2>3. /\ y \in RequestType /\ y.alone = FALSE /\ y.at = x.at /\ y.content = x.content
        /\ y.to = x.to /\ y.from = x.from /\ y.ids = x.ids
    BY <2>2 DEF RequestType
  <2> HIDE DEF y
  <2>4. y \in Sound /\ y # Null
    BY <2>1, <2>3, NullAssumption DEF Sound
  <2>5. Disturbed[q] = y
    BY <1>2 DEF Disturbed, x, y
  <2> QED
    BY <1>2, <2>3, <2>4, <2>5
<1> QED
  BY <1>1, <1>2

(* Whoever comes disturbs the others.                                      *)
LEMMA Comes ==
    ASSUME OrderTyped, NEW r \in AdminRequests, req[r] = Null, req'[r] \in Sound,
           req' = [Disturbed EXCEPT ![r] = req'[r]], req'[r].alone <=> Quiet,
           order' = IF Quiet THEN order ELSE Null, Kept(r)'
    PROVE  /\ req' \in [AdminRequests -> Sound \cup {Null}]
           /\ OneAtATime' /\ UnderWay' /\ InOrder'
<1>0. req'[r] # Null
  BY NullAssumption DEF Sound
<1>1. /\ req' \in [AdminRequests -> Sound \cup {Null}]
      /\ \A q \in AdminRequests : q # r => req'[q] = Disturbed[q]
  BY AreDisturbed
<1>2. \A q \in AdminRequests : q # r /\ req'[q] # Null => ~req'[q].alone
  BY <1>1, AreDisturbed
<1>3. Quiet => \A q \in AdminRequests : q # r => req'[q] = Null
  BY <1>1, AreDisturbed DEF Quiet
<1>4. OneAtATime'
  <2>1. ASSUME NEW p \in AdminRequests, NEW q \in AdminRequests,
               req'[p] # Null, req'[q] # Null, req'[p].alone
        PROVE  q = p
    BY <1>2, <1>3, <2>1, Zenon
  <2>2. ASSUME order' # Null, NEW q \in AdminRequests, req'[q] # Null
        PROVE  req'[q].alone
    BY <1>3, <2>2, Zenon
  <2> QED
    BY <2>1, <2>2, Zenon DEF OneAtATime
<1>5. UnderWay'
  <2> SUFFICES ASSUME NEW q \in AdminRequests, q # r PROVE Kept(q)'
    BY Zenon DEF UnderWay
  <2> QED
    BY <1>2, Zenon DEF Kept
<1>6. ~Quiet'
  BY <1>0 DEF Quiet
<1> QED
  BY <1>1, <1>4, <1>5, <1>6 DEF InOrder

LEMMA AtOnce ==
    ASSUME OrderTyped, NEW wanted, Once(wanted), Quiet /\ wanted # Null => Ordered'
    PROVE  /\ req' \in [AdminRequests -> Sound \cup {Null}] /\ opened' \in 0 .. MaxRequests
           /\ OneAtATime' /\ UnderWay' /\ InOrder'
<1>1. /\ req' = Disturbed /\ opened' = opened + 1 /\ opened < MaxRequests
      /\ order' = IF Quiet THEN wanted ELSE Null
  BY DEF Once
<1>2. req' \in [AdminRequests -> Sound \cup {Null}] /\ opened' \in 0 .. MaxRequests
  BY <1>1, AreDisturbed, ContentOrderAssumption DEF OrderTyped
<1>3. \A q \in AdminRequests : req'[q] # Null => ~req'[q].alone
  BY <1>1, AreDisturbed
<1>4. Quiet' <=> Quiet
  BY <1>1, AreDisturbed DEF Quiet
<1>5. OneAtATime'
  <2>1. ASSUME order' # Null, NEW q \in AdminRequests PROVE req'[q] = Null
    BY <1>1, <1>4, <2>1 DEF Quiet
  <2> QED
    BY <1>3, <2>1, Zenon DEF OneAtATime
<1>6. UnderWay'
  BY <1>3, Zenon DEF UnderWay, Kept
<1>7. InOrder'
  BY <1>1, <1>4 DEF InOrder, Ordered
<1> QED
  BY <1>2, <1>5, <1>6, <1>7

LEMMA Goes ==
    ASSUME OrderTyped, OneAtATime, NEW r \in AdminRequests, req[r] # Null,
           NEW wanted, End(r, wanted), req[r].alone /\ wanted # Null => Ordered'
    PROVE  /\ req' \in [AdminRequests -> Sound \cup {Null}] /\ opened' \in 0 .. MaxRequests
           /\ OneAtATime' /\ UnderWay' /\ InOrder'
<1>1. /\ req' = [req EXCEPT ![r] = Null] /\ opened' = opened
      /\ order' = IF req[r].alone THEN wanted ELSE Null
  BY DEF End
<1>2. req' \in [AdminRequests -> Sound \cup {Null}] /\ opened' \in 0 .. MaxRequests
  BY <1>1 DEF OrderTyped
<1>3. req'[r] = Null /\ \A q \in AdminRequests : q # r => req'[q] = req[q]
  BY <1>1 DEF OrderTyped
<1>4. \A q \in AdminRequests : q # r /\ req[q] # Null => ~req[q].alone /\ ~req[r].alone
  BY Zenon DEF OneAtATime
<1>5. OneAtATime'
  <2>1. \A q \in AdminRequests : req'[q] # Null => ~req'[q].alone /\ order' = Null
    BY <1>1, <1>3, <1>4, Zenon
  <2> QED
    BY <2>1, Zenon DEF OneAtATime
<1>6. UnderWay'
  BY <1>3, <1>4, Zenon DEF UnderWay, Kept
<1>7. InOrder'
  BY <1>1 DEF InOrder, Ordered
<1> QED
  BY <1>2, <1>5, <1>6, <1>7

-------------------------------------------------------------------------------
(* What keeps the tutorials in order.                                      *)
LEMMA OrderInitially == OrderInit => OrderInv
<1> SUFFICES ASSUME OrderInit PROVE OrderInv
  OBVIOUS
<1>1. PICK s \in Starts :
         /\ contents = [c \in Contents |->
                IF c \notin Range(s) THEN Null
                ELSE [pos |-> PlaceIn(s, c), active |-> TRUE]]
         /\ shown = s /\ order = s
  BY DEF OrderInit
<1>2. s \in Seq(Tutorials) /\ IsInjective(s) /\ Tutorials \subseteq Contents
  BY ContentOrderAssumption
<1>3. \A r \in AdminRequests : req[r] = Null
  BY DEF OrderInit
<1>4. ASSUME NEW i \in 1 .. Len(s)
      PROVE  s[i] \in Range(s) /\ PlaceIn(s, s[i]) = i /\ i \in Positions /\ s[i] \in Contents
             /\ s[i] \in Tutorials
  <2>1. s[i] \in Range(s) /\ s[i] \in Tutorials
    BY <1>2, Ranges
  <2>2. PlaceIn(s, s[i]) = i
    BY <1>2, Placed
  <2> QED
    BY <1>2, <2>1, <2>2 DEF Positions
<1>5. \A c \in Range(s) : PlaceIn(s, c) \in Positions
  <2> TAKE c \in Range(s)
  <2>1. PICK i \in 1 .. Len(s) : s[i] = c
    BY <1>2, Ranges
  <2> QED
    BY <1>4, <2>1
<1>6. OrderTyped
  <2>1. contents \in [Contents -> Placings]
    BY <1>1, <1>5 DEF Placings
  <2>2. opened \in 0 .. MaxRequests
    BY ContentOrderAssumption DEF OrderInit
  <2>3. req \in [AdminRequests -> Sound \cup {Null}]
    BY DEF OrderInit
  <2> QED
    BY <1>1, <1>2, <2>1, <2>2, <2>3 DEF OrderTyped
<1>7. Range(s) \subseteq Tutorials
  BY <1>2, Ranges
<1>8. Ordered
  <2>1. ASSUME NEW c \in Contents
        PROVE  (contents[c] # Null /\ contents[c].pos # Null) <=> c \in Range(s)
    <3>1. CASE c \in Range(s)
      <4>1. contents[c] = [pos |-> PlaceIn(s, c), active |-> TRUE] /\ PlaceIn(s, c) \in Nat
        BY <1>1, <1>5, <3>1 DEF Positions
      <4>2. contents[c] \in Rows
        BY <4>1 DEF Rows
      <4>3. contents[c] # Null
        BY <4>2, NullAssumption
      <4>4. PlaceIn(s, c) # Null
        BY <4>1, NullAssumption
      <4>5. contents[c].pos = PlaceIn(s, c)
        BY <4>1
      <4> QED
        BY <3>1, <4>3, <4>4, <4>5
    <3>2. CASE c \notin Range(s)
      BY <1>1, <3>2
    <3> QED
      BY <3>1, <3>2
  <2>2. Range(s) = Numbered(Existing)
    BY <1>2, <1>7, <2>1 DEF Numbered, Existing, There, Sort
  <2>3. \A i \in 1 .. Len(s) : Sort(s[i]) = i
    BY <1>1, <1>4 DEF Sort
  <2> QED
    BY <1>1, <1>2, <2>2, <2>3 DEF Ordered
<1> QED
  BY <1>3, <1>6, <1>8, Zenon DEF OrderInv, OneAtATime, UnderWay, Kept, InOrder, Ordered

(* Positions do not change unless the numbered tutorials do.                  *)
LEMMA Untouched ==
    ASSUME Ordered, order' = order,
           \A c \in Tutorials : /\ contents'[c] # Null <=> contents[c] # Null
                                /\ contents[c] # Null => contents'[c].pos = contents[c].pos,
           OrderTyped
    PROVE  Ordered'
<1>1. Numbered(Existing)' = Numbered(Existing)
  BY ContentOrderAssumption DEF Numbered, Existing, There, Sort
<1>2. \A i \in DOMAIN order : order[i] \in Range(order)
  BY DEF Range
<1>3. \A i \in DOMAIN order : Sort(order[i])' = Sort(order[i])
  <2> TAKE i \in DOMAIN order
  <2>1. order[i] \in Tutorials /\ contents[order[i]] # Null
    BY <1>2 DEF Ordered, Numbered, Existing, There
  <2> QED
    BY <2>1 DEF Sort
<1> QED
  BY <1>1, <1>3 DEF Ordered

(* One row is written, the others stay as they were.                       *)
LEMMA RowSet ==
    ASSUME OrderTyped, NEW c \in Contents, NEW row \in Placings, contents' = [contents EXCEPT ![c] = row]
    PROVE  /\ contents' \in [Contents -> Placings]
           /\ contents'[c] = row
           /\ \A d \in Contents : d # c => contents'[d] = contents[d]
BY DEF OrderTyped

LEMMA ARow ==
    ASSUME NEW pos \in Positions \cup {Null}, NEW active \in BOOLEAN
    PROVE  /\ [pos |-> pos, active |-> active] \in Placings
           /\ [pos |-> pos, active |-> active] # Null
<1>1. [pos |-> pos, active |-> active] \in Rows
  BY DEF Rows, Positions
<1> QED
  BY <1>1, NullAssumption DEF Placings

LEMMA CreateKeeps ==
    ASSUME OrderInv, NEW c \in Contents, NEW pos \in Positions \cup {Null}, Create(c, pos)
    PROVE  OrderInv'
<1> DEFINE row == [pos |-> pos, active |-> TRUE]
           wanted == IF order = Null \/ pos = Null \/ c \notin Tutorials THEN order
                     ELSE IF pos = Len(order) + 1 THEN Append(order, c) ELSE Null
<1>1. row \in Placings /\ row # Null
  BY ARow
<1>2. /\ contents' \in [Contents -> Placings] /\ contents'[c] = row
      /\ \A d \in Contents : d # c => contents'[d] = contents[d]
  BY <1>1, RowSet DEF OrderInv, Create
<1>3. contents[c] = Null /\ Once(wanted) /\ shown' = shown
  BY DEF Create
<1>4. row.pos = pos
  OBVIOUS
<1> HIDE DEF row
<1>5. ASSUME Quiet, order # Null, Ordered, wanted # Null
      PROVE  Ordered' /\ wanted \in Seq(Tutorials) /\ IsInjective(wanted)
  <2>1. order' = wanted
    BY <1>3, <1>5 DEF Once
  <2>2. order \in Seq(Tutorials) /\ IsInjective(order) /\ Tutorials \subseteq Contents
    BY <1>5, ContentOrderAssumption DEF OrderInv, OrderTyped
  <2>3. CASE c \notin Tutorials
    BY <1>2, <1>5, <2>1, <2>2, <2>3, Untouched DEF OrderInv
  <2>4. c \notin Range(order)
    BY <1>3, <1>5 DEF Ordered, Numbered, Existing, There
  <2>5. \A i \in 1 .. Len(order) : order[i] \in Range(order) /\ order[i] # c /\ order[i] \in Contents
                                   /\ Sort(order[i]) = i
    BY <1>5, <2>2, <2>4, Ranges DEF Ordered
  <2>6. \A i \in 1 .. Len(order) : Sort(order[i])' = i \/ order' # order
    BY <1>2, <2>5 DEF Sort
  <2>7. CASE c \in Tutorials /\ pos = Null
    <3>1. wanted = order
      BY <2>7
    <3>2. Numbered(Existing)' = Numbered(Existing)
      BY <1>1, <1>2, <1>3, <1>4, <2>2, <2>7 DEF Numbered, Existing, There, Sort
    <3>3. Ordered'
      BY <1>5, <2>1, <2>2, <2>6, <3>1, <3>2 DEF Ordered
    <3> QED
      BY <2>2, <3>1, <3>3
  <2>8. CASE c \in Tutorials /\ pos # Null
    <3>1. wanted = Append(order, c) /\ pos = Len(order) + 1
      BY <1>5, <2>8
    <3> HIDE DEF wanted
    <3>2. /\ wanted \in Seq(Tutorials) /\ Len(wanted) = Len(order) + 1
          /\ \A i \in 1 .. Len(order) : wanted[i] = order[i]
          /\ wanted[Len(order) + 1] = c
      BY <2>2, <2>8, <3>1
    <3>3. \A i \in 1 .. Len(order) + 1 : i = Len(order) + 1 \/ i \in 1 .. Len(order)
      BY <2>2
    <3>4. IsInjective(wanted)
      <4>1. \A i, j \in 1 .. Len(order) : order[i] = order[j] => i = j
        BY <2>2 DEF IsInjective
      <4>2. \A i, j \in 1 .. Len(wanted) : wanted[i] = wanted[j] => i = j
        BY <2>5, <3>2, <3>3, <4>1
      <4> QED
        BY <3>2, <4>2 DEF IsInjective
    <3>5. Range(wanted) = Range(order) \cup {c}
      <4>1. ASSUME NEW d PROVE d \in Range(wanted) <=> d \in Range(order) \cup {c}
        <5>1. \A i \in 1 .. Len(order) : i \in 1 .. Len(order) + 1
          BY <2>2
        <5>2. Len(order) + 1 \in 1 .. Len(order) + 1
          BY <2>2
        <5>3. d \in Range(wanted) <=> \E i \in 1 .. Len(order) + 1 : wanted[i] = d
          BY <3>2, Ranges
        <5>4. d \in Range(order) <=> \E i \in 1 .. Len(order) : order[i] = d
          BY <2>2, Ranges
        <5> QED
          BY <3>2, <3>3, <5>1, <5>2, <5>3, <5>4, Zenon
      <4> QED
        BY <4>1
    <3>6. Numbered(Existing)' = Numbered(Existing) \cup {c}
      BY <1>1, <1>2, <1>3, <1>4, <2>2, <2>8 DEF Numbered, Existing, There, Sort
    <3>7. \A i \in 1 .. Len(wanted) : contents'[wanted[i]].pos = i
      <4> TAKE i \in 1 .. Len(wanted)
      <4>1. CASE i = Len(order) + 1
        BY <1>2, <1>4, <3>1, <3>2, <4>1
      <4>2. CASE i \in 1 .. Len(order)
        BY <1>2, <2>5, <3>2, <4>2 DEF Sort
      <4> QED
        BY <3>2, <3>3, <4>1, <4>2
    <3>8. Ordered'
      BY <1>5, <2>1, <3>2, <3>5, <3>6, <3>7 DEF Ordered, Sort
    <3> QED
      BY <3>2, <3>4, <3>8
  <2> QED
    BY <2>3, <2>7, <2>8, <2>2
<1>6. Quiet /\ wanted # Null => Ordered' /\ wanted \in Seq(Tutorials) /\ IsInjective(wanted)
  <2> SUFFICES ASSUME Quiet, wanted # Null
               PROVE  Ordered' /\ wanted \in Seq(Tutorials) /\ IsInjective(wanted)
    OBVIOUS
  <2>1. order # Null
    OBVIOUS
  <2>2. Ordered
    BY <2>1 DEF OrderInv, InOrder, Ordered
  <2> QED
    BY <1>5, <2>1, <2>2
<1> HIDE DEF wanted
<1>7. order' = Null \/ (order' \in Seq(Tutorials) /\ IsInjective(order'))
  BY <1>3, <1>6 DEF Once
<1>8. /\ req' \in [AdminRequests -> Sound \cup {Null}] /\ opened' \in 0 .. MaxRequests
      /\ OneAtATime' /\ UnderWay' /\ InOrder'
  BY <1>3, <1>6, AtOnce DEF OrderInv
<1> QED
  BY <1>2, <1>3, <1>7, <1>8 DEF OrderInv, OrderTyped

LEMMA SetSortKeeps ==
    ASSUME OrderInv, NEW c \in Contents, NEW pos \in Positions, SetSort(c, pos)
    PROVE  OrderInv'
<1> DEFINE row == [contents[c] EXCEPT !.pos = pos]
<1>1. /\ contents[c] # Null /\ contents' = [contents EXCEPT ![c] = row] /\ shown' = shown
      /\ Once(IF c \in Tutorials THEN Null ELSE order)
  BY DEF SetSort
<1>2. row \in Placings
  BY <1>1 DEF OrderInv, OrderTyped, Placings
<1> HIDE DEF row
<1>3. /\ contents' \in [Contents -> Placings]
      /\ \A d \in Contents : d # c => contents'[d] = contents[d]
  BY <1>1, <1>2, RowSet DEF OrderInv
<1>4. ASSUME Quiet, (IF c \in Tutorials THEN Null ELSE order) # Null PROVE Ordered'
  <2>1. c \notin Tutorials /\ order # Null /\ order' = order
    BY <1>1, <1>4 DEF Once
  <2>2. Ordered
    BY <1>4, <2>1 DEF OrderInv, InOrder, Ordered
  <2>3. \A d \in Tutorials : contents'[d] = contents[d]
    BY <1>3, <2>1, ContentOrderAssumption
  <2> QED
    BY <2>1, <2>2, <2>3, Untouched DEF OrderInv
<1>5. /\ req' \in [AdminRequests -> Sound \cup {Null}] /\ opened' \in 0 .. MaxRequests
      /\ OneAtATime' /\ UnderWay' /\ InOrder'
  BY <1>1, <1>4, AtOnce DEF OrderInv
<1>6. order' = Null \/ (order' \in Seq(Tutorials) /\ IsInjective(order'))
  BY <1>1 DEF Once, OrderInv, OrderTyped
<1> QED
  BY <1>1, <1>3, <1>5, <1>6 DEF OrderInv, OrderTyped

LEMMA SetStatusKeeps ==
    ASSUME OrderInv, NEW c \in Contents, NEW active \in BOOLEAN, SetStatus(c, active)
    PROVE  OrderInv'
<1> DEFINE row == [contents[c] EXCEPT !.active = active]
<1>1. /\ contents[c] # Null /\ contents' = [contents EXCEPT ![c] = row] /\ shown' = shown
      /\ Once(order)
  BY DEF SetStatus
<1>2. contents[c] \in [pos : Positions \cup {Null}, active : BOOLEAN]
  BY <1>1 DEF OrderInv, OrderTyped, Placings
<1>3. row \in [pos : Positions \cup {Null}, active : BOOLEAN] /\ row.pos = contents[c].pos
  BY <1>2
<1>4. row \in Placings /\ row # Null
  BY <1>3, NullAssumption DEF Placings, Rows, Positions
<1> HIDE DEF row
<1>5. /\ contents' \in [Contents -> Placings] /\ contents'[c] = row
      /\ \A d \in Contents : d # c => contents'[d] = contents[d]
  BY <1>1, <1>4, RowSet DEF OrderInv
<1>6. ASSUME Quiet, order # Null PROVE Ordered'
  <2>1. order' = order
    BY <1>1, <1>6 DEF Once
  <2>2. Ordered
    BY <1>6 DEF OrderInv, InOrder, Ordered
  <2>3. \A d \in Tutorials : /\ contents'[d] # Null <=> contents[d] # Null
                             /\ contents[d] # Null => contents'[d].pos = contents[d].pos
    BY <1>1, <1>3, <1>4, <1>5, ContentOrderAssumption
  <2> QED
    BY <2>1, <2>2, <2>3, Untouched DEF OrderInv
<1>7. /\ req' \in [AdminRequests -> Sound \cup {Null}] /\ opened' \in 0 .. MaxRequests
      /\ OneAtATime' /\ UnderWay' /\ InOrder'
  BY <1>1, <1>6, AtOnce DEF OrderInv
<1>8. order' = Null \/ (order' \in Seq(Tutorials) /\ IsInjective(order'))
  BY <1>1 DEF Once, OrderInv, OrderTyped
<1> QED
  BY <1>1, <1>5, <1>7, <1>8 DEF OrderInv, OrderTyped

(* A request that has only read.                                           *)
LEMMA OpenKeeps ==
    ASSUME OrderInv, NEW r \in AdminRequests, NEW new \in Sound, Open(r, new),
           new.alone <=> Quiet, contents' = contents, shown' = shown,
           new.at = "number" => Range(new.ids) = Existing /\ new.content = Null,
           new.at \in {"match", "delete", "number", "refused"},
           new.at = "match" => contents[new.content] # Null /\ Sort(new.content) = new.from
    PROVE  OrderInv'
<1>1. /\ req[r] = Null /\ opened < MaxRequests /\ opened' = opened + 1
      /\ req' = [Disturbed EXCEPT ![r] = new]
      /\ order' = IF Quiet THEN order ELSE Null
  BY DEF Open
<1>2. req'[r] = new
  BY <1>1, AreDisturbed DEF OrderInv
<1>3. Existing' = Existing
  BY DEF Existing, There
<1>4. ASSUME Quiet, order # Null PROVE Under(r)'
  <2>1. order' = order /\ Ordered
    BY <1>1, <1>4 DEF OrderInv, InOrder, Ordered
  <2>2. Ordered'
    BY <2>1, Untouched DEF OrderInv
  <2>3. new.at = "match" => contents'[new.content] # Null /\ contents'[new.content].pos = new.from
    BY DEF Sort
  <2> QED
    BY <1>2, <2>2, <2>3 DEF Under, Sort
<1>5. Kept(r)'
  <2> SUFFICES ASSUME req'[r].alone PROVE /\ req'[r].at = "number" => Range(req'[r].ids) = Existing'
                                          /\ order' # Null => Under(r)'
    BY DEF Kept
  <2>1. Quiet
    BY <1>2
  <2> QED
    BY <1>1, <1>2, <1>3, <1>4, <2>1
<1>6. req' = [Disturbed EXCEPT ![r] = req'[r]] /\ (req'[r].alone <=> Quiet)
  BY <1>1, <1>2
<1>7. /\ req' \in [AdminRequests -> Sound \cup {Null}]
      /\ OneAtATime' /\ UnderWay' /\ InOrder'
  BY <1>1, <1>2, <1>5, <1>6, Comes DEF OrderInv
<1>8. /\ order' = Null \/ (order' \in Seq(Tutorials) /\ IsInjective(order'))
      /\ opened' \in 0 .. MaxRequests
  BY <1>1, ContentOrderAssumption DEF OrderInv, OrderTyped
<1> QED
  BY <1>7, <1>8 DEF OrderInv, OrderTyped

LEMMA ANew ==
    ASSUME NEW op \in Stages, NEW c \in Contents \cup {Null}, NEW to \in Nat \cup {Null},
           NEW ids \in Seq(Tutorials)
    PROVE  New(op, c, to, ids) \in RequestType /\ (New(op, c, to, ids).alone <=> Quiet)
<1>1. Quiet \in BOOLEAN
  BY DEF Quiet
<1> QED
  BY <1>1 DEF New, RequestType

LEMMA MoveKeeps ==
    ASSUME OrderInv, NEW r \in AdminRequests, NEW c \in Contents, NEW to \in Positions,
           Move(r, c, to)
    PROVE  OrderInv'
<1> DEFINE x == New("match", c, to, <<>>)
           y == [x EXCEPT !.from = Sort(c)]
<1>1. /\ contents[c] # Null /\ Sort(c) # to /\ Open(r, y)
      /\ contents' = contents /\ shown' = shown
  BY DEF Move
<1>2. Sort(c) \in Positions \cup {Null}
  BY <1>1 DEF Sort, OrderInv, OrderTyped, Placings
<1>3. /\ x \in RequestType /\ x.at = "match" /\ x.content = c
      /\ x.to = to /\ x.ids = <<>> /\ (x.alone <=> Quiet)
  <2>1. /\ "match" \in Stages /\ c \in Contents \cup {Null} /\ to \in Nat \cup {Null}
        /\ <<>> \in Seq(Tutorials)
    BY DEF Stages, Positions
  <2>2. x \in RequestType /\ (x.alone <=> Quiet)
    BY <2>1, ANew
  <2>3. x.at = "match" /\ x.content = c /\ x.to = to /\ x.ids = <<>>
    BY DEF New
  <2> QED
    BY <2>2, <2>3
<1> HIDE DEF x
<1>4. /\ y \in RequestType /\ y.at = "match" /\ y.content = c /\ y.to = to /\ y.from = Sort(c)
      /\ y.ids = <<>> /\ y.alone = x.alone
  BY <1>2, <1>3 DEF RequestType, Positions
<1> HIDE DEF y
<1>5. IsInjective(<<>>)
  BY DEF IsInjective
<1>6. y \in Sound
  BY <1>1, <1>2, <1>4, <1>5 DEF Sound
<1> QED
  BY <1>1, <1>3, <1>4, <1>6, OpenKeeps

LEMMA DeleteKeeps ==
    ASSUME OrderInv, NEW r \in AdminRequests, NEW c \in Contents, Delete(r, c)
    PROVE  OrderInv'
<1> DEFINE x == New("delete", c, Null, <<>>)
<1>1. Open(r, x) /\ contents' = contents /\ shown' = shown
  BY DEF Delete
<1>2. /\ x \in RequestType /\ x.at = "delete" /\ x.content = c /\ x.ids = <<>>
      /\ x.alone <=> Quiet
  <2>1. /\ "delete" \in Stages /\ c \in Contents \cup {Null} /\ Null \in Nat \cup {Null}
        /\ <<>> \in Seq(Tutorials)
    BY DEF Stages
  <2>2. x \in RequestType /\ (x.alone <=> Quiet)
    BY <2>1, ANew
  <2>3. x.at = "delete" /\ x.content = c /\ x.ids = <<>>
    BY DEF New
  <2> QED
    BY <2>2, <2>3
<1> HIDE DEF x
<1>3. x \in Sound
  BY <1>2 DEF Sound, IsInjective
<1> QED
  BY <1>1, <1>2, <1>3, OpenKeeps

LEMMA DragKeeps ==
    ASSUME OrderInv, NEW r \in AdminRequests, Drag(r)
    PROVE  OrderInv'
<1>1. PICK i, j \in DOMAIN shown : Reorder(r, ArrayMove(shown, i, j))
  BY DEF Drag
<1> DEFINE ids == ArrayMove(shown, i, j)
           op == IF Range(ids) = Existing THEN "number" ELSE "refused"
           x == New(op, Null, Null, ids)
<1>2. ids \in Seq(Tutorials) /\ IsInjective(ids)
  BY Dragged DEF OrderInv, OrderTyped
<1>3. Open(r, x) /\ contents' = contents /\ shown' = shown
  BY <1>1 DEF Reorder
<1> HIDE DEF ids
<1>4. op \in {"number", "refused"} /\ (op = "number" => Range(ids) = Existing)
  OBVIOUS
<1> HIDE DEF op
<1>5. /\ x \in RequestType /\ x.at = op /\ x.content = Null /\ x.ids = ids
      /\ x.alone <=> Quiet
  <2>1. /\ op \in Stages /\ Null \in Contents \cup {Null} /\ Null \in Nat \cup {Null}
        /\ ids \in Seq(Tutorials)
    BY <1>2, <1>4 DEF Stages
  <2>2. x \in RequestType /\ (x.alone <=> Quiet)
    BY <2>1, ANew
  <2>3. x.at = op /\ x.content = Null /\ x.ids = ids
    BY DEF New
  <2> QED
    BY <2>2, <2>3
<1> HIDE DEF x
<1>6. x \in Sound
  BY <1>2, <1>4, <1>5 DEF Sound
<1> QED
  BY <1>3, <1>4, <1>5, <1>6, OpenKeeps

LEMMA MatchKeeps ==
    ASSUME OrderInv, NEW r \in AdminRequests, Match(r)
    PROVE  OrderInv'
<1> DEFINE x == req[r]
           found == {d \in There : Shifts(d, x.from, x.to)}
           y == [x EXCEPT !.at = "shift", !.rows = found]
<1>1. /\ x # Null /\ x.at = "match" /\ req' = [req EXCEPT ![r] = y]
      /\ contents' = contents /\ shown' = shown /\ opened' = opened /\ order' = order
  BY DEF Match, At
<1>2. x \in Sound
  BY <1>1 DEF OrderInv, OrderTyped
<1>3. found \in SUBSET Contents
  BY DEF There
<1>4. req'[r] = y
  BY <1>1 DEF OrderInv, OrderTyped
<1>5. Kept(r)
  BY DEF OrderInv, UnderWay
<1> HIDE DEF x, found
<1>6. /\ y \in RequestType /\ y.at = "shift" /\ y.rows = found /\ y.content = x.content
      /\ y.to = x.to /\ y.from = x.from /\ y.ids = x.ids /\ y.alone = x.alone
  BY <1>2, <1>3 DEF Sound, RequestType, Stages
<1> HIDE DEF y
<1>7. y \in Sound /\ y # Null
  BY <1>1, <1>2, <1>6, NullAssumption DEF Sound
<1>8. ASSUME order # Null, x.alone PROVE Under(r)'
  <2>1. /\ Ordered /\ contents[x.content] # Null /\ Sort(x.content) = x.from
    BY <1>1, <1>5, <1>8 DEF Kept, Under, x
  <2>2. Ordered'
    BY <1>1, <2>1, Untouched DEF OrderInv
  <2>3. found = {d \in There : Shifts(d, x.from, x.to)}'
    BY <1>1, <1>4, <1>6 DEF found, There, Shifts, Sort, x
  <2>4. /\ req'[r].at = "shift" /\ req'[r].content = x.content /\ req'[r].rows = found
        /\ req'[r].from = x.from /\ req'[r].to = x.to
    BY <1>4, <1>6
  <2>5. req'[r].rows = {d \in There' : Shifts(d, req[r].from, req[r].to)'}
    BY <1>1, <2>4 DEF found, There, Shifts, Sort, x
  <2>6. contents'[x.content] # Null /\ Sort(x.content) = contents'[x.content].pos
    BY <1>1, <2>1 DEF Sort
  <2> QED
    BY <2>1, <2>2, <2>4, <2>5, <2>6 DEF Under, Sort
<1>9. Kept(r)'
  BY <1>1, <1>4, <1>6, <1>8 DEF Kept
<1>10. OneAtATime' /\ UnderWay' /\ InOrder'
  BY <1>1, <1>4, <1>6, <1>7, <1>9, GoesOn DEF OrderInv, x
<1> QED
  BY <1>1, <1>7, <1>10 DEF OrderInv, OrderTyped

(* Going on from one place to the next.                                    *)
LEMMA Resumes ==
    ASSUME OrderTyped, NEW r \in AdminRequests, req[r] # Null, NEW place \in Stages,
           req' = [req EXCEPT ![r].at = place]
    PROVE  /\ req' = [req EXCEPT ![r] = req'[r]] /\ req'[r] \in RequestType /\ req'[r] # Null
           /\ req'[r].at = place /\ req'[r].content = req[r].content
           /\ req'[r].to = req[r].to /\ req'[r].from = req[r].from
           /\ req'[r].ids = req[r].ids /\ req'[r].rows = req[r].rows
           /\ req'[r].alone = req[r].alone
<1> DEFINE x == req[r]
           y == [x EXCEPT !.at = place]
<1>1. x \in RequestType
  BY DEF OrderTyped, Sound
<1>2. req'[r] = y /\ req' = [req EXCEPT ![r] = y]
  BY DEF OrderTyped
<1> HIDE DEF x
<1>3. /\ y \in RequestType /\ y.at = place /\ y.content = x.content /\ y.rows = x.rows
      /\ y.to = x.to /\ y.from = x.from /\ y.ids = x.ids /\ y.alone = x.alone
  BY <1>1 DEF RequestType
<1> HIDE DEF y
<1> QED
  BY <1>2, <1>3, NullAssumption DEF x

LEMMA ShiftKeeps ==
    ASSUME OrderInv, NEW r \in AdminRequests, Shift(r)
    PROVE  OrderInv'
<1> DEFINE x == req[r]
           c == x.content
           from == x.from
           to == x.to
           by(p) == IF from = Null \/ to < from THEN p + 1 ELSE p - 1
           moves(d) == d \in x.rows \cap There /\ Shifts(d, from, to)
<1>1. /\ x # Null /\ x.at = "shift" /\ req' = [req EXCEPT ![r].at = "set"]
      /\ shown' = shown /\ opened' = opened /\ order' = order
      /\ contents' = [d \in Contents |->
             IF moves(d) THEN [contents[d] EXCEPT !.pos = by(@)] ELSE contents[d]]
  BY DEF Shift, At, Resume
<1>2. /\ x \in Sound
  BY <1>1 DEF OrderInv, OrderTyped
<1>3. Kept(r)
  BY DEF OrderInv, UnderWay
<1>4. /\ c \in Contents /\ to \in Positions /\ from \in Positions \cup {Null} /\ to # from
  BY <1>1, <1>2 DEF Sound
<1>5. /\ req' = [req EXCEPT ![r] = req'[r]] /\ req'[r] \in RequestType /\ req'[r] # Null
      /\ req'[r].at = "set" /\ req'[r].content = c /\ req'[r].to = to /\ req'[r].from = from
      /\ req'[r].ids = x.ids /\ req'[r].alone = x.alone
  <2>1. "set" \in Stages
    BY DEF Stages
  <2> QED
    BY <1>1, <2>1, Resumes DEF OrderInv
<1> HIDE DEF x
<1>6. req'[r] \in Sound
  BY <1>2, <1>4, <1>5 DEF Sound
<1> HIDE DEF c, from, to
<1>7. ASSUME NEW d \in Contents
      PROVE  /\ contents'[d] \in Placings /\ (contents'[d] # Null <=> contents[d] # Null)
             /\ contents[d] # Null /\ contents[d].pos = Null => contents'[d].pos = Null
             /\ contents[d] # Null /\ contents[d].pos # Null =>
                   /\ contents[d].pos \in Positions
                   /\ contents'[d].pos = IF moves(d) THEN by(contents[d].pos) ELSE contents[d].pos
                   /\ contents'[d].pos \in Positions
  <2>1. contents[d] \in Placings
    BY DEF OrderInv, OrderTyped
  <2>2. CASE ~moves(d)
    BY <1>1, <2>1, <2>2 DEF Placings
  <2>3. CASE moves(d)
    <3>1. contents[d] # Null /\ Shifts(d, from, to) /\ contents[d].pos # Null
      BY <2>3 DEF There, Shifts, Sort
    <3>2. contents[d] \in [pos : Positions \cup {Null}, active : BOOLEAN] /\ contents[d].pos \in Positions
      BY <2>1, <3>1 DEF Placings
    <3>3. by(contents[d].pos) \in Positions
      BY <1>4, <3>1, <3>2, NullAssumption DEF Shifts, Sort, Positions
    <3>4. contents'[d] = [contents[d] EXCEPT !.pos = by(contents[d].pos)]
      BY <1>1, <2>3
    <3> HIDE DEF by, moves
    <3>5. contents'[d] \in [pos : Positions \cup {Null}, active : BOOLEAN]
          /\ contents'[d].pos = by(contents[d].pos)
      BY <3>2, <3>3, <3>4
    <3>6. contents'[d] # Null /\ contents'[d] \in Placings
      BY <3>5, NullAssumption DEF Placings, Rows, Positions
    <3> QED
      BY <2>3, <3>1, <3>2, <3>3, <3>5, <3>6
  <2> QED
    BY <2>2, <2>3
<1>8. contents' \in [Contents -> Placings]
  BY <1>1, <1>7
<1>9. ASSUME order # Null, x.alone, c \in Tutorials PROVE OrderedFor(r)'
  <2>1. /\ Ordered /\ contents[c] # Null /\ Sort(c) = from
        /\ x.rows = {d \in There : Shifts(d, from, to)}
    BY <1>1, <1>3, <1>9 DEF Kept, Under, x, c, from, to
  <2>2. order \in Seq(Tutorials) /\ IsInjective(order) /\ Tutorials \subseteq Contents
    BY <1>9, ContentOrderAssumption DEF OrderInv, OrderTyped
  <2>3. ASSUME NEW d \in Contents
        PROVE  (contents'[d] # Null /\ contents'[d].pos # Null)
                  <=> (contents[d] # Null /\ contents[d].pos # Null)
    BY <1>7, NullAssumption DEF Positions
  <2>4. Numbered(Existing)' = Numbered(Existing)
    BY <2>2, <2>3 DEF Numbered, Existing, There, Sort
  <2>5. contents'[c] # Null
    BY <1>4, <1>7, <2>1
  <2>6. \A i \in 1 .. Len(order) : /\ order[i] \in Contents /\ contents[order[i]] # Null
                                   /\ contents[order[i]].pos = i
    BY <2>1, <2>2, Ranges DEF Ordered, Numbered, Existing, There, Sort
  <2>7. IF from = Null THEN c \notin Range(order) ELSE from \in DOMAIN order /\ order[from] = c
    <3>1. CASE from = Null
      BY <2>1, <3>1 DEF Ordered, Numbered
    <3>2. CASE from # Null
      <4>1. c \in Range(order)
        BY <1>4, <1>9, <2>1, <3>2 DEF Ordered, Numbered, Existing, There
      <4>2. PICK i \in 1 .. Len(order) : order[i] = c
        BY <2>2, <4>1, Ranges
      <4>3. i = from
        BY <2>1, <2>6, <4>2 DEF Sort
      <4> QED
        BY <2>2, <3>2, <4>2, <4>3
    <3> QED
      BY <3>1, <3>2
  <2>8. ASSUME NEW i \in 1 .. Len(order)
        PROVE  contents'[order[i]].pos = ShiftedTo(i, from, to)
    <3> DEFINE d == order[i]
    <3>1. d \in Contents /\ contents[d] # Null /\ contents[d].pos = i /\ i \in Nat
      BY <2>2, <2>6
    <3> HIDE DEF d
    <3>2. i # Null
      BY <3>1, NullAssumption
    <3>3. moves(d) <=> Shifts(d, from, to)
      BY <2>1, <3>1 DEF There
    <3>4. contents'[d].pos = IF Shifts(d, from, to) THEN by(i) ELSE i
      BY <1>7, <3>1, <3>2, <3>3
    <3>5. Shifts(d, from, to) <=> IF from = Null THEN i >= to
                                  ELSE IF to < from THEN i >= to /\ i < from
                                  ELSE i > from /\ i <= to
      BY <3>1, <3>2 DEF Shifts, Sort
    <3> QED
      BY <3>4, <3>5 DEF ShiftedTo, d
  <2>9. order' = order /\ DOMAIN order = 1 .. Len(order)
    BY <1>1, <2>2
  <2>10. Range(order) \cup {c} = Numbered(Existing)' \cup {c}
    BY <2>1, <2>4 DEF Ordered
  <2>11. \A i \in DOMAIN order : contents'[order[i]].pos = ShiftedTo(i, from, to)
    BY <2>8, <2>9
  <2> HIDE DEF by, moves
  <2> QED
    BY <1>5, <2>5, <2>7, <2>9, <2>10, <2>11 DEF OrderedFor, Sort
<1>10. Kept(r)'
  BY <1>1, <1>5, <1>9 DEF Kept, Under
<1>11. OneAtATime' /\ UnderWay' /\ InOrder'
  BY <1>1, <1>5, <1>10, GoesOn DEF OrderInv, x
<1> QED
  BY <1>1, <1>5, <1>6, <1>8, <1>11 DEF OrderInv, OrderTyped

(* Taken out where it was and put in where it is to be: the others are     *)
(* where the shift has put them.                                           *)
LEMMA MovedTo ==
    ASSUME NEW S, NEW s \in Seq(S), IsInjective(s), NEW c \in S, NEW to \in Positions,
           NEW from \in Positions \cup {Null}, to # from,
           IF from = Null THEN c \notin Range(s) ELSE from \in DOMAIN s /\ s[from] = c,
           to <= Len(Without(s, c)) + 1
    PROVE  LET w == InsertAt(Without(s, c), to, c)
           IN  /\ w \in Seq(S) /\ IsInjective(w) /\ Range(w) = Range(s) \cup {c}
               /\ to \in 1 .. Len(w) /\ w[to] = c
               /\ \A j \in 1 .. Len(w) : j # to =>
                     \E i \in 1 .. Len(s) : s[i] = w[j] /\ s[i] # c /\ ShiftedTo(i, from, to) = j
<1> DEFINE v == Without(s, c)
           w == InsertAt(v, to, c)
<1>1. v \in Seq(S) /\ IsInjective(v) /\ Range(v) = Range(s) \ {c} /\ Len(v) \in Nat
  BY WithoutOne
<1>2. to \in 1 .. Len(v) + 1 /\ c \notin Range(v)
  BY <1>1 DEF Positions
<1>3. w \in Seq(S) /\ IsInjective(w) /\ Range(w) = Range(v) \cup {c}
  <2> HIDE DEF v
  <2> QED
    BY <1>1, <1>2, WithOne
<1>4. /\ Len(w) = Len(v) + 1
      /\ \A j \in 1 .. Len(v) + 1 : w[j] = IF j < to THEN v[j] ELSE IF j = to THEN c ELSE v[j - 1]
  <2> HIDE DEF v
  <2> QED
    BY <1>1, <1>2, Inserted
<1> HIDE DEF w
<1>5. Len(s) \in Nat /\ DOMAIN s = 1 .. Len(s) /\ to \in Nat /\ to >= 1
  BY DEF Positions
<1>6. ASSUME NEW j \in 1 .. Len(w), j # to
      PROVE  \E i \in 1 .. Len(s) : s[i] = w[j] /\ s[i] # c /\ ShiftedTo(i, from, to) = j
  <2>1. CASE from = Null
    <3>1. v = s /\ \A i \in 1 .. Len(s) : s[i] # c
      BY <2>1, NotThere, Ranges
    <3>2. CASE j < to
      <4>1. j \in 1 .. Len(s) /\ w[j] = s[j] /\ ShiftedTo(j, from, to) = j
        BY <1>2, <1>4, <1>5, <2>1, <3>1, <3>2 DEF ShiftedTo
      <4> QED
        BY <3>1, <4>1
    <3>3. CASE j > to
      <4>1. j - 1 \in 1 .. Len(s) /\ w[j] = s[j - 1] /\ ShiftedTo(j - 1, from, to) = j
        BY <1>2, <1>4, <1>5, <2>1, <3>1, <3>3 DEF ShiftedTo
      <4> QED
        BY <3>1, <4>1
    <3> QED
      BY <1>2, <1>6, <3>2, <3>3
  <2>2. CASE from # Null
    <3>1. from \in 1 .. Len(s) /\ s[from] = c
      BY <1>5, <2>2
    <3>2. /\ Len(v) = Len(s) - 1
          /\ \A i \in 1 .. Len(s) - 1 : v[i] = IF i < from THEN s[i] ELSE s[i + 1]
      BY <3>1, LeftOut
    <3> HIDE DEF v
    <3>3. \A i \in 1 .. Len(s) : i # from => s[i] # c
      BY <3>1 DEF IsInjective
    <3>4. ASSUME NEW i \in 1 .. Len(s), i # from, w[j] = s[i], ShiftedTo(i, from, to) = j
          PROVE  \E k \in 1 .. Len(s) : s[k] = w[j] /\ s[k] # c /\ ShiftedTo(k, from, to) = j
      BY <3>3, <3>4
    <3>5. j \in 1 .. Len(s) /\ Len(w) = Len(s) /\ to \in 1 .. Len(s)
      BY <1>2, <1>4, <1>5, <3>2
    <3>6. CASE j < to
      <4>1. w[j] = v[j] /\ j \in 1 .. Len(s) - 1
        BY <1>4, <1>5, <3>2, <3>5, <3>6
      <4>2. CASE j < from
        <5>1. w[j] = s[j] /\ j # from /\ ShiftedTo(j, from, to) = j
          BY <1>5, <2>2, <3>1, <3>2, <3>5, <3>6, <4>1, <4>2 DEF ShiftedTo
        <5> QED
          BY <3>4, <3>5, <5>1
      <4>3. CASE j >= from
        <5>1. w[j] = s[j + 1] /\ j + 1 # from /\ j + 1 \in 1 .. Len(s)
          BY <1>5, <3>1, <3>2, <3>5, <4>1, <4>3
        <5>2. ShiftedTo(j + 1, from, to) = j
          BY <1>5, <2>2, <3>1, <3>5, <3>6, <4>3 DEF ShiftedTo
        <5> QED
          BY <3>4, <5>1, <5>2
      <4> QED
        BY <3>1, <3>5, <4>2, <4>3
    <3>7. CASE j > to
      <4>1. w[j] = v[j - 1] /\ j - 1 \in 1 .. Len(s) - 1
        BY <1>4, <1>5, <3>2, <3>5, <3>7
      <4>2. CASE j - 1 < from
        <5>1. w[j] = s[j - 1] /\ j - 1 # from /\ j - 1 \in 1 .. Len(s)
          BY <1>5, <3>1, <3>2, <3>5, <4>1, <4>2
        <5>2. ShiftedTo(j - 1, from, to) = j
          BY <1>5, <2>2, <3>1, <3>5, <3>7, <4>2 DEF ShiftedTo
        <5> QED
          BY <3>4, <5>1, <5>2
      <4>3. CASE j - 1 >= from
        <5>1. w[j] = s[j] /\ j # from
          <6>1. ~(j - 1 < from) /\ (j - 1) + 1 = j
            BY <3>1, <3>5, <4>3
          <6> QED
            BY <3>1, <3>2, <3>5, <4>1, <4>3, <6>1
        <5>2. ShiftedTo(j, from, to) = j
          BY <1>5, <2>2, <3>1, <3>5, <3>7, <4>3 DEF ShiftedTo
        <5> QED
          BY <3>4, <3>5, <5>1, <5>2
      <4> QED
        BY <3>1, <3>5, <4>2, <4>3
    <3> QED
      BY <1>5, <1>6, <3>5, <3>6, <3>7
  <2> QED
    BY <2>1, <2>2
<1>7. to \in 1 .. Len(w) /\ w[to] = c
  BY <1>2, <1>4, <1>5
<1>8. Range(w) = Range(s) \cup {c}
  BY <1>1, <1>3
<1> QED
  BY <1>3, <1>6, <1>7, <1>8 DEF w

LEMMA SetMovedKeeps ==
    ASSUME OrderInv, NEW r \in AdminRequests, SetMoved(r)
    PROVE  OrderInv'
<1> DEFINE x == req[r]
           c == x.content
           from == x.from
           to == x.to
           wanted == IF order = Null THEN Null ELSE Moved(c, to)
<1>1. /\ x # Null /\ x.at = "set" /\ shown' = shown /\ End(r, wanted)
      /\ contents' = IF contents[c] = Null THEN contents ELSE [contents EXCEPT ![c].pos = to]
  BY DEF SetMoved, At
<1>2. x \in Sound
  BY <1>1 DEF OrderInv, OrderTyped
<1>3. /\ c \in Contents /\ to \in Positions /\ from \in Positions \cup {Null} /\ to # from
  BY <1>1, <1>2 DEF Sound
<1>4. Kept(r)
  BY DEF OrderInv, UnderWay
<1>5. order # Null => order \in Seq(Tutorials) /\ IsInjective(order)
  BY DEF OrderInv, OrderTyped
<1> HIDE DEF x
<1> HIDE DEF c, to, from
<1>7. /\ contents' \in [Contents -> Placings]
      /\ \A d \in Contents : d # c => contents'[d] = contents[d]
      /\ contents[c] # Null => contents'[c] # Null /\ contents'[c].pos = to
  <2>1. CASE contents[c] = Null
    BY <1>1, <2>1 DEF OrderInv, OrderTyped
  <2>2. CASE contents[c] # Null
    <3> DEFINE row == [contents[c] EXCEPT !.pos = to]
    <3>1. contents[c] \in [pos : Positions \cup {Null}, active : BOOLEAN]
      BY <1>3, <2>2 DEF OrderInv, OrderTyped, Placings
    <3>2. row \in [pos : Positions \cup {Null}, active : BOOLEAN] /\ row.pos = to
      BY <1>3, <3>1
    <3>3. contents' = [contents EXCEPT ![c] = row]
      BY <1>1, <2>2
    <3> HIDE DEF row
    <3>4. row \in Placings /\ row # Null
      BY <3>2, NullAssumption DEF Placings, Rows, Positions
    <3> QED
      BY <1>3, <3>2, <3>3, <3>4, RowSet DEF OrderInv
  <2> QED
    BY <2>1, <2>2
<1>8. ASSUME wanted # Null
      PROVE  /\ wanted = InsertAt(Without(order, c), to, c)
             /\ order # Null /\ c \in Tutorials /\ to <= Len(Without(order, c)) + 1
  <2>1. order # Null /\ Moved(c, to) # Null /\ wanted = Moved(c, to)
    BY <1>8
  <2>2. Len(Without(order, c)) \in Nat /\ to \in Nat
    BY <1>3, <1>5, <2>1, WithoutOne DEF Positions
  <2> QED
    BY <2>1, <2>2 DEF Moved
<1> HIDE DEF wanted
<1>9. ASSUME wanted # Null
      PROVE  wanted \in Seq(Tutorials) /\ IsInjective(wanted)
  <2> DEFINE v == Without(order, c)
  <2>1. v \in Seq(Tutorials) /\ IsInjective(v) /\ Range(v) = Range(order) \ {c}
    BY <1>5, <1>8, <1>9, WithoutOne
  <2>2. wanted = InsertAt(v, to, c) /\ c \in Tutorials /\ to <= Len(v) + 1
    BY <1>8, <1>9
  <2> HIDE DEF v
  <2>3. to \in 1 .. Len(v) + 1
    BY <1>3, <2>1, <2>2 DEF Positions
  <2> QED
    BY <2>1, <2>2, <2>3, WithOne
<1>10. ASSUME x.alone, wanted # Null PROVE Ordered'
  <2>0. /\ order \in Seq(Tutorials) /\ IsInjective(order) /\ order # Null
        /\ c \in Tutorials /\ order' = wanted
    BY <1>1, <1>5, <1>8, <1>10 DEF End, x
  <2>1. OrderedFor(r)
    BY <1>1, <1>4, <1>10, <2>0 DEF Kept, Under, x, c
  <2>2. /\ contents[c] # Null /\ Range(order) \cup {c} = Numbered(Existing) \cup {c}
        /\ IF from = Null THEN c \notin Range(order) ELSE from \in DOMAIN order /\ order[from] = c
        /\ \A i \in DOMAIN order : order[i] # c => Sort(order[i]) = ShiftedTo(i, from, to)
    BY <2>1 DEF OrderedFor, x, c, from, to
  <2>3. /\ wanted \in Seq(Tutorials) /\ Range(wanted) = Range(order) \cup {c}
        /\ to \in 1 .. Len(wanted) /\ wanted[to] = c
        /\ \A j \in 1 .. Len(wanted) : j # to =>
              \E i \in 1 .. Len(order) :
                  order[i] = wanted[j] /\ order[i] # c /\ ShiftedTo(i, from, to) = j
    BY <1>3, <1>8, <1>10, <2>0, <2>2, MovedTo
  <2>4. Tutorials \subseteq Contents /\ to # Null /\ DOMAIN order = 1 .. Len(order)
    BY <1>3, <2>0, ContentOrderAssumption, NullAssumption DEF Positions
  <2>5. contents'[c] # Null /\ contents'[c].pos = to
    BY <1>7, <2>2
  <2>6. Numbered(Existing)' = Numbered(Existing) \cup {c}
    BY <1>7, <2>0, <2>4, <2>5 DEF Numbered, Existing, There, Sort
  <2>7. ASSUME NEW j \in 1 .. Len(wanted) PROVE contents'[wanted[j]].pos = j
    <3>1. CASE j = to
      BY <2>3, <2>5, <3>1
    <3>2. CASE j # to
      <4>1. PICK i \in 1 .. Len(order) :
                order[i] = wanted[j] /\ order[i] # c /\ ShiftedTo(i, from, to) = j
        BY <2>3, <3>2
      <4>2. order[i] \in Contents /\ contents'[order[i]] = contents[order[i]]
        BY <1>7, <2>0, <2>4, <4>1
      <4>3. Sort(order[i]) = j
        BY <2>2, <2>4, <4>1
      <4> QED
        BY <4>1, <4>2, <4>3 DEF Sort
    <3> QED
      BY <3>1, <3>2
  <2>8. DOMAIN wanted = 1 .. Len(wanted)
    BY <2>3
  <2> QED
    BY <2>0, <2>2, <2>3, <2>6, <2>7, <2>8 DEF Ordered, Sort
<1>11. /\ req' \in [AdminRequests -> Sound \cup {Null}] /\ opened' \in 0 .. MaxRequests
       /\ OneAtATime' /\ UnderWay' /\ InOrder'
  BY <1>1, <1>10, Goes DEF OrderInv, x
<1>12. order' = Null \/ (order' \in Seq(Tutorials) /\ IsInjective(order'))
  BY <1>1, <1>9 DEF End
<1> QED
  BY <1>1, <1>7, <1>11, <1>12 DEF OrderInv, OrderTyped

-------------------------------------------------------------------------------
(* Deletions, and the numbering of a list.                                 *)
LEMMA RemoveRowKeeps ==
    ASSUME OrderInv, NEW r \in AdminRequests, RemoveRow(r)
    PROVE  OrderInv'
<1> DEFINE x == req[r]
           c == x.content
<1>1. /\ x # Null /\ x.at = "delete" /\ shown' = shown
      /\ contents' = [contents EXCEPT ![c] = Null]
      /\ IF c \in Tutorials THEN Resume(r, "sort") ELSE End(r, order)
  BY DEF RemoveRow, At
<1>2. x \in Sound
  BY <1>1 DEF OrderInv, OrderTyped
<1>3. c \in Contents /\ Tutorials \subseteq Contents
  BY <1>1, <1>2, ContentOrderAssumption DEF Sound
<1>4. Kept(r)
  BY DEF OrderInv, UnderWay
<1>5. order # Null /\ x.alone => Ordered
  BY <1>1, <1>4 DEF Kept, Under
<1> HIDE DEF c
<1>6. /\ contents' \in [Contents -> Placings] /\ contents'[c] = Null
      /\ \A d \in Contents : d # c => contents'[d] = contents[d]
  BY <1>1, <1>3, RowSet DEF OrderInv, Placings
<1>7. CASE c \in Tutorials
  <2>1. /\ req' = [req EXCEPT ![r].at = "sort"] /\ opened' = opened /\ order' = order
    BY <1>1, <1>7 DEF Resume
  <2>2. /\ req' = [req EXCEPT ![r] = req'[r]] /\ req'[r] \in RequestType /\ req'[r] # Null
        /\ req'[r].at = "sort" /\ req'[r].content = c /\ req'[r].ids = x.ids
        /\ req'[r].alone = x.alone
    <3>1. "sort" \in Stages
      BY DEF Stages
    <3> QED
      BY <1>1, <2>1, <3>1, Resumes DEF OrderInv, c
  <2>3. req'[r] \in Sound
    BY <1>2, <1>7, <2>2 DEF Sound
  <2>4. ASSUME order # Null, x.alone PROVE OrderedBut(r)'
    <3>1. order \in Seq(Tutorials) /\ Ordered
      BY <1>5, <2>4 DEF OrderInv, OrderTyped
    <3>2. Numbered(Existing)' = Numbered(Existing) \ {c}
      BY <1>3, <1>6 DEF Numbered, Existing, There, Sort
    <3>3. \A i \in DOMAIN order : order[i] # c => contents'[order[i]].pos = i
      <4> SUFFICES ASSUME NEW i \in DOMAIN order, order[i] # c
                   PROVE  contents'[order[i]].pos = i
        OBVIOUS
      <4>1. order[i] \in Contents /\ Sort(order[i]) = i
        BY <1>3, <3>1 DEF Ordered
      <4> QED
        BY <1>6, <4>1 DEF Sort
    <3> QED
      BY <1>6, <2>1, <2>2, <3>1, <3>2, <3>3 DEF OrderedBut, Ordered, Sort
  <2>5. Kept(r)'
    BY <2>1, <2>2, <2>4 DEF Kept, Under
  <2>6. OneAtATime' /\ UnderWay' /\ InOrder'
    BY <1>1, <2>1, <2>2, <2>5, GoesOn DEF OrderInv
  <2> QED
    BY <1>1, <1>6, <2>1, <2>2, <2>3, <2>6 DEF OrderInv, OrderTyped
<1>8. CASE c \notin Tutorials
  <2>1. End(r, order)
    BY <1>1, <1>8
  <2>2. ASSUME x.alone, order # Null PROVE Ordered'
    <3>1. Ordered /\ order' = order
      BY <1>5, <2>1, <2>2 DEF End
    <3>2. \A d \in Tutorials : contents'[d] = contents[d]
      BY <1>3, <1>6, <1>8
    <3> QED
      BY <3>1, <3>2, Untouched DEF OrderInv
  <2>3. /\ req' \in [AdminRequests -> Sound \cup {Null}] /\ opened' \in 0 .. MaxRequests
        /\ OneAtATime' /\ UnderWay' /\ InOrder'
    BY <1>1, <2>1, <2>2, Goes DEF OrderInv
  <2>4. order' = Null \/ (order' \in Seq(Tutorials) /\ IsInjective(order'))
    BY <2>1 DEF End, OrderInv, OrderTyped
  <2> QED
    BY <1>1, <1>6, <2>3, <2>4 DEF OrderInv, OrderTyped
<1> QED
  BY <1>7, <1>8

LEMMA SortAfreshKeeps ==
    ASSUME OrderInv, NEW r \in AdminRequests, SortAfresh(r)
    PROVE  OrderInv'
<1>1. PICK s \in Sorted(Existing) : req' = [req EXCEPT ![r].at = "number", ![r].ids = s]
  BY DEF SortAfresh
<1> DEFINE x == req[r]
           y == [x EXCEPT !.at = "number", !.ids = s]
<1>2. /\ x # Null /\ x.at = "sort" /\ req' = [req EXCEPT ![r] = y]
      /\ contents' = contents /\ shown' = shown /\ opened' = opened /\ order' = order
  BY <1>1 DEF SortAfresh, At
<1>3. x \in Sound
  BY <1>2 DEF OrderInv, OrderTyped
<1>4. x.content \in Tutorials /\ x.content # Null
  BY <1>2, <1>3, ContentOrderAssumption, NullAssumption DEF Sound
<1>5. Kept(r)
  BY DEF OrderInv, UnderWay
<1>6. /\ s \in Seq(Tutorials) /\ IsInjective(s) /\ Range(s) = Existing /\ InSortOrder(s)
  <2>1. s \in SetToSeqs(Existing) /\ InSortOrder(s)
    BY DEF Sorted
  <2>2. Existing \subseteq Tutorials /\ IsFiniteSet(Existing)
    BY ContentOrderAssumption, FS_Subset DEF Existing, There
  <2>3. s \in Seq(Existing) /\ IsInjective(s) /\ Range(s) = Existing
    BY <2>1, <2>2, Listed
  <2> QED
    BY <2>1, <2>2, <2>3
<1>7. req'[r] = y
  BY <1>2 DEF OrderInv, OrderTyped
<1> HIDE DEF x
<1>8. /\ y \in RequestType /\ y.at = "number" /\ y.content = x.content /\ y.ids = s
      /\ y.alone = x.alone
  BY <1>3, <1>6 DEF Sound, RequestType, Stages
<1> HIDE DEF y
<1>9. y \in Sound /\ y # Null
  BY <1>4, <1>6, <1>8, NullAssumption DEF Sound
<1>10. ASSUME order # Null, x.alone PROVE Under(r)'
  <2>1. OrderedBut(r)
    BY <1>2, <1>4, <1>5, <1>10 DEF Kept, Under, x
  <2>2. OrderedBut(r)'
    BY <1>2, <1>7, <1>8, <2>1 DEF OrderedBut, Numbered, Existing, There, Sort, x
  <2>3. InSortOrder(s)'
    BY <1>2, <1>6 DEF InSortOrder, Before, Sort
  <2>4. InSortOrder(req'[r].ids) <=> InSortOrder(s)
    BY <1>7, <1>8
  <2>5. InSortOrder(req[r].ids)'
    BY <1>2, <1>6, <1>7, <1>8 DEF InSortOrder, Before, Sort
  <2> QED
    BY <1>7, <1>8, <2>2, <2>5 DEF Under
<1>11. Existing' = Existing
  BY <1>2 DEF Existing, There
<1>12. Kept(r)'
  BY <1>2, <1>6, <1>7, <1>8, <1>10, <1>11 DEF Kept
<1>13. OneAtATime' /\ UnderWay' /\ InOrder'
  BY <1>2, <1>7, <1>8, <1>9, <1>12, GoesOn DEF OrderInv, x
<1> QED
  BY <1>2, <1>9, <1>13 DEF OrderInv, OrderTyped

(* The tutorials that were numbered before the row went begin the list.    *)
LEMMA AsItWas ==
    ASSUME OrderInv, NEW r \in AdminRequests, req[r] # Null, OrderedBut(r), order # Null,
           Range(req[r].ids) = Existing, InSortOrder(req[r].ids)
    PROVE  LET kept == Without(order, req[r].content)
               ids == req[r].ids
           IN  kept \o SubSeq(ids, Len(kept) + 1, Len(ids)) = ids
<1> DEFINE c == req[r].content
           w == Without(order, c)
           s == req[r].ids
<1>1. order \in Seq(Tutorials) /\ IsInjective(order)
  BY DEF OrderInv, OrderTyped
<1>2. s \in Seq(Tutorials) /\ IsInjective(s)
  BY DEF OrderInv, OrderTyped, Sound, RequestType
<1>3. /\ w \in Seq(Tutorials) /\ IsInjective(w) /\ Range(w) = Range(order) \ {c}
  BY <1>1, WithoutOne
<1>4. /\ Range(order) \ {c} = Numbered(Existing)
      /\ \A i \in DOMAIN order : order[i] # c => Sort(order[i]) = i
  BY DEF OrderedBut
<1>5. Range(w) = Numbered(Range(s))
  BY <1>3, <1>4
<1> HIDE DEF c, s
<1>6. /\ \A i \in 1 .. Len(w) : Sort(w[i]) \in Nat
      /\ \A i, j \in 1 .. Len(w) : i < j => Sort(w[i]) < Sort(w[j])
  <2>0. Len(order) \in Nat /\ DOMAIN order = 1 .. Len(order)
    BY <1>1
  <2>1. CASE c \notin Range(order)
    <3>1. w = order /\ \A i \in 1 .. Len(order) : order[i] # c
      BY <1>1, <2>1, NotThere, Ranges
    <3> HIDE DEF w
    <3>2. \A i \in 1 .. Len(order) : Sort(order[i]) = i
      BY <1>4, <2>0, <3>1
    <3> QED
      BY <2>0, <3>1, <3>2
  <2>2. CASE c \in Range(order)
    <3>1. PICK k \in 1 .. Len(order) : order[k] = c
      BY <1>1, <2>2, Ranges
    <3>2. /\ Len(w) = Len(order) - 1
          /\ \A j \in 1 .. Len(order) - 1 : w[j] = IF j < k THEN order[j] ELSE order[j + 1]
      BY <1>1, <3>1, LeftOut
    <3> HIDE DEF w
    <3>3. \A i \in 1 .. Len(order) : i # k => order[i] # c
      BY <1>1, <3>1 DEF IsInjective
    <3>4. \A i \in 1 .. Len(order) : i # k => Sort(order[i]) = i
      BY <1>4, <2>0, <3>3
    <3>5. ASSUME NEW i \in 1 .. Len(w) PROVE Sort(w[i]) = IF i < k THEN i ELSE i + 1
      <4>1. CASE i < k
        <5>1. i \in 1 .. Len(order) /\ i # k /\ w[i] = order[i]
          BY <2>0, <3>2, <4>1
        <5> QED
          BY <3>4, <4>1, <5>1
      <4>2. CASE i >= k
        <5>1. i + 1 \in 1 .. Len(order) /\ i + 1 # k /\ ~(i < k)
          BY <2>0, <3>2, <4>2
        <5>2. w[i] = order[i + 1]
          BY <2>0, <3>2, <5>1
        <5> QED
          BY <3>4, <5>1, <5>2
      <4> QED
        BY <2>0, <3>1, <3>2, <4>1, <4>2
    <3>6. Len(w) \in Nat /\ k \in Nat
      BY <1>3, <2>0
    <3>7. \A i \in 1 .. Len(w) : Sort(w[i]) \in Nat
      BY <3>5, <3>6
    <3>8. ASSUME NEW i \in 1 .. Len(w), NEW j \in 1 .. Len(w), i < j
          PROVE  Sort(w[i]) < Sort(w[j])
      BY <3>5, <3>6, <3>8
    <3> QED
      BY <3>7, <3>8
  <2> QED
    BY <2>1, <2>2
<1>7. InSortOrder(s)
  BY DEF s
<1> HIDE DEF w
<1>8. Len(w) <= Len(s) /\ \A i \in 1 .. Len(w) : s[i] = w[i]
  BY <1>2, <1>3, <1>5, <1>6, <1>7, InLine
<1>9. w \o SubSeq(s, Len(w) + 1, Len(s)) = s
  BY <1>2, <1>3, <1>8, Continued
<1> QED
  BY <1>9 DEF w, s, c

LEMMA NumberKeeps ==
    ASSUME OrderInv, NEW r \in AdminRequests, Number(r)
    PROVE  OrderInv'
<1> DEFINE x == req[r]
           ids == x.ids
           kept == Without(order, x.content)
           wanted == IF x.content = Null \/ order = Null THEN ids
                     ELSE kept \o SubSeq(ids, Len(kept) + 1, Len(ids))
<1>1. /\ x # Null /\ x.at = "number" /\ shown' = shown /\ End(r, wanted)
      /\ contents' = [c \in Contents |->
             IF contents[c] = Null \/ c \notin Range(ids) THEN contents[c]
             ELSE [contents[c] EXCEPT !.pos = PlaceIn(ids, c)]]
  BY DEF Number, At
<1>2. x \in Sound
  BY <1>1 DEF OrderInv, OrderTyped
<1>3. ids \in Seq(Tutorials) /\ IsInjective(ids) /\ Tutorials \subseteq Contents
  BY <1>2, ContentOrderAssumption DEF Sound, RequestType
<1>4. Kept(r)
  BY DEF OrderInv, UnderWay
<1>5. ASSUME x.alone PROVE wanted = ids /\ Range(ids) = Existing
  <2>1. Range(ids) = Existing
    BY <1>1, <1>4, <1>5 DEF Kept
  <2>2. CASE x.content = Null \/ order = Null
    BY <2>1, <2>2
  <2>3. CASE x.content # Null /\ order # Null
    <3>1. OrderedBut(r) /\ InSortOrder(ids)
      BY <1>1, <1>4, <1>5, <2>3 DEF Kept, Under
    <3>2. kept \o SubSeq(ids, Len(kept) + 1, Len(ids)) = ids
      BY <1>1, <2>1, <2>3, <3>1, AsItWas
    <3> QED
      BY <2>1, <2>3, <3>2
  <2> QED
    BY <2>2, <2>3
<1> HIDE DEF wanted, x, ids
<1>6. \A i \in 1 .. Len(ids) : PlaceIn(ids, ids[i]) = i /\ i \in Positions /\ ids[i] \in Contents
  <2> TAKE i \in 1 .. Len(ids)
  <2>1. i \in DOMAIN ids /\ ids[i] \in Tutorials /\ i \in Nat \ {0}
    BY <1>3
  <2> QED
    BY <1>3, <2>1, Placed DEF Positions
<1>7. ASSUME NEW c \in Contents
      PROVE  /\ contents'[c] \in Placings /\ (contents'[c] # Null <=> contents[c] # Null)
             /\ contents[c] # Null /\ c \in Range(ids) => contents'[c].pos = PlaceIn(ids, c)
                                                          /\ contents'[c].pos \in Positions
  <2>1. CASE contents[c] = Null \/ c \notin Range(ids)
    BY <1>1, <2>1 DEF OrderInv, OrderTyped
  <2>2. CASE contents[c] # Null /\ c \in Range(ids)
    <3> DEFINE row == [contents[c] EXCEPT !.pos = PlaceIn(ids, c)]
    <3>1. PICK i \in 1 .. Len(ids) : ids[i] = c
      BY <1>3, <2>2, Ranges
    <3>2. PlaceIn(ids, c) \in Positions
      BY <1>6, <3>1
    <3>3. contents[c] \in [pos : Positions \cup {Null}, active : BOOLEAN]
      BY <2>2 DEF OrderInv, OrderTyped, Placings
    <3>4. row \in [pos : Positions \cup {Null}, active : BOOLEAN] /\ row.pos = PlaceIn(ids, c)
      BY <3>2, <3>3
    <3>5. contents'[c] = row
      BY <1>1, <2>2
    <3> HIDE DEF row
    <3>6. row \in Placings /\ row # Null
      BY <3>4, NullAssumption DEF Placings, Rows, Positions
    <3> QED
      BY <2>2, <3>2, <3>4, <3>5, <3>6
  <2> QED
    BY <2>1, <2>2
<1>8. contents' \in [Contents -> Placings]
  BY <1>1, <1>7
<1>9. ASSUME x.alone PROVE Ordered'
  <2>1. order' = ids /\ Range(ids) = Existing
    BY <1>1, <1>5, <1>9 DEF End, x
  <2>2. ASSUME NEW c \in Contents
        PROVE  c \in Numbered(Existing)' <=> c \in Existing
    <3>1. c \in Existing => contents'[c] # Null /\ contents'[c].pos # Null
      BY <1>7, <2>1, NullAssumption DEF Existing, There, Positions
    <3> QED
      BY <1>7, <3>1 DEF Numbered, Existing, There, Sort
  <2>3. Numbered(Existing)' = Existing
    BY <2>2 DEF Numbered, Existing, There
  <2>4. ASSUME NEW i \in 1 .. Len(ids) PROVE contents'[ids[i]].pos = i
    <3>1. ids[i] \in Range(ids) /\ ids[i] \in Contents
      BY <1>3, <1>6, Ranges
    <3>2. contents[ids[i]] # Null
      BY <2>1, <3>1 DEF Existing, There
    <3> QED
      BY <1>6, <1>7, <3>1, <3>2
  <2>5. DOMAIN ids = 1 .. Len(ids)
    BY <1>3
  <2> QED
    BY <2>1, <2>3, <2>4, <2>5 DEF Ordered, Sort
<1>10. /\ req' \in [AdminRequests -> Sound \cup {Null}] /\ opened' \in 0 .. MaxRequests
       /\ OneAtATime' /\ UnderWay' /\ InOrder'
  BY <1>1, <1>9, Goes DEF OrderInv, x
<1>11. order' = Null \/ (order' \in Seq(Tutorials) /\ IsInjective(order'))
  BY <1>1, <1>3, <1>5 DEF End, x
<1> QED
  BY <1>1, <1>8, <1>10, <1>11 DEF OrderInv, OrderTyped

(* A request that ends without having written.                             *)
LEMMA EndKeeps ==
    ASSUME OrderInv, NEW r \in AdminRequests, req[r] # Null, NEW wanted,
           wanted = Null \/ (wanted = order /\ req[r].at = "refused"),
           End(r, wanted), contents' = contents, shown' = shown
    PROVE  OrderInv'
<1>1. Kept(r)
  BY DEF OrderInv, UnderWay
<1>2. ASSUME req[r].alone, wanted # Null PROVE Ordered'
  <2>1. Ordered /\ order' = order
    BY <1>1, <1>2 DEF Kept, Under, End
  <2> QED
    BY <2>1, Untouched DEF OrderInv
<1>3. /\ req' \in [AdminRequests -> Sound \cup {Null}] /\ opened' \in 0 .. MaxRequests
      /\ OneAtATime' /\ UnderWay' /\ InOrder'
  BY <1>2, Goes DEF OrderInv
<1>4. order' = Null \/ (order' \in Seq(Tutorials) /\ IsInjective(order'))
  BY DEF End, OrderInv, OrderTyped
<1> QED
  BY <1>3, <1>4 DEF OrderInv, OrderTyped

LEMMA FetchKeeps ==
    ASSUME OrderInv, Fetch
    PROVE  OrderInv'
<1>1. PICK s \in Listings : shown' = s
  BY DEF Fetch
<1>2. contents' = contents /\ req' = req /\ opened' = opened /\ order' = order
  BY DEF Fetch
<1>3. shown' \in Seq(Tutorials) /\ IsInjective(shown')
  <2> DEFINE cs == {c \in Existing : contents[c].active}
  <2>1. s \in SetToSeqs(cs)
    BY DEF Listings, Sorted
  <2>2. cs \subseteq Tutorials /\ IsFiniteSet(cs)
    BY ContentOrderAssumption, FS_Subset DEF Existing, There
  <2> HIDE DEF cs
  <2>3. s \in Seq(cs) /\ IsInjective(s)
    BY <2>1, <2>2, Listed
  <2> QED
    BY <1>1, <2>2, <2>3
<1>4. OneAtATime' /\ UnderWay' /\ InOrder'
  BY <1>2 DEF OrderInv, OneAtATime, UnderWay, Kept, Under, OrderedFor, OrderedBut, Ordered,
              InOrder, Quiet, Numbered, Existing, There, Sort, InSortOrder, Before, Shifts
<1> QED
  BY <1>2, <1>3, <1>4 DEF OrderInv, OrderTyped

LEMMA OrderStep == OrderInv /\ [OrderNext]_orderVars => OrderInv'
<1> SUFFICES ASSUME OrderInv, [OrderNext]_orderVars PROVE OrderInv'
  OBVIOUS
<1>0. 1 .. MaxPosition \subseteq Positions
  BY ContentOrderAssumption DEF Positions
<1>1. ASSUME NEW r \in AdminRequests,
             \/ Match(r) \/ Shift(r) \/ SetMoved(r)
             \/ RemoveRow(r) \/ SortAfresh(r) \/ Number(r)
             \/ Drag(r) \/ Refuse(r) \/ Fail(r)
             \/ \E c \in Contents : Delete(r, c) \/ \E to \in 1 .. MaxPosition : Move(r, c, to)
      PROVE  OrderInv'
  <2>1. CASE Match(r)
    BY <2>1, MatchKeeps
  <2>2. CASE Shift(r)
    BY <2>2, ShiftKeeps
  <2>3. CASE SetMoved(r)
    BY <2>3, SetMovedKeeps
  <2>4. CASE RemoveRow(r)
    BY <2>4, RemoveRowKeeps
  <2>5. CASE SortAfresh(r)
    BY <2>5, SortAfreshKeeps
  <2>6. CASE Number(r)
    BY <2>6, NumberKeeps
  <2>7. CASE Drag(r)
    BY <2>7, DragKeeps
  <2>8. CASE Refuse(r)
    BY <2>8, EndKeeps DEF Refuse, At
  <2>9. CASE Fail(r)
    BY <2>9, EndKeeps DEF Fail
  <2>10. ASSUME NEW c \in Contents, Delete(r, c) PROVE OrderInv'
    BY <2>10, DeleteKeeps
  <2>11. ASSUME NEW c \in Contents, NEW to \in 1 .. MaxPosition, Move(r, c, to) PROVE OrderInv'
    BY <1>0, <2>11, MoveKeeps
  <2> QED
    BY <1>1, <2>1, <2>2, <2>3, <2>4, <2>5, <2>6, <2>7, <2>8, <2>9, <2>10, <2>11
<1>2. ASSUME NEW c \in Contents, NEW pos \in 1 .. MaxPosition, Create(c, pos) \/ SetSort(c, pos)
      PROVE  OrderInv'
  BY <1>0, <1>2, CreateKeeps, SetSortKeeps
<1>3. ASSUME NEW c \in Contents, Create(c, Null) PROVE OrderInv'
  BY <1>3, CreateKeeps
<1>4. ASSUME NEW c \in Contents, NEW active \in BOOLEAN, SetStatus(c, active) PROVE OrderInv'
  BY <1>4, SetStatusKeeps
<1>5. CASE Fetch
  BY <1>5, FetchKeeps
<1>6. CASE UNCHANGED orderVars
  BY <1>6 DEF orderVars, OrderInv, OrderTyped, OneAtATime, UnderWay, Kept, Under, OrderedFor,
              OrderedBut, Ordered, InOrder, Quiet, Numbered, Existing, There, Sort, InSortOrder,
              Before, Shifts
<1> QED
  BY <1>1, <1>2, <1>3, <1>4, <1>5, <1>6 DEF OrderNext

LEMMA OrderAlways == OrderSpec => []OrderInv
BY OrderInitially, OrderStep, PTL DEF OrderSpec

(* InOrder, for any contents and requests: requests that come one at a     *)
(* time leave the numbered tutorials 1 to n in the order that the moves,   *)
(* deletions and drags were meant to give them.                            *)
THEOREM TutorialsInOrder == OrderSpec => []InOrder
<1>1. OrderInv => InOrder
  BY DEF OrderInv
<1> QED
  BY <1>1, OrderAlways, PTL

(* FromOne: no shift on stale positions, and no other overlap, pushes a    *)
(* content below the first place, and the state is well typed.             *)
THEOREM PositionsFromOne == OrderSpec => []FromOne
<1>1. OrderInv => FromOne
  BY TypedOrder DEF OrderInv
<1> QED
  BY <1>1, OrderAlways, PTL

-------------------------------------------------------------------------------
(***************************************************************************)
(* RewardProducers, for any number of requests of any kind.                *)
(***************************************************************************)

(* The unique indexes. *)
NoTwins ==
    \A a, b \in rows : Kind[a] # "post" /\ SameSubject(a, b) => a = b

(* A lookup returned a committed row of the same account or record. *)
LookupHonest ==
    \A r \in Requests : seen[r] # None => seen[r] \in rows /\ SameSubject(r, seen[r])

(* Who has found a row does not insert one, and who updates has found one. *)
InsertsAlone ==
    \A r \in Requests :
        /\ r \in rows => seen[r] = None /\ at[r] \notin {"new", "insert", "update"}
        /\ at[r] \in {"new", "insert"} => seen[r] = None
        /\ at[r] = "update" => seen[r] # None

Rewarding(r) == at[r] \in {"saved", "adding"} \/ pending[r] # {}

(* What goes to the queues has its row, and a watch request is complete. *)
RewardsRows ==
    \A r \in Requests : Rewarding(r) =>
        /\ at[r] # "new"
        /\ Target(r) \in rows
        /\ Kind[r] = "watch" => Complete[r]

QueuedRows == \A q \in Queues : queued[q] \subseteq rows

QueuedEarned ==
    \A q \in Queues : \A row \in queued[q] :
        Kind[row] = "watch" =>
            \E r \in Requests : Complete[r] /\ SameSubject(r, row) /\ at[r] # "new"

(* Both adds are sent before either is awaited. *)
AddsAccounted ==
    \A r \in Requests : at[r] = "adding" =>
        \A q \in Queues : q \in pending[r] \/ Target(r) \in queued[q]

ProducersInv ==
    /\ TypeOK /\ NoTwins /\ LookupHonest /\ InsertsAlone
    /\ RewardsRows /\ QueuedRows /\ QueuedEarned
    /\ AddsAccounted /\ AnsweredMeansQueued

USE ProducerAssumption

-------------------------------------------------------------------------------
LEMMA ProducersInitially == Init => ProducersInv
BY DEF Init, ProducersInv, TypeOK, NoTwins, LookupHonest, InsertsAlone, RewardsRows, Rewarding,
       QueuedRows, QueuedEarned, AddsAccounted, AnsweredMeansQueued, Places

(* What the request is about is a request. *)
LEMMA TargetType == TypeOK => \A r \in Requests : Target(r) \in Requests
BY DEF TypeOK, Target

LEMMA ProducersStepTypes == TypeOK /\ InsertsAlone /\ [Next]_vars => TypeOK'
<1> SUFFICES ASSUME TypeOK, InsertsAlone, [Next]_vars PROVE TypeOK'
  OBVIOUS
<1>1. ASSUME NEW r \in Requests, FindNothing(r) \/ Answer(r) \/ Error(r) PROVE TypeOK'
  BY <1>1 DEF FindNothing, Answer, Error, Go, TypeOK, Places, dbVars
<1>2. ASSUME NEW r \in Requests, NEW row \in rows, Find(r, row) PROVE TypeOK'
  BY <1>2 DEF Find, Go, TypeOK, Places, dbVars
<1>3. ASSUME NEW r \in Requests, Insert(r) \/ Update(r) PROVE TypeOK'
  <2>1. Update(r) => seen[r] \in Requests
    BY DEF Update, TypeOK, InsertsAlone
  <2>2. at' \in [Requests -> Places]
    BY <1>3 DEF Insert, Update, Go, TypeOK, Places
  <2>3. rows' \subseteq Requests /\ full' \subseteq Requests
    BY <1>3, <2>1 DEF Insert, Update, TypeOK
  <2> QED
    BY <1>3, <2>2, <2>3 DEF Insert, Update, TypeOK
<1>4. ASSUME NEW r \in Requests, Enqueue(r) PROVE TypeOK'
  BY <1>4, TargetType DEF Enqueue, Go, TypeOK, Places, dbVars
<1>5. ASSUME NEW r \in Requests, NEW q \in Queues, Add(r, q) \/ AddFails(r, q) PROVE TypeOK'
  BY <1>5, TargetType DEF Add, AddFails, Go, TypeOK, Places, dbVars
<1>6. CASE Crash
  BY <1>6 DEF Crash, TypeOK, Places, dbVars
<1>7. CASE UNCHANGED vars
  BY <1>7 DEF vars, dbVars, TypeOK
<1> QED
  BY <1>1, <1>2, <1>3, <1>4, <1>5, <1>6, <1>7 DEF Next, Proceed, Conflict

LEMMA ProducersStep == ProducersInv /\ [Next]_vars => ProducersInv'
<1> SUFFICES ASSUME ProducersInv, [Next]_vars PROVE ProducersInv'
  OBVIOUS
<1> USE DEF ProducersInv
<1>0. TypeOK /\ TypeOK'
  BY ProducersStepTypes
<1>1. ASSUME NEW r \in Requests, FindNothing(r) PROVE ProducersInv'
  <2>1. NoTwins'
    BY <1>0, <1>1 DEF TypeOK, FindNothing, Go, dbVars, NoTwins, Twins, SameSubject
  <2>2. LookupHonest'
    BY <1>0, <1>1 DEF TypeOK, FindNothing, Go, dbVars, LookupHonest, Twins, SameSubject
  <2>3. InsertsAlone'
    BY <1>0, <1>1 DEF TypeOK, FindNothing, Go, dbVars, InsertsAlone, Twins, LookupHonest
  <2>4. RewardsRows'
    BY <1>0, <1>1 DEF TypeOK, FindNothing, Go, dbVars, RewardsRows, Rewarding, Target, InsertsAlone, LookupHonest, SameSubject
  <2>5. QueuedRows'
    BY <1>0, <1>1 DEF TypeOK, FindNothing, Go, dbVars, QueuedRows, RewardsRows, Rewarding
  <2>6. QueuedEarned'
    BY <1>0, <1>1 DEF TypeOK, FindNothing, Go, dbVars, QueuedEarned, RewardsRows, Rewarding, Target, LookupHonest, SameSubject
  <2>7. AddsAccounted'
    BY <1>0, <1>1 DEF TypeOK, FindNothing, Go, dbVars, AddsAccounted, Target, InsertsAlone
  <2>8. AnsweredMeansQueued'
    BY <1>0, <1>1 DEF TypeOK, FindNothing, Go, dbVars, AnsweredMeansQueued, InBothQueues, AddsAccounted, InsertsAlone, Target, RewardsRows, Rewarding
  <2> QED
    BY <1>0, <2>1, <2>2, <2>3, <2>4, <2>5, <2>6, <2>7, <2>8
<1>2. ASSUME NEW r \in Requests, NEW row \in rows, Find(r, row) PROVE ProducersInv'
  <2>1. NoTwins'
    BY <1>0, <1>2 DEF TypeOK, Find, Go, dbVars, NoTwins, Twins, SameSubject
  <2>2. LookupHonest'
    BY <1>0, <1>2 DEF TypeOK, Find, Go, dbVars, LookupHonest, Twins, SameSubject
  <2>3. InsertsAlone'
    BY <1>0, <1>2 DEF TypeOK, Find, Go, dbVars, InsertsAlone, Twins, LookupHonest
  <2>4. RewardsRows'
    BY <1>0, <1>2 DEF TypeOK, Find, Go, dbVars, RewardsRows, Rewarding, Target, InsertsAlone, LookupHonest, SameSubject
  <2>5. QueuedRows'
    BY <1>0, <1>2 DEF TypeOK, Find, Go, dbVars, QueuedRows, RewardsRows, Rewarding
  <2>6. QueuedEarned'
    BY <1>0, <1>2 DEF TypeOK, Find, Go, dbVars, QueuedEarned, RewardsRows, Rewarding, Target, LookupHonest, SameSubject
  <2>7. AddsAccounted'
    BY <1>0, <1>2 DEF TypeOK, Find, Go, dbVars, AddsAccounted, Target, InsertsAlone
  <2>8. AnsweredMeansQueued'
    BY <1>0, <1>2 DEF TypeOK, Find, Go, dbVars, AnsweredMeansQueued, InBothQueues, AddsAccounted, InsertsAlone, Target, RewardsRows, Rewarding
  <2> QED
    BY <1>0, <2>1, <2>2, <2>3, <2>4, <2>5, <2>6, <2>7, <2>8
<1>3. ASSUME NEW r \in Requests, Insert(r) PROVE ProducersInv'
  <2>1. NoTwins'
    BY <1>0, <1>3 DEF TypeOK, Insert, Go, dbVars, NoTwins, Twins, SameSubject
  <2>2. LookupHonest'
    BY <1>0, <1>3 DEF TypeOK, Insert, Go, dbVars, LookupHonest, Twins, SameSubject
  <2>3. InsertsAlone'
    BY <1>0, <1>3 DEF TypeOK, Insert, Go, dbVars, InsertsAlone, Twins, LookupHonest
  <2>4. RewardsRows'
    BY <1>0, <1>3 DEF TypeOK, Insert, Go, dbVars, RewardsRows, Rewarding, Target, InsertsAlone, LookupHonest, SameSubject
  <2>5. QueuedRows'
    BY <1>0, <1>3 DEF TypeOK, Insert, Go, dbVars, QueuedRows, RewardsRows, Rewarding
  <2>6. QueuedEarned'
    BY <1>0, <1>3 DEF TypeOK, Insert, Go, dbVars, QueuedEarned, RewardsRows, Rewarding, Target, LookupHonest, SameSubject
  <2>7. AddsAccounted'
    BY <1>0, <1>3 DEF TypeOK, Insert, Go, dbVars, AddsAccounted, Target, InsertsAlone
  <2>8. AnsweredMeansQueued'
    BY <1>0, <1>3 DEF TypeOK, Insert, Go, dbVars, AnsweredMeansQueued, InBothQueues, AddsAccounted, InsertsAlone, Target, RewardsRows, Rewarding
  <2> QED
    BY <1>0, <2>1, <2>2, <2>3, <2>4, <2>5, <2>6, <2>7, <2>8
<1>4. ASSUME NEW r \in Requests, Update(r) PROVE ProducersInv'
  <2>1. NoTwins'
    BY <1>0, <1>4 DEF TypeOK, Update, Go, dbVars, NoTwins, Twins, SameSubject
  <2>2. LookupHonest'
    BY <1>0, <1>4 DEF TypeOK, Update, Go, dbVars, LookupHonest, Twins, SameSubject
  <2>3. InsertsAlone'
    BY <1>0, <1>4 DEF TypeOK, Update, Go, dbVars, InsertsAlone, Twins, LookupHonest
  <2>4. RewardsRows'
    BY <1>0, <1>4 DEF TypeOK, Update, Go, dbVars, RewardsRows, Rewarding, Target, InsertsAlone, LookupHonest, SameSubject
  <2>5. QueuedRows'
    BY <1>0, <1>4 DEF TypeOK, Update, Go, dbVars, QueuedRows, RewardsRows, Rewarding
  <2>6. QueuedEarned'
    BY <1>0, <1>4 DEF TypeOK, Update, Go, dbVars, QueuedEarned, RewardsRows, Rewarding, Target, LookupHonest, SameSubject
  <2>7. AddsAccounted'
    BY <1>0, <1>4 DEF TypeOK, Update, Go, dbVars, AddsAccounted, Target, InsertsAlone
  <2>8. AnsweredMeansQueued'
    BY <1>0, <1>4 DEF TypeOK, Update, Go, dbVars, AnsweredMeansQueued, InBothQueues, AddsAccounted, InsertsAlone, Target, RewardsRows, Rewarding
  <2> QED
    BY <1>0, <2>1, <2>2, <2>3, <2>4, <2>5, <2>6, <2>7, <2>8
<1>5. ASSUME NEW r \in Requests, Enqueue(r) PROVE ProducersInv'
  <2>1. NoTwins'
    BY <1>0, <1>5 DEF TypeOK, Enqueue, Go, dbVars, NoTwins, Twins, SameSubject
  <2>2. LookupHonest'
    BY <1>0, <1>5 DEF TypeOK, Enqueue, Go, dbVars, LookupHonest, Twins, SameSubject
  <2>3. InsertsAlone'
    BY <1>0, <1>5 DEF TypeOK, Enqueue, Go, dbVars, InsertsAlone, Twins, LookupHonest
  <2>4. RewardsRows'
    BY <1>0, <1>5 DEF TypeOK, Enqueue, Go, dbVars, RewardsRows, Rewarding, Target, InsertsAlone, LookupHonest, SameSubject
  <2>5. QueuedRows'
    BY <1>0, <1>5 DEF TypeOK, Enqueue, Go, dbVars, QueuedRows, RewardsRows, Rewarding
  <2>6. QueuedEarned'
    BY <1>0, <1>5 DEF TypeOK, Enqueue, Go, dbVars, QueuedEarned, RewardsRows, Rewarding, Target, LookupHonest, SameSubject
  <2>7. AddsAccounted'
    BY <1>0, <1>5 DEF TypeOK, Enqueue, Go, dbVars, AddsAccounted, Target, InsertsAlone
  <2>8. AnsweredMeansQueued'
    BY <1>0, <1>5 DEF TypeOK, Enqueue, Go, dbVars, AnsweredMeansQueued, InBothQueues, AddsAccounted, InsertsAlone, Target, RewardsRows, Rewarding
  <2> QED
    BY <1>0, <2>1, <2>2, <2>3, <2>4, <2>5, <2>6, <2>7, <2>8
<1>6. ASSUME NEW r \in Requests, NEW q \in Queues, Add(r, q) PROVE ProducersInv'
  <2>1. NoTwins'
    BY <1>0, <1>6 DEF TypeOK, Add, Go, dbVars, NoTwins, Twins, SameSubject
  <2>2. LookupHonest'
    BY <1>0, <1>6 DEF TypeOK, Add, Go, dbVars, LookupHonest, Twins, SameSubject
  <2>3. InsertsAlone'
    BY <1>0, <1>6 DEF TypeOK, Add, Go, dbVars, InsertsAlone, Twins, LookupHonest
  <2>4. RewardsRows'
    BY <1>0, <1>6 DEF TypeOK, Add, Go, dbVars, RewardsRows, Rewarding, Target, InsertsAlone, LookupHonest, SameSubject
  <2>5. QueuedRows'
    BY <1>0, <1>6 DEF TypeOK, Add, Go, dbVars, QueuedRows, RewardsRows, Rewarding
  <2>6. QueuedEarned'
    BY <1>0, <1>6 DEF TypeOK, Add, Go, dbVars, QueuedEarned, RewardsRows, Rewarding, Target, LookupHonest, SameSubject
  <2>7. AddsAccounted'
    BY <1>0, <1>6 DEF TypeOK, Add, Go, dbVars, AddsAccounted, Target, InsertsAlone
  <2>8. AnsweredMeansQueued'
    BY <1>0, <1>6 DEF TypeOK, Add, Go, dbVars, AnsweredMeansQueued, InBothQueues, AddsAccounted, InsertsAlone, Target, RewardsRows, Rewarding
  <2> QED
    BY <1>0, <2>1, <2>2, <2>3, <2>4, <2>5, <2>6, <2>7, <2>8
<1>7. ASSUME NEW r \in Requests, NEW q \in Queues, AddFails(r, q) PROVE ProducersInv'
  <2>1. NoTwins'
    BY <1>0, <1>7 DEF TypeOK, AddFails, Go, dbVars, NoTwins, Twins, SameSubject
  <2>2. LookupHonest'
    BY <1>0, <1>7 DEF TypeOK, AddFails, Go, dbVars, LookupHonest, Twins, SameSubject
  <2>3. InsertsAlone'
    BY <1>0, <1>7 DEF TypeOK, AddFails, Go, dbVars, InsertsAlone, Twins, LookupHonest
  <2>4. RewardsRows'
    BY <1>0, <1>7 DEF TypeOK, AddFails, Go, dbVars, RewardsRows, Rewarding, Target, InsertsAlone, LookupHonest, SameSubject
  <2>5. QueuedRows'
    BY <1>0, <1>7 DEF TypeOK, AddFails, Go, dbVars, QueuedRows, RewardsRows, Rewarding
  <2>6. QueuedEarned'
    BY <1>0, <1>7 DEF TypeOK, AddFails, Go, dbVars, QueuedEarned, RewardsRows, Rewarding, Target, LookupHonest, SameSubject
  <2>7. AddsAccounted'
    BY <1>0, <1>7 DEF TypeOK, AddFails, Go, dbVars, AddsAccounted, Target, InsertsAlone
  <2>8. AnsweredMeansQueued'
    BY <1>0, <1>7 DEF TypeOK, AddFails, Go, dbVars, AnsweredMeansQueued, InBothQueues, AddsAccounted, InsertsAlone, Target, RewardsRows, Rewarding
  <2> QED
    BY <1>0, <2>1, <2>2, <2>3, <2>4, <2>5, <2>6, <2>7, <2>8
<1>8. ASSUME NEW r \in Requests, Answer(r) PROVE ProducersInv'
  <2>1. NoTwins'
    BY <1>0, <1>8 DEF TypeOK, Answer, Go, dbVars, NoTwins, Twins, SameSubject
  <2>2. LookupHonest'
    BY <1>0, <1>8 DEF TypeOK, Answer, Go, dbVars, LookupHonest, Twins, SameSubject
  <2>3. InsertsAlone'
    BY <1>0, <1>8 DEF TypeOK, Answer, Go, dbVars, InsertsAlone, Twins, LookupHonest
  <2>4. RewardsRows'
    BY <1>0, <1>8 DEF TypeOK, Answer, Go, dbVars, RewardsRows, Rewarding, Target, InsertsAlone, LookupHonest, SameSubject
  <2>5. QueuedRows'
    BY <1>0, <1>8 DEF TypeOK, Answer, Go, dbVars, QueuedRows, RewardsRows, Rewarding
  <2>6. QueuedEarned'
    BY <1>0, <1>8 DEF TypeOK, Answer, Go, dbVars, QueuedEarned, RewardsRows, Rewarding, Target, LookupHonest, SameSubject
  <2>7. AddsAccounted'
    BY <1>0, <1>8 DEF TypeOK, Answer, Go, dbVars, AddsAccounted, Target, InsertsAlone
  <2>8. AnsweredMeansQueued'
    BY <1>0, <1>8 DEF TypeOK, Answer, Go, dbVars, AnsweredMeansQueued, InBothQueues, AddsAccounted, InsertsAlone, Target, RewardsRows, Rewarding
  <2> QED
    BY <1>0, <2>1, <2>2, <2>3, <2>4, <2>5, <2>6, <2>7, <2>8
<1>9. ASSUME NEW r \in Requests, Error(r) PROVE ProducersInv'
  <2>1. NoTwins'
    BY <1>0, <1>9 DEF TypeOK, Error, Go, dbVars, NoTwins, Twins, SameSubject
  <2>2. LookupHonest'
    BY <1>0, <1>9 DEF TypeOK, Error, Go, dbVars, LookupHonest, Twins, SameSubject
  <2>3. InsertsAlone'
    BY <1>0, <1>9 DEF TypeOK, Error, Go, dbVars, InsertsAlone, Twins, LookupHonest
  <2>4. RewardsRows'
    BY <1>0, <1>9 DEF TypeOK, Error, Go, dbVars, RewardsRows, Rewarding, Target, InsertsAlone, LookupHonest, SameSubject
  <2>5. QueuedRows'
    BY <1>0, <1>9 DEF TypeOK, Error, Go, dbVars, QueuedRows, RewardsRows, Rewarding
  <2>6. QueuedEarned'
    BY <1>0, <1>9 DEF TypeOK, Error, Go, dbVars, QueuedEarned, RewardsRows, Rewarding, Target, LookupHonest, SameSubject
  <2>7. AddsAccounted'
    BY <1>0, <1>9 DEF TypeOK, Error, Go, dbVars, AddsAccounted, Target, InsertsAlone
  <2>8. AnsweredMeansQueued'
    BY <1>0, <1>9 DEF TypeOK, Error, Go, dbVars, AnsweredMeansQueued, InBothQueues, AddsAccounted, InsertsAlone, Target, RewardsRows, Rewarding
  <2> QED
    BY <1>0, <2>1, <2>2, <2>3, <2>4, <2>5, <2>6, <2>7, <2>8
<1>10. CASE Crash
  <2>1. NoTwins'
    BY <1>0, <1>10 DEF TypeOK, Crash, Ended, Go, dbVars, NoTwins, Twins, SameSubject
  <2>2. LookupHonest'
    BY <1>0, <1>10 DEF TypeOK, Crash, Ended, Go, dbVars, LookupHonest, Twins, SameSubject
  <2>3. InsertsAlone'
    BY <1>0, <1>10 DEF TypeOK, Crash, Ended, Go, dbVars, InsertsAlone, Twins, LookupHonest
  <2>4. RewardsRows'
    BY <1>0, <1>10 DEF TypeOK, Crash, Ended, Go, dbVars, RewardsRows, Rewarding, Target, InsertsAlone, LookupHonest, SameSubject
  <2>5. QueuedRows'
    BY <1>0, <1>10 DEF TypeOK, Crash, Ended, Go, dbVars, QueuedRows, RewardsRows, Rewarding
  <2>6. QueuedEarned'
    BY <1>0, <1>10 DEF TypeOK, Crash, Ended, Go, dbVars, QueuedEarned, RewardsRows, Rewarding, Target, LookupHonest, SameSubject
  <2>7. AddsAccounted'
    BY <1>0, <1>10 DEF TypeOK, Crash, Ended, Go, dbVars, AddsAccounted, Target, InsertsAlone
  <2>8. AnsweredMeansQueued'
    BY <1>0, <1>10 DEF TypeOK, Crash, Ended, Go, dbVars, AnsweredMeansQueued, InBothQueues, AddsAccounted, InsertsAlone, Target, RewardsRows, Rewarding
  <2> QED
    BY <1>0, <2>1, <2>2, <2>3, <2>4, <2>5, <2>6, <2>7, <2>8
<1>11. CASE UNCHANGED vars
  BY <1>11 DEF vars, dbVars, TypeOK, NoTwins, LookupHonest, InsertsAlone, RewardsRows, Rewarding,
               QueuedRows, QueuedEarned, AddsAccounted, AnsweredMeansQueued, InBothQueues, Target
<1> QED
  BY <1>1, <1>2, <1>3, <1>4, <1>5, <1>6, <1>7, <1>8, <1>9, <1>10, <1>11
  DEF Next, Proceed, Conflict

LEMMA ProducersAlways == Spec => []ProducersInv
BY ProducersInitially, ProducersStep, PTL DEF Spec

-------------------------------------------------------------------------------
(* Type correctness of the producers. *)
THEOREM ProducerTypes == Spec => []TypeOK
BY ProducersAlways, PTL DEF ProducersInv

(* However many requests race, an account, a member's challenge of a       *)
(* content and a watch record are rewarded through one job per queue.      *)
THEOREM OneRewardEach == Spec => []OneRewardPerSubject
<1>1. ProducersInv => OneRewardPerSubject
  BY DEF ProducersInv, OneRewardPerSubject, QueuedRows, NoTwins
<1> QED
  BY <1>1, ProducersAlways, PTL

(* No job exists without its committed row, nor one for a tutorial nobody  *)
(* completed.                                                              *)
THEOREM OnlyEarned == Spec => []OnlyEarnedRewards
<1>1. ProducersInv => OnlyEarnedRewards
  BY DEF ProducersInv, OnlyEarnedRewards, QueuedRows, QueuedEarned
<1> QED
  BY <1>1, ProducersAlways, PTL

(* A request that succeeded has its rewards in both queues.                *)
THEOREM AnsweredQueued == Spec => []AnsweredMeansQueued
BY ProducersAlways, PTL DEF ProducersInv

===============================================================================
