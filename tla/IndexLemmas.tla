---------------------------- MODULE IndexLemmas ----------------------------
(***************************************************************************)
(* Facts about natural numbers, sums and duplicate-free sequences that the *)
(* proofs about the flow store's eviction order and byte counter rest on.  *)
(***************************************************************************)
EXTENDS Integers, SequencesExt, SequenceTheorems, FiniteSetTheorems, WellFoundedInduction, TLAPS

\* A set of naturals has a least element.
LEMMA LeastNat ==
  ASSUME NEW S \in SUBSET Nat, S # {}
  PROVE  \E m \in S : \A k \in S : m <= k
<1> DEFINE Less == {ss \in Nat \X Nat : ss[1] < ss[2]}
<1>1. IsWellFoundedOn(Less, Nat)
  BY NatLessThanWellFounded, Zenon DEF OpToRel
<1> HIDE DEF Less
<1>2. PICK m \in S : \A k \in S : ~(<<k, m>> \in Less)
  BY <1>1, WFMin
<1>3. \A k \in S : m <= k
  <2> SUFFICES ASSUME NEW k \in S, k < m PROVE FALSE
    OBVIOUS
  <2>1. <<k, m>> \in Nat \X Nat /\ <<k, m>>[1] < <<k, m>>[2]
    OBVIOUS
  <2>2. <<k, m>> \in Less
    BY <2>1, Zenon DEF Less
  <2> QED BY <1>2, <2>2
<1> QED BY <1>3

\* Induction, with the predicate given as a set.
LEMMA SetInduction ==
  ASSUME NEW S, 0 \in S, \A n \in Nat : n \in S => n + 1 \in S
  PROVE  Nat \subseteq S
<1> SUFFICES ASSUME Nat \ S # {} PROVE FALSE
  OBVIOUS
<1>1. PICK m \in Nat \ S : \A k \in Nat \ S : m <= k
  BY LeastNat
<1>2. m # 0 /\ m - 1 \in Nat /\ m - 1 \in S
  BY <1>1
<1> QED BY <1>2

\* Min picks the least element.
LEMMA MinOfNat ==
  ASSUME NEW S \in SUBSET Nat, S # {}
  PROVE  Min(S) \in S /\ \A k \in S : Min(S) <= k
<1>1. \E m \in S : \A k \in S : m <= k
  BY LeastNat
<1> QED BY <1>1 DEF Min

\* A sequence without duplicates; its first k elements; all of them.
Once(s) == \A i, j \in 1 .. Len(s) : s[i] = s[j] => i = j
FirstOf(s, k) == {s[i] : i \in 1 .. k}
Elems(s) == FirstOf(s, Len(s))

\* What is left after the first k elements are removed (the eviction loops).
LEMMA SuffixProps ==
  ASSUME NEW T, NEW s \in Seq(T), Once(s), NEW k \in 0 .. Len(s)
  PROVE  LET y == SubSeq(s, k + 1, Len(s))
         IN  /\ y \in Seq(T) /\ Len(y) = Len(s) - k /\ Once(y)
             /\ \A i \in 1 .. Len(y) : y[i] = s[k + i]
             /\ Elems(y) = Elems(s) \ FirstOf(s, k)
<1> DEFINE y == SubSeq(s, k + 1, Len(s))
           old == {s[i] : i \in 1 .. k}
<1>1. Len(s) \in Nat /\ \A i \in 1 .. Len(s) : s[i] \in T
  BY LenProperties
<1>2. /\ y \in Seq(T) /\ Len(y) = Len(s) - k
      /\ \A i \in 1 .. Len(y) : y[i] = s[k + i]
  <2>1. \A i \in k + 1 .. Len(s) : s[i] \in T
    BY <1>1
  <2>2. /\ y \in Seq(T)
        /\ Len(y) = IF k + 1 <= Len(s) THEN Len(s) - (k + 1) + 1 ELSE 0
        /\ \A i \in 1 .. Len(s) - (k + 1) + 1 : y[i] = s[k + 1 + i - 1]
    BY <1>1, <2>1, SubSeqProperties
  <2> HIDE DEF y
  <2> QED BY <1>1, <2>2
<1> HIDE DEF y
<1>3. Once(y)
  <2> SUFFICES ASSUME NEW i \in 1 .. Len(y), NEW j \in 1 .. Len(y), y[i] = y[j] PROVE i = j
    BY DEF Once
  <2>1. k + i \in 1 .. Len(s) /\ k + j \in 1 .. Len(s) /\ s[k + i] = s[k + j]
    BY <1>1, <1>2
  <2>2. k + i = k + j
    BY <2>1 DEF Once
  <2> QED BY <1>1, <1>2, <2>2
<1>4. {y[i] : i \in 1 .. Len(y)} \subseteq {s[i] : i \in 1 .. Len(s)} \ old
  <2> SUFFICES ASSUME NEW i \in 1 .. Len(y)
               PROVE  y[i] \in {s[j] : j \in 1 .. Len(s)} /\ \A j \in 1 .. k : y[i] # s[j]
    OBVIOUS
  <2>1. k + i \in 1 .. Len(s) /\ y[i] = s[k + i] /\ k + i > k
    BY <1>1, <1>2
  <2>2. \A j \in 1 .. k : j \in 1 .. Len(s) /\ j # k + i
    BY <1>1, <2>1
  <2> QED BY <2>1, <2>2 DEF Once
<1>5. ASSUME NEW i \in 1 .. Len(s), s[i] \notin old
      PROVE  s[i] \in {y[j] : j \in 1 .. Len(y)}
  <2>1. i > k
    BY <1>5
  <2>2. i - k \in 1 .. Len(y) /\ y[i - k] = s[i]
    BY <1>1, <1>2, <2>1
  <2> QED BY <2>2
<1> QED BY <1>2, <1>3, <1>4, <1>5 DEF y, Elems, FirstOf

\* Filing a new element at any position (insertOrderLocked).
LEMMA InsertAtProps ==
  ASSUME NEW T, NEW s \in Seq(T), Once(s), NEW p \in 1 .. Len(s) + 1,
         NEW x \in T, \A i \in 1 .. Len(s) : s[i] # x
  PROVE  LET y == InsertAt(s, p, x)
         IN  /\ y \in Seq(T) /\ Len(y) = Len(s) + 1 /\ Once(y)
             /\ Elems(y) = Elems(s) \cup {x}
<1> DEFINE y == InsertAt(s, p, x)
           a == SubSeq(s, 1, p - 1)
           b == SubSeq(s, p, Len(s))
<1>1. Len(s) \in Nat /\ \A i \in 1 .. Len(s) : s[i] \in T
  BY LenProperties
<1>2. a \in Seq(T) /\ Len(a) = p - 1 /\ \A i \in 1 .. p - 1 : a[i] = s[i]
  <2>1. \A i \in 1 .. p - 1 : s[i] \in T
    BY <1>1
  <2>2. /\ a \in Seq(T) /\ Len(a) = IF 1 <= p - 1 THEN (p - 1) - 1 + 1 ELSE 0
        /\ \A i \in 1 .. (p - 1) - 1 + 1 : a[i] = s[1 + i - 1]
    BY <1>1, <2>1, SubSeqProperties
  <2> HIDE DEF a
  <2> QED BY <2>2, <1>1
<1>3. b \in Seq(T) /\ Len(b) = Len(s) - p + 1 /\ \A i \in 1 .. Len(b) : b[i] = s[p + i - 1]
  <2>1. \A i \in p .. Len(s) : s[i] \in T
    BY <1>1
  <2>2. /\ b \in Seq(T) /\ Len(b) = IF p <= Len(s) THEN Len(s) - p + 1 ELSE 0
        /\ \A i \in 1 .. Len(s) - p + 1 : b[i] = s[p + i - 1]
    BY <1>1, <2>1, SubSeqProperties
  <2> HIDE DEF b
  <2> QED BY <2>2, <1>1
<1> HIDE DEF a, b
<1> DEFINE c == a \o <<x>>
<1>4. c \in Seq(T) /\ Len(c) = p /\ \A i \in 1 .. p : c[i] = IF i < p THEN s[i] ELSE x
  <2>1. <<x>> \in Seq(T) /\ Len(<<x>>) = 1 /\ <<x>>[1] = x
    OBVIOUS
  <2>2. /\ c \in Seq(T) /\ Len(c) = Len(a) + 1
        /\ \A i \in 1 .. Len(a) + 1 : c[i] = IF i <= Len(a) THEN a[i] ELSE <<x>>[i - Len(a)]
    BY <1>2, <2>1, ConcatProperties
  <2> HIDE DEF c
  <2> QED BY <1>1, <1>2, <2>1, <2>2
<1>5. /\ y \in Seq(T) /\ Len(y) = Len(s) + 1
      /\ \A i \in 1 .. Len(s) + 1 :
           y[i] = IF i < p THEN s[i] ELSE IF i = p THEN x ELSE s[i - 1]
  <2>0. y = c \o b
    BY DEF a, b, InsertAt
  <2> HIDE DEF c, y
  <2>1. /\ y \in Seq(T) /\ Len(y) = Len(c) + Len(b)
        /\ \A i \in 1 .. Len(c) + Len(b) : y[i] = IF i <= Len(c) THEN c[i] ELSE b[i - Len(c)]
    BY <1>3, <1>4, <2>0, ConcatProperties
  <2>2. Len(y) = Len(s) + 1 /\ Len(c) + Len(b) = Len(s) + 1
    BY <1>1, <1>3, <1>4, <2>1
  <2>3. ASSUME NEW i \in 1 .. Len(s) + 1
        PROVE  y[i] = IF i < p THEN s[i] ELSE IF i = p THEN x ELSE s[i - 1]
    <3>1. y[i] = IF i <= p THEN c[i] ELSE b[i - p]
      BY <1>4, <2>1, <2>2
    <3>2. CASE i <= p
      BY <1>1, <1>4, <3>1, <3>2
    <3>3. CASE i > p
      <4>1. i - p \in 1 .. Len(b) /\ p + (i - p) - 1 = i - 1
        BY <1>1, <1>3, <3>3
      <4>2. b[i - p] = s[i - 1]
        BY <1>3, <4>1
      <4> QED BY <3>1, <3>3, <4>2
    <3> QED BY <3>2, <3>3
  <2> QED BY <2>1, <2>2, <2>3
<1> HIDE DEF y
<1>6. Once(y)
  <2> DEFINE old(i) == IF i < p THEN i ELSE i - 1
  <2>1. ASSUME NEW i \in 1 .. Len(s) + 1, i # p
        PROVE  old(i) \in 1 .. Len(s) /\ y[i] = s[old(i)] /\ y[i] # x
    BY <1>1, <1>5, <2>1
  <2>2. y[p] = x
    BY <1>1, <1>5
  <2> SUFFICES ASSUME NEW i \in 1 .. Len(s) + 1, NEW j \in 1 .. Len(s) + 1, y[i] = y[j]
               PROVE i = j
    BY <1>5 DEF Once
  <2>3. CASE i = p \/ j = p
    BY <2>1, <2>2, <2>3
  <2>4. CASE i # p /\ j # p
    <3>1. old(i) = old(j)
      BY <2>1, <2>4 DEF Once
    <3> QED BY <1>1, <2>4, <3>1
  <2> QED BY <2>3, <2>4
<1>7. {y[i] : i \in 1 .. Len(y)} \subseteq {s[i] : i \in 1 .. Len(s)} \cup {x}
  BY <1>1, <1>5
<1>8. ASSUME NEW i \in 1 .. Len(s) PROVE s[i] \in {y[j] : j \in 1 .. Len(y)}
  <2>1. CASE i < p
    BY <1>1, <1>5, <2>1
  <2>2. CASE i >= p
    <3>1. i + 1 \in 1 .. Len(y) /\ y[i + 1] = s[i]
      BY <1>1, <1>5, <2>2
    <3> QED BY <3>1
  <2> QED BY <1>1, <2>1, <2>2
<1>9. x \in {y[j] : j \in 1 .. Len(y)}
  BY <1>1, <1>5
<1> QED BY <1>5, <1>6, <1>7, <1>8, <1>9 DEF y, Elems, FirstOf

\* Removing one element (removeLocked).
LEMMA RemoveAtProps ==
  ASSUME NEW T, NEW s \in Seq(T), Once(s), NEW p \in 1 .. Len(s)
  PROVE  LET y == RemoveAt(s, p)
         IN  /\ y \in Seq(T) /\ Len(y) = Len(s) - 1 /\ Once(y)
             /\ \A i \in 1 .. Len(y) : y[i] = IF i < p THEN s[i] ELSE s[i + 1]
             /\ Elems(y) = Elems(s) \ {s[p]}
<1> DEFINE y == RemoveAt(s, p)
           a == SubSeq(s, 1, p - 1)
           b == SubSeq(s, p + 1, Len(s))
<1>1. Len(s) \in Nat /\ \A i \in 1 .. Len(s) : s[i] \in T
  BY LenProperties
<1>2. a \in Seq(T) /\ Len(a) = p - 1 /\ \A i \in 1 .. p - 1 : a[i] = s[i]
  <2>1. \A i \in 1 .. p - 1 : s[i] \in T
    BY <1>1
  <2>2. /\ a \in Seq(T) /\ Len(a) = IF 1 <= p - 1 THEN (p - 1) - 1 + 1 ELSE 0
        /\ \A i \in 1 .. (p - 1) - 1 + 1 : a[i] = s[1 + i - 1]
    BY <1>1, <2>1, SubSeqProperties
  <2> HIDE DEF a
  <2> QED BY <2>2, <1>1
<1>3. b \in Seq(T) /\ Len(b) = Len(s) - p /\ \A i \in 1 .. Len(b) : b[i] = s[p + i]
  <2>1. \A i \in p + 1 .. Len(s) : s[i] \in T
    BY <1>1
  <2>2. /\ b \in Seq(T) /\ Len(b) = IF p + 1 <= Len(s) THEN Len(s) - (p + 1) + 1 ELSE 0
        /\ \A i \in 1 .. Len(s) - (p + 1) + 1 : b[i] = s[p + 1 + i - 1]
    BY <1>1, <2>1, SubSeqProperties
  <2> HIDE DEF b
  <2> QED BY <2>2, <1>1, SMTT(20)
<1>4. y = a \o b
  BY DEF RemoveAt
<1> HIDE DEF a, b, y
<1>5. /\ y \in Seq(T) /\ Len(y) = Len(s) - 1
      /\ \A i \in 1 .. Len(y) : y[i] = IF i < p THEN s[i] ELSE s[i + 1]
  <2>1. /\ y \in Seq(T) /\ Len(y) = Len(a) + Len(b)
        /\ \A i \in 1 .. Len(a) + Len(b) : y[i] = IF i <= Len(a) THEN a[i] ELSE b[i - Len(a)]
    BY <1>2, <1>3, <1>4, ConcatProperties
  <2>2. Len(y) = Len(s) - 1 /\ Len(a) + Len(b) = Len(s) - 1
    BY <1>1, <1>2, <1>3, <2>1
  <2>3. ASSUME NEW i \in 1 .. Len(y)
        PROVE  y[i] = IF i < p THEN s[i] ELSE s[i + 1]
    <3>1. y[i] = IF i <= p - 1 THEN a[i] ELSE b[i - (p - 1)]
      BY <1>2, <2>1, <2>2
    <3>2. CASE i < p
      BY <1>1, <1>2, <3>1, <3>2
    <3>3. CASE i >= p
      <4>1. i - (p - 1) \in 1 .. Len(b) /\ p + (i - (p - 1)) = i + 1
        BY <1>1, <1>3, <2>2, <3>3
      <4>2. b[i - (p - 1)] = s[i + 1]
        BY <1>3, <4>1
      <4> QED BY <1>1, <2>2, <3>1, <3>3, <4>2
    <3> QED BY <1>1, <2>2, <3>2, <3>3
  <2> QED BY <2>1, <2>2, <2>3
<1>6. Once(y)
  <2> DEFINE at(i) == IF i < p THEN i ELSE i + 1
  <2>1. ASSUME NEW i \in 1 .. Len(y) PROVE at(i) \in 1 .. Len(s) /\ y[i] = s[at(i)]
    BY <1>1, <1>5
  <2> SUFFICES ASSUME NEW i \in 1 .. Len(y), NEW j \in 1 .. Len(y), y[i] = y[j] PROVE i = j
    BY DEF Once
  <2>2. at(i) = at(j)
    BY <2>1 DEF Once
  <2> QED BY <1>1, <1>5, <2>2
<1>7. {y[i] : i \in 1 .. Len(y)} \subseteq {s[i] : i \in 1 .. Len(s)} \ {s[p]}
  <2> SUFFICES ASSUME NEW i \in 1 .. Len(y)
               PROVE  y[i] \in {s[j] : j \in 1 .. Len(s)} /\ y[i] # s[p]
    OBVIOUS
  <2> DEFINE j == IF i < p THEN i ELSE i + 1
  <2>1. j \in 1 .. Len(s) /\ j # p /\ y[i] = s[j]
    BY <1>1, <1>5
  <2> QED BY <2>1 DEF Once
<1>8. ASSUME NEW i \in 1 .. Len(s), s[i] # s[p] PROVE s[i] \in {y[j] : j \in 1 .. Len(y)}
  <2>1. CASE i < p
    BY <1>1, <1>5, <2>1
  <2>2. CASE i > p
    <3>1. i - 1 \in 1 .. Len(y) /\ y[i - 1] = s[i]
      BY <1>1, <1>5, <2>2
    <3> QED BY <3>1
  <2> QED BY <1>1, <1>8, <2>1, <2>2
<1> QED BY <1>5, <1>6, <1>7, <1>8 DEF y, Elems, FirstOf

-----------------------------------------------------------------------------
(* Sums.                                                                   *)

\* As many things as the sum of f over S says: a sum is their number.
Units(f, S) == {u \in S \X Nat : u[2] \in 1 .. f[u[1]]}

\* One more index adds its value to the number of things.
LEMMA UnitsAdd ==
  ASSUME NEW f, NEW S, NEW x, x \notin S, f[x] \in Nat, IsFiniteSet(Units(f, S))
  PROVE  /\ IsFiniteSet(Units(f, S \cup {x}))
         /\ Cardinality(Units(f, S \cup {x})) = Cardinality(Units(f, S)) + f[x]
<1> DEFINE U == Units(f, S)
           X == {u \in {x} \X Nat : u[2] \in 1 .. f[x]}
           g == [k \in 1 .. f[x] |-> <<x, k>>]
<1>1. Units(f, S \cup {x}) = U \cup X /\ U \cap X = {}
  BY DEF Units
<1>2. IsFiniteSet(1 .. f[x]) /\ Cardinality(1 .. f[x]) = f[x]
  BY FS_Interval
<1>3. IsFiniteSet(X) /\ Cardinality(X) = f[x]
  <2>1. g \in [1 .. f[x] -> X]
    OBVIOUS
  <2>2. \A a, b \in 1 .. f[x] : g[a] = g[b] => a = b
    OBVIOUS
  <2>3. \A u \in X : \E k \in 1 .. f[x] : g[k] = u
    OBVIOUS
  <2>4. g \in Bijection(1 .. f[x], X)
    <3> HIDE DEF g, X
    <3> QED BY <2>1, <2>2, <2>3 DEF Bijection, Injection, Surjection, IsInjective
  <2> HIDE DEF g, X
  <2> QED BY <1>2, <2>4, FS_Bijection DEF ExistsBijection
<1> HIDE DEF X
<1>4. /\ IsFiniteSet(U \cup X)
      /\ Cardinality(U \cup X) = Cardinality(U) + Cardinality(X) - Cardinality(U \cap X)
  BY <1>3, FS_Union
<1>5. Cardinality(U) \in Nat
  BY FS_CardinalityType
<1>6. Cardinality(U \cap X) = 0
  BY <1>1, FS_EmptySet
<1> HIDE DEF U
<1>7. IsFiniteSet(U \cup X) /\ Cardinality(U \cup X) = Cardinality(U) + f[x]
  BY <1>3, <1>4, <1>5, <1>6
<1> QED BY <1>1, <1>7 DEF U

\* SumFunctionOnSet counts the units, in whatever order it takes the indices.
LEMMA SumIsUnits ==
  ASSUME NEW f, NEW S, IsFiniteSet(S), \A i \in S : f[i] \in Nat
  PROVE  IsFiniteSet(Units(f, S)) /\ SumFunctionOnSet(f, S) = Cardinality(Units(f, S))
<1> DEFINE pick(s) == CHOOSE x \in s : TRUE
           Ok(h) == h = [s \in SUBSET S |-> IF s = {} THEN 0 ELSE f[pick(s)] + h[s \ {pick(s)}]]
           P == {n \in Nat : \A s \in SUBSET S : Cardinality(s) = n => IsFiniteSet(Units(f, s))}
<1>1. \A s \in SUBSET S : IsFiniteSet(s) /\ Cardinality(s) \in Nat
  BY FS_Subset, FS_CardinalityType
<1>2. ASSUME NEW s \in SUBSET S, s # {}
      PROVE  /\ pick(s) \in s /\ s \ {pick(s)} \in SUBSET S
             /\ s = (s \ {pick(s)}) \cup {pick(s)}
             /\ Cardinality(s \ {pick(s)}) = Cardinality(s) - 1
             /\ Cardinality(s) # 0 /\ f[pick(s)] \in Nat
  <2>1. pick(s) \in s
    BY <1>2
  <2> HIDE DEF pick
  <2>2. Cardinality(s \ {pick(s)}) = Cardinality(s) - 1
    BY <1>1, <2>1, FS_RemoveElement
  <2>3. Cardinality(s) # 0
    BY <1>1, <1>2, FS_EmptySet
  <2>4. s \ {pick(s)} \in SUBSET S /\ s = (s \ {pick(s)}) \cup {pick(s)} /\ f[pick(s)] \in Nat
    BY <2>1
  <2> QED BY <2>1, <2>2, <2>3, <2>4
<1> HIDE DEF pick
<1>3. 0 \in P
  <2> SUFFICES ASSUME NEW s \in SUBSET S, Cardinality(s) = 0 PROVE IsFiniteSet(Units(f, s))
    OBVIOUS
  <2>1. Units(f, s) = {}
    BY <1>1, FS_EmptySet DEF Units
  <2> QED BY <2>1, FS_EmptySet
<1>4. ASSUME NEW n \in Nat, n \in P PROVE n + 1 \in P
  <2> SUFFICES ASSUME NEW s \in SUBSET S, Cardinality(s) = n + 1 PROVE IsFiniteSet(Units(f, s))
    OBVIOUS
  <2>1. s # {}
    BY FS_EmptySet
  <2> DEFINE t == s \ {pick(s)}
  <2>2. t \in SUBSET S /\ Cardinality(t) = n /\ s = t \cup {pick(s)} /\ f[pick(s)] \in Nat
        /\ pick(s) \notin t
    BY <1>2, <2>1
  <2>3. IsFiniteSet(Units(f, t))
    BY <1>4, <2>2
  <2> HIDE DEF t
  <2> QED BY <2>2, <2>3, UnitsAdd
<1>5. \A s \in SUBSET S : IsFiniteSet(Units(f, s))
  <2> HIDE DEF P
  <2>1. Nat \subseteq P
    BY <1>3, <1>4, SetInduction
  <2> QED BY <1>1, <2>1 DEF P
<1> HIDE DEF P
<1> DEFINE c(s) == Cardinality(Units(f, s))
           g == [s \in SUBSET S |-> c(s)]
<1>6. c({}) = 0
  <2>1. Units(f, {}) = {}
    BY DEF Units
  <2> QED BY <2>1, FS_EmptySet
<1>7. ASSUME NEW s \in SUBSET S, s # {} PROVE c(s) = f[pick(s)] + c(s \ {pick(s)})
  <2> DEFINE t == s \ {pick(s)}
  <2>1. t \in SUBSET S /\ s = t \cup {pick(s)} /\ f[pick(s)] \in Nat /\ pick(s) \notin t
    BY <1>2, <1>7
  <2>2. IsFiniteSet(Units(f, t)) /\ c(t) \in Nat
    BY <1>5, <2>1, FS_CardinalityType
  <2> HIDE DEF t
  <2>3. c(t \cup {pick(s)}) = c(t) + f[pick(s)]
    BY <2>1, <2>2, UnitsAdd
  <2>4. c(s) = c(t) + f[pick(s)]
    BY <2>1, <2>3
  <2> QED BY <2>1, <2>2, <2>4 DEF t
<1> HIDE DEF c
<1>8. Ok(g)
  <2>1. \A s \in SUBSET S : g[s] = IF s = {} THEN 0 ELSE f[pick(s)] + g[s \ {pick(s)}]
    BY <1>2, <1>6, <1>7
  <2> QED BY <2>1
<1>9. ASSUME NEW h, Ok(h) PROVE h[S] = c(S)
  <2> DEFINE Q == {n \in Nat : \A s \in SUBSET S : Cardinality(s) = n => h[s] = c(s)}
  <2>1. \A s \in SUBSET S : h[s] = IF s = {} THEN 0 ELSE f[pick(s)] + h[s \ {pick(s)}]
    BY <1>9
  <2> HIDE DEF Ok
  <2>2. 0 \in Q
    BY <1>1, <1>6, <2>1, FS_EmptySet
  <2>3. ASSUME NEW n \in Nat, n \in Q PROVE n + 1 \in Q
    <3> SUFFICES ASSUME NEW s \in SUBSET S, Cardinality(s) = n + 1 PROVE h[s] = c(s)
      OBVIOUS
    <3>1. s # {}
      BY FS_EmptySet
    <3>2. s \ {pick(s)} \in SUBSET S /\ Cardinality(s \ {pick(s)}) = n
      BY <1>2, <3>1
    <3>3. h[s \ {pick(s)}] = c(s \ {pick(s)})
      BY <2>3, <3>2
    <3> QED BY <1>7, <2>1, <3>1, <3>3
  <2>4. Nat \subseteq Q
    <3> HIDE DEF Q
    <3> QED BY <2>2, <2>3, SetInduction
  <2> QED BY <1>1, <2>4
<1>10. SumFunctionOnSet(f, S) = (CHOOSE h : Ok(h))[S]
  BY DEF SumFunctionOnSet, FoldFunctionOnSet, MapThenFoldSet, pick
<1>11. Ok(CHOOSE h : Ok(h))
  <2> HIDE DEF Ok, g
  <2> QED BY <1>8
<1> HIDE DEF Ok
<1> QED BY <1>5, <1>9, <1>10, <1>11 DEF c

\* A sum over finitely many indices is a number, nothing sums to zero, one more
\* index adds its value, and only the values matter.
LEMMA SumProps ==
  ASSUME NEW f, NEW S, IsFiniteSet(S), \A i \in S : f[i] \in Nat
  PROVE  /\ SumFunctionOnSet(f, S) \in Nat
         /\ S = {} => SumFunctionOnSet(f, S) = 0
         /\ \A x : x \notin S /\ f[x] \in Nat =>
              SumFunctionOnSet(f, S \cup {x}) = SumFunctionOnSet(f, S) + f[x]
         /\ \A g : (\A i \in S : g[i] = f[i]) => SumFunctionOnSet(g, S) = SumFunctionOnSet(f, S)
<1>1. IsFiniteSet(Units(f, S)) /\ SumFunctionOnSet(f, S) = Cardinality(Units(f, S))
  BY SumIsUnits
<1>2. SumFunctionOnSet(f, S) \in Nat
  BY <1>1, FS_CardinalityType
<1>3. ASSUME S = {} PROVE SumFunctionOnSet(f, S) = 0
  <2>1. Units(f, S) = {}
    BY <1>3 DEF Units
  <2> QED BY <1>1, <2>1, FS_EmptySet
<1>4. ASSUME NEW x, x \notin S, f[x] \in Nat
      PROVE  SumFunctionOnSet(f, S \cup {x}) = SumFunctionOnSet(f, S) + f[x]
  <2> DEFINE T == S \cup {x}
  <2>1. IsFiniteSet(T) /\ \A i \in T : f[i] \in Nat
    BY <1>4, FS_AddElement
  <2>2. Cardinality(Units(f, T)) = Cardinality(Units(f, S)) + f[x]
    BY <1>1, <1>4, UnitsAdd
  <2> HIDE DEF T
  <2>3. SumFunctionOnSet(f, T) = Cardinality(Units(f, T))
    BY <2>1, SumIsUnits
  <2> QED BY <1>1, <2>2, <2>3 DEF T
<1>5. ASSUME NEW g, \A i \in S : g[i] = f[i]
      PROVE  SumFunctionOnSet(g, S) = SumFunctionOnSet(f, S)
  <2>1. \A i \in S : g[i] \in Nat
    BY <1>5
  <2>2. Units(g, S) = Units(f, S)
    BY <1>5 DEF Units
  <2>3. SumFunctionOnSet(g, S) = Cardinality(Units(g, S))
    BY <2>1, SumIsUnits
  <2> QED BY <1>1, <2>2, <2>3
<1> QED BY <1>2, <1>3, <1>4, <1>5

\* Fewer indices, no larger sum.
LEMMA SumMonotone ==
  ASSUME NEW f, NEW S, IsFiniteSet(S), \A i \in S : f[i] \in Nat, NEW T \in SUBSET S
  PROVE  SumFunctionOnSet(f, T) <= SumFunctionOnSet(f, S)
<1>1. IsFiniteSet(T) /\ \A i \in T : f[i] \in Nat
  BY FS_Subset
<1>2. /\ IsFiniteSet(Units(f, S)) /\ SumFunctionOnSet(f, S) = Cardinality(Units(f, S))
      /\ SumFunctionOnSet(f, T) = Cardinality(Units(f, T))
  BY <1>1, SumIsUnits
<1>3. Units(f, T) \in SUBSET Units(f, S)
  BY DEF Units
<1>4. Cardinality(Units(f, T)) <= Cardinality(Units(f, S))
  BY <1>2, <1>3, FS_Subset
<1> QED BY <1>2, <1>4

\* The first k elements of a duplicate-free sequence are k elements.
LEMMA FirstOfSize ==
  ASSUME NEW T, NEW s \in Seq(T), Once(s), NEW k \in 0 .. Len(s)
  PROVE  IsFiniteSet(FirstOf(s, k)) /\ Cardinality(FirstOf(s, k)) = k
<1> DEFINE F == FirstOf(s, k)
           g == [i \in 1 .. k |-> s[i]]
<1>1. Len(s) \in Nat
  BY LenProperties
<1>2. IsFiniteSet(1 .. k) /\ Cardinality(1 .. k) = k
  BY <1>1, FS_Interval
<1>3. g \in [1 .. k -> F] /\ \A x \in F : \E i \in 1 .. k : g[i] = x
  BY DEF FirstOf
<1>4. \A a, b \in 1 .. k : g[a] = g[b] => a = b
  BY <1>1 DEF Once
<1> HIDE DEF F, g
<1>5. g \in Bijection(1 .. k, F)
  BY <1>3, <1>4 DEF Bijection, Injection, Surjection, IsInjective
<1>6. IsFiniteSet(F) /\ Cardinality(F) = k
  BY <1>2, <1>5, FS_Bijection DEF ExistsBijection
<1> QED BY <1>6 DEF F

\* An element of a sum, and the sum without it.
LEMMA SumWithout ==
  ASSUME NEW f, NEW S, IsFiniteSet(S), \A i \in S : f[i] \in Nat, NEW x \in S
  PROVE  /\ SumFunctionOnSet(f, S \ {x}) \in Nat
         /\ SumFunctionOnSet(f, S) = SumFunctionOnSet(f, S \ {x}) + f[x]
<1> DEFINE T == S \ {x}
<1>1. IsFiniteSet(T) /\ (\A i \in T : f[i] \in Nat) /\ x \notin T /\ f[x] \in Nat
  BY FS_RemoveElement
<1>2. S = T \cup {x}
  OBVIOUS
<1> HIDE DEF T
<1>3. /\ SumFunctionOnSet(f, T) \in Nat
      /\ SumFunctionOnSet(f, T \cup {x}) = SumFunctionOnSet(f, T) + f[x]
  BY <1>1, SumProps
<1> QED BY <1>2, <1>3 DEF T

\* One term of a sum changes.
LEMMA SumUpdate ==
  ASSUME NEW f, NEW g, NEW S, IsFiniteSet(S), \A i \in S : f[i] \in Nat /\ g[i] \in Nat,
         NEW x \in S, \A i \in S \ {x} : g[i] = f[i]
  PROVE  /\ SumFunctionOnSet(f, S) \in Nat /\ SumFunctionOnSet(g, S) \in Nat
         /\ SumFunctionOnSet(g, S) + f[x] = SumFunctionOnSet(f, S) + g[x]
         /\ f[x] <= SumFunctionOnSet(f, S)
<1> DEFINE T == S \ {x}
<1>1. /\ SumFunctionOnSet(f, T) \in Nat
      /\ SumFunctionOnSet(f, S) = SumFunctionOnSet(f, T) + f[x]
  BY SumWithout
<1>2. /\ SumFunctionOnSet(g, T) \in Nat
      /\ SumFunctionOnSet(g, S) = SumFunctionOnSet(g, T) + g[x]
  BY SumWithout
<1>3. IsFiniteSet(T) /\ (\A i \in T : f[i] \in Nat) /\ (\A i \in T : g[i] = f[i])
  BY FS_RemoveElement
<1>4. SumFunctionOnSet(g, T) = SumFunctionOnSet(f, T)
  BY <1>3, SumProps
<1>5. f[x] \in Nat /\ g[x] \in Nat
  OBVIOUS
<1> HIDE DEF T
<1> QED BY <1>1, <1>2, <1>4, <1>5

\* Terms that do not grow, a sum that does not grow.
LEMMA SumDominated ==
  ASSUME NEW f, NEW g, NEW S, IsFiniteSet(S),
         \A i \in S : f[i] \in Nat /\ g[i] \in Nat /\ g[i] <= f[i]
  PROVE  SumFunctionOnSet(g, S) <= SumFunctionOnSet(f, S)
<1>1. /\ IsFiniteSet(Units(f, S)) /\ SumFunctionOnSet(f, S) = Cardinality(Units(f, S))
      /\ SumFunctionOnSet(g, S) = Cardinality(Units(g, S))
  BY SumIsUnits
<1>2. Units(g, S) \in SUBSET Units(f, S)
  <2> SUFFICES ASSUME NEW v \in Units(g, S) PROVE v \in Units(f, S)
    OBVIOUS
  <2>1. v \in S \X Nat /\ v[2] \in 1 .. g[v[1]]
    BY DEF Units
  <2>2. v[1] \in S /\ v[2] \in Nat
    BY <2>1
  <2>3. g[v[1]] <= f[v[1]] /\ f[v[1]] \in Nat /\ g[v[1]] \in Nat
    BY <2>2
  <2>4. v[2] \in 1 .. f[v[1]]
    BY <2>1, <2>2, <2>3
  <2> QED BY <2>1, <2>4 DEF Units
<1>3. Cardinality(Units(g, S)) <= Cardinality(Units(f, S))
  BY <1>1, <1>2, FS_Subset
<1> QED BY <1>1, <1>3

\* Terms that are all zero sum to zero.
LEMMA SumZero ==
  ASSUME NEW f, NEW S, IsFiniteSet(S), \A i \in S : f[i] = 0
  PROVE  SumFunctionOnSet(f, S) = 0
<1>1. SumFunctionOnSet(f, S) = Cardinality(Units(f, S))
  BY SumIsUnits
<1>2. Units(f, S) = {}
  BY DEF Units
<1> QED BY <1>1, <1>2, FS_EmptySet
=============================================================================
