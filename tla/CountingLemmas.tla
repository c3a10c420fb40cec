--------------------------- MODULE CountingLemmas ---------------------------
(* Facts about least and greatest elements of sets of naturals, and about    *)
(* the number of times an entry occurs in a list, that the proofs of several *)
(* components rest on.                                                       *)
EXTENDS RedisLists, FiniteSetTheorems, SequenceTheorems, TLAPS

-----------------------------------------------------------------------------
(* Least and greatest elements. *)

\* A nonempty set of naturals has a least element.
LEMMA LeastExists ==
    ASSUME NEW S, S \subseteq Nat, S # {}
    PROVE  \E x \in S : \A y \in S : x <= y
<1>1. PICK x \in S : \A y \in S : ~(<<y, x>> \in OpToRel(<, Nat))
  BY NatLessThanWellFounded, WFMin, Zenon
<1>2. ASSUME NEW y \in S PROVE x <= y
  <2>1. x \in Nat /\ y \in Nat
    OBVIOUS
  <2>2. ~(y < x)
    BY <1>1, <2>1 DEF OpToRel
  <2> QED BY <2>1, <2>2
<1> QED BY <1>2

\* A bounded set of positive naturals has a greatest element, or 0 bounds it.
LEMMA GreatestExists ==
    ASSUME NEW N \in Nat, NEW S, S \subseteq 1..N
    PROVE  \E n \in {0} \cup S : \A k \in S : k <= n
<1> DEFINE Bounds == {n \in 0..N : \A k \in S : k <= n}
<1>1. Bounds \subseteq Nat /\ N \in Bounds
  OBVIOUS
<1>2. PICK m \in Bounds : \A n \in Bounds : m <= n
  BY <1>1, LeastExists
<1>3. m \in {0} \cup S
  <2>1. SUFFICES ASSUME m # 0, m \notin S PROVE FALSE
    OBVIOUS
  <2>2. m - 1 \in 0..N
    BY <1>2, <2>1
  <2>3. \A k \in S : k <= m - 1
    BY <1>2, <2>1
  <2>4. m - 1 \in Bounds
    BY <2>2, <2>3
  <2> QED BY <1>2, <2>4
<1> QED BY <1>2, <1>3

-----------------------------------------------------------------------------
(* Sets and lists that differ in one place. *)

Bit(p) == IF p THEN 1 ELSE 0

\* An entry occurs a natural number of times.
LEMMA OccursNat ==
    ASSUME NEW T, NEW s \in Seq(T), NEW b
    PROVE  IsFiniteSet({i \in DOMAIN s : s[i] = b}) /\ Occurs(s, b) \in Nat
<1>1. IsFiniteSet(1..Len(s))
  BY FS_Interval
<1>2. {i \in DOMAIN s : s[i] = b} \in SUBSET (1..Len(s))
  OBVIOUS
<1>3. IsFiniteSet({i \in DOMAIN s : s[i] = b})
  BY <1>1, <1>2, FS_Subset
<1> QED BY <1>3, FS_CardinalityType DEF Occurs

LEMMA OccursEmpty == \A b : Occurs(<<>>, b) = 0
<1>1. \A b : {i \in DOMAIN <<>> : <<>>[i] = b} = {}
  OBVIOUS
<1> QED BY <1>1, FS_EmptySet DEF Occurs

\* Finite sets that differ in x at most.
LEMMA DifferInOne ==
    ASSUME NEW S, NEW T, NEW x, IsFiniteSet(S), S \ {x} = T \ {x}
    PROVE  /\ IsFiniteSet(T)
           /\ Cardinality(S) \in Nat /\ Cardinality(T) \in Nat
           /\ Cardinality(T) = Cardinality(S) - Bit(x \in S) + Bit(x \in T)
<1>1. IsFiniteSet(S \ {x}) /\ Cardinality(S \ {x}) = Cardinality(S) - Bit(x \in S)
  BY FS_RemoveElement, FS_CardinalityType DEF Bit
<1>2. T = IF x \in T THEN (S \ {x}) \cup {x} ELSE S \ {x}
  OBVIOUS
<1>3. /\ IsFiniteSet((S \ {x}) \cup {x})
      /\ Cardinality((S \ {x}) \cup {x}) = Cardinality(S \ {x}) + 1
  BY <1>1, FS_AddElement
<1>4. IsFiniteSet(T) /\ Cardinality(T) = Cardinality(S \ {x}) + Bit(x \in T)
  <2>1. CASE x \in T
    BY <1>2, <1>3, <2>1 DEF Bit
  <2>2. CASE x \notin T
    <3>1. T = S \ {x} /\ Bit(x \in T) = 0
      BY <1>2, <2>2 DEF Bit
    <3>2. Cardinality(S \ {x}) \in Nat
      BY <1>1, FS_CardinalityType
    <3> QED BY <1>1, <3>1, <3>2
  <2> QED BY <2>1, <2>2
<1>5. Cardinality(S) \in Nat /\ Cardinality(T) \in Nat
  BY <1>4, FS_CardinalityType
<1> QED BY <1>1, <1>4, <1>5

\* RPUSH: one entry more at the right end.
LEMMA OccursAppend ==
    ASSUME NEW T, NEW s \in Seq(T), NEW e \in T, NEW b
    PROVE  Occurs(Append(s, e), b) = Occurs(s, b) + Bit(e = b)
<1> DEFINE S == {i \in DOMAIN s : s[i] = b}
           U == {i \in DOMAIN Append(s, e) : Append(s, e)[i] = b}
           n == Len(s) + 1
<1>1. S \ {n} = U \ {n} /\ n \notin S /\ (n \in U <=> e = b)
  OBVIOUS
<1>2. IsFiniteSet(S)
  BY OccursNat
<1> HIDE DEF S, U, n
<1>3. Cardinality(S) \in Nat /\ Cardinality(U) = Cardinality(S) - Bit(n \in S) + Bit(n \in U)
  BY <1>1, <1>2, DifferInOne
<1>4. Cardinality(U) = Cardinality(S) + Bit(e = b)
  BY <1>1, <1>3 DEF Bit
<1> QED BY <1>4 DEF S, U, Occurs

\* Sets of places that correspond one to one have as many elements.
LEMMA SameCount ==
    ASSUME NEW S, NEW U, IsFiniteSet(S), NEW f \in [S -> U],
           \A i, j \in S : f[i] = f[j] => i = j,
           \A u \in U : \E i \in S : f[i] = u
    PROVE  IsFiniteSet(U) /\ Cardinality(U) = Cardinality(S)
<1>1. f \in Bijection(S, U)
  BY DEF Bijection, Injection, Surjection, IsInjective
<1>2. ExistsBijection(S, U)
  BY <1>1 DEF ExistsBijection
<1> QED BY <1>2, FS_Bijection

\* LPUSH: one entry more at the left end.
LEMMA OccursPush ==
    ASSUME NEW T, NEW s \in Seq(T), NEW e \in T, NEW b
    PROVE  /\ <<e>> \o s \in Seq(T)
           /\ Occurs(<<e>> \o s, b) = Occurs(s, b) + Bit(e = b)
<1> DEFINE t == <<e>> \o s
           S == {i \in DOMAIN s : s[i] = b}
           U == {i \in DOMAIN t : t[i] = b}
           f == [i \in S |-> i + 1]
<1>1. t \in Seq(T) /\ Len(t) = Len(s) + 1 /\ t[1] = e /\ \A i \in 1..Len(s) : t[i + 1] = s[i]
  OBVIOUS
<1> HIDE DEF t
<1>2. DOMAIN t = 1..(Len(s) + 1) /\ DOMAIN s = 1..Len(s)
  BY <1>1
<1>3. IsFiniteSet(S)
  BY OccursNat
<1>4. f \in [S -> U \ {1}]
  BY <1>1, <1>2
<1>5. \A u \in U \ {1} : \E i \in S : f[i] = u
  <2> SUFFICES ASSUME NEW u \in U \ {1} PROVE \E i \in S : f[i] = u
    OBVIOUS
  <2>1. u - 1 \in 1..Len(s) /\ (u - 1) + 1 = u
    BY <1>2
  <2>2. u - 1 \in S
    BY <1>1, <1>2, <2>1
  <2> QED BY <2>1, <2>2
<1>6. \A i, j \in S : f[i] = f[j] => i = j
  BY <1>2
<1>7. 1 \in U <=> e = b
  BY <1>1, <1>2
<1> HIDE DEF S, U, f
<1>8. IsFiniteSet(U \ {1}) /\ Cardinality(U \ {1}) = Cardinality(S)
  BY <1>3, <1>4, <1>5, <1>6, SameCount
<1>9. /\ Cardinality(U \ {1}) \in Nat
      /\ Cardinality(U) = Cardinality(U \ {1}) - Bit(1 \in U \ {1}) + Bit(1 \in U)
  <2>1. (U \ {1}) \ {1} = U \ {1}
    OBVIOUS
  <2> QED BY <1>8, <2>1, DifferInOne
<1>10. Cardinality(U) = Cardinality(S) + Bit(e = b)
  BY <1>7, <1>8, <1>9 DEF Bit
<1> QED BY <1>1, <1>10 DEF S, U, t, Occurs

\* Taking the entry at the right end.
LEMMA OccursFront ==
    ASSUME NEW T, NEW s \in Seq(T), s # <<>>, NEW b
    PROVE  /\ DropRight(s) \in Seq(T) /\ RightEnd(s) \in T
           /\ Occurs(DropRight(s), b) = Occurs(s, b) - Bit(RightEnd(s) = b)
<1> DEFINE S == {i \in DOMAIN s : s[i] = b}
           U == {i \in DOMAIN DropRight(s) : DropRight(s)[i] = b}
           n == Len(s)
<1>1. n \in Nat \ {0} /\ n \in DOMAIN s
  OBVIOUS
<1>2. DropRight(s) \in Seq(T) /\ RightEnd(s) \in T /\ Len(DropRight(s)) = n - 1 /\ \A i \in 1..(n - 1) : DropRight(s)[i] = s[i]
  <2>1. \A i \in 1..(n - 1) : s[i] \in T
    BY <1>1
  <2> HIDE DEF n
  <2>2. /\ SubSeq(s, 1, n - 1) \in Seq(T) /\ Len(SubSeq(s, 1, n - 1)) = n - 1
        /\ \A i \in 1..(n - 1) : SubSeq(s, 1, n - 1)[i] = s[i]
    BY <1>1, <2>1, SubSeqProperties
  <2>3. RightEnd(s) \in T
    BY <1>1 DEF RightEnd, n
  <2> QED BY <2>2, <2>3 DEF DropRight, n
<1>3. S \ {n} = U \ {n} /\ n \notin U /\ (n \in S <=> RightEnd(s) = b)
  BY <1>1, <1>2 DEF RightEnd
<1>4. IsFiniteSet(S)
  BY OccursNat
<1> HIDE DEF S, U, n
<1>5. Cardinality(S) \in Nat /\ Cardinality(U) = Cardinality(S) - Bit(n \in S) + Bit(n \in U)
  BY <1>3, <1>4, DifferInOne
<1>6. Cardinality(U) = Cardinality(S) - Bit(RightEnd(s) = b)
  BY <1>3, <1>5 DEF Bit
<1> QED BY <1>2, <1>6 DEF S, U, Occurs

\* LREM: the first of the entries that are equal to e.
LEMMA OccursRemoved ==
    ASSUME NEW T, NEW s \in Seq(T), NEW e, Occurs(s, e) > 0, NEW b
    PROVE  /\ LRem(s, e) \in Seq(T)
           /\ Occurs(LRem(s, e), b) = Occurs(s, b) - Bit(e = b)
<1> DEFINE I == {i \in DOMAIN s : s[i] = e}
           k == CHOOSE i \in I : \A j \in I : i <= j
           t == LRem(s, e)
<1>1. I # {}
  <2>1. Cardinality(I) > 0
    BY DEF Occurs
  <2> HIDE DEF I
  <2>2. ~(0 > 0)
    OBVIOUS
  <2> QED BY <2>1, <2>2, FS_EmptySet
<1>2. k \in I
  <2>1. I \subseteq Nat
    OBVIOUS
  <2>2. \E x \in I : \A y \in I : x <= y
    BY <1>1, <2>1, LeastExists
  <2> QED BY <2>2
<1>3. t = SubSeq(s, 1, k - 1) \o SubSeq(s, k + 1, Len(s))
  BY <1>1 DEF LRem
<1> HIDE DEF k, t
<1>4. k \in 1..Len(s) /\ s[k] = e
  BY <1>2
<1>5. /\ t \in Seq(T) /\ Len(t) = Len(s) - 1
      /\ \A i \in 1..(k - 1) : t[i] = s[i]
      /\ \A i \in k..(Len(s) - 1) : t[i] = s[i + 1]
  <2> DEFINE left == SubSeq(s, 1, k - 1)
             right == SubSeq(s, k + 1, Len(s))
             n == Len(s)
  <2>1. n \in Nat /\ k \in 1..n /\ \A i \in 1..n : s[i] \in T
    BY <1>4
  <2>2. /\ left \in Seq(T) /\ Len(left) = k - 1
        /\ \A i \in 1..(k - 1) : left[i] = s[i]
    <3>1. \A i \in 1..(k - 1) : s[i] \in T
      BY <2>1
    <3> QED BY <2>1, <3>1, SubSeqProperties
  <2>3. /\ right \in Seq(T) /\ Len(right) = n - k
        /\ \A i \in 1..(n - k) : right[i] = s[k + i]
    <3>1. \A i \in (k + 1)..n : s[i] \in T
      BY <2>1
    <3> HIDE DEF n
    <3>2. /\ SubSeq(s, k + 1, n) \in Seq(T)
          /\ Len(SubSeq(s, k + 1, n)) = IF k + 1 <= n THEN n - (k + 1) + 1 ELSE 0
          /\ \A i \in 1..(n - (k + 1) + 1) : SubSeq(s, k + 1, n)[i] = s[k + 1 + i - 1]
      BY <2>1, <3>1, SubSeqProperties
    <3>4. Len(SubSeq(s, k + 1, n)) = n - k
      BY <2>1, <3>2
    <3>5. \A i \in 1..(n - k) : SubSeq(s, k + 1, n)[i] = s[k + i]
      <4> DEFINE v == SubSeq(s, k + 1, n)
      <4> SUFFICES ASSUME NEW i \in 1..(n - k) PROVE v[i] = s[k + i]
        OBVIOUS
      <4>1. i \in 1..(n - (k + 1) + 1) /\ k + 1 + i - 1 = k + i
        BY <2>1
      <4>2. v[i] = s[k + 1 + i - 1]
        BY <3>2, <4>1
      <4> HIDE DEF v
      <4> QED BY <4>1, <4>2
    <3> QED BY <3>2, <3>4, <3>5 DEF n
  <2> HIDE DEF left, right, n
  <2>4. /\ t \in Seq(T) /\ Len(t) = (k - 1) + (n - k)
        /\ \A i \in 1..((k - 1) + (n - k)) : t[i] = IF i <= k - 1 THEN left[i] ELSE right[i - (k - 1)]
    <3>1. t = left \o right
      BY <1>3 DEF left, right
    <3>2. Len(left) = k - 1 /\ Len(right) = n - k
      BY <2>2, <2>3
    <3>3. /\ left \o right \in Seq(T) /\ Len(left \o right) = Len(left) + Len(right)
          /\ \A i \in 1..(Len(left) + Len(right)) :
                (left \o right)[i] = IF i <= Len(left) THEN left[i] ELSE right[i - Len(left)]
      BY <2>2, <2>3, ConcatProperties
    <3> QED BY <3>1, <3>2, <3>3
  <2>5. \A i \in 1..(k - 1) : t[i] = s[i]
    BY <2>1, <2>2, <2>4
  <2>6. \A i \in k..(n - 1) : t[i] = s[i + 1]
    <3> SUFFICES ASSUME NEW i \in k..(n - 1) PROVE t[i] = s[i + 1]
      OBVIOUS
    <3>1. i - (k - 1) \in 1..(n - k) /\ k + (i - (k - 1)) = i + 1 /\ i \in 1..((k - 1) + (n - k)) /\ ~(i <= k - 1)
      BY <2>1
    <3> QED BY <2>3, <2>4, <3>1
  <2> QED BY <2>1, <2>4, <2>5, <2>6 DEF n
<1> DEFINE S == {i \in DOMAIN s : s[i] = b}
           U == {i \in DOMAIN t : t[i] = b}
           f == [i \in U |-> IF i < k THEN i ELSE i + 1]
<1>6. DOMAIN t = 1..(Len(s) - 1) /\ DOMAIN s = 1..Len(s)
  BY <1>5
<1>7. IsFiniteSet(U) /\ IsFiniteSet(S)
  BY <1>5, OccursNat
<1>8. f \in [U -> S \ {k}]
  BY <1>4, <1>5, <1>6
<1>9. \A i, j \in U : f[i] = f[j] => i = j
  BY <1>4, <1>6
<1>10. \A u \in S \ {k} : \E i \in U : f[i] = u
  <2> SUFFICES ASSUME NEW u \in S \ {k} PROVE \E i \in U : f[i] = u
    OBVIOUS
  <2>1. CASE u < k
    <3>1. u \in 1..(k - 1) /\ u \in DOMAIN t /\ s[u] = b
      BY <1>4, <1>6, <2>1
    <3>2. u \in U
      BY <1>5, <3>1
    <3> QED BY <2>1, <3>2
  <2>2. CASE u > k
    <3>1. u - 1 \in k..(Len(s) - 1) /\ (u - 1) + 1 = u
      BY <1>4, <1>6, <2>2
    <3>2. u - 1 \in U
      BY <1>4, <1>5, <1>6, <3>1
    <3>3. f[u - 1] = u
      BY <1>4, <3>1, <3>2
    <3> QED BY <3>2, <3>3
  <2> QED BY <1>4, <1>6, <2>1, <2>2
<1>11. k \in S <=> e = b
  BY <1>4
<1> HIDE DEF S, U, f
<1>12. IsFiniteSet(S \ {k}) /\ Cardinality(S \ {k}) = Cardinality(U)
  BY <1>7, <1>8, <1>9, <1>10, SameCount
<1>13. /\ Cardinality(S) \in Nat
       /\ Cardinality(S \ {k}) = Cardinality(S) - Bit(k \in S) + Bit(k \in S \ {k})
  <2>1. (S \ {k}) \ {k} = S \ {k}
    OBVIOUS
  <2> QED BY <1>7, <2>1, DifferInOne
<1>14. Cardinality(U) = Cardinality(S) - Bit(e = b)
  BY <1>11, <1>12, <1>13 DEF Bit
<1> QED BY <1>5, <1>14 DEF S, U, t, Occurs
=============================================================================
