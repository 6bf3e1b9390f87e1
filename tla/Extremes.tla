------------------------------ MODULE Extremes ------------------------------
(* Smallest and largest numbers of a set, and its order: the rows that MIN  *)
(* and MAX of a query find, the next free id, the socket that is used next, *)
(* the rows of a store by id, the container of a document that is shown.    *)
EXTENDS Integers, FiniteSetsExt, TLAPS, WellFoundedInduction, FiniteSetTheorems

\* Every non-empty set of numbers has a smallest one, and Min picks it.
LEMMA MinIsSmallest ==
  ASSUME NEW S \in SUBSET Nat, S # {}
  PROVE  /\ Min(S) \in S /\ \A t \in S : Min(S) <= t
         /\ \E s \in S : \A t \in S : s <= t
<1> DEFINE R == OpToRel(<, Nat)
<1> HIDE DEF R
<1>1. IsWellFoundedOn(R, Nat)
  BY NatLessThanWellFounded DEF R
<1>2. PICK x \in S : \A y \in S : ~ (<<y, x>> \in R)
  BY <1>1, WFMin
<1>3. \A y \in S : ~ (y < x)
  BY <1>2 DEF R, OpToRel
<1>4. \E s \in S : \A t \in S : s <= t
  BY <1>3
<1> QED
  BY <1>4 DEF Min

Below(S, n) == {j \in S : j < n}

\* Every place in the order of a finite set of numbers is taken.
LEMMA Placed ==
  ASSUME NEW S \in SUBSET Nat, IsFiniteSet(S), NEW k \in 1..Cardinality(S)
  PROVE  \E i \in S : Cardinality(Below(S, i)) = k - 1
<1> DEFINE Free == {m \in Nat : m < Cardinality(S) /\ \A i \in S : Cardinality(Below(S, i)) # m}
<1>1. Cardinality(S) \in Nat
  BY FS_CardinalityType
<1>2. Free = {}
  <2> SUFFICES ASSUME Free # {} PROVE FALSE
    OBVIOUS
  <2>1. PICK m \in Free : \A t \in Free : m <= t
    <3>1. Free \in SUBSET Nat
      OBVIOUS
    <3> HIDE DEF Free
    <3> QED
      BY <3>1, MinIsSmallest
  <2>2. \E B \in SUBSET S : Cardinality(B) = m /\ \A b \in B, c \in S : c <= b => c \in B
    <3>1. CASE m = 0
      BY <3>1, FS_EmptySet
    <3>2. CASE m # 0
      <4>1. m - 1 \in Nat /\ m - 1 < Cardinality(S) /\ m - 1 \notin Free
        BY <1>1, <2>1, <3>2
      <4>2. PICK i \in S : Cardinality(Below(S, i)) = m - 1
        BY <4>1
      <4>3. Below(S, i) \in SUBSET S /\ i \notin Below(S, i)
        BY DEF Below
      <4>4. Cardinality(Below(S, i) \cup {i}) = m
        <5>1. IsFiniteSet(Below(S, i)) /\ m \in Nat
          BY <2>1, <4>3, FS_Subset
        <5>2. Cardinality(Below(S, i) \cup {i}) = m - 1 + 1
          BY <4>2, <4>3, <5>1, FS_AddElement
        <5> QED
          BY <5>1, <5>2
      <4>5. \A b \in Below(S, i) \cup {i}, c \in S : c <= b => c \in Below(S, i) \cup {i}
        BY DEF Below
      <4> QED
        BY <4>3, <4>4, <4>5
    <3> QED
      BY <3>1, <3>2
  <2>3. PICK B \in SUBSET S : Cardinality(B) = m /\ \A b \in B, c \in S : c <= b => c \in B
    BY <2>2
  <2>4. S \ B # {} /\ S \ B \in SUBSET Nat
    <3>1. B # S
      BY <1>1, <2>1, <2>3
    <3> QED
      BY <3>1
  <2>5. PICK i \in S \ B : \A t \in S \ B : i <= t
    BY <2>4, MinIsSmallest
  <2>6. Below(S, i) = B
    <3>1. ASSUME NEW j \in S PROVE j < i <=> j \in B
      <4>1. j \in Nat /\ i \in Nat /\ i \in S /\ i \notin B
        BY <2>5
      <4>2. j \in B => ~ (i <= j)
        BY <2>3, <4>1
      <4>3. j \notin B => i <= j
        BY <2>5
      <4> QED
        BY <4>1, <4>2, <4>3
    <3> QED
      BY <2>3, <3>1 DEF Below
  <2> QED
    BY <2>1, <2>3, <2>5, <2>6
<1>3. k - 1 \in Nat /\ k - 1 < Cardinality(S)
  BY <1>1
<1> QED
  BY <1>2, <1>3

\* Every non-empty finite, or bounded, set of numbers has a largest one, and Max picks it.
LEMMA MaxIsLargest ==
  ASSUME NEW S \in SUBSET Nat, S # {},
         IsFiniteSet(S) \/ \E n \in Nat : S \subseteq 1..n
  PROVE  Max(S) \in S /\ \A t \in S : t <= Max(S)
<1>1. IsFiniteSet(S) /\ Cardinality(S) \in Nat
  <2>1. ASSUME NEW n \in Nat, S \subseteq 1..n PROVE IsFiniteSet(S)
    <3>1. \A s \in S : s <= n
      BY <2>1
    <3> QED
      BY <3>1, FS_BoundedSetOfNaturals
  <2> QED
    BY <2>1, FS_CardinalityType
<1>2. Cardinality(S) \in 1..Cardinality(S)
  BY <1>1, FS_EmptySet
<1>3. PICK i \in S : Cardinality(Below(S, i)) = Cardinality(S) - 1
  BY <1>1, <1>2, Placed
<1>4. Below(S, i) \in SUBSET S /\ i \notin Below(S, i)
  BY DEF Below
<1>5. IsFiniteSet(Below(S, i))
  BY <1>1, <1>4, FS_Subset
<1>6. Cardinality(Below(S, i) \cup {i}) = Cardinality(S)
  <2>1. Cardinality(Below(S, i) \cup {i}) = Cardinality(Below(S, i)) + 1
    BY <1>4, <1>5, FS_AddElement
  <2> QED
    BY <1>1, <1>3, <2>1
<1>7. Below(S, i) \cup {i} = S
  <2>1. Below(S, i) \cup {i} \in SUBSET S
    BY <1>4
  <2> QED
    BY <1>1, <1>6, <2>1, FS_Subset
<1>8. \A t \in S : i >= t
  BY <1>7 DEF Below
<1> QED
  BY <1>8 DEF Max
=============================================================================
