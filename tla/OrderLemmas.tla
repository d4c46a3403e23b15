---------------------------- MODULE OrderLemmas ----------------------------
(***************************************************************************)
(* Least and greatest elements of sets of integers, what Min and Max       *)
(* return, and the ranks of the elements of a finite set: for the modules  *)
(* whose operators are built from them.                                    *)
(***************************************************************************)
EXTENDS Integers, FiniteSetsExt, FiniteSetTheorems, FunctionTheorems, WellFoundedInduction, TLAPS

\* A set of natural numbers has a least element.
LEMMA LeastNat ==
    ASSUME NEW S \in SUBSET Nat, S # {}
    PROVE  \E n \in S : \A m \in S : n <= m
<1> DEFINE R == OpToRel(<, Nat)
<1>1. \E x \in S : \A y \in S : ~(<<y, x>> \in R)
  <2>1. IsWellFoundedOn(R, Nat)
    BY NatLessThanWellFounded
  <2> HIDE DEF R
  <2> QED
    BY <2>1, WFMin
<1>2. \A x, y \in Nat : <<y, x>> \in R <=> y < x
  BY DEF OpToRel
<1>3. PICK x \in S : \A y \in S : ~(<<y, x>> \in R)
  BY <1>1
<1>4. ASSUME NEW y \in S PROVE x <= y
  <2>1. x \in Nat /\ y \in Nat
    OBVIOUS
  <2>2. ~(y < x)
    BY <1>2, <1>3, <2>1
  <2> QED
    BY <2>1, <2>2, SMT
<1> QED
  BY <1>4

\* Induction up to n, for a set: one that has 0 and, with a number, the next has all.
LEMMA Upward ==
    ASSUME NEW n \in Nat, NEW P, 0 \in P, \A k \in 1 .. n : k - 1 \in P => k \in P
    PROVE  \A k \in 0 .. n : k \in P
<1> DEFINE rest == {k \in 0 .. n : k \notin P}
<1>1. ASSUME rest # {} PROVE FALSE
  <2>1. rest \in SUBSET Nat
    BY SMT
  <2>2. PICK m \in rest : \A k \in rest : m <= k
    <3> HIDE DEF rest
    <3> QED
      BY <1>1, <2>1, LeastNat
  <2>3. m \in 0 .. n /\ m # 0 /\ m \notin P
    OBVIOUS
  <2>4. m \in 1 .. n /\ m - 1 \in 0 .. n /\ ~(m <= m - 1)
    BY <2>3, SMT
  <2>5. m - 1 \in P
    BY <2>2, <2>4
  <2> QED
    BY <2>3, <2>4, <2>5
<1> QED
  BY <1>1

\* Min finds it.
LEMMA MinIsLeast ==
    ASSUME NEW S \in SUBSET Nat, S # {}
    PROVE  Min(S) \in S /\ \A m \in S : Min(S) <= m
BY LeastNat DEF Min

\* The least element is the only one of its kind.
LEMMA MinIsUnique ==
    ASSUME NEW S \in SUBSET Nat, NEW n \in S, \A m \in S : n <= m
    PROVE  Min(S) = n
<1>1. S # {} /\ n \in Nat
  OBVIOUS
<1>2. Min(S) \in S /\ Min(S) <= n
  BY <1>1, MinIsLeast
<1>3. Min(S) \in Nat /\ n <= Min(S)
  BY <1>2
<1> QED
  BY <1>1, <1>2, <1>3, SMT

\* A set of natural numbers that are at most N has a greatest element, and Max
\* finds it.
LEMMA MaxIsGreatest ==
    ASSUME NEW N \in Nat, NEW S \in SUBSET (0 .. N), S # {}
    PROVE  Max(S) \in S /\ \A m \in S : m <= Max(S)
<1> DEFINE T == {N - m : m \in S}
<1>1. T \in SUBSET Nat /\ T # {}
  <2>1. ASSUME NEW m \in S PROVE N - m \in Nat
    <3>1. m \in 0 .. N
      OBVIOUS
    <3> QED
      BY <3>1, SMT
  <2> QED
    BY <2>1
<1>2. PICK k \in T : \A m \in T : k <= m
  <2> HIDE DEF T
  <2> QED
    BY <1>1, LeastNat
<1>3. PICK n \in S : k = N - n
  BY <1>2
<1>4. \A m \in S : n >= m
  <2> SUFFICES ASSUME NEW m \in S PROVE n >= m
    OBVIOUS
  <2>1. k <= N - m
    BY <1>2
  <2>2. m \in 0 .. N /\ n \in 0 .. N
    OBVIOUS
  <2> QED
    BY <1>3, <2>1, <2>2, SMT
<1>5. Max(S) \in S /\ \A m \in S : Max(S) >= m
  BY <1>4 DEF Max
<1> QED
  BY <1>5

\* Every element is at most the greatest, and one that all are at most is it.
LEMMA MaxIsUnique ==
    ASSUME NEW N \in Nat, NEW S \in SUBSET (0 .. N), NEW n \in S,
           \A m \in S : m <= n
    PROVE  Max(S) = n
<1>1. S # {}
  OBVIOUS
<1>2. Max(S) \in S /\ n <= Max(S)
  BY <1>1, MaxIsGreatest
<1>3. Max(S) \in 0 .. N /\ n \in 0 .. N /\ Max(S) <= n
  BY <1>2
<1> QED
  BY <1>2, <1>3, SMT

-----------------------------------------------------------------------------
(* Ranks in a finite order *)

\* The first n natural numbers are n.
LEMMA CountFacts ==
    ASSUME NEW n \in Nat
    PROVE  IsFiniteSet(0 .. n - 1) /\ Cardinality(0 .. n - 1) = n
<1> DEFINE top == n - 1
<1>1. 0 \in Int /\ top \in Int /\ (0 > top => n = 0) /\ top - 0 + 1 = n
  BY SMT
<1> HIDE DEF top
<1>2. IsFiniteSet(0 .. top) /\ Cardinality(0 .. top) = IF 0 > top THEN 0 ELSE top - 0 + 1
  BY <1>1, FS_Interval
<1> QED
  BY <1>1, <1>2 DEF top

\* R orders the elements of S.
Orders(R, S) ==
    /\ \A a \in S : <<a, a>> \notin R
    /\ \A a, b \in S : a # b => <<a, b>> \in R \/ <<b, a>> \in R
    /\ \A a, b, c \in S : <<a, b>> \in R /\ <<b, c>> \in R => <<a, c>> \in R

Below(R, S, a) == {b \in S : <<b, a>> \in R}

\* The elements below an element are counted 0, 1, 2, ... in their order.
LEMMA RankFacts ==
    ASSUME NEW S, IsFiniteSet(S), NEW R, Orders(R, S)
    PROVE  /\ Cardinality(S) \in Nat
           /\ \A a \in S : Cardinality(Below(R, S, a)) \in 0 .. Cardinality(S) - 1
           /\ \A a, b \in S : <<a, b>> \in R =>
                 Cardinality(Below(R, S, a)) < Cardinality(Below(R, S, b))
           /\ \A k \in 0 .. Cardinality(S) - 1 :
                 \E a \in S : Cardinality(Below(R, S, a)) = k
<1> DEFINE n == Cardinality(S)
           rank == [a \in S |-> Cardinality(Below(R, S, a))]
<1>1. n \in Nat
  BY FS_CardinalityType
<1>2. ASSUME NEW a \in S
      PROVE  /\ IsFiniteSet(Below(R, S, a)) /\ Cardinality(Below(R, S, a)) \in Nat
             /\ Below(R, S, a) \in SUBSET S
  <2>1. Below(R, S, a) \in SUBSET S
    BY DEF Below
  <2> QED
    BY <2>1, FS_Subset, FS_CardinalityType
<1>3. ASSUME NEW T, IsFiniteSet(T), NEW U \in SUBSET T, U # T
      PROVE  Cardinality(U) < Cardinality(T)
  <2>1. IsFiniteSet(U) /\ Cardinality(U) <= Cardinality(T) /\ Cardinality(U) # Cardinality(T)
    BY <1>3, FS_Subset
  <2>2. Cardinality(U) \in Nat /\ Cardinality(T) \in Nat
    BY <1>3, <2>1, FS_CardinalityType
  <2> QED
    BY <2>1, <2>2, SMT
<1>4. ASSUME NEW a \in S PROVE rank[a] \in 0 .. n - 1
  <2>1. Below(R, S, a) # S
    BY DEF Below, Orders
  <2>2. Cardinality(Below(R, S, a)) < n
    BY <1>2, <1>3, <2>1
  <2> QED
    BY <1>1, <1>2, <2>2, SMT
<1>5. ASSUME NEW a \in S, NEW b \in S, <<a, b>> \in R PROVE rank[a] < rank[b]
  <2>1. Below(R, S, a) \in SUBSET Below(R, S, b)
    BY <1>5 DEF Below, Orders
  <2>2. a \in Below(R, S, b) /\ a \notin Below(R, S, a)
    BY <1>5 DEF Below, Orders
  <2> QED
    BY <1>2, <1>3, <2>1, <2>2
<1>6. rank \in Injection(S, 0 .. n - 1)
  <2>1. ASSUME NEW a \in S, NEW b \in S, a # b PROVE rank[a] # rank[b]
    <3>1. rank[a] < rank[b] \/ rank[b] < rank[a]
      BY <1>5, <2>1 DEF Orders
    <3>2. rank[a] \in 0 .. n - 1 /\ rank[b] \in 0 .. n - 1
      BY <1>4
    <3> HIDE DEF rank
    <3> QED
      BY <1>1, <3>1, <3>2, SMT
  <2>2. rank \in [S -> 0 .. n - 1]
    BY <1>4
  <2> HIDE DEF rank
  <2> QED
    BY <2>1, <2>2, Fun_IsInj
<1>7. IsFiniteSet(0 .. n - 1) /\ Cardinality(0 .. n - 1) = n
  BY <1>1, CountFacts
<1>8. rank \in Surjection(S, 0 .. n - 1)
  <2> HIDE DEF rank
  <2> QED
    BY <1>6, <1>7, FS_Injection
<1>9. ASSUME NEW k \in 0 .. n - 1 PROVE \E a \in S : rank[a] = k
  <2> HIDE DEF rank
  <2> QED
    BY <1>8 DEF Surjection
<1> QED
  BY <1>1, <1>4, <1>5, <1>9

=============================================================================
