-------------------------- MODULE RegexpRefProofs --------------------------
(***************************************************************************)
(* The reference counts of RegexpRef are exact with any number of objects  *)
(* and children and at any width of the count, and nobody keeps a pointer  *)
(* to an object that was deleted.                                          *)
(*                                                                         *)
(* Every operation moves references between three places: children,        *)
(* clients, and the Decrefs still to be made.  The proof counts the        *)
(* children of a few parents one by one and all others as one set.         *)
(***************************************************************************)
EXTENDS RegexpRef, FiniteSetTheorems, FunctionTheorems, SequenceTheorems,
        WellFoundedInduction, TLAPS

Children == Seq(Nodes \cup {NULL})

\* Where x is a child, of parents in al that are not in P, and will be given up: the
\* children of r before the ii-th are given up already.
PlacesOf(al, sb, r, ii, P, x) ==
    {p \in Nodes \X (1 .. MaxSubs) :
        /\ p[1] \in al \ P
        /\ p[2] \in DOMAIN sb[p[1]]
        /\ sb[p[1]][p[2]] = x
        /\ ~(p[1] = r /\ p[2] < ii)}

LiveWithout(P, x) == PlacesOf(allocated, sub, re, i, P, x)

\* The true count, 0 for what is not there.
Count(x) == IF x \in allocated THEN Ref(x) ELSE 0

-----------------------------------------------------------------------------
(***************************************************************************)
(* The invariant.                                                          *)
(***************************************************************************)
TypeOK ==
    /\ allocated \subseteq Nodes
    /\ ref_ \in [Nodes -> 0 .. kMaxRef]
    /\ ref_map \in [Nodes -> Nat]
    /\ sub \in [Nodes -> Children]
    /\ \A n \in Nodes : Len(sub[n]) <= MaxSubs
    /\ held \in [Nodes -> Nat]
    /\ calls \in Seq(Nodes)
    /\ stack \in Seq(Nodes)
    /\ re \in Nodes \cup {NULL}
    /\ i \in Nat

\* No reference is missing, none is counted twice, and what was deleted has none.
Counted ==
    \A x \in Nodes :
        Count(x) = Cardinality(LiveWithout({}, x)) + held[x] + Uses(calls, x)

\* Destroy has x in hand, or will come to it.
Waits(x) == x = re \/ \E k \in DOMAIN stack : stack[k] = x

Waiting ==
    /\ \A j, k \in DOMAIN stack : stack[j] = stack[k] => j = k
    /\ \A k \in DOMAIN stack : stack[k] # re
    /\ \A x \in Nodes : Waits(x) => x \in allocated /\ ref_[x] = 0

\* An edit that took children out of an object is about to give that object up.
TornGivenUp ==
    \A n \in allocated : (\E k \in DOMAIN sub[n] : sub[n][k] = NULL) =>
        Waits(n) \/ (ref_[n] = 1 /\ \E k \in DOMAIN calls : calls[k] = n)

IInv == TypeOK /\ OverflowInMap /\ Counted /\ Waiting /\ TornGivenUp

-----------------------------------------------------------------------------
(***************************************************************************)
(* Counting.                                                               *)
(***************************************************************************)

LEMMA UsesFinite ==
    ASSUME NEW T, NEW s \in Seq(T), NEW x
    PROVE  /\ IsFiniteSet({k \in DOMAIN s : s[k] = x})
           /\ Uses(s, x) \in Nat
<1>1. IsFiniteSet(1 .. Len(s)) /\ DOMAIN s = 1 .. Len(s)
  BY FS_Interval, LenProperties
<1>2. {k \in DOMAIN s : s[k] = x} \in SUBSET (1 .. Len(s))
  BY <1>1
<1>3. IsFiniteSet({k \in DOMAIN s : s[k] = x})
  BY <1>1, <1>2, FS_Subset
<1> QED
  BY <1>3, FS_CardinalityType DEF Uses

LEMMA UsesNone == \A x : Uses(<<>>, x) = 0
<1>1. \A x : {k \in DOMAIN <<>> : <<>>[k] = x} = {}
  OBVIOUS
<1> QED
  BY <1>1, FS_EmptySet DEF Uses

\* The first element of a sequence and the others.
LEMMA UsesTail ==
    ASSUME NEW T, NEW s \in Seq(T), s # <<>>, NEW x
    PROVE  Uses(s, x) = Uses(Tail(s), x) + (IF Head(s) = x THEN 1 ELSE 0)
<1> DEFINE t == Tail(s)
           K == {k \in DOMAIN s : s[k] = x}
           later == {k \in DOMAIN s : k # 1 /\ s[k] = x}
           shifted == {k \in DOMAIN t : t[k] = x}
           f == [k \in shifted |-> k + 1]
<1>1. /\ t \in Seq(T) /\ Len(t) = Len(s) - 1 /\ Len(s) \in Nat \ {0}
      /\ DOMAIN s = 1 .. Len(s) /\ DOMAIN t = 1 .. Len(s) - 1
      /\ \A k \in DOMAIN t : t[k] = s[k + 1]
      /\ Head(s) = s[1]
  BY HeadTailProperties, LenProperties, SMT
<1> HIDE DEF t
<1>2. f \in Bijection(shifted, later)
  <2>1. f \in [shifted -> later]
    BY <1>1, SMT
  <2>2. \A a, b \in shifted : f[a] = f[b] => a = b
    BY <1>1, SMT
  <2>3. \A c \in later : \E a \in shifted : f[a] = c
    <3> TAKE c \in later
    <3>1. c - 1 \in shifted /\ f[c - 1] = c
      BY <1>1, SMT
    <3> QED
      BY <3>1
  <2> HIDE DEF f, shifted, later
  <2> QED
    BY <2>1, <2>2, <2>3, Fun_IsBij
<1>3. IsFiniteSet(shifted) /\ IsFiniteSet(K)
  BY <1>1, UsesFinite
<1>4. Cardinality(later) = Cardinality(shifted)
  <2>1. ExistsBijection(shifted, later)
    BY <1>2, Fun_ExistsBij
  <2> HIDE DEF f, shifted, later
  <2> QED
    BY <2>1, <1>3, FS_Bijection
<1>5. Cardinality(K) = Cardinality(later) + (IF s[1] = x THEN 1 ELSE 0)
  <2>1. IsFiniteSet(later) /\ Cardinality(later) \in Nat
    <3>1. later \in SUBSET K
      OBVIOUS
    <3> HIDE DEF later, K
    <3> QED
      BY <3>1, <1>3, FS_Subset, FS_CardinalityType
  <2>2. CASE s[1] = x
    <3>1. K = later \cup {1} /\ 1 \notin later
      BY <1>1, <2>2, SMT
    <3> HIDE DEF later, K
    <3> QED
      BY <3>1, <2>1, <2>2, FS_AddElement
  <2>3. CASE s[1] # x
    <3>1. K = later
      BY <1>1, <2>3, SMT
    <3> HIDE DEF later, K
    <3> QED
      BY <3>1, <2>1, <2>3, SMT
  <2> QED
    BY <2>2, <2>3
<1> QED
  BY <1>1, <1>4, <1>5 DEF Uses, t

LEMMA UsesOfOne ==
    ASSUME NEW a, NEW x
    PROVE  Uses(<<a>>, x) = IF a = x THEN 1 ELSE 0
<1>1. <<a>> \in Seq({a}) /\ <<a>> # <<>> /\ Head(<<a>>) = a /\ Tail(<<a>>) = <<>>
  BY SMT
<1>2. Uses(<<a>>, x) = Uses(<<>>, x) + (IF a = x THEN 1 ELSE 0)
  BY <1>1, UsesTail
<1>3. Uses(<<>>, x) = 0
  BY UsesNone
<1> QED
  BY <1>2, <1>3, SMT

LEMMA UsesOfTwo ==
    ASSUME NEW a, NEW b, NEW x
    PROVE  Uses(<<a, b>>, x) = (IF a = x THEN 1 ELSE 0) + (IF b = x THEN 1 ELSE 0)
<1>1. /\ <<a, b>> \in Seq({a, b}) /\ <<a, b>> # <<>>
      /\ Head(<<a, b>>) = a /\ Tail(<<a, b>>) = <<b>>
  BY SMT
<1>2. Uses(<<a, b>>, x) = Uses(<<b>>, x) + (IF a = x THEN 1 ELSE 0)
  BY <1>1, UsesTail
<1> QED
  BY <1>2, UsesOfOne, SMT

LEMMA UsesPositive ==
    ASSUME NEW T, NEW s \in Seq(T), NEW k \in DOMAIN s
    PROVE  Uses(s, s[k]) >= 1
<1> DEFINE K == {j \in DOMAIN s : s[j] = s[k]}
<1>1. IsFiniteSet(K)
  BY UsesFinite
<1>2. k \in K
  OBVIOUS
<1>3. Cardinality(K) \in Nat /\ Cardinality(K) # 0
  <2> HIDE DEF K
  <2> QED
    BY <1>1, <1>2, FS_CardinalityType, FS_EmptySet
<1> QED
  BY <1>3, SMT DEF Uses

LEMMA PlacesFinite ==
    ASSUME NEW al, NEW sb, NEW r, NEW ii, NEW P, NEW x
    PROVE  /\ IsFiniteSet(PlacesOf(al, sb, r, ii, P, x))
           /\ Cardinality(PlacesOf(al, sb, r, ii, P, x)) \in Nat
<1>1. IsFiniteSet(Nodes) /\ IsFiniteSet(1 .. MaxSubs)
  BY RegexpAssumption, FS_Interval, SMT
<1>2. IsFiniteSet(Nodes \X (1 .. MaxSubs))
  BY <1>1, FS_Product
<1>3. PlacesOf(al, sb, r, ii, P, x) \in SUBSET (Nodes \X (1 .. MaxSubs))
  BY DEF PlacesOf
<1> QED
  BY <1>2, <1>3, FS_Subset, FS_CardinalityType

\* The children of one parent, and those of the others.
LEMMA PlacesSplit ==
    ASSUME NEW al \in SUBSET Nodes, NEW sb \in [Nodes -> Children],
           NEW n \in al, Len(sb[n]) <= MaxSubs,
           NEW r, r # n, NEW ii, NEW P, n \notin P, NEW x
    PROVE  Cardinality(PlacesOf(al, sb, r, ii, P, x)) =
               Cardinality(PlacesOf(al, sb, r, ii, P \cup {n}, x)) + Uses(sb[n], x)
<1> DEFINE all == PlacesOf(al, sb, r, ii, P, x)
           others == PlacesOf(al, sb, r, ii, P \cup {n}, x)
           K == {k \in DOMAIN sb[n] : sb[n][k] = x}
           own == {n} \X K
<1>1. sb[n] \in Children /\ n \in Nodes
  OBVIOUS
<1>2. DOMAIN sb[n] = 1 .. Len(sb[n]) /\ DOMAIN sb[n] \subseteq 1 .. MaxSubs
  BY <1>1, LenProperties, RegexpAssumption, SMT DEF Children
<1>3. all = others \cup own
  BY <1>1, <1>2 DEF PlacesOf
<1>4. others \cap own = {}
  BY DEF PlacesOf
<1>5. IsFiniteSet(K) /\ Cardinality(K) = Uses(sb[n], x) /\ Cardinality(K) \in Nat
  BY <1>1, UsesFinite DEF Uses, Children
<1>6. IsFiniteSet(own) /\ Cardinality(own) = Cardinality(K)
  <2> HIDE DEF K
  <2>1. IsFiniteSet({n}) /\ Cardinality({n}) = 1
    BY FS_Singleton
  <2>2. IsFiniteSet(own) /\ Cardinality(own) = 1 * Cardinality(K)
    BY <2>1, <1>5, FS_Product
  <2> QED
    BY <2>2, <1>5
<1>7. IsFiniteSet(others) /\ Cardinality(others) \in Nat
  BY PlacesFinite
<1>8. Cardinality(all) = Cardinality(others) + Cardinality(own) - 0
  <2> HIDE DEF all, others, own
  <2> QED
    BY <1>3, <1>4, <1>6, <1>7, FS_Union, FS_EmptySet
<1> QED
  BY <1>5, <1>6, <1>7, <1>8, SMT

-----------------------------------------------------------------------------
(***************************************************************************)
(* What AddRef, DropRef and DropAndDestroy do.                             *)
(***************************************************************************)

\* A count in 16 bits, taken modulo their number, is itself.
LEMMA Fits ==
    ASSUME NEW c \in 0 .. kMaxRef
    PROVE  c % (kMaxRef + 1) = c
BY RegexpAssumption, SMT

LEMMA CountType ==
    ASSUME TypeOK
    PROVE  \A x \in Nodes : Count(x) \in Nat
BY RegexpAssumption, SMT DEF TypeOK, Count, Ref

LEMMA AddEffects ==
    ASSUME TypeOK, OverflowInMap, NEW n \in allocated, AddRef(n)
    PROVE  /\ ref_' \in [Nodes -> 0 .. kMaxRef] /\ ref_map' \in [Nodes -> Nat]
           /\ \A x \in Nodes :
                /\ x # n => ref_'[x] = ref_[x] /\ ref_map'[x] = ref_map[x]
                /\ Ref(x)' = IF x = n THEN Ref(n) + 1 ELSE Ref(x)
           /\ IF ref_'[n] = kMaxRef THEN ref_map'[n] >= kMaxRef ELSE ref_map'[n] = 0
<1>1. /\ n \in Nodes /\ kMaxRef \in Nat /\ kMaxRef >= 2
      /\ ref_[n] \in 0 .. kMaxRef /\ ref_map[n] \in Nat
      /\ ref_ \in [Nodes -> 0 .. kMaxRef] /\ ref_map \in [Nodes -> Nat]
  BY RegexpAssumption DEF TypeOK
<1>2. IF ref_[n] = kMaxRef THEN ref_map[n] >= kMaxRef ELSE ref_map[n] = 0
  BY <1>1 DEF OverflowInMap
<1> QED
  BY <1>1, <1>2, SMT DEF AddRef, Ref

LEMMA DropEffects ==
    ASSUME TypeOK, OverflowInMap, NEW n \in allocated, Ref(n) >= 1, DropRef(n)
    PROVE  /\ ref_' \in [Nodes -> 0 .. kMaxRef] /\ ref_map' \in [Nodes -> Nat]
           /\ \A x \in Nodes :
                /\ x # n => ref_'[x] = ref_[x] /\ ref_map'[x] = ref_map[x]
                /\ Ref(x)' = IF x = n THEN Ref(n) - 1 ELSE Ref(x)
           /\ IF ref_'[n] = kMaxRef THEN ref_map'[n] >= kMaxRef ELSE ref_map'[n] = 0
           /\ ref_'[n] = 0 <=> Ref(n) = 1
<1>1. /\ n \in Nodes /\ kMaxRef \in Nat /\ kMaxRef >= 2
      /\ ref_[n] \in 0 .. kMaxRef /\ ref_map[n] \in Nat
      /\ ref_ \in [Nodes -> 0 .. kMaxRef] /\ ref_map \in [Nodes -> Nat]
  BY RegexpAssumption DEF TypeOK
<1>2. IF ref_[n] = kMaxRef THEN ref_map[n] >= kMaxRef ELSE ref_map[n] = 0
  BY <1>1 DEF OverflowInMap
<1>3. CASE ref_[n] = kMaxRef
  <2> DEFINE r == ref_map[n] - 1
  <2>1. r \in Nat /\ r >= kMaxRef - 1
    BY <1>1, <1>2, <1>3, SMT
  <2>2. r < kMaxRef => r % (kMaxRef + 1) = r
    BY <1>1, <2>1, Fits, SMT
  <2>3. /\ ref_map' = [ref_map EXCEPT ![n] = IF r < kMaxRef THEN 0 ELSE r]
        /\ ref_' = [ref_ EXCEPT ![n] = IF r < kMaxRef THEN r ELSE kMaxRef]
    BY <1>1, <1>3, <2>2 DEF DropRef
  <2> QED
    BY <1>1, <1>2, <1>3, <2>1, <2>3, SMT DEF Ref
<1>4. CASE ref_[n] # kMaxRef
  <2>1. ref_[n] - 1 \in 0 .. kMaxRef
    BY <1>1, <1>4, SMT DEF Ref
  <2>2. ref_' = [ref_ EXCEPT ![n] = ref_[n] - 1] /\ ref_map' = ref_map
    BY <1>1, <1>4, <2>1, Fits DEF DropRef
  <2> QED
    BY <1>1, <1>2, <1>4, <2>1, <2>2, SMT DEF Ref
<1> QED
  BY <1>3, <1>4

\* Whether or not n survives: one reference less, and nothing else has changed.
LEMMA DestroyEffects ==
    ASSUME TypeOK, OverflowInMap, Waiting, NEW n \in Nodes, Count(n) >= 1,
           DropAndDestroy(n), sub' = sub, re' = re
    PROVE  /\ ref_' \in [Nodes -> 0 .. kMaxRef] /\ ref_map' \in [Nodes -> Nat]
           /\ allocated' \subseteq Nodes /\ stack' \in Seq(Nodes)
           /\ OverflowInMap'
           /\ Waiting'
           /\ \A x \in Nodes : Count(x)' = Count(x) - (IF x = n THEN 1 ELSE 0)
           /\ \A r, ii, P, x : PlacesOf(allocated', sub, r, ii, P, x)
                                = PlacesOf(allocated, sub, r, ii, P, x)
           /\ \A x \in allocated' : x \in allocated /\ (x # n => ref_'[x] = ref_[x])
           /\ \A x \in Nodes : Waits(x) => Waits(x)'
           /\ n \in allocated' /\ ref_[n] = 1 /\ sub[n] # <<>> => Waits(n)'
           /\ n \in allocated' /\ ref_'[n] = 0 => Waits(n)'
<1> USE DEF Children
<1>1. /\ n \in allocated /\ Ref(n) >= 1 /\ allocated \subseteq Nodes /\ stack \in Seq(Nodes)
      /\ kMaxRef \in Nat /\ kMaxRef >= 2
  BY RegexpAssumption, SMT DEF Count, TypeOK
<1>2. DropRef(n)
  BY DEF DropAndDestroy
<1>3. /\ ref_' \in [Nodes -> 0 .. kMaxRef] /\ ref_map' \in [Nodes -> Nat]
      /\ \A x \in Nodes :
            /\ x # n => ref_'[x] = ref_[x] /\ ref_map'[x] = ref_map[x]
            /\ Ref(x)' = IF x = n THEN Ref(n) - 1 ELSE Ref(x)
      /\ IF ref_'[n] = kMaxRef THEN ref_map'[n] >= kMaxRef ELSE ref_map'[n] = 0
      /\ ref_'[n] = 0 <=> Ref(n) = 1
  BY <1>1, <1>2, DropEffects
<1>4. ~Waits(n)
  <2>1. ref_[n] # 0
    BY <1>1, SMT DEF Ref
  <2> QED
    BY <2>1 DEF Waiting
<1>5. sub[n] \in Seq(Nodes \cup {NULL}) /\ (Len(sub[n]) = 0 <=> sub[n] = <<>>)
  BY <1>1, EmptySeq, SMT DEF TypeOK
<1>6. \/ ref_'[n] # 0 /\ allocated' = allocated /\ stack' = stack
      \/ ref_'[n] = 0 /\ sub[n] = <<>> /\ allocated' = allocated \ {n} /\ stack' = stack
      \/ ref_'[n] = 0 /\ sub[n] # <<>> /\ allocated' = allocated /\ stack' = <<n>> \o stack
  BY <1>5 DEF DropAndDestroy, DestroysAtOnce
<1>7. /\ <<n>> \o stack \in Seq(Nodes)
      /\ DOMAIN (<<n>> \o stack) = 1 .. Len(stack) + 1 /\ DOMAIN stack = 1 .. Len(stack)
      /\ Len(stack) \in Nat
      /\ (<<n>> \o stack)[1] = n
      /\ \A k \in 1 .. Len(stack) + 1 : k # 1 => (<<n>> \o stack)[k] = stack[k - 1]
  BY <1>1, SMT
<1>8. Waiting' /\ \A x \in Nodes : Waits(x) => Waits(x)'
  <2>1. CASE stack' = stack
    <3>1. \A x \in Nodes : Waits(x)' = Waits(x)
      BY <2>1 DEF Waits
    <3> QED
      BY <1>3, <1>4, <1>6, <2>1, <3>1 DEF Waiting
  <2>2. CASE ref_'[n] = 0 /\ allocated' = allocated /\ stack' = <<n>> \o stack
    <3>1. \A x \in Nodes : Waits(x)' <=> Waits(x) \/ x = n
      <4> TAKE x \in Nodes
      <4>1. ASSUME NEW k \in DOMAIN stack', stack'[k] = x
            PROVE  Waits(x) \/ x = n
        <5>1. k = 1 \/ (k - 1 \in DOMAIN stack /\ stack[k - 1] = x)
          BY <1>7, <2>2, <4>1, SMT
        <5> QED
          BY <1>7, <2>2, <4>1, <5>1 DEF Waits
      <4>2. ASSUME NEW k \in DOMAIN stack, stack[k] = x
            PROVE  Waits(x)'
        <5>1. k + 1 \in DOMAIN stack' /\ stack'[k + 1] = x
          BY <1>7, <2>2, <4>2, SMT
        <5> QED
          BY <5>1 DEF Waits
      <4>3. Waits(n)'
        <5>1. 1 \in DOMAIN stack' /\ stack'[1] = n
          BY <1>7, <2>2, SMT
        <5> QED
          BY <5>1 DEF Waits
      <4> QED
        BY <4>1, <4>2, <4>3 DEF Waits
    <3>2. \A k \in DOMAIN stack : stack[k] # n
      BY <1>4 DEF Waits
    <3>3. re # n
      BY <1>4 DEF Waits
    <3>4. \A j, k \in DOMAIN stack' : stack'[j] = stack'[k] => j = k
      <4> SUFFICES ASSUME NEW j \in DOMAIN stack', NEW k \in DOMAIN stack', stack'[j] = stack'[k]
                   PROVE  j = k
        OBVIOUS
      <4>1. CASE j = 1 /\ k # 1
        BY <1>7, <2>2, <3>2, <4>1, SMT
      <4>2. CASE j # 1 /\ k = 1
        BY <1>7, <2>2, <3>2, <4>2, SMT
      <4>3. CASE j # 1 /\ k # 1
        <5>1. /\ j - 1 \in DOMAIN stack /\ k - 1 \in DOMAIN stack
              /\ stack[j - 1] = stack[k - 1] /\ j \in Int /\ k \in Int
          BY <1>7, <2>2, <4>3, SMT
        <5>2. j - 1 = k - 1
          BY <5>1 DEF Waiting
        <5> QED
          BY <5>1, <5>2, SMT
      <4> QED
        BY <4>1, <4>2, <4>3
    <3>5. \A k \in DOMAIN stack' : stack'[k] # re
      BY <1>7, <2>2, <3>3, SMT DEF Waiting
    <3> QED
      BY <1>1, <1>3, <2>2, <3>1, <3>4, <3>5 DEF Waiting
  <2> QED
    BY <1>6, <2>1, <2>2
<1>9. OverflowInMap'
  <2>1. IF n \in allocated' /\ ref_'[n] = kMaxRef THEN ref_map'[n] >= kMaxRef ELSE ref_map'[n] = 0
    BY <1>1, <1>3, <1>6, SMT
  <2>2. ASSUME NEW x \in Nodes, x # n
        PROVE  IF x \in allocated' /\ ref_'[x] = kMaxRef
               THEN ref_map'[x] >= kMaxRef ELSE ref_map'[x] = 0
    BY <1>3, <1>6, <2>2 DEF OverflowInMap
  <2> QED
    BY <2>1, <2>2 DEF OverflowInMap
<1>10. \A x \in Nodes : Count(x)' = Count(x) - (IF x = n THEN 1 ELSE 0)
  <2> TAKE x \in Nodes
  <2>1. CASE x = n
    BY <1>1, <1>3, <1>6, <2>1, SMT DEF Count
  <2>2. CASE x # n
    <3>1. Count(x)' = Count(x)
      BY <1>3, <1>6, <2>2 DEF Count
    <3>2. Count(x) \in Nat
      BY CountType
    <3> QED
      BY <2>2, <3>1, <3>2, SMT
  <2> QED
    BY <2>1, <2>2
<1>11. \A r, ii, P, x : PlacesOf(allocated', sub, r, ii, P, x)
                         = PlacesOf(allocated, sub, r, ii, P, x)
  <2>1. CASE allocated' = allocated
    BY <2>1
  <2>2. CASE sub[n] = <<>> /\ allocated' = allocated \ {n}
    <3>1. DOMAIN sub[n] = {}
      BY <2>2
    <3> QED
      BY <2>2, <3>1 DEF PlacesOf
  <2> QED
    BY <1>6, <2>1, <2>2
<1>12. /\ n \in allocated' /\ ref_[n] = 1 /\ sub[n] # <<>> => Waits(n)'
       /\ n \in allocated' /\ ref_'[n] = 0 => Waits(n)'
  <2>1. ref_[n] = 1 => Ref(n) = 1
    BY <1>1, SMT DEF Ref
  <2>2. stack' = <<n>> \o stack => Waits(n)'
    BY <1>7, SMT DEF Waits
  <2> QED
    BY <1>3, <1>6, <2>1, <2>2
<1> QED
  BY <1>1, <1>3, <1>6, <1>7, <1>8, <1>9, <1>10, <1>11, <1>12

-----------------------------------------------------------------------------
(***************************************************************************)
(* What a reference tells.                                                 *)
(***************************************************************************)

\* Each kind of reference alone says that its object is there.
LEMMA CountBounds ==
    ASSUME IInv, NEW x \in Nodes
    PROVE  /\ Count(x) \in Nat /\ held[x] \in Nat /\ Uses(calls, x) \in Nat
           /\ Cardinality(LiveWithout({}, x)) \in Nat
           /\ Count(x) = Cardinality(LiveWithout({}, x)) + held[x] + Uses(calls, x)
           /\ Count(x) >= 1 => x \in allocated /\ Count(x) = Ref(x)
<1>1. Uses(calls, x) \in Nat
  BY UsesFinite DEF IInv, TypeOK
<1>2. Cardinality(LiveWithout({}, x)) \in Nat
  BY PlacesFinite DEF LiveWithout
<1>3. Count(x) \in Nat /\ held[x] \in Nat
  BY CountType DEF IInv, TypeOK
<1>4. Count(x) >= 1 => x \in allocated /\ Count(x) = Ref(x)
  BY SMT DEF Count
<1> QED
  BY <1>1, <1>2, <1>3, <1>4 DEF IInv, Counted

LEMMA ChildCounts ==
    ASSUME IInv, NEW m \in allocated, NEW k \in DOMAIN sub[m], sub[m][k] # NULL,
           ~(m = re /\ k < i)
    PROVE  /\ sub[m][k] \in allocated
           /\ <<m, k>> \in LiveWithout({}, sub[m][k])
           /\ Cardinality(LiveWithout({}, sub[m][k])) >= 1
<1> DEFINE x == sub[m][k]
<1>1. /\ m \in Nodes /\ sub[m] \in Seq(Nodes \cup {NULL}) /\ Len(sub[m]) <= MaxSubs
      /\ MaxSubs \in Nat
  BY RegexpAssumption DEF IInv, TypeOK, Children
<1>2. x \in Nodes /\ k \in 1 .. MaxSubs
  BY <1>1, SMT
<1>3. <<m, k>> \in LiveWithout({}, x)
  BY <1>1, <1>2 DEF LiveWithout, PlacesOf
<1>4. IsFiniteSet(LiveWithout({}, x)) /\ Cardinality(LiveWithout({}, x)) \in Nat
  BY PlacesFinite DEF LiveWithout
<1>5. Cardinality(LiveWithout({}, x)) # 0
  BY <1>3, <1>4, FS_EmptySet
<1>6. Cardinality(LiveWithout({}, x)) >= 1
  BY <1>4, <1>5, SMT
<1>7. Count(x) >= 1
  BY <1>2, <1>6, CountBounds, SMT
<1> QED
  BY <1>2, <1>3, <1>6, <1>7, CountBounds

\* Between two operations nothing waits and nothing is torn.
LEMMA IdleFacts ==
    ASSUME IInv, Idle
    PROVE  /\ calls = <<>> /\ stack = <<>> /\ re = NULL
           /\ \A x \in Nodes : ~Waits(x) /\ Uses(calls, x) = 0
           /\ \A m \in allocated : \A k \in DOMAIN sub[m] : sub[m][k] \in allocated
<1>1. calls = <<>> /\ stack = <<>> /\ re = NULL
  BY DEF Idle
<1>2. DOMAIN calls = {} /\ DOMAIN stack = {}
  BY <1>1
<1>3. \A x \in Nodes : ~Waits(x) /\ Uses(calls, x) = 0
  BY <1>1, <1>2, UsesNone, RegexpAssumption DEF Waits
<1>4. ASSUME NEW m \in allocated, NEW k \in DOMAIN sub[m]
      PROVE  sub[m][k] \in allocated
  <2>1. m \in Nodes
    BY DEF IInv, TypeOK
  <2>2. sub[m][k] # NULL
    BY <1>2, <1>3, <2>1 DEF IInv, TornGivenUp
  <2>3. m # re
    BY <1>1, <2>1, RegexpAssumption
  <2> QED
    BY <2>2, <2>3, ChildCounts
<1> QED
  BY <1>1, <1>3, <1>4

-----------------------------------------------------------------------------
(***************************************************************************)
(* The invariant, action by action.                                        *)
(***************************************************************************)

LEMMA InitEstablishes == Init => IInv
<1> SUFFICES ASSUME Init PROVE IInv
  OBVIOUS
<1>1. TypeOK
  <2>1. <<>> \in Children /\ <<>> \in Seq(Nodes) /\ Len(<<>>) = 0
    BY SMT DEF Children
  <2> QED
    BY <2>1, RegexpAssumption, SMT DEF Init, TypeOK
<1>2. OverflowInMap
  BY RegexpAssumption, SMT DEF Init, OverflowInMap
<1>3. ASSUME NEW x \in Nodes
      PROVE  Count(x) = Cardinality(LiveWithout({}, x)) + held[x] + Uses(calls, x)
  <2>1. LiveWithout({}, x) = {}
    BY DEF Init, LiveWithout, PlacesOf
  <2>2. Cardinality(LiveWithout({}, x)) = 0
    BY <2>1, FS_EmptySet
  <2>3. Uses(calls, x) = 0
    BY UsesNone DEF Init
  <2> QED
    BY <2>2, <2>3, SMT DEF Init, Count
<1>4. Waiting /\ TornGivenUp
  BY RegexpAssumption DEF Init, Waiting, Waits, TornGivenUp
<1> QED
  BY <1>1, <1>2, <1>3, <1>4 DEF IInv, Counted

LEMMA NewPreserves ==
    ASSUME IInv, NEW n \in Nodes, NEW s \in Sequences(allocated, MaxSubs), New(n, s)
    PROVE  IInv'
<1>1. /\ TypeOK /\ OverflowInMap /\ n \notin allocated /\ allocated \subseteq Nodes
      /\ calls = <<>> /\ stack = <<>> /\ re = NULL
      /\ \A x \in Nodes : ~Waits(x) /\ Uses(calls, x) = 0
      /\ \A m \in allocated : \A k \in DOMAIN sub[m] : sub[m][k] \in allocated
  BY IdleFacts DEF New, IInv, TypeOK
<1>2. /\ allocated' = allocated \cup {n}
      /\ ref_' = [ref_ EXCEPT ![n] = 1]
      /\ sub' = [sub EXCEPT ![n] = s]
      /\ held' = [m \in Nodes |-> IF m = n THEN 1 ELSE held[m] - Uses(s, m)]
      /\ ref_map' = ref_map /\ calls' = calls /\ stack' = stack /\ re' = re /\ i' = i
      /\ \A m \in Nodes : Uses(s, m) <= held[m]
  BY DEF New, walk
<1>3. s \in Seq(allocated) /\ Len(s) <= MaxSubs /\ s \in Children
  <2>1. PICK j \in 0 .. MaxSubs : s \in [1 .. j -> allocated]
    BY DEF Sequences
  <2> QED
    BY <1>1, <2>1, RegexpAssumption, SMT DEF Children
<1>4. \A x \in Nodes : Uses(s, x) \in Nat
  BY <1>3, UsesFinite
<1>5. TypeOK'
  <2>1. held' \in [Nodes -> Nat]
    BY <1>1, <1>2, <1>4, SMT DEF TypeOK
  <2>2. ref_' \in [Nodes -> 0 .. kMaxRef]
    BY <1>1, <1>2, RegexpAssumption, SMT DEF TypeOK
  <2>3. sub' \in [Nodes -> Children] /\ \A m \in Nodes : Len(sub'[m]) <= MaxSubs
    BY <1>1, <1>2, <1>3 DEF TypeOK
  <2> QED
    BY <1>1, <1>2, <2>1, <2>2, <2>3 DEF TypeOK
<1>6. OverflowInMap'
  <2>1. ref_map[n] = 0
    BY <1>1 DEF OverflowInMap
  <2>2. ref_'[n] # kMaxRef
    BY <1>1, <1>2, RegexpAssumption, SMT DEF TypeOK
  <2> QED
    BY <1>1, <1>2, <2>1, <2>2 DEF OverflowInMap, TypeOK
<1>7. ASSUME NEW x \in Nodes
      PROVE  /\ Cardinality(LiveWithout({}, x))' = Cardinality(LiveWithout({}, x)) + Uses(s, x)
             /\ Cardinality(LiveWithout({}, x)) \in Nat
  <2>1. Cardinality(PlacesOf(allocated', sub', re', i', {}, x)) =
            Cardinality(PlacesOf(allocated', sub', re', i', {} \cup {n}, x)) + Uses(sub'[n], x)
    <3>1. sub' \in [Nodes -> Children] /\ Len(sub'[n]) <= MaxSubs
      BY <1>5 DEF TypeOK
    <3>2. allocated' \in SUBSET Nodes /\ n \in allocated' /\ re' # n
      BY <1>1, <1>2, RegexpAssumption
    <3> QED
      BY <3>1, <3>2, PlacesSplit
  <2>2. PlacesOf(allocated', sub', re', i', {} \cup {n}, x) = PlacesOf(allocated, sub, re, i, {}, x)
    BY <1>1, <1>2 DEF PlacesOf, TypeOK
  <2>3. sub'[n] = s
    BY <1>1, <1>2 DEF TypeOK
  <2> QED
    BY <2>1, <2>2, <2>3, PlacesFinite DEF LiveWithout
<1>8. ASSUME NEW x \in Nodes
      PROVE  (Count(x) = Cardinality(LiveWithout({}, x)) + held[x] + Uses(calls, x))'
  <2>1. (Uses(calls, x) = 0)'
    BY <1>1, <1>2
  <2>2. CASE x = n
    <3>1. Count(n) = 0
      BY <1>1 DEF Count
    <3>2. Cardinality(LiveWithout({}, n)) = 0 /\ held[n] = 0
      BY <3>1, CountBounds, SMT
    <3>3. Uses(s, n) = 0
      BY <1>2, <1>4, <3>2, SMT
    <3>4. Count(n)' = 1
      BY <1>1, <1>2, RegexpAssumption, SMT DEF Count, Ref, TypeOK
    <3> QED
      BY <1>2, <1>7, <2>1, <2>2, <3>2, <3>3, <3>4, SMT
  <2>3. CASE x # n
    <3>1. Count(x)' = Count(x)
      BY <1>1, <1>2, <2>3 DEF Count, Ref, TypeOK
    <3>2. held'[x] = held[x] - Uses(s, x)
      BY <1>2, <2>3
    <3>3. Count(x) = Cardinality(LiveWithout({}, x)) + held[x] + 0 /\ held[x] \in Nat
      BY <1>1, CountBounds
    <3> QED
      BY <1>4, <1>7, <2>1, <3>1, <3>2, <3>3, SMT
  <2> QED
    BY <2>2, <2>3
<1>9. Waiting'
  BY <1>1, <1>2 DEF Waiting, Waits
<1>10. TornGivenUp'
  <2>1. ASSUME NEW m \in allocated', NEW k \in DOMAIN sub'[m]
        PROVE  sub'[m][k] \in allocated
    <3>1. CASE m = n
      BY <1>1, <1>2, <1>3, <3>1, SMT DEF TypeOK
    <3>2. CASE m # n
      BY <1>1, <1>2, <3>2 DEF TypeOK
    <3> QED
      BY <3>1, <3>2
  <2> QED
    BY <1>1, <2>1, RegexpAssumption DEF TornGivenUp
<1> QED
  BY <1>5, <1>6, <1>8, <1>9, <1>10 DEF IInv, Counted

LEMMA IncrefPreserves ==
    ASSUME IInv, NEW n \in Nodes, Incref(n)
    PROVE  IInv'
<1>1. /\ TypeOK /\ OverflowInMap /\ n \in allocated /\ allocated \subseteq Nodes
      /\ calls = <<>> /\ stack = <<>> /\ re = NULL
      /\ \A x \in Nodes : ~Waits(x)
      /\ \A m \in allocated : \A k \in DOMAIN sub[m] : sub[m][k] \in allocated
  BY IdleFacts DEF Incref, IInv, TypeOK
<1>2. /\ AddRef(n)
      /\ held' = [held EXCEPT ![n] = @ + 1]
      /\ allocated' = allocated /\ sub' = sub
      /\ calls' = calls /\ stack' = stack /\ re' = re /\ i' = i
  BY DEF Incref, walk
<1>3. /\ ref_' \in [Nodes -> 0 .. kMaxRef] /\ ref_map' \in [Nodes -> Nat]
      /\ \A x \in Nodes :
            /\ x # n => ref_'[x] = ref_[x] /\ ref_map'[x] = ref_map[x]
            /\ Ref(x)' = IF x = n THEN Ref(n) + 1 ELSE Ref(x)
      /\ IF ref_'[n] = kMaxRef THEN ref_map'[n] >= kMaxRef ELSE ref_map'[n] = 0
  BY <1>1, <1>2, AddEffects
<1>4. TypeOK'
  <2>1. held' \in [Nodes -> Nat]
    BY <1>1, <1>2, SMT DEF TypeOK
  <2> QED
    BY <1>1, <1>2, <1>3, <2>1 DEF TypeOK
<1>5. OverflowInMap'
  BY <1>1, <1>2, <1>3 DEF OverflowInMap
<1>6. ASSUME NEW x \in Nodes
      PROVE  (Count(x) = Cardinality(LiveWithout({}, x)) + held[x] + Uses(calls, x))'
  <2>1. LiveWithout({}, x)' = LiveWithout({}, x) /\ Uses(calls, x)' = Uses(calls, x)
    BY <1>2 DEF LiveWithout
  <2>2. Count(x)' = Count(x) + (IF x = n THEN 1 ELSE 0)
    <3>1. CASE x = n
      BY <1>1, <1>2, <1>3, <3>1 DEF Count
    <3>2. CASE x # n
      <4>1. Count(x)' = Count(x) /\ Count(x) \in Nat
        BY <1>1, <1>2, <1>3, <3>2, CountBounds DEF Count
      <4> QED
        BY <3>2, <4>1, SMT
    <3> QED
      BY <3>1, <3>2
  <2>3. held'[x] = held[x] + (IF x = n THEN 1 ELSE 0)
    BY <1>1, <1>2, SMT DEF TypeOK
  <2>4. /\ Cardinality(LiveWithout({}, x))' = Cardinality(LiveWithout({}, x))
        /\ Cardinality(LiveWithout({}, x)) \in Nat /\ held[x] \in Nat /\ Uses(calls, x) \in Nat
        /\ Count(x) = Cardinality(LiveWithout({}, x)) + held[x] + Uses(calls, x)
    BY <2>1, CountBounds
  <2> QED
    BY <2>1, <2>2, <2>3, <2>4, SMT
<1>7. Waiting'
  BY <1>1, <1>2 DEF Waiting, Waits
<1>8. TornGivenUp'
  BY <1>1, <1>2, RegexpAssumption DEF TornGivenUp
<1> QED
  BY <1>4, <1>5, <1>6, <1>7, <1>8 DEF IInv, Counted

LEMMA DecrefPreserves ==
    ASSUME IInv, NEW n \in Nodes, Decref(n)
    PROVE  IInv'
<1>1. /\ TypeOK /\ OverflowInMap /\ Waiting /\ allocated \subseteq Nodes
      /\ calls = <<>> /\ stack = <<>> /\ re = NULL
      /\ \A m \in allocated : \A k \in DOMAIN sub[m] : sub[m][k] \in allocated
  BY IdleFacts DEF Decref, IInv, TypeOK
<1>2. /\ DropAndDestroy(n) /\ held[n] > 0
      /\ held' = [held EXCEPT ![n] = @ - 1]
      /\ sub' = sub /\ calls' = calls /\ re' = re /\ i' = i
  BY DEF Decref
<1>3. Count(n) >= 1
  BY <1>2, CountBounds, SMT
<1>4. /\ ref_' \in [Nodes -> 0 .. kMaxRef] /\ ref_map' \in [Nodes -> Nat]
      /\ allocated' \subseteq Nodes /\ stack' \in Seq(Nodes)
      /\ OverflowInMap' /\ Waiting'
      /\ \A x \in Nodes : Count(x)' = Count(x) - (IF x = n THEN 1 ELSE 0)
      /\ \A r, ii, P, x : PlacesOf(allocated', sub, r, ii, P, x)
                           = PlacesOf(allocated, sub, r, ii, P, x)
      /\ \A x \in allocated' : x \in allocated
  BY <1>1, <1>2, <1>3, DestroyEffects
<1>5. TypeOK'
  <2>1. held' \in [Nodes -> Nat]
    BY <1>1, <1>2, SMT DEF TypeOK
  <2> QED
    BY <1>1, <1>2, <1>4, <2>1 DEF TypeOK
<1>6. ASSUME NEW x \in Nodes
      PROVE  (Count(x) = Cardinality(LiveWithout({}, x)) + held[x] + Uses(calls, x))'
  <2>1. LiveWithout({}, x)' = LiveWithout({}, x) /\ Uses(calls, x)' = Uses(calls, x)
    BY <1>2, <1>4 DEF LiveWithout
  <2>2. held'[x] = held[x] - (IF x = n THEN 1 ELSE 0)
    BY <1>1, <1>2, SMT DEF TypeOK
  <2>3. /\ Cardinality(LiveWithout({}, x))' = Cardinality(LiveWithout({}, x))
        /\ Cardinality(LiveWithout({}, x)) \in Nat /\ held[x] \in Nat /\ Uses(calls, x) \in Nat
        /\ Count(x) = Cardinality(LiveWithout({}, x)) + held[x] + Uses(calls, x)
        /\ Count(x)' = Count(x) - (IF x = n THEN 1 ELSE 0)
    BY <1>4, <2>1, CountBounds
  <2> QED
    BY <2>1, <2>2, <2>3, SMT
<1>7. TornGivenUp'
  BY <1>1, <1>2, <1>4, RegexpAssumption DEF TornGivenUp
<1> QED
  BY <1>4, <1>5, <1>6, <1>7 DEF IInv, Counted

LEMMA CallDecrefPreserves ==
    ASSUME IInv, CallDecref
    PROVE  IInv'
<1>1. /\ TypeOK /\ OverflowInMap /\ Waiting /\ allocated \subseteq Nodes
      /\ calls \in Seq(Nodes) /\ calls # <<>> /\ stack = <<>> /\ re = NULL
  BY DEF CallDecref, IInv, TypeOK
<1>0. PICK n \in Nodes : n = Head(calls)
  BY <1>1, HeadTailProperties
<1>2. /\ DropAndDestroy(n)
      /\ calls' = Tail(calls)
      /\ sub' = sub /\ held' = held /\ re' = re /\ i' = i
  BY <1>0 DEF CallDecref
<1>3. /\ n \in Nodes /\ Tail(calls) \in Seq(Nodes)
      /\ 1 \in DOMAIN calls /\ n = calls[1]
      /\ \A k \in DOMAIN calls : k # 1 =>
            k - 1 \in DOMAIN Tail(calls) /\ Tail(calls)[k - 1] = calls[k]
  <2>1. /\ n \in Nodes /\ Tail(calls) \in Seq(Nodes) /\ Len(Tail(calls)) = Len(calls) - 1
        /\ \A k \in 1 .. Len(Tail(calls)) : Tail(calls)[k] = calls[k + 1]
    BY <1>0, <1>1, HeadTailProperties
  <2>2. /\ Len(calls) \in Nat \ {0} /\ DOMAIN calls = 1 .. Len(calls)
        /\ DOMAIN Tail(calls) = 1 .. Len(Tail(calls)) /\ n = calls[1]
    BY <1>1, <2>1, <1>0, LenProperties, EmptySeq, SMT
  <2> QED
    BY <2>1, <2>2, SMT
<1>4. /\ \A x \in Nodes : Uses(calls, x) = Uses(calls, x)' + (IF x = n THEN 1 ELSE 0)
      /\ \A x \in Nodes : Uses(calls, x)' \in Nat
  <2>1. \A x : Uses(calls, x) = Uses(Tail(calls), x) + (IF n = x THEN 1 ELSE 0)
    BY <1>0, <1>1, UsesTail
  <2>2. \A x \in Nodes : Uses(Tail(calls), x) \in Nat
    BY <1>3, UsesFinite
  <2> QED
    BY <1>2, <2>1, <2>2
<1>5. Count(n) >= 1
  BY <1>3, <1>4, CountBounds, SMT
<1>6. /\ ref_' \in [Nodes -> 0 .. kMaxRef] /\ ref_map' \in [Nodes -> Nat]
      /\ allocated' \subseteq Nodes /\ stack' \in Seq(Nodes)
      /\ OverflowInMap' /\ Waiting'
      /\ \A x \in Nodes : Count(x)' = Count(x) - (IF x = n THEN 1 ELSE 0)
      /\ \A r, ii, P, x : PlacesOf(allocated', sub, r, ii, P, x)
                           = PlacesOf(allocated, sub, r, ii, P, x)
      /\ \A x \in allocated' : x \in allocated /\ (x # n => ref_'[x] = ref_[x])
      /\ \A x \in Nodes : Waits(x) => Waits(x)'
      /\ n \in allocated' /\ ref_[n] = 1 /\ sub[n] # <<>> => Waits(n)'
  BY <1>1, <1>2, <1>3, <1>5, DestroyEffects
<1>7. TypeOK'
  BY <1>1, <1>2, <1>3, <1>6 DEF TypeOK
<1>8. ASSUME NEW x \in Nodes
      PROVE  (Count(x) = Cardinality(LiveWithout({}, x)) + held[x] + Uses(calls, x))'
  <2>1. LiveWithout({}, x)' = LiveWithout({}, x)
    BY <1>2, <1>6 DEF LiveWithout
  <2>2. /\ Cardinality(LiveWithout({}, x))' = Cardinality(LiveWithout({}, x))
        /\ Cardinality(LiveWithout({}, x)) \in Nat /\ held[x] \in Nat
        /\ Count(x) = Cardinality(LiveWithout({}, x)) + held[x] + Uses(calls, x)
        /\ Count(x)' = Count(x) - (IF x = n THEN 1 ELSE 0)
        /\ held'[x] = held[x]
    BY <1>2, <1>6, <2>1, CountBounds
  <2> QED
    BY <1>4, <2>2, SMT
<1>9. TornGivenUp'
  <2> SUFFICES ASSUME NEW m \in allocated', NEW k \in DOMAIN sub[m], sub[m][k] = NULL
               PROVE  \/ Waits(m)'
                      \/ ref_'[m] = 1 /\ \E j \in DOMAIN calls' : calls'[j] = m
    BY <1>2 DEF TornGivenUp
  <2>1. m \in allocated /\ m \in Nodes
    BY <1>1, <1>6
  <2>2. Waits(m) \/ (ref_[m] = 1 /\ \E j \in DOMAIN calls : calls[j] = m)
    BY <2>1 DEF IInv, TornGivenUp
  <2>3. CASE Waits(m)
    BY <1>6, <2>1, <2>3
  <2>4. ASSUME ref_[m] = 1, NEW j \in DOMAIN calls, calls[j] = m
        PROVE  \/ Waits(m)'
               \/ ref_'[m] = 1 /\ \E c \in DOMAIN calls' : calls'[c] = m
    <3>1. CASE m = n
      <4>1. sub[n] # <<>>
        BY <3>1
      <4> QED
        BY <1>6, <2>1, <2>4, <3>1, <4>1
    <3>2. CASE m # n
      <4>1. j # 1
        BY <1>3, <2>4, <3>2
      <4> QED
        BY <1>2, <1>3, <1>6, <2>4, <3>2, <4>1
    <3> QED
      BY <3>1, <3>2
  <2> QED
    BY <2>2, <2>3, <2>4
<1> QED
  BY <1>6, <1>7, <1>8, <1>9 DEF IInv, Counted

LEMMA PopPreserves ==
    ASSUME IInv, Pop
    PROVE  IInv'
<1>1. /\ TypeOK /\ OverflowInMap /\ Waiting /\ allocated \subseteq Nodes
      /\ stack \in Seq(Nodes) /\ stack # <<>> /\ re = NULL
  BY DEF Pop, IInv, TypeOK
<1>2. /\ re' = Head(stack) /\ stack' = Tail(stack) /\ i' = 1
      /\ allocated' = allocated /\ ref_' = ref_ /\ ref_map' = ref_map /\ sub' = sub
      /\ held' = held /\ calls' = calls
  BY DEF Pop, heap
<1>3. /\ Head(stack) \in Nodes /\ Tail(stack) \in Seq(Nodes)
      /\ 1 \in DOMAIN stack /\ Head(stack) = stack[1]
      /\ \A k \in DOMAIN Tail(stack) :
            k \in Int /\ k # 0 /\ k + 1 \in DOMAIN stack /\ Tail(stack)[k] = stack[k + 1]
      /\ \A k \in DOMAIN stack : k # 1 =>
            k - 1 \in DOMAIN Tail(stack) /\ Tail(stack)[k - 1] = stack[k]
  <2>1. /\ Head(stack) \in Nodes /\ Tail(stack) \in Seq(Nodes)
        /\ Len(Tail(stack)) = Len(stack) - 1
        /\ \A k \in 1 .. Len(Tail(stack)) : Tail(stack)[k] = stack[k + 1]
    BY <1>1, HeadTailProperties
  <2>2. /\ Len(stack) \in Nat \ {0} /\ DOMAIN stack = 1 .. Len(stack)
        /\ DOMAIN Tail(stack) = 1 .. Len(Tail(stack)) /\ Head(stack) = stack[1]
    BY <1>1, <2>1, LenProperties, EmptySeq, SMT
  <2> QED
    BY <2>1, <2>2, SMT
<1>4. \A x \in Nodes : Waits(x)' <=> Waits(x)
  <2> TAKE x \in Nodes
  <2>1. ASSUME Waits(x) PROVE Waits(x)'
    <3>1. PICK k \in DOMAIN stack : stack[k] = x
      BY <1>1, <2>1, RegexpAssumption DEF Waits
    <3>2. CASE k = 1
      BY <1>2, <1>3, <3>1, <3>2 DEF Waits
    <3>3. CASE k # 1
      BY <1>2, <1>3, <3>1, <3>3 DEF Waits
    <3> QED
      BY <3>2, <3>3
  <2>2. ASSUME Waits(x)' PROVE Waits(x)
    BY <1>2, <1>3, <2>2 DEF Waits
  <2> QED
    BY <2>1, <2>2
<1>5. Waiting'
  <2>1. ASSUME NEW j \in DOMAIN stack', NEW k \in DOMAIN stack', stack'[j] = stack'[k]
        PROVE  j = k
    <3>1. /\ j + 1 \in DOMAIN stack /\ k + 1 \in DOMAIN stack /\ stack[j + 1] = stack[k + 1]
          /\ j \in Int /\ k \in Int
      BY <1>2, <1>3, <2>1
    <3>2. j + 1 = k + 1
      BY <3>1 DEF IInv, Waiting
    <3> QED
      BY <3>1, <3>2, SMT
  <2>2. ASSUME NEW k \in DOMAIN stack', stack'[k] = re'
        PROVE  FALSE
    <3>1. /\ k + 1 \in DOMAIN stack /\ 1 \in DOMAIN stack /\ stack[k + 1] = stack[1]
          /\ k \in Int /\ k # 0
      BY <1>2, <1>3, <2>2
    <3>2. k + 1 = 1
      BY <3>1 DEF IInv, Waiting
    <3> QED
      BY <3>1, <3>2, SMT
  <2> QED
    BY <1>2, <1>4, <2>1, <2>2 DEF IInv, Waiting
<1>6. TypeOK'
  BY <1>1, <1>2, <1>3 DEF TypeOK
<1>7. OverflowInMap'
  BY <1>1, <1>2 DEF OverflowInMap
<1>8. ASSUME NEW x \in Nodes
      PROVE  (Count(x) = Cardinality(LiveWithout({}, x)) + held[x] + Uses(calls, x))'
  <2>1. LiveWithout({}, x)' = LiveWithout({}, x)
    <3>1. \A p \in Nodes \X (1 .. MaxSubs) : p[1] # NULL /\ ~(p[2] < 1)
      BY RegexpAssumption, SMT
    <3> QED
      BY <1>1, <1>2, <3>1 DEF LiveWithout, PlacesOf
  <2>2. Count(x)' = Count(x) /\ Uses(calls, x)' = Uses(calls, x) /\ held'[x] = held[x]
    BY <1>2 DEF Count, Ref
  <2> QED
    BY <2>1, <2>2, CountBounds
<1>9. TornGivenUp'
  BY <1>1, <1>2, <1>4 DEF IInv, TornGivenUp
<1> QED
  BY <1>5, <1>6, <1>7, <1>8, <1>9 DEF IInv, Counted

LEMMA DropSubPreserves ==
    ASSUME IInv, DropSub
    PROVE  IInv'
<1>1. /\ TypeOK /\ OverflowInMap /\ Waiting /\ allocated \subseteq Nodes
      /\ re \in Nodes /\ re \in allocated /\ ref_[re] = 0
      /\ i \in DOMAIN sub[re] /\ i \in Nat /\ re' = re /\ i' = i + 1
      /\ held' = held /\ calls' = calls
  BY DEF DropSub, IInv, TypeOK, Waiting, Waits
<1>2. /\ sub[re] \in Seq(Nodes \cup {NULL}) /\ Len(sub[re]) <= MaxSubs
      /\ DOMAIN sub[re] = 1 .. Len(sub[re]) /\ MaxSubs \in Nat
  BY <1>1, LenProperties, RegexpAssumption DEF TypeOK, Children
<1>3. <<re, i>> \in Nodes \X (1 .. MaxSubs)
  BY <1>1, <1>2, SMT
<1>4. CASE sub[re][i] = NULL
  <2>1. allocated' = allocated /\ ref_' = ref_ /\ ref_map' = ref_map /\ sub' = sub /\ stack' = stack
    BY <1>4 DEF DropSub, heap
  <2>2. TypeOK'
    BY <1>1, <2>1, SMT DEF TypeOK
  <2>3. OverflowInMap' /\ Waiting' /\ TornGivenUp'
    BY <1>1, <2>1 DEF IInv, OverflowInMap, Waiting, TornGivenUp, Waits
  <2>4. ASSUME NEW x \in Nodes
        PROVE  (Count(x) = Cardinality(LiveWithout({}, x)) + held[x] + Uses(calls, x))'
    <3>1. PlacesOf(allocated, sub, re, i + 1, {}, x) = PlacesOf(allocated, sub, re, i, {}, x)
      <4>1. \A p \in Nodes \X (1 .. MaxSubs) :
               sub[p[1]][p[2]] = x => ((p[1] = re /\ p[2] < i + 1) <=> (p[1] = re /\ p[2] < i))
        BY <1>1, <1>4, RegexpAssumption, SMT
      <4> QED
        BY <4>1 DEF PlacesOf
    <3>2. LiveWithout({}, x)' = LiveWithout({}, x)
      BY <1>1, <2>1, <3>1 DEF LiveWithout
    <3>3. Count(x)' = Count(x)
      BY <2>1 DEF Count, Ref
    <3> QED
      BY <1>1, <3>2, <3>3, CountBounds
  <2> QED
    BY <2>2, <2>3, <2>4 DEF IInv, Counted
<1>5. CASE sub[re][i] # NULL
  <2>0. PICK n \in Nodes : n = sub[re][i]
    BY <1>1, <1>2, <1>5, SMT
  <2>1. DropAndDestroy(n) /\ sub' = sub
    BY <1>5, <2>0 DEF DropSub
  <2>2. /\ <<re, i>> \in LiveWithout({}, n) /\ Cardinality(LiveWithout({}, n)) >= 1
        /\ n \in allocated
    <3>1. ~(re = re /\ i < i)
      BY <1>1, SMT
    <3> QED
      BY <1>1, <1>5, <2>0, <3>1, ChildCounts
  <2>3. Count(n) >= 1
    BY <2>2, CountBounds, SMT
  <2>4. /\ ref_' \in [Nodes -> 0 .. kMaxRef] /\ ref_map' \in [Nodes -> Nat]
        /\ allocated' \subseteq Nodes /\ stack' \in Seq(Nodes)
        /\ OverflowInMap' /\ Waiting'
        /\ \A x \in Nodes : Count(x)' = Count(x) - (IF x = n THEN 1 ELSE 0)
        /\ \A r, ii, P, x : PlacesOf(allocated', sub, r, ii, P, x)
                             = PlacesOf(allocated, sub, r, ii, P, x)
        /\ \A x \in allocated' : x \in allocated /\ (x # n => ref_'[x] = ref_[x])
        /\ \A x \in Nodes : Waits(x) => Waits(x)'
    BY <1>1, <2>1, <2>3, DestroyEffects
  <2>5. TypeOK'
    BY <1>1, <2>1, <2>4, SMT DEF TypeOK
  <2>6. ASSUME NEW x \in Nodes
        PROVE  Cardinality(LiveWithout({}, x))' =
                   Cardinality(LiveWithout({}, x)) - (IF x = n THEN 1 ELSE 0)
    <3> DEFINE before == PlacesOf(allocated, sub, re, i, {}, x)
               after == PlacesOf(allocated, sub, re, i + 1, {}, x)
    <3>1. LiveWithout({}, x)' = after /\ LiveWithout({}, x) = before
      BY <1>1, <2>1, <2>4 DEF LiveWithout
    <3>2. IsFiniteSet(before) /\ Cardinality(before) \in Nat
      BY PlacesFinite
    <3>3. \A p \in Nodes \X (1 .. MaxSubs) :
             (p[1] = re /\ p[2] < i + 1) <=> ((p[1] = re /\ p[2] < i) \/ p = <<re, i>>)
      BY <1>1, SMT
    <3>4. after = before \ {<<re, i>>}
      BY <3>3 DEF PlacesOf
    <3>5. <<re, i>> \in before <=> x = n
      BY <2>0, <2>2 DEF PlacesOf, LiveWithout
    <3> HIDE DEF before, after
    <3>6. CASE x = n
      <4>1. Cardinality(before \ {<<re, i>>}) = Cardinality(before) - 1
        BY <3>2, <3>5, <3>6, FS_RemoveElement
      <4> QED
        BY <3>1, <3>4, <3>6, <4>1
    <3>7. CASE x # n
      <4>1. after = before
        BY <3>4, <3>5, <3>7
      <4> QED
        BY <3>1, <3>2, <3>7, <4>1, SMT
    <3> QED
      BY <3>6, <3>7
  <2>7. ASSUME NEW x \in Nodes
        PROVE  (Count(x) = Cardinality(LiveWithout({}, x)) + held[x] + Uses(calls, x))'
    <3>1. /\ Cardinality(LiveWithout({}, x)) \in Nat /\ held[x] \in Nat /\ Uses(calls, x) \in Nat
          /\ Count(x) = Cardinality(LiveWithout({}, x)) + held[x] + Uses(calls, x)
          /\ Count(x)' = Count(x) - (IF x = n THEN 1 ELSE 0)
          /\ held'[x] = held[x] /\ Uses(calls, x)' = Uses(calls, x)
      BY <1>1, <2>4, CountBounds
    <3> QED
      BY <2>6, <3>1, SMT
  <2>8. TornGivenUp'
    <3> SUFFICES ASSUME NEW m \in allocated', NEW k \in DOMAIN sub[m], sub[m][k] = NULL
                 PROVE  \/ Waits(m)'
                        \/ ref_'[m] = 1 /\ \E j \in DOMAIN calls' : calls'[j] = m
      BY <2>1 DEF TornGivenUp
    <3>1. m \in allocated /\ m \in Nodes
      BY <1>1, <2>4
    <3>2. Waits(m) \/ (ref_[m] = 1 /\ \E j \in DOMAIN calls : calls[j] = m)
      BY <3>1 DEF IInv, TornGivenUp
    <3>3. CASE Waits(m)
      BY <2>4, <3>1, <3>3
    <3>4. ASSUME ref_[m] = 1, NEW j \in DOMAIN calls, calls[j] = m
          PROVE  ref_'[m] = 1 /\ \E c \in DOMAIN calls' : calls'[c] = m
      <4>1. m # n
        <5> SUFFICES ASSUME m = n PROVE FALSE
          OBVIOUS
        <5>1. Uses(calls, n) >= 1
          BY <1>1, <3>4, UsesPositive DEF TypeOK
        <5>2. Ref(n) = 1
          BY <3>4, RegexpAssumption, SMT DEF Ref
        <5>3. Count(n) = 1
          BY <2>2, <5>2 DEF Count
        <5> QED
          BY <2>2, <5>1, <5>3, CountBounds, SMT
      <4> QED
        BY <1>1, <2>4, <3>4, <4>1
    <3> QED
      BY <3>2, <3>3, <3>4
  <2> QED
    BY <2>4, <2>5, <2>7, <2>8 DEF IInv, Counted
<1> QED
  BY <1>4, <1>5

LEMMA DeletePreserves ==
    ASSUME IInv, Delete
    PROVE  IInv'
<1>1. /\ TypeOK /\ OverflowInMap /\ Waiting /\ allocated \subseteq Nodes
      /\ re \in Nodes /\ re \in allocated /\ ref_[re] = 0
      /\ i > Len(sub[re])
  BY DEF Delete, IInv, TypeOK, Waiting, Waits
<1>2. /\ sub' = [sub EXCEPT ![re] = <<>>]
      /\ allocated' = allocated \ {re} /\ re' = NULL /\ i' = 1
      /\ ref_' = ref_ /\ ref_map' = ref_map /\ held' = held /\ calls' = calls /\ stack' = stack
  BY DEF Delete
<1>3. /\ re # NULL /\ ref_map[re] = 0 /\ Count(re) = 0
      /\ sub[re] \in Seq(Nodes \cup {NULL}) /\ DOMAIN sub[re] = 1 .. Len(sub[re])
  <2>1. ref_map[re] = 0 /\ Count(re) = 0
    BY <1>1, RegexpAssumption, SMT DEF OverflowInMap, Count, Ref
  <2> QED
    BY <1>1, <2>1, LenProperties, RegexpAssumption DEF TypeOK, Children
<1>4. TypeOK'
  <2>1. <<>> \in Children /\ Len(<<>>) = 0
    BY SMT DEF Children
  <2>2. sub' \in [Nodes -> Children] /\ \A n \in Nodes : Len(sub'[n]) <= MaxSubs
    BY <1>1, <1>2, <2>1, RegexpAssumption, SMT DEF TypeOK
  <2> QED
    BY <1>1, <1>2, <2>2, SMT DEF TypeOK
<1>5. OverflowInMap'
  BY <1>1, <1>2, <1>3 DEF OverflowInMap
<1>6. ASSUME NEW x \in Nodes
      PROVE  (Count(x) = Cardinality(LiveWithout({}, x)) + held[x] + Uses(calls, x))'
  <2>1. LiveWithout({}, x)' = LiveWithout({}, x)
    <3>1. \A k \in DOMAIN sub[re] : k < i
      BY <1>1, <1>3, SMT DEF TypeOK
    <3>2. \A p \in Nodes \X (1 .. MaxSubs) : p[1] # NULL
      BY RegexpAssumption
    <3>3. \A m \in Nodes : m # re => sub'[m] = sub[m]
      BY <1>1, <1>2 DEF TypeOK
    <3> QED
      BY <1>1, <1>2, <3>1, <3>2, <3>3 DEF LiveWithout, PlacesOf
  <2>2. Count(x)' = Count(x)
    BY <1>2, <1>3 DEF Count, Ref
  <2> QED
    BY <1>2, <2>1, <2>2, CountBounds
<1>7. \A x \in Nodes : Waits(x)' => Waits(x) /\ x # re
  BY <1>1, <1>2, <1>3, RegexpAssumption DEF Waits, Waiting
<1>8. Waiting'
  <2>1. \A k \in DOMAIN stack : stack[k] \in Nodes
    BY <1>1, LenProperties, SMT DEF TypeOK
  <2> QED
    BY <1>1, <1>2, <1>7, <2>1, RegexpAssumption DEF Waiting
<1>9. TornGivenUp'
  <2> SUFFICES ASSUME NEW m \in allocated', NEW k \in DOMAIN sub'[m], sub'[m][k] = NULL
               PROVE  \/ Waits(m)'
                      \/ ref_'[m] = 1 /\ \E j \in DOMAIN calls' : calls'[j] = m
    BY DEF TornGivenUp
  <2>1. m \in allocated /\ m # re /\ m \in Nodes /\ sub'[m] = sub[m]
    BY <1>1, <1>2 DEF TypeOK
  <2>2. Waits(m) \/ (ref_[m] = 1 /\ \E j \in DOMAIN calls : calls[j] = m)
    BY <2>1 DEF IInv, TornGivenUp
  <2>3. Waits(m) => Waits(m)'
    BY <1>2, <2>1 DEF Waits
  <2> QED
    BY <1>2, <2>2, <2>3
<1> QED
  BY <1>4, <1>5, <1>6, <1>8, <1>9 DEF IInv, Counted

\* An edit between two operations, which leaves the counts alone, takes as many
\* references to each object from the children as it gives to clients and to the
\* Decrefs it will make.
LEMMA EditPreserves ==
    ASSUME IInv, Idle,
           allocated' = allocated, ref_' = ref_, ref_map' = ref_map,
           stack' = stack, re' = re, i' = i,
           sub' \in [Nodes -> Children], \A n \in Nodes : Len(sub'[n]) <= MaxSubs,
           held' \in [Nodes -> Nat], calls' \in Seq(Nodes),
           \A x \in Nodes :
               Cardinality(LiveWithout({}, x))' + held'[x] + Uses(calls, x)'
                   = Cardinality(LiveWithout({}, x)) + held[x],
           \A n \in allocated : (\E k \in DOMAIN sub'[n] : sub'[n][k] = NULL) =>
               ref_[n] = 1 /\ \E k \in DOMAIN calls' : calls'[k] = n
    PROVE  IInv'
<1>1. TypeOK'
  BY DEF IInv, TypeOK
<1>2. OverflowInMap' /\ Waiting' /\ TornGivenUp'
  BY DEF IInv, OverflowInMap, Waiting, Waits, TornGivenUp
<1>3. ASSUME NEW x \in Nodes
      PROVE  (Count(x) = Cardinality(LiveWithout({}, x)) + held[x] + Uses(calls, x))'
  <2>1. Count(x)' = Count(x)
    BY DEF Count, Ref
  <2>2. Uses(calls, x) = 0
    BY IdleFacts
  <2>3. /\ Count(x) = Cardinality(LiveWithout({}, x)) + held[x] + Uses(calls, x)
        /\ Cardinality(LiveWithout({}, x)) \in Nat /\ held[x] \in Nat
    BY CountBounds
  <2>4. Count(x) = Cardinality(LiveWithout({}, x)) + held[x]
    BY <2>2, <2>3, SMT
  <2> QED
    BY <2>1, <2>4
<1> QED
  BY <1>1, <1>2, <1>3 DEF IInv, Counted

\* Two children, once they are taken out, are no references.
LEMMA TakenOut ==
    /\ <<NULL, NULL>> \in Children /\ Len(<<NULL, NULL>>) = 2
    /\ \A x \in Nodes : Uses(<<NULL, NULL>>, x) = 0
<1>1. <<NULL, NULL>> \in Children /\ Len(<<NULL, NULL>>) = 2
  BY SMT DEF Children
<1>2. ASSUME NEW x \in Nodes PROVE Uses(<<NULL, NULL>>, x) = 0
  <2>1. NULL # x
    BY RegexpAssumption
  <2>2. Uses(<<NULL, NULL>>, x) = (IF NULL = x THEN 1 ELSE 0) + (IF NULL = x THEN 1 ELSE 0)
    BY UsesOfTwo
  <2> QED
    BY <2>1, <2>2, SMT
<1> QED
  BY <1>1, <1>2

LEMMA RemoveLeadingPreserves ==
    ASSUME IInv, NEW n \in Nodes, RemoveLeadingRegexp(n)
    PROVE  IInv'
<1>1. /\ Idle /\ Owns(n) /\ Len(sub[n]) >= 2
      /\ allocated' = allocated /\ ref_' = ref_ /\ ref_map' = ref_map
      /\ stack' = stack /\ re' = re /\ i' = i
  BY DEF RemoveLeadingRegexp, walk
<1>2. /\ TypeOK /\ allocated \subseteq Nodes /\ re = NULL
      /\ \A x \in Nodes : ~Waits(x) /\ Uses(calls, x) = 0
      /\ \A m \in allocated : \A k \in DOMAIN sub[m] : sub[m][k] \in allocated
  BY <1>1, IdleFacts DEF IInv, TypeOK
<1>3. n \in allocated /\ Ref(n) = 1 /\ Cardinality(LiveWithout({}, n)) = 0 /\ re # n
  <2>1. held[n] = 1 /\ Ref(n) = 1
    BY <1>1, RegexpAssumption, SMT DEF Owns, Ref
  <2> QED
    BY <1>2, <2>1, CountBounds, RegexpAssumption, SMT
<1>4. /\ sub[n] \in Children /\ Len(sub[n]) \in Nat /\ DOMAIN sub[n] = 1 .. Len(sub[n])
      /\ Len(sub[n]) <= MaxSubs /\ sub \in [Nodes -> Children]
  BY <1>2, LenProperties DEF TypeOK, Children
<1>5. \A k \in DOMAIN sub[n] : sub[n][k] \in allocated /\ sub[n][k] # n
  <2> TAKE k \in DOMAIN sub[n]
  <2>1. sub[n][k] \in allocated /\ sub[n][k] # NULL
    BY <1>2, <1>3, RegexpAssumption
  <2>2. Cardinality(LiveWithout({}, sub[n][k])) >= 1
    BY <1>3, <2>1, ChildCounts
  <2> QED
    BY <1>3, <2>1, <2>2, SMT
<1>6. ASSUME NEW s \in Children, Len(s) <= MaxSubs, sub' = [sub EXCEPT ![n] = s],
             NEW x \in Nodes
      PROVE  /\ Cardinality(LiveWithout({}, x))' =
                    Cardinality(LiveWithout({n}, x)) + Uses(s, x)
             /\ Cardinality(LiveWithout({}, x)) =
                    Cardinality(LiveWithout({n}, x)) + Uses(sub[n], x)
             /\ Cardinality(LiveWithout({n}, x)) \in Nat
  <2>1. /\ sub' \in [Nodes -> Children] /\ sub'[n] = s
        /\ \A m \in Nodes : m # n => sub'[m] = sub[m]
    BY <1>4, <1>6
  <2>2. Cardinality(PlacesOf(allocated, sub', re, i, {}, x)) =
            Cardinality(PlacesOf(allocated, sub', re, i, {} \cup {n}, x)) + Uses(sub'[n], x)
    <3>1. /\ allocated \in SUBSET Nodes /\ n \in allocated /\ re # n /\ n \notin {}
          /\ sub' \in [Nodes -> Children] /\ Len(sub'[n]) <= MaxSubs
      BY <1>2, <1>3, <1>6, <2>1
    <3> QED
      BY <3>1, PlacesSplit
  <2>3. Cardinality(PlacesOf(allocated, sub, re, i, {}, x)) =
            Cardinality(PlacesOf(allocated, sub, re, i, {} \cup {n}, x)) + Uses(sub[n], x)
    BY <1>2, <1>3, <1>4, PlacesSplit
  <2>4. PlacesOf(allocated, sub', re, i, {n}, x) = PlacesOf(allocated, sub, re, i, {n}, x)
    BY <2>1 DEF PlacesOf
  <2>5. {} \cup {n} = {n}
    OBVIOUS
  <2>6. Cardinality(PlacesOf(allocated, sub, re, i, {n}, x)) \in Nat
    BY PlacesFinite
  <2> QED
    BY <1>1, <2>1, <2>2, <2>3, <2>4, <2>5, <2>6 DEF LiveWithout
<1>7. CASE Len(sub[n]) = 2
  <2>0. PICK a \in allocated, b \in allocated : a = sub[n][1] /\ b = sub[n][2]
    BY <1>4, <1>5, <1>7, SMT
  <2>1. /\ held' = [held EXCEPT ![n] = @ - 1, ![b] = @ + 1]
        /\ sub' = [sub EXCEPT ![n] = <<NULL, NULL>>]
        /\ calls' = <<a, n>>
    BY <1>7, <2>0 DEF RemoveLeadingRegexp
  <2>2. /\ a \in Nodes /\ b \in Nodes /\ b # n /\ sub[n] = <<a, b>>
    BY <1>2, <1>4, <1>5, <1>7, <2>0, SMT DEF Children
  <2>3. calls' \in Seq(Nodes) /\ 2 \in DOMAIN calls' /\ calls'[2] = n
    BY <2>1, <2>2, SMT
  <2>4. held' \in [Nodes -> Nat]
        /\ \A x \in Nodes : held'[x] = held[x] - (IF x = n THEN 1 ELSE 0)
                                               + (IF x = b THEN 1 ELSE 0)
    <3>1. /\ held \in [Nodes -> Nat] /\ held[n] = 1 /\ n \in Nodes /\ b \in Nodes /\ b # n
          /\ held' = [held EXCEPT ![n] = @ - 1, ![b] = @ + 1]
      BY <1>1, <1>2, <2>1, <2>2 DEF TypeOK, Owns
    <3>2. \A x \in Nodes : held'[x] = IF x = n THEN 0 ELSE IF x = b THEN held[x] + 1 ELSE held[x]
      BY <3>1, SMT
    <3>3. held' \in [Nodes -> Nat]
      BY <3>1, <3>2, SMT
    <3> QED
      BY <3>1, <3>2, <3>3, SMT
  <2>5. sub' \in [Nodes -> Children] /\ \A m \in Nodes : Len(sub'[m]) <= MaxSubs
    BY <1>2, <1>4, <1>7, <2>1, TakenOut DEF TypeOK
  <2>6. ASSUME NEW x \in Nodes
        PROVE  Cardinality(LiveWithout({}, x))' + held'[x] + Uses(calls, x)'
                   = Cardinality(LiveWithout({}, x)) + held[x]
    <3>1. /\ Cardinality(LiveWithout({}, x))' =
                 Cardinality(LiveWithout({n}, x)) + Uses(<<NULL, NULL>>, x)
          /\ Cardinality(LiveWithout({}, x)) =
                 Cardinality(LiveWithout({n}, x)) + Uses(sub[n], x)
          /\ Cardinality(LiveWithout({n}, x)) \in Nat
      <4>1. <<NULL, NULL>> \in Children /\ Len(<<NULL, NULL>>) <= MaxSubs
        BY <1>4, <1>7, TakenOut
      <4> QED
        BY <1>6, <2>1, <4>1
    <3>2. /\ Uses(<<NULL, NULL>>, x) = 0
          /\ Uses(sub[n], x) = (IF a = x THEN 1 ELSE 0) + (IF b = x THEN 1 ELSE 0)
          /\ Uses(calls, x)' = (IF a = x THEN 1 ELSE 0) + (IF n = x THEN 1 ELSE 0)
      BY <2>1, <2>2, TakenOut, UsesOfTwo
    <3>3. held[x] \in Nat
      BY <1>2 DEF TypeOK
    <3> QED
      BY <2>4, <3>1, <3>2, <3>3, SMT
  <2>7. ASSUME NEW m \in allocated, NEW k \in DOMAIN sub'[m], sub'[m][k] = NULL
        PROVE  ref_[m] = 1 /\ \E c \in DOMAIN calls' : calls'[c] = m
    <3>1. m = n
      BY <1>2, <2>1, <2>7, RegexpAssumption DEF TypeOK
    <3> QED
      BY <1>1, <2>3, <3>1 DEF Owns
  <2> QED
    BY <1>1, <2>3, <2>4, <2>5, <2>6, <2>7, EditPreserves
<1>8. CASE Len(sub[n]) # 2
  <2>0. PICK a \in allocated : a = sub[n][1]
    BY <1>1, <1>4, <1>5, SMT
  <2>1. held' = held /\ sub' = [sub EXCEPT ![n] = Tail(sub[n])] /\ calls' = <<a>>
    BY <1>8, <2>0 DEF RemoveLeadingRegexp
  <2>2. /\ a \in Nodes /\ sub[n] # <<>> /\ Head(sub[n]) = a
        /\ Tail(sub[n]) \in Children /\ Len(Tail(sub[n])) <= MaxSubs
        /\ \A k \in DOMAIN Tail(sub[n]) :
              k + 1 \in DOMAIN sub[n] /\ Tail(sub[n])[k] = sub[n][k + 1]
    <3>1. /\ a \in Nodes /\ sub[n] \in Seq(Nodes \cup {NULL}) /\ sub[n] # <<>>
          /\ Head(sub[n]) = a
      BY <1>1, <1>2, <1>4, <2>0, SMT DEF Children
    <3>2. /\ Tail(sub[n]) \in Seq(Nodes \cup {NULL}) /\ Len(Tail(sub[n])) = Len(sub[n]) - 1
          /\ \A k \in 1 .. Len(Tail(sub[n])) : Tail(sub[n])[k] = sub[n][k + 1]
      BY <3>1, HeadTailProperties
    <3>3. DOMAIN Tail(sub[n]) = 1 .. Len(Tail(sub[n])) /\ Len(Tail(sub[n])) <= MaxSubs
      BY <1>4, <3>2, LenProperties, RegexpAssumption, SMT
    <3>4. \A k \in DOMAIN Tail(sub[n]) : k + 1 \in DOMAIN sub[n]
      BY <1>4, <3>2, <3>3, SMT
    <3> QED
      BY <3>1, <3>2, <3>3, <3>4 DEF Children
  <2>3. calls' \in Seq(Nodes)
    BY <2>1, <2>2, SMT
  <2>4. sub' \in [Nodes -> Children] /\ \A m \in Nodes : Len(sub'[m]) <= MaxSubs
    BY <1>2, <1>4, <2>1, <2>2 DEF TypeOK
  <2>5. ASSUME NEW x \in Nodes
        PROVE  Cardinality(LiveWithout({}, x))' + held'[x] + Uses(calls, x)'
                   = Cardinality(LiveWithout({}, x)) + held[x]
    <3>1. /\ Cardinality(LiveWithout({}, x))' =
                 Cardinality(LiveWithout({n}, x)) + Uses(Tail(sub[n]), x)
          /\ Cardinality(LiveWithout({}, x)) =
                 Cardinality(LiveWithout({n}, x)) + Uses(sub[n], x)
          /\ Cardinality(LiveWithout({n}, x)) \in Nat
      BY <1>6, <2>1, <2>2
    <3>2. Uses(sub[n], x) = Uses(Tail(sub[n]), x) + (IF a = x THEN 1 ELSE 0)
      BY <1>4, <2>2, UsesTail DEF Children
    <3>3. Uses(calls, x)' = IF a = x THEN 1 ELSE 0
      BY <2>1, UsesOfOne
    <3>4. Uses(Tail(sub[n]), x) \in Nat
      BY <2>2, UsesFinite DEF Children
    <3>5. held[x] \in Nat
      BY <1>2 DEF TypeOK
    <3> QED
      BY <2>1, <3>1, <3>2, <3>3, <3>4, <3>5, SMT
  <2>6. ASSUME NEW m \in allocated, NEW k \in DOMAIN sub'[m], sub'[m][k] = NULL
        PROVE  FALSE
    <3>1. CASE m = n
      BY <1>4, <1>5, <1>2, <2>1, <2>2, <2>6, <3>1, RegexpAssumption
    <3>2. CASE m # n
      BY <1>2, <2>1, <2>6, <3>2, RegexpAssumption DEF TypeOK
    <3> QED
      BY <3>1, <3>2
  <2>7. held' \in [Nodes -> Nat]
    BY <1>2, <2>1 DEF TypeOK
  <2> QED
    BY <1>1, <2>3, <2>4, <2>5, <2>6, <2>7, EditPreserves
<1> QED
  BY <1>7, <1>8

LEMMA CollapsePreserves ==
    ASSUME IInv, NEW n \in Nodes, CollapseConcat(n)
    PROVE  IInv'
<1>1. /\ Idle /\ n \in allocated /\ ref_[n] = 1 /\ Len(sub[n]) = 2
      /\ allocated' = allocated /\ ref_map' = ref_map /\ held' = held
      /\ stack' = stack /\ re' = re /\ i' = i
  BY DEF CollapseConcat, walk
<1>2. /\ TypeOK /\ allocated \subseteq Nodes /\ re = NULL /\ re \notin Nodes
      /\ \A m \in allocated : \A k \in DOMAIN sub[m] : sub[m][k] \in allocated
      /\ held' \in [Nodes -> Nat]
  BY <1>1, IdleFacts, RegexpAssumption DEF IInv, TypeOK
<1>3. /\ sub \in [Nodes -> Children] /\ \A m \in Nodes : Len(sub[m]) <= MaxSubs
      /\ DOMAIN sub[n] = 1 .. 2
  BY <1>1, <1>2, LenProperties DEF TypeOK, Children
<1>4. PICK a \in allocated, old \in allocated : a = sub[n][1] /\ old = sub[n][2]
  BY <1>1, <1>2, <1>3, SMT
<1>5. /\ ref_[old] = 1
      /\ sub' = [sub EXCEPT ![n] = sub[old], ![old] = <<NULL, NULL>>]
      /\ ref_' = [ref_ EXCEPT ![n] = 1, ![old] = 1]
      /\ calls' = <<a, old>>
  BY <1>1, <1>4 DEF CollapseConcat
<1>6. /\ ref_' = ref_
      /\ calls' \in Seq(Nodes) /\ 2 \in DOMAIN calls' /\ calls'[2] = old
      /\ a \in Nodes /\ old \in Nodes /\ sub[n] = <<a, old>>
  <2>1. a \in Nodes /\ old \in Nodes
    BY <1>2
  <2>2. ref_' = ref_
    BY <1>1, <1>2, <1>5, <2>1, SMT DEF TypeOK
  <2>3. sub[n] = <<a, old>>
    BY <1>1, <1>3, <1>4, SMT DEF Children
  <2> QED
    BY <1>5, <2>1, <2>2, <2>3, SMT
<1>7. /\ sub'[old] = <<NULL, NULL>>
      /\ n # old => sub'[n] = sub[old]
      /\ \A m \in Nodes : m # n /\ m # old => sub'[m] = sub[m]
      /\ sub' \in [Nodes -> Children] /\ \A m \in Nodes : Len(sub'[m]) <= MaxSubs
  <2>1. /\ sub'[old] = <<NULL, NULL>>
        /\ n # old => sub'[n] = sub[old]
        /\ \A m \in Nodes : m # n /\ m # old => sub'[m] = sub[m]
    BY <1>3, <1>5, <1>6
  <2>2. <<NULL, NULL>> \in Children /\ Len(<<NULL, NULL>>) <= MaxSubs
    BY <1>1, <1>3, TakenOut
  <2>3. \A m \in Nodes : sub'[m] \in Children /\ Len(sub'[m]) <= MaxSubs
    BY <1>3, <1>6, <2>1, <2>2
  <2>4. sub' \in [Nodes -> Children]
    BY <1>3, <1>5, <1>6, <2>2
  <2> QED
    BY <2>1, <2>3, <2>4
<1>8. ASSUME NEW x \in Nodes
      PROVE  Cardinality(LiveWithout({}, x))' + held'[x] + Uses(calls, x)'
                 = Cardinality(LiveWithout({}, x)) + held[x]
  <2> DEFINE Now(P) == Cardinality(PlacesOf(allocated, sub, re, i, P, x))
             Then(P) == Cardinality(PlacesOf(allocated, sub', re, i, P, x))
             given == (IF a = x THEN 1 ELSE 0) + (IF old = x THEN 1 ELSE 0)
  <2>1. Cardinality(LiveWithout({}, x)) = Now({}) /\ Cardinality(LiveWithout({}, x))' = Then({})
    BY <1>1 DEF LiveWithout
  <2>2. Uses(sub[n], x) = given /\ Uses(calls, x)' = given
    BY <1>5, <1>6, UsesOfTwo
  <2>3. Uses(sub'[old], x) = 0 /\ Uses(sub[old], x) \in Nat
    BY <1>3, <1>6, <1>7, TakenOut, UsesFinite DEF Children
  <2>4. held[x] \in Nat /\ held'[x] = held[x]
    BY <1>1, <1>2 DEF TypeOK
  <2>5. \A P : Now(P) \in Nat /\ Then(P) \in Nat
    BY PlacesFinite
  <2>6. \A m \in allocated : \A P : m \notin P =>
            Now(P) = Now(P \cup {m}) + Uses(sub[m], x)
    BY <1>2, <1>3, PlacesSplit
  <2>7. \A m \in allocated : \A P : m \notin P =>
            Then(P) = Then(P \cup {m}) + Uses(sub'[m], x)
    BY <1>2, <1>7, PlacesSplit
  <2>8. CASE n = old
    <3>1. Now({n}) = Then({n})
      <4>1. PlacesOf(allocated, sub, re, i, {n}, x) = PlacesOf(allocated, sub', re, i, {n}, x)
        BY <1>7, <2>8 DEF PlacesOf
      <4> QED
        BY <4>1
    <3>2. {} \cup {n} = {n} /\ n \notin {}
      OBVIOUS
    <3> HIDE DEF Now, Then
    <3>3. Now({}) = Now({n}) + Uses(sub[n], x) /\ Then({}) = Then({n}) + Uses(sub'[n], x)
      BY <1>1, <2>6, <2>7, <3>2
    <3>4. Now({n}) \in Nat
      BY <2>5
    <3> QED
      BY <2>1, <2>2, <2>3, <2>4, <2>8, <3>1, <3>3, <3>4, SMT
  <2>9. CASE n # old
    <3>1. Now({n} \cup {old}) = Then({n} \cup {old})
      <4>1. PlacesOf(allocated, sub, re, i, {n} \cup {old}, x)
                = PlacesOf(allocated, sub', re, i, {n} \cup {old}, x)
        BY <1>7 DEF PlacesOf
      <4> QED
        BY <4>1
    <3>2. {} \cup {n} = {n} /\ n \notin {} /\ old \notin {n}
      BY <2>9
    <3> HIDE DEF Now, Then
    <3>3. /\ Now({}) = Now({n}) + Uses(sub[n], x)
          /\ Now({n}) = Now({n} \cup {old}) + Uses(sub[old], x)
          /\ Then({}) = Then({n}) + Uses(sub'[n], x)
          /\ Then({n}) = Then({n} \cup {old}) + Uses(sub'[old], x)
      BY <1>1, <2>6, <2>7, <3>2
    <3>4. Now({n} \cup {old}) \in Nat
      BY <2>5
    <3>5. sub'[n] = sub[old]
      BY <1>7, <2>9
    <3> QED
      BY <2>1, <2>2, <2>3, <2>4, <3>1, <3>3, <3>4, <3>5, SMT
  <2> QED
    BY <2>8, <2>9
<1>9. ASSUME NEW m \in allocated, NEW k \in DOMAIN sub'[m], sub'[m][k] = NULL
      PROVE  ref_[m] = 1 /\ \E c \in DOMAIN calls' : calls'[c] = m
  <2>1. m = old
    BY <1>2, <1>4, <1>6, <1>7, <1>9, RegexpAssumption
  <2> QED
    BY <1>5, <1>6, <2>1
<1> QED
  BY <1>1, <1>2, <1>6, <1>7, <1>8, <1>9, EditPreserves

LEMMA StepPreserves == IInv /\ [Next]_vars => IInv'
<1> SUFFICES ASSUME IInv, [Next]_vars PROVE IInv'
  OBVIOUS
<1>1. ASSUME NEW n \in Nodes, NEW s \in Sequences(allocated, MaxSubs), New(n, s)
      PROVE  IInv'
  BY <1>1, NewPreserves
<1>2. ASSUME NEW n \in Nodes, Incref(n) PROVE IInv'
  BY <1>2, IncrefPreserves
<1>3. ASSUME NEW n \in Nodes, Decref(n) PROVE IInv'
  BY <1>3, DecrefPreserves
<1>4. ASSUME NEW n \in Nodes, RemoveLeadingRegexp(n) PROVE IInv'
  BY <1>4, RemoveLeadingPreserves
<1>5. ASSUME NEW n \in Nodes, CollapseConcat(n) PROVE IInv'
  BY <1>5, CollapsePreserves
<1>6. CASE CallDecref
  BY <1>6, CallDecrefPreserves
<1>7. CASE Pop
  BY <1>7, PopPreserves
<1>8. CASE DropSub
  BY <1>8, DropSubPreserves
<1>9. CASE Delete
  BY <1>9, DeletePreserves
<1>10. CASE UNCHANGED vars
  BY <1>10 DEF vars, heap, walk, IInv, TypeOK, OverflowInMap, Counted, Count, Ref,
               LiveWithout, Waiting, Waits, TornGivenUp
<1> QED
  BY <1>1, <1>2, <1>3, <1>4, <1>5, <1>6, <1>7, <1>8, <1>9, <1>10 DEF Next

-----------------------------------------------------------------------------
(***************************************************************************)
(* What the invariant says of the counts and of the pointers.              *)
(***************************************************************************)

\* The invariant holds in every state a client of the counts can reach.
THEOREM SpecInvariant == Spec => []IInv
BY InitEstablishes, StepPreserves, PTL DEF Spec

\* Ref() is the number of the references that will still be given up, whether the 16 bits
\* hold it or the map does; and the map has an entry for the counts that
\* overflowed and for no other address (Incref, Decref and Destroy of regexp.cc).
THEOREM SpecRefsExact == Spec => []RefsExact
<1>1. IInv => RefsExact
  <2> SUFFICES ASSUME IInv, NEW n \in allocated PROVE Ref(n) = References(n)
    BY DEF RefsExact, IInv
  <2>1. n \in Nodes
    BY DEF IInv, TypeOK
  <2>2. Places(n) \ {p \in Places(n) : p[1] = re /\ p[2] < i} = LiveWithout({}, n)
    BY DEF Places, LiveWithout, PlacesOf
  <2>3. References(n) = Cardinality(LiveWithout({}, n)) + held[n] + Uses(calls, n)
    BY <2>2 DEF References
  <2> QED
    BY <2>1, <2>3, CountBounds DEF Count
<1> QED
  BY <1>1, SpecInvariant, PTL

\* Nobody keeps a pointer to a Regexp that was deleted: not a client, not a parent that
\* is not being destroyed, not the stack of Destroy.
THEOREM SpecNoDanglingSubs == Spec => []NoDanglingSubs
<1>1. IInv => NoDanglingSubs
  <2> SUFFICES ASSUME IInv PROVE NoDanglingSubs
    OBVIOUS
  <2>1. ASSUME NEW n \in Nodes, held[n] > 0 PROVE n \in allocated
    BY <2>1, CountBounds, SMT
  <2>2. ASSUME NEW n \in allocated \ {re}, NEW k \in DOMAIN sub[n]
        PROVE  sub[n][k] \in allocated \cup {NULL}
    BY ChildCounts
  <2>3. ASSUME NEW k \in DOMAIN stack PROVE stack[k] \in allocated
    <3>1. stack[k] \in Nodes
      BY LenProperties, SMT DEF IInv, TypeOK
    <3> QED
      BY <3>1 DEF IInv, Waiting, Waits
  <2> QED
    BY <2>1, <2>2, <2>3 DEF NoDanglingSubs
<1> QED
  BY <1>1, SpecInvariant, PTL

-----------------------------------------------------------------------------
(***************************************************************************)
(* Nothing leaks: what nobody refers to is being destroyed, and the        *)
(* children of a tree lead nowhere back to it.                             *)
(***************************************************************************)
Kept == \A x \in allocated : ref_[x] = 0 => Waits(x)

\* The younger a parent, the lower its rank.
RanksAt(rank, al, sb) ==
    \A m \in al : \A k \in DOMAIN sb[m] : sb[m][k] # NULL => rank[m] < rank[sb[m][k]]

Acyclic == \E rank \in [Nodes -> Nat] : RanksAt(rank, allocated, sub)

LEMMA KeptPreserves ==
    ASSUME IInv, Kept, [Next]_vars
    PROVE  Kept'
<1>1. /\ TypeOK /\ OverflowInMap /\ Waiting /\ allocated \subseteq Nodes
      /\ kMaxRef \in Nat /\ kMaxRef >= 2
  BY RegexpAssumption DEF IInv, TypeOK
<1>2. ASSUME NEW n \in Nodes, Count(n) >= 1, DropAndDestroy(n), sub' = sub, re' = re
      PROVE  Kept'
  <2>1. /\ \A x \in allocated' : x \in allocated /\ (x # n => ref_'[x] = ref_[x])
        /\ \A x \in Nodes : Waits(x) => Waits(x)'
        /\ n \in allocated' /\ ref_'[n] = 0 => Waits(n)'
    BY <1>1, <1>2, DestroyEffects
  <2> QED
    BY <1>1, <2>1 DEF Kept
<1>3. ASSUME NEW n \in Nodes, NEW s \in Sequences(allocated, MaxSubs), New(n, s)
      PROVE  Kept'
  <2>1. /\ allocated' = allocated \cup {n} /\ ref_' = [ref_ EXCEPT ![n] = 1]
        /\ stack' = stack /\ re' = re
    BY <1>3 DEF New, walk
  <2> QED
    BY <1>1, <2>1 DEF Kept, Waits, TypeOK
<1>4. ASSUME NEW n \in Nodes, Incref(n) PROVE Kept'
  <2>1. /\ n \in allocated /\ AddRef(n) /\ allocated' = allocated
        /\ stack' = stack /\ re' = re
    BY <1>4 DEF Incref, walk
  <2>2. /\ \A x \in Nodes : x # n => ref_'[x] = ref_[x]
        /\ ref_' \in [Nodes -> 0 .. kMaxRef] /\ Ref(n)' = Ref(n) + 1
    BY <1>1, <2>1, AddEffects
  <2>3. Ref(n) \in Nat
    BY <1>1, <2>1, SMT DEF Ref, TypeOK
  <2>4. ref_'[n] # 0
    BY <1>1, <2>1, <2>2, <2>3, SMT DEF Ref
  <2> QED
    BY <1>1, <2>1, <2>2, <2>4 DEF Kept, Waits
<1>5. ASSUME NEW n \in Nodes, Decref(n) PROVE Kept'
  <2>1. held[n] > 0 /\ DropAndDestroy(n) /\ sub' = sub /\ re' = re
    BY <1>5 DEF Decref
  <2>2. Count(n) >= 1
    BY <2>1, CountBounds, SMT
  <2> QED
    BY <1>2, <2>1, <2>2
<1>6. ASSUME NEW n \in Nodes, RemoveLeadingRegexp(n) PROVE Kept'
  BY <1>6 DEF RemoveLeadingRegexp, walk, Kept, Waits
<1>7. ASSUME NEW n \in Nodes, CollapseConcat(n) PROVE Kept'
  <2>1. /\ allocated' = allocated /\ stack' = stack /\ re' = re
        /\ ref_' = [ref_ EXCEPT ![n] = 1, ![sub[n][2]] = 1]
    BY <1>7 DEF CollapseConcat, walk
  <2>2. \A x \in allocated : ref_'[x] = 0 => ref_[x] = 0
    BY <1>1, <2>1, SMT DEF TypeOK
  <2> QED
    BY <2>1, <2>2 DEF Kept, Waits
<1>8. CASE CallDecref
  <2>0. calls \in Seq(Nodes) /\ calls # <<>>
    BY <1>1, <1>8 DEF CallDecref, TypeOK
  <2>1. PICK n \in Nodes : n = Head(calls)
    BY <2>0, HeadTailProperties
  <2>2. DropAndDestroy(n) /\ sub' = sub /\ re' = re
    BY <1>8, <2>1 DEF CallDecref
  <2>3. n = calls[1] /\ 1 \in DOMAIN calls
    BY <2>0, <2>1, LenProperties, EmptySeq, SMT
  <2>4. Uses(calls, n) >= 1
    BY <2>0, <2>3, UsesPositive
  <2> QED
    BY <1>2, <2>2, <2>4, CountBounds, SMT
<1>9. CASE Pop
  <2>1. /\ stack \in Seq(Nodes) /\ stack # <<>> /\ re = NULL
        /\ allocated' = allocated /\ ref_' = ref_
        /\ re' = Head(stack) /\ stack' = Tail(stack)
    BY <1>1, <1>9 DEF Pop, heap, TypeOK
  <2>2. \A k \in DOMAIN stack : k # 1 =>
            k - 1 \in DOMAIN Tail(stack) /\ Tail(stack)[k - 1] = stack[k]
    BY <2>1, HeadTailProperties, LenProperties, SMT
  <2>3. Head(stack) = stack[1]
    BY <2>1
  <2>4. ASSUME NEW x \in Nodes, Waits(x) PROVE Waits(x)'
    <3>1. PICK k \in DOMAIN stack : stack[k] = x
      BY <2>1, <2>4, RegexpAssumption DEF Waits
    <3> QED
      BY <2>1, <2>2, <2>3, <3>1 DEF Waits
  <2> QED
    BY <1>1, <2>1, <2>4 DEF Kept
<1>10. CASE DropSub
  <2>1. /\ re \in allocated /\ re' = re /\ i \in DOMAIN sub[re] /\ i \in Nat
    BY <1>1, <1>10 DEF DropSub, Waiting, Waits, TypeOK
  <2>2. CASE sub[re][i] = NULL
    BY <1>10, <2>1, <2>2 DEF DropSub, heap, Kept, Waits
  <2>3. CASE sub[re][i] # NULL
    <3>1. ~(re = re /\ i < i)
      BY <2>1, SMT
    <3>2. /\ sub[re][i] \in allocated
          /\ Cardinality(LiveWithout({}, sub[re][i])) >= 1
      BY <2>1, <2>3, <3>1, ChildCounts
    <3>3. PICK n \in Nodes : n = sub[re][i]
      BY <1>1, <3>2
    <3>4. Count(n) >= 1
      BY <3>2, <3>3, CountBounds, SMT
    <3>5. DropAndDestroy(n) /\ sub' = sub
      BY <1>10, <2>3, <3>3 DEF DropSub
    <3> QED
      BY <1>2, <2>1, <3>4, <3>5
  <2> QED
    BY <2>2, <2>3
<1>11. CASE Delete
  BY <1>11 DEF Delete, Kept, Waits
<1>12. CASE UNCHANGED vars
  BY <1>12 DEF vars, heap, walk, Kept, Waits
<1> QED
  BY <1>3, <1>4, <1>5, <1>6, <1>7, <1>8, <1>9, <1>10, <1>11, <1>12 DEF Next

LEMMA AcyclicPreserves ==
    ASSUME IInv, Acyclic, [Next]_vars
    PROVE  Acyclic'
<1>1. /\ TypeOK /\ allocated \subseteq Nodes /\ NULL \notin Nodes
      /\ \A m \in allocated : \A k \in DOMAIN sub[m] : sub[m][k] \in Nodes \cup {NULL}
  <2>1. /\ TypeOK /\ allocated \subseteq Nodes /\ NULL \notin Nodes
    BY RegexpAssumption DEF IInv, TypeOK
  <2>2. \A m \in allocated : sub[m] \in Seq(Nodes \cup {NULL})
    BY <2>1 DEF TypeOK, Children
  <2>3. ASSUME NEW m \in allocated, NEW k \in DOMAIN sub[m]
        PROVE  sub[m][k] \in Nodes \cup {NULL}
    BY <2>2, LenProperties, SMT
  <2> QED
    BY <2>1, <2>3
<1>2. PICK rank \in [Nodes -> Nat] : RanksAt(rank, allocated, sub)
  BY DEF Acyclic
<1>3. ASSUME RanksAt(rank, allocated', sub') PROVE Acyclic'
  BY <1>3 DEF Acyclic
<1>4. ASSUME allocated' \subseteq allocated, sub' = sub PROVE Acyclic'
  BY <1>2, <1>3, <1>4 DEF RanksAt
<1>5. ASSUME NEW n \in Nodes, NEW s \in Sequences(allocated, MaxSubs), New(n, s)
      PROVE  Acyclic'
  <2>1. /\ Idle /\ n \notin allocated /\ allocated' = allocated \cup {n}
        /\ sub' = [sub EXCEPT ![n] = s]
    BY <1>5 DEF New
  <2>2. \A m \in allocated : \A k \in DOMAIN sub[m] : sub[m][k] \in allocated
    BY <2>1, IdleFacts
  <2>3. \A k \in DOMAIN s : s[k] \in allocated
    BY DEF Sequences
  <2> DEFINE younger == [m \in Nodes |-> IF m = n THEN 0 ELSE rank[m] + 1]
  <2>4. younger \in [Nodes -> Nat] /\ younger[n] = 0
        /\ \A m \in allocated : younger[m] = rank[m] + 1
    BY <1>1, <1>2, <2>1, SMT
  <2> HIDE DEF younger
  <2>5. ASSUME NEW m \in allocated', NEW k \in DOMAIN sub'[m], sub'[m][k] # NULL
        PROVE  younger[m] < younger[sub'[m][k]]
    <3>1. CASE m = n
      <4>1. sub'[m] = s
        BY <1>1, <2>1, <3>1 DEF TypeOK
      <4>2. sub'[m][k] \in allocated
        BY <2>3, <2>5, <4>1
      <4> QED
        BY <1>1, <1>2, <2>4, <3>1, <4>2, SMT
    <3>2. CASE m # n
      <4>1. m \in allocated /\ sub'[m] = sub[m]
        BY <1>1, <2>1, <3>2 DEF TypeOK
      <4>2. sub[m][k] \in allocated /\ rank[m] < rank[sub[m][k]]
        BY <1>2, <2>2, <2>5, <4>1 DEF RanksAt
      <4>3. rank[m] \in Nat /\ rank[sub[m][k]] \in Nat
        BY <1>1, <1>2, <4>1, <4>2
      <4> QED
        BY <2>4, <4>1, <4>2, <4>3, SMT
    <3> QED
      BY <3>1, <3>2
  <2>6. RanksAt(younger, allocated', sub')
    BY <2>5 DEF RanksAt
  <2> QED
    BY <2>4, <2>6 DEF Acyclic
<1>6. ASSUME NEW n \in Nodes, Incref(n) PROVE Acyclic'
  BY <1>4, <1>6 DEF Incref
<1>7. ASSUME NEW n \in Nodes, Decref(n) PROVE Acyclic'
  BY <1>4, <1>7 DEF Decref, DropAndDestroy
<1>8. ASSUME NEW n \in Nodes, RemoveLeadingRegexp(n) PROVE Acyclic'
  <2>1. /\ Idle /\ Owns(n) /\ Len(sub[n]) >= 2 /\ allocated' = allocated
        /\ \/ sub' = [sub EXCEPT ![n] = <<NULL, NULL>>]
           \/ sub' = [sub EXCEPT ![n] = Tail(sub[n])]
    BY <1>8 DEF RemoveLeadingRegexp
  <2>2. sub[n] \in Seq(Nodes \cup {NULL}) /\ sub[n] # <<>>
    BY <1>1, <2>1, SMT DEF TypeOK, Children
  <2>3. \A k \in DOMAIN Tail(sub[n]) :
            k + 1 \in DOMAIN sub[n] /\ Tail(sub[n])[k] = sub[n][k + 1]
    BY <2>2, HeadTailProperties, LenProperties, SMT
  <2>4. \A k \in DOMAIN <<NULL, NULL>> : <<NULL, NULL>>[k] = NULL
    BY SMT
  <2>5. ASSUME NEW m \in allocated', NEW k \in DOMAIN sub'[m], sub'[m][k] # NULL
        PROVE  rank[m] < rank[sub'[m][k]]
    <3>1. CASE m = n
      <4>1. sub'[n] = <<NULL, NULL>> \/ sub'[n] = Tail(sub[n])
        BY <1>1, <2>1 DEF TypeOK
      <4>2. sub'[n] = Tail(sub[n])
        BY <2>4, <2>5, <3>1, <4>1
      <4>3. k + 1 \in DOMAIN sub[n] /\ sub'[n][k] = sub[n][k + 1] /\ n \in allocated
        BY <2>1, <2>3, <3>1, <4>2
      <4> QED
        BY <1>2, <2>5, <3>1, <4>3 DEF RanksAt
    <3>2. CASE m # n
      BY <1>1, <1>2, <2>1, <2>5, <3>2 DEF RanksAt, TypeOK
    <3> QED
      BY <3>1, <3>2
  <2> QED
    BY <1>3, <2>5 DEF RanksAt
<1>9. ASSUME NEW n \in Nodes, CollapseConcat(n) PROVE Acyclic'
  <2>1. /\ Idle /\ n \in allocated /\ Len(sub[n]) = 2 /\ allocated' = allocated
        /\ sub' = [sub EXCEPT ![n] = sub[sub[n][2]], ![sub[n][2]] = <<NULL, NULL>>]
    BY <1>9 DEF CollapseConcat
  <2>2. /\ \A m \in allocated : \A k \in DOMAIN sub[m] : sub[m][k] \in allocated
        /\ 2 \in DOMAIN sub[n]
    <3>1. sub[n] \in Seq(Nodes \cup {NULL})
      BY <1>1, <2>1 DEF TypeOK, Children
    <3> QED
      BY <2>1, <3>1, IdleFacts, LenProperties, SMT
  <2>3. PICK old \in allocated : old = sub[n][2]
    BY <2>1, <2>2
  <2>4. rank[n] < rank[old]
    BY <1>1, <1>2, <2>1, <2>2, <2>3 DEF RanksAt
  <2>5. \A k \in DOMAIN <<NULL, NULL>> : <<NULL, NULL>>[k] = NULL
    BY SMT
  <2>6. ASSUME NEW m \in allocated', NEW k \in DOMAIN sub'[m], sub'[m][k] # NULL
        PROVE  rank[m] < rank[sub'[m][k]]
    <3>1. m # old
      <4>1. m = old => sub'[m] = <<NULL, NULL>>
        BY <1>1, <2>1, <2>3 DEF TypeOK
      <4> QED
        BY <2>5, <2>6, <4>1
    <3>2. CASE m = n
      <4>1. sub'[m] = sub[old]
        BY <1>1, <2>1, <2>3, <3>1, <3>2 DEF TypeOK
      <4>2. sub[old][k] \in allocated /\ rank[old] < rank[sub[old][k]]
        BY <1>2, <2>2, <2>6, <4>1 DEF RanksAt
      <4>3. rank[n] \in Nat /\ rank[old] \in Nat /\ rank[sub[old][k]] \in Nat
        BY <1>1, <1>2, <4>2
      <4> QED
        BY <2>4, <3>2, <4>1, <4>2, <4>3, SMT
    <3>3. CASE m # n
      BY <1>1, <1>2, <2>1, <2>3, <2>6, <3>1, <3>3 DEF RanksAt, TypeOK
    <3> QED
      BY <3>2, <3>3
  <2> QED
    BY <1>3, <2>6 DEF RanksAt
<1>10. CASE CallDecref
  BY <1>4, <1>10 DEF CallDecref, DropAndDestroy
<1>11. CASE Pop
  BY <1>4, <1>11 DEF Pop, heap
<1>12. CASE DropSub
  BY <1>4, <1>12 DEF DropSub, DropAndDestroy, heap
<1>13. CASE Delete
  <2>1. allocated' = allocated \ {re} /\ sub' = [sub EXCEPT ![re] = <<>>]
    BY <1>13 DEF Delete
  <2> QED
    BY <1>1, <1>2, <1>3, <2>1 DEF RanksAt, TypeOK
<1>14. CASE UNCHANGED vars
  BY <1>4, <1>14 DEF vars, heap
<1> QED
  BY <1>5, <1>6, <1>7, <1>8, <1>9, <1>10, <1>11, <1>12, <1>13, <1>14 DEF Next

\* Of some addresses there is one of the lowest rank.
LEMMA LowestRank ==
    ASSUME NEW rank \in [Nodes -> Nat], NEW S \in SUBSET Nodes, S # {}
    PROVE  \E n \in S : \A m \in S : ~(rank[m] < rank[n])
<1> DEFINE T == {rank[m] : m \in S}
           R == OpToRel(<, Nat)
<1>1. T \subseteq Nat /\ T # {}
  OBVIOUS
<1>2. \E x \in T : \A y \in T : ~(<<y, x>> \in R)
  <2> HIDE DEF T, R
  <2>1. IsWellFoundedOn(R, Nat)
    BY NatLessThanWellFounded DEF R
  <2> QED
    BY <1>1, <2>1, WFMin
<1>3. \A x, y \in Nat : <<y, x>> \in R <=> y < x
  BY DEF OpToRel
<1> HIDE DEF R
<1> QED
  BY <1>1, <1>2, <1>3

LEMMA InitOrdered == Init => Kept /\ Acyclic
<1> SUFFICES ASSUME Init PROVE Kept /\ Acyclic
  OBVIOUS
<1>1. [n \in Nodes |-> 0] \in [Nodes -> Nat]
  BY SMT
<1> QED
  BY <1>1 DEF Init, Kept, Acyclic, RanksAt

\* When the operations are over every Regexp that is left can be reached from a
\* pointer of a client: no tree is forgotten, whatever was shared, edited in place
\* or destroyed in whatever order.
THEOREM SpecNothingLeaks == Spec => []NothingLeaks
<1>1. IInv /\ Kept /\ Acyclic /\ [Next]_vars => (Kept /\ Acyclic)'
  BY KeptPreserves, AcyclicPreserves
<1>2. IInv /\ Kept /\ Acyclic => NothingLeaks
  <2> SUFFICES ASSUME IInv, Kept, Acyclic, Idle,
                      NEW S \in SUBSET allocated, S # {}
               PROVE  \E n \in S : held[n] > 0 \/ \E p \in Places(n) : p[1] \notin S
    BY DEF NothingLeaks
  <2>1. /\ TypeOK /\ S \in SUBSET Nodes
        /\ \A x \in Nodes : ~Waits(x) /\ Uses(calls, x) = 0
        /\ re \notin Nodes
    BY IdleFacts, RegexpAssumption DEF IInv, TypeOK
  <2>2. PICK rank \in [Nodes -> Nat] : RanksAt(rank, allocated, sub)
    BY DEF Acyclic
  <2>3. PICK n \in S : \A m \in S : ~(rank[m] < rank[n])
    BY <2>1, LowestRank
  <2>4. Count(n) >= 1 /\ n \in Nodes
    <3>1. n \in allocated /\ n \in Nodes /\ ref_[n] # 0
      BY <2>1 DEF Kept
    <3>2. /\ ref_[n] \in 0 .. kMaxRef /\ ref_map[n] \in Nat
          /\ ref_[n] = kMaxRef => ref_map[n] >= kMaxRef
      BY <2>1, <3>1 DEF TypeOK, IInv, OverflowInMap
    <3>3. Ref(n) >= 1
      BY <3>1, <3>2, RegexpAssumption, SMT DEF Ref
    <3> QED
      BY <3>1, <3>3 DEF Count
  <2>5. CASE held[n] > 0
    BY <2>5
  <2>6. CASE ~(held[n] > 0)
    <3>1. Cardinality(LiveWithout({}, n)) # 0
      BY <2>1, <2>4, <2>6, CountBounds, SMT
    <3>2. LiveWithout({}, n) # {}
      BY <3>1, FS_EmptySet
    <3>3. PICK p \in LiveWithout({}, n) : TRUE
      BY <3>2
    <3>4. p \in Places(n) /\ p[1] \in allocated /\ p[2] \in DOMAIN sub[p[1]] /\ sub[p[1]][p[2]] = n
      BY DEF LiveWithout, PlacesOf, Places
    <3>5. rank[p[1]] < rank[n]
      BY <2>2, <2>4, <3>4, RegexpAssumption DEF RanksAt
    <3> QED
      BY <2>3, <3>4, <3>5
  <2> QED
    BY <2>5, <2>6
<1> QED
  BY <1>1, <1>2, InitOrdered, SpecInvariant, PTL DEF Spec

=============================================================================
