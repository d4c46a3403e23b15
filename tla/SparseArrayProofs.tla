------------------------- MODULE SparseArrayProofs -------------------------
(***************************************************************************)
(* SparseArray is right at every capacity, with every set of values and    *)
(* whatever its memory held before: its type invariant, the agreement of   *)
(* its two arrays, the room it always has, and that it is the map with an  *)
(* order that SparseMap describes.                                         *)
(***************************************************************************)
EXTENDS SparseArray, FiniteSetTheorems, TLAPS

\* Agree is inductive together with the types; nothing has to be added.
IInv == TypeOK /\ Agree

-----------------------------------------------------------------------------
(***************************************************************************)
(* What has_index finds, and how much room there is.                       *)
(***************************************************************************)

\* has_index, which asks two arrays of garbage, is right.
LEMMA HasIndexIsPresent ==
    ASSUME IInv, NEW i \in 0 .. capacity - 1
    PROVE  has_index(i) <=> i \in Present
BY SMT DEF IInv, TypeOK, Agree, has_index, Present

\* As many entries as there are indices would be all of them: the positions
\* would map one to one to the indices other than i, which are fewer.
LEMMA NewIndexFindsRoom ==
    ASSUME IInv, NEW i \in 0 .. capacity - 1, ~has_index(i)
    PROVE  size_ < capacity
<1>1. capacity \in Nat /\ size_ \in 0 .. capacity
  BY SMT, SparseAssumption DEF IInv, TypeOK
<1>2. SUFFICES ASSUME size_ = capacity PROVE FALSE
  BY SMT, <1>1
<1> DEFINE positions == 0 .. capacity - 1
           others == positions \ {i}
           index == [k \in positions |-> dense_[k].index_]
<1>3. IsFiniteSet(positions) /\ Cardinality(positions) = capacity
  BY FS_Interval, <1>1, SMT
<1>4. IsFiniteSet(others) /\ Cardinality(others) = capacity - 1
  <2>1. i \in positions
    OBVIOUS
  <2> HIDE DEF positions
  <2> QED
    BY FS_RemoveElement, <1>3, <2>1
<1>5. index \in [positions -> others]
  <2>1. ASSUME NEW k \in positions
        PROVE  dense_[k].index_ \in positions /\ dense_[k].index_ # i
    BY SMT, <1>1, <1>2, HasIndexIsPresent DEF IInv, Agree, Present
  <2> QED
    BY <2>1
<1>6. PICK j, k \in positions : j # k /\ index[j] = index[k]
  <2>1. Cardinality(positions) > Cardinality(others)
    BY SMT, <1>1, <1>3, <1>4
  <2> HIDE DEF positions, others, index
  <2> QED
    BY <1>3, <1>4, <1>5, <2>1, FS_PigeonHole
<1>7. sparse_[index[j]] = j /\ sparse_[index[k]] = k
  BY SMT, <1>1, <1>2 DEF IInv, Agree
<1> QED
  BY <1>6, <1>7

-----------------------------------------------------------------------------
(***************************************************************************)
(* The invariant, action by action.                                        *)
(***************************************************************************)

LEMMA InitEstablishes == Init => IInv
<1> SUFFICES ASSUME Init PROVE IInv
  OBVIOUS
<1>1. sparse_ \in [0 .. capacity - 1 -> Int]
  BY SparseAssumption DEF Init
<1>2. dense_ \in [0 .. capacity - 1 -> [index_ : Int, value_ : Values]]
  <2>1. Uninitialized \subseteq [index_ : Int, value_ : Values]
    BY SparseAssumption DEF Uninitialized
  <2> QED
    BY <2>1 DEF Init
<1> QED
  BY SMT, <1>1, <1>2, SparseAssumption DEF Init, IInv, TypeOK, Agree

LEMMA SetPreserves ==
    ASSUME IInv, NEW i, NEW v \in Values, Set(i, v)
    PROVE  IInv'
<1> USE SparseAssumption
<1>1. i \in 0 .. capacity - 1 /\ capacity' = capacity /\ visited' = visited
  BY DEF Set
<1>2. CASE has_index(i)
  <2>1. set_existing(i, v)
    BY <1>2 DEF Set
  <2>2. sparse_[i] \in 0 .. size_ - 1
    BY <1>2 DEF has_index
  <2> DEFINE Entry == [index_ : Int, value_ : Values]
             at == sparse_[i]
  <2>3. TypeOK'
    <3>1. at \in 0 .. capacity - 1 /\ dense_ \in [0 .. capacity - 1 -> Entry]
      BY SMT, <2>2 DEF IInv, TypeOK
    <3>2. [dense_[at] EXCEPT !.value_ = v] \in Entry
      BY <3>1
    <3>3. dense_' = [dense_ EXCEPT ![at] = [dense_[at] EXCEPT !.value_ = v]]
      BY <2>1 DEF set_existing
    <3>4. dense_' \in [0 .. capacity - 1 -> Entry]
      <4> HIDE DEF Entry, at
      <4> QED
        BY <3>1, <3>2, <3>3
    <3> QED
      BY <1>1, <2>1, <3>4 DEF IInv, TypeOK, set_existing
  <2>4. \A k \in 0 .. size_ - 1 : dense_'[k].index_ = dense_[k].index_
    BY SMT, <2>1, <2>2 DEF IInv, TypeOK, set_existing
  <2>5. Agree'
    BY SMT, <1>1, <2>1, <2>4 DEF IInv, TypeOK, Agree, set_existing
  <2> QED
    BY <2>3, <2>5 DEF IInv
<1>3. CASE ~has_index(i)
  <2>1. create_index(i, v)
    BY <1>3 DEF Set
  <2>2. size_ < capacity
    BY <1>1, <1>3, NewIndexFindsRoom
  <2>3. TypeOK'
    BY SMT, <1>1, <2>1, <2>2 DEF IInv, TypeOK, create_index
  <2>4. ASSUME NEW k \in 0 .. size_ - 1
        PROVE  dense_[k].index_ # i
    BY SMT, <1>1, <1>3, <2>4, HasIndexIsPresent DEF Present
  <2>5. Agree'
    BY SMT, <1>1, <2>1, <2>2, <2>4 DEF IInv, TypeOK, Agree, create_index
  <2> QED
    BY <2>3, <2>5 DEF IInv
<1> QED
  BY <1>2, <1>3

LEMMA ResizePreserves ==
    ASSUME IInv, NEW m \in 0 .. MaxCapacity, resize(m)
    PROVE  IInv'
<1> USE SparseAssumption
<1>1. CASE m > capacity
  <2>1. PICK g \in [capacity .. m - 1 -> Garbage],
             h \in [capacity .. m - 1 -> Uninitialized] :
             /\ sparse_' = [k \in 0 .. m - 1 |->
                               IF k < capacity THEN sparse_[k] ELSE g[k]]
             /\ dense_' = [k \in 0 .. m - 1 |->
                               IF k < capacity THEN dense_[k] ELSE h[k]]
    BY <1>1 DEF resize
  <2>2. capacity' = m /\ size_' = size_ /\ visited' = 0
    BY SMT, <1>1 DEF resize, IInv, TypeOK
  <2>3. ASSUME NEW k \in capacity .. m - 1
        PROVE  g[k] \in Int /\ h[k] \in [index_ : Int, value_ : Values]
    <3>1. g[k] \in Garbage /\ h[k] \in Uninitialized
      BY <2>1
    <3> QED
      BY <3>1 DEF Uninitialized
  <2> DEFINE Entry == [index_ : Int, value_ : Values]
  <2>4. TypeOK'
    <3>1. \A k \in 0 .. capacity - 1 : sparse_[k] \in Int /\ dense_[k] \in Entry
      BY DEF IInv, TypeOK
    <3>2. sparse_' \in [0 .. m - 1 -> Int]
      BY SMT, <1>1, <2>1, <2>3, <3>1 DEF IInv, TypeOK
    <3>3. dense_' \in [0 .. m - 1 -> Entry]
      <4> HIDE DEF Entry
      <4>1. \A k \in capacity .. m - 1 : h[k] \in Entry
        BY <2>3 DEF Entry
      <4> QED
        BY SMT, <1>1, <2>1, <4>1, <3>1 DEF IInv, TypeOK
    <3> QED
      BY SMT, <1>1, <2>2, <3>2, <3>3 DEF IInv, TypeOK
  <2>5. \A k \in 0 .. capacity - 1 : dense_'[k] = dense_[k] /\ sparse_'[k] = sparse_[k]
    BY SMT, <1>1, <2>1 DEF IInv, TypeOK
  <2>6. Agree'
    <3>1. capacity \in Nat /\ size_ \in 0 .. capacity /\ m \in Nat
      BY SMT DEF IInv, TypeOK
    <3>2. SUFFICES ASSUME NEW k \in 0 .. size_ - 1
                   PROVE  /\ dense_'[k].index_ \in 0 .. m - 1
                          /\ sparse_'[dense_'[k].index_] = k
      BY <2>2 DEF Agree
    <3>3. k \in 0 .. capacity - 1
      BY SMT, <3>1
    <3>4. dense_[k].index_ \in 0 .. capacity - 1 /\ sparse_[dense_[k].index_] = k
      BY DEF IInv, Agree
    <3> QED
      BY SMT, <1>1, <2>5, <3>1, <3>3, <3>4
  <2> QED
    BY <2>4, <2>6 DEF IInv
<1>2. CASE ~(m > capacity)
  BY SMT, <1>2 DEF resize, IInv, TypeOK, Agree
<1> QED
  BY <1>1, <1>2

LEMMA StepPreserves == IInv /\ [Next]_vars => IInv'
<1> SUFFICES ASSUME IInv, [Next]_vars PROVE IInv'
  OBVIOUS
<1>1. ASSUME NEW i, Lookup(i) PROVE IInv'
  BY <1>1 DEF Lookup, IInv, TypeOK, Agree
<1>2. CASE clear
  BY SMT, <1>2, SparseAssumption DEF clear, IInv, TypeOK, Agree
<1>3. CASE Visit
  BY SMT, <1>3 DEF Visit, IInv, TypeOK, Agree
<1>4. CASE UNCHANGED vars
  BY <1>4 DEF vars, IInv, TypeOK, Agree
<1> QED
  BY <1>1, <1>2, <1>3, <1>4, SetPreserves, ResizePreserves DEF Next

LEMMA Invariance == Spec => []IInv
BY InitEstablishes, StepPreserves, PTL DEF Spec

-----------------------------------------------------------------------------
(***************************************************************************)
(* What follows of every reachable state.                                  *)
(***************************************************************************)

\* SparseArray: the sizes and the arrays keep their shape.
THEOREM SpecTypeOK == Spec => []TypeOK
<1>1. IInv => TypeOK
  BY DEF IInv
<1> QED
  BY Invariance, <1>1, PTL

\* SparseArray: dense_[sparse_[i]].index_ == i for every index in use.
THEOREM SpecAgree == Spec => []Agree
<1>1. IInv => Agree
  BY DEF IInv
<1> QED
  BY Invariance, <1>1, PTL

\* create_index: "assert(size_ < max_size())" can never fail.
THEOREM SpecRoomForNew == Spec => []RoomForNew
<1>1. IInv => RoomForNew
  BY NewIndexFindsRoom DEF RoomForNew
<1> QED
  BY Invariance, <1>1, PTL

-----------------------------------------------------------------------------
(***************************************************************************)
(* The refinement.  The abstract map is read off the entries in use; what  *)
(* is to be shown of each operation is that it leaves them as the map's    *)
(* operation does.                                                         *)
(***************************************************************************)

LEMMA OrderDomain == DOMAIN Order = 0 .. size_ - 1 /\ DOMAIN Value = Present
BY DEF Order, Value

\* An index that is present has the entry sparse_ says, and no other.
LEMMA EntryOf ==
    ASSUME IInv, NEW i \in Present
    PROVE  /\ i \in 0 .. capacity - 1
           /\ sparse_[i] \in 0 .. size_ - 1
           /\ dense_[sparse_[i]].index_ = i
           /\ Value[i] = dense_[sparse_[i]].value_
<1>1. PICK k \in 0 .. size_ - 1 : i = dense_[k].index_
  BY DEF Present
<1>2. sparse_[i] = k /\ i \in 0 .. capacity - 1
  BY <1>1 DEF IInv, Agree
<1> QED
  BY <1>1, <1>2 DEF Value

LEMMA InitMaps == Init => Map!Init
<1> SUFFICES ASSUME Init PROVE Map!Init
  OBVIOUS
<1>1. 0 .. size_ - 1 = {}
  BY SMT DEF Init
<1>2. Present = {}
  BY <1>1 DEF Present
<1>3. Order = [k \in {} |-> 0]
  BY <1>1 DEF Order
<1>4. Value = [i \in {} |-> NoValue]
  BY <1>2 DEF Value
<1> QED
  BY <1>3, <1>4 DEF Init, Map!Init

LEMMA LookupMaps ==
    ASSUME IInv, NEW i, Lookup(i)
    PROVE  Map!Lookup(i)
<1>1. i \in 0 .. capacity - 1
  BY DEF Lookup
<1>2. has_index(i) <=> Map!Has(i)
  BY <1>1, HasIndexIsPresent, OrderDomain DEF Map!Has
<1>3. has_index(i) => Value[i] = dense_[sparse_[i]].value_
  BY <1>1, HasIndexIsPresent, EntryOf
<1>4. Order' = Order /\ Value' = Value
  BY DEF Lookup, Order, Value, Present
<1> QED
  BY <1>1, <1>2, <1>3, <1>4 DEF Lookup, Map!Lookup

LEMMA SetExistingMaps ==
    ASSUME IInv, NEW i, NEW v \in Values, Set(i, v), has_index(i)
    PROVE  Map!Set(i, v)
<1>1. i \in 0 .. capacity - 1 /\ set_existing(i, v)
  BY DEF Set
<1>2. i \in Present
  BY <1>1, HasIndexIsPresent
<1>3. \A k \in 0 .. size_ - 1 :
          /\ dense_'[k].index_ = dense_[k].index_
          /\ dense_'[k].value_ = IF k = sparse_[i] THEN v ELSE dense_[k].value_
  <2>1. sparse_[i] \in 0 .. size_ - 1
    BY <1>2, EntryOf
  <2> QED
    BY SMT, <1>1, <2>1 DEF IInv, TypeOK, set_existing
<1>4. Order' = Order
  BY <1>1, <1>3 DEF Order, set_existing
<1>5. Present' = Present
  BY <1>1, <1>3 DEF Present, set_existing
<1>6. Value' = [j \in DOMAIN Value \cup {i} |-> IF j = i THEN v ELSE Value[j]]
  <2>1. ASSUME NEW j \in Present
        PROVE  dense_'[sparse_'[j]].value_ = IF j = i THEN v ELSE Value[j]
    <3>1. sparse_[j] = sparse_[i] => j = i
      BY <1>2, EntryOf
    <3>2. sparse_[j] \in 0 .. size_ - 1 /\ Value[j] = dense_[sparse_[j]].value_
      BY EntryOf
    <3> QED
      BY <1>1, <1>3, <3>1, <3>2 DEF set_existing
  <2>2. DOMAIN Value \cup {i} = Present
    BY <1>2, OrderDomain
  <2>3. Value' = [j \in Present |-> dense_'[sparse_'[j]].value_]
    BY <1>5 DEF Value
  <2> QED
    BY <2>1, <2>2, <2>3
<1> QED
  BY <1>2, <1>4, <1>6, OrderDomain DEF Set, Map!Set, Map!Has

LEMMA SetNewMaps ==
    ASSUME IInv, NEW i, NEW v \in Values, Set(i, v), ~has_index(i)
    PROVE  Map!Set(i, v)
<1>1. i \in 0 .. capacity - 1 /\ create_index(i, v)
  BY DEF Set
<1>2. i \notin Present /\ size_ \in 0 .. capacity - 1
  BY SMT, <1>1, HasIndexIsPresent, NewIndexFindsRoom DEF IInv, TypeOK
<1>3. /\ size_' = size_ + 1
      /\ sparse_'[i] = size_
      /\ dense_'[size_] = [index_ |-> i, value_ |-> v]
  BY <1>1, <1>2 DEF IInv, TypeOK, create_index
<1>4. \A k \in 0 .. size_ - 1 : dense_'[k] = dense_[k]
  BY SMT, <1>1, <1>2 DEF IInv, TypeOK, create_index
<1>5. \A j \in 0 .. capacity - 1 : j # i => sparse_'[j] = sparse_[j]
  BY <1>1 DEF IInv, TypeOK, create_index
<1>6. (0 .. size_ - 1)' = (0 .. size_ - 1) \cup {size_} /\ size_ \notin 0 .. size_ - 1
  BY SMT, <1>2, <1>3
<1>7. Order' = [k \in 0 .. size_ |-> IF k = size_ THEN i ELSE Order[k]]
  <2>1. (0 .. size_ - 1)' = 0 .. size_
    BY SMT, <1>2, <1>3
  <2>2. ASSUME NEW k \in 0 .. size_
        PROVE  dense_'[k].index_ = IF k = size_ THEN i ELSE Order[k]
    BY <1>3, <1>4, <1>6, <2>1 DEF Order
  <2> QED
    BY <2>1, <2>2 DEF Order
<1>8. Present' = Present \cup {i}
  BY <1>3, <1>4, <1>6 DEF Present
<1>9. Value' = [j \in DOMAIN Value \cup {i} |-> IF j = i THEN v ELSE Value[j]]
  <2>1. ASSUME NEW j \in Present \cup {i}
        PROVE  dense_'[sparse_'[j]].value_ = IF j = i THEN v ELSE Value[j]
    <3>1. CASE j = i
      BY <1>3, <3>1
    <3>2. CASE j # i
      BY <1>4, <1>5, <3>2, EntryOf
    <3> QED
      BY <3>1, <3>2
  <2> QED
    BY <1>8, <2>1, OrderDomain DEF Value
<1> QED
  BY <1>1, <1>2, <1>7, <1>9, OrderDomain DEF Set, Map!Set, Map!Has

\* clear and resize keep a prefix of the entries, and what sparse_ says of it.
LEMMA PrefixMaps ==
    ASSUME IInv, NEW n \in Nat, size_' = (IF size_ > n THEN n ELSE size_),
           visited' = 0,
           \A k \in 0 .. capacity - 1 :
               dense_'[k] = dense_[k] /\ sparse_'[k] = sparse_[k]
    PROVE  Map!Truncate(n)
<1> DEFINE kept == DOMAIN Order \cap (0 .. n - 1)
<1>1. (0 .. size_ - 1)' = kept /\ kept \subseteq 0 .. size_ - 1
  BY SMT, OrderDomain DEF IInv, TypeOK
<1>2. \A k \in kept : k \in 0 .. capacity - 1 /\ dense_'[k].index_ = Order[k]
  BY SMT, <1>1 DEF IInv, TypeOK, Order
<1> HIDE DEF kept
<1>3. Order' = [k \in kept |-> Order[k]]
  BY <1>1, <1>2 DEF Order
<1>4. Present' = {Order[k] : k \in kept}
  BY <1>1, <1>2 DEF Present
<1>5. \A i \in Present' : i \in Present
  BY <1>1, <1>4 DEF Order, Present
<1>6. ASSUME NEW i \in Present'
      PROVE  dense_'[sparse_'[i]].value_ = Value[i]
  <2>1. /\ i \in 0 .. capacity - 1
        /\ sparse_[i] \in 0 .. size_ - 1
        /\ Value[i] = dense_[sparse_[i]].value_
    BY <1>5, <1>6, EntryOf
  <2>2. sparse_[i] \in 0 .. capacity - 1
    BY SMT, <2>1 DEF IInv, TypeOK
  <2> QED
    BY <2>1, <2>2
<1>7. Value' = [i \in Present' |-> Value[i]]
  BY <1>6 DEF Value
<1> QED
  BY <1>3, <1>4, <1>7 DEF Map!Truncate, kept

LEMMA ClearMaps == ASSUME IInv, clear PROVE Map!Clear
<1>1. size_' = (IF size_ > 0 THEN 0 ELSE size_)
  BY SMT DEF clear, IInv, TypeOK
<1>2. Map!Truncate(0)
  BY <1>1, PrefixMaps DEF clear
<1> QED
  BY <1>2 DEF clear, Map!Clear

LEMMA ResizeMaps ==
    ASSUME IInv, NEW m \in 0 .. MaxCapacity, resize(m)
    PROVE  Map!Resize(m)
<1>1. \A k \in 0 .. capacity - 1 :
          dense_'[k] = dense_[k] /\ sparse_'[k] = sparse_[k]
  BY SMT, SparseAssumption DEF resize, IInv, TypeOK
<1>2. m \in Nat
  BY SMT, SparseAssumption
<1>3. Map!Truncate(m)
  BY <1>1, <1>2, PrefixMaps DEF resize
<1> QED
  BY <1>3 DEF resize, Map!Resize

LEMMA VisitMaps == ASSUME IInv, Visit PROVE Map!Visit
<1>1. visited \in 0 .. size_ - 1
  BY SMT DEF Visit, IInv, TypeOK
<1>2. Order' = Order /\ Value' = Value
  BY DEF Visit, Order, Value, Present
<1>3. answer' = <<"visit", Order[visited]>>
  BY <1>1 DEF Visit, Order
<1> QED
  BY <1>1, <1>2, <1>3, OrderDomain DEF Visit, Map!Visit

LEMMA StepMaps == IInv /\ [Next]_vars => [Map!Next]_(Map!vars)
<1> SUFFICES ASSUME IInv, [Next]_vars PROVE [Map!Next]_(Map!vars)
  OBVIOUS
<1>1. CASE UNCHANGED vars
  BY <1>1 DEF vars, Map!vars, Order, Value, Present
<1>2. CASE Next
  <2>1. ASSUME NEW i \in 0 .. MaxCapacity - 1, NEW v \in Values, Set(i, v)
        PROVE  Map!Set(i, v)
    BY <2>1, SetExistingMaps, SetNewMaps
  <2> QED
    BY <1>2, <2>1, LookupMaps, ClearMaps, ResizeMaps, VisitMaps
    DEF Next, Map!Next
<1> QED
  BY <1>1, <1>2

\* SparseArray is a map with an order: whatever is in its memory to begin
\* with, every behaviour of the two arrays is one of SparseMap's.
THEOREM SpecImplementsMap == Spec => ImplementsMap
BY InitMaps, StepMaps, Invariance, PTL DEF Spec, ImplementsMap, Map!Spec

=============================================================================
