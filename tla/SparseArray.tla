---------------------------- MODULE SparseArray ----------------------------
(***************************************************************************)
(* SparseArray (re2/sparse_array.h): two arrays that are never             *)
(* initialised.  dense_ holds the entries in the order they were created,  *)
(* sparse_ says where in dense_ the entry of an index is; an index is in   *)
(* the map if the two agree, whatever either holds besides.  SparseSet     *)
(* (re2/sparse_set.h) is the same without the values.                      *)
(*                                                                         *)
(* The work queues of the DFA, of the NFA and of the program's             *)
(* optimisations are made of these, and grow while they are walked.        *)
(***************************************************************************)
EXTENDS Integers, FiniteSets

CONSTANTS
    MaxCapacity,    \* the largest array considered
    Values,
    NoValue,        \* what an index without a value has
    Garbage         \* what an int can hold before it is initialised

ASSUME SparseAssumption ==
    /\ MaxCapacity \in Nat
    /\ Garbage \subseteq Int
    /\ NoValue \notin Values

VARIABLES
    capacity,       \* max_size(), the length of sparse_ and dense_
    size_,          \* the entries in use
    sparse_, dense_,
    visited,        \* the iterator, as a position in dense_
    answer          \* the last operation and what it returned

vars == <<capacity, size_, sparse_, dense_, visited, answer>>

Uninitialized == [index_ : Garbage, value_ : Values]

\* Mistake: dense_ is not asked whether sparse_ is right.
HasIndexUnchecked(i) == sparse_[i] \in 0 .. size_ - 1

has_index(i) ==
    /\ sparse_[i] \in 0 .. size_ - 1
    /\ dense_[sparse_[i]].index_ = i

Init ==
    /\ capacity \in 0 .. MaxCapacity
    /\ sparse_ \in [0 .. capacity - 1 -> Garbage]
    /\ dense_ \in [0 .. capacity - 1 -> Uninitialized]
    /\ size_ = 0
    /\ visited = 0
    /\ answer = <<>>

\* Mistake: the entry is where the last one was.
CreateIndexAtLast(i, v) ==
    LET last == IF size_ = 0 THEN 0 ELSE size_ - 1 IN
    /\ sparse_' = [sparse_ EXCEPT ![i] = last]
    /\ dense_' = [dense_ EXCEPT ![last] = [index_ |-> i, value_ |-> v]]
    /\ size_' = size_ + 1

\* create_index, and the value SetExistingInternal stores in the new entry.
create_index(i, v) ==
    /\ sparse_' = [sparse_ EXCEPT ![i] = size_]
    /\ dense_' = [dense_ EXCEPT ![size_] = [index_ |-> i, value_ |-> v]]
    /\ size_' = size_ + 1

set_existing(i, v) ==
    /\ dense_' = [dense_ EXCEPT ![sparse_[i]].value_ = v]
    /\ UNCHANGED <<size_, sparse_>>

\* SetInternal(true, i, v); set_new and set_existing are its two cases, which
\* their callers must know to apply.
Set(i, v) ==
    /\ i \in 0 .. capacity - 1
    /\ IF has_index(i) THEN set_existing(i, v) ELSE create_index(i, v)
    /\ answer' = <<"set", i, v>>
    /\ UNCHANGED <<capacity, visited>>

\* has_index(i) ? get_existing(i) : nothing.
Lookup(i) ==
    /\ i \in 0 .. capacity - 1
    /\ answer' = <<"get", i,
                   IF has_index(i) THEN dense_[sparse_[i]].value_ ELSE NoValue>>
    /\ UNCHANGED <<capacity, size_, sparse_, dense_, visited>>

clear ==
    /\ size_' = 0
    /\ visited' = 0
    /\ answer' = <<"clear">>
    /\ UNCHANGED <<capacity, sparse_, dense_>>

\* Mistake: dense_ is not copied.
ResizeWithoutCopy(m) ==
    /\ m > capacity
    /\ capacity' = m
    /\ \E g \in [capacity .. m - 1 -> Garbage] :
          sparse_' = [k \in 0 .. m - 1 |-> IF k < capacity THEN sparse_[k] ELSE g[k]]
    /\ dense_' \in [0 .. m - 1 -> Uninitialized]
    /\ visited' = 0
    /\ answer' = <<"resize", m>>
    /\ UNCHANGED size_

\* The arrays only ever get longer, and what is new in them is garbage.
resize(m) ==
    /\ IF m > capacity
       THEN /\ capacity' = m
            /\ \E g \in [capacity .. m - 1 -> Garbage],
                  h \in [capacity .. m - 1 -> Uninitialized] :
                  /\ sparse_' = [k \in 0 .. m - 1 |->
                                    IF k < capacity THEN sparse_[k] ELSE g[k]]
                  /\ dense_' = [k \in 0 .. m - 1 |->
                                    IF k < capacity THEN dense_[k] ELSE h[k]]
       ELSE UNCHANGED <<capacity, sparse_, dense_>>
    /\ size_' = IF size_ > m THEN m ELSE size_
    /\ visited' = 0
    /\ answer' = <<"resize", m>>

\* ++iterator, which may have reached an end() that has moved since.
Visit ==
    /\ visited < size_
    /\ answer' = <<"visit", dense_[visited].index_>>
    /\ visited' = visited + 1
    /\ UNCHANGED <<capacity, size_, sparse_, dense_>>

Next ==
    \/ \E i \in 0 .. MaxCapacity - 1 :
          Lookup(i) \/ \E v \in Values : Set(i, v)
    \/ clear
    \/ \E m \in 0 .. MaxCapacity : resize(m)
    \/ Visit

Spec == Init /\ [][Next]_vars

-----------------------------------------------------------------------------
TypeOK ==
    /\ capacity \in 0 .. MaxCapacity
    /\ size_ \in 0 .. capacity
    /\ sparse_ \in [0 .. capacity - 1 -> Int]
    /\ dense_ \in [0 .. capacity - 1 -> [index_ : Int, value_ : Values]]
    /\ visited \in 0 .. size_

\* The two arrays agree on the entries in use, so no index has two of them:
\* "For indices present in the array, dense_[sparse_[i]].index_ == i."
Agree ==
    \A k \in 0 .. size_ - 1 :
        /\ dense_[k].index_ \in 0 .. capacity - 1
        /\ sparse_[dense_[k].index_] = k

\* An index that is new finds room: create_index never writes past the arrays.
RoomForNew ==
    \A i \in 0 .. capacity - 1 : ~has_index(i) => size_ < capacity

-----------------------------------------------------------------------------
Present == {dense_[k].index_ : k \in 0 .. size_ - 1}

Order == [k \in 0 .. size_ - 1 |-> dense_[k].index_]
Value == [i \in Present |-> dense_[sparse_[i]].value_]

Map == INSTANCE SparseMap WITH order <- Order, value <- Value, pos <- visited

\* Whatever the arrays held to begin with, the operations are those of a map
\* with an order, and the iterator visits each index once.
ImplementsMap == Map!Spec

=============================================================================
