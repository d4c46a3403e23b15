----------------------------- MODULE SparseMap -----------------------------
(***************************************************************************)
(* What re2/sparse_array.h promises: a map from indices to values that     *)
(* remembers the order in which its indices were first set, and an         *)
(* iterator that visits each of them once, in that order, also those set   *)
(* while it runs.                                                          *)
(***************************************************************************)
EXTENDS Integers

CONSTANTS
    MaxCapacity,    \* the largest max_size() considered
    Values,
    NoValue         \* what an index without a value has

VARIABLES
    capacity,       \* indices are below it
    order,          \* the indices that are set, oldest first, numbered from 0
    value,          \* their values
    pos,            \* how many of them the iterator has visited
    answer          \* the last operation and what it returned

vars == <<capacity, order, value, pos, answer>>

Has(i) == i \in DOMAIN value

Init ==
    /\ capacity \in 0 .. MaxCapacity
    /\ order = [k \in {} |-> 0]
    /\ value = [i \in {} |-> NoValue]
    /\ pos = 0
    /\ answer = <<>>

\* A new index goes to the end; an old one only changes its value.
Set(i, v) ==
    /\ i \in 0 .. capacity - 1
    /\ \/ /\ Has(i)
          /\ order' = order
       \/ /\ ~Has(i)
          /\ \E n \in 0 .. capacity - 1 :
                /\ DOMAIN order = 0 .. n - 1
                /\ order' = [k \in 0 .. n |-> IF k = n THEN i ELSE order[k]]
    /\ value' = [j \in DOMAIN value \cup {i} |-> IF j = i THEN v ELSE value[j]]
    /\ answer' = <<"set", i, v>>
    /\ UNCHANGED <<capacity, pos>>

\* The value of i, if it has one.
Lookup(i) ==
    /\ i \in 0 .. capacity - 1
    /\ answer' = <<"get", i, IF Has(i) THEN value[i] ELSE NoValue>>
    /\ UNCHANGED <<capacity, order, value, pos>>

\* The first n indices are kept.
Truncate(n) ==
    /\ order' = [k \in DOMAIN order \cap (0 .. n - 1) |-> order[k]]
    /\ value' = [i \in {order[k] : k \in DOMAIN order \cap (0 .. n - 1)} |->
                    value[i]]
    /\ pos' = 0

Clear ==
    /\ Truncate(0)
    /\ answer' = <<"clear">>
    /\ UNCHANGED capacity

Resize(m) ==
    /\ m \in 0 .. MaxCapacity
    /\ Truncate(m)
    /\ answer' = <<"resize", m>>
    /\ capacity' = IF m > capacity THEN m ELSE capacity

\* The iterator visits the next index.
Visit ==
    /\ pos \in DOMAIN order
    /\ answer' = <<"visit", order[pos]>>
    /\ pos' = pos + 1
    /\ UNCHANGED <<capacity, order, value>>

Next ==
    \/ \E i \in 0 .. MaxCapacity - 1 :
          Lookup(i) \/ \E v \in Values : Set(i, v)
    \/ Clear
    \/ \E m \in 0 .. MaxCapacity : Resize(m)
    \/ Visit

Spec == Init /\ [][Next]_vars

=============================================================================
