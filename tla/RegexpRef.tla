----------------------------- MODULE RegexpRef -----------------------------
(***************************************************************************)
(* The reference counts of syntax trees (re2/regexp.cc).  A Regexp is      *)
(* shared: by its parents, in which it may occur several times, and by     *)
(* whoever holds a pointer to it.  Its count has 16 bits, one value of     *)
(* which says that the true count is in a map beside it, keyed by the      *)
(* address of the Regexp; its destruction walks the tree below it with a   *)
(* stack made of the trees themselves.  Addresses are reused.              *)
(*                                                                         *)
(* The parser and the simplifier are the clients: they obey the comments   *)
(* (a constructor consumes the references it is given, only an owner edits *)
(* in place) and are otherwise free.  Trees belong to one thread.          *)
(***************************************************************************)
EXTENDS Integers, Sequences, FiniteSets, TLC

CONSTANTS
    Nodes,          \* the addresses
    NULL,
    kMaxRef,        \* the count that stands for an entry of ref_map
    MaxSubs,        \* bound: children of a Regexp
    MaxHeld         \* bound: pointers the clients have to one Regexp

ASSUME RegexpAssumption ==
    /\ IsFiniteSet(Nodes)
    /\ NULL \notin Nodes
    /\ kMaxRef \in Nat /\ kMaxRef >= 2
    /\ MaxSubs \in Nat
    /\ MaxHeld \in Nat

\* Which address is which does not matter: the symmetry of the model checker.
Addresses == Permutations(Nodes)

VARIABLES
    allocated,      \* the addresses that are a Regexp
    ref_,           \* their counts
    ref_map,        \* the true counts of some; 0 is no entry
    sub,            \* their children
    held,           \* the pointers the clients have to each
    calls,          \* the Decrefs a client's operation has still to make
    stack,          \* Destroy: the trees to destroy, linked by down_
    re, i           \* Destroy: the tree in hand, and which child of it is next

heap == <<allocated, ref_, ref_map, sub>>
walk == <<stack, re, i>>
vars == <<heap, held, calls, walk>>

\* Where Regexp n is a child.
Places(n) == {p \in Nodes \X (1 .. MaxSubs) :
                 p[1] \in allocated /\ p[2] \in DOMAIN sub[p[1]] /\ sub[p[1]][p[2]] = n}

Ref(n) == IF ref_[n] < kMaxRef THEN ref_[n] ELSE ref_map[n]

-----------------------------------------------------------------------------
\* Mistake: a count that is full is taken for one that has overflowed.
IncrefIfFull(n) ==
    IF ref_[n] = kMaxRef
    THEN ref_map' = [ref_map EXCEPT ![n] = @ + 1] /\ ref_' = ref_
    ELSE ref_' = [ref_ EXCEPT ![n] = @ + 1] /\ ref_map' = ref_map

AddRef(n) ==
    \/ /\ ref_[n] = kMaxRef
       /\ ref_map' = [ref_map EXCEPT ![n] = @ + 1]
       /\ ref_' = ref_
    \/ /\ ref_[n] = kMaxRef - 1
       /\ ref_map' = [ref_map EXCEPT ![n] = kMaxRef]
       /\ ref_' = [ref_ EXCEPT ![n] = kMaxRef]
    \/ /\ ref_[n] < kMaxRef - 1
       /\ ref_' = [ref_ EXCEPT ![n] = @ + 1]
       /\ ref_map' = ref_map

\* Mistake: Destroy forgets that a child's count may be in the map.
DropInPlace(n) ==
    /\ ref_' = [ref_ EXCEPT ![n] = (@ - 1) % (kMaxRef + 1)]
    /\ ref_map' = ref_map

\* Mistake: the map keeps what no longer counts.
DropWithoutErase(n) ==
    IF ref_[n] = kMaxRef
    THEN LET r == ref_map[n] - 1 IN
         /\ ref_map' = [ref_map EXCEPT ![n] = r]
         /\ ref_' = [ref_ EXCEPT ![n] = IF r < kMaxRef THEN r % (kMaxRef + 1) ELSE @]
    ELSE /\ ref_' = [ref_ EXCEPT ![n] = (@ - 1) % (kMaxRef + 1)]
         /\ ref_map' = ref_map

\* What Decref and Destroy do to a count, 16 bits wide.
DropRef(n) ==
    \/ /\ ref_[n] = kMaxRef
       /\ LET r == ref_map[n] - 1 IN
          /\ ref_map' = [ref_map EXCEPT ![n] = IF r < kMaxRef THEN 0 ELSE r]
          /\ ref_' = [ref_ EXCEPT ![n] = IF r < kMaxRef THEN r % (kMaxRef + 1)
                                               ELSE @]
    \/ /\ ref_[n] # kMaxRef
       /\ ref_' = [ref_ EXCEPT ![n] = (@ - 1) % (kMaxRef + 1)]
       /\ ref_map' = ref_map

\* QuickDestroy.
DestroysAtOnce(n) == Len(sub[n]) = 0

\* Mistake: what is on the stack is forgotten.
DropAndDestroyUnlinked(n) ==
    /\ DropRef(n)
    /\ allocated' = IF ref_'[n] = 0 /\ DestroysAtOnce(n)
                    THEN allocated \ {n} ELSE allocated
    /\ stack' = IF ref_'[n] = 0 /\ ~DestroysAtOnce(n) THEN <<n>> ELSE stack

\* Regexp n's count has dropped: if there is nothing left of it, n is deleted
\* or has its turn, before what is on the stack.
DropAndDestroy(n) ==
    /\ DropRef(n)
    /\ allocated' = IF ref_'[n] = 0 /\ DestroysAtOnce(n)
                    THEN allocated \ {n} ELSE allocated
    /\ stack' = IF ref_'[n] = 0 /\ ~DestroysAtOnce(n)
                THEN <<n>> \o stack ELSE stack

-----------------------------------------------------------------------------
Idle == calls = <<>> /\ stack = <<>> /\ re = NULL

Init ==
    /\ allocated = {}
    /\ ref_ = [n \in Nodes |-> 0]
    /\ ref_map = [n \in Nodes |-> 0]
    /\ sub = [n \in Nodes |-> <<>>]
    /\ held = [n \in Nodes |-> 0]
    /\ calls = <<>>
    /\ stack = <<>>
    /\ re = NULL
    /\ i = 1

Uses(s, n) == Cardinality({k \in DOMAIN s : s[k] = n})

\* new Regexp, AllocSub and the assignments of the children: the references to
\* them are the parent's from now on.
New(n, s) ==
    /\ Idle
    /\ n \notin allocated
    /\ \A m \in Nodes : Uses(s, m) <= held[m]
    /\ allocated' = allocated \cup {n}
    /\ ref_' = [ref_ EXCEPT ![n] = 1]
    /\ sub' = [sub EXCEPT ![n] = s]
    /\ held' = [m \in Nodes |-> IF m = n THEN 1 ELSE held[m] - Uses(s, m)]
    /\ UNCHANGED <<ref_map, calls, walk>>

\* A client may take a reference to what it holds and to the children of it,
\* theirs too.
Incref(n) ==
    /\ Idle
    /\ n \in allocated
    /\ held[n] < MaxHeld
    /\ AddRef(n)
    /\ held' = [held EXCEPT ![n] = @ + 1]
    /\ UNCHANGED <<allocated, sub, calls, walk>>

\* A client gives one up.
Decref(n) ==
    /\ Idle
    /\ held[n] > 0
    /\ held' = [held EXCEPT ![n] = @ - 1]
    /\ DropAndDestroy(n)
    /\ UNCHANGED <<sub, calls, re, i>>

\* The client is the only one to know n, and may edit it in place.
Owns(n) == held[n] = 1 /\ ref_[n] = 1

\* RemoveLeadingRegexp of a concatenation that Round 2 of the factoring owns:
\* what is left of two is the second, and of more the others.
RemoveLeadingRegexp(n) ==
    /\ Idle
    /\ Owns(n)
    /\ Len(sub[n]) >= 2
    /\ LET first == sub[n][1] IN
       IF Len(sub[n]) = 2
       THEN /\ held' = [held EXCEPT ![n] = @ - 1, ![sub[n][2]] = @ + 1]
            /\ held[sub[n][2]] < MaxHeld
            /\ sub' = [sub EXCEPT ![n] = <<NULL, NULL>>]
            /\ calls' = <<first, n>>
       ELSE /\ held' = held
            /\ sub' = [sub EXCEPT ![n] = Tail(@)]
            /\ calls' = <<first>>
    /\ UNCHANGED <<allocated, ref_, ref_map, walk>>

\* RemoveLeadingString, once the first child of n is empty: of two children the
\* second takes the place of n, whose address others know, by exchanging all
\* that the two objects hold, counts and links included.
CollapseConcat(n) ==
    /\ Idle
    /\ n \in allocated
    /\ ref_[n] = 1
    /\ Len(sub[n]) = 2
    /\ LET first == sub[n][1]
           old == sub[n][2] IN
       /\ ref_[old] = 1
       /\ sub' = [sub EXCEPT ![n] = sub[old], ![old] = <<NULL, NULL>>]
       /\ ref_' = [ref_ EXCEPT ![n] = ref_[old], ![old] = ref_[n]]
       /\ calls' = <<first, old>>
    /\ UNCHANGED <<allocated, ref_map, held, walk>>

\* The next Decref of the operation.
CallDecref ==
    /\ calls # <<>> /\ stack = <<>> /\ re = NULL
    /\ calls' = Tail(calls)
    /\ DropAndDestroy(Head(calls))
    /\ UNCHANGED <<sub, held, re, i>>

-----------------------------------------------------------------------------
\* Destroy takes a tree off the stack.
Pop ==
    /\ re = NULL
    /\ stack # <<>>
    /\ re' = Head(stack)
    /\ stack' = Tail(stack)
    /\ i' = 1
    /\ UNCHANGED <<heap, held, calls>>

\* Destroy gives up the tree's reference to one of its children.
DropSub ==
    /\ re # NULL
    /\ i \in DOMAIN sub[re]
    /\ i' = i + 1
    /\ IF sub[re][i] = NULL
       THEN UNCHANGED <<heap, stack>>
       ELSE DropAndDestroy(sub[re][i]) /\ sub' = sub
    /\ UNCHANGED <<held, calls, re>>

\* ... and deletes the tree.
Delete ==
    /\ re # NULL
    /\ i > Len(sub[re])
    /\ sub' = [sub EXCEPT ![re] = <<>>]
    /\ allocated' = allocated \ {re}
    /\ re' = NULL
    /\ i' = 1
    /\ UNCHANGED <<ref_, ref_map, held, calls, stack>>

Sequences(S, k) == UNION {[1 .. j -> S] : j \in 0 .. k}

Next ==
    \/ \E n \in Nodes :
          \/ \E s \in Sequences(allocated, MaxSubs) : New(n, s)
          \/ Incref(n) \/ Decref(n)
          \/ RemoveLeadingRegexp(n) \/ CollapseConcat(n)
    \/ CallDecref \/ Pop \/ DropSub \/ Delete

Spec == Init /\ [][Next]_vars

-----------------------------------------------------------------------------
\* The references to n that are still to be given up by somebody.
References(n) ==
    LET given == {p \in Places(n) : p[1] = re /\ p[2] < i} IN
    Cardinality(Places(n) \ given) + held[n] + Uses(calls, n)

\* The map has an entry for a Regexp exactly when its count has overflowed; one
\* left behind would be the next Regexp's at that address.
OverflowInMap ==
    \A n \in Nodes :
        IF n \in allocated /\ ref_[n] = kMaxRef
        THEN ref_map[n] >= kMaxRef
        ELSE ref_map[n] = 0

\* Ref() tells the truth of every Regexp, however its count is kept, and the map is as
\* it should be.
RefsExact == OverflowInMap /\ \A n \in allocated : Ref(n) = References(n)

\* Nobody has a pointer to a Regexp that was deleted.
NoDanglingSubs ==
    /\ \A n \in Nodes : held[n] > 0 => n \in allocated
    /\ \A n \in allocated \ {re} : \A k \in DOMAIN sub[n] :
          sub[n][k] \in allocated \cup {NULL}
    /\ \A k \in DOMAIN stack : stack[k] \in allocated

\* When the operations are over, no trees are left that nobody knows of but
\* each other.
NothingLeaks ==
    Idle => \A S \in (SUBSET allocated) \ {{}} : \E n \in S :
                held[n] > 0 \/ \E p \in Places(n) : p[1] \notin S

=============================================================================
