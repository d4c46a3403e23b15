------------------------------- MODULE Walker -------------------------------
(***************************************************************************)
(* The walk over a regexp (re2/walker-inl.h): each node is visited after   *)
(* its children, on a stack of the walk's own, with no more visits than it *)
(* is allowed.                                                             *)
(***************************************************************************)
EXTENDS Integers, Sequences

CONSTANTS PostVisit(_, _),   \* what a node comes to, given what its children came to
          ShortVisit(_)      \* what it is taken to come to when visits have run out

nsub(re) == IF "sub" \in DOMAIN re THEN Len(re.sub) ELSE 0

\* A node on the stack: n is the child that is next, -1 before the node is visited.
WalkState(re) == [re |-> re, n |-> -1, child_args |-> <<>>]

\* The node on top is done: the one below, if there is one, has what it came to.
Return(w, t) ==
    IF Len(w.stack) = 1 THEN [w EXCEPT !.stack = <<>>, !.result = t]
    ELSE [w EXCEPT !.stack = [Tail(@) EXCEPT ![1].n = @ + 1,
                                             ![1].child_args = Append(@, t)]]

\* WalkInternal, each turn of its loop a call.
RECURSIVE WalkOn(_)
WalkOn(w) ==
    LET s == w.stack[1] IN
    CASE w.stack = <<>> -> w
      [] w.stack # <<>> /\ s.n = -1 ->
            IF w.visits = 0
            THEN WalkOn(Return([w EXCEPT !.stopped_early = TRUE], ShortVisit(s.re)))
            ELSE WalkOn([w EXCEPT !.visits = @ - 1, !.stack[1].n = 0])
      [] w.stack # <<>> /\ s.n >= 0 ->
            IF s.n < nsub(s.re)
            THEN WalkOn([w EXCEPT !.stack = <<WalkState(s.re.sub[s.n + 1])>> \o @])
            ELSE WalkOn(Return(w, PostVisit(s.re, s.child_args)))

WalkExponential(re, max_visits) ==
    WalkOn([stack |-> <<WalkState(re)>>, visits |-> max_visits,
            stopped_early |-> FALSE, result |-> <<>>])

=============================================================================
