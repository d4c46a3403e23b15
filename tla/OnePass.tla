------------------------------ MODULE OnePass ------------------------------
(***************************************************************************)
(* The engine of re2/onepass.cc: programs in which a byte never leaves a   *)
(* choice are turned into tables, one node for each place that a byte can  *)
(* lead to, and run without keeping alternatives.                          *)
(*                                                                         *)
(* A condition, 32 bits in the code, is a record: the node to go to, the   *)
(* empty-width flags that must hold, the capture registers to set, and     *)
(* whether a match here is preferred to going on.                          *)
(***************************************************************************)
EXTENDS ProgSearch

CONSTANTS
    kMaxCap,        \* registers 2 .. kMaxCap-1 have a bit in a condition
    MaxNodes        \* nodes that a quarter of the DFA's memory can hold

ASSUME OnePassAssumption == kMaxCap \in Nat /\ MaxNodes \in Nat

VARIABLE onepass    \* the tables, as far as they are built, or Unset

kImpossible == {"WordBoundary", "NonWordBoundary"}

NoCond == [next |-> 0, empty |-> {}, caps |-> {}, matchWins |-> FALSE]
Impossible == [NoCond EXCEPT !.empty = kImpossible]
IsImpossible(cond) == kImpossible \subseteq cond.empty

Classes == {prog.bytemap[c] : c \in Byte}

-----------------------------------------------------------------------------
(* IsOnePass. *)

\* Mistake: room for the start instruction is forgotten.
StackWithoutStart == InstCount({"Capture", "EmptyWidth", "Nop"})

StackSize == InstCount({"Capture", "EmptyWidth", "Nop"}) + 1

NodeLimit == 2 + InstCount({"ByteRange"})

NewNode == [matchcond |-> NoCond, action |-> [b \in Classes |-> NoCond]]
EmptyNode == [matchcond |-> Impossible, action |-> [b \in Classes |-> Impossible]]

\* The node for instruction id: it gets one if it has none.
Node(s, id) == IF id \in DOMAIN s.nodebyid THEN s.nodebyid[id] ELSE Len(s.nodes)
WithNode(s, id) ==
    IF id \in DOMAIN s.nodebyid THEN s
    ELSE IF Len(s.nodes) >= NodeLimit THEN [s EXCEPT !.failed = TRUE]
    ELSE [s EXCEPT !.nodebyid = (id :> Len(s.nodes)) @@ @,
                   !.nodes = Append(@, NewNode),
                   !.tovisit = IF id = 0 THEN @ ELSE Append(@, id)]

\* AddQ: 0 is never on the queue.
AddQ(s, id) ==
    IF id = 0 THEN s
    ELSE IF id \in s.workq THEN [s EXCEPT !.failed = TRUE]
    ELSE [s EXCEPT !.workq = @ \union {id}]

\* The action newact for the byte classes bs: two actions must not differ.
WithActions(s, n, bs, newact) ==
    LET action == s.nodes[n + 1].action IN
    [s EXCEPT !.nodes[n + 1].action =
                    [b \in Classes |-> IF b \in bs /\ IsImpossible(@[b]) THEN newact ELSE @[b]],
              !.failed = \E b \in bs : ~IsImpossible(action[b]) /\ action[b] # newact]

\* A job for the stack: process instruction id, which is reached under cond.
Under(id, cond) == [id |-> id, cond |-> cond]

\* A turn of the flood from node n: x.todo are the jobs, the one in hand first.
FloodInst(x, n) ==
    LET s == x.s
        id == Head(x.todo).id
        cond == Head(x.todo).cond
        i == prog.inst[id]
        Goto(r, jobs) == [s |-> r, todo |-> jobs \o Tail(x.todo)]
        NextInList(r) ==
            IF r.failed \/ i.last THEN Goto(r, <<>>)
            ELSE Goto(AddQ(r, id + 1), <<Under(id + 1, cond)>>)
        \* an instruction that takes no byte, after which cond1 holds
        Through(cond1) ==
            LET rest == IF i.last THEN <<>> ELSE <<Under(id + 1, cond)>>
                r == IF i.last THEN s ELSE AddQ(s, id + 1)
                high == Len(rest \o Tail(x.todo))
            IN IF r.failed THEN Goto(r, <<>>)
               ELSE Goto(AddQ([r EXCEPT !.nstack = IF @ < high THEN high ELSE @], i.out),
                         <<Under(i.out, cond1)>> \o rest)
        newact == [cond EXCEPT !.next = Node(s, i.out), !.matchWins = s.matched]
        classes == {prog.bytemap[c] : c \in (i.lo .. i.hi) \union FoldedBytes(i)}
    IN CASE i.op = "Fail" -> Goto(s, <<>>)
         [] i.op = "AltMatch" -> Goto(AddQ(s, id + 1), <<Under(id + 1, cond)>>)
         [] i.op = "ByteRange" ->
                LET r == WithNode(s, i.out) IN
                IF r.failed THEN Goto(r, <<>>)
                ELSE NextInList(WithActions(r, n, classes, newact))
         [] i.op = "Nop" -> Through(cond)
         [] i.op = "Capture" ->
                Through(IF i.arg < kMaxCap THEN [cond EXCEPT !.caps = @ \union {i.arg}]
                                           ELSE cond)
         [] i.op = "EmptyWidth" ->
                Through([cond EXCEPT !.empty = @ \union {i.arg}])
         [] i.op = "Match" ->
                IF s.matched THEN Goto([s EXCEPT !.failed = TRUE], <<>>)
                ELSE NextInList([s EXCEPT !.matched = TRUE,
                                          !.nodes[n + 1].matchcond = cond])

\* An instruction is added to the work queue once, but 0 after any other.
FloodNode(s, n, id) ==
    LET flood[k \in 0 .. 2 * ProgSize + 1] ==
            IF k = 0 THEN [s |-> s, todo |-> <<Under(id, NoCond)>>]
            ELSE LET x == flood[k - 1]
                 IN IF x.todo = <<>> \/ x.s.failed THEN x ELSE FloodInst(x, n)
    IN flood[2 * ProgSize + 1].s

OnePassInit == onepass = Unset

\* IsOnePass is called for the first time.
IsOnePass ==
    /\ Idle /\ kind = "forward" /\ onepass = Unset
    /\ onepass' =
        [nodebyid |-> (prog.start :> 0), nodes |-> <<NewNode>>, tovisit |-> <<prog.start>>,
         visited |-> 0, workq |-> {}, matched |-> FALSE, nstack |-> 1,
         failed |-> prog.start = 0 \/ MaxNodes < NodeLimit,
         p |-> 0, state |-> 0, cap |-> <<>>, matchcap |-> <<>>, found |-> FALSE]
    /\ UNCHANGED <<vars, searchVars>>

Building == onepass # Unset /\ ~onepass.failed /\ onepass.visited < Len(onepass.tovisit)
Built == onepass # Unset /\ ~onepass.failed /\ onepass.visited = Len(onepass.tovisit)

\* The next node of the queue is filled in.
BuildNode ==
    /\ Building
    /\ LET id == onepass.tovisit[onepass.visited + 1]
           n == onepass.nodebyid[id]
       IN onepass' = FloodNode([onepass EXCEPT !.nodes[n + 1] = EmptyNode,
                                            !.visited = @ + 1, !.workq = {},
                                            !.matched = FALSE],
                            n, id)
    /\ UNCHANGED <<vars, searchVars>>

-----------------------------------------------------------------------------
(* SearchOnePass. *)

Satisfy(cond, p) == cond.empty \subseteq EmptyFlags(search.context, p)

ApplyCaptures(cond, cap, p) ==
    [r \in DOMAIN cap |-> IF r >= 2 /\ r \in cond.caps THEN p ELSE cap[r]]

\* Does a match here end a search for the first match?
StopsAt(cond) == search.kind = "first" /\ cond.matchWins

SearchOnePass ==
    /\ Idle /\ Built
    /\ \E s \in Searches("OnePass", {"first", "longest", "full"},
                         {n \in family.nmatches : 2 * n <= kMaxCap}) :
        LET ncap == IF s.nmatch = 0 THEN 2 ELSE 2 * s.nmatch
            begun == [r \in 0 .. ncap - 1 |-> IF r = 0 THEN s.from ELSE NULL]
        IN /\ s.anchored \/ prog.anchor_start \/ s.kind = "full"
           /\ Begins(s)
           /\ IF Possible(s)
              THEN /\ onepass' = [onepass EXCEPT !.p = s.from, !.state = 0, !.cap = begun,
                                                 !.matchcap = begun, !.found = FALSE]
                   /\ UNCHANGED answer
              ELSE answer' = NotFound /\ UNCHANGED onepass
    /\ UNCHANGED vars

\* The registers matchcap with the match that ends here, and cap.
MatchHere(matchcond, p) ==
    ApplyCaptures(matchcond, [onepass.cap EXCEPT ![1] = p], p)

\* A byte is read in a node: a match may end before it, and the byte leads to
\* another node or nowhere.
OnePassByte ==
    /\ Searching("OnePass") /\ onepass.p < search.to
    /\ LET p == onepass.p
           node == onepass.nodes[onepass.state + 1]
           cond == node.action[prog.bytemap[ByteAt(search, p)]]
           goes == Satisfy(cond, p)
           nextmatchcond == IF goes THEN onepass.nodes[cond.next + 1].matchcond
                                    ELSE Impossible
           \* is the match here worth recording?
           matches ==
                /\ ~ToTheEnd(search)
                /\ node.matchcond # Impossible
                /\ cond.matchWins \/ nextmatchcond.empty # {}
                /\ Satisfy(node.matchcond, p)
           matchcap == IF matches THEN MatchHere(node.matchcond, p) ELSE onepass.matchcap
           found == onepass.found \/ matches
       IN IF ~goes \/ (matches /\ StopsAt(cond))
          THEN /\ Answers(IF found THEN Found(matchcap, search.nmatch) ELSE NotFound)
               /\ UNCHANGED onepass
          ELSE /\ onepass' = [onepass EXCEPT !.p = p + 1, !.state = cond.next,
                                             !.cap = ApplyCaptures(cond, @, p),
                                             !.matchcap = matchcap, !.found = found]
               /\ UNCHANGED searchVars
    /\ UNCHANGED vars

\* At the end of the text only a match is left.
OnePassEnd ==
    /\ Searching("OnePass") /\ onepass.p = search.to
    /\ LET p == onepass.p
           matchcond == onepass.nodes[onepass.state + 1].matchcond
           matches == Satisfy(matchcond, p)
       IN Answers(IF matches THEN Found(MatchHere(matchcond, p), search.nmatch)
                  ELSE IF onepass.found THEN Found(onepass.matchcap, search.nmatch)
                  ELSE NotFound)
    /\ UNCHANGED <<vars, onepass>>

=============================================================================
