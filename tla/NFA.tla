--------------------------------- MODULE NFA ---------------------------------
(***************************************************************************)
(* The engine of re2/nfa.cc: it runs all threads of a search over the text *)
(* at once, each with its own capture registers.                           *)
(*                                                                         *)
(* A Thread is reference counted and shared by the entries of a queue; a   *)
(* thread that nobody holds waits on a free list to be used again.  A queue*)
(* lists the instructions reached, in order of preference, each with the   *)
(* thread that waits there or with none.                                   *)
(***************************************************************************)
EXTENDS ProgSearch

VARIABLE nfa        \* the NFA object, or Unset

\* Threads are numbered from 1.
NoThread == 0

-----------------------------------------------------------------------------
(* Threads. *)

NewThread(s) ==
    IF s.freelist = <<>> THEN Cardinality(DOMAIN s.ref) + 1 ELSE Head(s.freelist)

\* AllocThread, and the registers copied into the thread.
AllocThread(s, capture) ==
    LET t == NewThread(s)
        threads == DOMAIN s.ref \union {t}
    IN [s EXCEPT !.ref = [u \in threads |-> IF u = t THEN 1 ELSE @[u]],
                 !.capture = [u \in threads |-> IF u = t THEN capture ELSE @[u]],
                 !.freelist = IF @ = <<>> THEN @ ELSE Tail(@)]

Incref(s, t) == [s EXCEPT !.ref[t] = @ + 1]

\* Mistake: the last reference does not free the thread.
DecrefOnly(s, t) == [s EXCEPT !.ref[t] = @ - 1]

Decref(s, t) ==
    [s EXCEPT !.ref[t] = @ - 1,
              !.freelist = IF s.ref[t] > 1 THEN @ ELSE <<t>> \o @]

DecrefAll(s, q) ==
    LET dropped[k \in 0 .. Len(q)] ==
            IF k = 0 THEN s
            ELSE IF q[k].t = NoThread THEN dropped[k - 1]
            ELSE Decref(dropped[k - 1], q[k].t)
    IN dropped[Len(q)]

-----------------------------------------------------------------------------
(* AddToThreadq. *)

\* The entries that stack_ has.
NStack == 2 * InstCount({"Capture"}) + InstCount({"EmptyWidth", "Nop"}) + 1

\* A job for the stack: process instruction id, or, if t is a thread, go back to t.
Process(id) == [id |-> id, t |-> NoThread]
Restore(t) == [id |-> 0, t |-> t]

HasIndex(q, id) == \E k \in DOMAIN q : q[k].id = id

Jobs(ids) == [k \in DOMAIN ids |-> Process(ids[k])]

\* A turn of the loop over the stack: x.todo are the jobs, the one in hand first,
\* x.s.q is the queue to fill, x.s.t0 the current thread and x.s.nstack how high the
\* stack got.
Explore(x, c, p) ==
    LET a == Head(x.todo)
        stk == Tail(x.todo)
        i == prog.inst[a.id]
        s == IF a.t = NoThread THEN x.s ELSE [Decref(x.s, x.s.t0) EXCEPT !.t0 = a.t]
        empty == [s EXCEPT !.q = Append(@, [id |-> a.id, t |-> NoThread])]
        held == Incref([s EXCEPT !.q = Append(@, [id |-> a.id, t |-> s.t0])], s.t0)
        captured == [AllocThread(empty, [s.capture[s.t0] EXCEPT ![i.arg] = p])
                        EXCEPT !.t0 = NewThread(empty)]
        rest == Jobs(IdsAfter(a.id))
        \* goto Loop with the next of the ids, if there is one
        Goto(r, ids) == [s |-> r, todo |-> Jobs(ids) \o stk]
        \* push the jobs, the last to be popped first, and goto Loop with the next
        Push(r, jobs, ids) ==
            LET st == jobs \o stk IN
            [s |-> [r EXCEPT !.nstack = IF @ < Len(st) THEN Len(st) ELSE @],
             todo |-> Jobs(ids) \o st]
    IN IF a.id = 0 \/ HasIndex(s.q, a.id) THEN Goto(s, <<>>)
       ELSE CASE i.op = "Fail" -> Goto(empty, <<>>)
              [] i.op = "AltMatch" -> Goto(held, <<a.id + 1>>)
              [] i.op = "Nop" -> Push(empty, rest, <<i.out>>)
              [] i.op = "Capture" ->
                    IF i.arg < s.ncapture
                    THEN Push(captured, <<Restore(s.t0)>> \o rest, <<i.out>>)
                    ELSE Push(empty, rest, <<i.out>>)
              [] i.op = "ByteRange" ->
                    IF ~Matches(i, c) THEN Goto(empty, IdsAfter(a.id))
                    ELSE Goto(held, IF i.hint = 0 THEN <<>> ELSE <<a.id + i.hint>>)
              [] i.op = "Match" -> Goto(held, IdsAfter(a.id))
              [] i.op = "EmptyWidth" ->
                    Push(empty, rest,
                         IF i.arg \in EmptyFlags(search.context, p) THEN <<i.out>> ELSE <<>>)

\* Each instruction is processed at most once and leaves at most three jobs.
MaxJobs == 3 * ProgSize + 1

AddToThreadq(s, id, c, p, t) ==
    LET explored[n \in 0 .. MaxJobs] ==
            IF n = 0 THEN [s |-> [s EXCEPT !.t0 = t], todo |-> <<Process(id)>>]
            ELSE LET x == explored[n - 1] IN IF x.todo = <<>> THEN x ELSE Explore(x, c, p)
    IN IF id = 0 THEN s ELSE explored[MaxJobs].s

-----------------------------------------------------------------------------
(* Step: the threads of runq over the byte before p.  The byte at p is c,   *)
(* s.q the queue to fill; s.id is the shortcut to take.                     *)

\* The match of thread t, which ends at end.
Keeps(s, t, end) ==
    [s EXCEPT !.match = [s.capture[t] EXCEPT ![1] = end], !.matched = TRUE]

\* Leftmost-longest: is the match of thread t that ends at end better?
Better(s, t, end) ==
    \/ ~s.matched
    \/ s.capture[t][0] < s.match[0]
    \/ s.capture[t][0] = s.match[0] /\ end > s.match[1]

\* The turn of the loop for the entry e of runq.  Once x.cut is TRUE, threads are
\* only given up.
StepThread(x, e, first, c, p) ==
    LET s == x.s
        t == e.t
        i == prog.inst[e.id]
        After(r) == [s |-> Decref(r, t), cut |-> x.cut]
        Cut(r) == [s |-> Decref(r, t), cut |-> TRUE]
    IN CASE t = NoThread -> x
         \* Threads that started after the best match are dropped.
         [] t # NoThread /\ (x.cut \/ (s.longest /\ s.matched /\ s.match[0] < s.capture[t][0])) ->
                After(s)
         [] OTHER ->
            CASE i.op = "ByteRange" -> After(AddToThreadq(s, i.out, c, p, t))
              [] i.op = "AltMatch" ->
                    IF first /\ (Greedy(i) \/ s.longest)
                    THEN Cut([s EXCEPT !.match = s.capture[t], !.matched = TRUE,
                                       !.id = IF Greedy(i) THEN i.out1 ELSE i.out])
                    ELSE After(s)
              [] i.op = "Match" ->
                    IF s.endmatch /\ p - 1 # search.to THEN After(s)
                    ELSE IF s.longest
                    THEN After(IF Better(s, t, p - 1) THEN Keeps(s, t, p - 1) ELSE s)
                    ELSE Cut(Keeps(s, t, p - 1))

Step(s, runq, c, p) ==
    LET ran[k \in 0 .. Len(runq)] ==
            IF k = 0 THEN [s |-> s, cut |-> FALSE]
            ELSE StepThread(ran[k - 1], runq[k], k = 1, c, p)
    IN ran[Len(runq)].s

\* A turn of the short circuit: what is left is a match.
Shorten(x) ==
    LET i == prog.inst[x.id] IN
    CASE i.op = "Capture" ->
            [s |-> IF i.arg < x.s.ncapture THEN [x.s EXCEPT !.match[i.arg] = search.to]
                                           ELSE x.s,
             id |-> i.out]
      [] i.op = "Nop" -> [x EXCEPT !.id = i.out]
      [] i.op = "Match" -> [x EXCEPT !.s.match[1] = search.to, !.s.matched = TRUE]
      [] OTHER -> x

ShortCircuit(s, id) ==
    LET short[n \in 0 .. ProgSize] ==
            IF n = 0 THEN [s |-> s, id |-> id] ELSE Shorten(short[n - 1])
    IN short[ProgSize].s

-----------------------------------------------------------------------------
(* The search. *)

NFAInit == nfa = Unset

\* SearchNFA and Search up to the loop over the text.
SearchNFA ==
    /\ Idle /\ kind = "forward"
    /\ \E s \in Searches("NFA", {"first", "longest", "full"}, family.nmatches) :
        LET nsubmatch == IF s.kind = "full" /\ s.nmatch = 0 THEN 1 ELSE s.nmatch
            ncapture == IF nsubmatch = 0 THEN 2 ELSE 2 * nsubmatch
        IN /\ Begins(s)
           /\ IF prog.start # 0 /\ Possible(s)
              THEN /\ nfa' = [ncapture |-> ncapture,
                              longest |-> s.kind # "first" \/ prog.anchor_end,
                              anchored |-> s.anchored \/ s.kind = "full"
                                                \/ prog.anchor_start,
                              endmatch |-> prog.anchor_end,
                              match |-> [r \in 0 .. ncapture - 1 |-> NULL],
                              matched |-> FALSE,
                              ref |-> <<>>, capture |-> <<>>, freelist |-> <<>>,
                              q |-> <<>>, t0 |-> NoThread, nstack |-> 1, id |-> 0,
                              p |-> s.from]
                   /\ UNCHANGED answer
              ELSE answer' = NotFound /\ UNCHANGED nfa
    /\ UNCHANGED vars

\* A new thread, to the right of all others: there is no match yet.
StartThread(s, c, p) ==
    LET t == NewThread(s)
        begun == AddToThreadq(AllocThread(s, [s.match EXCEPT ![0] = p]), prog.start, c, p, t)
    IN Decref(begun, t)

\* Search returns what was found.
NFAReturns(r) ==
    /\ nfa' = [DecrefAll(r, r.q) EXCEPT !.q = <<>>]
    /\ Answers(IF r.matched /\ ~ /\ search.kind = "full"
                                 /\ r.match[1] # search.to
               THEN Found(r.match, search.nmatch) ELSE NotFound)

\* As long as there is no match, a thread starts wherever it may.
StartsThread(s, p) == ~s.matched /\ (~s.anchored \/ p = search.from)

\* Where the next thread starts: no other thread is held back by what is skipped.
StartPlace(s, p) ==
    IF /\ StartsThread(s, p) /\ ~s.anchored /\ s.q = <<>>
       /\ p < search.to /\ CanPrefixAccel
    THEN SkipToPrefix(search, p) ELSE p

WithThread(s, p, p1) ==
    IF StartsThread(s, p) THEN StartThread(s, ByteAt(search, p1), p1) ELSE s

\* The end of a turn, with no thread left or with the next byte to take.
NextPlace(s, p) ==
    IF s.q = <<>> THEN NFAReturns(s)
    ELSE nfa' = [s EXCEPT !.p = p + 1] /\ UNCHANGED searchVars

\* The turn of the loop after the threads took the byte before p.
AfterStep(s, p) ==
    IF s.id # 0 THEN NFAReturns(ShortCircuit(s, s.id))
    ELSE IF p > search.to THEN NFAReturns(s)
    ELSE NextPlace(WithThread(s, p, StartPlace(s, p)), StartPlace(s, p))

\* One turn of the loop over the text.
NFAStep ==
    /\ Searching("NFA")
    /\ AfterStep(Step([nfa EXCEPT !.q = <<>>], nfa.q, ByteAt(search, nfa.p), nfa.p), nfa.p)
    /\ UNCHANGED vars

-----------------------------------------------------------------------------
\* Every reference to a thread is counted: a thread's count is the number of
\* entries in the queue that hold it, the free list has each of those that nobody
\* holds once, and a finished search holds none.
ThreadsCounted ==
    nfa # Unset =>
        /\ \A t \in DOMAIN nfa.ref :
            /\ nfa.ref[t] = Cardinality({k \in DOMAIN nfa.q : nfa.q[k].t = t})
            /\ nfa.ref[t] = 0 <=> Contains(nfa.freelist, t)
        /\ IsInjective(nfa.freelist)
        /\ answer # Unset => \A t \in DOMAIN nfa.ref : nfa.ref[t] = 0

=============================================================================
