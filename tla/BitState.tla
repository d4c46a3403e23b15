------------------------------ MODULE BitState ------------------------------
(***************************************************************************)
(* The engine of re2/bitstate.cc: a backtracking search with a bitmap that *)
(* keeps it from visiting a list of instructions twice at one position.    *)
(*                                                                         *)
(* Its stack holds jobs.  A job stands for a run of rle + 1 positions that *)
(* begins at p, the last to be visited first, or, if id is negative, puts  *)
(* back the capture register of instruction -id.                           *)
(***************************************************************************)
EXTENDS ProgSearch

VARIABLE bit        \* the BitState object, or Unset

\* Lists are numbered in the order of their heads.
ListId(id) == Cardinality({h \in Heads : h < id})

TextSize == search.to - search.from

\* The number of the bit for a list and a position.
VisitedBit(id, p) == ListId(id) * (TextSize + 1) + (p - search.from)

\* ShouldVisit, and what it leaves behind.
ShouldVisit(s, id, p) == VisitedBit(id, p) \notin s.visited
Visited(s, id, p) == [s EXCEPT !.visited = @ \union {VisitedBit(id, p)}]

\* Push: a job for the position after a run makes the run longer.
Push(s, id, p) ==
    LET top == s.job[1]
        extends == /\ id >= 0 /\ s.job # <<>>
                   /\ id = top.id /\ p = top.p + top.rle + 1
    IN IF extends THEN [s EXCEPT !.job[1].rle = @ + 1]
       ELSE [s EXCEPT !.job = <<[id |-> id, rle |-> 0, p |-> p]>> \o @]

\* The job to try the next instruction of the list when all else is done.
PushNext(s, id, p) == IF prog.inst[id].last THEN s ELSE Push(s, id + 1, p)

-----------------------------------------------------------------------------
\* The match at p: it is recorded if it is the first or a longer one.
Recorded(s, p) ==
    LET cap == [s.cap EXCEPT ![1] = p]
        better == \/ s.submatch = <<>>
                  \/ s.longest /\ p > s.submatch[1][2]
    IN [s EXCEPT !.matched = TRUE, !.cap = cap,
                 !.submatch = IF better THEN Submatches(cap, s.nsubmatch) ELSE @]

\* The code under the label Loop: visit x.id at x.p; unless x.on is then FALSE, goto
\* Loop.  s.stop says that TrySearch returns.
Loop(x) ==
    LET s == x.s
        id == x.id
        p == x.p
        i == prog.inst[id]
        end == search.to
        Break(r) == [x EXCEPT !.s = r, !.on = FALSE]
        GotoLoop(r, out, q) == [s |-> r, id |-> out, p |-> q, on |-> TRUE]
        NextInList(r) == IF i.last THEN Break(r) ELSE GotoLoop(r, id + 1, p)
        CheckAndLoop(r, out, q) ==
            IF ShouldVisit(r, out, q) THEN GotoLoop(Visited(r, out, q), out, q) ELSE Break(r)
        pushed == PushNext(s, id, p)
    IN CASE i.op = "Fail" -> Break(s)
         [] i.op = "AltMatch" ->
                IF Greedy(i) THEN GotoLoop(s, i.out1, end)
                ELSE IF s.longest THEN GotoLoop(s, i.out, end)
                ELSE NextInList(s)
         [] i.op = "ByteRange" ->
                IF ~Matches(i, ByteAt(search, p)) THEN NextInList(s)
                ELSE CheckAndLoop(IF i.hint = 0 THEN s ELSE Push(s, id + i.hint, p),
                                  i.out, p + 1)
         [] i.op = "Capture" ->
                CheckAndLoop(IF i.arg \in DOMAIN s.cap
                             THEN [Push(pushed, -id, s.cap[i.arg]) EXCEPT !.cap[i.arg] = p]
                             ELSE pushed, i.out, p)
         [] i.op = "EmptyWidth" ->
                IF i.arg \in EmptyFlags(search.context, p)
                THEN CheckAndLoop(pushed, i.out, p) ELSE NextInList(s)
         [] i.op = "Nop" -> CheckAndLoop(pushed, i.out, p)
         [] i.op = "Match" ->
                IF s.endmatch /\ p # end THEN NextInList(s)
                ELSE IF s.nsubmatch = 0
                THEN Break([s EXCEPT !.matched = TRUE, !.stop = TRUE])
                ELSE IF ~s.longest \/ p = end
                THEN Break([Recorded(s, p) EXCEPT !.stop = TRUE])
                ELSE NextInList(Recorded(s, p))

\* As many turns as the program has instructions, or until there is a break.
LoopOn(x) ==
    LET visit[n \in 0 .. ProgSize] ==
            IF n = 0 THEN x
            ELSE LET y == visit[n - 1] IN IF y.on THEN Loop(y) ELSE y
    IN visit[ProgSize]

\* All that a job for id at p leads to before the next one is popped.  It visits an
\* instruction at a position at most twice, the second time after the jump from an
\* AltMatch to the end.
LoopFrom(s, id, p) ==
    LET visits[n \in 0 .. 2 * (TextSize + 1)] ==
            IF n = 0 THEN [s |-> s, id |-> id, p |-> p, on |-> TRUE]
            ELSE LET x == visits[n - 1] IN IF x.on THEN LoopOn(x) ELSE x
    IN visits[2 * (TextSize + 1)].s

-----------------------------------------------------------------------------
BitInit == bit = Unset

\* TrySearch from p0, up to its first job.
TrySearch(s, p0) ==
    LET begun == [s EXCEPT !.p0 = p0, !.cap[0] = p0, !.matched = FALSE, !.job = <<>>] IN
    IF ShouldVisit(s, prog.start, p0)
    THEN Push(Visited(begun, prog.start, p0), prog.start, p0)
    ELSE begun

\* Where the search is tried from p on; an anchored one only from its beginning.
SkipAhead(s, p) ==
    IF ~s.anchored /\ p < search.to /\ CanPrefixAccel THEN SkipToPrefix(search, p) ELSE p

\* SearchBitState and Search up to the first attempt.
SearchBitState ==
    /\ Idle /\ kind = "forward"
    /\ \E s \in Searches("BitState", {"first", "longest", "full"}, family.nmatches) :
        LET nsubmatch == IF s.kind = "full" /\ s.nmatch = 0 THEN 1 ELSE s.nmatch
            ncap == IF nsubmatch = 0 THEN 2 ELSE 2 * nsubmatch
        IN /\ Begins(s)
           /\ IF Possible(s)
              THEN /\ bit' = [anchored |-> s.anchored \/ s.kind = "full"
                                                \/ prog.anchor_start,
                              longest |-> s.kind # "first" \/ prog.anchor_end,
                              endmatch |-> prog.anchor_end,
                              nsubmatch |-> nsubmatch, submatch |-> <<>>,
                              visited |-> {}, cap |-> [r \in 0 .. ncap - 1 |-> NULL],
                              job |-> <<>>, matched |-> FALSE, stop |-> FALSE,
                              p0 |-> s.from - 1]
                   /\ UNCHANGED answer
              ELSE answer' = NotFound /\ UNCHANGED bit
    /\ UNCHANGED vars

\* The next attempt of Search, the one before having found nothing.
NextAttempt ==
    /\ Searching("BitState") /\ bit.job = <<>> /\ ~bit.matched
    /\ IF bit.p0 = search.to \/ (bit.anchored /\ bit.p0 = search.from)
       THEN Answers(NotFound) /\ UNCHANGED bit
       ELSE /\ bit' = TrySearch(bit, SkipAhead(bit, bit.p0 + 1))
            /\ UNCHANGED searchVars
    /\ UNCHANGED vars

\* The job on top of the stack is popped and done.
DoJob ==
    /\ Searching("BitState") /\ bit.job # <<>> /\ ~bit.stop
    /\ LET top == bit.job[1]
           popped == [bit EXCEPT !.job = Tail(@)]
       IN bit' = IF top.id < 0
                 THEN [popped EXCEPT !.cap[prog.inst[-top.id].arg] = top.p]
                 ELSE IF top.rle > 0
                 THEN LoopFrom([bit EXCEPT !.job[1].rle = @ - 1], top.id, top.p + top.rle)
                 ELSE LoopFrom(popped, top.id, top.p)
    /\ UNCHANGED <<vars, searchVars>>

\* TrySearch has found a match: it wants no better one or there is no job left.
Report ==
    /\ Searching("BitState") /\ bit.matched
    /\ bit.stop \/ bit.job = <<>>
    /\ Answers(IF search.kind = "full" /\ bit.submatch[1][2] # search.to THEN NotFound
               ELSE [matched |-> TRUE, match |-> SubSeq(bit.submatch, 1, search.nmatch)])
    /\ UNCHANGED <<vars, bit>>

=============================================================================
