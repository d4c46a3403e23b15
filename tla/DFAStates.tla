------------------------------ MODULE DFAStates ------------------------------
(***************************************************************************)
(* The construction of DFA states in re2/dfa.cc, and what is done with     *)
(* them: the search for a match, the export of a whole DFA                 *)
(* (BuildAllStates) and PossibleMatchRange.                                *)
(*                                                                         *)
(* A State is what the cache compares: a sequence of instruction ids, with *)
(* Marks and the ids of matches, and flags.  How states are cached, shared *)
(* and deallocated is the subject of DFACache; here a state is computed    *)
(* whenever it is wanted.                                                  *)
(***************************************************************************)
EXTENDS ProgSearch

CONSTANT MaxLen     \* the length up to which possible matches are asked for

\* The answers to a search that can not match, and to the export of a DFA of no states.
NoneFound == [matched |-> FALSE, match |-> NULL, ids |-> {}]
NoStates == [next |-> <<>>, match |-> <<>>]

ASSUME DFAAssumption == MaxLen \in Nat /\ Unset \notin {NoneFound, NoStates}

VARIABLE dfa        \* what is done with the DFA and how far, or Unset

MarkId == -1
MatchSep == -2

\* The byte after the text.
kByteEndText == -1

DeadState == [inst |-> <<>>, flag |-> {}, need |-> {}]
FullMatchState == [inst |-> <<>>, flag |-> {"Full"}, need |-> {}]

Matching(s) == "Match" \in s.flag

-----------------------------------------------------------------------------
(* Work queues.  w.q is the queue, w.nstack how high the stack got.        *)

NewWorkq == [q |-> <<>>, nstack |-> 1]

\* Workq::mark.  last_was_mark_ is FALSE for good once anything was inserted, so that
\* a mark may be the first in its queue, or follow another.
Marked(w) == [w EXCEPT !.q = Append(@, MarkId)]

Marks(q) == Cardinality({k \in DOMAIN q : q[k] = MarkId})

NMark(matchkind) == IF matchkind = "longest" THEN ProgSize ELSE 0

\* The entries that stack_ has.
DFAStack(matchkind) == InstCount({"Capture", "EmptyWidth", "Nop"}) + NMark(matchkind) + 1

\* A turn of the loop of AddToQueue: x.todo are the ids, the one in hand first.
Enqueue(x, flag, matchkind) ==
    LET w == x.w
        id == Head(x.todo)
        i == prog.inst[id]
        added == [w EXCEPT !.q = Append(@, id)]
        Goto(v, ids) == [w |-> v, todo |-> ids \o Tail(x.todo)]
        \* the .*? loop in front of a leftmost-longest search: later threads come
        \* after a mark
        marks == IF /\ i.op = "Nop" /\ NMark(matchkind) > 0
                    /\ id = prog.start_unanchored /\ id # prog.start
                 THEN <<MarkId>> ELSE <<>>
        Push(ids, out) ==
            LET st == ids \o Tail(x.todo) IN
            [w |-> [added EXCEPT !.nstack = IF @ < Len(st) THEN Len(st) ELSE @],
             todo |-> out \o st]
    IN CASE id = MarkId -> Goto(Marked(w), <<>>)
         [] id # MarkId /\ (id = 0 \/ Contains(w.q, id)) -> Goto(w, <<>>)
         [] OTHER ->
            CASE i.op \in {"ByteRange", "Match"} -> Goto(added, IdsAfter(id))
              [] i.op \in {"Capture", "Nop"} -> Push(marks \o IdsAfter(id), <<i.out>>)
              [] i.op = "AltMatch" -> Goto(added, <<id + 1>>)
              [] i.op = "EmptyWidth" ->
                    Push(IdsAfter(id), IF i.arg \in flag THEN <<i.out>> ELSE <<>>)
              [] i.op = "Fail" -> Goto(added, <<>>)

\* Each instruction that is not yet queued is added once and leaves at most three ids.
MaxIds(q) == 3 * (ProgSize - Cardinality(ToSet(q) \ {MarkId})) + 1

AddToQueue(w, id, flag, matchkind) ==
    LET queued[n \in 0 .. MaxIds(w.q)] ==
            IF n = 0 THEN [w |-> w, todo |-> <<id>>]
            ELSE LET x == queued[n - 1]
                 IN IF x.todo = <<>> THEN x ELSE Enqueue(x, flag, matchkind)
    IN queued[MaxIds(w.q)].w

\* The queue that the instructions ids lead to, StateToWorkq and RunWorkqOnEmptyString.
AddAll(w, ids, flag, matchkind) ==
    LET added[k \in 0 .. Len(ids)] ==
            IF k = 0 THEN w ELSE AddToQueue(added[k - 1], ids[k], flag, matchkind)
    IN added[Len(ids)]

\* What a state lists before the ids of its matches.
StateInsts(s) ==
    LET seps == {k \in DOMAIN s.inst : s.inst[k] = MatchSep} IN
    IF seps = {} THEN s.inst ELSE SubSeq(s.inst, 1, Min(seps) - 1)

-----------------------------------------------------------------------------
(* RunWorkqOnByte, over the queue q from its k-th entry on. *)

\* Where the queue goes on after the instruction id in its k-th place took a byte.
SkipList(q, k) ==
    LET i == prog.inst[q[k]]
        last == CHOOSE id \in DOMAIN prog.inst :
                    /\ id >= q[k] /\ prog.inst[id].last
                    /\ \A d \in q[k] .. id - 1 : ~prog.inst[d].last
    IN IF i.hint # 0 THEN k + i.hint ELSE k + (last - q[k]) + 1

\* The turn of the loop for the k-th entry of q.  x.w is the queue to fill, x.w.ismatch
\* tells whether a match was met, and before x.k the loop does nothing.
RunEntry(x, q, k, c, flag, matchkind) ==
    LET w == x.w
        i == prog.inst[q[k]]
        Go(v, n) == [w |-> v, k |-> n]
        Stop(v) == Go(v, Len(q) + 1)
    IN CASE k < x.k -> x
         [] k = x.k /\ q[k] = MarkId -> IF w.ismatch THEN Stop(w) ELSE Go(Marked(w), k + 1)
         [] OTHER ->
            CASE i.op = "ByteRange" ->
                    IF Matches(i, c)
                    THEN Go(AddToQueue(w, i.out, flag, matchkind), SkipList(q, k))
                    ELSE Go(w, k + 1)
              [] i.op = "Match" ->
                    IF prog.anchor_end /\ c # kByteEndText /\ matchkind # "many"
                    THEN Go(w, k + 1)
                    ELSE IF matchkind = "first" THEN Stop([w EXCEPT !.ismatch = TRUE])
                    ELSE Go([w EXCEPT !.ismatch = TRUE], k + 1)
              [] OTHER -> Go(w, k + 1)

RunOnByte(w, q, c, flag, matchkind) ==
    LET ran[k \in 0 .. Len(q)] ==
            IF k = 0 THEN [w |-> w, k |-> 1]
            ELSE RunEntry(ran[k - 1], q, k, c, flag, matchkind)
    IN ran[Len(q)].w

-----------------------------------------------------------------------------
(* WorkqToCachedState. *)

\* The turn of the loop for the k-th entry of q.  u.inst are the instructions kept,
\* u.need the flags they may need; u.full says that all that is left matches, and u.done
\* that the loop is left.
KeepEntry(u, q, k, flag, matchkind) ==
    LET id == q[k]
        i == prog.inst[id]
        full == /\ i.op = "AltMatch" /\ matchkind # "many"
                /\ matchkind = "first" => k = 1 /\ Greedy(i)
                /\ matchkind = "longest" => ~u.sawmark
                /\ "Match" \in flag
    IN CASE u.done -> u
         [] ~u.done /\ u.sawmatch /\ (matchkind = "first" \/ id = MarkId) ->
                [u EXCEPT !.done = TRUE]
         [] ~u.done /\ ~u.sawmatch /\ id = MarkId ->
                IF u.inst # <<>> /\ Last(u.inst) # MarkId
                THEN [u EXCEPT !.inst = Append(@, MarkId), !.sawmark = TRUE] ELSE u
         [] OTHER ->
            IF full THEN [u EXCEPT !.full = TRUE, !.done = TRUE]
            ELSE [u EXCEPT
                    !.inst = IF prog.inst[id - 1].last THEN Append(@, id) ELSE @,
                    !.need = IF i.op = "EmptyWidth" THEN @ \union {i.arg} ELSE @,
                    !.sawmatch = @ \/ (i.op = "Match" /\ ~prog.anchor_end)]

\* The instructions to keep of the queue q.
Keep(q, flag, matchkind) ==
    LET kept[k \in 0 .. Len(q)] ==
            IF k = 0 THEN [inst |-> <<>>, need |-> {}, full |-> FALSE, sawmatch |-> FALSE,
                           sawmark |-> FALSE, done |-> FALSE]
            ELSE KeepEntry(kept[k - 1], q, k, flag, matchkind)
    IN kept[Len(q)]

\* Each set of instructions between two marks in ascending order.
SortedSets(ids) ==
    LET MarksBefore(k) == Cardinality({m \in 1 .. k - 1 : ids[m] = MarkId})
        Goes(j, k) ==       \* does what is in place j go before what is in place k?
            IF MarksBefore(j) # MarksBefore(k) THEN MarksBefore(j) < MarksBefore(k)
            ELSE ids[k] = MarkId \/ (ids[j] # MarkId /\ ids[j] < ids[k])
        Place(k) == 1 + Cardinality({j \in DOMAIN ids : j # k /\ Goes(j, k)})
    IN [n \in DOMAIN ids |-> ids[CHOOSE k \in DOMAIN ids : Place(k) = n]]

\* Flags that no instruction waits for are of no use.
FlagsOf(flag, need) == IF need = {} THEN flag \intersect {"Match"} ELSE flag

\* A mark at the end of the queue separates nothing.
DropLastMark(ids) == IF ids # <<>> /\ Last(ids) = MarkId THEN Front(ids) ELSE ids

\* In what order the instructions of a set were met makes no difference to it, except
\* to a leftmost match.  A queue for many matches has no mark, and is one set.
Canonical(ids, matchkind) == IF matchkind = "first" THEN ids ELSE SortedSets(ids)

\* The ids of the matches in the queue mq.
MatchIdsIn(mq) ==
    LET listed[k \in 0 .. Len(mq)] ==
            IF k = 0 THEN <<>>
            ELSE IF mq[k] # MarkId /\ prog.inst[mq[k]].op = "Match"
                 THEN Append(listed[k - 1], prog.inst[mq[k]].arg) ELSE listed[k - 1]
    IN listed[Len(mq)]

\* The state of the instructions kept, with the matches in mq listed, if any.
StateOf(kept, need, mq, flags, matchkind) ==
    IF kept = <<>> /\ flags = {} THEN DeadState
    ELSE [inst |-> IF mq = <<>> THEN Canonical(kept, matchkind)
                   ELSE Canonical(kept, matchkind) \o <<MatchSep>> \o MatchIdsIn(mq),
          flag |-> flags, need |-> need]

Cached(u, mq, flag, matchkind) ==
    IF u.full THEN FullMatchState
    ELSE StateOf(DropLastMark(u.inst), u.need, mq, FlagsOf(flag, u.need), matchkind)

\* The state for the queue q; mq is the queue of the matches to list, if any.
WorkqToCachedState(q, mq, flag, matchkind) ==
    Cached(Keep(q, flag, matchkind), mq, flag, matchkind)

-----------------------------------------------------------------------------
(* RunStateOnByte. *)

\* The flags before byte c in state s.
BeforeFlag(s, c) ==
    LET isword == c # kByteEndText /\ IsWordChar(c) IN
    (s.flag \intersect EmptyOps)
        \union (IF c = Newline THEN {"EndLine"} ELSE {})
        \union (IF c = kByteEndText THEN {"EndLine", "EndText"} ELSE {})
        \union (IF isword <=> "LastWord" \in s.flag THEN {"NonWordBoundary"}
                                                      ELSE {"WordBoundary"})

AfterFlag(c) == IF c = Newline THEN {"BeginLine"} ELSE {}

\* The queue that state s stands for before byte c.
Loaded(s, c, matchkind) ==
    LET old == s.flag \intersect EmptyOps
        before == BeforeFlag(s, c)
        Again(w) == IF (before \ old) \intersect s.need = {} THEN w
                    ELSE AddAll([w EXCEPT !.q = <<>>], w.q, before, matchkind)
    IN Again(AddAll(NewWorkq, StateInsts(s), old, matchkind))

\* The state for w2, the queue after byte c, when w1 was the one before; how high the
\* stack got on the way, and how many marks were in a queue.
StateFor(w1, w2, c, matchkind) ==
    LET flag == AfterFlag(c) \union (IF w2.ismatch THEN {"Match"} ELSE {})
                    \union (IF c # kByteEndText /\ IsWordChar(c) THEN {"LastWord"} ELSE {})
    IN [state |-> WorkqToCachedState(w2.q, IF w2.ismatch /\ matchkind = "many"
                                           THEN w1.q ELSE <<>>, flag, matchkind),
        nstack |-> w2.nstack,
        nmark |-> Max({Marks(w1.q), Marks(w2.q)})]

\* The state after byte c in state s.
RunState(s, c, matchkind) ==
    LET Ran(w) == StateFor(w, RunOnByte([ismatch |-> FALSE, q |-> <<>>, nstack |-> w.nstack],
                                      w.q, c, AfterFlag(c), matchkind), c, matchkind)
    IN Ran(Loaded(s, c, matchkind))

\* Whatever the rest of the text is, it matches.
RunStateOnByte(s, c, matchkind) ==
    IF s = FullMatchState THEN [state |-> s, nstack |-> 1, nmark |-> 0]
    ELSE RunState(s, c, matchkind)

\* An arrow is computed once for all bytes of a class, from any of them.
ByteClass(c) ==
    IF c = kByteEndText THEN {c} ELSE {d \in Byte : prog.bytemap[d] = prog.bytemap[c]}

-----------------------------------------------------------------------------
(* Searches. *)

\* The flags at the beginning of the text.
StartFlags(v) ==
    IF v.from = 0 THEN {"BeginText", "BeginLine"}
    ELSE LET c == v.context[v.from] IN
         IF c = Newline THEN {"BeginLine"} ELSE IF IsWordChar(c) THEN {"LastWord"} ELSE {}

\* AnalyzeSearch: the start state.
StartState(anchored, flag, matchkind) ==
    LET Started(w) == [state |-> WorkqToCachedState(w.q, <<>>, flag, matchkind),
                       nstack |-> w.nstack, nmark |-> Marks(w.q)]
    IN Started(AddToQueue(NewWorkq,
                          IF anchored THEN prog.start ELSE prog.start_unanchored,
                          flag, matchkind))

\* Mistake: an anchored search skips bytes, too.
AccelEvenAnchored(anchored, start) ==
    CanPrefixAccel /\ start \notin {DeadState, FullMatchState} /\ start.need = {}

\* Even a program with a prefix needs every byte where it is anchored or needs flags.
MayAccel(anchored, start) ==
    /\ CanPrefixAccel /\ ~anchored
    /\ start \notin {DeadState, FullMatchState} /\ start.need = {}

\* The ids of the matches that a state of a set's DFA lists.
MatchIds(s) ==
    IF ~Contains(s.inst, MatchSep) THEN {}
    ELSE LET sep == IndexFirstSubSeq(<<MatchSep>>, s.inst) IN
         {s.inst[k] : k \in sep + 1 .. Len(s.inst)}

\* The byte after the text, as seen by a search that got to its end.
LastByte(v) == IF v.to = Len(v.context) THEN kByteEndText ELSE v.context[v.to + 1]

\* Search returns that it matched or not, with the end of the match.
Returns(v, d, matched, ep) ==
    Answers(IF matched /\ ~(d.endmatch /\ ep # v.to)
            THEN [matched |-> TRUE, match |-> IF search.nmatch = 0 THEN NULL ELSE ep,
                  ids |-> d.ids]
            ELSE [matched |-> FALSE, match |-> NULL, ids |-> d.ids])

High(d, r) == [d EXCEPT !.nstack = IF @ < r.nstack THEN r.nstack ELSE @,
                        !.nmark = IF @ < r.nmark THEN r.nmark ELSE @]

\* The DFA enters state s, which may tell that a match ended at p.
Enters(d, s, p) ==
    IF ~Matching(s) THEN [d EXCEPT !.s = s]
    ELSE [d EXCEPT !.s = s, !.matched = TRUE, !.lastmatch = p,
                   !.ids = IF search.nmatch = 0 THEN @ ELSE @ \union MatchIds(s)]

DFAInit == dfa = Unset

\* The searches that are made of a DFA: one for the longest match where only its
\* existence is asked for, and of a set for the ids of its matches, if at all.
DFASearches ==
    IF IsSet(kind)
    THEN {s \in Searches("DFA", {"many"}, {0, 1}) : s.anchored /\ s.from = 0
                                           /\ s.to = Len(s.context)}
    ELSE {s \in Searches("DFA", {"first", "longest", "full"}, {0, 1}) :
            kind = "reverse" /\ s.kind = "first" => s.nmatch = 0}

\* The search of v for matches of matchkind, from the start state r.state on.
\* No start state has the flag of a match: its work queue was not run on a byte.
SearchFrom(r, s, v, matchkind, anchored, endmatch) ==
    [matchkind |-> matchkind, endmatch |-> endmatch,
     earliest |-> s.nmatch = 0 /\ ~endmatch, accel |-> MayAccel(anchored, r.state),
     start |-> r.state, s |-> r.state, p |-> v.from, matched |-> FALSE,
     lastmatch |-> NULL, ids |-> {}, nstack |-> r.nstack, nmark |-> r.nmark]

\* SearchDFA, AnalyzeSearch and Search up to the loop over the text.  A program that
\* runs backward reads the mirror image of what it searches.
SearchDFA ==
    /\ Idle
    /\ \E s \in DFASearches :
        LET v == View(s)
            endmatch == s.kind = "full" \/ (s.kind # "many" /\ prog.anchor_end)
            matchkind == IF s.kind # "many" /\ (endmatch \/ s.nmatch = 0)
                         THEN "longest" ELSE s.kind
            anchored == s.anchored \/ prog.anchor_start \/ s.kind = "full"
        IN /\ Begins(s)
           /\ IF ~Possible(v)
              THEN /\ answer' = NoneFound
                   /\ UNCHANGED dfa
              ELSE /\ dfa' = SearchFrom(StartState(anchored, StartFlags(v), matchkind),
                                        s, v, matchkind, anchored, endmatch)
                   /\ UNCHANGED answer
    /\ UNCHANGED vars

\* The start state is special: the search is over.
SpecialStart ==
    /\ Searching("DFA") /\ dfa.s \in {DeadState, FullMatchState}
    /\ LET v == View(search) IN
       Returns(v, dfa, dfa.s = FullMatchState, IF dfa.earliest THEN v.from ELSE v.to)
    /\ UNCHANGED <<vars, dfa>>

\* The byte at q led to r.state.
AfterByte(v, q, r) ==
    LET d == Enters([High(dfa, r) EXCEPT !.p = q + 1], r.state, q)
    IN CASE r.state = DeadState ->
                /\ Returns(v, dfa, dfa.matched, dfa.lastmatch)
                /\ dfa' = High(dfa, r)
         [] r.state = FullMatchState -> Returns(v, dfa, TRUE, v.to) /\ dfa' = High(dfa, r)
         [] OTHER ->
                /\ dfa' = d
                /\ IF dfa.earliest /\ Matching(r.state) THEN Returns(v, d, TRUE, q)
                                                        ELSE UNCHANGED searchVars

\* A byte of the text, before which a match may have ended.
DFAByte ==
    /\ Searching("DFA") /\ dfa.s \notin {DeadState, FullMatchState}
    /\ LET v == View(search)
           q == IF dfa.accel /\ dfa.s = dfa.start THEN SkipToPrefix(v, dfa.p) ELSE dfa.p
       IN /\ dfa.p < v.to
          /\ IF q = v.to THEN dfa' = [dfa EXCEPT !.p = q] /\ UNCHANGED searchVars
             ELSE \E c \in ByteClass(ByteAt(v, q)) :
                    AfterByte(v, q, RunStateOnByte(dfa.s, c, dfa.matchkind))
    /\ UNCHANGED vars

\* The byte after the text led to r.state.
AfterEnd(v, r) ==
    LET d == Enters(High(dfa, r), r.state, v.to) IN
    /\ dfa' = d
    /\ IF r.state = FullMatchState THEN Returns(v, d, TRUE, v.to)
                                   ELSE Returns(v, d, d.matched, d.lastmatch)

\* One more byte, to see whether a match ends with the text.
DFAEnd ==
    /\ Searching("DFA") /\ dfa.s \notin {DeadState, FullMatchState}
    /\ LET v == View(search) IN
       /\ dfa.p = v.to
       /\ \E c \in ByteClass(LastByte(v)) :
            AfterEnd(v, RunStateOnByte(dfa.s, c, dfa.matchkind))
    /\ UNCHANGED vars

-----------------------------------------------------------------------------
(* The export of the whole DFA, BuildAllStates.  State number n is m[n + 1], and *)
(* its row of next holds the state that each class of bytes, and the end of the  *)
(* text, leads to, or -1.                                                        *)

BeginText == {"BeginText", "BeginLine"}

\* The classes of bytes are numbered from 0.
bytemap_range == Cardinality({prog.bytemap[c] : c \in Byte})

\* The slots of a row, kByteEndText for the last.
Slots == (0 .. bytemap_range - 1) \union {kByteEndText}

\* The byte that stands for a slot: the last of its class.
Input(b) ==
    IF b = kByteEndText THEN b
    ELSE CHOOSE c \in Byte : /\ prog.bytemap[c] = b
                             /\ \A d \in Byte : prog.bytemap[d] = b => d <= c

\* In the order of the code: the classes, then the end of the text.
Inputs == [k \in 1 .. bytemap_range + 1 |-> IF k = bytemap_range + 1 THEN kByteEndText ELSE k - 1]

\* A DFA is built for one of these kinds; for matches of any kind only where the end
\* of the text is not asked for outside of the instructions.
ExportKinds ==
    IF IsSet(kind) THEN {"many"}
    ELSE {"first", "longest"} \union (IF prog.anchor_end THEN {} ELSE {"many"})

BuildAllStates ==
    /\ Idle
    /\ \E k \in ExportKinds :
        LET r == StartState(FALSE, BeginText, k) IN
        /\ Begins([engine |-> "Export", kind |-> k])
        /\ IF r.state = DeadState
           THEN answer' = NoStates /\ UNCHANGED dfa
           ELSE /\ dfa' = [m |-> <<r.state>>, next |-> <<>>, matchkind |-> k,
                           nstack |-> r.nstack, nmark |-> r.nmark]
                /\ UNCHANGED answer
    /\ UNCHANGED vars

\* Mistake: no arrow is an arrow to the start state.
DeadIsStart(m, s) == IF s = DeadState THEN 0 ELSE SelectInSeq(m, LAMBDA x : x = s) - 1

\* The number of a state, which gets one if it has none.
Number(m, s) == IF s = DeadState THEN -1 ELSE SelectInSeq(m, LAMBDA x : x = s) - 1
WithState(m, s) == IF s = DeadState \/ Contains(m, s) THEN m ELSE Append(m, s)

\* The next state of the queue leads to r[b].state on the bytes of slot b.
WithRow(d, r) ==
    LET numbered[k \in 0 .. Len(Inputs)] ==
            IF k = 0 THEN d.m ELSE WithState(numbered[k - 1], r[Inputs[k]].state)
        m == numbered[Len(Inputs)]
    IN [d EXCEPT !.m = m,
                 !.next = Append(@, [b \in Slots |-> Number(m, r[b].state)]),
                 !.nstack = Max({@} \union {r[b].nstack : b \in Slots}),
                 !.nmark = Max({@} \union {r[b].nmark : b \in Slots})]

\* The next state of the queue is expanded.
ExpandState ==
    /\ Searching("Export") /\ Len(dfa.next) < Len(dfa.m)
    /\ dfa' = WithRow(dfa, [b \in Slots |-> RunStateOnByte(dfa.m[Len(dfa.next) + 1], Input(b),
                                                           dfa.matchkind)])
    /\ UNCHANGED <<vars, searchVars>>

\* All states have been handed to the callback, with whether they match.
Exported ==
    /\ Searching("Export") /\ Len(dfa.next) = Len(dfa.m)
    /\ Answers([next |-> dfa.next,
                match |-> [n \in DOMAIN dfa.m |->
                            dfa.m[n] = FullMatchState \/ Matching(dfa.m[n])]])
    /\ UNCHANGED <<vars, dfa>>

\* The table that the other overloads write: a column for each byte, none for the end
\* of the text, and the start state where there is no arrow.
Table(next) ==
    [n \in DOMAIN next |->
        [c \in Byte |-> LET to == next[n][prog.bytemap[c]] IN IF to = -1 THEN 0 ELSE to]]

-----------------------------------------------------------------------------
(* PossibleMatchRange. *)

\* Is there graph behind s?
Leads(s) == s = FullMatchState \/ s.inst # <<>>

\* The states that the bytes, and the end of the text, lead to from s.
Arrows(s) ==
    [c \in Byte \union {kByteEndText} |-> RunStateOnByte(s, c, "longest").state]

Ways(next) == {c \in Byte : Leads(next[c])}

\* A walk from s along its arrows: x.prefix are the bytes so far, x.on that it goes on,
\* and x.cut, of the walk along the highest bytes, that it might have gone on.
WalkFrom(s) == [s |-> s, seen |-> {}, prefix |-> <<>>, on |-> TRUE, cut |-> TRUE]

Extended(x, next, c) ==
    [x EXCEPT !.s = next[c], !.seen = @ \union {x.s}, !.prefix = Append(@, c)]

\* A turn of the walk along the lowest bytes, which ends at a match or in a state that
\* was seen before.
MinTurn(x) ==
    LET Turned(next) ==
            LET end == next[kByteEndText] IN
            IF end = FullMatchState \/ Matching(end) \/ Ways(next) = {}
            THEN [x EXCEPT !.on = FALSE]
            ELSE Extended(x, next, Min(Ways(next)))
    IN IF x.s \in x.seen THEN [x EXCEPT !.on = FALSE] ELSE Turned(Arrows(x.s))

\* A turn of the walk along the highest bytes.
MaxTurn(x) ==
    LET Turned(next) ==
            IF Ways(next) = {} THEN [x EXCEPT !.on = FALSE, !.cut = FALSE]
            ELSE Extended(x, next, Max(Ways(next)))
    IN IF x.s \in x.seen THEN [x EXCEPT !.on = FALSE] ELSE Turned(Arrows(x.s))

MinWalk(s, maxlen) ==
    LET walk[n \in 0 .. maxlen] ==
            IF n = 0 THEN WalkFrom(s)
            ELSE LET x == walk[n - 1] IN IF x.on THEN MinTurn(x) ELSE x
    IN walk[maxlen]

MaxWalk(s, maxlen) ==
    LET walk[n \in 0 .. maxlen] ==
            IF n = 0 THEN WalkFrom(s)
            ELSE LET x == walk[n - 1] IN IF x.on THEN MaxTurn(x) ELSE x
    IN walk[maxlen]

\* Mistake: the walk that was cut short is not rounded up.
NoSuccessor(prefix) == prefix

\* PrefixSuccessor: the first string after all those that begin with this one.
PrefixSuccessor(prefix) ==
    LET small == {k \in DOMAIN prefix : prefix[k] # MaxByte} IN
    IF small = {} THEN <<>> ELSE [SubSeq(prefix, 1, Max(small)) EXCEPT ![Max(small)] = @ + 1]

\* The range for the walks from the start state, of which the one along the highest
\* bytes is walk.
MatchRange(start, walk, maxlen) ==
    LET max == IF walk.cut THEN PrefixSuccessor(walk.prefix) ELSE walk.prefix
    IN IF start = DeadState THEN [ok |-> TRUE, min |-> <<>>, max |-> <<>>]
       ELSE IF start = FullMatchState \/ (walk.cut /\ max = <<>>) THEN [ok |-> FALSE]
       ELSE [ok |-> TRUE, min |-> MinWalk(start, maxlen).prefix, max |-> max]

PossibleMatchRange ==
    /\ Idle /\ kind = "forward"
    /\ \E maxlen \in 1 .. MaxLen :
        LET RangeFrom(start) == MatchRange(start, MaxWalk(start, maxlen), maxlen) IN
        /\ Begins([engine |-> "Range", maxlen |-> maxlen])
        /\ answer' = RangeFrom(StartState(TRUE, BeginText, "longest").state)
    /\ UNCHANGED <<vars, dfa>>

=============================================================================
