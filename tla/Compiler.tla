------------------------------ MODULE Compiler ------------------------------
(***************************************************************************)
(* The compiler (re2/compile.cc): it walks a simplified regexp after its   *)
(* children and joins, with one operation for each operator, fragments of  *)
(* program whose loose ends, the holes, are patched later.                 *)
(*                                                                         *)
(* The walk is a stack machine: `frags' holds the fragment of every visited*)
(* node whose parent is still to be visited, next to the regexp that the   *)
(* fragment stands for.  A node is visited only over children the parser   *)
(* and the simplifier let it have.                                         *)
(*                                                                         *)
(* A patch list, threaded in the code through the very fields that it will *)
(* patch, is here the set of those fields, and a field on a list holds     *)
(* Hole.                                                                   *)
(***************************************************************************)
EXTENDS Regexps, FiniteSets, SequencesExt

CONSTANT Families   \* the regexps to compile, and how: see FamilyAssumption

Hole == -1

\* A family is built from leaves and operators and has at most so many nodes.  It
\* is compiled as each of its kinds (a forward or a reverse program, or a set with
\* an anchor) into at most max_inst instructions, which run on texts over an
\* alphabet up to a length.
ASSUME FamilyAssumption ==
    \A f \in Families :
        /\ {f.nodes, f.max_inst, f.text_length} \subseteq Nat
        /\ f.alphabet \subseteq Byte
        /\ \A re \in f.leaves :
            /\ re.op \in {"NoMatch", "EmptyMatch", "Literal", "AnyByte", "CharClass",
                         "EmptyWidth"}
            /\ re.op = "CharClass" => re.cc \in Seq(Byte \X Byte) \ {<<>>}
        /\ f.operators \subseteq Loops \union {"Concat", "Alternate", "Capture"}
        /\ f.kinds \subseteq {"forward", "reverse", "UNANCHORED", "ANCHOR_START",
                              "ANCHOR_BOTH"}

VARIABLES
    family,     \* where the regexp is from; family.max_inst is max_ninst_
    kind,       \* reversed_, and anchor_ of a set
    inst,       \* inst_[0 .. ninst_-1]
    failed,     \* failed_
    frags,      \* the walk's stack
    stage,      \* how far Compile is
    prog        \* the finished program

vars == <<family, kind, inst, failed, frags, stage, prog>>

-----------------------------------------------------------------------------
(* Instructions. *)

Inst(op, out) == [op |-> op, out |-> out, out1 |-> 0, lo |-> 0, hi |-> 0,
                  foldcase |-> FALSE, arg |-> 0, hint |-> 0, last |-> FALSE]

Fail == Inst("Fail", 0)
NopInst(out) == Inst("Nop", out)
AltInst(out, out1) == [Inst("Alt", out) EXCEPT !.out1 = out1]
RangeInst(lo, hi, foldcase, out) ==
    [Inst("ByteRange", out) EXCEPT !.lo = lo, !.hi = hi, !.foldcase = foldcase]
CaptureInst(cap, out) == [Inst("Capture", out) EXCEPT !.arg = cap]
EmptyInst(flag, out) == [Inst("EmptyWidth", out) EXCEPT !.arg = flag]
MatchInst(id) == [Inst("Match", 0) EXCEPT !.arg = id]

Frag(begin, end, nullable) == [begin |-> begin, end |-> end, nullable |-> nullable]
NoMatch == Frag(0, {}, FALSE)
IsNoMatch(f) == f.begin = 0

\* PatchList::Patch: every hole of the list becomes p.
Patch(insts, holes, p) ==
    [i \in DOMAIN insts |->
        [insts[i] EXCEPT !.out = IF <<i, "out">> \in holes THEN p ELSE @,
                         !.out1 = IF <<i, "out1">> \in holes THEN p ELSE @]]

-----------------------------------------------------------------------------
(* The operations.  Each takes the compiler, a record c of its instructions *)
(* and failed_, and leaves in c.frag the fragment it returns.               *)

Size(c) == Cardinality(DOMAIN c.inst)

HasRoomFor(c, n) == ~c.failed /\ Size(c) + n <= family.max_inst

\* AllocInst, and the new instructions filled in.
Emit(c, new, frag) ==
    IF HasRoomFor(c, Len(new))
    THEN [inst |-> [i \in 0 .. Size(c) + Len(new) - 1 |->
                        IF i < Size(c) THEN c.inst[i] ELSE new[i - Size(c) + 1]],
          failed |-> FALSE,
          frag |-> frag]
    ELSE [c EXCEPT !.failed = TRUE, !.frag = NoMatch]

Patched(c, holes, p) == [c EXCEPT !.inst = Patch(@, holes, p)]

ByteRange(c, lo, hi, foldcase) ==
    Emit(c, <<RangeInst(lo, hi, foldcase, Hole)>>,
         Frag(Size(c), {<<Size(c), "out">>}, FALSE))

Nop(c) == Emit(c, <<NopInst(Hole)>>, Frag(Size(c), {<<Size(c), "out">>}, TRUE))

EmptyWidth(c, flag) ==
    Emit(c, <<EmptyInst(flag, Hole)>>, Frag(Size(c), {<<Size(c), "out">>}, TRUE))

Match(c, id) == Emit(c, <<MatchInst(id)>>, Frag(Size(c), {}, FALSE))

\* Is fragment a a lone no-op?
IsElided(c, a) ==
    c.inst[a.begin].op = "Nop" /\ a.end = {<<a.begin, "out">>}

Cat(c, a, b, reversed) ==
    IF IsNoMatch(a) \/ IsNoMatch(b) THEN [c EXCEPT !.frag = NoMatch]
    ELSE IF IsElided(c, a) THEN [Patched(c, a.end, b.begin) EXCEPT !.frag = b]
    ELSE IF reversed
         THEN [Patched(c, b.end, a.begin) EXCEPT
                    !.frag = Frag(b.begin, a.end, b.nullable /\ a.nullable)]
         ELSE [Patched(c, a.end, b.begin) EXCEPT
                    !.frag = Frag(a.begin, b.end, a.nullable /\ b.nullable)]

\* Mistake: the second choice comes first.
AltSwapped(c, a, b) ==
    IF IsNoMatch(a) THEN [c EXCEPT !.frag = b]
    ELSE IF IsNoMatch(b) THEN [c EXCEPT !.frag = a]
    ELSE Emit(c, <<AltInst(b.begin, a.begin)>>,
              Frag(Size(c), a.end \union b.end, a.nullable \/ b.nullable))

Alt(c, a, b) ==
    IF IsNoMatch(a) THEN [c EXCEPT !.frag = b]
    ELSE IF IsNoMatch(b) THEN [c EXCEPT !.frag = a]
    ELSE Emit(c, <<AltInst(a.begin, b.begin)>>,
              Frag(Size(c), a.end \union b.end, a.nullable \/ b.nullable))

\* The Alt of a loop, preferring the loop's body or not, and its way out.
Choice(begin, nongreedy) ==
    IF nongreedy THEN AltInst(Hole, begin) ELSE AltInst(begin, Hole)
WayOut(c, nongreedy) == {<<Size(c), IF nongreedy THEN "out" ELSE "out1">>}

\* Mistake: the loop is entered at its Alt.
PlusAtAlt(c, a, nongreedy) ==
    Patched(Emit(c, <<Choice(a.begin, nongreedy)>>,
                 Frag(Size(c), WayOut(c, nongreedy), a.nullable)),
            a.end, Size(c))

\* Mistake: every loop is greedy.
PlusGreedy(c, a, nongreedy) ==
    Patched(Emit(c, <<Choice(a.begin, FALSE)>>,
                 Frag(a.begin, WayOut(c, FALSE), a.nullable)),
            a.end, Size(c))

Plus(c, a, nongreedy) ==
    Patched(Emit(c, <<Choice(a.begin, nongreedy)>>,
                 Frag(a.begin, WayOut(c, nongreedy), a.nullable)),
            a.end, Size(c))

\* Mistake: the list of the body is dropped.
QuestDropsBody(c, a, nongreedy) ==
    IF IsNoMatch(a) THEN Nop(c)
    ELSE Emit(c, <<Choice(a.begin, nongreedy)>>,
              Frag(Size(c), WayOut(c, nongreedy), TRUE))

Quest(c, a, nongreedy) ==
    IF IsNoMatch(a) THEN Nop(c)
    ELSE Emit(c, <<Choice(a.begin, nongreedy)>>,
              Frag(Size(c), WayOut(c, nongreedy) \union a.end, TRUE))

\* A nullable body needs a second Alt, or the priorities in the transitive
\* closure are wrong.
Star(c, a, nongreedy) ==
    IF a.nullable
    THEN LET d == Plus(c, a, nongreedy) IN Quest(d, d.frag, nongreedy)
    ELSE Patched(Emit(c, <<Choice(a.begin, nongreedy)>>,
                      Frag(Size(c), WayOut(c, nongreedy), TRUE)),
                 a.end, Size(c))

Capture(c, a, n) ==
    IF IsNoMatch(a) THEN [c EXCEPT !.frag = NoMatch]
    ELSE Patched(Emit(c, <<CaptureInst(2 * n, a.begin), CaptureInst(2 * n + 1, Hole)>>,
                      Frag(Size(c), {<<Size(c) + 1, "out">>}, a.nullable)),
                 a.end, Size(c) + 1)

\* AddRuneRangeLatin1 and AddSuffix: one more range in the alternation c.frag.
AddRuneRange(c, lo, hi, foldcase) ==
    LET d == ByteRange(c, lo, hi, foldcase) IN
    IF d.failed \/ c.frag.begin = 0
    THEN d
    ELSE Emit(d, <<AltInst(c.frag.begin, d.frag.begin)>>,
              Frag(Size(d), c.frag.end \union d.frag.end, FALSE))

\* Does the class behave on 'A' .. 'Z' as it does on 'a' .. 'z'?
FoldsASCII(cc) ==
    \A u \in UpperA .. UpperZ : InClassOf(u, cc) <=> InClassOf(Lower(u), cc)

\* The turn of the loop over a class for its range r.
AddClassRange(c, cc, r) ==
    LET foldascii == FoldsASCII(cc)
        fold == /\ foldascii
                /\ ~ \/ r[1] <= UpperA /\ LowerZ <= r[2]
                     \/ r[2] < UpperA
                     \/ LowerZ < r[1]
                     \/ UpperZ < r[1] /\ r[2] < LowerA
    IN IF foldascii /\ UpperA <= r[1] /\ r[2] <= UpperZ THEN c
       ELSE AddRuneRange(c, r[1], r[2], fold)

CharClass(c, cc) ==
    FoldLeft(LAMBDA d, r : AddClassRange(d, cc, r), [c EXCEPT !.frag = NoMatch], cc)

\* .*?
DotStar(c) == LET d == ByteRange(c, 0, MaxByte, FALSE) IN Star(d, d.frag, TRUE)

-----------------------------------------------------------------------------
(* The walk. *)

Reversed(k) == k = "reverse"
IsSet(k) == k \in {"UNANCHORED", "ANCHOR_START", "ANCHOR_BOTH"}

HaveMatch(c, id, k) ==
    IF k = "ANCHOR_BOTH"
    THEN LET m == Match(c, id)
             e == EmptyWidth(m, "EndText")
         IN Cat(e, e.frag, m.frag, FALSE)
    ELSE Match(c, id)

\* The fragment of a leaf.
Leaf(c, re, k) ==
    CASE re.op = "NoMatch" -> [c EXCEPT !.frag = NoMatch]
      [] re.op = "EmptyMatch" -> Nop(c)
      [] re.op = "HaveMatch" -> HaveMatch(c, re.match_id, k)
      [] re.op = "Literal" -> ByteRange(c, re.rune, re.rune, re.foldcase)
      [] re.op = "AnyByte" -> ByteRange(c, 0, MaxByte, FALSE)
      [] re.op = "CharClass" -> CharClass(c, re.cc)
      [] re.op = "EmptyWidth" ->
            EmptyWidth(c, IF Reversed(k) THEN Mirror(re.flag) ELSE re.flag)

\* The loops of PostVisit over the fragments fs of the children.
CatAll(c, fs, reversed) ==
    FoldLeft(LAMBDA d, f : Cat(d, d.frag, f, reversed), [c EXCEPT !.frag = fs[1]], Tail(fs))
AltAll(c, fs) ==
    FoldLeft(LAMBDA d, f : Alt(d, d.frag, f), [c EXCEPT !.frag = fs[1]], Tail(fs))

\* The fragment of a node over those of its children, the sequence fs.
PostVisit(c, re, fs, k) ==
    CASE re.op = "Concat" -> CatAll(c, fs, Reversed(k))
      [] re.op = "Alternate" -> AltAll(c, fs)
      [] re.op = "Star" -> Star(c, fs[1], re.nongreedy)
      [] re.op = "Plus" -> Plus(c, fs[1], re.nongreedy)
      [] re.op = "Quest" -> Quest(c, fs[1], re.nongreedy)
      [] re.op = "Capture" -> Capture(c, fs[1], re.cap)
      [] OTHER -> Leaf(c, re, k)

\* A compiler that has not begun: only the fail instruction.
Start == [inst |-> [i \in {0} |-> Fail], failed |-> FALSE, frag |-> NoMatch]

\* Compile and CompileSet after the walk, and Finish up to the optimizer.
Finished(c, k, anchor_start, anchor_end) ==
    LET d == IF IsSet(k) THEN c
             ELSE LET m == Match(c, 0) IN Cat(m, c.frag, m.frag, FALSE)
        loops == IF IsSet(k) THEN k = "UNANCHORED" ELSE ~anchor_start
        e == IF loops
             THEN LET s == DotStar(d) IN Cat(s, s.frag, d.frag, FALSE)
             ELSE d
    IN [inst |-> IF d.frag.begin = 0 /\ e.frag.begin = 0 THEN Start.inst ELSE e.inst,
        failed |-> e.failed, flat |-> FALSE, bytemap |-> <<>>, prefix |-> <<>>,
        start |-> IF IsSet(k) THEN e.frag.begin ELSE d.frag.begin,
        start_unanchored |-> e.frag.begin,
        anchor_start |-> anchor_start, anchor_end |-> anchor_end]

-----------------------------------------------------------------------------
(* What the walk can meet. *)

\* Simplify leaves no loop over a loop of the same greed, nor over nothing, and
\* the parser flattens concatenations and alternations.  In a set, a regexp ends
\* with its match and nothing repeats it.
CanVisit(re, children) ==
    LET HasId(k) == children[k].ids # {} IN
    CASE re.op \in Loops ->
            /\ re.sub[1].op # "EmptyMatch"
            /\ re.sub[1].op \in Loops => re.sub[1].nongreedy # re.nongreedy
            /\ ~HasId(1)
      [] re.op = "Capture" -> ~HasId(1)
      [] re.op = "Concat" ->
            \A k \in DOMAIN children : /\ re.sub[k].op # "Concat"
                                       /\ k < Len(children) => ~HasId(k)
      [] re.op = "Alternate" ->
            \A k \in DOMAIN children : /\ re.sub[k].op # "Alternate"
                                       /\ HasId(k) <=> HasId(1)

\* The size of the regexps on the stack s, and the captures in them.
Total(s, Part(_)) == FoldLeft(LAMBDA n, e : n + Part(e), 0, s)
Nodes(s) == Total(s, LAMBDA e : e.nodes)
Captures(s) == Total(s, LAMBDA e : e.captures)

\* The nodes over the regexps of the given children.
NodesOver(children) ==
    LET subs == [k \in DOMAIN children |-> children[k].re] IN
    IF Len(children) = 1
    THEN {LoopRe(op, subs[1], g) : op \in family.operators \intersect Loops, g \in BOOLEAN}
         \union {CaptureRe(subs[1], Captures(frags) + 1) :
                    op \in family.operators \intersect {"Capture"}}
    ELSE {[op |-> op, sub |-> subs] :
            op \in family.operators \intersect {"Concat", "Alternate"}}

-----------------------------------------------------------------------------
Init ==
    /\ family \in Families /\ kind \in family.kinds
    /\ inst = Start.inst /\ failed = FALSE
    /\ frags = <<>>
    /\ stage = "walk"
    /\ prog = <<>>

\* Is re the next node of one of the family's walks, if it has any?
OnAWalk(re) ==
    family.walks = {} \/
    \E walk \in family.walks : /\ Nodes(frags) < Len(walk)
                               /\ walk[Nodes(frags) + 1] = re

\* The node is visited; PreVisit stops the walk once an allocation has failed.
Visit(re, below, children) ==
    LET c == PostVisit([inst |-> inst, failed |-> failed, frag |-> NoMatch], re,
                       [k \in DOMAIN children |-> children[k].frag], kind)
    IN /\ OnAWalk(re)
       /\ inst' = c.inst /\ failed' = c.failed
       /\ frags' = Append(below,
            [frag |-> c.frag, re |-> re,
             nodes |-> 1 + Nodes(children),
             captures |-> Captures(children) + (IF re.op = "Capture" THEN 1 ELSE 0),
             ids |-> (UNION {children[k].ids : k \in DOMAIN children})
                        \union (IF re.op = "HaveMatch" THEN {re.match_id} ELSE {})])
       /\ UNCHANGED <<family, kind, stage, prog>>

VisitLeaf ==
    /\ stage = "walk" /\ ~failed
    /\ Nodes(frags) < family.nodes
    /\ \E re \in family.leaves : Visit(re, frags, <<>>)

\* A set's regexp ends with a match that has its index.
VisitHaveMatch ==
    /\ stage = "walk" /\ ~failed
    /\ IsSet(kind)
    /\ Nodes(frags) < family.nodes
    /\ frags # <<>> /\ Last(frags).ids = {}
    /\ Visit(HaveMatchRe(Cardinality(UNION {frags[k].ids : k \in DOMAIN frags})),
             frags, <<>>)

VisitParent ==
    /\ stage = "walk" /\ ~failed
    /\ Nodes(frags) < family.nodes
    /\ \E n \in 1 .. Len(frags) :
        LET below == SubSeq(frags, 1, Len(frags) - n)
            children == SubSeq(frags, Len(frags) - n + 1, Len(frags))
        IN \E re \in NodesOver(children) : /\ CanVisit(re, children)
                                           /\ Visit(re, below, children)

\* The walk is over: the match, the loop in front, and the program is handed on.
\* IsAnchorStart and IsAnchorEnd have taken any anchors off before the walk.
Finish ==
    /\ stage = "walk" /\ ~failed
    /\ Len(frags) = 1
    /\ IsSet(kind) <=> frags[1].ids # {}
    /\ \E anchor_start, anchor_end \in BOOLEAN :
        LET p == Finished([inst |-> inst, failed |-> FALSE, frag |-> frags[1].frag],
                          kind, anchor_start, anchor_end)
        IN /\ IsSet(kind) => anchor_start /\ anchor_end
           /\ inst' = p.inst /\ failed' = p.failed
           /\ stage' = IF p.failed THEN "null" ELSE "compiled"
           /\ prog' = IF p.failed THEN <<>> ELSE p
    /\ UNCHANGED <<family, kind, frags>>

\* The walk is cut short, and Compile returns NULL.
GiveUp ==
    /\ stage = "walk" /\ failed
    /\ stage' = "null"
    /\ UNCHANGED <<family, kind, inst, failed, frags, prog>>

Next == VisitLeaf \/ VisitHaveMatch \/ VisitParent \/ Finish \/ GiveUp

Spec == Init /\ [][Next]_vars

-----------------------------------------------------------------------------
\* The instructions that those in S lead to, and the holes among their fields.
Reach(insts, S) ==
    LET reach[n \in 0 .. Cardinality(DOMAIN insts)] ==
            IF n = 0 THEN S
            ELSE LET before == reach[n - 1]
                 IN before \union ((UNION {Outs(insts[i]) : i \in before}) \ {Hole})
    IN reach[Cardinality(DOMAIN insts)]

HolesIn(insts, S) ==
    {<<i, "out">> : i \in {i \in S : insts[i].out = Hole}}
        \union {<<i, "out1">> : i \in {i \in S : insts[i].out1 = Hole}}

\* While fragments are joined, the list of each holds the very holes that can be
\* reached from it, and no two share a hole; a finished program runs into none.
HolesPatched ==
    /\ stage = "walk" /\ ~failed =>
        \A k \in DOMAIN frags : frags[k].frag.begin # 0 =>
            /\ frags[k].frag.end = HolesIn(inst, Reach(inst, {frags[k].frag.begin}))
            /\ \A j \in 1 .. k - 1 : frags[j].frag.end \intersect frags[k].frag.end = {}
    /\ prog # <<>> =>
        HolesIn(prog.inst, Reach(prog.inst, {prog.start, prog.start_unanchored})) = {}

=============================================================================
