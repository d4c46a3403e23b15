----------------------------- MODULE ProgPasses -----------------------------
(***************************************************************************)
(* What Prog does to the compiler's output before anything runs it         *)
(* (re2/prog.cc): Optimize elides no-ops and marks the loops that match    *)
(* all that is left; Flatten rewrites the graph into lists of instructions *)
(* without Alt; ComputeHints tells an instruction of a list, once it has   *)
(* matched a byte, which of the instructions after it could match as well; *)
(* ComputeByteMap gives bytes that the program cannot tell apart one class *)
(* (ByteMapBuilder), and the DFA has one arrow for each class.             *)
(***************************************************************************)
EXTENDS Regexps, FiniteSets, SequencesExt

-----------------------------------------------------------------------------
(* Optimize. *)

NumInsts(insts) == Cardinality(DOMAIN insts)

SkipNops(insts, j) ==
    LET at[n \in 0 .. NumInsts(insts)] ==
            IF n = 0 THEN j
            ELSE LET k == at[n - 1] IN IF insts[k].op = "Nop" THEN insts[k].out ELSE k
    IN at[NumInsts(insts)]

\* What the work queue reaches from instruction j when no-ops are skipped.
Skipping(insts, j) ==
    LET queue[n \in 0 .. NumInsts(insts)] ==
            IF n = 0 THEN {j}
            ELSE LET S == queue[n - 1]
                 IN S \union {SkipNops(insts, k) : k \in UNION {Outs(insts[i]) : i \in S}}
    IN queue[NumInsts(insts)]

ElideNops(P) ==
    LET queue == Skipping(P.inst, P.start) IN
    [P EXCEPT !.inst =
        [i \in DOMAIN @ |->
            IF i \notin queue THEN @[i]
            ELSE [@[i] EXCEPT !.out = SkipNops(P.inst, @),
                              !.out1 = IF P.inst[i].op = "Alt"
                                       THEN SkipNops(P.inst, @) ELSE @]]]

\* A match at the end of text for sure, perhaps after some capturing?
IsMatch(insts, j) ==
    LET match[k \in DOMAIN insts] ==
            IF insts[k].op \in {"Capture", "Nop"} THEN match[insts[k].out]
            ELSE insts[k].op = "Match"
    IN match[j]

\* Mistake: the loop is not looked for.
AnyByteToAnywhere(insts, j, i) ==
    insts[j].op = "ByteRange" /\ insts[j].lo = 0 /\ insts[j].hi = MaxByte

\* Does instruction j take any byte and return to instruction i?
AnyByteBackTo(insts, j, i) ==
    /\ insts[j].op = "ByteRange" /\ insts[j].out = i
    /\ insts[j].lo = 0 /\ insts[j].hi = MaxByte

MarkAltMatches(P) ==
    LET queue == Skipping(P.inst, P.start)
        IsAltMatch(i) ==
            /\ P.inst[i].op = "Alt"
            /\ LET j == P.inst[i].out
                   k == P.inst[i].out1
               IN \/ AnyByteBackTo(P.inst, j, i) /\ IsMatch(P.inst, k)
                  \/ IsMatch(P.inst, j) /\ AnyByteBackTo(P.inst, k, i)
    IN [P EXCEPT !.inst =
            [i \in DOMAIN @ |->
                IF i \in queue /\ IsAltMatch(i)
                THEN [@[i] EXCEPT !.op = "AltMatch"] ELSE @[i]]]

Optimize(P) == MarkAltMatches(ElideNops(P))

-----------------------------------------------------------------------------
(* Flatten.  The roots are a sequence, in the order of their root-ids. *)

Root(roots, id) == IndexFirstSubSeq(<<id>>, roots) - 1
AddRoot(roots, id) == IF Contains(roots, id) THEN roots ELSE Append(roots, id)

\* A stack from which each instruction is taken at most twice is empty after so many
\* turns of a loop that takes the top.
MaxTurns(insts) == 2 * NumInsts(insts) + 1

\* MarkSuccessors: the start instructions and what follows a leaf are roots.
Successor(insts, x) ==
    LET id == Head(x.stk)
        i == insts[id]
        next == CASE i.op \in Alts -> <<i.out, i.out1>>
                  [] i.op \in {"Nop", "ByteRange", "Capture", "EmptyWidth"} -> <<i.out>>
                  [] OTHER -> <<>>
    IN IF id \in x.reachable THEN [x EXCEPT !.stk = Tail(@)]
       ELSE [stk |-> next \o Tail(x.stk), reachable |-> x.reachable \union {id},
             roots |-> IF i.op \in {"ByteRange", "Capture", "EmptyWidth"}
                       THEN AddRoot(x.roots, i.out) ELSE x.roots]

MarkSuccessors(P) ==
    LET turn[n \in 0 .. MaxTurns(P.inst)] ==
            IF n = 0 THEN [stk |-> <<P.start_unanchored>>, reachable |-> {},
                           roots |-> AddRoot(AddRoot(<<0>>, P.start_unanchored), P.start)]
            ELSE LET x == turn[n - 1] IN IF x.stk = <<>> THEN x ELSE Successor(P.inst, x)
    IN turn[MaxTurns(P.inst)]

\* The instructions of the tree that grows from root, and the roots of other
\* trees it runs into, in the order of the flood.
Flood(insts, root, roots, x) ==
    LET id == Head(x.stk)
        i == insts[id]
        next == CASE id # root /\ Contains(roots, id) -> <<>>
                  [] i.op \in Alts -> <<i.out, i.out1>>
                  [] i.op = "Nop" -> <<i.out>>
                  [] OTHER -> <<>>
    IN IF Contains(x.reachable, id) THEN [x EXCEPT !.stk = Tail(@)]
       ELSE [stk |-> next \o Tail(x.stk), reachable |-> Append(x.reachable, id)]

Tree(insts, root, roots) ==
    LET turn[n \in 0 .. MaxTurns(insts)] ==
            IF n = 0 THEN [stk |-> <<root>>, reachable |-> <<>>]
            ELSE LET x == turn[n - 1]
                 IN IF x.stk = <<>> THEN x ELSE Flood(insts, root, roots, x)
    IN turn[MaxTurns(insts)].reachable

\* MarkDominator: what is reached from root and has a predecessor that is not.
MarkDominator(insts, all, root, roots) ==
    LET tree == Tree(insts, root, roots)
        HasOtherPred(id) ==
            \E pred \in all \ ToSet(tree) :
                insts[pred].op \in Alts /\ id \in Outs(insts[pred])
        marked[k \in 0 .. Len(tree)] ==
            IF k = 0 THEN roots
            ELSE IF HasOtherPred(tree[k]) THEN AddRoot(marked[k - 1], tree[k])
            ELSE marked[k - 1]
    IN marked[Len(tree)]

\* The roots that MarkSuccessors found, but for the first three, are dominators
\* from the last instruction to the first.
Roots(P) ==
    LET marked == MarkSuccessors(P)
        size == NumInsts(P.inst)
        after[k \in 0 .. size] ==
            IF k = 0 THEN marked.roots
            ELSE LET id == size - k
                 IN IF Contains(marked.roots, id) /\ id \notin {0, P.start, P.start_unanchored}
                    THEN MarkDominator(P.inst, marked.reachable, id, after[k - 1])
                    ELSE after[k - 1]
    IN after[size]

\* EmitList: what instruction id of the tree of root puts at place n.
Emitted(insts, root, roots, id, n) ==
    LET i == insts[id] IN
    CASE id # root /\ Contains(roots, id) ->
            <<[i EXCEPT !.op = "Nop", !.out = Root(roots, id), !.last = FALSE]>>
      [] i.op = "AltMatch" -> <<[i EXCEPT !.out = n + 1, !.out1 = n + 2]>>
      [] i.op \in {"Alt", "Nop"} -> <<>>
      [] i.op \in {"Match", "Fail"} -> <<i>>
      [] OTHER -> <<[i EXCEPT !.out = Root(roots, i.out)]>>

\* The list of one tree, after the instructions flat.
EmitList(insts, root, roots, flat) ==
    LET tree == Tree(insts, root, roots)
        list[k \in 0 .. Len(tree)] ==
            IF k = 0 THEN <<>>
            ELSE list[k - 1] \o Emitted(insts, root, roots, tree[k],
                                        Len(flat) + Len(list[k - 1]))
    IN list[Len(tree)]

\* ComputeHints goes backward through a list.  Before it comes to instruction id,
\* color[id][c] is the nearest instruction after id that byte c would also have to try.
ComputeHints(list) ==
    LET size == Len(list)
        Recolor(color, S, id) == [c \in Byte |-> IF c \in S THEN id ELSE color[c]]
        Once(color, id) == Recolor(color, list[id].lo .. list[id].hi, id)
        color[id \in 1 .. size] ==
            IF id = size THEN [c \in Byte |-> size + 1]
            ELSE IF list[id + 1].op # "ByteRange" THEN [c \in Byte |-> id + 1]
            ELSE Recolor(Once(color[id + 1], id + 1), FoldedBytes(list[id + 1]), id + 1)
        Conflicts(id) ==
            {color[id][c] : c \in list[id].lo .. list[id].hi}
                \union {Once(color[id], id)[c] : c \in FoldedBytes(list[id])}
        First(id) == CHOOSE n \in Conflicts(id) : \A m \in Conflicts(id) : n <= m
        Hint(id) == IF First(id) = size + 1 THEN 0 ELSE First(id) - id
    IN [id \in 1 .. size |->
            IF list[id].op = "ByteRange" THEN [list[id] EXCEPT !.hint = Hint(id)]
            ELSE list[id]]

Lasted(list) == [list EXCEPT ![Len(list)].last = TRUE]

\* The lists one after another, and where each begins.
Lists(P, roots) ==
    LET flat[k \in 0 .. Len(roots)] ==
            IF k = 0 THEN [inst |-> <<>>, map |-> <<>>]
            ELSE LET f == flat[k - 1]
                 IN [inst |-> f.inst \o ComputeHints(Lasted(
                                            EmitList(P.inst, roots[k], roots, f.inst))),
                     map |-> Append(f.map, Len(f.inst))]
    IN flat[Len(roots)]

\* P with the lists for its instructions, and every id mapped to a list's beginning.
Relinked(P, flat) ==
    LET Remapped(i) == IF i.op = "AltMatch" THEN i
                       ELSE [i EXCEPT !.out = flat.map[@ + 1]]
    IN [P EXCEPT
            !.flat = TRUE,
            !.inst = [id \in 0 .. Len(flat.inst) - 1 |-> Remapped(flat.inst[id + 1])],
            !.start_unanchored = IF @ = 0 THEN 0 ELSE flat.map[2],
            !.start = IF P.start_unanchored = 0 THEN @
                      ELSE IF P.start_unanchored = P.start THEN flat.map[2]
                      ELSE flat.map[3]]

Flatten(P) == Relinked(P, Lists(P, Roots(P)))

-----------------------------------------------------------------------------
(* ComputeByteMap.  Ranges are marked, and a batch of them is merged by      *)
(* recoloring every byte they hold: bytes that had one color before the      *)
(* batch have one after it.  The code colors maximal ranges, here each byte  *)
(* has its color.                                                            *)

\* No class is numbered like a color: classes are bytes, colors are not.
FirstColor == MaxByte + 1

NewBuilder == [color |-> [c \in Byte |-> FirstColor], next |-> FirstColor + 1,
               map |-> <<>>, ranges |-> <<>>]

Mark(b, lo, hi) ==
    IF lo = 0 /\ hi = MaxByte THEN b ELSE [b EXCEPT !.ranges = Append(@, <<lo, hi>>)]

\* ByteMapBuilder::Recolor: both an old color and a new one lead to the new one.
Known(b, old) == SelectSeq(b.map, LAMBDA kv : kv[1] = old \/ kv[2] = old)

Recolor(b, c) ==
    LET known == Known(b, b.color[c]) IN
    IF known # <<>>
    THEN [b EXCEPT !.color[c] = known[1][2]]
    ELSE [b EXCEPT !.color[c] = b.next, !.next = @ + 1,
                   !.map = Append(@, <<b.color[c], b.next>>)]

RecolorAll(b, lo, hi) == FoldLeft(Recolor, b, [n \in 1 .. hi - lo + 1 |-> lo + n - 1])

MergeRanges(b) ==
    [FoldLeft(LAMBDA d, r : RecolorAll(d, r[1], r[2]), b, b.ranges)
        EXCEPT !.map = <<>>, !.ranges = <<>>]

\* ByteMapBuilder::Build: the colors become classes, numbered from 0.
Build(b) == RecolorAll([b EXCEPT !.next = 0], 0, MaxByte).color

-----------------------------------------------------------------------------
\* The bytes of a ByteRange, and those it also matches because it folds case.
MarkRange(b, i) ==
    LET folded == FoldedBytes(i)
        lo == CHOOSE c \in folded : \A d \in folded : c <= d
        hi == CHOOSE c \in folded : \A d \in folded : d <= c
        once == Mark(b, i.lo, i.hi)
    IN IF folded = {} THEN once ELSE Mark(once, lo, hi)

MarkAll(b, S) ==
    FoldLeft(LAMBDA d, c : IF c \in S THEN Mark(d, c, c) ELSE d, b,
             [n \in 1 .. MaxByte + 1 |-> n - 1])

\* Mistake: where the next instruction leads to is not looked at.
DefersInList(insts, id) == ~insts[id].last /\ insts[id + 1].op = "ByteRange"

\* Is the merge put off until the next instruction has been marked?
Defers(insts, id) ==
    /\ ~insts[id].last
    /\ insts[id + 1].op = "ByteRange"
    /\ insts[id].out = insts[id + 1].out

MarkInst(insts, b, id) ==
    LET i == insts[id] IN
    CASE i.op = "ByteRange" ->
            IF Defers(insts, id) THEN MarkRange(b, i) ELSE MergeRanges(MarkRange(b, i))
      [] i.op = "EmptyWidth" /\ i.arg \in {"BeginLine", "EndLine"} /\ ~b.line ->
            [MergeRanges(Mark(b, Newline, Newline)) EXCEPT !.line = TRUE]
      [] i.op = "EmptyWidth" /\ i.arg \in {"WordBoundary", "NonWordBoundary"} /\ ~b.word ->
            LET words == {c \in Byte : IsWordChar(c)} IN
            [MergeRanges(MarkAll(MergeRanges(MarkAll(b, words)), Byte \ words))
                EXCEPT !.word = TRUE]
      [] OTHER -> b

ComputeByteMap(insts, size) ==
    Build(FoldLeft(LAMBDA b, id : MarkInst(insts, b, id),
                   [line |-> FALSE, word |-> FALSE] @@ NewBuilder,
                   [n \in 1 .. size |-> n - 1]))

=============================================================================
