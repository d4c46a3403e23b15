--------------------------- MODULE CompilePipeline ---------------------------
(***************************************************************************)
(* Compile from the first visit to the last pass: the compiler's walk, then*)
(* Optimize, Flatten and ComputeByteMap.  The program is held, after every *)
(* step, to what its regexp means.                                         *)
(***************************************************************************)
EXTENDS Pipeline, Matching

\* Mistake: it looks into loops as well.
RECURSIVE StripAnchorOfLoops(_, _, _)
StripAnchorOfLoops(re, flag, depth) ==
    LET k == IF flag = "BeginText" THEN 1 ELSE Len(re.sub)
        below == StripAnchorOfLoops(re.sub[k], flag, depth + 1)
    IN CASE depth >= 4 -> [found |-> FALSE, re |-> re]
         [] re.op = "EmptyWidth" /\ re.flag = flag -> [found |-> TRUE, re |-> EmptyMatchRe]
         [] "sub" \in DOMAIN re /\ re.op # "Alternate" /\ below.found ->
                [found |-> TRUE, re |-> [re EXCEPT !.sub[k] = below.re]]
         [] OTHER -> [found |-> FALSE, re |-> re]

\* IsAnchorStart and IsAnchorEnd, which look no deeper than four levels: a regexp
\* whose first (last) part is the text's beginning (end) is left without it.
RECURSIVE StripAnchor(_, _, _)
StripAnchor(re, flag, depth) ==
    LET k == IF flag = "BeginText" THEN 1 ELSE Len(re.sub)
        below == StripAnchor(re.sub[k], flag, depth + 1)
    IN CASE depth >= 4 -> [found |-> FALSE, re |-> re]
         [] re.op = "EmptyWidth" /\ re.flag = flag -> [found |-> TRUE, re |-> EmptyMatchRe]
         [] re.op \in {"Concat", "Capture"} /\ below.found ->
                [found |-> TRUE, re |-> [re EXCEPT !.sub[k] = below.re]]
         [] OTHER -> [found |-> FALSE, re |-> re]

-----------------------------------------------------------------------------
Done == stage \in {"compiled", "optimized", "flat"}

Re == frags[1].re

Matched(found) == {<<found[k].p, found[k].match_id>> : k \in DOMAIN found}

\* What must match from position p of the text that the program reads: a program
\* that runs backward begins at the end of the text, and a set's program has the
\* set's anchor in it.
Expected(t, p) ==
    LET ends == Matched(Ends(Re, t, Begin(p))) IN
    CASE kind = "reverse" ->
            {<<q, 0>> : q \in {q \in p .. Len(t) :
                <<Len(t) - p, 0>> \in Matched(Ends(Re, Reverse(t), Begin(Len(t) - q)))}}
      [] kind = "ANCHOR_BOTH" -> {e \in ends : e[1] = Len(t)}
      [] kind = "UNANCHORED" -> UNION {Matched(Ends(Re, t, Begin(q))) : q \in p .. Len(t)}
      [] OTHER -> ends

\* A program matches from every position of every text what its regexp matches
\* there, and, begun at start_unanchored, what it matches there or later.
CompiledMeaning ==
    Done => \A t \in Texts : \A p \in 0 .. Len(t) :
        /\ Matched(Run(prog, prog.start, t, p)) = Expected(t, p)
        /\ ~prog.anchor_start =>
                Matched(Run(prog, prog.start_unanchored, t, p))
                    = UNION {Expected(t, q) : q \in p .. Len(t)}

\* A regexp that loses an anchor matched only where the anchor holds, and there
\* what is left of it matches the same.
AnchorsSound ==
    Done =>
        LET start == StripAnchor(Re, "BeginText", 0)
            end == StripAnchor(Re, "EndText", 0)
        IN \A t \in Texts : \A p \in 0 .. Len(t) :
            LET ends == Ends(Re, t, Begin(p)) IN
            /\ start.found =>
                    ends = IF p = 0 THEN Ends(start.re, t, Begin(p)) ELSE <<>>
            /\ end.found =>
                    ends = SelectSeq(Ends(end.re, t, Begin(p)), LAMBDA e : e.p = Len(t))

\* Unless the regexp repeats what may be empty, the program prefers the same
\* match, with the same submatches, and the leftmost one.
CompiledPreference ==
    Done /\ kind = "forward" /\ MimicsPCRE(Re) =>
        \A t \in Texts : \A p \in 0 .. Len(t) :
            LET ends == [q \in p .. Len(t) |-> Ends(Re, t, Begin(q))] IN
            /\ Run(prog, prog.start, t, p) = ends[p]
            /\ ~prog.anchor_start =>
                    Run(prog, prog.start_unanchored, t, p)
                        = FoldLeft(Merge, <<>>, [n \in 1 .. Len(t) - p + 1 |-> ends[p + n - 1]])

=============================================================================
