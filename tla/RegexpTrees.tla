----------------------------- MODULE RegexpTrees -----------------------------
(***************************************************************************)
(* Regexp nodes as the parser makes them (re2/regexp.h), what builds them  *)
(* (re2/regexp.cc), the factoring of alternations (re2/parse.cc), and what *)
(* a tree means: the regexp of module Regexps with the same matches.       *)
(*                                                                         *)
(* A node is a value here; the code edits nodes in place, but only nodes   *)
(* that nothing else holds.                                                *)
(***************************************************************************)
EXTENDS CaseFold

CONSTANT kMaxNsub   \* the most children of a node; 0xffff

ASSUME MaxNsubAssumption == kMaxNsub \in Nat /\ kMaxNsub >= 2

Node(op, flags) == [op |-> op, flags |-> flags, simple |-> FALSE]
NewLiteral(rune, flags) == [rune |-> rune] @@ Node("Literal", flags)
NewCharClass(cc, flags) == [cc |-> cc] @@ Node("CharClass", flags)
Over(op, sub, flags) == [sub |-> sub] @@ Node(op, flags)
RepeatNode(re, flags, min, max) == [min |-> min, max |-> max] @@ Over("Repeat", <<re>>, flags)

EmptyWidthOps == {"BeginLine", "EndLine", "BeginText", "EndText",
                  "WordBoundary", "NoWordBoundary"}
Composites == {"Concat", "Alternate", "Star", "Plus", "Quest", "Repeat", "Capture"}

\* One node that matches a string.
LiteralString(runes, flags) ==
    CASE Len(runes) = 0 -> Node("EmptyMatch", flags)
      [] Len(runes) = 1 -> NewLiteral(runes[1], flags)
      [] OTHER -> [runes |-> runes] @@ Node("LiteralString", flags)

\* Mistake: a loop over a loop is the outer one.
SquashOuter(op, sub, flags) ==
    IF sub.op \in Loops /\ flags = sub.flags
    THEN Over(op, sub.sub, flags)
    ELSE Over(op, <<sub>>, flags)

StarPlusOrQuest(op, sub, flags) ==
    IF sub.op \in Loops /\ flags = sub.flags
    THEN IF sub.op \in {op, "Star"} THEN sub ELSE Over("Star", sub.sub, flags)
    ELSE Over(op, <<sub>>, flags)

\* A node is simple if Simplify would leave it alone, given that its children say
\* the truth about themselves.
ComputeSimple(re) ==
    CASE re.op = "CharClass" ->
            LET n == IF "ccb" \in DOMAIN re THEN re.ccb.nrunes ELSE re.cc.nrunes
            IN n # 0 /\ n # Runemax + 1
      [] re.op = "Repeat" -> FALSE
      [] re.op \in Loops -> /\ re.sub[1].simple
                            /\ re.sub[1].op \notin Loops \union {"EmptyMatch", "NoMatch"}
      [] re.op \in {"Concat", "Alternate", "Capture"} ->
            \A k \in DOMAIN re.sub : re.sub[k].simple
      [] OTHER -> TRUE

-----------------------------------------------------------------------------
(* Equality of trees, but for what does not matter. *)

SameFlag(a, b, flag) == flag \in a.flags <=> flag \in b.flags

TopEqual(a, b) ==
    /\ a.op = b.op
    /\ CASE a.op = "EndText" -> SameFlag(a, b, "WasDollar")
         [] a.op = "Literal" -> a.rune = b.rune /\ SameFlag(a, b, "FoldCase")
         [] a.op = "LiteralString" -> a.runes = b.runes /\ SameFlag(a, b, "FoldCase")
         [] a.op \in {"Alternate", "Concat"} -> Len(a.sub) = Len(b.sub)
         [] a.op \in Loops -> SameFlag(a, b, "NonGreedy")
         [] a.op = "Repeat" -> SameFlag(a, b, "NonGreedy") /\ a.min = b.min /\ a.max = b.max
         [] a.op = "Capture" -> a.cap = b.cap
         [] a.op = "HaveMatch" -> a.match_id = b.match_id
         [] a.op = "CharClass" -> a.cc.ranges = b.cc.ranges
         [] OTHER -> TRUE

RECURSIVE Equal(_, _)
Equal(a, b) ==
    TopEqual(a, b) /\ (a.op \in Composites => \A k \in DOMAIN a.sub : Equal(a.sub[k], b.sub[k]))

-----------------------------------------------------------------------------
(* The factoring of alternations. *)

\* The string that re begins with, and whether it folds case.
RECURSIVE LeadingString(_)
LeadingString(re) ==
    CASE re.op = "Concat" -> LeadingString(re.sub[1])
      [] OTHER ->
            [runes |-> CASE re.op = "Literal" -> <<re.rune>>
                         [] re.op = "LiteralString" -> re.runes
                         [] OTHER -> <<>>,
             flags |-> re.flags \intersect {"FoldCase"}]

\* Without its first n runes; concatenations that become shorter simplify, no more
\* than four deep.
RECURSIVE RemoveLeadingString(_, _, _)
RemoveLeadingString(re, n, depth) ==
    LET Become(op) == [flags |-> re.flags, simple |-> re.simple, op |-> op]
        left == IF re.op = "LiteralString" THEN SubSeq(re.runes, n + 1, Len(re.runes)) ELSE <<>>
        WithFirst(first) ==
            IF depth < 4 /\ first.op = "EmptyMatch"
            THEN IF Len(re.sub) = 2 THEN re.sub[2] ELSE [re EXCEPT !.sub = Tail(@)]
            ELSE [re EXCEPT !.sub[1] = first]
    IN CASE re.op = "Concat" -> WithFirst(RemoveLeadingString(re.sub[1], n, depth + 1))
         [] re.op = "Literal" -> Become("EmptyMatch")
         [] re.op = "LiteralString" ->
                CASE Len(left) = 0 -> Become("EmptyMatch")
                  [] Len(left) = 1 -> [rune |-> left[1]] @@ Become("Literal")
                  [] OTHER -> [re EXCEPT !.runes = left]
         [] OTHER -> re

LeadsConcat(re) == re.op = "Concat" /\ re.sub[1].op # "EmptyMatch"

\* The first piece of re; an empty match has none.
LeadingRegexp(re) ==
    CASE re.op = "EmptyMatch" \/ (re.op = "Concat" /\ ~LeadsConcat(re)) -> <<>>
      [] LeadsConcat(re) -> <<re.sub[1]>>
      [] OTHER -> <<re>>

RemoveLeadingRegexp(re) ==
    CASE re.op = "EmptyMatch" \/ (re.op = "Concat" /\ ~LeadsConcat(re)) -> re
      [] LeadsConcat(re) -> IF Len(re.sub) = 2 THEN re.sub[2] ELSE [re EXCEPT !.sub = Tail(@)]
      [] OTHER -> Node("EmptyMatch", re.flags)

\* Mistake: pieces that repeat are factored too.
FactorsAny(first) == TRUE

\* A piece whose matches, from one position, are one at most.
Factors(first) ==
    LET Single == {"CharClass", "AnyChar", "AnyByte"} IN
    \/ first.op \in EmptyWidthOps \union Single
    \/ /\ first.op = "Repeat"
       /\ first.min = first.max
       /\ first.sub[1].op \in Single \union {"Literal"}

\* Each round cuts the alternatives into runs.  In the first one a run shares the
\* beginning of a string, in the second a first piece, in the third it consists of
\* literals and classes.
ExtendLast(runs, re, what) ==
    [runs EXCEPT ![Len(runs)] = [sub |-> Append(@.sub, re), what |-> what]]

Runs1(sub) ==
    LET Next(runs, re) ==
            LET s == LeadingString(re)
                last == Last(runs).what
                common == LongestCommonPrefix({s.runes, last.runes})
            IN IF runs # <<>> /\ s.flags = last.flags /\ common # <<>>
               THEN ExtendLast(runs, re, [last EXCEPT !.runes = common])
               ELSE Append(runs, [sub |-> <<re>>, what |-> s])
    IN FoldLeft(Next, <<>>, sub)

Runs2(sub) ==
    LET Next(runs, re) ==
            LET first == LeadingRegexp(re)
                last == Last(runs).what
            IN IF /\ runs # <<>> /\ last # <<>> /\ first # <<>>
                  /\ Factors(last[1]) /\ Equal(last[1], first[1])
               THEN ExtendLast(runs, re, last)
               ELSE Append(runs, [sub |-> <<re>>, what |-> first])
    IN FoldLeft(Next, <<>>, sub)

Runs3(sub) ==
    LET OneRune(re) == re.op \in {"Literal", "CharClass"}
        Next(runs, re) ==
            IF runs # <<>> /\ OneRune(Last(runs).sub[1]) /\ OneRune(re)
            THEN ExtendLast(runs, re, <<>>)
            ELSE Append(runs, [sub |-> <<re>>, what |-> <<>>])
    IN FoldLeft(Next, <<>>, sub)

\* Mistake: literals are merged without their case.
MergedWithoutCase(sub, flags) ==
    NewCharClass(GetCharClass(FoldLeft(
        LAMBDA cc, re : IF re.op = "CharClass" THEN AddRanges(cc, ToSet(re.cc.ranges))
                        ELSE AddRange(cc, re.rune, re.rune),
        NoClass, sub)), flags)

\* Round3: one class for a run of literals and classes.
MergedClass(sub, flags) ==
    NewCharClass(GetCharClass(FoldLeft(
        LAMBDA cc, re : IF re.op = "CharClass" THEN AddRanges(cc, ToSet(re.cc.ranges))
                        ELSE AddRangeFlags(cc, re.rune, re.rune, re.flags),
        NoClass, sub)), flags)

\* ConcatOrAlternate, but for the factoring: too many children are put two levels
\* deep.
RECURSIVE Collected(_, _, _)
Collected(op, sub, flags) ==
    LET last == ((Len(sub) - 1) \div kMaxNsub) * kMaxNsub
        Piece(k) == Collected(op, SubSeq(sub, k + 1, Min({k + kMaxNsub, Len(sub)})), flags)
    IN CASE Len(sub) = 1 -> sub[1]
         [] Len(sub) = 0 -> Node(IF op = "Alternate" THEN "NoMatch" ELSE "EmptyMatch", flags)
         [] Len(sub) > kMaxNsub ->
                Over(op, [k \in 1 .. last \div kMaxNsub + 1 |-> Piece((k - 1) * kMaxNsub)], flags)
         [] OTHER -> Over(op, sub, flags)

ConcatNode(sub, flags) == Collected("Concat", sub, flags)
AlternateNoFactor(sub, flags) == Collected("Alternate", sub, flags)

\* The three rounds.  What is left of a run once its prefix is gone goes through
\* them before it is put behind the prefix.
RECURSIVE FactorAlternation(_, _)
FactorAlternation(sub, flags) ==
    LET Spliced(prefix, suffixes) ==
            ConcatNode(<<prefix, AlternateNoFactor(FactorAlternation(suffixes, flags), flags)>>,
                       flags)
        Apply(runs, Splice(_)) ==
            [k \in DOMAIN runs |->
                IF Len(runs[k].sub) = 1 THEN runs[k].sub[1] ELSE Splice(runs[k])]
        Map(s, F(_)) == [k \in DOMAIN s |-> F(s[k])]
        Round1(run) ==
            Spliced(LiteralString(run.what.runes, run.what.flags),
                    Map(run.sub, LAMBDA re : RemoveLeadingString(re, Len(run.what.runes), 0)))
        Round2(run) == Spliced(run.what[1], Map(run.sub, RemoveLeadingRegexp))
        Round3(run) == MergedClass(run.sub, flags)
    IN Apply(Runs3(Apply(Runs2(Apply(Runs1(sub), Round1)), Round2)), Round3)

ConcatOrAlternate(op, sub, flags) ==
    IF op = "Alternate" /\ Len(sub) > 1
    THEN Collected(op, FactorAlternation(sub, flags), flags)
    ELSE Collected(op, sub, flags)

-----------------------------------------------------------------------------
(* What a tree means. *)

\* A repetition is as many copies, and then the optional ones, each in the one
\* before it, or a loop.
Repeated(one, min, max, nongreedy) ==
    LET Optional(tail, k) ==
            LoopRe("Quest", IF k = 1 THEN one ELSE ConcatRe(<<one, tail>>), nongreedy)
        more == IF max = -1 THEN <<LoopRe("Star", one, nongreedy)>>
                ELSE IF max = min THEN <<>>
                ELSE <<FoldLeft(Optional, EmptyMatchRe, [k \in 1 .. max - min |-> k])>>
    IN ConcatRe([k \in 1 .. min |-> one] \o more)

RECURSIVE Meaning(_)
Meaning(re) ==
    LET fold == "FoldCase" \in re.flags
        subs == [k \in DOMAIN re.sub |-> Meaning(re.sub[k])]
    IN CASE re.op = "NoMatch" -> NoMatchRe
         [] re.op = "EmptyMatch" -> EmptyMatchRe
         [] re.op = "HaveMatch" -> HaveMatchRe(re.match_id)
         [] re.op = "Literal" -> LiteralRe(re.rune, fold)
         [] re.op = "LiteralString" ->
                ConcatRe([k \in DOMAIN re.runes |-> LiteralRe(re.runes[k], fold)])
         [] re.op \in {"AnyChar", "AnyByte"} -> AnyByteRe
         [] re.op = "CharClass" -> CharClassRe(re.cc.ranges)
         [] re.op = "NoWordBoundary" -> EmptyWidthRe("NonWordBoundary")
         [] re.op \in EmptyWidthOps -> EmptyWidthRe(re.op)
         [] re.op = "Concat" -> ConcatRe(subs)
         [] re.op = "Alternate" -> AlternateRe(subs)
         [] re.op \in Loops -> LoopRe(re.op, subs[1], "NonGreedy" \in re.flags)
         [] re.op = "Repeat" -> 
                Repeated(subs[1], re.min, re.max, "NonGreedy" \in re.flags)
         [] re.op = "Capture" -> CaptureRe(subs[1], re.cap)

=============================================================================
