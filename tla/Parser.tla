------------------------------- MODULE Parser -------------------------------
(***************************************************************************)
(* The parser (re2/parse.cc), one token at a time: a stack of regexps with *)
(* markers for '(' and '|' on it, edited by every token.                   *)
(*                                                                         *)
(* A token is what the parser's loop takes off its input in one turn, its  *)
(* text already read: the rune of an escape, the bounds of a repetition,   *)
(* the flags of "(?...)".  What is not of the form of its token (a '{' that*)
(* begins no repetition, say) is a rune.                                   *)
(***************************************************************************)
EXTENDS RegexpTrees

CONSTANT maximum_repeat_count   \* 1000

ASSUME RepeatAssumption == maximum_repeat_count \in Nat

Markers == {"LeftParen", "VerticalBar"}
IsMarker(re) == re.op \in Markers

\* The parse state.  stack has its top first; class is the class being read and
\* whether it is negated, or none; lastunary says whether the token before was a
\* repetition operator; code is the status.
ParseState(flags) ==
    [stack |-> <<>>, flags |-> flags, ncap |-> 0, class |-> <<>>, lastunary |-> FALSE,
     code |-> "Success"]

rune_max(ps) == IF "Latin1" \in ps.flags THEN 255 ELSE Runemax

Failed(ps, code) == [ps EXCEPT !.code = code]

\* FinishRegexp: a class under construction becomes one.
FinishRegexp(re) ==
    IF "ccb" \in DOMAIN re
    THEN [NewCharClass(GetCharClass(re.ccb), re.flags) EXCEPT !.simple = re.simple]
    ELSE re

-----------------------------------------------------------------------------
(* Pushing. *)

IsString(re) == re.op \in {"Literal", "LiteralString"}
RunesOf(re) == IF re.op = "Literal" THEN <<re.rune>> ELSE re.runes

\* Mistake: strings are concatenated whatever their case.
StringsOnTopOfAnyCase(stack) ==
    Len(stack) >= 2 /\ IsString(stack[1]) /\ IsString(stack[2])

\* Are the two topmost regexps strings that can become one?
StringsOnTop(stack) ==
    /\ Len(stack) >= 2
    /\ IsString(stack[1]) /\ IsString(stack[2])
    /\ SameFlag(stack[1], stack[2], "FoldCase")

JoinedString(re2, re1) ==
    [op |-> "LiteralString", flags |-> re2.flags, simple |-> re2.simple,
     runes |-> RunesOf(re2) \o RunesOf(re1)]

\* MaybeConcatString(-1, NoParseFlags).
ConcatStrings(stack) ==
    IF StringsOnTop(stack)
    THEN <<JoinedString(stack[2], stack[1])>> \o SubSeq(stack, 3, Len(stack))
    ELSE stack

\* Mistake: a class of a letter and any other rune is that letter without case.
LiteralOrAnyPair(re, ccb, r, ps) ==
    CASE ccb.nrunes = 1 -> NewLiteral(r, ps.flags)
      [] ccb.nrunes = 2 /\ r \in Upper -> NewLiteral(Lower(r), ps.flags \union {"FoldCase"})
      [] OTHER -> [re EXCEPT !.ccb = ccb]

\* A class of one rune is a literal, and one of a letter's two cases is that
\* letter without case.
LiteralOr(re, ccb, r, ps) ==
    CASE ccb.nrunes = 1 -> NewLiteral(r, ps.flags)
      [] ccb.nrunes = 2 /\ r \in Upper /\ HasRune(ccb, Lower(r)) ->
            NewLiteral(Lower(r), ps.flags \union {"FoldCase"})
      [] OTHER -> [re EXCEPT !.ccb = ccb]

ClassOrLiteral(re, ps) ==
    LET Classified(ccb) == LiteralOr(re, ccb, Min({x[1] : x \in ccb.ranges}), ps)
    IN IF "ccb" \in DOMAIN re THEN Classified(RemoveAbove(re.ccb, rune_max(ps))) ELSE re

\* A marker has never been asked whether it is simple.
WithSimple(re) == IF IsMarker(re) THEN re ELSE [re EXCEPT !.simple = ComputeSimple(re)]

PushRegexp(ps, re) ==
    [ps EXCEPT !.stack = <<WithSimple(ClassOrLiteral(re, ps))>> \o ConcatStrings(@)]

PushSimpleOp(ps, op) == PushRegexp(ps, Node(op, ps.flags))

ClassNode(ccb, flags) == [ccb |-> ccb] @@ Node("CharClass", flags \ {"FoldCase"})

\* The runes that fold to r, newline left out if it must never match.
RECURSIVE FoldCycle(_, _, _, _)
FoldCycle(ccb, r, r1, flags) ==
    LET with == IF "NeverNL" \in flags /\ r = Newline THEN ccb ELSE AddRange(ccb, r, r)
        From(next) == IF next = r1 THEN with ELSE FoldCycle(with, next, r1, flags)
    IN From(CycleFoldRune(r))

\* The topmost literal joins the string below it and is reused for r.
ReuseLiteral(ps, r) ==
    LET reused == [NewLiteral(r, ps.flags) EXCEPT !.simple = ps.stack[1].simple]
    IN [ps EXCEPT !.stack = <<reused>> \o ConcatStrings(@)]

PushLiteral(ps, r) ==
    LET folds == "FoldCase" \in ps.flags /\ CycleFoldRune(r) # r
        node == CASE folds -> ClassNode(FoldCycle(NoClass, r, r, ps.flags), ps.flags)
                  [] ~folds /\ "NeverNL" \in ps.flags /\ r = Newline -> Node("NoMatch", ps.flags)
                  [] OTHER -> NewLiteral(r, ps.flags)
    IN IF node.op = "Literal" /\ StringsOnTop(ps.stack) THEN ReuseLiteral(ps, r)
       ELSE PushRegexp(ps, node)

PushCaret(ps) ==
    PushSimpleOp(ps, IF "OneLine" \in ps.flags THEN "BeginText" ELSE "BeginLine")

PushDollar(ps) ==
    PushRegexp(ps, IF "OneLine" \in ps.flags
                   THEN Node("EndText", ps.flags \union {"WasDollar"})
                   ELSE Node("EndLine", ps.flags))

PushDot(ps) ==
    LET NotNewline == AddRange(AddRange(NoClass, 0, Newline - 1), Newline + 1, rune_max(ps))
    IN PushRegexp(ps, IF "DotNL" \in ps.flags /\ "NeverNL" \notin ps.flags
                      THEN Node("AnyChar", ps.flags)
                      ELSE ClassNode(NotNewline, ps.flags))

PushGroup(ps, g, sign) ==
    PushRegexp(ps, ClassNode(AddUGroup(NoClass, g, sign, ps.flags), ps.flags))

-----------------------------------------------------------------------------
(* Repetition. *)

\* The flags of a repetition: "?" turns greed round.
RepeatFlags(ps, nongreedy) ==
    IF ~nongreedy THEN ps.flags
    ELSE IF "NonGreedy" \in ps.flags THEN ps.flags \ {"NonGreedy"}
    ELSE ps.flags \union {"NonGreedy"}

NoArgument(ps) == ps.stack = <<>> \/ IsMarker(ps.stack[1])

\* The top of the stack becomes re's child.
Enclose(ps, re) ==
    LET new == [re EXCEPT !.sub = <<FinishRegexp(ps.stack[1])>>]
    IN [ps EXCEPT !.stack[1] = [new EXCEPT !.simple = ComputeSimple(new)]]

PushRepeatOp(ps, op, nongreedy) ==
    LET fl == RepeatFlags(ps, nongreedy)
        top == ps.stack[1]
    IN CASE NoArgument(ps) -> Failed(ps, "RepeatArgument")
         [] top.op \in Loops /\ top.flags = fl ->
                [ps EXCEPT !.stack[1].op = IF @ = op THEN op ELSE "Star"]
         [] OTHER -> Enclose(ps, Over(op, <<>>, fl))

\* Mistake: only the outermost repetition counts.
CopiesLeftOutermost(re, n) ==
    LET times == IF re.op # "Repeat" THEN 0 ELSE IF re.max < 0 THEN re.min ELSE re.max
    IN IF times > 0 THEN n \div times ELSE n

\* RepetitionWalker: what is left of n copies inside re, 0 if they are too many.
RECURSIVE CopiesLeft(_, _)
CopiesLeft(re, n) ==
    LET times == IF re.op # "Repeat" THEN 0 ELSE IF re.max < 0 THEN re.min ELSE re.max
        arg == IF times > 0 THEN n \div times ELSE n
    IN IF re.op \in Composites
       THEN Min({arg} \union {CopiesLeft(re.sub[k], arg) : k \in DOMAIN re.sub})
       ELSE arg

PushRepetition(ps, min, max, nongreedy) ==
    LET new == Enclose(ps, RepeatNode(<<>>, RepeatFlags(ps, nongreedy), min, max))
    IN CASE \/ max # -1 /\ max < min
            \/ min > maximum_repeat_count \/ max > maximum_repeat_count ->
                Failed(ps, "RepeatSize")
         [] NoArgument(ps) -> Failed(ps, "RepeatArgument")
         [] OTHER ->
                IF (min >= 2 \/ max >= 2) /\ CopiesLeft(new.stack[1], maximum_repeat_count) = 0
                THEN Failed(new, "RepeatSize")
                ELSE new

\* In Perl's syntax operators do not stack.
Repetition(ps, pushed) ==
    IF "PerlX" \in ps.flags /\ ps.lastunary
    THEN Failed(ps, "RepeatOp")
    ELSE [pushed EXCEPT !.lastunary = TRUE]

-----------------------------------------------------------------------------
(* Concatenation, alternation and parentheses. *)

\* DoCollapse: what is above the first marker becomes one node, unless it is one.
DoCollapse(ps, op) ==
    LET marked == {k \in DOMAIN ps.stack : IsMarker(ps.stack[k])}
        n == Min(marked \union {Len(ps.stack) + 1}) - 1
        Flat(subs, re) == (IF re.op = op THEN re.sub ELSE <<FinishRegexp(re)>>) \o subs
        Collapsed(above, below) ==
            <<WithSimple(ConcatOrAlternate(op, FoldLeft(Flat, <<>>, above), ps.flags))>> \o below
    IN IF n = 1 THEN ps
       ELSE [ps EXCEPT !.stack = Collapsed(SubSeq(@, 1, n), SubSeq(@, n + 1, Len(@)))]

DoConcatenation(ps) ==
    DoCollapse(IF NoArgument(ps) THEN PushSimpleOp(ps, "EmptyMatch") ELSE ps, "Concat")

OneRuneOps == {"Literal", "CharClass", "AnyChar"}

\* Mistake: any character subsumes whatever is next to it.
SubsumesAll(re, other) == re.op = "AnyChar"

\* Any character subsumes one rune.
Subsumes(re, other) == re.op = "AnyChar" /\ other.op \in OneRuneOps

\* The alternatives so far are below the bar; the one just read goes there.
Alternative(ps) ==
    LET r1 == ps.stack[1]
        r2 == ps.stack[2]
        r3 == ps.stack[3]
        rest == SubSeq(ps.stack, 3, Len(ps.stack))
    IN IF Len(ps.stack) >= 2 /\ r2.op = "VerticalBar"
       THEN [ps EXCEPT !.stack =
                IF Len(ps.stack) >= 3 /\ Subsumes(r3, r1) THEN <<r2>> \o rest
                ELSE IF Len(ps.stack) >= 3 /\ Subsumes(r1, r3) THEN <<r2, r1>> \o Tail(rest)
                ELSE <<r2, r1>> \o rest]
       ELSE PushSimpleOp(ps, "VerticalBar")

DoVerticalBar(ps) ==
    Alternative(DoConcatenation([ps EXCEPT !.stack = ConcatStrings(@)]))

DoAlternation(ps) == DoCollapse([DoVerticalBar(ps) EXCEPT !.stack = Tail(@)], "Alternate")

\* A group's marker keeps the flags to go back to.
DoLeftParen(ps) ==
    PushRegexp([ps EXCEPT !.ncap = @ + 1],
               [cap |-> ps.ncap + 1] @@ Node("LeftParen", ps.flags))

DoLeftParenNoCapture(ps) == PushRegexp(ps, [cap |-> -1] @@ Node("LeftParen", ps.flags))

\* Mistake: the flags outlive a group that does not capture.
ParenthesizedKeepingFlags(ps) ==
    LET r1 == ps.stack[1]
        r2 == ps.stack[2]
        capture == [op |-> "Capture", cap |-> r2.cap, flags |-> r2.flags, simple |-> FALSE,
                    sub |-> <<FinishRegexp(r1)>>]
    IN IF Len(ps.stack) < 2 \/ r2.op # "LeftParen"
       THEN Failed(ps, "UnexpectedParen")
       ELSE PushRegexp([ps EXCEPT !.stack = SubSeq(@, 3, Len(@))],
                       IF r2.cap > 0 THEN capture ELSE r1)

\* The group's regexp takes the place of its marker.
Parenthesized(ps) ==
    LET r1 == ps.stack[1]
        r2 == ps.stack[2]
        capture == [op |-> "Capture", cap |-> r2.cap, flags |-> r2.flags, simple |-> FALSE,
                    sub |-> <<FinishRegexp(r1)>>]
    IN IF Len(ps.stack) < 2 \/ r2.op # "LeftParen"
       THEN Failed(ps, "UnexpectedParen")
       ELSE PushRegexp([ps EXCEPT !.stack = SubSeq(@, 3, Len(@)), !.flags = r2.flags],
                       IF r2.cap > 0 THEN capture ELSE r1)

DoRightParen(ps) == Parenthesized(DoAlternation(ps))

\* The regexp, if the parentheses match.
Finished(ps) ==
    IF Len(ps.stack) > 1 THEN Failed(ps, "MissingParen")
    ELSE [ps EXCEPT !.stack = <<FinishRegexp(@[1])>>]

DoFinish(ps) ==
    IF ps.class # <<>> THEN Failed(ps, "MissingBracket") ELSE Finished(DoAlternation(ps))

\* (?on-off) or (?on-off:, after which the flags are what they were when the group
\* ends.  m is the opposite of OneLine.
ParsePerlFlags(ps, on, off, dash, group) ==
    LET set == (ps.flags \union (on \ {"m"})) \ (IF "m" \in on THEN {"OneLine"} ELSE {})
        nflags == (set \ (off \ {"m"})) \union (IF "m" \in off THEN {"OneLine"} ELSE {})
        opened == IF group THEN DoLeftParenNoCapture(ps) ELSE ps
    IN IF dash /\ off = {} THEN Failed(ps, "BadPerlOp")
       ELSE [opened EXCEPT !.flags = nflags]

-----------------------------------------------------------------------------
(* Classes. *)

\* A negated class that must not match newline takes it in first.
OpenClass(ps, negated) ==
    [ps EXCEPT !.class =
        <<[negated |-> negated,
           ccb |-> IF negated /\ CutsNewline(ps.flags)
                   THEN AddRange(NoClass, Newline, Newline) ELSE NoClass]>>]

\* An explicit range may match newline.
ClassRange(ps, lo, hi) ==
    IF hi < lo THEN Failed(ps, "BadCharRange")
    ELSE [ps EXCEPT !.class[1].ccb = AddRangeFlags(@, lo, hi, ps.flags \union {"ClassNL"})]

ClassGroup(ps, g, sign) == [ps EXCEPT !.class[1].ccb = AddUGroup(@, g, sign, ps.flags)]

CloseClass(ps) ==
    LET c == ps.class[1] IN
    PushRegexp([ps EXCEPT !.class = <<>>],
               ClassNode(IF c.negated THEN Negate(c.ccb) ELSE c.ccb, ps.flags))

-----------------------------------------------------------------------------
(* The loop. *)

\* One turn on one token.
Turn(ps, tok) ==
    CASE tok.t = "rune" -> PushLiteral(ps, tok.rune)
      [] tok.t = "(" -> IF "NeverCapture" \in ps.flags THEN DoLeftParenNoCapture(ps)
                        ELSE DoLeftParen(ps)
      [] tok.t = "(?" -> ParsePerlFlags(ps, tok.on, tok.off, tok.dash, tok.group)
      [] tok.t = "|" -> DoVerticalBar(ps)
      [] tok.t = ")" -> DoRightParen(ps)
      [] tok.t = "^" -> PushCaret(ps)
      [] tok.t = "$" -> PushDollar(ps)
      [] tok.t = "." -> PushDot(ps)
      [] tok.t = "op" -> PushSimpleOp(ps, tok.op)
      [] tok.t = "group" -> IF ps.class = <<>> THEN PushGroup(ps, perl_groups[tok.g], tok.sign)
                            ELSE ClassGroup(ps, perl_groups[tok.g], tok.sign)
      [] tok.t = "[" -> OpenClass(ps, tok.negated)
      [] tok.t = "range" -> ClassRange(ps, tok.lo, tok.hi)
      [] tok.t = "]" -> CloseClass(ps)
      [] tok.t = "loop" -> Repetition(ps, PushRepeatOp(ps, tok.op, tok.nongreedy))
      [] tok.t = "{" -> Repetition(ps, PushRepetition(ps, tok.min, tok.max, tok.nongreedy))

Step(ps, tok) ==
    IF ps.code # "Success" THEN ps
    ELSE Turn(IF tok.t \in {"loop", "{"} THEN ps ELSE [ps EXCEPT !.lastunary = FALSE], tok)

Parsed(tokens, flags) ==
    LET End(ps) == IF ps.code = "Success" THEN DoFinish(ps) ELSE ps
    IN End(FoldLeft(Step, ParseState(flags), tokens))

-----------------------------------------------------------------------------
(* What the parser should make of its tokens: a definition by recursive     *)
(* descent, with no stack to edit, no factoring and no classes under        *)
(* construction.  A class is what it has of a given alphabet.               *)

\* Runes that are the same but for case.
Cases == {{75, 107, 8490}, {83, 115, 383}}
SameButCase(c, d) ==
    \/ Lower(c) = Lower(d)
    \/ \E S \in Cases : {c, d} \subseteq S
    \/ {c, d} \subseteq 256 .. 303 /\ c \div 2 = d \div 2
    \/ {c, d} \subseteq 313 .. 328 /\ (c + 1) \div 2 = (d + 1) \div 2

\* Is c, or a rune that is c but for case, one that Is holds of?
UpToCase(c, flags, alphabet, Is(_)) ==
    Is(c) \/ ("FoldCase" \in flags /\ \E d \in alphabet : SameButCase(c, d) /\ Is(d))

GroupHas(g, c) ==
    CASE g = "d" -> c \in 48 .. 57
      [] g = "s" -> c \in {9, 10, 12, 13, 32}
      [] g = "w" -> c \in 48 .. 57 \/ IsWordChar(c) \/ c = 95

\* Does an item of a class have c?  A group has newline only if classes may.
ItemHas(tok, flags, alphabet, c) ==
    CASE tok.t = "range" ->
            /\ UpToCase(c, flags, alphabet, LAMBDA d : tok.lo <= d /\ d <= tok.hi)
            /\ ~(c = Newline /\ "NeverNL" \in flags)
      [] tok.t = "group" ->
            /\ UpToCase(c, flags, alphabet, LAMBDA d : GroupHas(tok.g, d)) <=> tok.sign = 1
            /\ ~(c = Newline /\ CutsNewline(flags))

OneOf(alphabet, Is(_)) ==
    CharClassRe(Sorted({<<c, c>> : c \in {c \in alphabet : Is(c)}}))

\* The regexp of a token that is one by itself.
Leaf(tok, flags, alphabet) ==
    CASE tok.t = "rune" ->
            OneOf(alphabet, LAMBDA c : /\ UpToCase(c, flags, alphabet, LAMBDA d : d = tok.rune)
                                       /\ ~(c = Newline /\ "NeverNL" \in flags))
      [] tok.t = "." ->
            OneOf(alphabet, LAMBDA c : c # Newline \/ {"DotNL", "NeverNL"} \intersect flags = {"DotNL"})
      [] tok.t = "group" -> OneOf(alphabet, LAMBDA c : ItemHas(tok, flags, alphabet, c))
      [] tok.t = "^" -> EmptyWidthRe(IF "OneLine" \in flags THEN "BeginText" ELSE "BeginLine")
      [] tok.t = "$" -> EmptyWidthRe(IF "OneLine" \in flags THEN "EndText" ELSE "EndLine")
      [] tok.t = "op" -> Meaning(Node(tok.op, flags))

\* The class that begins at token k, and where it ends.
ClassAt(toks, k, flags, alphabet) ==
    LET closed == {j \in k .. Len(toks) : toks[j].t = "]"}
        end == Min(closed \union {Len(toks) + 1})
        items == {toks[j] : j \in k + 1 .. end - 1}
        Has(c) == IF toks[k].negated
                  THEN /\ ~\E i \in items : ItemHas(i, flags, alphabet, c)
                       /\ ~(c = Newline /\ CutsNewline(flags))
                  ELSE \E i \in items : ItemHas(i, flags, alphabet, c)
    IN [at |-> end + 1, re |-> OneOf(alphabet, Has),
        code |-> CASE \E i \in items : i.t = "range" /\ i.hi < i.lo -> "BadCharRange"
                   [] closed = {} -> "MissingBracket"
                   [] OTHER -> "Success"]

\* The flags after "(?on-off".
FlagsAfter(flags, tok) ==
    LET oneline == "m" \in tok.off \/ ("OneLine" \in flags /\ "m" \notin tok.on)
    IN ((flags \union tok.on) \ (tok.off \union {"m", "OneLine"}))
            \union (IF oneline THEN {"OneLine"} ELSE {})

Greed(tok, flags) == tok.nongreedy # ("NonGreedy" \in flags)

\* The regexp of all alternatives, and its copies.
Whole(st) ==
    LET alts == Append(st.alts, st.pieces)
        Regexps(pieces) == [k \in DOMAIN pieces |-> pieces[k].re]
    IN [re |-> AlternateRe([k \in DOMAIN alts |-> ConcatRe(Regexps(alts[k]))]),
        copies |-> Max({1} \union UNION {{alts[k][j].copies : j \in DOMAIN alts[k]} :
                                            k \in DOMAIN alts})]

\* From token k on, up to a ')' that closes nothing opened since: the alternatives,
\* the pieces of the last one, the flags, how many groups capture.  A piece is a
\* regexp and how often the repetitions in it copy what they repeat.
RECURSIVE Alternatives(_, _, _)
Alternatives(toks, alphabet, st) ==
    LET tok == toks[st.k]
        On(new) == Alternatives(toks, alphabet, [new EXCEPT !.k = @ + 1])
        Put(re, copies) == [st EXCEPT !.pieces = Append(@, [re |-> re, copies |-> copies]),
                                      !.unary = FALSE]
        Fails(code) == [st EXCEPT !.code = code]
        last == Last(st.pieces)
        Repeats(re, copies) ==
            [st EXCEPT !.pieces[Len(st.pieces)] = [re |-> re, copies |-> copies], !.unary = TRUE]
        Opens(flags, capture) ==
            LET inner == Alternatives(toks, alphabet,
                            [st EXCEPT !.k = @ + 1, !.alts = <<>>, !.pieces = <<>>, !.unary = FALSE,
                                       !.flags = flags, !.ncap = @ + (IF capture THEN 1 ELSE 0)])
                re == IF capture THEN CaptureRe(Whole(inner).re, st.ncap + 1) ELSE Whole(inner).re
            IN CASE inner.code # "Success" -> inner
                 [] inner.code = "Success" /\ inner.k > Len(toks) ->
                        [inner EXCEPT !.code = "MissingParen"]
                 [] OTHER -> On([Put(re, Whole(inner).copies)
                                    EXCEPT !.k = inner.k, !.ncap = inner.ncap])
        times == IF tok.max = -1 THEN tok.min ELSE tok.max
        copies == last.copies * (IF times > 0 THEN times ELSE 1)
        class == ClassAt(toks, st.k, st.flags, alphabet)
    IN CASE st.k > Len(toks) -> st
         [] st.k <= Len(toks) /\ tok.t = ")" -> st
         [] st.k <= Len(toks) /\ tok.t = "|" ->
                On([st EXCEPT !.alts = Append(@, st.pieces), !.pieces = <<>>, !.unary = FALSE])
         [] st.k <= Len(toks) /\ tok.t = "(" -> Opens(st.flags, "NeverCapture" \notin st.flags)
         [] st.k <= Len(toks) /\ tok.t = "(?" ->
                IF tok.dash /\ tok.off = {} THEN Fails("BadPerlOp")
                ELSE IF tok.group THEN Opens(FlagsAfter(st.flags, tok), FALSE)
                ELSE On([st EXCEPT !.flags = FlagsAfter(@, tok), !.unary = FALSE])
         [] st.k <= Len(toks) /\ tok.t = "[" ->
                IF class.code # "Success" THEN Fails(class.code)
                ELSE Alternatives(toks, alphabet, [Put(class.re, 1) EXCEPT !.k = class.at])
         [] st.k <= Len(toks) /\ tok.t \in {"loop", "{"} ->
                CASE st.unary /\ "PerlX" \in st.flags -> Fails("RepeatOp")
                  [] ~(st.unary /\ "PerlX" \in st.flags) /\ tok.t = "loop" ->
                        IF st.pieces = <<>> THEN Fails("RepeatArgument")
                        ELSE On(Repeats(LoopRe(tok.op, last.re, Greed(tok, st.flags)), last.copies))
                  [] OTHER ->
                        IF \/ tok.max # -1 /\ tok.max < tok.min
                           \/ {tok.min, tok.max} \ -1 .. maximum_repeat_count # {}
                        THEN Fails("RepeatSize")
                        ELSE IF st.pieces = <<>> THEN Fails("RepeatArgument")
                        ELSE IF times >= 2 /\ copies > maximum_repeat_count THEN Fails("RepeatSize")
                        ELSE On(Repeats(Repeated(last.re, tok.min, tok.max, Greed(tok, st.flags)),
                                        copies))
         [] OTHER -> On(Put(Leaf(tok, st.flags, alphabet), 1))

\* The regexp that the tokens mean, or the code of their first error.
Reference(toks, flags, alphabet) ==
    LET st == Alternatives(toks, alphabet,
                [k |-> 1, alts |-> <<>>, pieces |-> <<>>, flags |-> flags, ncap |-> 0,
                 unary |-> FALSE, code |-> "Success"])
    IN [re |-> Whole(st).re,
        code |-> IF st.code = "Success" /\ st.k <= Len(toks) THEN "UnexpectedParen" ELSE st.code]

=============================================================================
