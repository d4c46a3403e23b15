------------------------------- MODULE Printer -------------------------------
(***************************************************************************)
(* ToString (re2/tostring.cc): the tokens that a regexp is printed as, with*)
(* as few groups as the precedence of its operators allows.                *)
(***************************************************************************)
EXTENDS RegexpTrees

PrecAtom == 0
PrecUnary == 1
PrecConcat == 2
PrecAlternate == 3
PrecEmpty == 4
PrecParen == 5
PrecToplevel == 6

Tok(t) == [t |-> t]
RuneTok(r) == [t |-> "rune", rune |-> r]
OpenTok(negated) == [t |-> "[", negated |-> negated]
RangeTok(lo, hi) == [t |-> "range", lo |-> lo, hi |-> hi]
OpTok(op) == [t |-> "op", op |-> op]
FlagTok(on, off, group) ==
    [t |-> "(?", on |-> on, off |-> off, dash |-> off # {}, group |-> group]

NoMatchToks == <<OpenTok(TRUE), RangeTok(0, Runemax), Tok("]")>>

InOneLine(tok) == <<FlagTok({}, {"m"}, TRUE), tok, Tok(")")>>

\* A letter that folds case is printed as the class of its two cases.
AppendLiteral(r, foldcase) ==
    IF foldcase /\ r \in LowerCase
    THEN LET u == r - (LowerA - UpperA)
         IN <<OpenTok(FALSE), RangeTok(u, u), RangeTok(r, r), Tok("]")>>
    ELSE <<RuneTok(r)>>

\* A class that contains a rune no text should have is printed as what it lacks.
Unlikely == 65534
AppendClass(cc) ==
    LET negated == /\ \E k \in DOMAIN cc.ranges : cc.ranges[k][1] <= Unlikely
                                                    /\ Unlikely <= cc.ranges[k][2]
                   /\ cc.nrunes # Runemax + 1
        shown == IF negated THEN NegateClass(cc) ELSE cc
    IN IF cc.nrunes = 0 THEN NoMatchToks
       ELSE <<OpenTok(negated)>> \o [k \in DOMAIN shown.ranges |->
                                        RangeTok(shown.ranges[k][1], shown.ranges[k][2])]
                                 \o <<Tok("]")>>

\* The precedence that a node's children are printed with, and below which it is
\* grouped itself.
NextPrec(re) ==
    CASE re.op = "Capture" -> PrecParen
      [] re.op = "Alternate" -> PrecAlternate
      [] re.op \in {"Concat", "LiteralString"} -> PrecConcat
      [] OTHER -> PrecAtom

\* Mistake: a string needs no group.
OwnPrecOfAtoms(re) ==
    CASE re.op \in Loops \union {"Repeat"} -> PrecUnary
      [] re.op \in {"Alternate", "Concat"} -> NextPrec(re)
      [] OTHER -> PrecAtom

OwnPrec(re) == IF re.op \in Loops \union {"Repeat"} THEN PrecUnary ELSE NextPrec(re)

Suffix(re) ==
    IF re.op = "Repeat"
    THEN [t |-> "{", min |-> re.min, max |-> re.max, nongreedy |-> "NonGreedy" \in re.flags]
    ELSE [t |-> "loop", op |-> re.op, nongreedy |-> "NonGreedy" \in re.flags]

RECURSIVE Printed(_, _)
Printed(re, prec) ==
    LET subs == [k \in DOMAIN re.sub |-> Printed(re.sub[k], NextPrec(re))]
        fold == "FoldCase" \in re.flags
        body ==
            CASE re.op = "NoMatch" -> NoMatchToks
              [] re.op = "EmptyMatch" ->
                    IF prec < PrecEmpty THEN <<FlagTok({}, {}, TRUE), Tok(")")>> ELSE <<>>
              [] re.op = "Literal" -> AppendLiteral(re.rune, fold)
              [] re.op = "LiteralString" ->
                    FlattenSeq([k \in DOMAIN re.runes |-> AppendLiteral(re.runes[k], fold)])
              [] re.op = "Concat" -> FlattenSeq(subs)
              [] re.op = "Alternate" ->
                    Tail(FlattenSeq([k \in DOMAIN subs |-> <<Tok("|")>> \o subs[k]]))
              [] re.op = "Capture" -> <<Tok("(")>> \o subs[1] \o <<Tok(")")>>
              [] re.op \in Loops \union {"Repeat"} -> Append(subs[1], Suffix(re))
              [] re.op = "AnyChar" -> <<Tok(".")>>
              [] re.op = "BeginLine" -> <<Tok("^")>>
              [] re.op = "EndLine" -> <<Tok("$")>>
              [] re.op = "BeginText" -> InOneLine(Tok("^"))
              [] re.op = "EndText" ->
                    IF "WasDollar" \in re.flags THEN InOneLine(Tok("$")) ELSE <<OpTok("EndText")>>
              [] re.op = "CharClass" -> AppendClass(re.cc)
              [] re.op \in {"AnyByte", "WordBoundary", "NoWordBoundary"} -> <<OpTok(re.op)>>
    IN IF re.op # "Capture" /\ prec < OwnPrec(re)
       THEN <<FlagTok({}, {}, TRUE)>> \o body \o <<Tok(")")>>
       ELSE body

AsTokens(re) == Printed(re, PrecToplevel)

=============================================================================
