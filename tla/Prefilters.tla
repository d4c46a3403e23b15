----------------------------- MODULE Prefilters -----------------------------
(***************************************************************************)
(* Prefilters (re2/prefilter.cc): what strings a text must contain, in     *)
(* lower case, for a regexp to match somewhere in it.                      *)
(*                                                                         *)
(* A string is a sequence of runes: its encoding keeps the order of strings*)
(* and which of them are in which.                                         *)
(***************************************************************************)
EXTENDS Simplifier

CONSTANT MaxVisits   \* how many nodes BuildInfo visits before it gives up; 100000

ASSUME VisitsAssumption == MaxVisits \in Nat \ {0}

Ops == <<"ALL", "NONE", "ATOM", "AND", "OR">>   \* in the order of their codes
Code(op) == CHOOSE k \in DOMAIN Ops : Ops[k] = op

All == [op |-> "ALL"]
None == [op |-> "NONE"]
FromString(str) == [op |-> "ATOM", atom |-> str]
Of(op, subs) == [op |-> op, subs |-> subs]

\* An AND or OR of nothing, or of one.
RECURSIVE SimplifyFilter(_)
SimplifyFilter(f) ==
    CASE f.op \notin {"AND", "OR"} -> f
      [] f.op \in {"AND", "OR"} /\ Len(f.subs) = 0 -> IF f.op = "AND" THEN All ELSE None
      [] f.op \in {"AND", "OR"} /\ Len(f.subs) = 1 -> SimplifyFilter(f.subs[1])
      [] OTHER -> f

\* Mistake: a filter that says nothing is dropped from an OR as it is from an AND.
AndOrDropAll(op, a0, b0) ==
    LET a == SimplifyFilter(a0)
        b == SimplifyFilter(b0)
    IN IF All \in {a, b} THEN IF a = All THEN b ELSE a
       ELSE Of(op, <<a, b>>)

\* The AND or OR of two that are simplified and in the order of their ops.
Combined(op, a, b) ==
    CASE a.op \in {"ALL", "NONE"} -> IF (a = All) = (op = "AND") THEN b ELSE a
      [] a.op = op /\ b.op = op -> Of(op, a.subs \o b.subs)
      [] a.op # op /\ b.op = op -> Of(op, Append(b.subs, a))
      [] a.op = op /\ b.op # op -> Of(op, Append(a.subs, b))
      [] OTHER -> Of(op, <<a, b>>)

Ordered(op, a, b) ==
    IF Code(a.op) > Code(b.op) THEN Combined(op, b, a) ELSE Combined(op, a, b)

AndOr(op, a, b) == Ordered(op, SimplifyFilter(a), SimplifyFilter(b))

And(a, b) == AndOr("AND", a, b)
Or(a, b) == AndOr("OR", a, b)

-----------------------------------------------------------------------------
(* Sets of strings. *)

Before(s, t) ==
    \/ IsStrictPrefix(s, t)
    \/ \E k \in DOMAIN s \intersect DOMAIN t :
            /\ s[k] < t[k]
            /\ \A j \in 1 .. k - 1 : s[j] = t[j]

\* Mistake: a string is dropped for one that it is in.
SimplifyStringSetKeepLong(ss) ==
    {s \in ss : ~\E i \in ss \ {s, <<>>} : s \in SubSeqs(i)}

\* A string that contains one before it says no more than that one does.
SimplifyStringSet(ss) ==
    {s \in ss : ~\E i \in ss \ {<<>>} : Before(i, s) /\ i \in SubSeqs(s)}

OrStrings(ss) ==
    FoldLeft(LAMBDA f, s : Or(f, FromString(s)), None,
             InOrder(SimplifyStringSet(ss), Before))

\* ToLowerRune and ToLowerRuneLatin1; the rows of unicode_tolower for the runes
\* that unicode_casefold has.
ToLowerRune(r, latin1) ==
    CASE latin1 \/ r < 128 -> Lower(r)
      [] r \in 256 .. 303 -> r + 1 - (r % 2)
      [] r \in 313 .. 328 -> r + (r % 2)
      [] r = 383 -> 115
      [] r = 8490 -> 107
      [] OTHER -> r

-----------------------------------------------------------------------------
(* Info: the strings that a regexp matches, if they are few, and else a    *)
(* filter for them.                                                        *)

Exact(ss) == [is_exact |-> TRUE, exact |-> ss]
Inexact(f) == [is_exact |-> FALSE, match |-> f]

TakeMatch(info) == IF info.is_exact THEN OrStrings(info.exact) ELSE info.match

CrossProduct(a, b) == {s \o t : s \in a, t \in b}

InfoLiteral(r, latin1) == Exact({<<ToLowerRune(r, latin1)>>})

InfoConcat(a, b) == Exact(CrossProduct(a.exact, b.exact))

InfoAnd(a, b) == Inexact(And(TakeMatch(a), TakeMatch(b)))

InfoAlt(a, b) ==
    IF a.is_exact /\ b.is_exact THEN Exact(a.exact \union b.exact)
    ELSE Inexact(Or(TakeMatch(a), TakeMatch(b)))

InfoQuest(a) == Inexact(All)

InfoPlus(a) == Inexact(TakeMatch(a))

\* A large class says nothing.
InfoCClass(cc, latin1) ==
    IF cc.nrunes > 10 THEN Inexact(All)
    ELSE Exact({<<ToLowerRune(r, latin1)>> :
                    r \in UNION {cc.ranges[k][1] .. cc.ranges[k][2] : k \in DOMAIN cc.ranges}})

\* Two infos joined, of which either may be missing.
Both(Join(_, _), a, b) ==
    IF a = <<>> THEN b ELSE IF b = <<>> THEN a ELSE <<Join(a[1], b[1])>>

\* A run of exact children is exact while it is small; all that went before it is
\* a filter.
InfoConcatenation(args) ==
    LET Large(ci, run) ==
            run # <<>> /\ Cardinality(ci.exact) * Cardinality(run[1].exact) > 16
        Next(acc, ci) ==
            IF ~ci.is_exact \/ Large(ci, acc.exact)
            THEN [info |-> Both(InfoAnd, Both(InfoAnd, acc.info, acc.exact), <<ci>>), exact |-> <<>>]
            ELSE [acc EXCEPT !.exact = Both(InfoConcat, @, <<ci>>)]
        Whole(acc) == Both(InfoAnd, acc.info, acc.exact)[1]
    IN Whole(FoldLeft(Next, [info |-> <<>>, exact |-> <<>>], args))

PostVisit(re, args) ==
    LET Lit(r) == InfoLiteral(r, "Latin1" \in re.flags)
    IN CASE re.op = "NoMatch" -> Inexact(None)
         [] re.op \in EmptyWidthOps \union {"EmptyMatch"} -> Exact({<<>>})
         [] re.op = "Literal" -> Lit(re.rune)
         [] re.op = "LiteralString" ->
                FoldLeft(LAMBDA info, r : InfoConcat(info, Lit(r)), Lit(re.runes[1]), Tail(re.runes))
         [] re.op = "Concat" -> InfoConcatenation(args)
         [] re.op = "Alternate" -> FoldLeft(InfoAlt, args[1], Tail(args))
         [] re.op \in {"Star", "Quest"} -> InfoQuest(args[1])
         [] re.op = "Plus" -> InfoPlus(args[1])
         [] re.op \in {"AnyChar", "AnyByte"} -> Inexact(All)
         [] re.op = "CharClass" -> InfoCClass(re.cc, "Latin1" \in re.flags)
         [] re.op = "Capture" -> args[1]

\* A node that is not visited may match anything.
ShortVisit(re) == Inexact(All)

INSTANCE Walker

\* FromRegexp, given re simplified: one filter, or none if the walk gave up.
FromSimplified(re) ==
    LET w == WalkExponential(re, MaxVisits)
    IN IF w.stopped_early THEN <<>> ELSE <<TakeMatch(w.result)>>

-----------------------------------------------------------------------------
\* Does a text in lower case pass the filter?
RECURSIVE Passes(_, _)
Passes(f, text) ==
    CASE f.op = "ALL" -> TRUE
      [] f.op = "NONE" -> FALSE
      [] f.op = "ATOM" -> f.atom \in SubSeqs(text)
      [] f.op = "AND" -> \A k \in DOMAIN f.subs : Passes(f.subs[k], text)
      [] f.op = "OR" -> \E k \in DOMAIN f.subs : Passes(f.subs[k], text)

=============================================================================
