------------------------------ MODULE CaseFold ------------------------------
(***************************************************************************)
(* Case folding (re2/unicode_casefold.h) and the classes the parser builds *)
(* with it (re2/parse.cc).  The runes that are the same but for case form  *)
(* cycles, through which the table leads.                                  *)
(***************************************************************************)
EXTENDS CharClassBuilder

EvenOdd == 1
OddEven == -1

\* The rows of the table whose runes are ASCII letters, or fold to one, and two of
\* its alternating ones.
unicode_casefold ==
    <<[lo |-> 65, hi |-> 90, delta |-> 32],
      [lo |-> 97, hi |-> 106, delta |-> -32],
      [lo |-> 107, hi |-> 107, delta |-> 8383],
      [lo |-> 108, hi |-> 114, delta |-> -32],
      [lo |-> 115, hi |-> 115, delta |-> 268],
      [lo |-> 116, hi |-> 122, delta |-> -32],
      [lo |-> 256, hi |-> 303, delta |-> EvenOdd],
      [lo |-> 313, hi |-> 328, delta |-> OddEven],
      [lo |-> 383, hi |-> 383, delta |-> -300],
      [lo |-> 8490, hi |-> 8490, delta |-> -8415]>>

\* The row that contains r, or else the first one after r; among the n rows that
\* follow the first f.
RECURSIVE LookupFrom(_, _, _)
LookupFrom(f, n, r) ==
    LET m == n \div 2
        row == unicode_casefold[f + m + 1]
    IN IF n = 0
       THEN IF f < Len(unicode_casefold) THEN <<unicode_casefold[f + 1]>> ELSE <<>>
       ELSE IF row.lo <= r /\ r <= row.hi THEN <<row>>
       ELSE IF r < row.lo THEN LookupFrom(f, m, r)
       ELSE LookupFrom(f + m + 1, n - (m + 1), r)

\* No row, or one.
LookupCaseFold(r) == LookupFrom(0, Len(unicode_casefold), r)

ApplyFold(f, r) ==
    CASE f.delta = EvenOdd -> IF r % 2 = 0 THEN r + 1 ELSE r - 1
      [] f.delta = OddEven -> IF r % 2 = 1 THEN r + 1 ELSE r - 1
      [] OTHER -> r + f.delta

CycleFoldRune(r) ==
    LET f == LookupCaseFold(r) IN
    IF f = <<>> \/ r < f[1].lo THEN r ELSE ApplyFold(f[1], r)

\* The image of lo-hi under a row, widened to whole pairs where runes alternate.
FoldedBounds(f, lo, hi) ==
    CASE f.delta = EvenOdd -> <<lo - (lo % 2), hi + 1 - (hi % 2)>>
      [] f.delta = OddEven -> <<lo - 1 + (lo % 2), hi + (hi % 2)>>
      [] OTHER -> <<lo + f.delta, hi + f.delta>>

\* Mistake: the fold of a fold is not followed.
AddFoldedOnce(cc, lo, hi, depth) ==
    LET f == LookupCaseFold(lo)
        bounds == FoldedBounds(f[1], lo, hi)
    IN IF f = <<>> \/ lo < f[1].lo \/ hi > f[1].hi THEN AddRange(cc, lo, hi)
       ELSE AddRange(AddRange(cc, lo, hi), bounds[1], bounds[2])

\* Add lo-hi and what folds to it; a range that is there already is taken to
\* have its folds with it.
RECURSIVE AddFoldedRange(_, _, _, _), FoldRows(_, _, _, _), FoldRow(_, _, _, _, _)
AddFoldedRange(cc, lo, hi, depth) ==
    IF depth > 10 \/ InClass(cc, lo, hi) THEN cc
    ELSE FoldRows(AddRange(cc, lo, hi), lo, hi, depth)

\* Its loop over the rows that lo-hi meets,
FoldRows(cc, lo, hi, depth) ==
    IF lo > hi THEN cc ELSE FoldRow(cc, LookupCaseFold(lo), lo, hi, depth)

\* and its body.
FoldRow(cc, f, lo, hi, depth) ==
    IF f = <<>> THEN cc
    ELSE IF lo < f[1].lo THEN FoldRows(cc, f[1].lo, hi, depth)
    ELSE LET bounds == FoldedBounds(f[1], lo, Min({hi, f[1].hi}))
         IN FoldRows(AddFoldedRange(cc, bounds[1], bounds[2], depth + 1), f[1].hi + 1, hi, depth)

CutsNewline(flags) == "ClassNL" \notin flags \/ "NeverNL" \in flags

\* Around the newline, if it is cut, the range falls into two.
AddRangeFlags(cc, lo, hi, flags) ==
    LET cuts == CutsNewline(flags) /\ lo <= Newline /\ Newline <= hi
        parts == IF cuts THEN <<<<lo, Newline - 1>>, <<Newline + 1, hi>>>> ELSE <<<<lo, hi>>>>
        Add(b, r) == IF r[2] < r[1] THEN b
                     ELSE IF "FoldCase" \in flags THEN AddFoldedRange(b, r[1], r[2], 0)
                     ELSE AddRange(b, r[1], r[2])
    IN FoldLeft(Add, cc, parts)

\* A group of the tables: its ranges, in order (unicode_groups.h).
perl_groups ==
    [d |-> <<<<48, 57>>>>,
     s |-> <<<<9, 10>>, <<12, 13>>, <<32, 32>>>>,
     w |-> <<<<48, 57>>, <<65, 90>>, <<95, 95>>, <<97, 122>>>>]

AddGroup(cc, g, flags) == FoldLeft(LAMBDA b, r : AddRangeFlags(b, r[1], r[2], flags), cc, g)

\* Mistake: the negation of a group is folded like the group.
AddUGroupFolded(cc, g, sign, flags) ==
    AddGroup(cc, IF sign = 1 THEN g ELSE Sorted(Gaps(ToSet(g))), flags)

\* Add a group or its negation.  When case folds, what is left out of the negation
\* are the runes that fold to one of the group, and the newline if it is cut.
AddUGroup(cc, g, sign, flags) ==
    IF sign = 1 THEN AddGroup(cc, g, flags)
    ELSE IF "FoldCase" \in flags
    THEN LET newline == IF CutsNewline(flags) THEN {<<Newline, Newline>>} ELSE {}
         IN AddCharClass(cc, Negate(AddRanges(AddGroup(NoClass, g, flags), newline)))
    ELSE AddGroup(cc, Sorted(Gaps(ToSet(g))), flags)

=============================================================================
