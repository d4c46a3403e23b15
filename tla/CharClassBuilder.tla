-------------------------- MODULE CharClassBuilder --------------------------
(***************************************************************************)
(* Character classes (re2/regexp.h, re2/regexp.cc): the builder, a set of  *)
(* ranges of runes that neither overlap nor abut, next to what it counts   *)
(* on the side (how many runes there are, which ASCII letters), and the    *)
(* sorted class it becomes.                                                *)
(*                                                                         *)
(* Here what Regexps calls bytes are runes: MaxByte is Runemax, and        *)
(* Newline, UpperA, UpperZ and LowerA are the runes of those names.        *)
(***************************************************************************)
EXTENDS Regexps, FiniteSets, FiniteSetsExt, SequencesExt

Runemax == MaxByte

Upper == UpperA .. UpperZ
LowerCase == LowerA .. LowerZ

NoClass == [ranges |-> {}, upper |-> {}, lower |-> {}, nrunes |-> 0]

Width(r) == r[2] - r[1] + 1

\* ranges_.find: the ranges that share a rune with lo-hi.
Find(ranges, lo, hi) == {r \in ranges : r[1] <= hi /\ lo <= r[2]}

HasRune(cc, r) == Find(cc.ranges, r, r) # {}

\* Is lo-hi in one range of the class already, so that AddRange returns false?
InClass(cc, lo, hi) == hi < lo \/ \E r \in cc.ranges : r[1] <= lo /\ hi <= r[2]

\* lo-hi in the place of the ranges that are gone, and of what is between.
Joined(cc, gone, lo, hi) ==
    LET first == Min({lo} \union {r[1] : r \in gone})
        last == Max({hi} \union {r[2] : r \in gone})
    IN [ranges |-> (cc.ranges \ gone) \union {<<first, last>>},
        upper |-> cc.upper \union (Upper \intersect lo .. hi),
        lower |-> cc.lower \union (LowerCase \intersect lo .. hi),
        nrunes |-> cc.nrunes - MapThenSumSet(Width, gone) + (last - first + 1)]

\* Mistake: a range that lo-hi touches on the left stays as it is.
AddRangeApart(cc, lo, hi) ==
    IF InClass(cc, lo, hi) THEN cc ELSE Joined(cc, Find(cc.ranges, lo, hi + 1), lo, hi)

\* The ranges that lo-hi touches or overlaps become one with it.
AddRange(cc, lo, hi) ==
    IF InClass(cc, lo, hi) THEN cc ELSE Joined(cc, Find(cc.ranges, lo - 1, hi + 1), lo, hi)

AddRanges(cc, ranges) == FoldSet(LAMBDA r, acc : AddRange(acc, r[1], r[2]), cc, ranges)

AddCharClass(cc, other) == AddRanges(cc, other.ranges)

\* Only letters up to r stay in the bitmaps, and a range that goes beyond r is cut.
RemoveAbove(cc, r) ==
    LET above == Find(cc.ranges, r + 1, Runemax)
        cut == {<<x[1], r>> : x \in {x \in above : x[1] <= r}}
    IN IF r >= Runemax THEN cc
       ELSE [ranges |-> (cc.ranges \ above) \union cut,
             upper |-> {c \in cc.upper : c <= r},
             lower |-> {c \in cc.lower : c <= r},
             nrunes |-> cc.nrunes - MapThenSumSet(Width, above) + MapThenSumSet(Width, cut)]

\* What is between the ranges, before the first and after the last.
Gaps(ranges) ==
    LET begins == {r[1] : r \in ranges} \union {Runemax + 1}
        ends == {-1} \union {r[2] : r \in ranges}
    IN {<<e + 1, Min({b \in begins : e < b}) - 1>> : e \in {e \in ends : e + 1 \notin begins}}

Negate(cc) ==
    [ranges |-> Gaps(cc.ranges),
     upper |-> Upper \ cc.upper,
     lower |-> LowerCase \ cc.lower,
     nrunes |-> Runemax + 1 - cc.nrunes]

\* Does the class behave on 'A' .. 'Z' as it does on 'a' .. 'z'?
FoldsASCII(cc) == {Lower(c) : c \in cc.upper} = cc.lower

\* Is what a builder keeps on the side true: are its ranges apart, and does it know how
\* many runes they have and which letters are among them?
IsExact(cc) ==
    /\ \A r, s \in cc.ranges : r[1] <= r[2] /\ (r # s => r[2] + 1 < s[1] \/ s[2] + 1 < r[1])
    /\ cc.nrunes = MapThenSumSet(Width, cc.ranges)
    /\ cc.upper = {c \in Upper : HasRune(cc, c)}
    /\ cc.lower = {c \in LowerCase : HasRune(cc, c)}

-----------------------------------------------------------------------------
\* A set in order, which SetToSortSeq would look for among all sequences.
InOrder(S, Less(_, _)) ==
    [k \in 1 .. Cardinality(S) |->
        CHOOSE x \in S : Cardinality({y \in S : Less(y, x)}) = k - 1]

\* CharClass: the ranges in order.
Sorted(ranges) == InOrder(ranges, LAMBDA a, b : a[1] < b[1])

GetCharClass(cc) ==
    [ranges |-> Sorted(cc.ranges), nrunes |-> cc.nrunes, folds_ascii |-> FoldsASCII(cc)]

\* CharClass::Negate.
NegateClass(cc) ==
    [cc EXCEPT !.ranges = Sorted(Gaps(ToSet(cc.ranges))), !.nrunes = Runemax + 1 - @]

=============================================================================
