------------------------------ MODULE Regexps ------------------------------
(***************************************************************************)
(* Regular expressions as they reach the compiler, simplified              *)
(* (re2/regexp.h), and the bytes they are about.                           *)
(*                                                                         *)
(* The encoding is Latin-1: runes are bytes, and bytes are 0 .. MaxByte.   *)
(* A text is a sequence of bytes; a position is the number of bytes before *)
(* it.                                                                     *)
(***************************************************************************)
EXTENDS Integers, Sequences

CONSTANTS
    MaxByte,            \* 0xFF
    Newline,            \* '\n'
    UpperA, UpperZ,     \* 'A' and 'Z'
    LowerA              \* 'a'

ASSUME ByteAssumption ==
    /\ MaxByte \in Nat /\ Newline \in Nat
    /\ UpperA \in Nat /\ UpperZ \in Nat /\ LowerA \in Nat
    /\ Newline < UpperA
    /\ UpperA <= UpperZ
    /\ UpperZ < LowerA
    /\ LowerA + (UpperZ - UpperA) <= MaxByte

LowerZ == LowerA + (UpperZ - UpperA)
Byte == 0 .. MaxByte
Letters == (UpperA .. UpperZ) \union (LowerA .. LowerZ)

\* Folding turns 'A' .. 'Z' into 'a' .. 'z'.
Lower(c) == IF c \in UpperA .. UpperZ THEN c + (LowerA - UpperA) ELSE c

IsWordChar(c) == c \in Letters

\* The bytes that lo-hi matches, with or without regard to case.
InRange(c, lo, hi, foldcase) == (IF foldcase THEN Lower(c) ELSE c) \in lo .. hi

-----------------------------------------------------------------------------
\* The expressions.  A class is a sequence of ranges, in order and apart.
NoMatchRe == [op |-> "NoMatch"]
EmptyMatchRe == [op |-> "EmptyMatch"]
LiteralRe(b, foldcase) == [op |-> "Literal", rune |-> b, foldcase |-> foldcase]
AnyByteRe == [op |-> "AnyByte"]
CharClassRe(ranges) == [op |-> "CharClass", cc |-> ranges]
EmptyWidthRe(flag) == [op |-> "EmptyWidth", flag |-> flag]
HaveMatchRe(id) == [op |-> "HaveMatch", match_id |-> id]
ConcatRe(sub) == [op |-> "Concat", sub |-> sub]
AlternateRe(sub) == [op |-> "Alternate", sub |-> sub]
LoopRe(op, r, nongreedy) == [op |-> op, sub |-> <<r>>, nongreedy |-> nongreedy]
CaptureRe(r, n) == [op |-> "Capture", sub |-> <<r>>, cap |-> n]

Loops == {"Star", "Plus", "Quest"}

InClassOf(c, cc) == \E k \in DOMAIN cc : c \in cc[k][1] .. cc[k][2]

-----------------------------------------------------------------------------
\* The instructions to which instruction i of a program leads.
Alts == {"Alt", "AltMatch"}
Outs(i) == IF i.op \in Alts THEN {i.out, i.out1} ELSE {i.out}

\* Does instruction i match byte c?
Matches(i, c) == i.op = "ByteRange" /\ InRange(c, i.lo, i.hi, i.foldcase)

\* Mistake: case folding is forgotten.
NoFoldedBytes(i) == {}

\* The bytes of 'A' .. 'Z' that a ByteRange matches because it folds case.
FoldedBytes(i) ==
    IF i.foldcase
    THEN {c - (LowerA - UpperA) : c \in (i.lo .. i.hi) \intersect (LowerA .. LowerZ)}
    ELSE {}

-----------------------------------------------------------------------------
\* The empty-width assertions, and those that hold at position p of text t.
EmptyOps == {"BeginLine", "EndLine", "BeginText", "EndText",
             "WordBoundary", "NonWordBoundary"}

EmptyFlags(t, p) ==
    LET word(q) == q \in DOMAIN t /\ IsWordChar(t[q])
        boundary == word(p) # word(p + 1)
    IN {f \in EmptyOps :
        CASE f = "BeginText" -> p = 0
          [] f = "BeginLine" -> p = 0 \/ t[p] = Newline
          [] f = "EndText" -> p = Len(t)
          [] f = "EndLine" -> p = Len(t) \/ t[p + 1] = Newline
          [] f = "WordBoundary" -> boundary
          [] f = "NonWordBoundary" -> ~boundary}

\* Mistake: assertions are not turned round.
MirrorNothing(flag) == flag

\* What an assertion becomes for a program that runs backward.
Mirror(flag) ==
    CASE flag = "BeginLine" -> "EndLine"
      [] flag = "EndLine" -> "BeginLine"
      [] flag = "BeginText" -> "EndText"
      [] flag = "EndText" -> "BeginText"
      [] OTHER -> flag

=============================================================================
