-------------------------- MODULE MCCompilePipeline --------------------------
EXTENDS CompilePipeline

A == LiteralRe(LowerA, FALSE)

\* Loops in loops, over what may be empty and what may be any byte.
LoopLeaves == {NoMatchRe, EmptyMatchRe, A, AnyByteRe}
LoopOperators == Loops \union {"Concat", "Alternate"}

AnchorLeaves == {A} \union
    {EmptyWidthRe(f) : f \in {"BeginText", "EndText", "EndLine", "WordBoundary"}}
AnchorOperators == {"Star", "Concat", "Alternate", "Capture"}

\* Ranges that touch, split and fold the letters.
ClassLeaves ==
    {LiteralRe(LowerA, TRUE),
     CharClassRe(<<<<UpperA, UpperA>>, <<UpperZ + 1, LowerA>>>>),
     CharClassRe(<<<<UpperZ, LowerA - 1>>, <<LowerZ, MaxByte>>>>),
     CharClassRe(<<<<Newline, UpperZ>>, <<LowerA, LowerZ>>>>),
     CharClassRe(<<<<UpperA, UpperA>>, <<LowerZ, LowerZ>>>>),
     EmptyWidthRe("WordBoundary"), EmptyWidthRe("BeginLine")}
ClassOperators == {"Star", "Concat", "Alternate"}

SetLeaves == {A, AnyByteRe}
SetOperators == {"Concat", "Alternate"}

Forward == {"forward"}
BothWays == {"forward", "reverse"}
Anchors == {"UNANCHORED", "ANCHOR_START", "ANCHOR_BOTH"}

Family(leaves, operators, nodes, kinds, max_inst, alphabet, text_length) ==
    [leaves |-> leaves, operators |-> operators, nodes |-> nodes,
     kinds |-> kinds, max_inst |-> max_inst, walks |-> {}, alphabet |-> alphabet,
     text_length |-> text_length]

\* The end of a line, a letter that folds to A, and A.
FewBytes == {Newline, UpperA, LowerA}
TwoLetters == {UpperA, LowerA}
LineBytes == {Newline, LowerA}

LoopFamily == Family(LoopLeaves, LoopOperators, 4, BothWays, 100, TwoLetters, 2)
\* A limit that stops some in the walk, and some at its end.
TightFamily == Family({A}, LoopOperators, 4, BothWays, 6, FewBytes, 2)
AnchorFamily == Family(AnchorLeaves, AnchorOperators, 4, BothWays, 100, LineBytes, 2)
ClassFamily == Family(ClassLeaves, ClassOperators, 4, Forward, 100, Byte, 1)
SetFamily == Family(SetLeaves, SetOperators, 7, Anchors, 100, FewBytes, 2)

AllFamilies == {LoopFamily, TightFamily, SetFamily, AnchorFamily, ClassFamily}

=============================================================================
