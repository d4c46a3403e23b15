----------------------------- MODULE MCEngines -----------------------------
EXTENDS Rewriting

A == LiteralRe(LowerA, FALSE)
FoldedA == LiteralRe(LowerA, TRUE)

Searched(leaves, operators, nodes, kinds, alphabet, text_length, inner, nmatches) ==
    [leaves |-> leaves, operators |-> operators, nodes |-> nodes, kinds |-> kinds,
     max_inst |-> 100, walks |-> {}, alphabet |-> alphabet, text_length |-> text_length,
     inner |-> inner, nmatches |-> nmatches, grids |-> {}, rewrites |-> {}]

\* Loops and choices, before any text.
LoopFamily ==
    Searched({A, AnyByteRe}, {"Star", "Concat", "Alternate"}, 4, {"forward"},
             {LowerA}, 2, FALSE, {0})

\* Assertions, seen from inside a text.
AssertFamily ==
    Searched({A, EmptyWidthRe("WordBoundary"), EmptyWidthRe("BeginLine"), EmptyWidthRe("EndLine")},
             {"Concat"}, 3, {"forward", "reverse"},
             {Newline, LowerA}, 2, TRUE, {1})

\* Submatches.
CaptureFamily ==
    Searched({A, EmptyMatchRe}, {"Capture", "Star", "Alternate", "Concat"}, 4, {"forward"},
             {LowerA}, 2, FALSE, {2})

\* A literal in front, in both cases.
PrefixFamily ==
    Searched({FoldedA, AnyByteRe}, {"Capture", "Plus", "Concat"}, 3, {"forward"},
             {Newline, UpperA}, 2, FALSE, {1})

\* Sets.
SetFamily ==
    Searched({A, AnyByteRe}, {"Concat", "Alternate"}, 5, {"UNANCHORED", "ANCHOR_START", "ANCHOR_BOTH"},
             {UpperA, LowerA}, 2, FALSE, {0, 1})

\* The nodes of a regexp, in the order of the walk.
RECURSIVE Walk(_)
Walk(re) ==
    IF "sub" \in DOMAIN re
    THEN Append(FlattenSeq([k \in DOMAIN re.sub |-> Walk(re.sub[k])]), re)
    ELSE <<re>>

\* Single regexps.
Examples(regexps, alphabet, text_length, nmatches) ==
    LET walks == {Walk(re) : re \in regexps}
        nodes == UNION {ToSet(walk) : walk \in walks}
    IN [Searched({re \in nodes : "sub" \notin DOMAIN re},
                 {re.op : re \in {re \in nodes : "sub" \in DOMAIN re}},
                 Max({Len(walk) : walk \in walks}), {"forward"},
                 alphabet, text_length, FALSE, nmatches) EXCEPT !.walks = walks]

B == LiteralRe(MaxByte, FALSE)
DotStarRe(nongreedy) == LoopRe("Star", AnyByteRe, nongreedy)
Either(r, s) == AlternateRe(<<r, s>>)

\* Chunks of one, two and four bytes, and two blocks: aa|.*, ab.*?|a, aba|b.*, aaa|\B.*, a\b|b and a.*|ba.
ExampleFamily ==
    [Examples({Either(ConcatRe(<<A, A>>), DotStarRe(FALSE)),
              Either(ConcatRe(<<A, B, DotStarRe(TRUE)>>), A),
              Either(ConcatRe(<<A, B, A>>), ConcatRe(<<B, DotStarRe(FALSE)>>)),
              Either(ConcatRe(<<A, A, A>>),
                     ConcatRe(<<EmptyWidthRe("NonWordBoundary"), DotStarRe(FALSE)>>)),
              Either(ConcatRe(<<A, EmptyWidthRe("WordBoundary")>>), B),
              Either(ConcatRe(<<A, DotStarRe(FALSE)>>), ConcatRe(<<B, A, AnyByteRe>>))},
             {LowerA, MaxByte}, 4, {1})
        EXCEPT !.grids = {<<1, 2>>, <<2, 2>>}]

GroupRef(n) == [op |-> "Group", n |-> n]
Rewrites == {Bracketed, <<GroupRef(1), [op |-> "Byte", byte |-> Newline]>>,
             <<GroupRef(0), [op |-> "Other"]>>, <<GroupRef(2)>>}

\* Matches are replaced of (a*)|b, a*?, (a|ab)(b*), \b, ^a and (a)|b.
ReplaceFamily ==
    [Examples({Either(CaptureRe(LoopRe("Star", A, FALSE), 1), B),
               LoopRe("Star", A, TRUE),
               ConcatRe(<<CaptureRe(Either(A, ConcatRe(<<A, B>>)), 1),
                          CaptureRe(LoopRe("Star", B, FALSE), 2)>>),
               EmptyWidthRe("WordBoundary"),
               ConcatRe(<<EmptyWidthRe("BeginText"), A>>),
               Either(CaptureRe(A, 1), B)},
              {LowerA, MaxByte}, 3, {0})
        EXCEPT !.rewrites = Rewrites]

SearchedFamilies ==
    {LoopFamily, AssertFamily, CaptureFamily, PrefixFamily, SetFamily, ExampleFamily,
     ReplaceFamily}

ExampleFamilies == {ExampleFamily}
ReplaceFamilies == {ReplaceFamily}

\* a.*
DotFamily == Examples({ConcatRe(<<A, DotStarRe(FALSE)>>)}, {LowerA}, 1, {1})
DotFamilies == {DotFamily}

=============================================================================
