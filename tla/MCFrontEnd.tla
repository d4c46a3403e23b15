----------------------------- MODULE MCFrontEnd -----------------------------
EXTENDS PatternSets

\* Runes, by what is special about them.
NL == 10
La == 97
Lb == 98
UpperK == 75
Lk == 107
Kelvin == 8490      \* folds to k
UpperS == 83
LongS == 383        \* folds to s
Pair == {256, 257}  \* fold to one another

OneRune(r) == <<RuneTok(r)>>
One(t) == <<Tok(t)>>
Loop(op) == <<[t |-> "loop", op |-> op, nongreedy |-> FALSE]>>
Lazy(op) == <<[t |-> "loop", op |-> op, nongreedy |-> TRUE]>>
Rep(min, max) == <<[t |-> "{", min |-> min, max |-> max, nongreedy |-> FALSE]>>
Group(g, sign) == <<[t |-> "group", g |-> g, sign |-> sign]>>
Sets(on) == <<FlagTok(on, {}, FALSE)>>
Opens(on, off) == <<FlagTok(on, off, TRUE)>>
Open(negated) == <<OpenTok(negated)>>
FromTo(lo, hi) == <<RangeTok(lo, hi)>>
Or_(chunk) == chunk \o One("|")

LikePerl == {"ClassNL", "OneLine", "PerlX"}

Family(chunks, count, flags, alphabet, text_length) ==
    [chunks |-> chunks, most |-> count, flags |-> flags, alphabet |-> alphabet,
     text_length |-> text_length, encodes |-> FALSE,
     collects |-> "nothing", min_atom_len |-> 3, anchor |-> "UNANCHORED"]
Encoded(f) == [f EXCEPT !.encodes = TRUE]

\* Groups, bars and repetitions, in order or not.
Structure ==
    Family({OneRune(La), OneRune(Lb), One("("), Opens({}, {}), One(")"), One("|"), Loop("Star"),
            Lazy("Quest"), One("$")},
           4, LikePerl, {La, Lb}, 2)

\* Alternatives that begin alike.
Alternatives_(flags) ==
    Family({Or_(OneRune(La)), Or_(OneRune(La) \o OneRune(Lb)), Or_(One(".") \o OneRune(La)),
            Or_(One(".")), Or_(OneRune(Lb) \o Rep(2, 2) \o OneRune(La)),
            Or_(One("^") \o OneRune(La)), Or_(OneRune(La) \o Loop("Star")),
            Or_(OneRune(La) \o Loop("Star") \o One(".")),
            OneRune(La) \o One(".") \o OneRune(La), OneRune(La) \o OneRune(Lb) \o OneRune(Lb)},
           IF flags = {} THEN 3 ELSE 2, LikePerl \union flags, {La, Lb}, 3)

\* Repetitions of one thing in a row and nested, up to the limit and beyond it.
Repeats_ ==
    Family({OneRune(La), OneRune(La) \o OneRune(La) \o OneRune(Lb), Rep(0, 2), Rep(2, 3), Rep(1, -1),
            Rep(7, 7), Loop("Plus"), Lazy("Star"), Opens({}, {}), One(")"), Sets({"NonGreedy"})},
           4, LikePerl, {La, Lb}, 3)
Stacked ==
    Family({OneRune(La), Rep(3, -1), Rep(0, 0), Rep(2, 1), Loop("Star"), Loop("Plus"), Loop("Quest")},
           4, {"ClassNL", "OneLine"}, {La}, 4)

\* Flags, and what they change.
Flags ==
    Family({Sets({"FoldCase"}), Opens({"DotNL"}, {"FoldCase"}), Opens({"m"}, {}), One(")"),
            OneRune(UpperK), OneRune(NL), One("."), One("^"), One("$"),
            Open(FALSE) \o FromTo(UpperK, UpperK) \o FromTo(Kelvin, Kelvin) \o One("]")},
           4, LikePerl, {NL, UpperK, Lk, Kelvin}, 1)

\* Strings of letters with and without case.
Strings ==
    Family({Opens({"FoldCase"}, {}), One(")"), OneRune(La), OneRune(UpperA)}, 5, LikePerl,
           {La, UpperA}, 3)

\* Classes, read with various flags.
ClassItems == {FromTo(UpperK, Lk), FromTo(UpperS, 255), FromTo(256, 256), FromTo(NL, NL),
               Group("s", 1), Group("w", -1), Group("d", -1)}
Classes(flags) ==
    Encoded(Family({Open(FALSE), Open(TRUE), One("]")} \union ClassItems, 4, flags \union {"PerlX"},
                   {NL, La, UpperK, Lk, Kelvin, UpperS, LongS} \union Pair, 1))

\* Single bytes.
Bytes ==
    Encoded(Family({OneRune(UpperK), OneRune(NL), <<OpTok("AnyByte")>>, One("."), Group("w", -1),
                    One("|"), Open(TRUE) \o FromTo(Lk, Lk) \o One("]")},
                   3, {"PerlX", "Latin1", "FoldCase", "NeverNL"}, {NL, La, UpperK, Lk, 255}, 2))

\* Ranges that begin and end where the encoding has its seams.
Seams == {0, 127, 128, 2047, 2048, 4095, 4096, 65535, 65536, 262143, 1114111}
Wide ==
    Encoded(Family({Open(TRUE) \o FromTo(4092, 4094) \o FromTo(4096, 65534) \o One("]")} \union
                   {Open(n) \o FromTo(s[1], s[2]) \o FromTo(s[3], s[4]) \o One("]") :
                        n \in BOOLEAN,
                        s \in {s \in [1 .. 4 -> Seams] : s[1] <= s[2] /\ s[2] < s[3] /\ s[3] <= s[4]}},
                   1, LikePerl, {La}, 1))

ClassFlags == {{"FoldCase", "ClassNL"}, {}, {"FoldCase"}, {"NeverNL", "ClassNL"}}

\* Patterns for a FilteredRE2 and for a set.
InSet(anchor) ==
    [Family({OneRune(La), OneRune(La) \o OneRune(Lb), One("("), Or_(OneRune(Lb)) \o One("^")},
            3, SetFlags(LikePerl), {La, Lb}, 2)
     EXCEPT !.collects = "set", !.anchor = anchor]
Filtering(chunks, min_atom_len) ==
    [Family(chunks, 3, LikePerl, {La, Lb, UpperA}, 3)
     EXCEPT !.collects = "filtered", !.min_atom_len = min_atom_len]
Crossing == {OneRune(La) \o One(".") \o Loop("Star") \o OneRune(Lb),
             OneRune(Lb) \o One(".") \o Loop("Star") \o OneRune(La), One(")")}
Short == {Or_(OneRune(La)) \o OneRune(Lb) \o OneRune(Lb), OneRune(Lb) \o Loop("Quest"),
          Sets({"FoldCase"}) \o OneRune(La) \o OneRune(Lb)}
SetFamilies == {InSet(anchor) : anchor \in Anchors}
               \union {Filtering(Crossing, 1), Filtering(Short, 2)}

\* A letter and the same letter without case.
FoldedAlternatives ==
    {Family({Opens({"FoldCase"}, {}), One(")"), One("|"), OneRune(La)}, 5, LikePerl, {La, UpperA}, 1)}

AllFamilies == {Structure, Alternatives_({}), Alternatives_({"DotNL"}), Repeats_, Stacked, Flags,
                Strings, Bytes, Wide}
                \union {Classes(f) : f \in ClassFlags} \union SetFamilies

=============================================================================
