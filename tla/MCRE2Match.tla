---------------------------- MODULE MCRE2Match ----------------------------
(***************************************************************************)
(* Regexps for RE2Match over a text of two bytes.                          *)
(***************************************************************************)
EXTENDS RE2Match

MCN == 2

\* Every list of at most one end a match that begins at i can have, and those of
\* two different ends.
OneEnd(i) == {<<>>} \cup {<<j>> : j \in i .. MCN}
TwoEnds(i) == {pair \in (i .. MCN) \X (i .. MCN) : pair[1] # pair[2]}

EndsOf(e0, e1, e2) == [i \in 0 .. MCN |-> CASE i = 0 -> e0
                                            [] i = 1 -> e1
                                            [] i = 2 -> e2]

AllEnds ==
    {EndsOf(e0, e1, e2) : e0 \in OneEnd(0), e1 \in OneEnd(1), e2 \in OneEnd(2)}
        \cup {EndsOf(e0, e1, <<2>>) : e0 \in TwoEnds(0), e1 \in {<<>>, <<1>>}}

\* No prefix, or one of one byte that the text has; and the engines there are beside
\* the DFA and the NFA.
NoPrefix == <<0, FALSE>>
OneByte == <<1, TRUE>>
Kinds == {<<NoPrefix, <<FALSE, FALSE>>>>, <<NoPrefix, <<TRUE, FALSE>>>>,
          <<NoPrefix, <<FALSE, TRUE>>>>}

Regexp(ends, prefix, from, to, longest, engines) ==
    [ends |-> ends, prefixlen |-> prefix[1], prefix_found |-> prefix[2],
     anchor_start |-> from, anchor_end |-> to, longest |-> longest,
     one_pass |-> engines[1], bit_state |-> engines[2], groups |-> 2]

\* All of them; what is behind a prefix is not anchored by itself; and one regexp
\* whose prefix the text does not have.
AllRegexps ==
    {Regexp(ends, kind[1], from, to, longest, kind[2]) :
        ends \in AllEnds, kind \in Kinds, from \in BOOLEAN, to \in BOOLEAN, longest \in BOOLEAN}
    \cup {Regexp(ends, OneByte, FALSE, to, longest, <<TRUE, FALSE>>) :
        ends \in AllEnds, to \in BOOLEAN, longest \in BOOLEAN}
    \cup {Regexp(EndsOf(<<>>, <<1, 2>>, <<>>), <<1, FALSE>>, FALSE, FALSE,
                 FALSE, <<TRUE, FALSE>>)}

\* a|ab on "ab": the preferred match is not the longest.
FewRegexps ==
    {Regexp(EndsOf(<<1, 2>>, <<>>, <<>>), <<0, FALSE>>, FALSE, to, FALSE,
            <<FALSE, TRUE>>) : to \in BOOLEAN}

Asks(starts, ends, nsubmatches) ==
    [startpos : starts, endpos : ends,
     re_anchor : {Unanchored, AnchorStart, AnchorBoth},
     nsubmatch : nsubmatches]

AllCalls == Asks(0 .. MCN, 0 .. MCN, {0, 1, 4})
FewCalls == Asks({0}, {1, 2}, {0, 1})

\* Two threads share the few, and ask little of them; one thread asks the others
\* all there is.
UsersOf(r) == IF r \in FewRegexps THEN Threads ELSE {CHOOSE t \in Threads : TRUE}
LogErrorsOf(r) == IF r \in FewRegexps THEN BOOLEAN ELSE {FALSE}
Logs(r) == {TRUE}
AskedOf(r) == IF r \in FewRegexps THEN FewCalls ELSE AllCalls

=============================================================================
