---------------------------- MODULE MCDFACache ----------------------------
(***************************************************************************)
(* Small automata for DFACache.  Each is the DFA that re2 builds for the   *)
(* regexp named beside it, over the byte classes x and y and the end of    *)
(* the text; states are named after the place reached in the regexp.       *)
(***************************************************************************)
EXTENDS DFACache

MCClasses == {"x", "y"}
MCStartKinds == {"unanchored", "anchored"}

\* A row of the automaton: where x, y and the end of the text lead.
Arrows(onX, onY, onEnd) ==
    [a \in {"x", "y", EndText} |-> CASE a = "x" -> onX
                                     [] a = "y" -> onY
                                     [] a = EndText -> onEnd]

Asked(kinds, texts, lasts, earliests) ==
    [kind : kinds, text : texts, last : lasts, earliest : earliests]

NoIds == [c \in Content |-> {}]
UnitSize == [c \in Content |-> 1]

-----------------------------------------------------------------------------
\* x(yy(?s).*|y)?, first match.  A: nothing seen (only x leaves it), N: the same
\* state of the anchored entry point, C: x seen, K: xy seen and x reported, after
\* which another y is a full match, M: reported and nothing more to come.
ChoiceContent == {"A", "C", "K", "M", "N"}
ChoiceStartOf == [k \in MCStartKinds |-> IF k = "anchored" THEN "N" ELSE "A"]
ChoiceDelta ==
    [c \in ChoiceContent |->
        CASE c = "A" -> Arrows("C", "A", Dead)
          [] c = "N" -> Arrows("C", Dead, Dead)
          [] c = "C" -> Arrows("M", "K", "M")
          [] c = "K" -> Arrows("M", FullMatch, "M")
          [] c = "M" -> Arrows(Dead, Dead, Dead)]
ChoiceMatching == {"K", "M"}
ChoiceJobs ==
    Asked({"unanchored"}, {<<"x", "y", "x">>, <<"x", "y", "y">>, <<"y", "x", "y">>},
          {EndText}, {FALSE})
        \cup Asked({"anchored"}, {<<"x">>}, {"y"}, {TRUE})

\* The set {x, xy} (ids 1 and 2), many match, unanchored.  A state is a place
\* (0: nothing seen, 1: x seen, 2: xy seen, 3: past the end) with the ids
\* reported on the way into it.
SetContent == ({0, 1} \X {{}}) \cup ({1, 2, 3} \X {{1}})
                  \cup ({0, 1, 3} \X {{2}})
SetStartOf == [k \in {"unanchored"} |-> <<0, {}>>]
SetDelta ==
    [c \in SetContent |->
        CASE c[1] = 0 -> Arrows(<<1, {}>>, <<0, {}>>, Dead)
          [] c[1] = 1 -> Arrows(<<1, {1}>>, <<2, {1}>>, <<3, {1}>>)
          [] c[1] = 2 -> Arrows(<<1, {2}>>, <<0, {2}>>, <<3, {2}>>)
          [] c[1] = 3 -> Arrows(Dead, Dead, Dead)]
SetMatching == {c \in SetContent : c[2] # {}}
SetIds == [c \in SetContent |-> c[2]]
SetSize == [c \in SetContent |-> IF c[2] = {} THEN 1 ELSE 2]
SetJobs ==
    Asked({"unanchored"}, {<<"x", "y", "x", "x", "y">>}, {EndText}, {FALSE})
        \cup Asked({"unanchored"}, {<<"x">>}, {EndText, "y"}, {TRUE})

\* xyxy, longest match, anchored: a chain A, B, C, K, M, then N: reported.
ChainContent == {"A", "B", "C", "K", "M", "N"}
ChainStartOf == [k \in {"anchored"} |-> "A"]
ChainDelta ==
    [c \in ChainContent |->
        CASE c = "A" -> Arrows("B", Dead, Dead)
          [] c = "B" -> Arrows(Dead, "C", Dead)
          [] c = "C" -> Arrows("K", Dead, Dead)
          [] c = "K" -> Arrows(Dead, "M", Dead)
          [] c = "M" -> Arrows("N", "N", "N")
          [] c = "N" -> Arrows(Dead, Dead, Dead)]
ChainMatching == {"N"}
ChainJobs ==
    Asked({"anchored"}, {<<"x", "y", "x", "y">>, <<"x", "y", "x">>},
          {EndText}, {FALSE})
=============================================================================
