------------------------------ MODULE Matching ------------------------------
(***************************************************************************)
(* What regexps and programs match, from one position of a text: the ends  *)
(* of the matches, in the order in which a backtracking search prefers     *)
(* them.                                                                   *)
(*                                                                         *)
(* Ends is the definition over the syntax; Run is the repository's own     *)
(* reference, the backtracker of re2/testing/backtrack.cc, over a program  *)
(* before or after Flatten.                                                *)
(***************************************************************************)
EXTENDS Regexps, FiniteSets, SequencesExt

\* Of two matches with the same end and id the preferred one counts.
Merge(s, t) ==
    s \o SelectSeq(t, LAMBDA x :
            \A k \in DOMAIN s : <<s[k].p, s[k].match_id>> # <<x.p, x.match_id>>)

\* The matches of re that begin at m.p with the registers m.cap; each is where it
\* ends, its id and the registers.  A turn of a loop that consumes nothing is the
\* loop's last.
RECURSIVE Ends(_, _, _)
Ends(re, t, m) ==
    LET AtByte(Is(_)) ==
            IF m.p < Len(t) /\ Is(t[m.p + 1]) THEN <<[m EXCEPT !.p = @ + 1]>> ELSE <<>>
        Each(f(_), ends) == FoldLeft(LAMBDA acc, e : Merge(acc, f(e)), <<>>, ends)
        Again(e) == IF e.p = m.p THEN <<e>>
                    ELSE Ends(LoopRe("Star", re.sub[1], re.nongreedy), t, e)
        Turns == Each(Again, Ends(re.sub[1], t, m))
        OrNot(some) == IF re.nongreedy THEN Merge(<<m>>, some) ELSE Merge(some, <<m>>)
        At(r) == [m EXCEPT !.cap = (r :> m.p) @@ @]
        Close(e) == <<[e EXCEPT !.cap = (2 * re.cap + 1 :> e.p) @@ @]>>
    IN CASE re.op = "NoMatch" -> <<>>
         [] re.op = "EmptyMatch" -> <<m>>
         [] re.op = "HaveMatch" -> <<[m EXCEPT !.match_id = re.match_id]>>
         [] re.op = "Literal" ->
                AtByte(LAMBDA c : InRange(c, re.rune, re.rune, re.foldcase))
         [] re.op = "AnyByte" -> AtByte(LAMBDA c : TRUE)
         [] re.op = "CharClass" -> AtByte(LAMBDA c : InClassOf(c, re.cc))
         [] re.op = "EmptyWidth" -> IF re.flag \in EmptyFlags(t, m.p) THEN <<m>> ELSE <<>>
         [] re.op = "Capture" -> Each(Close, Ends(re.sub[1], t, At(2 * re.cap)))
         [] re.op = "Concat" ->
                FoldLeft(LAMBDA ends, r : Each(LAMBDA e : Ends(r, t, e), ends), <<m>>, re.sub)
         [] re.op = "Alternate" ->
                FoldLeft(LAMBDA acc, r : Merge(acc, Ends(r, t, m)), <<>>, re.sub)
         [] re.op = "Quest" -> OrNot(Ends(re.sub[1], t, m))
         [] re.op = "Plus" -> Turns
         [] re.op = "Star" -> OrNot(Turns)

\* A search that has only begun, at position p.
Begin(p) == [p |-> p, match_id |-> 0, cap |-> <<>>]

-----------------------------------------------------------------------------
(* re2/mimics_pcre.cc: a loop over something that may be empty does not     *)
(* prefer its matches as other backtrackers do.  Its other exceptions are   *)
(* about what PCRE does, and no program needs them here.                    *)

RECURSIVE CanBeEmptyString(_)
CanBeEmptyString(re) ==
    CASE re.op \in {"NoMatch", "Literal", "AnyByte", "CharClass"} -> FALSE
      [] re.op = "Concat" -> \A k \in DOMAIN re.sub : CanBeEmptyString(re.sub[k])
      [] re.op = "Alternate" -> \E k \in DOMAIN re.sub : CanBeEmptyString(re.sub[k])
      [] re.op \in {"Plus", "Capture"} -> CanBeEmptyString(re.sub[1])
      [] OTHER -> TRUE

RECURSIVE MimicsPCRE(_)
MimicsPCRE(re) ==
    /\ re.op \in Loops => ~CanBeEmptyString(re.sub[1])
    /\ "sub" \in DOMAIN re => \A k \in DOMAIN re.sub : MimicsPCRE(re.sub[k])

-----------------------------------------------------------------------------
\* Backtracker::Visit and Try over the program P, the calls still to be made on
\* a stack: from instruction id at position p with the registers cap.  No pair of
\* an instruction and a position is visited twice.  In a flattened program the
\* instruction that follows in the list is the next one tried.
RECURSIVE Visits(_, _, _, _, _)
Visits(P, t, stack, visited, found) ==
    IF stack = <<>> THEN found
    ELSE IF <<stack[1].id, stack[1].p>> \in visited
    THEN Visits(P, t, Tail(stack), visited, found)
    ELSE LET id == stack[1].id
             p == stack[1].p
             cap == stack[1].cap
             i == P.inst[id]
             At(out) == <<[stack[1] EXCEPT !.id = out]>>
             calls ==
                CASE i.op = "ByteRange" ->
                        IF p < Len(t) /\ Matches(i, t[p + 1])
                        THEN <<[id |-> i.out, p |-> p + 1, cap |-> cap]>> ELSE <<>>
                  [] i.op = "Alt" \/ (i.op = "AltMatch" /\ ~P.flat) ->
                        At(i.out) \o At(i.out1)
                  [] i.op = "Nop" -> At(i.out)
                  [] i.op = "EmptyWidth" ->
                        IF i.arg \in EmptyFlags(t, p) THEN At(i.out) ELSE <<>>
                  [] i.op = "Capture" ->
                        <<[id |-> i.out, p |-> p, cap |-> (i.arg :> p) @@ cap]>>
                  [] OTHER -> <<>>
             next == IF P.flat /\ ~i.last THEN At(id + 1) ELSE <<>>
         IN Visits(P, t, calls \o next \o Tail(stack), visited \union {<<id, p>>},
                   IF i.op = "Match"
                   THEN Merge(found, <<[p |-> p, match_id |-> i.arg, cap |-> cap]>>)
                   ELSE found)

\* The matches of P from instruction id at position p.
Run(P, id, t, p) == Visits(P, t, <<[id |-> id, p |-> p, cap |-> <<>>]>>, {}, <<>>)

=============================================================================
