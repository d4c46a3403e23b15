----------------------------- MODULE PatternSets -----------------------------
(***************************************************************************)
(* Patterns that are read one after the other and collected, in a          *)
(* FilteredRE2 or in an RE2::Set, which is compiled at some time and asked *)
(* which of them match a text.                                             *)
(***************************************************************************)
EXTENDS FrontEnd, Collections

\* A family of patterns says in addition what collects them, if anything does: a
\* FilteredRE2 with its min_atom_len, or a set, whose flags are the family's, with its
\* anchor.
VARIABLES
    filtered,   \* the FilteredRE2
    set,        \* the RE2::Set
    promised    \* the patterns that it has accepted, by the ids that Add returned

collections == <<filtered, set, promised>>
setVars == <<vars, collections>>

SetsInit ==
    /\ Init
    /\ filtered = NewFiltered(family.min_atom_len)
    /\ set = NewSet(family.anchor)
    /\ promised = <<>>

ReadsPattern == Next /\ UNCHANGED collections

\* The next pattern will be read as the first one was; each takes a chunk at least.
StartsAgain ==
    /\ tokens # <<>>
    /\ tokens' = <<>> /\ rest' = <<>>
    /\ ps' = ParseState(family.flags)
    /\ stage' = "reading"
    /\ simple' = <<>> /\ filter' = <<>>
    /\ UNCHANGED <<family, most, class, added, enc>>

AddsToFiltered ==
    /\ family.collects = "filtered" /\ stage \in {"filtered", "failed"}
    /\ filtered' = FilteredAdd(filtered, stage # "failed", re)
    /\ StartsAgain
    /\ UNCHANGED <<set, promised>>

AddsToSet ==
    /\ family.collects = "set" /\ stage \in {"filtered", "failed"}
    /\ LET id == IdOfNext(set, stage # "failed")
       IN /\ set' = SetAdd(set, stage # "failed", re, family.flags)
          /\ promised' = IF id = -1 THEN promised ELSE (id :> re) @@ promised
    /\ StartsAgain
    /\ UNCHANGED filtered

Between == stage = "reading" /\ tokens = <<>>

CompilesFiltered ==
    /\ family.collects = "filtered" /\ Between
    /\ filtered' = FilteredCompile(filtered)
    /\ UNCHANGED <<vars, set, promised>>

CompilesSet ==
    /\ family.collects = "set" /\ Between
    /\ \E order \in Permutations(DOMAIN set.elem), fits \in BOOLEAN :
            set' = SetCompile(set, order, family.flags, fits)
    /\ UNCHANGED <<vars, filtered, promised>>

\* The object is moved from, and used again.
Moves ==
    /\ family.collects # "nothing" /\ Between
    /\ filtered' = IF family.collects = "filtered" THEN MovedFrom ELSE filtered
    /\ set' = MovedFromSet(set)
    /\ promised' = <<>>
    /\ UNCHANGED vars

SetsNext ==
    \/ ReadsPattern \/ AddsToFiltered \/ AddsToSet \/ CompilesFiltered \/ CompilesSet \/ Moves

SetsSpec == SetsInit /\ [][SetsNext]_setVars

-----------------------------------------------------------------------------
\* The atoms that are found in a text.
AtomsIn(text) ==
    LET atoms == filtered.prefilter_tree.atoms
    IN {k \in DOMAIN atoms : atoms[k].node.atom \in SubSeqs(LowerText(text))}

Have(text, regexps) == {i \in regexps : PartialMatch(text, filtered.re2_vec[i])}

\* The patterns that were there when FilteredRE2 was compiled are all found where they
\* match, whatever their filters are made of, share and drop; the others are found by
\* the slow search only.
FilterExact ==
    family.collects = "filtered" /\ Between =>
        LET known == DOMAIN filtered.prefilter_tree.prefilter_vec IN
        \A text \in Texts :
            LET found == AllMatches(filtered, text, AtomsIn(text))
                all == Have(text, DOMAIN filtered.re2_vec)
            IN /\ found = all \intersect known
               /\ FirstMatch(filtered, text, AtomsIn(text)) = First(found)
               /\ SlowFirstMatch(filtered, text) = First(all)

\* Where a text has to end, or begin, for a pattern to match it.
AnchoredMatch(text, r) ==
    \E p \in (IF set.anchor = "UNANCHORED" THEN 0 .. Len(text) ELSE {0}) :
        \E e \in EndsOf(Ends(Meaning(r), text, Begin(p))) :
            set.anchor = "ANCHOR_BOTH" => e = Len(text)

\* A set that was compiled reports the ids that Add gave to the patterns that match,
\* in whatever order they were sorted and however they were factored; a pattern that
\* was not accepted has none.
SetExact ==
    family.collects = "set" /\ Between /\ (set.compiled => set.prog # <<>>) =>
        \A text \in Texts :
            LET result == SetMatch(set, text, FALSE) IN
            /\ result.v = {id \in DOMAIN promised :
                                set.compiled /\ AnchoredMatch(text, promised[id])}
            /\ result.ret <=> result.v # {}

=============================================================================
