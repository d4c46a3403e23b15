----------------------------- MODULE Collections -----------------------------
(***************************************************************************)
(* Many regexps that are asked together which of them match.               *)
(*                                                                         *)
(* A pattern is kept as what it was parsed to, and a program as the regexp *)
(* it was compiled from: that the compiler and the DFA do what it says is  *)
(* checked in modules CompilePipeline and DFASearch.                       *)
(***************************************************************************)
EXTENDS Prefilters, RuneRanges, Matching

CONSTANT MaxParents   \* an entry that triggers more is too common; 8

ASSUME ParentsAssumption == MaxParents \in Nat

-----------------------------------------------------------------------------
(* The filters of many regexps in one graph (re2/prefilter_tree.cc): equal
   filters are one entry, whatever regexps and larger filters they are part of,
   and the strings that were found in a text are passed upward from entry to
   entry.  Two nodes have the same NodeString if and only if they are equal, so a
   node stands for its canonical node.  Entries, atoms and regexps are numbered
   from 1. *)

NewTree(min_atom_len) ==
    [compiled |-> FALSE, min_atom_len |-> min_atom_len, prefilter_vec |-> <<>>,
     entries |-> <<>>, atoms |-> <<>>, unfiltered |-> {}]

-----------------------------------------------------------------------------
\* Mistake: what is too short is dropped from an OR as it is from an AND.
RECURSIVE KeepNodeOfAny(_, _)
KeepNodeOfAny(f, min_atom_len) ==
    LET size == FoldLeft(LAMBDA n, r : n + Len(runetochar(r)), 0, f.atom)
        kept == FlattenSeq([k \in DOMAIN f.subs |-> KeepNodeOfAny(f.subs[k], min_atom_len)])
    IN CASE f.op \in {"ALL", "NONE"} -> <<>>
         [] f.op = "ATOM" -> IF size >= min_atom_len THEN <<f>> ELSE <<>>
         [] OTHER -> IF kept # <<>> THEN <<Of(f.op, kept)>> ELSE <<>>

\* What is kept of a filter whose short atoms are dropped, or nothing: an AND needs
\* one of its children, an OR all of them.
RECURSIVE KeepNode(_, _)
KeepNode(f, min_atom_len) ==
    LET size == FoldLeft(LAMBDA n, r : n + Len(runetochar(r)), 0, f.atom)
        kept == FlattenSeq([k \in DOMAIN f.subs |-> KeepNode(f.subs[k], min_atom_len)])
    IN CASE f.op \in {"ALL", "NONE"} -> <<>>
         [] f.op = "ATOM" -> IF size >= min_atom_len THEN <<f>> ELSE <<>>
         [] f.op = "AND" -> IF kept # <<>> THEN <<Of("AND", kept)>> ELSE <<>>
         [] f.op = "OR" -> IF Len(kept) = Len(f.subs) THEN <<Of("OR", kept)>> ELSE <<>>

\* The filter of the next regexp, if it has one.
AddFilter(tree, filter) ==
    IF tree.compiled THEN tree
    ELSE [tree EXCEPT !.prefilter_vec = Append(@,
            IF filter = <<>> THEN <<>> ELSE KeepNode(filter[1], tree.min_atom_len))]

-----------------------------------------------------------------------------
Subs(f) == IF f.op \in {"AND", "OR"} THEN f.subs ELSE <<>>

\* All nodes, level by level.
RECURSIVE TopDown(_)
TopDown(level) ==
    IF level = <<>> THEN <<>>
    ELSE level \o TopDown(FlattenSeq([k \in DOMAIN level |-> Subs(level[k])]))

\* The canonical nodes in the order of their ids: from the bottom up.
Canonical(prefilter_vec) ==
    FoldLeft(LAMBDA nodes, f : IF f \in ToSet(nodes) THEN nodes ELSE Append(nodes, f), <<>>,
             Reverse(TopDown(FlattenSeq(prefilter_vec))))

\* An AND triggers its parents when all its different children have triggered it.
EntryOf(nodes, prefilter_vec, f) ==
    [parents |-> {k \in DOMAIN nodes : f \in ToSet(Subs(nodes[k]))},
     propagate_up_at_count |-> IF f.op = "AND" THEN Cardinality(ToSet(f.subs)) ELSE 1,
     regexps |-> {i \in DOMAIN prefilter_vec : prefilter_vec[i] = <<f>>}]

AssignUniqueIds(tree, nodes) ==
    [tree EXCEPT
        !.entries = [k \in DOMAIN nodes |-> EntryOf(nodes, tree.prefilter_vec, nodes[k])],
        !.atoms = SelectSeq([k \in DOMAIN nodes |-> [id |-> k, node |-> nodes[k]]],
                            LAMBDA a : a.node.op = "ATOM"),
        !.unfiltered = {i \in DOMAIN tree.prefilter_vec : tree.prefilter_vec[i] = <<>>}]

\* Mistake: an entry that is too common is dropped even where nothing else guards.
PruneUnguarded(entries, k) ==
    LET parents == entries[k].parents IN
    IF Cardinality(parents) > MaxParents
    THEN [j \in DOMAIN entries |->
            CASE j = k -> [entries[j] EXCEPT !.parents = {}]
              [] j # k /\ j \in parents -> [entries[j] EXCEPT !.propagate_up_at_count = @ - 1]
              [] OTHER -> entries[j]]
    ELSE entries

\* An entry that triggers too many parents no longer does, if each of them waits for
\* something else as well.
Prune(entries, k) ==
    LET parents == entries[k].parents IN
    IF /\ Cardinality(parents) > MaxParents
       /\ \A j \in parents : entries[j].propagate_up_at_count > 1
    THEN [j \in DOMAIN entries |->
            CASE j = k -> [entries[j] EXCEPT !.parents = {}]
              [] j # k /\ j \in parents -> [entries[j] EXCEPT !.propagate_up_at_count = @ - 1]
              [] OTHER -> entries[j]]
    ELSE entries

CompileTree(tree) ==
    LET new == [AssignUniqueIds(tree, Canonical(tree.prefilter_vec)) EXCEPT !.compiled = TRUE]
    IN IF tree.compiled \/ tree.prefilter_vec = <<>> THEN tree
       ELSE [new EXCEPT !.entries = FoldLeft(Prune, @, [k \in DOMAIN @ |-> k])]

-----------------------------------------------------------------------------
\* The entries that are triggered; those from work[k] on have yet to trigger their
\* parents, of which each has been triggered so often.
RECURSIVE PropagateMatch(_, _, _, _)
PropagateMatch(entries, work, k, count) ==
    LET parents == entries[work[k]].parents
        more == [j \in DOMAIN entries |-> count[j] + (IF j \in parents THEN 1 ELSE 0)]
        ready == {j \in parents : more[j] >= entries[j].propagate_up_at_count}
    IN IF k > Len(work) THEN ToSet(work)
       ELSE PropagateMatch(entries, work \o SetToSeq(ready \ ToSet(work)), k + 1, more)

\* The regexps that may match a text in which these atoms are.
RegexpsGivenStrings(tree, matched_atoms) ==
    LET work == SetToSeq({tree.atoms[k].id : k \in matched_atoms})
        triggered == PropagateMatch(tree.entries, work, 1, [j \in DOMAIN tree.entries |-> 0])
    IN IF tree.compiled
       THEN UNION {tree.entries[j].regexps : j \in triggered} \union tree.unfiltered
       ELSE DOMAIN tree.prefilter_vec

-----------------------------------------------------------------------------
(* FilteredRE2 (re2/filtered_re2.cc): the regexps are tried whose filters a
   text passes.  They are numbered from 1, and 0 is "none". *)

NewFiltered(min_atom_len) ==
    [re2_vec |-> <<>>, compiled |-> FALSE, prefilter_tree |-> NewTree(min_atom_len)]

\* What a move leaves behind.
MovedFrom == NewFiltered(3)

\* A pattern that is not ok is not kept; one that comes after Compile is, but it has
\* no filter.
FilteredAdd(filtered, ok, re) ==
    IF ok THEN [filtered EXCEPT !.re2_vec = Append(@, re)] ELSE filtered

FilteredCompile(filtered) ==
    LET FromRE2(re) == FromSimplified(Simplify(re))
        tree == FoldLeft(LAMBDA t, re : AddFilter(t, FromRE2(re)),
                         filtered.prefilter_tree, filtered.re2_vec)
    IN IF filtered.compiled \/ filtered.re2_vec = <<>> THEN filtered
       ELSE [filtered EXCEPT !.prefilter_tree = CompileTree(tree), !.compiled = TRUE]

PartialMatch(text, re) == \E p \in 0 .. Len(text) : Ends(Meaning(re), text, Begin(p)) # <<>>

Among(filtered, regexps, text) == {i \in regexps : PartialMatch(text, filtered.re2_vec[i])}
First(ids) == IF ids = {} THEN 0 ELSE Min(ids)

SlowFirstMatch(filtered, text) == First(Among(filtered, DOMAIN filtered.re2_vec, text))

AllPotentials(filtered, atoms) == RegexpsGivenStrings(filtered.prefilter_tree, atoms)

AllMatches(filtered, text, atoms) == Among(filtered, AllPotentials(filtered, atoms), text)

FirstMatch(filtered, text, atoms) ==
    IF filtered.compiled THEN First(AllMatches(filtered, text, atoms)) ELSE 0

-----------------------------------------------------------------------------
(* RE2::Set (re2/set.cc): one program says which of them match.  Ids are
   numbered from 0. *)

Anchors == {"UNANCHORED", "ANCHOR_START", "ANCHOR_BOTH"}

\* prog is NULL, or one.
NewSet(anchor) ==
    [anchor |-> anchor, elem |-> <<>>, compiled |-> FALSE, size |-> 0, prog |-> <<>>]

\* What a move leaves behind.
MovedFromSet(set) == NewSet(set.anchor)

\* The flags that a set parses its patterns with; flags below are such flags.
SetFlags(flags) == flags \union {"NeverCapture"}

HaveMatchNode(n, flags) == [match_id |-> n] @@ Node("HaveMatch", flags)

\* The id that Add returns, -1 if there is none.
IdOfNext(set, ok) == IF ~set.compiled /\ ok THEN Len(set.elem) ELSE -1

\* The pattern, with its id behind it.
SetAdd(set, ok, re, flags) ==
    LET m == HaveMatchNode(IdOfNext(set, ok), flags)
        subs == IF re.op = "Concat" THEN Append(re.sub, m) ELSE <<re, m>>
    IN IF IdOfNext(set, ok) = -1 THEN set
       ELSE [set EXCEPT !.elem = Append(@, ConcatNode(subs, flags))]

\* Mistake: the alternatives take their ids from where sorting has put them.
SetCompileRenumbered(set, order, flags, fits) ==
    LET Numbered(re, n) ==
            [re EXCEPT !.sub[Len(re.sub)] = HaveMatchNode(n - 1, flags)]
        sub == [k \in DOMAIN set.elem |-> Numbered(set.elem[order[k]], k)]
        re == Simplify(ConcatOrAlternate("Alternate", sub, flags))
    IN IF set.compiled THEN set
       ELSE [set EXCEPT !.compiled = TRUE, !.size = Len(set.elem), !.elem = <<>>,
                        !.prog = IF fits THEN <<re>> ELSE <<>>]

\* Alternatives in the order of their patterns, or any: a pattern's spelling is not
\* modelled.  The program, or the states of its DFA, may not fit into memory.
SetCompile(set, order, flags, fits) ==
    LET sub == [k \in DOMAIN set.elem |-> set.elem[order[k]]]
        re == Simplify(ConcatOrAlternate("Alternate", sub, flags))
    IN IF set.compiled THEN set
       ELSE [set EXCEPT !.compiled = TRUE, !.size = Len(set.elem), !.elem = <<>>,
                        !.prog = IF fits THEN <<re>> ELSE <<>>]

\* CompileSet and SearchDFA: the ids of all matches.
IdsOf(prog, anchor, text) ==
    {e.match_id : e \in UNION {
        {e \in ToSet(Ends(Meaning(prog), text, Begin(p))) :
            anchor = "ANCHOR_BOTH" => e.p = Len(text)} :
        p \in IF anchor = "UNANCHORED" THEN 0 .. Len(text) ELSE {0}}}

\* Match, which is not called if Compile has failed: prog is NULL then.
SetMatch(set, text, dfa_failed) ==
    LET ids == IdsOf(set.prog[1], set.anchor, text)
        Result(ret, v, kind) == [ret |-> ret, v |-> v, kind |-> kind]
    IN CASE ~set.compiled -> Result(FALSE, {}, "kNotCompiled")
         [] set.compiled /\ dfa_failed -> Result(FALSE, {}, "kOutOfMemory")
         [] OTHER -> Result(ids # {}, ids, "kNoError")

=============================================================================
