----------------------------- MODULE ProgSearch -----------------------------
(***************************************************************************)
(* A search of a flattened program (the Search calls of re2/prog.h), and    *)
(* what the engines ask of the program they run.                           *)
(*                                                                         *)
(* The text of a search is the part of its context between from and to.    *)
(***************************************************************************)
EXTENDS Pipeline

CONSTANT Unset      \* no engine, no answer yet

VARIABLES
    search,     \* the arguments of the search
    answer      \* what it returns

searchVars == <<search, answer>>

NULL == -1      \* a pointer into the text that is not set

\* Besides what to compile, a family says which searches are made: any span of the
\* context or only all of it, and how many submatches are asked for.
ASSUME SearchAssumption ==
    \A f \in Families : f.inner \in BOOLEAN /\ f.nmatches \subseteq Nat

-----------------------------------------------------------------------------
(* What engines ask of a program. *)

ProgSize == Cardinality(DOMAIN prog.inst)
InstCount(ops) == Cardinality({id \in DOMAIN prog.inst : prog.inst[id].op \in ops})

\* Inst::greedy: is the first choice of an AltMatch its loop?
Greedy(i) ==
    LET j == prog.inst[i.out] IN
    j.op = "ByteRange" \/ (j.op = "Nop" /\ prog.inst[j.out].op = "ByteRange")

\* The instruction of a list to try after id, if there is one.
IdsAfter(id) == IF prog.inst[id].last THEN <<>> ELSE <<id + 1>>

\* Byte number p of the text s, and -1 at its end.
ByteAt(s, p) == IF p < s.to THEN s.context[p + 1] ELSE -1

CanPrefixAccel == prog.prefix # <<>>

\* The first position from p on that has the prefix, or the end of the text.
SkipToPrefix(s, p) ==
    LET b == prog.prefix[1]
        found == {q \in p .. s.to - 1 :
                    InRange(s.context[q + 1], b.rune, b.rune, b.foldcase)}
    IN IF found = {} THEN s.to ELSE CHOOSE q \in found : \A r \in found : q <= r

-----------------------------------------------------------------------------
\* A flattened program: every instruction, and every element of a list but the last,
\* leads to an instruction of the program, an AltMatch also to the one that follows it,
\* and a hint points into the program.  The .*? loop in front of an unanchored search
\* goes on with the byte it skips.
IsFlat(P) ==
    LET ids == DOMAIN P.inst IN
    /\ ids # {} /\ IsFiniteSet(ids) /\ ids = 0 .. Cardinality(ids) - 1
    /\ {P.start, P.start_unanchored} \subseteq ids
    /\ P.inst[0].op = "Fail"
    /\ \A id \in ids :
        LET i == P.inst[id] IN
        /\ i.op \in {"Fail", "AltMatch", "Nop", "Capture", "ByteRange", "Match", "EmptyWidth"}
        /\ i.out \in ids
        /\ ~i.last \/ i.op = "AltMatch" => id + 1 \in ids
        /\ i.hint \in Nat /\ id + i.hint \in ids
        /\ i.op = "Nop" /\ id = P.start_unanchored /\ id # P.start => ~i.last

FlatProg == stage = "flat" => IsFlat(prog)

-----------------------------------------------------------------------------
(* Searches and their answers. *)

Spans(t) ==
    IF family.inner THEN {span \in (0 .. Len(t)) \X (0 .. Len(t)) : span[1] <= span[2]}
                    ELSE {<<0, Len(t)>>}

\* Every search of a text for one match.
Searches(engine, matchkinds, nmatches) ==
    UNION {{[engine |-> engine, context |-> t, from |-> span[1], to |-> span[2],
             anchored |-> a, kind |-> k, nmatch |-> n] :
               span \in Spans(t), a \in BOOLEAN, k \in matchkinds, n \in nmatches} :
           t \in Texts}

NotFound == [matched |-> FALSE, match |-> <<>>]

ASSUME UnsetAssumption == Unset # NotFound

\* The submatches 0 .. n-1 that the capture registers cap hold.
Submatches(cap, n) == [i \in 1 .. n |-> <<cap[2 * i - 2], cap[2 * i - 1]>>]
Found(cap, n) == [matched |-> TRUE, match |-> Submatches(cap, n)]

\* A program that runs backward reads the mirror image of its search.
View(s) ==
    IF kind # "reverse" THEN s
    ELSE [s EXCEPT !.context = Reverse(@), !.from = Len(s.context) - s.to,
                   !.to = Len(s.context) - s.from]

\* Can there be a match, seen how the program is anchored?
Possible(s) ==
    /\ prog.anchor_start => s.from = 0
    /\ prog.anchor_end => s.to = Len(s.context)

ToTheEnd(s) == prog.anchor_end \/ s.kind = "full"

-----------------------------------------------------------------------------
NoSearch == [engine |-> "None"]

SearchInit == search = NoSearch /\ answer = Unset

\* A search of a finished program begins.  Engines share nothing but the program,
\* and one search is made of each.
Idle == stage = "flat" /\ search = NoSearch

Begins(s) == search' = s

Answers(a) == answer' = a /\ UNCHANGED search

Searching(engine) == search.engine = engine /\ answer = Unset

=============================================================================
