----------------------------- MODULE Simplifier -----------------------------
(***************************************************************************)
(* Simplify (re2/simplify.cc): counted repetition becomes copies and loops,*)
(* after runs of repetitions of one thing have become one repetition.      *)
(*                                                                         *)
(* Both walks give, for every node, a node and whether it is the old one:  *)
(* a parent is built anew only if a child is.                              *)
(***************************************************************************)
EXTENDS RegexpTrees

Kept(re) == [re |-> re, kept |-> TRUE]
Built(re) == [re |-> re, kept |-> FALSE]

-----------------------------------------------------------------------------
(* CoalesceWalker. *)

CoalescesOver == {"Literal", "CharClass", "AnyChar", "AnyByte"}

\* Mistake: what repeats may be greedy in one and not in the other.
CanCoalesceAnyGreed(r1, r2) ==
    /\ r1.op \in Loops \union {"Repeat"}
    /\ r1.sub[1].op \in CoalescesOver
    /\ \/ r2.op \in Loops \union {"Repeat"} /\ Equal(r1.sub[1], r2.sub[1])
       \/ Equal(r1.sub[1], r2)

\* r1 repeats one rune, and r2 repeats it too, or is it, or begins with it.
CanCoalesce(r1, r2) ==
    /\ r1.op \in Loops \union {"Repeat"}
    /\ r1.sub[1].op \in CoalescesOver
    /\ \/ /\ r2.op \in Loops \union {"Repeat"}
          /\ Equal(r1.sub[1], r2.sub[1])
          /\ SameFlag(r1, r2, "NonGreedy")
       \/ Equal(r1.sub[1], r2)
       \/ /\ r1.sub[1].op = "Literal" /\ r2.op = "LiteralString"
          /\ r2.runes[1] = r1.sub[1].rune
          /\ SameFlag(r1.sub[1], r2, "FoldCase")

\* How many turns a repetition takes; -1 is without end.
Bounds(re) ==
    CASE re.op = "Star" -> <<0, -1>>
      [] re.op = "Plus" -> <<1, -1>>
      [] re.op = "Quest" -> <<0, 1>>
      [] re.op = "Repeat" -> <<re.min, re.max>>
      [] OTHER -> <<1, 1>>

\* The two that the pair becomes: nothing and one repetition, or a repetition and
\* what is left of a string.
DoCoalesce(r1, r2) ==
    LET r == r1.sub[1].rune
        n == IF r2.op = "LiteralString"
             THEN Min({k \in 1 .. Len(r2.runes) + 1 : k > Len(r2.runes) \/ r2.runes[k] # r}) - 1
             ELSE 0
        a == Bounds(r1)
        b == IF n > 0 THEN <<n, n>> ELSE Bounds(r2)
        nre == RepeatNode(r1.sub[1], r1.flags, a[1] + b[1],
                          IF -1 \in {a[2], b[2]} THEN -1 ELSE a[2] + b[2])
    IN IF n > 0 /\ n < Len(r2.runes)
       THEN <<nre, LiteralString(SubSeq(r2.runes, n + 1, Len(r2.runes)), r2.flags)>>
       ELSE <<Node("EmptyMatch", {}), nre>>

\* From the left, every pair that can be; then empty matches are left out.
CoalescedSubs(subs) ==
    LET Pair(s, k) == IF CanCoalesce(s[k], s[k + 1])
                      THEN SubSeq(s, 1, k - 1) \o DoCoalesce(s[k], s[k + 1])
                                               \o SubSeq(s, k + 2, Len(s))
                      ELSE s
    IN SelectSeq(FoldLeft(Pair, subs, [k \in 1 .. Len(subs) - 1 |-> k]),
                 LAMBDA re : re.op # "EmptyMatch")

RECURSIVE Coalesce(_)
Coalesce(re) ==
    LET args == [k \in DOMAIN re.sub |-> Coalesce(re.sub[k])]
        subs == [k \in DOMAIN re.sub |-> args[k].re]
    IN CASE re.op \notin Composites -> Kept(re)
         [] re.op = "Concat" /\ \E k \in 1 .. Len(subs) - 1 : CanCoalesce(subs[k], subs[k + 1]) ->
                Built(Over("Concat", CoalescedSubs(subs), re.flags))
         [] OTHER -> IF \A k \in DOMAIN args : args[k].kept THEN Kept(re)
                     ELSE Built([re EXCEPT !.sub = subs, !.simple = FALSE])

-----------------------------------------------------------------------------
(* SimplifyWalker. *)

\* x{n,} is n copies, the last with a plus, and x{n,m} is n copies and then the
\* optional ones, each in the one before it.
SimplifyRepeat(re, min, max, f) ==
    LET copies(n) == [k \in 1 .. n |-> re]
        Suffix(suf, k) ==
            StarPlusOrQuest("Quest", IF k = 1 THEN re ELSE Over("Concat", <<re, suf>>, f), f)
        suffix == FoldLeft(Suffix, Node("NoMatch", f), [k \in 1 .. max - min |-> k])
    IN CASE max = -1 ->
            IF min = 0 THEN StarPlusOrQuest("Star", re, f)
            ELSE ConcatNode(Append(copies(min - 1), StarPlusOrQuest("Plus", re, f)), f)
         [] min = 0 /\ max = 0 -> Node("EmptyMatch", f)
         [] max = min -> ConcatNode(copies(min), f)
         [] OTHER -> IF min = 0 THEN suffix
                     ELSE Over("Concat", <<ConcatNode(copies(min), f), suffix>>, f)

\* Mistake: a full class stays a class.
ClassAsIs(re) == Kept([re EXCEPT !.simple = TRUE])

SimplifyCharClass(re) ==
    CASE re.cc.nrunes = 0 -> Built([Node("NoMatch", re.flags) EXCEPT !.simple = TRUE])
      [] re.cc.nrunes = Runemax + 1 -> Built([Node("AnyChar", re.flags) EXCEPT !.simple = TRUE])
      [] OTHER -> Kept([re EXCEPT !.simple = TRUE])

RECURSIVE SimplifyWalk(_)
SimplifyWalk(re) ==
    LET args == [k \in DOMAIN re.sub |-> SimplifyWalk(re.sub[k])]
        all_kept == \A k \in DOMAIN args : args[k].kept
        newsub == args[1].re
        new == [re EXCEPT !.sub = [k \in DOMAIN re.sub |-> args[k].re], !.simple = TRUE]
    IN CASE re.simple -> Kept(re)
         [] ~re.simple /\ re.op = "CharClass" -> SimplifyCharClass(re)
         [] ~re.simple /\ re.op \in Loops \union {"Repeat"} ->
                CASE newsub.op = "EmptyMatch" -> Built(newsub)
                  [] newsub.op # "EmptyMatch" /\ re.op = "Repeat" ->
                        Built([SimplifyRepeat(newsub, re.min, re.max, re.flags)
                               EXCEPT !.simple = TRUE])
                  [] OTHER -> IF all_kept THEN Kept(new)
                              ELSE IF re.op = newsub.op /\ re.flags = newsub.flags
                              THEN Built(newsub)
                              ELSE Built(new)
         [] ~re.simple /\ re.op \in {"Concat", "Alternate", "Capture"} ->
                IF all_kept THEN Kept(new) ELSE Built(new)
         [] OTHER -> Kept([re EXCEPT !.simple = TRUE])

Simplify(re) == SimplifyWalk(Coalesce(re).re).re

=============================================================================
