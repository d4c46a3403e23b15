----------------------------- MODULE Rewriting -----------------------------
(***************************************************************************)
(* RE2::Replace, GlobalReplace and Extract (re2/re2.cc), which rewrite what*)
(* Match finds.  Match gives the answer that the engines agree on.         *)
(*                                                                         *)
(* A rewrite string is a sequence of tokens: a byte [op |-> "Byte", byte], *)
(* \n [op |-> "Group", n], \\ [op |-> "Byte"] again, and what must not     *)
(* follow a backslash, [op |-> "Other"].                                   *)
(***************************************************************************)
EXTENDS Engines, Matching

VARIABLE replacing  \* the loop of GlobalReplace, or Unset

\* A family also says what matches are replaced with.
ASSUME RewritingAssumption ==
    \A f \in Families : \A rewrite \in f.rewrites : \A k \in DOMAIN rewrite :
        rewrite[k].op \in {"Byte", "Group", "Other"}

-----------------------------------------------------------------------------
(* The answer that a search should have, as the repository's reference      *)
(* gives it, the backtracker (Matching!Run) with which                      *)
(* re2/testing/tester.cc compares the engines.                              *)

\* The matches within the text that begin at p, as the backtracker prefers them.
MatchesFrom(s, p) ==
    SelectSeq(Run(prog, prog.start, s.context, p),
              LAMBDA e : IF ToTheEnd(s) THEN e.p = s.to ELSE e.p <= s.to)

\* Of those the one to report.
Best(s, p) ==
    LET ends == MatchesFrom(s, p)
        last == CHOOSE q \in {ends[k].p : k \in DOMAIN ends} :
                    \A k \in DOMAIN ends : ends[k].p <= q
    IN IF s.kind = "first" THEN ends[1]
       ELSE SelectSeq(ends, LAMBDA e : e.p = last)[1]

\* The answer to the search s, which the program reads as it is.
Reference(s) ==
    LET starts == IF s.anchored \/ prog.anchor_start \/ s.kind = "full"
                  THEN {s.from} ELSE s.from .. s.to
        some == {p \in starts : MatchesFrom(s, p) # <<>>}
        p == CHOOSE q \in some : \A r \in some : q <= r
        e == Best(s, p)
        cap == [r \in 0 .. 2 * s.nmatch - 1 |->
                    CASE r = 0 -> p
                      [] r = 1 -> e.p
                      [] OTHER -> IF r \in DOMAIN e.cap THEN e.cap[r] ELSE NULL]
    IN IF Possible(s) /\ some # {} THEN Found(cap, s.nmatch) ELSE NotFound

-----------------------------------------------------------------------------
NumberOfCapturingGroups == frags[1].captures

ToksOf(rewrite, op) == {tok \in ToSet(rewrite) : tok.op = op}

MaxSubmatch(rewrite) == Max({0} \union {tok.n : tok \in ToksOf(rewrite, "Group")})

CheckRewriteString(rewrite) ==
    ToksOf(rewrite, "Other") = {} /\ MaxSubmatch(rewrite) <= NumberOfCapturingGroups

\* Mistake: the whole match is forgotten in the count of submatches.
EnoughWithoutWhole(rewrite) == 1 + MaxSubmatch(rewrite) <= NumberOfCapturingGroups

\* Does the regexp have the submatches that are asked for?
Enough(rewrite) == 1 + MaxSubmatch(rewrite) <= 1 + NumberOfCapturingGroups

\* What a token stands for, if the submatches are match.
Snip(tok, t, match) ==
    IF tok.op = "Byte" THEN <<tok.byte>>
    ELSE LET group == match[tok.n + 1] IN
         IF group[1] = NULL THEN <<>> ELSE SubSeq(t, group[1] + 1, group[2])

\* Rewrite: up to a token that is malformed, which makes it fail.
Rewrite(rewrite, t, match) ==
    LET bad == {k \in DOMAIN rewrite : rewrite[k].op = "Other"}
        end == IF bad = {} THEN Len(rewrite) ELSE Min(bad) - 1
    IN [ok |-> bad = {},
        out |-> FlattenSeq([k \in 1 .. end |-> Snip(rewrite[k], t, match)])]

\* Match, from byte p of the text on.
FirstMatch(t, p, matchkind, nvec) ==
    Reference([context |-> t, from |-> p, to |-> Len(t), anchored |-> FALSE,
               kind |-> matchkind, nmatch |-> nvec])

-----------------------------------------------------------------------------
\* The answer of a function that found the match m.
Rewritten(function, t, match, new) ==
    IF function = "Extract" THEN [ok |-> new.ok, str |-> new.out]
    ELSE IF ~new.ok THEN [ok |-> FALSE, str |-> t]
    ELSE [ok |-> TRUE, str |-> SubSeq(t, 1, match[1][1]) \o new.out
                                 \o SubSeq(t, match[1][2] + 1, Len(t))]

CallReturns(function, t, rewrite, m) ==
    /\ search' = [engine |-> function, rewrite |-> rewrite, matched |-> m.matched]
    /\ answer' = IF m.matched /\ Enough(rewrite)
                  THEN Rewritten(function, t, m.match, Rewrite(rewrite, t, m.match))
                  ELSE [ok |-> FALSE, str |-> t]

\* Replace leaves the string alone if Rewrite fails, Extract leaves what Rewrite wrote
\* until then.  What Extract is to overwrite holds the text at first.
ReplaceOrExtract ==
    /\ Idle /\ kind = "forward"
    /\ \E t \in Texts, rewrite \in family.rewrites, matchkind \in {"first", "longest"},
          function \in {"Replace", "Extract"} :
        CallReturns(function, t, rewrite, FirstMatch(t, 0, matchkind, 1 + MaxSubmatch(rewrite)))
    /\ UNCHANGED <<vars, replacing>>

GlobalReplace ==
    /\ Idle /\ kind = "forward"
    /\ \E t \in Texts, rewrite \in family.rewrites, matchkind \in {"first", "longest"} :
        /\ Begins([engine |-> "GlobalReplace", context |-> t, rewrite |-> rewrite,
                   kind |-> matchkind])
        /\ IF Enough(rewrite)
           THEN /\ replacing' = [p |-> 0, lastend |-> NULL, out |-> <<>>, count |-> 0]
                /\ UNCHANGED answer
           ELSE answer' = [count |-> 0, str |-> t] /\ UNCHANGED replacing
    /\ UNCHANGED vars

\* Mistake: a byte is skipped and not written.
SkipSilently(t, m) == replacing' = [replacing EXCEPT !.p = @ + 1]

\* The match is passed over, with the byte after it: in Latin-1, where a byte is a
\* character.
SkipByte(t, m) ==
    replacing' = [replacing EXCEPT
                    !.out = @ \o SubSeq(t, replacing.p + 1, m.match[1][1])
                              \o (IF replacing.p < Len(t) THEN <<t[replacing.p + 1]>> ELSE <<>>),
                    !.p = @ + 1]

\* The match is rewritten, whether Rewrite succeeds or not.
RewriteMatch(t, m) ==
    replacing' = [replacing EXCEPT
                    !.out = @ \o SubSeq(t, replacing.p + 1, m.match[1][1])
                              \o Rewrite(search.rewrite, t, m.match).out,
                    !.p = m.match[1][2],
                    !.lastend = m.match[1][2],
                    !.count = @ + 1]

\* Nothing more matches, or the text has ended.
Replaced(t) ==
    answer' = IF replacing.count = 0 THEN [count |-> 0, str |-> t]
              ELSE [count |-> replacing.count,
                    str |-> replacing.out \o SubSeq(t, replacing.p + 1, Len(t))]

\* An empty match at the end of the last match is not replaced.
Turn(t, m) ==
    \/ /\ replacing.p <= Len(t) /\ m.matched
       /\ IF m.match[1] = <<replacing.lastend, replacing.lastend>>
          THEN SkipByte(t, m) ELSE RewriteMatch(t, m)
       /\ UNCHANGED answer
    \/ /\ replacing.p > Len(t) \/ ~m.matched
       /\ Replaced(t)
       /\ UNCHANGED replacing

\* One turn of the loop of GlobalReplace.
ReplaceNext ==
    /\ Searching("GlobalReplace")
    /\ Turn(search.context, FirstMatch(search.context, replacing.p, search.kind,
                                      1 + MaxSubmatch(search.rewrite)))
    /\ UNCHANGED <<vars, search>>

MatchesAreReplaced ==
    /\ ReplaceOrExtract \/ GlobalReplace \/ ReplaceNext
    /\ onepass = Unset
    /\ UNCHANGED <<engineVars, fsm>>

RewritingInit == EnginesInit /\ replacing = Unset
RewritingNext == (EnginesNext /\ UNCHANGED replacing) \/ MatchesAreReplaced
RewritingSpec == RewritingInit /\ [][RewritingNext]_<<vars, searchVars, engineVars, fsm, replacing>>

-----------------------------------------------------------------------------
Answered(engine) == answer # Unset /\ search.engine = engine

\* Every engine gives the answer of the backtracker: NFA, BitState and OnePass with
\* its submatches, the DFA where the match ends, for what it was asked for, and a
\* set's DFA which of its regexps match.
EnginesAgree ==
    /\ \A engine \in {"NFA", "BitState", "OnePass"} :
        Answered(engine) => answer = Reference(search)
    /\ Answered("DFA") =>
        IF search.kind = "many"
        THEN LET ends == Run(prog, prog.start, search.context, 0) IN
             /\ answer.matched <=> ends # <<>>
             /\ search.nmatch > 0 => answer.ids = {ends[k].match_id : k \in DOMAIN ends}
        ELSE LET expected == Reference([View(search) EXCEPT !.nmatch = 1]) IN
             /\ answer.matched = expected.matched
             /\ answer.matched /\ search.nmatch > 0 => answer.match = expected.match[1][2]

-----------------------------------------------------------------------------
(* The exported DFA. *)

\* The states that a text is read through, from state 0 on.
RECURSIVE Reads(_, _)
Reads(next(_, _), t) ==
    IF t = <<>> THEN <<0>>
    ELSE LET way == Reads(next, Front(t))
             to == next(Last(way), Last(t))
         IN IF Last(way) = -1 THEN way ELSE Append(way, to)

\* The ends of all matches of the text t.
EndsIn(t) ==
    LET ends == Run(prog, prog.start_unanchored, t, 0) IN {ends[k].p : k \in DOMAIN ends}

\* Where the way through the states tells that a match ended: a byte late.
Noticed(way) == {n - 2 : n \in {n \in DOMAIN way : way[n] # -1 /\ answer.match[way[n] + 1]}}

\* Read through the exported states, and then through the end of the text, a text
\* matches exactly if the search of it would, with the same end.  Read through the
\* table of a DFA for all matches, unless the program begins with an anchor, every
\* end of a match is found, but for one at the end of the text.
ExportMatches ==
    Answered("Export") => \A t \in Texts :
        LET Next1(n, c) == IF n = -1 THEN -1 ELSE answer.next[n + 1][c]
            classes == Append([k \in DOMAIN t |-> prog.bytemap[t[k]]], kByteEndText)
            noticed == IF answer.next = <<>> THEN {} ELSE Noticed(Reads(Next1, classes))
            Next2(n, c) == Table(answer.next)[n + 1][c]
            whole == [context |-> t, from |-> 0, to |-> Len(t), anchored |-> FALSE,
                      kind |-> search.kind, nmatch |-> 1]
            expected == Reference(whole)
        IN IF search.kind = "many"
           THEN /\ noticed = EndsIn(t)
                /\ (kind = "UNANCHORED" \/ ~prog.anchor_start) /\ answer.next # <<>> =>
                    Noticed(Reads(Next2, t)) = EndsIn(t) \ {Len(t)}
           ELSE /\ expected.matched <=> noticed # {}
                /\ expected.matched =>
                    \A n \in noticed : n <= expected.match[1][2]
                /\ expected.matched => expected.match[1][2] \in noticed

-----------------------------------------------------------------------------
(* Replacements. *)

\* Every match is put in brackets, of bytes that are not in the texts.
Open == Newline
Close == UpperA
Bracketed == <<[op |-> "Byte", byte |-> Open], [op |-> "Group", n |-> 0],
               [op |-> "Byte", byte |-> Close]>>

NoBrackets(str) == SelectSeq(str, LAMBDA b : b \notin {Open, Close})

\* Where in the text the brackets b of str are.
Brackets(str, b) ==
    LET at == SelectSeq([k \in DOMAIN str |-> IF str[k] = b THEN k ELSE 0], LAMBDA k : k # 0)
    IN [k \in DOMAIN at |-> Len(NoBrackets(SubSeq(str, 1, at[k])))]

\* The spans that GlobalReplace replaces are in order and apart, an empty one never where
\* the last one ended; each is what a search from its beginning finds; and what a search
\* from anywhere between them finds is one of them, or empty and where the last one ended.
SpansExact(t, begin, end, found) ==
    LET spans == {<<begin[k], end[k]>> : k \in DOMAIN begin} IN
    /\ \A k \in DOMAIN begin :
        /\ found[begin[k]].match[1] = <<begin[k], end[k]>>
        /\ k > 1 => begin[k] >= end[k - 1] /\ end[k] > end[k - 1]
    /\ \A q \in 0 .. Len(t) :
        (\A s \in spans : q <= s[1] \/ q >= s[2]) /\ found[q].matched =>
            \/ found[q].match[1] \in spans
            \/ \E s \in spans : found[q].match[1] = <<s[2], s[2]>>

\* No byte is lost, and the matches replaced are those spans.
GlobalReplaceExact ==
    Answered("GlobalReplace") /\ search.rewrite = Bracketed =>
        /\ NoBrackets(answer.str) = search.context
        /\ answer.count = Len(Brackets(answer.str, Open))
        /\ SpansExact(search.context, Brackets(answer.str, Open), Brackets(answer.str, Close),
                      [q \in 0 .. Len(search.context) |->
                          FirstMatch(search.context, q, search.kind, 1)])

\* Replace and Extract do not fail for a rewrite string that CheckRewriteString accepts.
WellFormedSucceeds ==
    /\ Answered("Replace") \/ Answered("Extract")
    /\ CheckRewriteString(search.rewrite) /\ search.matched
    => answer.ok

\* GlobalReplace replaces the matches that successive searches find, and nothing else;
\* Replace and Extract succeed wherever the check of the rewrite string promises it.
ReplacementsExact == GlobalReplaceExact /\ WellFormedSucceeds

-----------------------------------------------------------------------------
Before(s, t) ==
    \/ IsPrefix(s, t)
    \/ \E k \in 1 .. Len(s) \cap DOMAIN t :
        SubSeq(s, 1, k - 1) = SubSeq(t, 1, k - 1) /\ s[k] < t[k]

\* If PossibleMatchRange succeeds, every text that matches as a whole is within the
\* bounds that it gives.
RangeHolds ==
    Answered("Range") /\ answer.ok => \A t \in Texts :
        Reference([context |-> t, from |-> 0, to |-> Len(t), anchored |-> TRUE,
                   kind |-> "full", nmatch |-> 0]).matched =>
            Before(answer.min, t) /\ Before(t, answer.max)

=============================================================================
