------------------------------ MODULE RE2Match ------------------------------
(***************************************************************************)
(* RE2::Match (re2/re2.cc): which engines answer a match call, in which    *)
(* order, and what each is asked.                                          *)
(*                                                                         *)
(* A call first runs a DFA, which finds where a match ends (and, run       *)
(* backwards over the reverse program, where it starts) but may run out of *)
(* memory.  The submatches, or the whole match when no DFA was used, come  *)
(* from the one-pass machine, the bit-state backtracker or the NFA.  The   *)
(* reverse program is compiled by the first call that needs it, for all    *)
(* threads, under std::call_once.                                          *)
(*                                                                         *)
(* What is abstract.  The text is its length and the positions 0 .. N in   *)
(* it.  The regexp is the list, for each position, of the ends of the      *)
(* matches that begin there, in the order of preference of leftmost-first  *)
(* semantics; it stands for the suffix that is compiled once the anchors   *)
(* and the required prefix have been taken off.  An engine is what its     *)
(* entry point does with the anchors, the kind of match and the ends: the  *)
(* machines themselves are modelled elsewhere.                             *)
(***************************************************************************)
EXTENDS Integers, Sequences, FiniteSets, SequencesExt, FiniteSetsExt

CONSTANTS
    Threads,        \* the threads that call Match on one RE2
    NoThread,
    N,              \* text.size()
    Regexps,        \* the regexps: see RegexpAssumption
    Calls,          \* the calls: see CallAssumption
    Users(_),       \* the threads that share a regexp,
    CallsOn(_),     \* and the calls they make
    LogErrors(_),   \* the values of options_.log_errors() for a regexp
    BitStateTextMax,\* bit_state_text_max
    OnePassTextMax, \* the largest text OnePass is preferred on: 4096
    TinyTextMax,    \* the same when only the match is wanted: 16
    MaxOnePassCapture,  \* kMaxOnePassCapture
    MayFail         \* the DFAs may run out of memory

Positions == 0 .. N
Spans == {span \in Positions \X Positions : span[1] <= span[2]}

ASSUME RegexpAssumption ==
    /\ N \in Nat
    /\ \A re \in Regexps :
          /\ re.prefixlen \in Nat
          /\ re.prefix_found \in BOOLEAN
          /\ re.anchor_start \in BOOLEAN /\ re.anchor_end \in BOOLEAN
          /\ re.longest \in BOOLEAN
          /\ re.one_pass \in BOOLEAN /\ re.bit_state \in BOOLEAN
          /\ re.groups \in Nat
          /\ \A i \in Positions : re.ends[i] \in Seq(i .. N)

Unanchored == "UNANCHORED"
AnchorStart == "ANCHOR_START"
AnchorBoth == "ANCHOR_BOTH"

ASSUME CallAssumption ==
    /\ Calls # {}
    /\ Calls \subseteq [startpos : Positions, endpos : Positions,
                        re_anchor : {Unanchored, AnchorStart, AnchorBoth},
                        nsubmatch : Nat]
    /\ \A re \in Regexps : Users(re) \subseteq Threads /\ CallsOn(re) \subseteq Calls

AnyCall == CHOOSE c \in Calls : TRUE
NoSpan == <<>>
NoMatch == [matched |-> FALSE, submatch |-> <<>>]

VARIABLES
    re,             \* the regexp, with its programs prog_
    log_errors,     \* options_.log_errors()
    rprog_,         \* "unset", "compiling", "ready" or "NULL"
    compiler,       \* the thread inside call_once, if any
    exited,         \* the process has called exit
    pc,             \* where each thread is in Match
    call,           \* its arguments
    re_anchor,      \* re_anchor, as Match changes it
    match,          \* the span a DFA has found
    skipped_test,
    result          \* what the call has returned

object == <<re, log_errors>>
once == <<rprog_, compiler>>
vars == <<object, once, exited, pc, call, re_anchor, match, skipped_test,
          result>>

-----------------------------------------------------------------------------
(* The engines, as Match sees them *)

\* The ends, in [.., e], of the matches that begin at i.
Ends(i, e) == {j \in ToSet(re.ends[i]) : j <= e}

\* The one of these ends of matches that begin at i that the regexp prefers.
Preferred(i, ends) ==
    re.ends[i][Min({k \in DOMAIN re.ends[i] : re.ends[i][k] \in ends})]

\* The leftmost match in [b, e]: the preferred one or the longest from there,
\* only counting those that end at e if tail.
Leftmost(b, e, anchored, longest, tail) ==
    LET ends(i) == {j \in Ends(i, e) : tail => j = e}
        starts == {i \in IF anchored THEN {b} ELSE b .. e : ends(i) # {}}
    IN  IF starts = {} THEN NoSpan
        ELSE LET i == Min(starts)
             IN  <<i, IF longest THEN Max(ends(i)) ELSE Preferred(i, ends(i))>>

\* The anchors the program was compiled with are checked against the context.
AnchorsFit(b, e) ==
    /\ re.anchor_start => b = 0
    /\ re.anchor_end => e = N

\* Longest is asked for; whether the match is full is checked afterwards.
FullMatchOnly(span, kind, e) ==
    IF kind = "full" /\ span # NoSpan /\ span[2] # e THEN NoSpan ELSE span

\* Prog::SearchDFA on prog_: the end is right, the start is that of the text.
SearchDFA(b, e, anchored, kind) ==
    LET tail == kind = "full" \/ re.anchor_end
        found == Leftmost(b, e, anchored \/ re.anchor_start \/ kind = "full",
                          kind = "longest" \/ tail, FALSE)
    IN  IF ~AnchorsFit(b, e) \/ found = NoSpan THEN NoSpan
        ELSE IF tail /\ found[2] # e THEN NoSpan
        ELSE <<b, found[2]>>

\* Mistake: the start is off by the byte a DFA notices a match late.
ReverseSearchDFALate(b, e) ==
    LET starts == {i \in b .. e : e \in Ends(i, e)}
    IN  IF ~AnchorsFit(b, e) \/ starts = {} THEN NoSpan
        ELSE <<Min(starts) - 1, e>>

\* Prog::SearchDFA on rprog_, anchored, longest match: the first of the
\* positions where a match that ends at e begins.
ReverseSearchDFA(b, e) ==
    LET starts == {i \in b .. e : e \in Ends(i, e)}
    IN  IF ~AnchorsFit(b, e) \/ starts = {} THEN NoSpan
        ELSE IF re.anchor_start /\ Min(starts) # b THEN NoSpan
        ELSE <<Min(starts), e>>

\* Prog::SearchOnePass refuses unanchored searches.
SearchOnePass(b, e, anchored, kind) ==
    LET tail == kind = "full" \/ re.anchor_end
    IN  IF ~(anchored \/ kind = "full") \/ ~AnchorsFit(b, e) THEN NoSpan
        ELSE Leftmost(b, e, TRUE, kind = "longest", tail)

\* Prog::SearchBitState.
SearchBitState(b, e, anchored, kind) ==
    IF ~AnchorsFit(b, e) THEN NoSpan
    ELSE FullMatchOnly(Leftmost(b, e,
                                anchored \/ kind = "full" \/ re.anchor_start,
                                kind # "first" \/ re.anchor_end,
                                re.anchor_end), kind, e)

\* Prog::SearchNFA.
SearchNFA(b, e, anchored, kind) ==
    IF ~AnchorsFit(b, e) THEN NoSpan
    ELSE FullMatchOnly(Leftmost(b, e,
                                anchored \/ kind = "full" \/ re.anchor_start,
                                kind # "first" \/ re.anchor_end,
                                re.anchor_end), kind, e)

-----------------------------------------------------------------------------
(* The parts of Match *)

\* ncap.
Captures(t) == Min({1 + re.groups, call[t].nsubmatch})

\* The subtext once the required prefix is taken off.
Begin(t) == call[t].startpos + re.prefixlen
End(t) == call[t].endpos

\* Match's own checks, before any engine: the anchors and the prefix.
Possible(c) ==
    /\ c.startpos <= c.endpos
    /\ re.anchor_start => c.startpos = 0
    /\ re.anchor_end => c.endpos = N
    /\ re.prefixlen > 0 =>
          /\ c.startpos = 0
          /\ re.prefixlen <= c.endpos - c.startpos
          /\ re.prefix_found

\* Mistake: the prefix does not anchor the rest of the search.
PrefixDoesNotAnchor(c) ==
    CASE re.anchor_start /\ re.anchor_end -> AnchorBoth
      [] re.anchor_start /\ ~re.anchor_end /\ c.re_anchor # AnchorBoth
            -> AnchorStart
      [] OTHER -> c.re_anchor

\* re_anchor, narrowed by the anchors of the regexp and by its prefix.
Narrowed(c) ==
    CASE re.anchor_start /\ re.anchor_end -> AnchorBoth
      [] ~(re.anchor_start /\ re.anchor_end) /\ c.re_anchor # AnchorBoth
            /\ (re.anchor_start \/ re.prefixlen > 0) -> AnchorStart
      [] OTHER -> c.re_anchor

CanOnePass(t) == re.one_pass /\ Captures(t) <= MaxOnePassCapture

\* An anchored search that OnePass or BitState will answer anyway skips the
\* DFA if the text is short.
SkipsDFA(t) ==
    \/ /\ CanOnePass(t)
       /\ N <= OnePassTextMax
       /\ Captures(t) > 1 \/ N <= TinyTextMax
    \/ re.bit_state /\ N <= BitStateTextMax /\ Captures(t) > 1

FirstKind == IF re.longest THEN "longest" ELSE "first"

\* kind, when the submatches are looked for: the whole match if a DFA has
\* found where it is.
SubmatchKind(t) ==
    IF ~skipped_test[t] \/ re_anchor[t] = AnchorBoth THEN "full"
    ELSE FirstKind

\* The engine that finds the submatches.
SearchSubmatches(t) ==
    LET b == IF skipped_test[t] THEN Begin(t) ELSE match[t][1]
        e == IF skipped_test[t] THEN End(t) ELSE match[t][2]
        anchored == ~skipped_test[t] \/ re_anchor[t] # Unanchored
        kind == SubmatchKind(t)
    IN  CASE CanOnePass(t) /\ anchored -> SearchOnePass(b, e, anchored, kind)
          [] ~(CanOnePass(t) /\ anchored) /\ re.bit_state
                /\ e - b <= BitStateTextMax
                -> SearchBitState(b, e, anchored, kind)
          [] OTHER -> SearchNFA(b, e, anchored, kind)

\* What Match fills in: the match with the prefix it begins with, the groups,
\* and nothing for groups the regexp does not have.
Submatches(t, span) ==
    [k \in 1 .. call[t].nsubmatch |->
        CASE k = 1 -> <<span[1] - re.prefixlen, span[2]>>
          [] k > 1 /\ k <= Captures(t) -> "group"
          [] OTHER -> "NULL"]

Matched(t, span) == [matched |-> TRUE, submatch |-> Submatches(t, span)]

-----------------------------------------------------------------------------
Init ==
    /\ re \in Regexps
    /\ log_errors \in LogErrors(re)
    /\ rprog_ = "unset"
    /\ compiler = NoThread
    /\ exited = FALSE
    /\ pc = [t \in Threads |-> "idle"]
    /\ call = [t \in Threads |-> AnyCall]
    /\ re_anchor = [t \in Threads |-> Unanchored]
    /\ match = [t \in Threads |-> NoSpan]
    /\ skipped_test = [t \in Threads |-> FALSE]
    /\ result = [t \in Threads |-> NoMatch]

Goto(t, label) == pc' = [pc EXCEPT ![t] = label]

Return(t, r) ==
    /\ result' = [result EXCEPT ![t] = r]
    /\ Goto(t, "return")

\* "Fall back to NFA below."
FallBack(t) ==
    /\ skipped_test' = [skipped_test EXCEPT ![t] = TRUE]
    /\ Goto(t, "submatch")

\* Match is called.
Call(t, c) ==
    /\ pc[t] = "idle"
    /\ call' = [call EXCEPT ![t] = c]
    /\ Goto(t, "begin")
    /\ UNCHANGED <<object, once, exited, re_anchor, match, skipped_test,
                   result>>

\* The checks at the top, and the choice of the first engine.
Dispatch(t) ==
    /\ pc[t] = "begin"
    /\ re_anchor' = [re_anchor EXCEPT ![t] = Narrowed(call[t])]
    /\ \/ /\ ~Possible(call[t])
          /\ Return(t, NoMatch)
          /\ skipped_test' = skipped_test
       \/ /\ Possible(call[t])
          /\ Narrowed(call[t]) = Unanchored
          /\ Goto(t, IF re.anchor_end THEN "rprog" ELSE "dfa")
          /\ UNCHANGED <<result, skipped_test>>
       \/ /\ Possible(call[t])
          /\ Narrowed(call[t]) # Unanchored
          /\ IF SkipsDFA(t) THEN FallBack(t)
             ELSE Goto(t, "dfa") /\ skipped_test' = skipped_test
          /\ result' = result
    /\ UNCHANGED <<object, once, exited, call, match>>

\* The forward DFA has an answer: none, all that is needed, or the end.
DFAAnswers(t) ==
    LET unanchored == re_anchor[t] = Unanchored
        kind == CASE re_anchor[t] = AnchorBoth -> "full"
                  [] unanchored /\ call[t].nsubmatch = 0 -> "longest"
                  [] OTHER -> FirstKind
        found == SearchDFA(Begin(t), End(t), ~unanchored, kind)
    IN
    /\ pc[t] = "dfa"
    /\ match' = [match EXCEPT ![t] = found]
    /\ \/ /\ found = NoSpan
          /\ Return(t, NoMatch)
       \/ /\ found # NoSpan /\ call[t].nsubmatch = 0
          /\ Return(t, Matched(t, found))
       \/ /\ found # NoSpan /\ call[t].nsubmatch # 0
          /\ Goto(t, IF unanchored THEN "rprog" ELSE "submatch")
          /\ result' = result
    /\ UNCHANGED <<object, once, exited, call, re_anchor, skipped_test>>

\* It has run out of memory.  An anchored search falls back; an unanchored one
\* only if errors are not logged: otherwise it exits.
DFAFails(t) ==
    /\ pc[t] = "dfa"
    /\ MayFail
    /\ IF re_anchor[t] = Unanchored /\ log_errors
       THEN /\ exited' = TRUE
            /\ UNCHANGED <<pc, skipped_test>>
       ELSE /\ exited' = exited
            /\ FallBack(t)
    /\ UNCHANGED <<object, once, call, re_anchor, match, result>>

\* ReverseProg: the first thread compiles, the others wait for it.
EnterOnce(t) ==
    /\ pc[t] = "rprog"
    /\ rprog_ = "unset"
    /\ rprog_' = "compiling"
    /\ compiler' = t
    /\ UNCHANGED <<object, exited, pc, call, re_anchor, match, skipped_test,
                   result>>

\* Mistake: a reverse program that does not fit leaves the flag as it was.
CompiledIfItFits(fits) == IF fits THEN "ready" ELSE "compiling"

\* CompileToReverseProg: the program may not fit in its third of max_mem.
Compiled(fits) == IF fits THEN "ready" ELSE "NULL"

LeaveOnce(t) ==
    /\ compiler = t
    /\ \E fits \in BOOLEAN : rprog_' = Compiled(fits)
    /\ compiler' = NoThread
    /\ UNCHANGED <<object, exited, pc, call, re_anchor, match, skipped_test,
                   result>>

\* ReverseProg returns.
TakeReverseProg(t) ==
    /\ pc[t] = "rprog"
    /\ rprog_ \in {"ready", "NULL"}
    /\ IF rprog_ = "ready" THEN Goto(t, "rdfa") /\ skipped_test' = skipped_test
       ELSE FallBack(t)
    /\ UNCHANGED <<object, once, exited, call, re_anchor, match, result>>

\* Mistake: the end the forward DFA has found is not used.
ReverseEndOfText(t) == End(t)

\* Where the reverse DFA looks for a start: before the end the forward DFA
\* has found, or before the end of the text if the regexp is anchored there.
ReverseEnd(t) == IF re.anchor_end THEN End(t) ELSE match[t][2]

\* The reverse DFA has an answer.  "SearchDFA inconsistency" is a failed match
\* like any other.
ReverseDFAAnswers(t) ==
    LET found == ReverseSearchDFA(Begin(t), ReverseEnd(t))
    IN
    /\ pc[t] = "rdfa"
    /\ match' = [match EXCEPT ![t] = found]
    /\ \/ /\ found = NoSpan
          /\ Return(t, NoMatch)
       \/ /\ found # NoSpan /\ call[t].nsubmatch = 0
          /\ Return(t, Matched(t, found))
       \/ /\ found # NoSpan /\ call[t].nsubmatch # 0
          /\ Goto(t, "submatch")
          /\ result' = result
    /\ UNCHANGED <<object, once, exited, call, re_anchor, skipped_test>>

\* It has run out of memory: after a forward search the process exits, whether
\* errors are logged or not.
ReverseDFAFails(t) ==
    /\ pc[t] = "rdfa"
    /\ MayFail
    /\ IF re.anchor_end
       THEN /\ exited' = exited
            /\ FallBack(t)
       ELSE /\ exited' = TRUE
            /\ UNCHANGED <<pc, skipped_test>>
    /\ UNCHANGED <<object, once, call, re_anchor, match, result>>

\* The rest of Match: the DFAs' span may be all that is asked for.
FindSubmatches(t) ==
    LET exact == ~skipped_test[t] /\ Captures(t) <= 1
        found == IF exact THEN match[t] ELSE SearchSubmatches(t)
    IN
    /\ pc[t] = "submatch"
    /\ Return(t, IF found = NoSpan THEN NoMatch ELSE Matched(t, found))
    /\ UNCHANGED <<object, once, exited, call, re_anchor, match, skipped_test>>

\* Match returns; its locals are gone.
Leave(t) ==
    /\ pc[t] = "return"
    /\ Goto(t, "idle")
    /\ re_anchor' = [re_anchor EXCEPT ![t] = Unanchored]
    /\ match' = [match EXCEPT ![t] = NoSpan]
    /\ skipped_test' = [skipped_test EXCEPT ![t] = FALSE]
    /\ call' = [call EXCEPT ![t] = AnyCall]
    /\ result' = [result EXCEPT ![t] = NoMatch]
    /\ UNCHANGED <<object, once, exited>>

-----------------------------------------------------------------------------
Step(t) ==
    /\ ~exited
    /\ \/ Dispatch(t)
       \/ DFAAnswers(t)
       \/ DFAFails(t)
       \/ EnterOnce(t)
       \/ LeaveOnce(t)
       \/ TakeReverseProg(t)
       \/ ReverseDFAAnswers(t)
       \/ ReverseDFAFails(t)
       \/ FindSubmatches(t)
       \/ Leave(t)

Next ==
    \E t \in Threads :
        \/ Step(t)
        \/ ~exited /\ t \in Users(re) /\ \E c \in CallsOn(re) : Call(t, c)

Spec == Init /\ [][Next]_vars

-----------------------------------------------------------------------------
(* What a call must return *)

\* The span is a match of the whole regexp and one that a call asks for, whatever
\* engine finds it, from and to where the text is searched.
IsAsked(c, i, j) ==
    LET rest == i + re.prefixlen
    IN  /\ c.startpos <= i /\ rest <= j /\ j <= c.endpos
        /\ re.prefixlen > 0 => i = 0 /\ re.prefix_found
        /\ re.anchor_start => rest = 0
        /\ re.anchor_end => j = N
        /\ j \in ToSet(re.ends[rest])
        /\ c.re_anchor # Unanchored => i = c.startpos
        /\ c.re_anchor = AnchorBoth => j = c.endpos

Asked(c) == {span \in Spans : IsAsked(c, span[1], span[2])}

\* The leftmost of them and there the longest, or the first in the regexp's
\* order of preference.
Answer(c) ==
    LET i == Min({span[1] : span \in Asked(c)})
        ends == {j \in Positions : <<i, j>> \in Asked(c)}
    IN  <<i, IF re.longest THEN Max(ends)
             ELSE Preferred(i + re.prefixlen, ends)>>

Expected(c) ==
    IF Asked(c) = {} THEN NoMatch
    ELSE [matched |-> TRUE,
          submatch |-> [k \in 1 .. c.nsubmatch |->
                           CASE k = 1 -> Answer(c)
                             [] k > 1 /\ k <= 1 + re.groups -> "group"
                             [] OTHER -> "NULL"]]

-----------------------------------------------------------------------------
\* Whichever engines a call goes through, falling back or not, it returns the
\* match the regexp's semantics says, with every submatch filled in.
MatchExpected ==
    \A t \in Threads : pc[t] = "return" => result[t] = Expected(call[t])

\* A DFA that runs out of memory is never the end of the program: the code
\* says of each such failure "Fall back to NFA below."
NeverExits == ~exited

\* Every call returns, unless the process exits: no thread waits for ever for
\* the reverse program.
EveryCallReturns ==
    \A t \in Threads : pc[t] = "begin" ~> (pc[t] = "return" \/ exited)

\* Threads are scheduled.
Fairness == \A t \in Threads : WF_vars(Step(t))

LiveSpec == Spec /\ Fairness

=============================================================================
