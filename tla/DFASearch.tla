----------------------------- MODULE DFASearch -----------------------------
(***************************************************************************)
(* What DFA::Search promises its callers (the comment above its            *)
(* declaration in re2/dfa.cc): every call is answered, and the answer is   *)
(* the one the automaton gives for that call alone, or, where the search   *)
(* may give up, a failure.  Locks, caches and other threads are not part   *)
(* of it: a call looks as if it happened in one step.                      *)
(***************************************************************************)
CONSTANTS
    Threads,
    Jobs,           \* the calls a thread can make
    Answer,         \* Answer[j]: the automaton's answer to call j
    Failed,         \* the answer of a search that gave up
    NoJob, NoAnswer,
    MayFail         \* FALSE: searches of this DFA have nothing to fall back on

VARIABLES asked, reply

Init ==
    /\ asked = [t \in Threads |-> NoJob]
    /\ reply = [t \in Threads |-> NoAnswer]

Ask(t, j) ==
    /\ asked[t] = NoJob
    /\ asked' = [asked EXCEPT ![t] = j]
    /\ reply' = [reply EXCEPT ![t] = NoAnswer]

Reply(t) ==
    /\ asked[t] # NoJob
    /\ asked' = [asked EXCEPT ![t] = NoJob]
    /\ \/ reply' = [reply EXCEPT ![t] = Answer[asked[t]]]
       \/ MayFail /\ reply' = [reply EXCEPT ![t] = Failed]

Next == \E t \in Threads : Reply(t) \/ \E j \in Jobs : Ask(t, j)

Safe == Init /\ [][Next]_<<asked, reply>>

\* Every call returns.
Spec == Safe /\ \A t \in Threads : WF_<<asked, reply>>(Reply(t))
=============================================================================
