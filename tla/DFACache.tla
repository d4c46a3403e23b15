------------------------------ MODULE DFACache ------------------------------
(***************************************************************************)
(* Threads searching with one shared DFA (re2/dfa.cc, class DFA).          *)
(*                                                                         *)
(* The DFA is built while it is used: a search that meets an arrow no      *)
(* search has followed yet computes it under mutex_ and publishes it for   *)
(* everyone.  The states live in a cache with a memory budget; a search    *)
(* that finds the cache full gives up its shared hold of cache_mutex_,     *)
(* takes it exclusively, discards every state of every search, and goes on *)
(* from copies of the two states it still needs.                           *)
(*                                                                         *)
(* What is abstract.  The contents of a state (its instruction list and    *)
(* flags) is an element of Content; how contents are computed from the     *)
(* program is Delta, StartOf, Matching and NeedsFlags.  A State* is the    *)
(* contents of the state it points at while that state is in the cache:    *)
(* CachedState keeps one State per contents.  When the cache is cleared,   *)
(* every pointer to one of its states becomes Dangling, wherever a thread  *)
(* still holds it, so that using one later is visible.                     *)
(*                                                                         *)
(* Positions are counted in scan order: p is the number of bytes consumed, *)
(* from the front of the text in a forward DFA and from its end in a       *)
(* reversed one.                                                           *)
(***************************************************************************)
EXTENDS Integers, Sequences, FiniteSets, FiniteSetsExt

CONSTANTS
    Threads,        \* the threads that call DFA::Search
    NoThread,       \* nobody: the owner of a free lock
    Content,        \* what State records can hold: inst_, ninst_, flag_
    Dead, FullMatch, NULL,  \* DeadState, FullMatchState, NULL
    Dangling,       \* a State* whose state has been deallocated
    Classes,        \* byte classes of the program's bytemap
    EndText,        \* the class of kByteEndText
    StartKinds,     \* indices into start_
    AnchoredKinds,  \* those with kStartAnchored set
    StartOf,        \* the contents each start kind leads to
    Delta,          \* the contents each arrow leads to
    Matching,       \* contents with kFlagMatch
    NeedsFlags,     \* contents with a bit above kFlagNeedShift
    MatchIds,       \* the match ids stored after MatchSep, per contents
    PrefixClasses,  \* classes of the bytes PrefixAccel searches for; {}: none
    Size,           \* bytes CachedState charges for contents, overhead included
    StateBudget,    \* state_budget_
    ManyMatch,      \* kind_ == kManyMatch
    Reversed,       \* prog_->reversed(): run_forward is its negation
    BailWhenSlow,   \* dfa_should_bail_when_slow
    BailFactor,     \* bytes per state below which a search is slow: 10
    SizeModulus,    \* size_t arithmetic is modulo this
    SharedReads,    \* Mutex is a reader-writer lock, not a std::mutex
    Jobs            \* the searches asked: see JobAssumption

Special == {Dead, FullMatch}
Symbols == Classes \cup {EndText}
Targets == Content \cup Special
Pointers == Targets \cup {NULL, Dangling}

ASSUME NamesAssumption ==
    /\ NoThread \notin Threads
    /\ {Dead, FullMatch, NULL, Dangling} \cap Content = {}
    /\ Dead # NULL /\ Dead # Dangling /\ Dead # FullMatch
    /\ FullMatch # NULL /\ FullMatch # Dangling /\ NULL # Dangling
    /\ EndText \notin Classes

ASSUME AutomatonAssumption ==
    /\ StartOf \in [StartKinds -> Targets]
    /\ Delta \in [Content -> [Symbols -> Targets]]
    /\ Matching \subseteq Content
    /\ NeedsFlags \subseteq Content
    /\ AnchoredKinds \subseteq StartKinds
    /\ PrefixClasses \subseteq Classes

ASSUME SizeAssumption ==
    /\ StateBudget \in Nat
    /\ Size \in [Content -> Nat \ {0}]
    /\ BailFactor \in Nat
    /\ SizeModulus \in Nat \ {0}
    /\ {ManyMatch, Reversed, BailWhenSlow, SharedReads} \subseteq BOOLEAN

\* The constructor refuses to make a DFA whose budget holds fewer than 20
\* states of the largest size; all the search relies on is room for three.
\* (kManyMatch adds match ids to states; the constructor does not count them.)
ASSUME RoomAssumption ==
    \A a, b, c \in Content : Size[a] + Size[b] + Size[c] <= StateBudget

\* A job is one call of Search: its start kind, the classes of its text in
\* scan order, the byte class after it (EndText at the end of the context),
\* and want_earliest_match.
ASSUME JobAssumption ==
    /\ Jobs # {}
    /\ Jobs \subseteq [kind : StartKinds, text : Seq(Classes), last : Symbols,
                       earliest : BOOLEAN]
    /\ NULL \notin Jobs

\* can_prefix_accel: a start state that waits for no flags waits for the first byte
\* of the required prefix, which is not empty.  Every other byte leads back to it.
ASSUME PrefixAssumption ==
    \A k \in StartKinds \ AnchoredKinds :
        PrefixClasses # {} /\ StartOf[k] \in Content \ NeedsFlags =>
            /\ StartOf[k] \notin Matching
            /\ \A a \in Classes \ PrefixClasses : Delta[StartOf[k]][a] = StartOf[k]

VARIABLES
    readers,        \* cache_mutex_: the threads that hold it for reading
    writer,         \* cache_mutex_: the thread that holds it for writing
    mutex_,         \* the thread that holds mutex_
    state_cache_,   \* the contents of the states in the cache
    next_,          \* next_[c][a]: the arrow of the state with contents c
    start_,         \* start_[k]: the StartInfo of start kind k
    mem_budget_,    \* memory left for states, or -1 once it ran out
    q0_,            \* the scratch work queue: what it was loaded from
    pc, phase,      \* where each thread is in Search, and for which arrow
    job,            \* the arguments of the call
    start, s, ns,   \* the three State* of InlinedSearchLoop
    sym, p,         \* class of the byte being read, bytes consumed
    lastmatch,      \* most recent match position, -1 for NULL
    matches,        \* params->matches
    resetp,         \* p at the last cache reset, -1 for NULL
    retried,        \* the cache was reset since this arrow was first tried
    save_start, save_s,     \* the StateSavers
    answer          \* what the last call returned

locks == <<readers, writer, mutex_>>
graph == <<state_cache_, next_, start_, mem_budget_>>
cursor == <<start, s, sym, p, lastmatch, matches>>
recovery == <<resetp, retried, save_start, save_s>>
call == <<job, answer>>
vars == <<locks, graph, q0_, pc, phase, call, cursor, ns, recovery>>

-----------------------------------------------------------------------------
(* Jobs and the automaton *)

Len_(t) == Len(job[t].text)

\* params->can_prefix_accel: the start state ignores every byte but the
\* first byte of the required prefix.
CanPrefixAccel(t) ==
    /\ PrefixClasses # {}
    /\ job[t].kind \notin AnchoredKinds
    /\ start[t] \notin NeedsFlags

\* prog_->PrefixAccel: the first position that can start the prefix, or the
\* end of the text; a set with this one element.
PrefixAccel(text, from) ==
    {i \in from .. Len(text) :
        /\ i = Len(text) \/ text[i + 1] \in PrefixClasses
        /\ \A k \in from .. i - 1 : text[k + 1] \notin PrefixClasses}

NoAnswer == [failed |-> FALSE, ep |-> -2, matches |-> {}]
Failed == [failed |-> TRUE, ep |-> -1, matches |-> {}]
Found(ep, ids) == [failed |-> FALSE, ep |-> ep, matches |-> ids]

\* Mistake: the ids are collected for callers that passed no set for them.
CollectedAlways(t, c) == IF ManyMatch THEN MatchIds[c] ELSE {}

\* The match ids a matching state adds to params->matches, which is only
\* there when the caller of a many-match search did not ask for the earliest.
Collected(t, c) ==
    IF ManyMatch /\ ~job[t].earliest THEN MatchIds[c] ELSE {}

\* Mistake: the match is not moved back by one byte.
MatchPositionLate(t) == p[t]

\* A match is noticed one byte late: in the loop it ended before the byte just
\* read; after the loop it ends with the text.
MatchPosition(t) == IF phase[t] = "loop" THEN p[t] - 1 ELSE p[t]

\* ep when the search stops at a special state: in Search, for a start state
\* (run_forward == want_earliest_match), and in InlinedSearchLoop.
StartEnd(t, begin) ==
    CASE begin = Dead -> -1
      [] begin = FullMatch /\ job[t].earliest -> 0
      [] begin = FullMatch /\ ~job[t].earliest -> Len_(t)

SpecialEnd(t) == IF ns[t] = Dead THEN lastmatch[t] ELSE Len_(t)

\* Mistake: the byte is not consumed.
AfterByteStays(from) == from

\* c = *p++.
AfterByte(from) == from + 1

-----------------------------------------------------------------------------
(* The state cache, always used with mutex_ held *)

EmptyRow == [a \in Symbols |-> NULL]

\* Mistake: the overhead is not charged.
ChargeWithoutOverhead(c) == mem_budget_ - (Size[c] - 1)

\* What a new state leaves of the budget.
Charge(c) == mem_budget_ - Size[c]

\* Mistake: the budget is not checked.
HasRoomAlways(c) == TRUE


HasRoom(c) == c \in state_cache_ \/ Charge(c) >= 0

\* CachedState: find the state with contents c, or allocate it.
CachedState(c) ==
    IF c \in state_cache_
    THEN UNCHANGED <<state_cache_, next_, mem_budget_>>
    ELSE IF ~HasRoom(c)
    THEN /\ mem_budget_' = -1
         /\ UNCHANGED <<state_cache_, next_>>
    ELSE /\ mem_budget_' = Charge(c)
         /\ state_cache_' = state_cache_ \cup {c}
         /\ next_' = [next_ EXCEPT ![c] = EmptyRow]

CachedPtr(c) == IF HasRoom(c) THEN c ELSE NULL

\* What every raw pointer to a state becomes when the states are deallocated.
Invalidate(f) ==
    [u \in DOMAIN f |-> IF f[u] \in Content THEN Dangling ELSE f[u]]

\* The arrow thread t is about to follow: start_[kind] or s->next_[c].
Arrow(t) ==
    IF phase[t] = "start" THEN start_[job[t].kind] ELSE next_[s[t]][sym[t]]

-----------------------------------------------------------------------------
(* The locks, and the search's way from a shared to an exclusive one *)

\* Mistakes: a reader does not wait for a writer, a writer for readers, a
\* thread for mutex_.
ReaderLockAlwaysFree == TRUE
WriterLockIgnoresReaders == writer = NoThread
MutexAlwaysFree == TRUE


ReaderLockFree == writer = NoThread /\ (SharedReads \/ readers = {})
WriterLockFree == writer = NoThread /\ readers = {}
MutexFree == mutex_ = NoThread

\* Mistake: the cache is reset under the shared lock.
NeverRelock(t) == FALSE

\* LockForWriting does nothing when the lock is already held for writing.
MustRelock(t) == writer # t

\* Mistakes: the start states, the budget are left as they are.
StartKeptAcrossReset == start_
BudgetKeptAcrossReset == mem_budget_

\* What ResetCache makes of start_ and mem_budget_.
StartAfterReset == [k \in StartKinds |-> NULL]
BudgetAfterReset == StateBudget

-----------------------------------------------------------------------------
Init ==
    /\ readers = {} /\ writer = NoThread /\ mutex_ = NoThread
    /\ state_cache_ = {}
    /\ next_ = [c \in Content |-> [a \in Symbols |-> Dangling]]
    /\ start_ = [k \in StartKinds |-> NULL]
    /\ mem_budget_ = StateBudget
    /\ q0_ = NULL
    /\ pc = [t \in Threads |-> "idle"]
    /\ phase = [t \in Threads |-> "start"]
    /\ job = [t \in Threads |-> CHOOSE j \in Jobs : TRUE]
    /\ start = [t \in Threads |-> NULL]
    /\ s = [t \in Threads |-> NULL]
    /\ ns = [t \in Threads |-> NULL]
    /\ sym = [t \in Threads |-> EndText]
    /\ p = [t \in Threads |-> 0]
    /\ lastmatch = [t \in Threads |-> -1]
    /\ matches = [t \in Threads |-> {}]
    /\ resetp = [t \in Threads |-> -1]
    /\ retried = [t \in Threads |-> FALSE]
    /\ save_start = [t \in Threads |-> NULL]
    /\ save_s = [t \in Threads |-> NULL]
    /\ answer = [t \in Threads |-> NoAnswer]

\* DFA::Search is called.
Begin(t, j) ==
    /\ pc[t] = "idle"
    /\ pc' = [pc EXCEPT ![t] = "rlock"]
    /\ job' = [job EXCEPT ![t] = j]
    /\ answer' = [answer EXCEPT ![t] = NoAnswer]
    /\ UNCHANGED <<locks, graph, q0_, phase, cursor, ns, recovery>>

\* RWLocker's constructor.
ReaderLock(t) ==
    /\ pc[t] = "rlock"
    /\ ReaderLockFree
    /\ readers' = readers \cup {t}
    /\ pc' = [pc EXCEPT ![t] = "quick"]
    /\ UNCHANGED <<writer, mutex_, graph, q0_, phase, call, cursor, ns,
                   recovery>>

\* The load of an arrow without any mutex: AnalyzeSearchHelper's quick check,
\* and the loads of s->next_ in InlinedSearchLoop.
QuickCheck(t) ==
    /\ pc[t] = "quick"
    /\ ns' = [ns EXCEPT ![t] = Arrow(t)]
    /\ pc' = [pc EXCEPT ![t] = IF Arrow(t) # NULL THEN "take" ELSE "mutex"]
    /\ UNCHANGED <<locks, graph, q0_, phase, call, cursor, recovery>>

\* MutexLock l(&mutex_) in AnalyzeSearchHelper and RunStateOnByteUnlocked.
LockMutex(t) ==
    /\ pc[t] = "mutex"
    /\ MutexFree
    /\ mutex_' = t
    /\ pc' = [pc EXCEPT ![t] = "recheck"]
    /\ UNCHANGED <<readers, writer, graph, q0_, phase, call, cursor, ns,
                   recovery>>

\* "If someone else already computed this, return it."
Recheck(t) ==
    /\ pc[t] = "recheck"
    /\ Arrow(t) # NULL
    /\ ns' = [ns EXCEPT ![t] = Arrow(t)]
    /\ mutex_' = NoThread
    /\ pc' = [pc EXCEPT ![t] = "take"]
    /\ UNCHANGED <<readers, writer, graph, q0_, phase, call, cursor,
                   recovery>>

\* Otherwise the scratch queue is loaded: with the program's entry point for
\* a start state, with the state's instructions (StateToWorkq) for an arrow.
Expand(t) ==
    /\ pc[t] = "recheck"
    /\ Arrow(t) = NULL
    /\ q0_' = IF phase[t] = "start" THEN job[t].kind ELSE s[t]
    /\ pc' = [pc EXCEPT ![t] = "intern"]
    /\ UNCHANGED <<locks, graph, phase, call, cursor, ns, recovery>>

\* Where the scratch queue leads.
Successor(t) ==
    IF phase[t] = "start" THEN StartOf[q0_] ELSE Delta[q0_][sym[t]]

\* WorkqToCachedState: special states need no memory.
Intern(t) ==
    /\ pc[t] = "intern"
    /\ IF Successor(t) \in Special
       THEN /\ ns' = [ns EXCEPT ![t] = Successor(t)]
            /\ UNCHANGED <<state_cache_, next_, mem_budget_>>
       ELSE /\ ns' = [ns EXCEPT ![t] = CachedPtr(Successor(t))]
            /\ CachedState(Successor(t))
    /\ pc' = [pc EXCEPT ![t] = "publish"]
    /\ UNCHANGED <<locks, start_, q0_, phase, call, cursor, recovery>>

Finish(t, ans) ==
    /\ answer' = [answer EXCEPT ![t] = ans]
    /\ pc' = [pc EXCEPT ![t] = "unlock"]

\* The release store of the new arrow, and the end of the MutexLock.  An
\* arrow is overwritten by NULL when memory ran out, a StartInfo is not.  A
\* second failure for one arrow is the end of the search.  The scratch queue
\* is cleared before every use: what it holds now is dead.
Publish(t) ==
    /\ pc[t] = "publish"
    /\ IF phase[t] = "start"
       THEN /\ start_' = IF ns[t] = NULL THEN start_
                         ELSE [start_ EXCEPT ![job[t].kind] = ns[t]]
            /\ next_' = next_
       ELSE /\ next_' = [next_ EXCEPT ![s[t]][sym[t]] = ns[t]]
            /\ start_' = start_
    /\ mutex_' = NoThread
    /\ q0_' = NULL
    /\ \/ /\ ns[t] # NULL
          /\ pc' = [pc EXCEPT ![t] = "take"]
          /\ answer' = answer
       \/ /\ ns[t] = NULL /\ ~retried[t]
          /\ pc' = [pc EXCEPT ![t] = "oom"]
          /\ answer' = answer
       \/ /\ ns[t] = NULL /\ retried[t]
          /\ Finish(t, Failed)
    /\ UNCHANGED <<readers, writer, state_cache_, mem_budget_, phase, job,
                   cursor, ns, recovery>>

-----------------------------------------------------------------------------
(* Out of memory: give up, or reset the cache and go on *)

\* static_cast<size_t>(p - resetp): in a reversed DFA p is below resetp.
Advance(t) ==
    (IF Reversed THEN resetp[t] - p[t] ELSE p[t] - resetp[t]) % SizeModulus

\* Mistake: searches for a set of regexps bail out too.
TooSlowEvenForSets(t) ==
    /\ phase[t] = "loop"
    /\ BailWhenSlow
    /\ resetp[t] # -1
    /\ Advance(t) < BailFactor * Cardinality(state_cache_)

TooSlow(t) ==
    /\ phase[t] = "loop"
    /\ BailWhenSlow
    /\ resetp[t] # -1
    /\ Advance(t) < BailFactor * Cardinality(state_cache_)
    /\ ~ManyMatch

Bail(t) ==
    /\ pc[t] = "oom"
    /\ TooSlow(t)
    /\ Finish(t, Failed)
    /\ UNCHANGED <<locks, graph, q0_, phase, job, cursor, ns, recovery>>

\* The StateSavers copy what they must, then ResetCache calls LockForWriting,
\* which first lets go of the lock if it is only held for reading.
LockForWriting(t) ==
    /\ pc[t] = "oom"
    /\ ~TooSlow(t)
    /\ resetp' = IF phase[t] = "loop" THEN [resetp EXCEPT ![t] = p[t]]
                 ELSE resetp
    /\ save_start' = IF phase[t] = "loop"
                     THEN [save_start EXCEPT ![t] = start[t]] ELSE save_start
    /\ save_s' = IF phase[t] # "start" THEN [save_s EXCEPT ![t] = s[t]]
                 ELSE save_s
    /\ IF MustRelock(t)
       THEN /\ pc' = [pc EXCEPT ![t] = "wlock"]
            /\ readers' = readers \ {t}
       ELSE /\ pc' = [pc EXCEPT ![t] = "clear"]
            /\ readers' = readers
    /\ UNCHANGED <<writer, mutex_, graph, q0_, phase, call, cursor, ns,
                   retried>>

WriterLock(t) ==
    /\ pc[t] = "wlock"
    /\ WriterLockFree
    /\ writer' = t
    /\ pc' = [pc EXCEPT ![t] = "clear"]
    /\ UNCHANGED <<readers, mutex_, graph, q0_, phase, call, cursor, ns,
                   recovery>>

\* The rest of ResetCache.
ResetCache(t) ==
    /\ pc[t] = "clear"
    /\ start_' = StartAfterReset
    /\ state_cache_' = {}
    /\ next_' = [c \in Content |-> [a \in Symbols |-> Dangling]]
    /\ mem_budget_' = BudgetAfterReset
    /\ start' = Invalidate(start)
    /\ s' = Invalidate(s)
    /\ ns' = Invalidate(ns)
    /\ retried' = [retried EXCEPT ![t] = TRUE]
    /\ pc' = [pc EXCEPT ![t] = CASE phase[t] = "start" -> "quick"
                                 [] phase[t] = "loop" -> "restore_start"
                                 [] phase[t] = "end" -> "restore_s"]
    /\ UNCHANGED <<locks, q0_, phase, call, sym, p, lastmatch, matches,
                   resetp, save_start, save_s>>

\* save_start.Restore() and save_s.Restore(), each under mutex_.
RestoreStart(t) ==
    /\ pc[t] = "restore_start"
    /\ MutexFree
    /\ CachedState(save_start[t])
    /\ start' = [start EXCEPT ![t] = CachedPtr(save_start[t])]
    /\ IF HasRoom(save_start[t])
       THEN /\ pc' = [pc EXCEPT ![t] = "restore_s"]
            /\ answer' = answer
       ELSE Finish(t, Failed)
    /\ UNCHANGED <<locks, start_, q0_, phase, job, s, sym, p, lastmatch,
                   matches, ns, recovery>>

RestoreS(t) ==
    /\ pc[t] = "restore_s"
    /\ MutexFree
    /\ CachedState(save_s[t])
    /\ s' = [s EXCEPT ![t] = CachedPtr(save_s[t])]
    /\ IF HasRoom(save_s[t])
       THEN /\ pc' = [pc EXCEPT ![t] = "mutex"]
            /\ answer' = answer
       ELSE Finish(t, Failed)
    /\ UNCHANGED <<locks, start_, q0_, phase, job, start, sym, p, lastmatch,
                   matches, ns, recovery>>

-----------------------------------------------------------------------------
(* Following an arrow *)

\* AnalyzeSearch and Search once the StartInfo is filled in, and the start
\* of InlinedSearchLoop.  params->start is loaded from the StartInfo again.
TakeStart(t) ==
    LET begin == start_[job[t].kind] IN
    /\ pc[t] = "take" /\ phase[t] = "start"
    /\ retried' = [retried EXCEPT ![t] = FALSE]
    /\ phase' = [phase EXCEPT ![t] = "loop"]
    /\ ns' = [ns EXCEPT ![t] = NULL]
    /\ start' = [start EXCEPT ![t] = begin]
    /\ s' = [s EXCEPT ![t] = begin]
    /\ IF begin \in Matching
       THEN /\ lastmatch' = [lastmatch EXCEPT ![t] = 0]
            /\ matches' = [matches EXCEPT ![t] = Collected(t, begin)]
       ELSE UNCHANGED <<lastmatch, matches>>
    /\ \/ /\ begin \in Special
          /\ Finish(t, Found(StartEnd(t, begin), {}))
       \/ /\ begin \in Matching /\ job[t].earliest
          /\ Finish(t, Found(0, {}))
       \/ /\ begin \in Content /\ ~(begin \in Matching /\ job[t].earliest)
          /\ pc' = [pc EXCEPT ![t] = "fetch"]
          /\ answer' = answer
    /\ UNCHANGED <<locks, graph, q0_, job, sym, p, resetp, save_start,
                   save_s>>

\* The top of the loop: skip ahead if the start state lets us, read a byte.
Fetch(t) ==
    /\ pc[t] = "fetch"
    /\ \E from \in IF CanPrefixAccel(t) /\ s[t] = start[t]
                   THEN PrefixAccel(job[t].text, p[t]) ELSE {p[t]} :
        \/ /\ from = Len_(t)
           /\ phase' = [phase EXCEPT ![t] = "end"]
           /\ p' = [p EXCEPT ![t] = from]
           /\ sym' = [sym EXCEPT ![t] = job[t].last]
        \/ /\ from # Len_(t)
           /\ phase' = phase
           /\ p' = [p EXCEPT ![t] = AfterByte(from)]
           /\ sym' = [sym EXCEPT ![t] = job[t].text[from + 1]]
    /\ pc' = [pc EXCEPT ![t] = "quick"]
    /\ UNCHANGED <<locks, graph, q0_, call, start, s, lastmatch, matches, ns,
                   recovery>>

\* ns is a special state, in the loop or after it.
TakeSpecial(t) ==
    /\ pc[t] = "take" /\ phase[t] # "start"
    /\ ns[t] \in Special
    /\ retried' = [retried EXCEPT ![t] = FALSE]
    /\ Finish(t, Found(SpecialEnd(t), matches[t]))
    /\ UNCHANGED <<locks, graph, q0_, phase, job, cursor, ns, resetp,
                   save_start, save_s>>

\* s = ns.
TakeState(t) ==
    LET c == ns[t]
        ids == matches[t] \cup Collected(t, c)
    IN
    /\ pc[t] = "take" /\ phase[t] # "start"
    /\ c \notin Special
    /\ retried' = [retried EXCEPT ![t] = FALSE]
    /\ s' = [s EXCEPT ![t] = c]
    /\ ns' = [ns EXCEPT ![t] = NULL]
    /\ IF c \in Matching
       THEN /\ lastmatch' = [lastmatch EXCEPT ![t] = MatchPosition(t)]
            /\ matches' = [matches EXCEPT ![t] = ids]
       ELSE UNCHANGED <<lastmatch, matches>>
    /\ IF phase[t] = "end" \/ (c \in Matching /\ job[t].earliest)
       THEN Finish(t, Found(lastmatch'[t], matches'[t]))
       ELSE /\ pc' = [pc EXCEPT ![t] = "fetch"]
            /\ answer' = answer
    /\ UNCHANGED <<locks, graph, q0_, phase, job, start, sym, p, resetp,
                   save_start, save_s>>

\* RWLocker's destructor; Search returns, its locals are gone.
Unlock(t) ==
    /\ pc[t] = "unlock"
    /\ writer' = IF writer = t THEN NoThread ELSE writer
    /\ readers' = readers \ {t}
    /\ pc' = [pc EXCEPT ![t] = "idle"]
    /\ phase' = [phase EXCEPT ![t] = "start"]
    /\ start' = [start EXCEPT ![t] = NULL]
    /\ s' = [s EXCEPT ![t] = NULL]
    /\ ns' = [ns EXCEPT ![t] = NULL]
    /\ sym' = [sym EXCEPT ![t] = EndText]
    /\ p' = [p EXCEPT ![t] = 0]
    /\ lastmatch' = [lastmatch EXCEPT ![t] = -1]
    /\ matches' = [matches EXCEPT ![t] = {}]
    /\ resetp' = [resetp EXCEPT ![t] = -1]
    /\ retried' = [retried EXCEPT ![t] = FALSE]
    /\ save_start' = [save_start EXCEPT ![t] = NULL]
    /\ save_s' = [save_s EXCEPT ![t] = NULL]
    /\ UNCHANGED <<mutex_, graph, q0_, call>>

-----------------------------------------------------------------------------
Step(t) ==
    \/ ReaderLock(t)
    \/ QuickCheck(t)
    \/ LockMutex(t)
    \/ Recheck(t)
    \/ Expand(t)
    \/ Intern(t)
    \/ Publish(t)
    \/ Bail(t)
    \/ LockForWriting(t)
    \/ WriterLock(t)
    \/ ResetCache(t)
    \/ RestoreStart(t)
    \/ RestoreS(t)
    \/ TakeStart(t)
    \/ Fetch(t)
    \/ TakeSpecial(t)
    \/ TakeState(t)
    \/ Unlock(t)

Next == \E t \in Threads : Step(t) \/ \E j \in Jobs : Begin(t, j)

Spec == Init /\ [][Next]_vars

-----------------------------------------------------------------------------
(* What a search must return *)

\* The states the automaton passes through on a job's text and the byte after
\* it; a special state is never left.
Run(j) ==
    LET symbols == Append(j.text, j.last)
        run[i \in 0 .. Len(symbols)] ==
            IF i = 0 THEN StartOf[j.kind]
            ELSE IF run[i - 1] \in Special THEN run[i - 1]
            ELSE Delta[run[i - 1]][symbols[i]]
    IN  run

\* The i-th state of a run reports a match that ended before the i-th byte.
MatchEnd(i) == IF i = 0 THEN 0 ELSE i - 1

\* Search's answer when it does not give up: the earliest match asked for is
\* the first one reported, another one the last; a run that becomes a full
\* match ends with the text.
Expected(j) ==
    LET run == Run(j)
        reports == {i \in DOMAIN run : run[i] \in Matching}
        ends == {MatchEnd(i) : i \in reports}
        full == \E i \in DOMAIN run : run[i] = FullMatch
        ep == CASE j.earliest /\ ends # {} -> Min(ends)
                [] j.earliest /\ run[0] = FullMatch -> 0
                [] full /\ ~(j.earliest /\ (ends # {} \/ run[0] = FullMatch))
                     -> Len(j.text)
                [] ends = {} /\ ~full -> -1
                [] OTHER -> Max(ends)
        ids == IF ManyMatch /\ ~j.earliest
               THEN UNION {MatchIds[run[i]] : i \in reports} ELSE {}
    IN  Found(ep, ids)

ExpectedOf == [j \in Jobs |-> Expected(j)]

-----------------------------------------------------------------------------
(* Invariants *)

PCs == {"idle", "rlock", "quick", "mutex", "recheck", "intern", "publish",
        "take", "fetch", "oom", "wlock", "clear", "restore_start",
        "restore_s", "unlock"}

\* Every variable has its type.
TypeOK ==
    /\ readers \subseteq Threads
    /\ writer \in Threads \cup {NoThread}
    /\ mutex_ \in Threads \cup {NoThread}
    /\ state_cache_ \subseteq Content
    /\ next_ \in [Content -> [Symbols -> Pointers]]
    /\ start_ \in [StartKinds -> Pointers]
    /\ mem_budget_ \in -1 .. StateBudget
    /\ q0_ \in Content \cup StartKinds \cup {NULL}
    /\ pc \in [Threads -> PCs]
    /\ phase \in [Threads -> {"start", "loop", "end"}]
    /\ job \in [Threads -> Jobs]
    /\ start \in [Threads -> Pointers]
    /\ s \in [Threads -> Pointers]
    /\ ns \in [Threads -> Pointers]
    /\ sym \in [Threads -> Symbols]
    /\ p \in [Threads -> Nat]
    /\ lastmatch \in [Threads -> Int]
    /\ resetp \in [Threads -> Int]
    /\ retried \in [Threads -> BOOLEAN]
    /\ save_start \in [Threads -> Pointers]
    /\ save_s \in [Threads -> Pointers]

Holds(t) == t \in readers \/ writer = t

\* Where a thread has let go of cache_mutex_ or has not taken it yet.
Outside == {"idle", "rlock", "wlock"}

\* The lock discipline written beside the declarations (L >= mutex_,
\* cache_mutex_.r <= L < mutex_): a writer is alone, whoever holds mutex_
\* holds cache_mutex_ too, a thread holds each lock exactly where the code
\* relies on it, and the cache is only discarded with mutex_ free.
LockDiscipline ==
    /\ writer # NoThread => readers = {}
    /\ \A t \in Threads :
          /\ Holds(t) <=> pc[t] \notin Outside
          /\ mutex_ = t <=> pc[t] \in {"recheck", "intern", "publish"}
          /\ pc[t] \in {"clear", "restore_start", "restore_s"} => writer = t

Live(ptr) == ptr \in state_cache_ \cup Special

\* The locals a search still relies on: start only in the loop, and neither
\* start nor s between giving up the graph and restoring them.
UsesStart(t) ==
    /\ phase[t] = "loop"
    /\ pc[t] \notin Outside \cup {"clear", "restore_start", "unlock"}

UsesState(t) ==
    /\ phase[t] # "start"
    /\ pc[t] \notin Outside \cup {"clear", "restore_start", "restore_s",
                                  "unlock"}

StartsLive == \A k \in StartKinds : start_[k] = NULL \/ Live(start_[k])

ArrowsLive ==
    \A c \in state_cache_, a \in Symbols :
        next_[c][a] = NULL \/ Live(next_[c][a])

LocalsLive(t) ==
    /\ UsesStart(t) => start[t] \in state_cache_
    /\ UsesState(t) => s[t] \in state_cache_
    /\ pc[t] = "take" => Live(ns[t])

\* No State* that code will still use refers to a deallocated state: not in
\* start_, not in an arrow of a cached state, and not in the locals of a
\* search that holds cache_mutex_, but for those it is about to restore
\* ("Any State* pointers are only valid while cache_mutex_ is held").
NoDanglingPointers ==
    /\ StartsLive
    /\ ArrowsLive
    /\ \A t \in Threads : LocalsLive(t)

\* Every published arrow leads where the automaton says, although threads
\* share one pair of scratch queues to compute it: the graph the searches
\* walk without a lock is a part of the automaton.
GraphSound ==
    /\ \A k \in StartKinds : start_[k] \in {NULL, StartOf[k]}
    /\ \A c \in state_cache_, a \in Symbols :
          next_[c][a] \in {NULL, Delta[c][a]}

\* The bytes that states are charged for, and how many they are.
Bytes(cs) == UNION {{c} \X (1 .. Size[c]) : c \in cs}
Charged(cs) == Cardinality(Bytes(cs))

\* The budget is exactly what the states in the cache leave of it until it
\* runs out, and the states in the cache never exceed it.
BudgetAccounted ==
    /\ mem_budget_ # -1 => mem_budget_ + Charged(state_cache_) = StateBudget
    /\ Charged(state_cache_) <= StateBudget

-----------------------------------------------------------------------------
(* Steps *)

\* A search gives up only where InlinedSearchLoop bails out because it is too
\* slow, never because a StateSaver or the retry after a reset found no room,
\* and never for a set of regexps, which has no other engine to fall back on.
FailsOnlyWhenSlow ==
    [][\A t \in Threads :
          answer'[t].failed /\ ~answer[t].failed =>
              TooSlow(t) /\ ~ManyMatch]_vars

\* A step that deallocates a state is taken by a thread that is alone.
DeallocatesAlone ==
    ~(state_cache_ \subseteq state_cache_') =>
        /\ writer # NoThread /\ readers = {} /\ mutex_ = NoThread
        /\ \A t \in Threads : t # writer => pc[t] \in Outside

\* States are deallocated only while no other thread holds cache_mutex_ and
\* nobody is inside mutex_.
ResetsExclusive == [][DeallocatesAlone]_vars

\* dfa_should_bail_when_slow: "Unless we're processing an average of 10 bytes
\* per state computation, fail so that RE2 can fall back to the NFA."  A
\* search that is alone, has filled the cache since its last reset and has
\* consumed too few bytes for that does not reset the cache once more.
BailsWhenSlow ==
    [][\A t \in Threads :
          /\ pc[t] = "oom" /\ pc'[t] # "oom"
          /\ phase[t] = "loop" /\ resetp[t] # -1
          /\ BailWhenSlow /\ ~ManyMatch
          /\ p[t] - resetp[t] < BailFactor * Cardinality(state_cache_)
          => answer'[t].failed]_vars

-----------------------------------------------------------------------------
(* The searches implement DFASearch *)

Search == INSTANCE DFASearch WITH
    Answer <- ExpectedOf,
    NoJob <- NULL,
    MayFail <- BailWhenSlow /\ ~ManyMatch,
    asked <- [t \in Threads |-> IF pc[t] = "idle" THEN NULL ELSE job[t]],
    reply <- [t \in Threads |-> IF pc[t] = "idle" THEN answer[t]
                                ELSE NoAnswer]

\* Threads are scheduled: one that can take its next step eventually does.
\* Calls stop coming: a reader-writer lock (pthread_rwlock_t, SRWLOCK) may let
\* a stream of readers starve a writer, so nothing more can be promised.
Fairness ==
    /\ \A t \in Threads : WF_vars(Step(t))
    /\ <>[][\A t \in Threads : pc[t] = "idle" => pc'[t] = "idle"]_vars

LiveSpec == Spec /\ Fairness

\* Searches of many threads, through the shared cache, locks and resets, look
\* to their callers like single steps of DFASearch, and each one returns.
ImplementsSearch == Search!Spec

=============================================================================
