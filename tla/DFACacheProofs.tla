--------------------------- MODULE DFACacheProofs ---------------------------
(***************************************************************************)
(* Proofs about DFACache, for any number of threads, any automaton, any    *)
(* budget and any stream of calls: first its invariants, then that it      *)
(* implements DFASearch.                                                   *)
(***************************************************************************)
EXTENDS DFACache, OrderLemmas, FiniteSetTheorems, SequenceTheorems, TLAPS

USE DEF PCs, Symbols

\* Where the arrow thread t is computing leads.
Goal(t) == IF phase[t] = "start" THEN StartOf[job[t].kind]
           ELSE Delta[s[t]][sym[t]]

\* What holds of a thread's own variables at each of its program counters.
Local(t) ==
    /\ p[t] \in 0 .. Len(job[t].text)
    /\ phase[t] = "start" => p[t] = 0
    /\ pc[t] \in {"idle", "rlock"} => phase[t] = "start"
    /\ pc[t] \in {"fetch", "restore_start"} => phase[t] = "loop"
    /\ pc[t] = "restore_s" => phase[t] # "start"
    /\ pc[t] = "intern" =>
          q0_ = IF phase[t] = "start" THEN job[t].kind ELSE s[t]
    /\ pc[t] = "publish" => ns[t] \in {NULL, Goal(t)}
    /\ pc[t] = "publish" => ns[t] = NULL \/ Live(ns[t])
    /\ pc[t] = "take" /\ phase[t] = "start" => start_[job[t].kind] # NULL
    /\ pc[t] \in {"wlock", "clear", "restore_start"} /\ phase[t] = "loop"
          => save_start[t] \in Content
    /\ pc[t] \in {"wlock", "clear", "restore_start", "restore_s"}
          /\ phase[t] # "start" => save_s[t] \in Content

\* The inductive invariant: the invariants of DFACache together with Local.
IInv ==
    /\ TypeOK
    /\ LockDiscipline
    /\ NoDanglingPointers
    /\ GraphSound
    /\ \A t \in Threads : Local(t)

-----------------------------------------------------------------------------
(* Facts about the constants and the frame of a step *)

\* What the assumption about the calls says of one of them.
LEMMA JobFacts ==
    ASSUME NEW j \in Jobs
    PROVE  /\ j.kind \in StartKinds
           /\ j.last \in Symbols
           /\ Len(j.text) \in Nat
           /\ \A i \in 1 .. Len(j.text) : j.text[i] \in Symbols
  <1>1. j \in [kind : StartKinds, text : Seq(Classes), last : Symbols,
               earliest : BOOLEAN]
    BY JobAssumption
  <1>2. j.text \in Seq(Classes)
    BY <1>1
  <1> QED
    BY <1>1, <1>2

\* The variables of every thread but t are as they were.
Frame(t) ==
    \A u \in Threads \ {t} :
        /\ pc'[u] = pc[u] /\ phase'[u] = phase[u] /\ job'[u] = job[u]
        /\ start'[u] = start[u] /\ s'[u] = s[u] /\ ns'[u] = ns[u]
        /\ sym'[u] = sym[u] /\ p'[u] = p[u]
        /\ save_start'[u] = save_start[u] /\ save_s'[u] = save_s[u]

\* A step that leaves what the other threads rely on leaves them as they were:
\* states stay in the cache, filled in start states stay filled in, and the
\* scratch queue is only touched with mutex_ held.
LEMMA OthersKept ==
    ASSUME IInv, NEW t \in Threads, Frame(t),
           state_cache_ \subseteq state_cache_',
           \A k \in StartKinds : start_[k] # NULL => start_'[k] = start_[k],
           q0_' = q0_ \/ mutex_ = t
    PROVE  \A u \in Threads \ {t} : Local(u)' /\ LocalsLive(u)'
  <1> SUFFICES ASSUME NEW u \in Threads \ {t}
               PROVE  Local(u)' /\ LocalsLive(u)'
    OBVIOUS
  <1> USE DEF IInv, Frame
  <1>1. LocalsLive(u)'
    BY DEF NoDanglingPointers, LocalsLive, UsesStart, UsesState, Live
  <1>2. job[u].kind \in StartKinds
    BY JobFacts DEF TypeOK
  <1>3. Goal(u)' = Goal(u)
    BY DEF Goal
  <1>4. pc[u] = "intern" => q0_' = q0_
    BY DEF LockDiscipline
  <1>5. Local(u)'
    <2>1. Local(u)
      OBVIOUS
    <2> QED
      BY <2>1, <1>2, <1>3, <1>4 DEF Local, Live
  <1> QED
    BY <1>1, <1>5

\* An arrow about to be followed is NULL or leads, live, where it should.
LEMMA ArrowFacts ==
    ASSUME IInv, NEW t \in Threads, pc[t] \in {"quick", "recheck"}
    PROVE  /\ phase[t] # "start" => s[t] \in state_cache_
           /\ Arrow(t) \in Pointers
           /\ Arrow(t) \in {NULL, Goal(t)}
           /\ Arrow(t) = NULL \/ Live(Arrow(t))
  <1> USE DEF IInv
  <1>1. phase[t] # "start" => s[t] \in state_cache_
    BY DEF NoDanglingPointers, LocalsLive, UsesState, Outside
  <1>2. /\ job[t].kind \in StartKinds
        /\ sym[t] \in Symbols
        /\ state_cache_ \subseteq Content
    BY JobFacts DEF TypeOK
  <1>3. CASE phase[t] = "start"
    BY <1>2, <1>3 DEF Arrow, Goal, TypeOK, GraphSound, NoDanglingPointers,
                      StartsLive
  <1>4. CASE phase[t] # "start"
    BY <1>1, <1>2, <1>4 DEF Arrow, Goal, TypeOK, GraphSound,
                            NoDanglingPointers, ArrowsLive
  <1> QED
    BY <1>3, <1>4

\* Where arrows lead are states or special states.
LEMMA GoalFacts ==
    ASSUME IInv, NEW t \in Threads,
           phase[t] # "start" => s[t] \in Content
    PROVE  Goal(t) \in Targets
  <1>1. job[t].kind \in StartKinds /\ sym[t] \in Symbols
    BY JobFacts DEF IInv, TypeOK
  <1> QED
    BY <1>1, AutomatonAssumption DEF Goal

\* CachedState keeps the states there are with their arrows, and a state it
\* returns is in the cache, without arrows if it is new.
LEMMA CachedStateFacts ==
    ASSUME IInv, NEW c \in Content, CachedState(c)
    PROVE  /\ state_cache_' \subseteq Content
           /\ state_cache_ \subseteq state_cache_'
           /\ mem_budget_' \in -1 .. StateBudget
           /\ next_' \in [Content -> [Symbols -> Pointers]]
           /\ \A d \in state_cache_', a \in Symbols :
                 \/ next_'[d][a] = NULL
                 \/ d \in state_cache_ /\ next_'[d][a] = next_[d][a]
           /\ CachedPtr(c) \in Pointers
           /\ CachedPtr(c) = NULL \/ (CachedPtr(c) = c /\ c \in state_cache_')
  <1> USE DEF CachedState, CachedPtr
  <1>1. /\ state_cache_ \subseteq Content
        /\ mem_budget_ \in -1 .. StateBudget
        /\ next_ \in [Content -> [Symbols -> Pointers]]
    BY DEF IInv, TypeOK
  <1>2. EmptyRow \in [Symbols -> Pointers]
    BY DEF EmptyRow, Pointers
  <1>3. CASE c \in state_cache_
    BY <1>1, <1>3 DEF HasRoom, Pointers, Targets
  <1>4. CASE c \notin state_cache_ /\ ~HasRoom(c)
    <2>1. mem_budget_' = -1 /\ state_cache_' = state_cache_ /\ next_' = next_
      BY <1>4
    <2>2. CachedPtr(c) = NULL
      BY <1>4
    <2>3. -1 \in -1 .. StateBudget
      BY SizeAssumption
    <2> QED
      BY <1>1, <2>1, <2>2, <2>3 DEF Pointers
  <1>5. CASE c \notin state_cache_ /\ HasRoom(c)
    <2>1. Charge(c) \in 0 .. StateBudget
      BY <1>1, <1>5, SizeAssumption DEF HasRoom, Charge
    <2>2. /\ mem_budget_' = Charge(c)
          /\ state_cache_' = state_cache_ \cup {c}
          /\ next_' = [next_ EXCEPT ![c] = EmptyRow]
      BY <1>5 DEF HasRoom
    <2>3. \A a \in Symbols : next_'[c][a] = NULL
      BY <2>2, <1>1 DEF EmptyRow
    <2>4. \A d \in state_cache_ : next_'[d] = next_[d]
      BY <2>2, <1>1, <1>5
    <2> QED
      BY <2>1, <2>2, <2>3, <2>4, <1>1, <1>2, <1>5 DEF Pointers, Targets
  <1> QED
    BY <1>3, <1>4, <1>5

-----------------------------------------------------------------------------
\* The initial state satisfies it.
LEMMA InitIInv == Init => IInv
  <1> SUFFICES ASSUME Init PROVE IInv
    OBVIOUS
  <1> USE DEF Init
  <1>j. (CHOOSE j \in Jobs : TRUE) \in Jobs
    BY JobAssumption
  <1>l. \A j \in Jobs : Len(j.text) \in Nat
    BY JobFacts
  <1>1. TypeOK
    BY <1>j, SizeAssumption DEF TypeOK, Pointers
  <1>2. LockDiscipline
    BY NamesAssumption DEF LockDiscipline, Holds, Outside
  <1>3. NoDanglingPointers
    BY DEF NoDanglingPointers, StartsLive, ArrowsLive, LocalsLive, UsesStart,
           UsesState, Outside
  <1>4. GraphSound
    BY DEF GraphSound
  <1>5. \A t \in Threads : Local(t)
    BY <1>j, <1>l DEF Local, Outside
  <1> QED
    BY <1>1, <1>2, <1>3, <1>4, <1>5 DEF IInv

LEMMA ReaderLockIInv == ASSUME IInv, NEW t \in Threads, ReaderLock(t) PROVE IInv'
  <1> USE DEF ReaderLock, locks, graph, cursor, recovery, call, ReaderLockFree
  <1>1. TypeOK'
    BY NamesAssumption, SizeAssumption DEF IInv, TypeOK, Pointers, Targets
  <1>2. LockDiscipline'
    BY NamesAssumption DEF IInv, LockDiscipline, Holds, Outside, TypeOK
  <1>3. StartsLive' /\ ArrowsLive'
    BY DEF IInv, TypeOK, NoDanglingPointers, StartsLive, ArrowsLive, Live
  <1>4. GraphSound'
    BY DEF IInv, TypeOK, GraphSound
  <1>5. Frame(t)
    BY DEF Frame, IInv, TypeOK
  <1>6. \A u \in Threads \ {t} : Local(u)' /\ LocalsLive(u)'
    BY <1>5, OthersKept
  <1>7. Local(t)'
    BY ArrowFacts, JobFacts DEF IInv, Local, TypeOK, Goal, Live
  <1>8. LocalsLive(t)'
    BY NamesAssumption DEF IInv, TypeOK, NoDanglingPointers, LocalsLive, UsesStart, UsesState, Outside, Local, Live
  <1> QED
    BY <1>1, <1>2, <1>3, <1>4, <1>6, <1>7, <1>8 DEF IInv, NoDanglingPointers

LEMMA QuickCheckIInv == ASSUME IInv, NEW t \in Threads, QuickCheck(t) PROVE IInv'
  <1> USE DEF QuickCheck, locks, graph, cursor, recovery, call
  <1>a. /\ phase[t] # "start" => s[t] \in state_cache_ /\ s[t] \in Content
        /\ Arrow(t) \in Pointers
        /\ Arrow(t) \in {NULL, Goal(t)}
        /\ Arrow(t) = NULL \/ Live(Arrow(t))
        /\ job[t].kind \in StartKinds
    BY ArrowFacts, JobFacts DEF IInv, TypeOK
  <1>1. TypeOK'
    BY <1>a, SizeAssumption DEF IInv, TypeOK, Pointers, Targets
  <1>2. LockDiscipline'
    BY NamesAssumption DEF IInv, LockDiscipline, Holds, Outside, TypeOK
  <1>3. StartsLive' /\ ArrowsLive'
    BY DEF IInv, TypeOK, NoDanglingPointers, StartsLive, ArrowsLive, Live
  <1>4. GraphSound'
    BY DEF IInv, TypeOK, GraphSound
  <1>5. Frame(t)
    BY DEF Frame, IInv, TypeOK
  <1>6. \A u \in Threads \ {t} : Local(u)' /\ LocalsLive(u)'
    BY <1>5, OthersKept
  <1>7. Local(t)'
    BY <1>a DEF IInv, Local, TypeOK, Goal, Live, Arrow
  <1>8. LocalsLive(t)'
    BY <1>a, NamesAssumption DEF IInv, TypeOK, NoDanglingPointers, LocalsLive, UsesStart, UsesState, Outside, Local, Live
  <1> QED
    BY <1>1, <1>2, <1>3, <1>4, <1>6, <1>7, <1>8 DEF IInv, NoDanglingPointers

LEMMA LockMutexIInv == ASSUME IInv, NEW t \in Threads, LockMutex(t) PROVE IInv'
  <1> USE DEF LockMutex, locks, graph, cursor, recovery, call, MutexFree
  <1>1. TypeOK'
    BY NamesAssumption, SizeAssumption DEF IInv, TypeOK, Pointers, Targets
  <1>2. LockDiscipline'
    BY NamesAssumption DEF IInv, LockDiscipline, Holds, Outside, TypeOK
  <1>3. StartsLive' /\ ArrowsLive'
    BY DEF IInv, TypeOK, NoDanglingPointers, StartsLive, ArrowsLive, Live
  <1>4. GraphSound'
    BY DEF IInv, TypeOK, GraphSound
  <1>5. Frame(t)
    BY DEF Frame, IInv, TypeOK
  <1>6. \A u \in Threads \ {t} : Local(u)' /\ LocalsLive(u)'
    BY <1>5, OthersKept
  <1>7. Local(t)'
    BY ArrowFacts, JobFacts DEF IInv, Local, TypeOK, Goal, Live
  <1>8. LocalsLive(t)'
    BY NamesAssumption DEF IInv, TypeOK, NoDanglingPointers, LocalsLive, UsesStart, UsesState, Outside, Local, Live
  <1> QED
    BY <1>1, <1>2, <1>3, <1>4, <1>6, <1>7, <1>8 DEF IInv, NoDanglingPointers

LEMMA RecheckIInv == ASSUME IInv, NEW t \in Threads, Recheck(t) PROVE IInv'
  <1> USE DEF Recheck, locks, graph, cursor, recovery, call
  <1>a. /\ phase[t] # "start" => s[t] \in state_cache_ /\ s[t] \in Content
        /\ Arrow(t) \in Pointers
        /\ Arrow(t) \in {NULL, Goal(t)}
        /\ Arrow(t) = NULL \/ Live(Arrow(t))
        /\ job[t].kind \in StartKinds
    BY ArrowFacts, JobFacts DEF IInv, TypeOK
  <1>1. TypeOK'
    BY <1>a, SizeAssumption DEF IInv, TypeOK, Pointers, Targets
  <1>2. LockDiscipline'
    BY NamesAssumption DEF IInv, LockDiscipline, Holds, Outside, TypeOK
  <1>3. StartsLive' /\ ArrowsLive'
    BY DEF IInv, TypeOK, NoDanglingPointers, StartsLive, ArrowsLive, Live
  <1>4. GraphSound'
    BY DEF IInv, TypeOK, GraphSound
  <1>5. Frame(t)
    BY DEF Frame, IInv, TypeOK
  <1>6. \A u \in Threads \ {t} : Local(u)' /\ LocalsLive(u)'
    BY <1>5, OthersKept
  <1>7. Local(t)'
    BY <1>a DEF IInv, Local, TypeOK, Goal, Live, Arrow
  <1>8. LocalsLive(t)'
    BY <1>a, NamesAssumption DEF IInv, TypeOK, NoDanglingPointers, LocalsLive, UsesStart, UsesState, Outside, Local, Live
  <1> QED
    BY <1>1, <1>2, <1>3, <1>4, <1>6, <1>7, <1>8 DEF IInv, NoDanglingPointers

LEMMA ExpandIInv == ASSUME IInv, NEW t \in Threads, Expand(t) PROVE IInv'
  <1> USE DEF Expand, locks, graph, cursor, recovery, call
  <1>a. /\ phase[t] # "start" => s[t] \in state_cache_ /\ s[t] \in Content
        /\ Arrow(t) \in Pointers
        /\ Arrow(t) \in {NULL, Goal(t)}
        /\ Arrow(t) = NULL \/ Live(Arrow(t))
        /\ job[t].kind \in StartKinds
    BY ArrowFacts, JobFacts DEF IInv, TypeOK
  <1>1. TypeOK'
    BY <1>a, SizeAssumption DEF IInv, TypeOK, Pointers, Targets
  <1>2. LockDiscipline'
    BY NamesAssumption DEF IInv, LockDiscipline, Holds, Outside, TypeOK
  <1>3. StartsLive' /\ ArrowsLive'
    BY DEF IInv, TypeOK, NoDanglingPointers, StartsLive, ArrowsLive, Live
  <1>4. GraphSound'
    BY DEF IInv, TypeOK, GraphSound
  <1>5. Frame(t)
    BY DEF Frame, IInv, TypeOK
  <1>6. \A u \in Threads \ {t} : Local(u)' /\ LocalsLive(u)'
    <2>1. mutex_ = t
      BY DEF IInv, LockDiscipline
    <2> QED
      BY <2>1, <1>5, OthersKept
  <1>7. Local(t)'
    BY ArrowFacts, JobFacts DEF IInv, Local, TypeOK, Goal, Live
  <1>8. LocalsLive(t)'
    BY <1>a, NamesAssumption DEF IInv, TypeOK, NoDanglingPointers, LocalsLive, UsesStart, UsesState, Outside, Local, Live
  <1> QED
    BY <1>1, <1>2, <1>3, <1>4, <1>6, <1>7, <1>8 DEF IInv, NoDanglingPointers

LEMMA InternIInv == ASSUME IInv, NEW t \in Threads, Intern(t) PROVE IInv'
  <1> USE DEF Intern, locks, graph, cursor, recovery, call
  <1>a. job[t].kind \in StartKinds /\ sym[t] \in Symbols
    BY JobFacts DEF IInv, TypeOK
  <1>b. phase[t] # "start" => s[t] \in state_cache_ /\ s[t] \in Content
    BY DEF IInv, TypeOK, NoDanglingPointers, LocalsLive, UsesState, Outside
  <1>c. Successor(t) = Goal(t)
    BY DEF IInv, Local, Successor, Goal
  <1>d. Goal(t) \in Targets
    BY <1>b, GoalFacts
  <1>e. \/ /\ Goal(t) \in Special
           /\ ns' = [ns EXCEPT ![t] = Goal(t)]
           /\ UNCHANGED <<state_cache_, next_, mem_budget_>>
        \/ /\ Goal(t) \in Content
           /\ ns' = [ns EXCEPT ![t] = CachedPtr(Goal(t))]
           /\ CachedState(Goal(t))
    BY <1>c, <1>d DEF Targets
  <1>f. /\ state_cache_' \subseteq Content
        /\ state_cache_ \subseteq state_cache_'
        /\ mem_budget_' \in -1 .. StateBudget
        /\ next_' \in [Content -> [Symbols -> Pointers]]
        /\ \A d \in state_cache_', a \in Symbols :
              \/ next_'[d][a] = NULL
              \/ d \in state_cache_ /\ next_'[d][a] = next_[d][a]
        /\ ns'[t] \in {NULL, Goal(t)}
        /\ ns'[t] = NULL \/ ns'[t] \in state_cache_' \cup Special
        /\ ns' \in [Threads -> Pointers]
    <2>1. CASE Goal(t) \in Special /\ UNCHANGED <<state_cache_, next_, mem_budget_>>
               /\ ns' = [ns EXCEPT ![t] = Goal(t)]
      BY <2>1 DEF IInv, TypeOK, Pointers, Targets
    <2>2. CASE Goal(t) \in Content /\ CachedState(Goal(t))
               /\ ns' = [ns EXCEPT ![t] = CachedPtr(Goal(t))]
      BY <2>2, CachedStateFacts DEF IInv, TypeOK
    <2> QED
      BY <1>e, <2>1, <2>2
  <1>1. TypeOK'
    BY <1>f, SizeAssumption DEF IInv, TypeOK, Pointers, Targets
  <1>2. LockDiscipline'
    BY NamesAssumption DEF IInv, LockDiscipline, Holds, Outside, TypeOK
  <1>3. StartsLive' /\ ArrowsLive'
    BY <1>f DEF IInv, TypeOK, NoDanglingPointers, StartsLive, ArrowsLive, Live
  <1>4. GraphSound'
    BY <1>f DEF IInv, GraphSound
  <1>5. Frame(t)
    BY DEF Frame, IInv, TypeOK
  <1>6. \A u \in Threads \ {t} : Local(u)' /\ LocalsLive(u)'
    BY <1>f, <1>5, OthersKept
  <1>7. Local(t)'
    BY <1>a, <1>f DEF IInv, Local, TypeOK, Goal, Live
  <1>8. LocalsLive(t)'
    BY <1>f, NamesAssumption DEF IInv, TypeOK, NoDanglingPointers, LocalsLive, UsesStart, UsesState, Outside, Local, Live
  <1> QED
    BY <1>1, <1>2, <1>3, <1>4, <1>6, <1>7, <1>8 DEF IInv, NoDanglingPointers

LEMMA PublishIInv == ASSUME IInv, NEW t \in Threads, Publish(t) PROVE IInv'
  <1> USE DEF Publish, locks, graph, cursor, recovery, call, Finish
  <1>a. /\ phase[t] # "start" => s[t] \in state_cache_ /\ s[t] \in Content
        /\ job[t].kind \in StartKinds
        /\ sym[t] \in Symbols
        /\ ns[t] \in Pointers
        /\ ns[t] \in {NULL, Goal(t)}
        /\ ns[t] = NULL \/ Live(ns[t])
    BY JobFacts DEF IInv, TypeOK, Local, NoDanglingPointers, LocalsLive, UsesState, Outside
  <1>b. /\ start_' \in [StartKinds -> Pointers]
        /\ next_' \in [Content -> [Symbols -> Pointers]]
        /\ \A k \in StartKinds :
              \/ start_'[k] = start_[k]
              \/ phase[t] = "start" /\ k = job[t].kind /\ start_'[k] = ns[t] /\ ns[t] # NULL
        /\ \A c \in Content, a \in Symbols :
              \/ next_'[c][a] = next_[c][a]
              \/ phase[t] # "start" /\ c = s[t] /\ a = sym[t] /\ next_'[c][a] = ns[t]
        /\ ns[t] # NULL /\ phase[t] = "start" => start_'[job[t].kind] = ns[t]
    <2>1. /\ start_ \in [StartKinds -> Pointers]
          /\ next_ \in [Content -> [Symbols -> Pointers]]
      BY DEF IInv, TypeOK
    <2>2. CASE phase[t] = "start"
      BY <1>a, <2>1, <2>2
    <2>3. CASE phase[t] # "start"
      <3>1. start_' = start_ /\ next_' = [next_ EXCEPT ![s[t]][sym[t]] = ns[t]]
        BY <2>3
      <3> QED
        BY <1>a, <2>1, <2>3, <3>1
    <2> QED
      BY <2>2, <2>3
  <1>1. TypeOK'
    BY <1>a, <1>b, SizeAssumption DEF IInv, TypeOK, Pointers, Targets
  <1>2. LockDiscipline'
    BY NamesAssumption DEF IInv, LockDiscipline, Holds, Outside, TypeOK
  <1>3. StartsLive' /\ ArrowsLive'
    <2>1. StartsLive'
      BY <1>a, <1>b DEF IInv, NoDanglingPointers, StartsLive, Live
    <2>2. ArrowsLive'
      <3>1. state_cache_' = state_cache_ /\ state_cache_ \subseteq Content
        BY DEF IInv, TypeOK
      <3> QED
        BY <1>a, <1>b, <3>1 DEF IInv, NoDanglingPointers, ArrowsLive, Live
    <2> QED
      BY <2>1, <2>2
  <1>4. GraphSound'
    BY <1>a, <1>b DEF IInv, TypeOK, GraphSound, Goal
  <1>5. Frame(t)
    BY DEF Frame, IInv, TypeOK
  <1>6. \A u \in Threads \ {t} : Local(u)' /\ LocalsLive(u)'
    <2>1. \A k \in StartKinds : start_[k] # NULL => start_'[k] = start_[k]
      BY <1>a, <1>b DEF IInv, GraphSound, Goal
    <2>2. mutex_ = t
      BY DEF IInv, LockDiscipline
    <2> QED
      BY <2>1, <2>2, <1>5, OthersKept
  <1>7. Local(t)'
    BY <1>a, <1>b DEF IInv, Local, TypeOK, Goal, Live
  <1>8. LocalsLive(t)'
    BY <1>a, NamesAssumption DEF IInv, TypeOK, NoDanglingPointers, LocalsLive, UsesStart, UsesState, Outside, Local, Live
  <1> QED
    BY <1>1, <1>2, <1>3, <1>4, <1>6, <1>7, <1>8 DEF IInv, NoDanglingPointers

LEMMA BailIInv == ASSUME IInv, NEW t \in Threads, Bail(t) PROVE IInv'
  <1> USE DEF Bail, locks, graph, cursor, recovery, call, Finish
  <1>1. TypeOK'
    BY NamesAssumption, SizeAssumption DEF IInv, TypeOK, Pointers, Targets
  <1>2. LockDiscipline'
    BY NamesAssumption DEF IInv, LockDiscipline, Holds, Outside, TypeOK
  <1>3. StartsLive' /\ ArrowsLive'
    BY DEF IInv, TypeOK, NoDanglingPointers, StartsLive, ArrowsLive, Live
  <1>4. GraphSound'
    BY DEF IInv, TypeOK, GraphSound
  <1>5. Frame(t)
    BY DEF Frame, IInv, TypeOK
  <1>6. \A u \in Threads \ {t} : Local(u)' /\ LocalsLive(u)'
    BY <1>5, OthersKept
  <1>7. Local(t)'
    BY ArrowFacts, JobFacts DEF IInv, Local, TypeOK, Goal, Live
  <1>8. LocalsLive(t)'
    BY NamesAssumption DEF IInv, TypeOK, NoDanglingPointers, LocalsLive, UsesStart, UsesState, Outside, Local, Live
  <1> QED
    BY <1>1, <1>2, <1>3, <1>4, <1>6, <1>7, <1>8 DEF IInv, NoDanglingPointers

LEMMA LockForWritingIInv == ASSUME IInv, NEW t \in Threads, LockForWriting(t) PROVE IInv'
  <1> USE DEF LockForWriting, locks, graph, cursor, recovery, call, MustRelock
  <1>a. /\ phase[t] = "loop" => start[t] \in Content
        /\ phase[t] # "start" => s[t] \in Content
        /\ start[t] \in Pointers /\ s[t] \in Pointers
    BY DEF IInv, TypeOK, NoDanglingPointers, LocalsLive, UsesStart, UsesState,
           Outside
  <1>b. /\ resetp' \in [Threads -> Int]
        /\ save_start' \in [Threads -> Pointers]
        /\ save_s' \in [Threads -> Pointers]
        /\ phase[t] = "loop" => save_start'[t] = start[t]
        /\ phase[t] # "start" => save_s'[t] = s[t]
        /\ \A u \in Threads \ {t} :
              save_start'[u] = save_start[u] /\ save_s'[u] = save_s[u]
    <2>1. p[t] \in Int
      BY DEF IInv, TypeOK
    <2>2. /\ resetp \in [Threads -> Int]
          /\ save_start \in [Threads -> Pointers]
          /\ save_s \in [Threads -> Pointers]
      BY DEF IInv, TypeOK
    <2>3. resetp' \in [Threads -> Int]
      BY <2>1, <2>2
    <2> QED
      BY <1>a, <2>2, <2>3
  <1>c. /\ readers' \subseteq Threads
        /\ pc' \in [Threads -> PCs]
        /\ pc'[t] \in {"wlock", "clear"}
    BY DEF IInv, TypeOK
  <1>1. TypeOK'
    BY <1>b, <1>c DEF IInv, TypeOK
  <1>2. LockDiscipline'
    BY NamesAssumption DEF IInv, LockDiscipline, Holds, Outside, TypeOK
  <1>3. StartsLive' /\ ArrowsLive'
    BY DEF IInv, TypeOK, NoDanglingPointers, StartsLive, ArrowsLive, Live
  <1>4. GraphSound'
    BY DEF IInv, TypeOK, GraphSound
  <1>5. Frame(t)
    BY DEF Frame, IInv, TypeOK
  <1>6. \A u \in Threads \ {t} : Local(u)' /\ LocalsLive(u)'
    BY <1>5, OthersKept
  <1>7. Local(t)'
    <2>1. /\ p'[t] = p[t] /\ phase'[t] = phase[t] /\ job'[t] = job[t]
          /\ Local(t)
      BY DEF IInv
    <2> QED
      BY <1>a, <1>b, <1>c, <2>1 DEF Local
  <1>8. LocalsLive(t)'
    BY NamesAssumption DEF IInv, TypeOK, NoDanglingPointers, LocalsLive, UsesStart, UsesState, Outside, Local, Live
  <1> QED
    BY <1>1, <1>2, <1>3, <1>4, <1>6, <1>7, <1>8 DEF IInv, NoDanglingPointers

LEMMA WriterLockIInv == ASSUME IInv, NEW t \in Threads, WriterLock(t) PROVE IInv'
  <1> USE DEF WriterLock, locks, graph, cursor, recovery, call, WriterLockFree
  <1>1. TypeOK'
    BY NamesAssumption, SizeAssumption DEF IInv, TypeOK, Pointers, Targets
  <1>2. LockDiscipline'
    BY NamesAssumption DEF IInv, LockDiscipline, Holds, Outside, TypeOK
  <1>3. StartsLive' /\ ArrowsLive'
    BY DEF IInv, TypeOK, NoDanglingPointers, StartsLive, ArrowsLive, Live
  <1>4. GraphSound'
    BY DEF IInv, TypeOK, GraphSound
  <1>5. Frame(t)
    BY DEF Frame, IInv, TypeOK
  <1>6. \A u \in Threads \ {t} : Local(u)' /\ LocalsLive(u)'
    BY <1>5, OthersKept
  <1>7. Local(t)'
    BY ArrowFacts, JobFacts DEF IInv, Local, TypeOK, Goal, Live
  <1>8. LocalsLive(t)'
    BY NamesAssumption DEF IInv, TypeOK, NoDanglingPointers, LocalsLive, UsesStart, UsesState, Outside, Local, Live
  <1> QED
    BY <1>1, <1>2, <1>3, <1>4, <1>6, <1>7, <1>8 DEF IInv, NoDanglingPointers

LEMMA RestoreStartIInv == ASSUME IInv, NEW t \in Threads, RestoreStart(t) PROVE IInv'
  <1> USE DEF RestoreStart, locks, graph, cursor, recovery, call, Finish, MutexFree
  <1>a. save_start[t] \in Content
    BY DEF IInv, Local
  <1>f. /\ state_cache_' \subseteq Content
        /\ state_cache_ \subseteq state_cache_'
        /\ mem_budget_' \in -1 .. StateBudget
        /\ next_' \in [Content -> [Symbols -> Pointers]]
        /\ \A d \in state_cache_', a \in Symbols :
              \/ next_'[d][a] = NULL
              \/ d \in state_cache_ /\ next_'[d][a] = next_[d][a]
        /\ CachedPtr(save_start[t]) \in Pointers
        /\ CachedPtr(save_start[t]) = NULL \/ CachedPtr(save_start[t]) \in state_cache_'
    BY <1>a, CachedStateFacts
  <1>1. TypeOK'
    BY <1>f, SizeAssumption DEF IInv, TypeOK, Pointers, Targets
  <1>2. LockDiscipline'
    BY NamesAssumption DEF IInv, LockDiscipline, Holds, Outside, TypeOK
  <1>3. StartsLive' /\ ArrowsLive'
    BY <1>f DEF IInv, TypeOK, NoDanglingPointers, StartsLive, ArrowsLive, Live
  <1>4. GraphSound'
    BY <1>f DEF IInv, GraphSound
  <1>5. Frame(t)
    BY DEF Frame, IInv, TypeOK
  <1>6. \A u \in Threads \ {t} : Local(u)' /\ LocalsLive(u)'
    BY <1>f, <1>5, OthersKept
  <1>7. Local(t)'
    BY <1>f DEF IInv, Local, TypeOK, Goal, Live, CachedPtr
  <1>8. LocalsLive(t)'
    BY <1>f, NamesAssumption DEF IInv, TypeOK, NoDanglingPointers, LocalsLive, UsesStart, UsesState, Outside, Local, Live, CachedPtr
  <1> QED
    BY <1>1, <1>2, <1>3, <1>4, <1>6, <1>7, <1>8 DEF IInv, NoDanglingPointers

LEMMA RestoreSIInv == ASSUME IInv, NEW t \in Threads, RestoreS(t) PROVE IInv'
  <1> USE DEF RestoreS, locks, graph, cursor, recovery, call, Finish, MutexFree
  <1>a. save_s[t] \in Content
    BY DEF IInv, Local
  <1>f. /\ state_cache_' \subseteq Content
        /\ state_cache_ \subseteq state_cache_'
        /\ mem_budget_' \in -1 .. StateBudget
        /\ next_' \in [Content -> [Symbols -> Pointers]]
        /\ \A d \in state_cache_', a \in Symbols :
              \/ next_'[d][a] = NULL
              \/ d \in state_cache_ /\ next_'[d][a] = next_[d][a]
        /\ CachedPtr(save_s[t]) \in Pointers
        /\ CachedPtr(save_s[t]) = NULL \/ CachedPtr(save_s[t]) \in state_cache_'
    BY <1>a, CachedStateFacts
  <1>1. TypeOK'
    BY <1>f, SizeAssumption DEF IInv, TypeOK, Pointers, Targets
  <1>2. LockDiscipline'
    BY NamesAssumption DEF IInv, LockDiscipline, Holds, Outside, TypeOK
  <1>3. StartsLive' /\ ArrowsLive'
    BY <1>f DEF IInv, TypeOK, NoDanglingPointers, StartsLive, ArrowsLive, Live
  <1>4. GraphSound'
    BY <1>f DEF IInv, GraphSound
  <1>5. Frame(t)
    BY DEF Frame, IInv, TypeOK
  <1>6. \A u \in Threads \ {t} : Local(u)' /\ LocalsLive(u)'
    BY <1>f, <1>5, OthersKept
  <1>7. Local(t)'
    BY <1>f DEF IInv, Local, TypeOK, Goal, Live, CachedPtr
  <1>8. LocalsLive(t)'
    <2>1. /\ pc'[t] \in {"mutex", "unlock"}
          /\ pc'[t] = "mutex" => s'[t] \in state_cache_'
      <3>1. pc \in [Threads -> PCs] /\ s \in [Threads -> Pointers]
        BY DEF IInv, TypeOK
      <3>2. CASE HasRoom(save_s[t])
        <4>1. CachedPtr(save_s[t]) # NULL
          BY <3>2, <1>a, NamesAssumption DEF CachedPtr
        <4> QED
          BY <3>1, <3>2, <4>1, <1>f
      <3>3. CASE ~HasRoom(save_s[t])
        BY <3>1, <3>3
      <3> QED
        BY <3>2, <3>3
    <2>2. UsesStart(t)' => start'[t] \in state_cache_'
      BY <1>f DEF IInv, NoDanglingPointers, LocalsLive, UsesStart, Outside
    <2> QED
      BY <2>1, <2>2 DEF LocalsLive, UsesState
  <1> QED
    BY <1>1, <1>2, <1>3, <1>4, <1>6, <1>7, <1>8 DEF IInv, NoDanglingPointers

LEMMA TakeStartIInv == ASSUME IInv, NEW t \in Threads, TakeStart(t) PROVE IInv'
  <1> USE DEF TakeStart, locks, graph, cursor, recovery, call, Finish
  <1>a. /\ job[t].kind \in StartKinds
        /\ start_[job[t].kind] \in Pointers
        /\ Live(start_[job[t].kind])
    BY JobFacts DEF IInv, TypeOK, Local, NoDanglingPointers, StartsLive
  <1>b. /\ start_[job[t].kind] \in Special => pc'[t] = "unlock"
        /\ pc'[t] \in {"fetch", "unlock"}
        /\ pc' \in [Threads -> PCs]
        /\ pc' = [pc EXCEPT ![t] = pc'[t]]
        /\ phase' \in [Threads -> {"start", "loop", "end"}]
        /\ phase'[t] = "loop"
        /\ lastmatch' \in [Threads -> Int]
        /\ start' \in [Threads -> Pointers]
        /\ s' \in [Threads -> Pointers]
        /\ ns' \in [Threads -> Pointers]
        /\ start'[t] = start_[job[t].kind]
        /\ s'[t] = start_[job[t].kind]
    <2>1. pc \in [Threads -> PCs] /\ lastmatch \in [Threads -> Int]
      BY DEF IInv, TypeOK
    <2>2. lastmatch' \in [Threads -> Int]
      BY <2>1
    <2>3. \/ pc' = [pc EXCEPT ![t] = "unlock"]
          \/ /\ pc' = [pc EXCEPT ![t] = "fetch"]
             /\ start_[job[t].kind] \in Content
      OBVIOUS
    <2>4. Content \cap Special = {}
      BY NamesAssumption DEF Special
    <2>5. /\ phase' \in [Threads -> {"start", "loop", "end"}]
          /\ phase'[t] = "loop"
          /\ start' \in [Threads -> Pointers]
          /\ s' \in [Threads -> Pointers]
          /\ ns' \in [Threads -> Pointers]
          /\ start'[t] = start_[job[t].kind]
          /\ s'[t] = start_[job[t].kind]
      BY <1>a DEF IInv, TypeOK, Pointers
    <2> QED
      BY <2>1, <2>2, <2>3, <2>4, <2>5
  <1>1. TypeOK'
    <2>1. retried' \in [Threads -> BOOLEAN]
      BY DEF IInv, TypeOK
    <2> QED
      BY <1>b, <2>1 DEF IInv, TypeOK
  <1>2. LockDiscipline'
    BY NamesAssumption DEF IInv, LockDiscipline, Holds, Outside, TypeOK
  <1>3. StartsLive' /\ ArrowsLive'
    BY DEF IInv, TypeOK, NoDanglingPointers, StartsLive, ArrowsLive, Live
  <1>4. GraphSound'
    BY DEF IInv, TypeOK, GraphSound
  <1>5. Frame(t)
    BY DEF Frame, IInv, TypeOK
  <1>6. \A u \in Threads \ {t} : Local(u)' /\ LocalsLive(u)'
    BY <1>5, OthersKept
  <1>7. Local(t)'
    BY ArrowFacts, JobFacts DEF IInv, Local, TypeOK, Goal, Live
  <1>8. LocalsLive(t)'
    <2>1. pc'[t] = "unlock" \/ start_[job[t].kind] \in state_cache_'
      BY <1>a, <1>b DEF Live
    <2> QED
      BY <1>b, <2>1 DEF LocalsLive, UsesStart, UsesState
  <1> QED
    BY <1>1, <1>2, <1>3, <1>4, <1>6, <1>7, <1>8 DEF IInv, NoDanglingPointers

LEMMA FetchIInv == ASSUME IInv, NEW t \in Threads, Fetch(t) PROVE IInv'
  <1> USE DEF Fetch, locks, graph, cursor, recovery, call
  <1>a. /\ job[t].last \in Symbols
        /\ Len_(t) \in Nat
        /\ \A i \in 1 .. Len_(t) : job[t].text[i] \in Symbols
        /\ p[t] \in 0 .. Len_(t)
        /\ phase[t] = "loop"
    BY JobFacts DEF IInv, TypeOK, Local, Len_
  <1>b. PICK from \in 0 .. Len_(t) :
           \/ /\ from = Len_(t)
              /\ phase' = [phase EXCEPT ![t] = "end"]
              /\ p' = [p EXCEPT ![t] = from]
              /\ sym' = [sym EXCEPT ![t] = job[t].last]
           \/ /\ from # Len_(t)
              /\ phase' = phase
              /\ p' = [p EXCEPT ![t] = from + 1]
              /\ sym' = [sym EXCEPT ![t] = job[t].text[from + 1]]
    BY <1>a DEF PrefixAccel, AfterByte, Len_
  <1>c. /\ p'[t] \in 0 .. Len_(t)
        /\ p' \in [Threads -> Nat]
        /\ sym' \in [Threads -> Symbols]
        /\ phase' \in [Threads -> {"start", "loop", "end"}]
        /\ phase'[t] # "start"
        /\ \A u \in Threads \ {t} : p'[u] = p[u] /\ sym'[u] = sym[u] /\ phase'[u] = phase[u]
    BY <1>a, <1>b DEF IInv, TypeOK
  <1>1. TypeOK'
    BY <1>c, SizeAssumption DEF IInv, TypeOK, Pointers, Targets
  <1>2. LockDiscipline'
    BY NamesAssumption DEF IInv, LockDiscipline, Holds, Outside, TypeOK
  <1>3. StartsLive' /\ ArrowsLive'
    BY DEF IInv, TypeOK, NoDanglingPointers, StartsLive, ArrowsLive, Live
  <1>4. GraphSound'
    BY DEF IInv, TypeOK, GraphSound
  <1>5. Frame(t)
    BY <1>c DEF Frame, IInv, TypeOK
  <1>6. \A u \in Threads \ {t} : Local(u)' /\ LocalsLive(u)'
    BY <1>5, OthersKept
  <1>7. Local(t)'
    BY <1>a, <1>c DEF IInv, Local, TypeOK, Goal, Live, Len_
  <1>8. LocalsLive(t)'
    BY <1>a, <1>c, NamesAssumption DEF IInv, TypeOK, NoDanglingPointers, LocalsLive, UsesStart, UsesState, Outside, Local, Live
  <1> QED
    BY <1>1, <1>2, <1>3, <1>4, <1>6, <1>7, <1>8 DEF IInv, NoDanglingPointers

LEMMA TakeSpecialIInv == ASSUME IInv, NEW t \in Threads, TakeSpecial(t) PROVE IInv'
  <1> USE DEF TakeSpecial, locks, graph, cursor, recovery, call, Finish
  <1>1. TypeOK'
    BY NamesAssumption, SizeAssumption DEF IInv, TypeOK, Pointers, Targets
  <1>2. LockDiscipline'
    BY NamesAssumption DEF IInv, LockDiscipline, Holds, Outside, TypeOK
  <1>3. StartsLive' /\ ArrowsLive'
    BY DEF IInv, TypeOK, NoDanglingPointers, StartsLive, ArrowsLive, Live
  <1>4. GraphSound'
    BY DEF IInv, TypeOK, GraphSound
  <1>5. Frame(t)
    BY DEF Frame, IInv, TypeOK
  <1>6. \A u \in Threads \ {t} : Local(u)' /\ LocalsLive(u)'
    BY <1>5, OthersKept
  <1>7. Local(t)'
    BY ArrowFacts, JobFacts DEF IInv, Local, TypeOK, Goal, Live
  <1>8. LocalsLive(t)'
    BY NamesAssumption DEF IInv, TypeOK, NoDanglingPointers, LocalsLive, UsesStart, UsesState, Outside, Local, Live
  <1> QED
    BY <1>1, <1>2, <1>3, <1>4, <1>6, <1>7, <1>8 DEF IInv, NoDanglingPointers

LEMMA TakeStateIInv == ASSUME IInv, NEW t \in Threads, TakeState(t) PROVE IInv'
  <1> USE DEF TakeState, locks, graph, cursor, recovery, call, Finish
  <1>a. /\ lastmatch' \in [Threads -> Int]
        /\ ns[t] \in state_cache_
    BY NamesAssumption DEF IInv, TypeOK, MatchPosition, NoDanglingPointers, LocalsLive, Live
  <1>1. TypeOK'
    BY <1>a, SizeAssumption DEF IInv, TypeOK, Pointers, Targets
  <1>2. LockDiscipline'
    BY NamesAssumption DEF IInv, LockDiscipline, Holds, Outside, TypeOK
  <1>3. StartsLive' /\ ArrowsLive'
    BY DEF IInv, TypeOK, NoDanglingPointers, StartsLive, ArrowsLive, Live
  <1>4. GraphSound'
    BY DEF IInv, TypeOK, GraphSound
  <1>5. Frame(t)
    BY DEF Frame, IInv, TypeOK
  <1>6. \A u \in Threads \ {t} : Local(u)' /\ LocalsLive(u)'
    BY <1>5, OthersKept
  <1>7. Local(t)'
    BY ArrowFacts, JobFacts DEF IInv, Local, TypeOK, Goal, Live
  <1>8. LocalsLive(t)'
    BY <1>a, NamesAssumption DEF IInv, TypeOK, NoDanglingPointers, LocalsLive, UsesStart, UsesState, Outside, Local, Live
  <1> QED
    BY <1>1, <1>2, <1>3, <1>4, <1>6, <1>7, <1>8 DEF IInv, NoDanglingPointers

LEMMA UnlockIInv == ASSUME IInv, NEW t \in Threads, Unlock(t) PROVE IInv'
  <1> USE DEF Unlock, locks, graph, cursor, recovery, call
  <1>1. TypeOK'
    <2>1. /\ readers' \subseteq Threads
          /\ writer' \in Threads \cup {NoThread}
          /\ pc' \in [Threads -> PCs]
          /\ phase' \in [Threads -> {"start", "loop", "end"}]
          /\ retried' \in [Threads -> BOOLEAN]
      BY DEF IInv, TypeOK
    <2>2. /\ start' \in [Threads -> Pointers]
          /\ s' \in [Threads -> Pointers]
          /\ ns' \in [Threads -> Pointers]
          /\ save_start' \in [Threads -> Pointers]
          /\ save_s' \in [Threads -> Pointers]
          /\ sym' \in [Threads -> Symbols]
      BY DEF IInv, TypeOK, Pointers
    <2>3. /\ p' \in [Threads -> Nat]
          /\ lastmatch' \in [Threads -> Int]
          /\ resetp' \in [Threads -> Int]
      BY DEF IInv, TypeOK
    <2> QED
      BY <2>1, <2>2, <2>3 DEF IInv, TypeOK
  <1>2. LockDiscipline'
    BY NamesAssumption DEF IInv, LockDiscipline, Holds, Outside, TypeOK
  <1>3. StartsLive' /\ ArrowsLive'
    BY DEF IInv, TypeOK, NoDanglingPointers, StartsLive, ArrowsLive, Live
  <1>4. GraphSound'
    BY DEF IInv, TypeOK, GraphSound
  <1>5. Frame(t)
    BY DEF Frame, IInv, TypeOK
  <1>6. \A u \in Threads \ {t} : Local(u)' /\ LocalsLive(u)'
    BY <1>5, OthersKept
  <1>7. Local(t)'
    BY ArrowFacts, JobFacts DEF IInv, Local, TypeOK, Goal, Live
  <1>8. LocalsLive(t)'
    BY NamesAssumption DEF IInv, TypeOK, NoDanglingPointers, LocalsLive, UsesStart, UsesState, Outside, Local, Live
  <1> QED
    BY <1>1, <1>2, <1>3, <1>4, <1>6, <1>7, <1>8 DEF IInv, NoDanglingPointers

LEMMA BeginIInv ==
    ASSUME IInv, NEW t \in Threads, NEW j \in Jobs, Begin(t, j) PROVE IInv'
  <1> USE DEF Begin, locks, graph, cursor, recovery
  <1>1. TypeOK'
    BY DEF IInv, TypeOK
  <1>2. LockDiscipline'
    BY DEF IInv, LockDiscipline, Holds, Outside, TypeOK
  <1>3. StartsLive' /\ ArrowsLive'
    BY DEF IInv, NoDanglingPointers, StartsLive, ArrowsLive, Live
  <1>4. GraphSound'
    BY DEF IInv, GraphSound
  <1>5. Frame(t)
    BY DEF Frame, IInv, TypeOK
  <1>6. \A u \in Threads \ {t} : Local(u)' /\ LocalsLive(u)'
    BY <1>5, OthersKept
  <1>7. Local(t)'
    BY JobFacts DEF IInv, Local, TypeOK
  <1>8. LocalsLive(t)'
    BY DEF IInv, TypeOK, LocalsLive, UsesStart, UsesState, Outside
  <1> QED
    BY <1>1, <1>2, <1>3, <1>4, <1>6, <1>7, <1>8 DEF IInv, NoDanglingPointers

\* A reset invalidates every State* there is; it happens where no other thread
\* holds one, and the copies in the StateSavers are no pointers.
LEMMA ResetCacheIInv ==
    ASSUME IInv, NEW t \in Threads, ResetCache(t) PROVE IInv'
  <1> USE DEF ResetCache, locks, call, StartAfterReset, BudgetAfterReset
  <1>a. writer = t /\ readers = {}
    BY NamesAssumption DEF IInv, LockDiscipline
  <1>b. \A u \in Threads \ {t} : pc[u] \in Outside /\ pc'[u] = pc[u]
    BY <1>a DEF IInv, TypeOK, LockDiscipline, Holds
  <1>c. /\ pc'[t] \in {"quick", "restore_start", "restore_s"}
        /\ pc'[t] = "quick" <=> phase[t] = "start"
        /\ pc'[t] = "restore_start" <=> phase[t] = "loop"
        /\ pc' \in [Threads -> PCs]
    BY DEF IInv, TypeOK
  <1>d. ASSUME NEW f \in [Threads -> Pointers]
        PROVE  Invalidate(f) \in [Threads -> Pointers]
    BY DEF Invalidate, Pointers
  <1>1. TypeOK'
    <2>1. /\ start' \in [Threads -> Pointers]
          /\ s' \in [Threads -> Pointers]
          /\ ns' \in [Threads -> Pointers]
      BY <1>d DEF IInv, TypeOK
    <2>2. /\ start_' \in [StartKinds -> Pointers]
          /\ next_' \in [Content -> [Symbols -> Pointers]]
      BY DEF Pointers
    <2>3. /\ state_cache_' \subseteq Content
          /\ mem_budget_' \in -1 .. StateBudget
          /\ retried' \in [Threads -> BOOLEAN]
      BY SizeAssumption DEF IInv, TypeOK
    <2> QED
      BY <1>c, <2>1, <2>2, <2>3 DEF IInv, TypeOK
  <1>2. LockDiscipline'
    <2>1. mutex_ # t
      BY DEF IInv, LockDiscipline
    <2> QED
      BY <1>a, <1>b, <1>c, <2>1 DEF IInv, LockDiscipline, Holds, Outside
  <1>3. StartsLive' /\ ArrowsLive'
    BY DEF StartsLive, ArrowsLive
  <1>4. GraphSound'
    BY DEF GraphSound
  <1>5. ASSUME NEW u \in Threads PROVE Local(u)'
    <2>1. Local(u) /\ p'[u] = p[u] /\ phase'[u] = phase[u] /\ job'[u] = job[u]
          /\ save_start'[u] = save_start[u] /\ save_s'[u] = save_s[u]
      BY DEF IInv
    <2>2. CASE u = t
      BY <1>c, <2>1, <2>2 DEF Local
    <2>3. CASE u # t
      BY <1>b, <2>1, <2>3 DEF Local, Outside
    <2> QED
      BY <2>2, <2>3
  <1>6. ASSUME NEW u \in Threads PROVE LocalsLive(u)'
    <2>1. phase'[u] = phase[u]
      OBVIOUS
    <2>2. CASE u = t
      BY <1>c, <2>1, <2>2 DEF LocalsLive, UsesStart, UsesState, IInv, TypeOK
    <2>3. CASE u # t
      BY <1>b, <2>1, <2>3 DEF LocalsLive, UsesStart, UsesState, Outside
    <2> QED
      BY <2>2, <2>3
  <1> QED
    BY <1>1, <1>2, <1>3, <1>4, <1>5, <1>6 DEF IInv, NoDanglingPointers

LEMMA StutterIInv == ASSUME IInv, UNCHANGED vars PROVE IInv'
  <1> USE DEF vars, locks, graph, cursor, recovery, call
  <1>1. TypeOK'
    BY DEF IInv, TypeOK
  <1>2. LockDiscipline'
    BY DEF IInv, LockDiscipline, Holds
  <1>3. NoDanglingPointers'
    BY DEF IInv, NoDanglingPointers, StartsLive, ArrowsLive, LocalsLive,
           UsesStart, UsesState, Live
  <1>4. GraphSound'
    BY DEF IInv, GraphSound
  <1>5. \A u \in Threads : Local(u)'
    BY DEF IInv, Local, Goal, Live
  <1> QED
    BY <1>1, <1>2, <1>3, <1>4, <1>5 DEF IInv

\* Every step preserves the inductive invariant.
LEMMA NextIInv == IInv /\ [Next]_vars => IInv'
  <1> SUFFICES ASSUME IInv, [Next]_vars PROVE IInv'
    OBVIOUS
  <1>1. CASE UNCHANGED vars
    BY <1>1, StutterIInv
  <1>2. ASSUME NEW t \in Threads, NEW j \in Jobs, Begin(t, j) PROVE IInv'
    BY <1>2, BeginIInv
  <1>3. ASSUME NEW t \in Threads, Step(t) PROVE IInv'
    BY <1>3, ReaderLockIInv, QuickCheckIInv, LockMutexIInv, RecheckIInv,
       ExpandIInv, InternIInv, PublishIInv, BailIInv, LockForWritingIInv,
       WriterLockIInv, ResetCacheIInv, RestoreStartIInv, RestoreSIInv,
       TakeStartIInv, FetchIInv, TakeSpecialIInv, TakeStateIInv, UnlockIInv
    DEF Step
  <1> QED
    BY <1>1, <1>2, <1>3 DEF Next

\* IInv holds in every state of every behaviour.
LEMMA SpecIInv == Spec => []IInv
  BY InitIInv, NextIInv, PTL DEF Spec

-----------------------------------------------------------------------------
(* The invariants, for every value of the constants *)

\* Every variable of the shared DFA keeps its type.
THEOREM SpecTypeOK == Spec => []TypeOK
  <1>1. IInv => TypeOK
    BY DEF IInv
  <1> QED
    BY <1>1, SpecIInv, PTL

\* The locks are held as the declarations of class DFA say: a writer of
\* cache_mutex_ is alone, mutex_ is only held with cache_mutex_ held.
THEOREM SpecLockDiscipline == Spec => []LockDiscipline
  <1>1. IInv => LockDiscipline
    BY DEF IInv
  <1> QED
    BY <1>1, SpecIInv, PTL

\* No search ever follows a State* whose state a reset has deallocated.
THEOREM SpecNoDanglingPointers == Spec => []NoDanglingPointers
  <1>1. IInv => NoDanglingPointers
    BY DEF IInv
  <1> QED
    BY <1>1, SpecIInv, PTL

\* The shared graph is at all times a part of the automaton.
THEOREM SpecGraphSound == Spec => []GraphSound
  <1>1. IInv => GraphSound
    BY DEF IInv
  <1> QED
    BY <1>1, SpecIInv, PTL

\* States are only deallocated while no other search relies on one.
THEOREM SpecResetsExclusive == Spec => ResetsExclusive
  <1>1. ASSUME IInv, NEW t \in Threads, ResetCache(t)
        PROVE  /\ writer # NoThread /\ readers = {} /\ mutex_ = NoThread
               /\ \A u \in Threads : u # writer => pc[u] \in Outside
    <2>1. writer = t /\ readers = {} /\ mutex_ # t
      BY <1>1, NamesAssumption DEF IInv, LockDiscipline, ResetCache
    <2>2. \A u \in Threads : u # t => pc[u] \in Outside
      BY <1>1, <2>1 DEF IInv, LockDiscipline, Holds
    <2>3. \A u \in Threads : u # t => mutex_ # u
      BY <1>1, <2>2 DEF IInv, LockDiscipline, Outside
    <2> QED
      BY <1>1, <2>1, <2>2, <2>3, NamesAssumption DEF IInv, TypeOK
  <1>2. ASSUME IInv, NEW t \in Threads, Step(t), ~ResetCache(t)
        PROVE  state_cache_ \subseteq state_cache_'
    BY <1>2 DEF Step, ReaderLock, QuickCheck, LockMutex, Recheck, Expand,
       Intern, Publish, Bail, LockForWriting, WriterLock, RestoreStart,
       RestoreS, TakeStart, Fetch, TakeSpecial, TakeState, Unlock,
       CachedState, graph, locks
  <1>3. ASSUME NEW t \in Threads, NEW j \in Jobs, Begin(t, j)
        PROVE  state_cache_ \subseteq state_cache_'
    BY <1>3 DEF Begin, graph
  <1>4. UNCHANGED vars => state_cache_ \subseteq state_cache_'
    BY DEF vars, graph
  <1>5. IInv /\ [Next]_vars => [DeallocatesAlone]_vars
    BY <1>1, <1>2, <1>3, <1>4 DEF Next, DeallocatesAlone
  <1> QED
    BY <1>5, SpecIInv, PTL DEF Spec, ResetsExclusive

-----------------------------------------------------------------------------
(* Why a search never fails for want of memory after it has reset the cache *)

\* A thread that has reset the cache is alone with it until it returns, and what is left
\* of the budget is enough for what it still has to put there: the two states
\* of the StateSavers and the one that did not fit.
Room(t) ==
    /\ pc[t] \in {"idle", "rlock", "fetch"} => ~retried[t]
    /\ pc[t] \in {"quick", "mutex", "recheck", "intern"} /\ retried[t] =>
          writer = t /\ \A c \in Content : Size[c] <= mem_budget_
    /\ pc[t] = "publish" /\ retried[t] => ns[t] # NULL
    /\ pc[t] = "restore_start" =>
          \A a, b, c \in Content : Size[a] + Size[b] + Size[c] <= mem_budget_
    /\ pc[t] = "restore_s" =>
          \A b, c \in Content : Size[b] + Size[c] <= mem_budget_

RoomInv == DOMAIN answer = Threads /\ \A t \in Threads : Room(t)

\* A state that fits is in the cache afterwards, and costs its size at most.
LEMMA CachedStateFits ==
    ASSUME IInv, NEW c \in Content, CachedState(c), Size[c] <= mem_budget_
    PROVE  /\ CachedPtr(c) = c /\ c # NULL /\ HasRoom(c)
           /\ mem_budget_' \in Int /\ mem_budget_' >= mem_budget_ - Size[c]
  <1>1. mem_budget_ \in -1 .. StateBudget /\ Size[c] \in Nat /\ StateBudget \in Nat
    BY SizeAssumption DEF IInv, TypeOK
  <1>2. HasRoom(c)
    BY <1>1 DEF HasRoom, Charge
  <1>3. c # NULL
    BY NamesAssumption
  <1>4. mem_budget_' = mem_budget_ \/ mem_budget_' = mem_budget_ - Size[c]
    BY <1>2 DEF CachedState, Charge
  <1> QED
    BY <1>1, <1>2, <1>3, <1>4 DEF CachedPtr

\* While a thread has room to rely on, no other is inside.
LEMMA OthersRoom ==
    ASSUME IInv, RoomInv, NEW t \in Threads, pc[t] \notin Outside,
           NEW u \in Threads \ {t},
           pc'[u] = pc[u], retried'[u] = retried[u],
           pc[u] = "publish" => ns'[u] = ns[u]
    PROVE  Room(u)'
  <1>1. writer # u
    BY NamesAssumption DEF IInv, LockDiscipline, Holds
  <1>2. pc[u] \notin {"restore_start", "restore_s"}
    BY <1>1 DEF IInv, LockDiscipline
  <1> QED
    BY <1>1, <1>2 DEF Room, RoomInv

LEMMA InitRoom == Init => RoomInv
  BY DEF Init, RoomInv, Room

LEMMA BeginRoom ==
    ASSUME IInv, RoomInv, NEW t \in Threads, NEW j \in Jobs, Begin(t, j)
    PROVE  RoomInv'
  <1>1. ASSUME NEW u \in Threads PROVE Room(u)'
    BY DEF Begin, locks, graph, cursor, recovery, IInv, TypeOK, Room, RoomInv
  <1> QED
    BY <1>1 DEF Begin, RoomInv

LEMMA LockRoom ==
    ASSUME IInv, RoomInv, NEW t \in Threads, ReaderLock(t) \/ WriterLock(t)
    PROVE  RoomInv'
  <1>1. /\ answer' = answer /\ retried' = retried /\ ns' = ns /\ mem_budget_' = mem_budget_
        /\ writer = NoThread
        /\ \A u \in Threads : pc'[u] = pc[u] \/ pc'[u] = "clear" \/ (pc[u] = "rlock" /\ pc'[u] = "quick")
    BY DEF ReaderLock, WriterLock, call, graph, recovery, ReaderLockFree, WriterLockFree,
           IInv, TypeOK
  <1>2. ASSUME NEW u \in Threads PROVE Room(u)'
    <2>1. writer # u /\ pc[u] \notin {"restore_start", "restore_s"}
      BY <1>1, NamesAssumption DEF IInv, LockDiscipline
    <2> QED
      BY <1>1, <2>1 DEF Room, RoomInv
  <1> QED
    BY <1>1, <1>2 DEF RoomInv

\* The threads inside the locks leave the others as they are.
LEMMA InsideSteps ==
    ASSUME IInv, RoomInv, NEW t \in Threads, Step(t), ~ReaderLock(t), ~WriterLock(t)
    PROVE  /\ DOMAIN answer' = Threads
           /\ \A u \in Threads \ {t} : Room(u)'
  <1>1. pc[t] \notin Outside
    BY DEF Step, Outside, QuickCheck, LockMutex, Recheck, Expand, Intern, Publish, Bail,
       LockForWriting, ResetCache, RestoreStart, RestoreS, TakeStart, Fetch, TakeSpecial,
       TakeState, Unlock
  <1>2. DOMAIN answer' = DOMAIN answer
    BY DEF Step, QuickCheck, LockMutex, Recheck, Expand, Intern, Publish, Bail,
       LockForWriting, ResetCache, RestoreStart, RestoreS, TakeStart, Fetch, TakeSpecial,
       TakeState, Unlock, call, Finish
  <1>3. \A u \in Threads \ {t} : pc'[u] = pc[u] /\ retried'[u] = retried[u]
    BY DEF IInv, TypeOK, Step, QuickCheck, LockMutex, Recheck, Expand, Intern, Publish, Bail,
       LockForWriting, ResetCache, RestoreStart, RestoreS, TakeStart, Fetch, TakeSpecial,
       TakeState, Unlock, recovery, Finish
  <1>4. ASSUME NEW u \in Threads \ {t}, pc[u] = "publish" PROVE ns'[u] = ns[u]
    <2>1. CASE ResetCache(t)
      BY <1>4, <2>1, NamesAssumption DEF ResetCache, IInv, LockDiscipline, Holds, Outside
    <2>2. CASE ~ResetCache(t)
      BY <2>2 DEF IInv, TypeOK, Step, QuickCheck, LockMutex, Recheck, Expand, Intern, Publish,
         Bail, LockForWriting, RestoreStart, RestoreS, TakeStart, Fetch, TakeSpecial,
         TakeState, Unlock, cursor
    <2> QED
      BY <2>1, <2>2
  <1> QED
    BY <1>1, <1>2, <1>3, <1>4, OthersRoom DEF RoomInv

LEMMA StepRoom ==
    ASSUME IInv, RoomInv, NEW t \in Threads, Step(t), ~ReaderLock(t), ~WriterLock(t)
    PROVE  Room(t)'
  <1> USE DEF locks, graph, cursor, recovery
  <1>0. /\ Room(t) /\ pc \in [Threads -> PCs] /\ retried \in [Threads -> BOOLEAN]
        /\ ns \in [Threads -> Pointers] /\ writer \in Threads \cup {NoThread}
        /\ mem_budget_ \in -1 .. StateBudget /\ StateBudget \in Nat
        /\ \A c \in Content : Size[c] \in Nat \ {0}
    BY SizeAssumption DEF IInv, TypeOK, RoomInv
  <1>1. CASE QuickCheck(t)
    BY <1>0, <1>1 DEF QuickCheck, Room
  <1>2. CASE LockMutex(t)
    BY <1>0, <1>2 DEF LockMutex, Room
  <1>3. CASE Recheck(t)
    BY <1>0, <1>3 DEF Recheck, Room
  <1>4. CASE Expand(t)
    BY <1>0, <1>4 DEF Expand, Room
  <1>5. CASE Intern(t)
    <2>1. /\ pc[t] = "intern" /\ pc' = [pc EXCEPT ![t] = "publish"] /\ retried' = retried
      BY <1>5 DEF Intern
    <2>2. SUFFICES ASSUME retried[t] PROVE ns'[t] # NULL
      BY <1>0, <2>1 DEF Room
    <2>3. Successor(t) = Goal(t)
      BY <2>1 DEF IInv, Local, Successor, Goal
    <2>4. phase[t] # "start" => s[t] \in Content
      BY <2>1 DEF IInv, NoDanglingPointers, LocalsLive, UsesState, Outside, TypeOK
    <2>5. Successor(t) \in Targets
      BY <2>3, <2>4, GoalFacts
    <2>6. CASE Successor(t) \in Special
      BY <1>0, <1>5, <2>6, NamesAssumption DEF Intern, Special
    <2>7. CASE Successor(t) \notin Special
      <3>1. PICK c \in Content : c = Successor(t)
        BY <2>5, <2>7 DEF Targets
      <3>2. CachedState(c) /\ ns' = [ns EXCEPT ![t] = CachedPtr(c)]
        BY <1>5, <2>7, <3>1 DEF Intern
      <3>3. Size[c] <= mem_budget_
        BY <1>0, <2>1, <2>2 DEF Room
      <3>4. CachedPtr(c) # NULL
        BY <3>2, <3>3, CachedStateFits
      <3> QED
        BY <1>0, <3>2, <3>4
    <2> QED
      BY <2>6, <2>7
  <1>6. CASE Publish(t)
    <2>1. pc'[t] \in {"take", "oom", "unlock"}
      BY <1>0, <1>6 DEF Publish, Finish
    <2> QED
      BY <2>1 DEF Room
  <1>7. CASE Bail(t)
    <2>1. pc'[t] = "unlock"
      BY <1>0, <1>7 DEF Bail, Finish
    <2> QED
      BY <2>1 DEF Room
  <1>8. CASE LockForWriting(t)
    <2>1. pc'[t] \in {"wlock", "clear"}
      BY <1>0, <1>8 DEF LockForWriting
    <2> QED
      BY <2>1 DEF Room
  <1>9. CASE ResetCache(t)
    <2>1. /\ writer = t /\ writer' = writer /\ mem_budget_' = StateBudget
          /\ pc'[t] \in {"quick", "restore_start", "restore_s"}
      BY <1>0, <1>9 DEF ResetCache, IInv, TypeOK, LockDiscipline, BudgetAfterReset
    <2>2. \A a, b, c \in Content : Size[a] + Size[b] + Size[c] <= StateBudget
      BY RoomAssumption
    <2>3. \A b, c \in Content : Size[b] + Size[c] <= StateBudget
      BY <1>0, <2>2
    <2>4. \A c \in Content : Size[c] <= StateBudget
      BY <1>0, <2>2
    <2> QED
      BY <2>1, <2>2, <2>3, <2>4 DEF Room
  <1>10. CASE RestoreStart(t)
    <2>1. /\ pc[t] = "restore_start" /\ CachedState(save_start[t])
          /\ pc'[t] \in {"restore_s", "unlock"}
      BY <1>0, <1>10 DEF RestoreStart, Finish
    <2>2. save_start[t] \in Content
      BY <2>1 DEF IInv, Local
    <2>3. PICK a \in Content : a = save_start[t]
      BY <2>2
    <2>4. \A b, c \in Content : Size[a] + Size[b] + Size[c] <= mem_budget_
      BY <1>0, <2>1 DEF Room
    <2>5. Size[a] <= mem_budget_
      BY <1>0, <2>4
    <2>6. mem_budget_' \in Int /\ mem_budget_' >= mem_budget_ - Size[a]
      BY <2>1, <2>3, <2>5, CachedStateFits
    <2>7. \A b, c \in Content : Size[b] + Size[c] <= mem_budget_'
      BY <1>0, <2>4, <2>6
    <2> QED
      BY <2>1, <2>7 DEF Room
  <1>11. CASE RestoreS(t)
    <2>1. /\ pc[t] = "restore_s" /\ CachedState(save_s[t])
          /\ pc'[t] \in {"mutex", "unlock"} /\ writer' = writer /\ writer = t
      BY <1>0, <1>11 DEF RestoreS, Finish, IInv, LockDiscipline
    <2>2. save_s[t] \in Content
      BY <2>1 DEF IInv, Local
    <2>3. PICK b \in Content : b = save_s[t]
      BY <2>2
    <2>4. \A c \in Content : Size[b] + Size[c] <= mem_budget_
      BY <1>0, <2>1 DEF Room
    <2>5. Size[b] <= mem_budget_
      BY <1>0, <2>4
    <2>6. mem_budget_' \in Int /\ mem_budget_' >= mem_budget_ - Size[b]
      BY <2>1, <2>3, <2>5, CachedStateFits
    <2>7. \A c \in Content : Size[c] <= mem_budget_'
      BY <1>0, <2>4, <2>6
    <2> QED
      BY <2>1, <2>7 DEF Room
  <1>12. CASE TakeStart(t) \/ TakeState(t) \/ TakeSpecial(t)
    <2>1. retried'[t] = FALSE /\ pc'[t] \in {"fetch", "unlock"}
      BY <1>0, <1>12 DEF TakeStart, TakeState, TakeSpecial, Finish
    <2> QED
      BY <2>1 DEF Room
  <1>13. CASE Fetch(t)
    BY <1>0, <1>13 DEF Fetch, Room
  <1>14. CASE Unlock(t)
    BY <1>0, <1>14 DEF Unlock, Room
  <1> QED
    BY <1>1, <1>2, <1>3, <1>4, <1>5, <1>6, <1>7, <1>8, <1>9, <1>10, <1>11, <1>12, <1>13,
       <1>14 DEF Step

LEMMA NextRoom == IInv /\ RoomInv /\ [Next]_vars => RoomInv'
  <1> SUFFICES ASSUME IInv, RoomInv, [Next]_vars PROVE RoomInv'
    OBVIOUS
  <1>1. ASSUME NEW t \in Threads, NEW j \in Jobs, Begin(t, j) PROVE RoomInv'
    BY <1>1, BeginRoom
  <1>2. ASSUME NEW t \in Threads, Step(t) PROVE RoomInv'
    <2>1. CASE ReaderLock(t) \/ WriterLock(t)
      BY <2>1, LockRoom
    <2>2. CASE ~ReaderLock(t) /\ ~WriterLock(t)
      BY <1>2, <2>2, InsideSteps, StepRoom DEF RoomInv
    <2> QED
      BY <2>1, <2>2
  <1>3. CASE UNCHANGED vars
    BY <1>3 DEF vars, locks, graph, call, recovery, RoomInv, Room
  <1> QED
    BY <1>1, <1>2, <1>3 DEF Next

\* A search gives up in one place of the code only: where it bails out because it
\* resets the cache too often, and only if it is not for a set.  Neither of the
\* StateSavers nor the retry after a reset is ever out of room, however the threads
\* are interleaved, as long as the budget holds three states (the DFA's constructor
\* and the StateSavers of InlinedSearchLoop).
THEOREM SpecFailsOnlyWhenSlow == Spec => FailsOnlyWhenSlow
  <1> DEFINE Gives(t) == answer'[t].failed /\ ~answer[t].failed
             Slow == \A t \in Threads : Gives(t) => TooSlow(t) /\ ~ManyMatch
  <1>1. ASSUME IInv, RoomInv, NEW t \in Threads, Step(t), NEW u \in Threads, Gives(u)
        PROVE  Bail(t) /\ u = t
    <2>1. DOMAIN answer = Threads
      BY <1>1 DEF RoomInv
    <2>2. answer' # answer
      BY <1>1
    <2>3. \A ans : answer' = [answer EXCEPT ![t] = ans] => u = t /\ ans.failed
      BY <1>1, <2>1
    <2>4. ~NoAnswer.failed /\ \A ep, ids : ~Found(ep, ids).failed
      BY DEF NoAnswer, Found
    <2>5. CASE Publish(t)
      <3>1. pc[t] = "publish" /\ retried[t] /\ ns[t] = NULL
        BY <2>2, <2>5 DEF Publish
      <3> QED
        BY <1>1, <3>1 DEF RoomInv, Room
    <2>6. CASE RestoreStart(t)
      <3>1. pc[t] = "restore_start" /\ ~HasRoom(save_start[t]) /\ CachedState(save_start[t])
        BY <2>2, <2>6 DEF RestoreStart
      <3>2. save_start[t] \in Content
        BY <1>1, <3>1 DEF IInv, Local
      <3>3. PICK a \in Content : a = save_start[t]
        BY <3>2
      <3>4. Size[a] + Size[a] + Size[a] <= mem_budget_
        BY <1>1, <3>1 DEF RoomInv, Room
      <3>5. Size[a] <= mem_budget_
        BY <1>1, <3>4, SizeAssumption DEF IInv, TypeOK
      <3> QED
        BY <1>1, <3>1, <3>3, <3>5, CachedStateFits
    <2>7. CASE RestoreS(t)
      <3>1. pc[t] = "restore_s" /\ ~HasRoom(save_s[t]) /\ CachedState(save_s[t])
        BY <2>2, <2>7 DEF RestoreS
      <3>2. save_s[t] \in Content
        BY <1>1, <3>1 DEF IInv, Local
      <3>3. PICK a \in Content : a = save_s[t]
        BY <3>2
      <3>4. Size[a] + Size[a] <= mem_budget_
        BY <1>1, <3>1 DEF RoomInv, Room
      <3>5. Size[a] <= mem_budget_
        BY <1>1, <3>4, SizeAssumption DEF IInv, TypeOK
      <3> QED
        BY <1>1, <3>1, <3>3, <3>5, CachedStateFits
    <2>8. CASE TakeStart(t) \/ TakeSpecial(t) \/ TakeState(t)
      BY <2>2, <2>3, <2>4, <2>8 DEF TakeStart, TakeSpecial, TakeState, Finish
    <2>9. CASE Bail(t)
      BY <2>3, <2>9 DEF Bail, Finish
    <2> QED
      BY <1>1, <2>2, <2>5, <2>6, <2>7, <2>8, <2>9 DEF Step, ReaderLock, QuickCheck, LockMutex,
         Recheck, Expand, Intern, LockForWriting, WriterLock, ResetCache, Fetch, Unlock, call
  <1>2. ASSUME IInv, RoomInv, NEW t \in Threads, Step(t) PROVE Slow
    <2>1. Bail(t) => TooSlow(t) /\ ~ManyMatch
      BY DEF Bail, TooSlow
    <2> QED
      BY <1>1, <1>2, <2>1
  <1>3. ASSUME RoomInv, NEW t \in Threads, NEW j \in Jobs, Begin(t, j) PROVE Slow
    BY <1>3 DEF Begin, RoomInv, NoAnswer
  <1>4. IInv /\ RoomInv /\ [Next]_vars => [Slow]_vars
    BY <1>2, <1>3 DEF Next
  <1> QED
    BY <1>4, SpecIInv, InitRoom, NextRoom, PTL DEF Spec, FailsOnlyWhenSlow

-----------------------------------------------------------------------------
(* What the states cost *)

\* A finite set of states takes up finitely many bytes, and another state its size more.
LEMMA ChargedMore ==
    ASSUME NEW cs \in SUBSET Content, IsFiniteSet(Bytes(cs)), NEW c \in Content, c \notin cs
    PROVE  /\ IsFiniteSet(Bytes(cs \cup {c}))
           /\ Charged(cs) \in Nat
           /\ Charged(cs \cup {c}) = Charged(cs) + Size[c]
<1> DEFINE size == Size[c]
           more == {c} \X (1 .. size)
<1>1. size \in Nat \ {0}
  BY SizeAssumption
<1>2. IsFiniteSet(more) /\ Cardinality(more) = size
  <2>1. IsFiniteSet(1 .. size) /\ Cardinality(1 .. size) = size
    <3> HIDE DEF size
    <3>1. /\ IsFiniteSet(1 .. size)
          /\ Cardinality(1 .. size) = IF 1 > size THEN 0 ELSE size - 1 + 1
      BY <1>1, FS_Interval
    <3> QED
      BY <1>1, <3>1
  <2>2. IsFiniteSet({c}) /\ Cardinality({c}) = 1
    BY FS_Singleton
  <2>3. IsFiniteSet(more) /\ Cardinality(more) = 1 * size
    <3> HIDE DEF size
    <3> QED
      BY <2>1, <2>2, FS_Product
  <2> QED
    BY <1>1, <2>3
<1>3. Bytes(cs \cup {c}) = Bytes(cs) \cup more
  BY DEF Bytes
<1>4. Bytes(cs) \cap more = {}
  BY DEF Bytes
<1> HIDE DEF more
<1>5. /\ IsFiniteSet(Bytes(cs) \cup more)
      /\ Cardinality(Bytes(cs) \cup more) = Cardinality(Bytes(cs)) + Cardinality(more) - Cardinality({})
  BY <1>2, <1>4, FS_Union
<1>6. Cardinality({}) = 0 /\ Cardinality(Bytes(cs)) \in Nat
  BY FS_EmptySet, FS_CardinalityType
<1> HIDE DEF size
<1>7. Cardinality(Bytes(cs) \cup more) = Cardinality(Bytes(cs)) + size
  BY <1>1, <1>2, <1>5, <1>6
<1>8. Charged(cs \cup {c}) = Charged(cs) + size
  BY <1>3, <1>7, Zenon DEF Charged
<1>9. Charged(cs) \in Nat
  BY <1>6 DEF Charged
<1> QED
  BY <1>3, <1>5, <1>8, <1>9, Zenon DEF size

BudgetInv == IsFiniteSet(Bytes(state_cache_)) /\ BudgetAccounted

LEMMA NoBytes == IsFiniteSet(Bytes({})) /\ Charged({}) = 0
<1>1. Bytes({}) = {}
  BY DEF Bytes
<1> QED
  BY <1>1, FS_EmptySet DEF Charged

\* A new state is paid for, or the budget is at its end.
LEMMA CachedStatePays ==
    ASSUME IInv, BudgetInv, NEW c \in Content, CachedState(c)
    PROVE  BudgetInv'
<1>1. /\ state_cache_ \in SUBSET Content /\ mem_budget_ \in -1 .. StateBudget
      /\ StateBudget \in Nat /\ Size[c] \in Nat
  BY SizeAssumption DEF IInv, TypeOK
<1>2. Charged(state_cache_) \in Nat
  BY FS_CardinalityType DEF Charged, BudgetInv
<1>3. CASE c \in state_cache_
  BY <1>3 DEF CachedState, BudgetInv, BudgetAccounted
<1>4. CASE c \notin state_cache_ /\ ~HasRoom(c)
  <2>1. mem_budget_' = -1 /\ state_cache_' = state_cache_
    BY <1>4 DEF CachedState
  <2> QED
    BY <2>1 DEF BudgetInv, BudgetAccounted
<1>5. CASE c \notin state_cache_ /\ HasRoom(c)
  <2>1. /\ mem_budget_' = mem_budget_ - Size[c] /\ mem_budget_' >= 0
        /\ state_cache_' = state_cache_ \cup {c}
    BY <1>5 DEF CachedState, HasRoom, Charge
  <2>2. /\ IsFiniteSet(Bytes(state_cache_ \cup {c}))
        /\ Charged(state_cache_ \cup {c}) = Charged(state_cache_) + Size[c]
    BY <1>1, <1>5, ChargedMore DEF BudgetInv
  <2>3. mem_budget_ # -1 /\ mem_budget_ + Charged(state_cache_) = StateBudget
    BY <1>1, <2>1 DEF BudgetInv, BudgetAccounted
  <2>4. /\ mem_budget_' + Charged(state_cache_ \cup {c}) = StateBudget
        /\ Charged(state_cache_ \cup {c}) <= StateBudget
    BY <1>1, <1>2, <2>1, <2>2, <2>3
  <2>5. Bytes(state_cache_)' = Bytes(state_cache_ \cup {c}) /\ Charged(state_cache_)' = Charged(state_cache_ \cup {c})
    BY <2>1
  <2> QED
    BY <2>2, <2>4, <2>5 DEF BudgetInv, BudgetAccounted
<1> QED
  BY <1>3, <1>4, <1>5

LEMMA InitBudget == Init => BudgetInv
<1> SUFFICES ASSUME Init PROVE BudgetInv
  OBVIOUS
<1>1. state_cache_ = {} /\ mem_budget_ = StateBudget /\ StateBudget \in Nat
  BY SizeAssumption DEF Init
<1> QED
  BY <1>1, NoBytes DEF BudgetInv, BudgetAccounted

\* The steps of a search that take memory or give it back.
LEMMA StepBudget ==
    ASSUME IInv, BudgetInv, NEW t \in Threads, Step(t)
    PROVE  BudgetInv'
<1> USE DEF locks, graph, cursor, recovery
<1>1. CASE Intern(t)
  <2>1. pc[t] = "intern"
    BY <1>1 DEF Intern
  <2>2. Successor(t) = Goal(t)
    BY <2>1 DEF IInv, Local, Successor, Goal
  <2>3. phase[t] # "start" => s[t] \in Content
    BY <2>1 DEF IInv, NoDanglingPointers, LocalsLive, UsesState, Outside, TypeOK
  <2>4. Successor(t) \in Targets
    BY <2>2, <2>3, GoalFacts
  <2>5. CASE Successor(t) \in Special
    BY <1>1, <2>5 DEF Intern, BudgetInv, BudgetAccounted
  <2>6. CASE Successor(t) \notin Special
    <3>1. Successor(t) \in Content /\ CachedState(Successor(t))
      BY <1>1, <2>4, <2>6 DEF Intern, Targets
    <3> QED
      BY <3>1, CachedStatePays
  <2> QED
    BY <2>5, <2>6
<1>2. CASE RestoreStart(t)
  <2>1. CachedState(save_start[t]) /\ save_start[t] \in Content
    BY <1>2 DEF RestoreStart, IInv, Local
  <2> QED
    BY <2>1, CachedStatePays
<1>3. CASE RestoreS(t)
  <2>1. CachedState(save_s[t]) /\ save_s[t] \in Content
    BY <1>3 DEF RestoreS, IInv, Local
  <2> QED
    BY <2>1, CachedStatePays
<1>4. CASE ResetCache(t)
  <2>1. state_cache_' = {} /\ mem_budget_' = StateBudget /\ StateBudget \in Nat
    BY <1>4, SizeAssumption DEF ResetCache, BudgetAfterReset
  <2> QED
    BY <2>1, NoBytes DEF BudgetInv, BudgetAccounted
<1>5. CASE ~(Intern(t) \/ RestoreStart(t) \/ RestoreS(t) \/ ResetCache(t))
  <2>1. state_cache_' = state_cache_ /\ mem_budget_' = mem_budget_
    BY <1>5 DEF Step, ReaderLock, QuickCheck, LockMutex, Recheck, Expand, Publish, Bail,
       LockForWriting, WriterLock, TakeStart, Fetch, TakeSpecial, TakeState, Unlock
  <2> QED
    BY <2>1 DEF BudgetInv, BudgetAccounted
<1> QED
  BY <1>1, <1>2, <1>3, <1>4, <1>5

\* The memory that CachedState has handed out and what is left of the budget add up to the
\* budget until it runs out, and the states never take more (CachedState, ResetCache and
\* the StateSavers).
THEOREM SpecBudgetAccounted == Spec => []BudgetAccounted
<1>1. IInv /\ BudgetInv /\ [Next]_vars => BudgetInv'
  <2> SUFFICES ASSUME IInv, BudgetInv, [Next]_vars PROVE BudgetInv'
    OBVIOUS
  <2>1. ASSUME NEW t \in Threads, NEW j \in Jobs, Begin(t, j) PROVE BudgetInv'
    BY <2>1 DEF Begin, graph, BudgetInv, BudgetAccounted
  <2>2. CASE UNCHANGED vars
    BY <2>2 DEF vars, graph, BudgetInv, BudgetAccounted
  <2> QED
    BY <2>1, <2>2, StepBudget DEF Next
<1>2. BudgetInv => BudgetAccounted
  BY DEF BudgetInv
<1> QED
  BY <1>1, <1>2, SpecIInv, InitBudget, PTL DEF Spec

-----------------------------------------------------------------------------
HIDE DEF PCs, Symbols

(***************************************************************************)
(* Every step of DFACache is a step of DFASearch or changes nothing that a *)
(* caller sees: a search answers what the automaton says, or gives up      *)
(* where it may, for any number of threads, any automaton and any budget.  *)
(*                                                                         *)
(* The argument.  Run(j) is the run of the automaton that call j asks for. *)
(* While thread t serves it, s[t] is the state of the run at the bytes     *)
(* consumed so far, wherever the pointer has been meanwhile (skipping      *)
(* ahead, in a StateSaver, or lost with the cache), and lastmatch[t] and   *)
(* matches[t] are what the run has reported up to there.                   *)
(***************************************************************************)

-----------------------------------------------------------------------------
(* The run of a call *)

Last(j) == Len(j.text) + 1

\* The symbol that leads from the i-1-th state of the run to the i-th.
SymbolAt(j, i) == IF i = Last(j) THEN j.last ELSE j.text[i]

\* One state after another.
After(x, a) == IF x \in Special THEN x ELSE Delta[x][a]

\* f is the beginning of the run, as far as its m-th state.
Begins(j, f, m) ==
    /\ f \in [0 .. m -> Targets]
    /\ f[0] = StartOf[j.kind]
    /\ \A i \in 1 .. m : f[i] = After(f[i - 1], SymbolAt(j, i))

LEMMA AfterFacts ==
    ASSUME NEW x \in Targets, NEW a \in Symbols
    PROVE  After(x, a) \in Targets
BY AutomatonAssumption DEF After, Targets

\* A sequence over a set is one over a larger set.
LEMMA SeqWidens ==
    ASSUME NEW A, NEW B, A \subseteq B, NEW q \in Seq(A)
    PROVE  q \in Seq(B)
BY SeqDef

LEMMA SymbolFacts ==
    ASSUME NEW j \in Jobs
    PROVE  /\ Len(j.text) \in Nat /\ Last(j) \in Nat /\ Last(j) = Len(j.text) + 1
           /\ j.kind \in StartKinds /\ j.earliest \in BOOLEAN
           /\ j.text \in Seq(Classes)
           /\ \A i \in 1 .. Last(j) : SymbolAt(j, i) \in Symbols
           /\ \A i \in 1 .. Len(j.text) : SymbolAt(j, i) = j.text[i]
           /\ SymbolAt(j, Last(j)) = j.last
           /\ Len(Append(j.text, j.last)) = Last(j)
           /\ \A i \in 1 .. Last(j) : Append(j.text, j.last)[i] = SymbolAt(j, i)
<1>1. j \in [kind : StartKinds, text : Seq(Classes), last : Symbols, earliest : BOOLEAN]
  BY JobAssumption
<1>2. j.text \in Seq(Classes) /\ j.last \in Symbols /\ j.kind \in StartKinds /\ j.earliest \in BOOLEAN
  BY <1>1
<1>3. Len(j.text) \in Nat /\ j.text \in Seq(Symbols)
  <2>1. Classes \subseteq Symbols
    BY DEF Symbols
  <2>2. j.text \in Seq(Symbols)
    BY <1>2, <2>1, SeqWidens
  <2> QED
    BY <2>2
<1>4. \A i \in 1 .. Last(j) : i = Last(j) \/ i \in 1 .. Len(j.text)
  BY <1>3, SMT DEF Last
<1>5. \A i \in 1 .. Last(j) : SymbolAt(j, i) \in Symbols
  BY <1>2, <1>3, <1>4 DEF SymbolAt
<1>6. \A i \in 1 .. Len(j.text) : SymbolAt(j, i) = j.text[i]
  BY <1>3, SMT DEF SymbolAt, Last
<1>7. /\ Len(Append(j.text, j.last)) = Last(j)
      /\ \A i \in 1 .. Last(j) : Append(j.text, j.last)[i] = SymbolAt(j, i)
  BY <1>2, <1>3, <1>4, <1>6 DEF SymbolAt, Last
<1>8. SymbolAt(j, Last(j)) = j.last /\ Last(j) \in Nat
  BY <1>3 DEF SymbolAt, Last
<1> QED
  BY <1>2, <1>3, <1>5, <1>6, <1>7, <1>8 DEF Last

\* A run can be begun as far as one likes: were there a first place where it
\* cannot, the run as far as the place before could be continued.
LEMMA RunBegins ==
    ASSUME NEW j \in Jobs
    PROVE  \E f : Begins(j, f, Last(j))
<1> DEFINE stuck == {m \in 0 .. Last(j) : ~\E f : Begins(j, f, m)}
<1>1. Last(j) \in Nat /\ StartOf[j.kind] \in Targets
  BY SymbolFacts, AutomatonAssumption
<1>2. ASSUME stuck # {} PROVE FALSE
  <2>1. PICK m \in stuck : \A k \in stuck : m <= k
    <3>1. stuck \in SUBSET Nat
      BY <1>1
    <3> HIDE DEF stuck
    <3> QED
      BY <1>2, <3>1, LeastNat
  <2>2. m \in 0 .. Last(j) /\ ~\E f : Begins(j, f, m)
    OBVIOUS
  <2>3. CASE m = 0
    <3> DEFINE f == [i \in 0 .. 0 |-> StartOf[j.kind]]
    <3>1. Begins(j, f, 0)
      <4>1. \A i \in 1 .. 0 : FALSE
        BY SMT
      <4>2. 0 \in 0 .. 0
        BY SMT
      <4> QED
        BY <1>1, <4>1, <4>2 DEF Begins
    <3> QED
      BY <2>2, <2>3, <3>1
  <2>4. CASE m # 0
    <3>1. m - 1 \in 0 .. Last(j) /\ m - 1 \in Nat /\ ~(m <= m - 1) /\ m \in 1 .. Last(j)
      BY <1>1, <2>2, <2>4, SMT
    <3>2. PICK g : Begins(j, g, m - 1)
      BY <2>1, <3>1
    <3> DEFINE next == After(g[m - 1], SymbolAt(j, m))
               f == [i \in 0 .. m |-> IF i = m THEN next ELSE g[i]]
    <3>3. g \in [0 .. m - 1 -> Targets] /\ g[m - 1] \in Targets /\ next \in Targets
      BY <1>1, <3>1, <3>2, AfterFacts, SymbolFacts DEF Begins
    <3>4. \A i \in 0 .. m : i = m \/ i \in 0 .. m - 1
      BY <2>2, SMT
    <3>5. f \in [0 .. m -> Targets]
      BY <3>3, <3>4
    <3>6. f[0] = StartOf[j.kind]
      <4>1. 0 \in 0 .. m /\ 0 # m
        BY <2>2, <2>4, SMT
      <4> QED
        BY <3>2, <4>1 DEF Begins
    <3>7. ASSUME NEW i \in 1 .. m PROVE f[i] = After(f[i - 1], SymbolAt(j, i))
      <4>1. i \in 0 .. m /\ i - 1 \in 0 .. m /\ i - 1 # m
        BY <2>2, SMT
      <4>2. f[i - 1] = g[i - 1]
        BY <4>1
      <4>3. CASE i = m
        BY <4>1, <4>2, <4>3
      <4>4. CASE i # m
        <5>1. i \in 1 .. m - 1
          BY <2>2, <4>4, SMT
        <5>2. g[i] = After(g[i - 1], SymbolAt(j, i))
          BY <3>2, <5>1 DEF Begins
        <5> QED
          BY <4>1, <4>2, <4>4, <5>2
      <4> QED
        BY <4>3, <4>4
    <3> HIDE DEF f
    <3>8. Begins(j, f, m)
      BY <3>5, <3>6, <3>7 DEF Begins
    <3> QED
      BY <2>2, <3>8
  <2> QED
    BY <2>3, <2>4
<1>3. Last(j) \in 0 .. Last(j)
  BY <1>1
<1> QED
  BY <1>2, <1>3

\* What the run is.
LEMMA RunFacts ==
    ASSUME NEW j \in Jobs
    PROVE  Begins(j, Run(j), Last(j))
<1> DEFINE symbols == Append(j.text, j.last)
           body(f, i) == IF i = 0 THEN StartOf[j.kind]
                         ELSE IF f[i - 1] \in Special THEN f[i - 1]
                         ELSE Delta[f[i - 1]][symbols[i]]
           IsRun(f) == f = [i \in 0 .. Len(symbols) |-> body(f, i)]
<1>1. PICK f : Begins(j, f, Last(j))
  BY RunBegins
<1>2. Len(symbols) = Last(j) /\ Last(j) \in Nat
  BY SymbolFacts
<1>3. ASSUME NEW i \in 0 .. Last(j) PROVE f[i] = body(f, i)
  <2>1. CASE i = 0
    BY <1>1, <2>1 DEF Begins
  <2>2. CASE i # 0
    <3>1. i \in 1 .. Last(j)
      BY <1>2, <2>2, SMT
    <3> QED
      BY <1>1, <2>2, <3>1, SymbolFacts DEF Begins, After
  <2> QED
    BY <2>1, <2>2
<1>4. IsRun(f)
  <2> HIDE DEF body, symbols
  <2>1. f = [i \in 0 .. Last(j) |-> f[i]]
    BY <1>1 DEF Begins
  <2> QED
    BY <1>2, <1>3, <2>1
<1>5. IsRun(Run(j))
  BY <1>4, Zenon DEF Run
<1>6. ASSUME NEW i \in 0 .. Last(j) PROVE Run(j)[i] = body(Run(j), i)
  BY <1>2, <1>5
<1>7. DOMAIN Run(j) = 0 .. Last(j) /\ Run(j) = [i \in 0 .. Last(j) |-> Run(j)[i]]
  <2> HIDE DEF body, symbols
  <2> QED
    BY <1>2, <1>5
<1>8. Run(j)[0] = StartOf[j.kind]
  BY <1>2, <1>6
<1>9. ASSUME NEW i \in 1 .. Last(j)
      PROVE  Run(j)[i] = After(Run(j)[i - 1], SymbolAt(j, i))
  <2>1. i \in 0 .. Last(j) /\ i # 0
    BY <1>2, SMT
  <2> QED
    BY <1>6, <2>1, SymbolFacts DEF After
<1>10. ASSUME NEW i \in 0 .. Last(j) PROVE Run(j)[i] \in Targets
  <2> DEFINE strays == {k \in 0 .. Last(j) : Run(j)[k] \notin Targets}
  <2>1. ASSUME strays # {} PROVE FALSE
    <3>1. strays \in SUBSET Nat
      BY <1>2
    <3>2. PICK m \in strays : \A k \in strays : m <= k
      <4> HIDE DEF strays
      <4> QED
        BY <2>1, <3>1, LeastNat
    <3>3. m # 0
      BY <1>8, SymbolFacts, AutomatonAssumption
    <3>4. m \in 1 .. Last(j) /\ m - 1 \in 0 .. Last(j) /\ ~(m <= m - 1)
      BY <1>2, <3>3, SMT
    <3>5. Run(j)[m - 1] \in Targets
      BY <3>2, <3>4
    <3>6. Run(j)[m] \in Targets
      BY <1>9, <3>4, <3>5, AfterFacts, SymbolFacts
    <3> QED
      BY <3>6
  <2> QED
    BY <2>1
<1> QED
  BY <1>7, <1>8, <1>9, <1>10 DEF Begins

\* A special state is never left.
LEMMA SpecialStays ==
    ASSUME NEW j \in Jobs, NEW i \in 0 .. Last(j), Run(j)[i] \in Special,
           NEW k \in i .. Last(j)
    PROVE  Run(j)[k] = Run(j)[i]
<1> DEFINE left == {m \in i .. Last(j) : Run(j)[m] # Run(j)[i]}
<1>1. Last(j) \in Nat
  BY SymbolFacts
<1>2. ASSUME left # {} PROVE FALSE
  <2>1. left \in SUBSET Nat
    BY <1>1, SMT
  <2>2. PICK m \in left : \A n \in left : m <= n
    <3> HIDE DEF left
    <3> QED
      BY <1>2, <2>1, LeastNat
  <2>3. m \in i .. Last(j) /\ m # i
    OBVIOUS
  <2>4. m \in 1 .. Last(j) /\ m - 1 \in i .. Last(j) /\ ~(m <= m - 1)
    BY <1>1, <2>3, SMT
  <2>5. Run(j)[m - 1] = Run(j)[i]
    BY <2>2, <2>4
  <2>6. Run(j)[m] = After(Run(j)[m - 1], SymbolAt(j, m))
    BY <2>4, RunFacts DEF Begins
  <2> QED
    BY <2>5, <2>6 DEF After
<1> QED
  BY <1>2

-----------------------------------------------------------------------------
(* What a search knows, and why its answer is right *)

\* How far the run is that thread t serves: the byte it holds is not part of it yet.
At(t) == IF phase[t] = "loop" /\ pc[t] # "fetch" THEN p[t] - 1 ELSE p[t]

\* Where the first q + 1 states of a run report a match, and which ids.
Reports(j, q) == {i \in 0 .. q : Run(j)[i] \in Matching}
IdsOf(j, q) ==
    IF ManyMatch /\ ~j.earliest
    THEN UNION {MatchIds[Run(j)[i]] : i \in Reports(j, q)} ELSE {}

\* n is where the last of these matches ended, -1 if there is none.
LastEnd(j, q, n) ==
    /\ Reports(j, q) = {} => n = -1
    /\ Reports(j, q) # {} =>
          \E i \in Reports(j, q) : /\ n = MatchEnd(i)
                                   /\ \A k \in Reports(j, q) : MatchEnd(k) <= n

\* The search stands at the q-th state of the run and knows what it reported.
Place(t, q) ==
    /\ q \in 0 .. Len(job[t].text)
    /\ Run(job[t])[q] \in Content
    /\ LastEnd(job[t], q, lastmatch[t])
    /\ matches[t] = IdsOf(job[t], q)
    /\ job[t].earliest => Reports(job[t], q) = {}
    /\ phase[t] = "end" => q = Len(job[t].text)
    /\ pc[t] # "fetch" => sym[t] = SymbolAt(job[t], q + 1)

\* So do the pointers it relies on, or the copies it is about to restore them from.
Carried(t, q) ==
    /\ UsesStart(t) => start[t] = StartOf[job[t].kind]
    /\ UsesState(t) => s[t] = Run(job[t])[q]
    /\ pc[t] \in {"wlock", "clear", "restore_start", "restore_s"} =>
          save_s[t] = Run(job[t])[q]
    /\ pc[t] \in {"wlock", "clear", "restore_start"} /\ phase[t] = "loop" =>
          save_start[t] = StartOf[job[t].kind]
    /\ pc[t] = "take" => ns[t] = Run(job[t])[q + 1]

\* What a thread's variables have to do with the call it serves.
Tracks(t) ==
    /\ pc[t] # "unlock" /\ phase[t] = "start" => lastmatch[t] = -1 /\ matches[t] = {}
    /\ pc[t] # "unlock" /\ phase[t] # "start" => Place(t, At(t)) /\ Carried(t, At(t))
    /\ pc[t] = "unlock" =>
          \/ answer[t] = Expected(job[t])
          \/ answer[t] = Failed /\ BailWhenSlow /\ ~ManyMatch

TrackInv == DOMAIN matches = Threads /\ \A t \in Threads : Tracks(t)

LEMMA ReportsFacts ==
    ASSUME NEW j \in Jobs, NEW q \in 0 .. Last(j)
    PROVE  /\ Reports(j, q) \in SUBSET (0 .. q)
           /\ \A i \in Reports(j, q) : MatchEnd(i) \in 0 .. Len(j.text)
<1>1. Last(j) = Len(j.text) + 1 /\ Len(j.text) \in Nat
  BY SymbolFacts
<1>2. ASSUME NEW i \in 0 .. q PROVE MatchEnd(i) \in 0 .. Len(j.text)
  BY <1>1, SMT DEF MatchEnd
<1> QED
  BY <1>2 DEF Reports

\* An early answer: the first state that reports a match settles the search for the
\* earliest one.
LEMMA EarliestSettled ==
    ASSUME NEW j \in Jobs, NEW q \in 0 .. Last(j), j.earliest,
           Run(j)[q] \in Matching, \A i \in 0 .. q : i # q => Run(j)[i] \notin Matching
    PROVE  Expected(j) = Found(MatchEnd(q), {})
<1> DEFINE reports == {i \in DOMAIN Run(j) : Run(j)[i] \in Matching}
           ends == {MatchEnd(i) : i \in reports}
<1>1. Last(j) = Len(j.text) + 1 /\ Len(j.text) \in Nat /\ DOMAIN Run(j) = 0 .. Last(j)
  BY SymbolFacts, RunFacts DEF Begins
<1>2. q \in reports /\ MatchEnd(q) \in ends
  BY <1>1
<1>3. ASSUME NEW i \in reports PROVE q <= i
  <2>1. i \in 0 .. Last(j) /\ (i \in 0 .. q => i = q)
    BY <1>1
  <2> QED
    BY <1>1, <2>1, SMT
<1>4. ASSUME NEW i \in reports PROVE MatchEnd(i) \in Nat /\ MatchEnd(q) <= MatchEnd(i)
  <2>1. i \in 0 .. Last(j) /\ q <= i
    BY <1>1, <1>3
  <2> QED
    BY <1>1, <2>1, SMT DEF MatchEnd
<1>5. ends \in SUBSET Nat /\ \A e \in ends : MatchEnd(q) <= e
  BY <1>4
<1>6. Min(ends) = MatchEnd(q)
  <2> HIDE DEF ends
  <2> QED
    BY <1>2, <1>5, MinIsUnique
<1> DEFINE full == \E i \in DOMAIN Run(j) : Run(j)[i] = FullMatch
           ep == CASE j.earliest /\ ends # {} -> Min(ends)
                   [] j.earliest /\ Run(j)[0] = FullMatch -> 0
                   [] full /\ ~(j.earliest /\ (ends # {} \/ Run(j)[0] = FullMatch))
                        -> Len(j.text)
                   [] ends = {} /\ ~full -> -1
                   [] OTHER -> Max(ends)
<1>7. Expected(j) = Found(ep, {})
  BY DEF Expected
<1>8. ends # {}
  BY <1>2
<1>9. Run(j)[0] # FullMatch
  <2>1. 0 \in 0 .. Last(j) /\ q \in 0 .. Last(j)
    BY <1>1
  <2>2. Run(j)[0] = FullMatch => Run(j)[q] = FullMatch
    BY <2>1, SpecialStays DEF Special
  <2> QED
    BY <2>2, NamesAssumption, AutomatonAssumption
<1>10. ep = Min(ends)
  <2> HIDE DEF ends, full
  <2> QED
    BY <1>8, <1>9
<1> QED
  BY <1>6, <1>7, <1>10

\* Nothing is reported after the run has reached a special state.
LEMMA ReportsSettled ==
    ASSUME NEW j \in Jobs, NEW q \in 0 .. Last(j), Run(j)[q] \in Special \/ q = Last(j)
    PROVE  {i \in DOMAIN Run(j) : Run(j)[i] \in Matching} = Reports(j, q)
<1>1. Last(j) \in Nat /\ DOMAIN Run(j) = 0 .. Last(j)
  BY SymbolFacts, RunFacts DEF Begins
<1>2. ASSUME NEW i \in 0 .. Last(j), Run(j)[i] \in Matching PROVE i \in 0 .. q
  <2>1. CASE q = Last(j)
    BY <2>1
  <2>2. CASE Run(j)[q] \in Special /\ i \notin 0 .. q
    <3>1. i \in q .. Last(j)
      BY <1>1, <2>2, SMT
    <3>2. Run(j)[i] = Run(j)[q]
      BY <2>2, <3>1, SpecialStays
    <3> QED
      BY <1>2, <2>2, <3>2, NamesAssumption, AutomatonAssumption DEF Special
  <2> QED
    BY <2>1, <2>2
<1>3. 0 .. q \subseteq 0 .. Last(j)
  BY <1>1, SMT
<1> QED
  BY <1>1, <1>2, <1>3 DEF Reports

\* The run becomes a full match if and only if it has become one where it was settled.
LEMMA FullSettled ==
    ASSUME NEW j \in Jobs, NEW q \in 0 .. Last(j), Run(j)[q] \in Special \/ q = Last(j)
    PROVE  /\ (\E i \in DOMAIN Run(j) : Run(j)[i] = FullMatch) <=> Run(j)[q] = FullMatch
           /\ Run(j)[0] = FullMatch => Run(j)[q] = FullMatch
<1>1. Last(j) \in Nat /\ DOMAIN Run(j) = 0 .. Last(j)
  BY SymbolFacts, RunFacts DEF Begins
<1>2. ASSUME NEW i \in 0 .. Last(j), Run(j)[i] = FullMatch PROVE Run(j)[q] = FullMatch
  <2>1. CASE q \in i .. Last(j)
    BY <1>2, <2>1, SpecialStays DEF Special
  <2>2. CASE q \notin i .. Last(j)
    <3>1. i \in q .. Last(j) /\ q # Last(j)
      BY <1>1, <2>2, SMT
    <3>2. Run(j)[i] = Run(j)[q]
      BY <3>1, SpecialStays
    <3> QED
      BY <1>2, <3>2
  <2> QED
    BY <2>1, <2>2
<1>3. 0 \in 0 .. Last(j)
  BY <1>1
<1> QED
  BY <1>1, <1>2, <1>3

\* The answer at the end of the run, or where it has become special.
LEMMA Settled ==
    ASSUME NEW j \in Jobs, NEW q \in 0 .. Last(j), Run(j)[q] \in Special \/ q = Last(j),
           j.earliest => Reports(j, q) = {}, NEW n, LastEnd(j, q, n),
           j.earliest /\ q # 0 => Run(j)[0] # FullMatch
    PROVE  Expected(j) =
              Found(IF Run(j)[q] # FullMatch THEN n
                    ELSE IF j.earliest /\ q = 0 THEN 0 ELSE Len(j.text), IdsOf(j, q))
<1> DEFINE reports == {i \in DOMAIN Run(j) : Run(j)[i] \in Matching}
           ends == {MatchEnd(i) : i \in Reports(j, q)}
           full == \E i \in DOMAIN Run(j) : Run(j)[i] = FullMatch
           ep == CASE j.earliest /\ ends # {} -> Min(ends)
                   [] j.earliest /\ Run(j)[0] = FullMatch -> 0
                   [] full /\ ~(j.earliest /\ (ends # {} \/ Run(j)[0] = FullMatch))
                        -> Len(j.text)
                   [] ends = {} /\ ~full -> -1
                   [] OTHER -> Max(ends)
<1>1. reports = Reports(j, q)
  BY ReportsSettled
<1>2. /\ full <=> Run(j)[q] = FullMatch
      /\ Run(j)[0] = FullMatch => Run(j)[q] = FullMatch
  BY FullSettled
<1>3. Expected(j) = Found(ep, IdsOf(j, q))
  BY <1>1 DEF Expected, IdsOf
<1>4. ends # {} => Max(ends) = n
  <2>1. SUFFICES ASSUME ends # {} PROVE Max(ends) = n
    OBVIOUS
  <2>2. n \in ends /\ \A e \in ends : e <= n
    BY <2>1 DEF LastEnd
  <2>3. ends \in SUBSET (0 .. Len(j.text)) /\ Len(j.text) \in Nat
    BY ReportsFacts, SymbolFacts
  <2> HIDE DEF ends
  <2> QED
    BY <2>2, <2>3, MaxIsUnique
<1>5. ends = {} => n = -1
  BY DEF LastEnd
<1>6. j.earliest => ends = {}
  OBVIOUS
<1>7. ep = IF Run(j)[q] # FullMatch THEN n
           ELSE IF j.earliest /\ q = 0 THEN 0 ELSE Len(j.text)
  <2> HIDE DEF ends, full
  <2>1. CASE Run(j)[q] # FullMatch
    <3>1. ~full /\ Run(j)[0] # FullMatch
      BY <1>2, <2>1
    <3> QED
      BY <1>4, <1>5, <1>6, <2>1, <3>1
  <2>2. CASE Run(j)[q] = FullMatch
    <3>1. full
      BY <1>2, <2>2
    <3>2. CASE j.earliest /\ q = 0
      BY <1>6, <2>2, <3>1, <3>2
    <3>3. CASE ~(j.earliest /\ q = 0)
      BY <1>6, <2>2, <3>1, <3>3
    <3> QED
      BY <3>2, <3>3
  <2> QED
    BY <2>1, <2>2
<1> QED
  BY <1>3, <1>7

-----------------------------------------------------------------------------
(* The threads a step is not about *)

\* What Tracks(u) speaks of is as it was.
Kept(u) ==
    /\ pc'[u] = pc[u] /\ phase'[u] = phase[u] /\ job'[u] = job[u]
    /\ sym'[u] = sym[u] /\ p'[u] = p[u]
    /\ lastmatch'[u] = lastmatch[u] /\ matches'[u] = matches[u]
    /\ save_start'[u] = save_start[u] /\ save_s'[u] = save_s[u]
    /\ answer'[u] = answer[u]
    /\ pc[u] \notin Outside => start'[u] = start[u] /\ s'[u] = s[u] /\ ns'[u] = ns[u]

LEMMA KeptTracks ==
    ASSUME NEW u \in Threads, Tracks(u), Kept(u)
    PROVE  Tracks(u)'
<1> USE DEF Kept
<1>1. At(u)' = At(u)
  BY DEF At
<1>2. Place(u, At(u)) => Place(u, At(u))'
  BY <1>1 DEF Place
<1>3. UsesStart(u)' = UsesStart(u) /\ UsesState(u)' = UsesState(u)
  BY DEF UsesStart, UsesState
<1>4. Carried(u, At(u)) => Carried(u, At(u))'
  BY <1>1, <1>3 DEF Carried, UsesStart, UsesState, Outside
<1> QED
  BY <1>2, <1>4 DEF Tracks

\* A step of one thread leaves the others so: only a reset touches their pointers,
\* and then they are outside the locks.
LEMMA OthersSame ==
    ASSUME IInv, RoomInv, TrackInv, NEW t \in Threads, Step(t), NEW u \in Threads \ {t}
    PROVE  Kept(u)
<1> USE DEF locks, graph, cursor, recovery, call, Finish, IInv, TypeOK, RoomInv, TrackInv
<1>1. CASE ResetCache(t)
  <2>1. pc[u] \in Outside
    BY <1>1, NamesAssumption DEF ResetCache, LockDiscipline, Holds
  <2> QED
    BY <1>1, <2>1 DEF Kept, ResetCache
<1>2. CASE \/ ReaderLock(t) \/ QuickCheck(t) \/ LockMutex(t) \/ Recheck(t) \/ Expand(t)
           \/ Intern(t) \/ Publish(t) \/ Bail(t) \/ LockForWriting(t) \/ WriterLock(t)
  BY <1>2 DEF Kept, ReaderLock, QuickCheck, LockMutex, Recheck, Expand, Intern, Publish, Bail,
     LockForWriting, WriterLock
<1>3. CASE \/ RestoreStart(t) \/ RestoreS(t) \/ TakeStart(t) \/ Fetch(t) \/ TakeSpecial(t)
           \/ TakeState(t) \/ Unlock(t)
  BY <1>3 DEF Kept, RestoreStart, RestoreS, TakeStart, Fetch, TakeSpecial, TakeState, Unlock
<1> QED
  BY <1>1, <1>2, <1>3 DEF Step

-----------------------------------------------------------------------------
(* The steps that do not move along the run *)

\* Where the run goes from a state that is not special.
LEMMA NextOfRun ==
    ASSUME NEW j \in Jobs, NEW q \in 0 .. Len(j.text), Run(j)[q] \in Content
    PROVE  /\ Run(j)[q + 1] = Delta[Run(j)[q]][SymbolAt(j, q + 1)]
           /\ Run(j)[q + 1] \in Targets
<1>1. q + 1 \in 1 .. Last(j) /\ q + 1 \in 0 .. Last(j) /\ (q + 1) - 1 = q
  BY SymbolFacts, SMT
<1>2. Run(j)[q + 1] = After(Run(j)[(q + 1) - 1], SymbolAt(j, q + 1))
  BY <1>1, RunFacts DEF Begins
<1>3. Run(j)[q + 1] \in Targets
  BY <1>1, RunFacts DEF Begins
<1> QED
  BY <1>1, <1>2, <1>3, NamesAssumption DEF After, Special

\* A step that changes neither the place nor the byte in hand.
LEMMA SamePlace ==
    ASSUME NEW t \in Threads, Tracks(t),
           {pc[t], pc'[t]} \cap {"fetch", "unlock"} = {},
           phase'[t] = phase[t], job'[t] = job[t], sym'[t] = sym[t], p'[t] = p[t],
           lastmatch'[t] = lastmatch[t], matches'[t] = matches[t],
           phase[t] # "start" /\ Place(t, At(t)) /\ Carried(t, At(t)) =>
              Carried(t, At(t))'
    PROVE  Tracks(t)'
<1>1. At(t)' = At(t) /\ pc[t] # "unlock" /\ pc'[t] # "unlock" /\ pc[t] # "fetch" /\ pc'[t] # "fetch"
  BY DEF At
<1>2. Place(t, At(t)) => Place(t, At(t))'
  BY <1>1 DEF Place
<1> QED
  BY <1>1, <1>2 DEF Tracks

\* Taking and leaving locks, and computing an arrow.
LEMMA QuietTracks ==
    ASSUME IInv, TrackInv, NEW t \in Threads,
           \/ ReaderLock(t) \/ LockMutex(t) \/ Expand(t) \/ Intern(t) \/ WriterLock(t)
           \/ LockForWriting(t)
    PROVE  Tracks(t)'
<1> USE DEF locks, graph, cursor, recovery, call
<1>0. /\ Tracks(t) /\ pc \in [Threads -> PCs] /\ ns \in [Threads -> Pointers]
      /\ save_start \in [Threads -> Pointers] /\ save_s \in [Threads -> Pointers]
  BY DEF IInv, TypeOK, TrackInv
<1>1. CASE ReaderLock(t) \/ LockMutex(t) \/ Expand(t) \/ Intern(t)
  <2>1. /\ phase' = phase /\ job' = job /\ sym' = sym /\ p' = p /\ lastmatch' = lastmatch
        /\ matches' = matches /\ start' = start /\ s' = s
        /\ pc[t] \in {"rlock", "mutex", "recheck", "intern"}
        /\ pc'[t] \in {"quick", "recheck", "intern", "publish"}
    BY <1>0, <1>1 DEF ReaderLock, LockMutex, Expand, Intern
  <2>2. pc[t] = "rlock" => phase[t] = "start"
    BY DEF IInv, Local
  <2>3. At(t)' = At(t)
    BY <2>1 DEF At
  <2>4. phase[t] # "start" /\ Carried(t, At(t)) => Carried(t, At(t))'
    BY <2>1, <2>2, <2>3 DEF Carried, UsesStart, UsesState, Outside
  <2> QED
    BY <1>0, <2>1, <2>4, SamePlace
<1>2. CASE LockForWriting(t)
  <2>1. /\ phase' = phase /\ job' = job /\ sym' = sym /\ p' = p /\ lastmatch' = lastmatch
        /\ matches' = matches
        /\ pc[t] = "oom" /\ pc'[t] \in {"wlock", "clear"}
        /\ phase[t] = "loop" => save_start'[t] = start[t]
        /\ phase[t] # "start" => save_s'[t] = s[t]
    BY <1>0, <1>2 DEF LockForWriting
  <2>3. At(t)' = At(t)
    BY <2>1 DEF At
  <2>4. phase[t] # "start" /\ Carried(t, At(t)) => Carried(t, At(t))'
    BY <2>1, <2>3 DEF Carried, UsesStart, UsesState, Outside
  <2> QED
    BY <1>0, <2>1, <2>4, SamePlace
<1>3. CASE WriterLock(t)
  <2>1. /\ phase' = phase /\ job' = job /\ sym' = sym /\ p' = p /\ lastmatch' = lastmatch
        /\ matches' = matches /\ save_s' = save_s /\ save_start' = save_start
        /\ pc[t] = "wlock" /\ pc'[t] = "clear"
    BY <1>0, <1>3 DEF WriterLock
  <2>3. At(t)' = At(t)
    BY <2>1 DEF At
  <2>4. phase[t] # "start" /\ Carried(t, At(t)) => Carried(t, At(t))'
    BY <2>1, <2>3 DEF Carried, UsesStart, UsesState, Outside
  <2> QED
    BY <1>0, <2>1, <2>4, SamePlace
<1> QED
  BY <1>1, <1>2, <1>3

\* The arrow that leads from where a search stands leads to where the run goes on.
LEMMA GoalOfRun ==
    ASSUME IInv, NEW t \in Threads, phase[t] # "start", pc[t] \in {"quick", "recheck", "publish"},
           Place(t, At(t)), Carried(t, At(t))
    PROVE  Goal(t) = Run(job[t])[At(t) + 1]
<1>1. job[t] \in Jobs /\ At(t) \in 0 .. Len(job[t].text)
  BY DEF IInv, TypeOK, Place
<1>2. s[t] = Run(job[t])[At(t)] /\ sym[t] = SymbolAt(job[t], At(t) + 1)
  BY DEF Place, Carried, UsesState, Outside
<1> QED
  BY <1>1, <1>2, NextOfRun DEF Goal, Place

\* Finding an arrow, or having computed it.
LEMMA ArrowTracks ==
    ASSUME IInv, RoomInv, TrackInv, NEW t \in Threads,
           QuickCheck(t) \/ Recheck(t) \/ Publish(t)
    PROVE  Tracks(t)'
<1> USE DEF locks, graph, cursor, recovery, call
<1>0. /\ Tracks(t) /\ pc \in [Threads -> PCs] /\ ns \in [Threads -> Pointers]
      /\ DOMAIN answer = Threads
  BY DEF IInv, TypeOK, TrackInv, RoomInv
<1>1. /\ phase' = phase /\ job' = job /\ sym' = sym /\ p' = p /\ lastmatch' = lastmatch
      /\ matches' = matches /\ start' = start /\ s' = s
      /\ pc[t] \in {"quick", "recheck", "publish"}
  BY DEF QuickCheck, Recheck, Publish
<1>2. pc'[t] \in {"take", "mutex", "oom"}
  <2>1. CASE Publish(t)
    <3>1. ~(retried[t] /\ ns[t] = NULL)
      BY <2>1 DEF Publish, RoomInv, Room
    <3> QED
      BY <1>0, <2>1, <3>1 DEF Publish
  <2>2. CASE QuickCheck(t) \/ Recheck(t)
    BY <1>0, <2>2 DEF QuickCheck, Recheck
  <2> QED
    BY <2>1, <2>2
<1>3. pc'[t] = "take" => ns'[t] = Goal(t)
  <2>1. CASE Publish(t)
    <3>1. ns' = ns /\ ns[t] \in {NULL, Goal(t)}
      BY <2>1 DEF Publish, IInv, Local
    <3>2. pc'[t] = "take" => ns[t] # NULL
      BY <1>0, <2>1 DEF Publish, Finish
    <3> QED
      BY <3>1, <3>2
  <2>2. CASE QuickCheck(t) \/ Recheck(t)
    <3>1. Arrow(t) \in {NULL, Goal(t)}
      BY <2>2, ArrowFacts DEF QuickCheck, Recheck
    <3>2. ns'[t] = Arrow(t) /\ (pc'[t] = "take" => Arrow(t) # NULL)
      BY <1>0, <2>2 DEF QuickCheck, Recheck
    <3> QED
      BY <3>1, <3>2
  <2> QED
    BY <2>1, <2>2
<1>4. At(t)' = At(t)
  BY <1>1, <1>2 DEF At
<1>5. ASSUME phase[t] # "start", Place(t, At(t)), Carried(t, At(t))
      PROVE  Carried(t, At(t))'
  <2>1. Goal(t) = Run(job[t])[At(t) + 1]
    BY <1>1, <1>5, GoalOfRun
  <2>2. UsesStart(t)' = UsesStart(t) /\ UsesState(t)' = UsesState(t)
    BY <1>1, <1>2 DEF UsesStart, UsesState, Outside
  <2> QED
    BY <1>1, <1>2, <1>3, <1>4, <1>5, <2>1, <2>2 DEF Carried
<1> QED
  BY <1>0, <1>1, <1>2, <1>5, SamePlace

\* Losing the cache, and finding the two states again.
LEMMA ResetTracks ==
    ASSUME IInv, RoomInv, TrackInv, NEW t \in Threads,
           ResetCache(t) \/ RestoreStart(t) \/ RestoreS(t)
    PROVE  Tracks(t)'
<1> USE DEF locks, graph, cursor, recovery, call
<1>0. /\ Tracks(t) /\ pc \in [Threads -> PCs] /\ start \in [Threads -> Pointers]
      /\ s \in [Threads -> Pointers] /\ DOMAIN answer = Threads
      /\ phase[t] \in {"start", "loop", "end"}
  BY DEF IInv, TypeOK, TrackInv, RoomInv
<1>1. CASE ResetCache(t)
  <2>1. /\ phase' = phase /\ job' = job /\ sym' = sym /\ p' = p /\ lastmatch' = lastmatch
        /\ matches' = matches /\ save_s' = save_s /\ save_start' = save_start
        /\ pc[t] = "clear"
        /\ pc'[t] = CASE phase[t] = "start" -> "quick"
                      [] phase[t] = "loop" -> "restore_start"
                      [] phase[t] = "end" -> "restore_s"
    BY <1>0, <1>1 DEF ResetCache
  <2>2. /\ pc'[t] \in {"quick", "restore_start", "restore_s"}
        /\ phase[t] # "start" => pc'[t] # "quick"
        /\ phase[t] = "loop" => pc'[t] = "restore_start"
    BY <1>0, <2>1
  <2>3. At(t)' = At(t)
    BY <2>1, <2>2 DEF At
  <2>4. phase[t] # "start" /\ Carried(t, At(t)) => Carried(t, At(t))'
    BY <2>1, <2>2, <2>3 DEF Carried, UsesStart, UsesState, Outside
  <2> QED
    BY <1>0, <2>1, <2>2, <2>4, SamePlace
<1>2. CASE RestoreStart(t)
  <2>1. /\ phase' = phase /\ job' = job /\ sym' = sym /\ p' = p /\ lastmatch' = lastmatch
        /\ matches' = matches /\ save_s' = save_s /\ s' = s
        /\ pc[t] = "restore_start" /\ phase[t] = "loop"
        /\ CachedState(save_start[t]) /\ start'[t] = CachedPtr(save_start[t])
    BY <1>0, <1>2 DEF RestoreStart, IInv, Local
  <2>2. PICK a \in Content : a = save_start[t]
    BY <2>1 DEF IInv, Local
  <2>3. Size[a] <= mem_budget_
    <3>1. Size[a] + Size[a] + Size[a] <= mem_budget_
      BY <2>1 DEF RoomInv, Room
    <3> QED
      BY <3>1, SizeAssumption DEF IInv, TypeOK
  <2>4. CachedPtr(a) = a /\ HasRoom(a)
    BY <2>1, <2>2, <2>3, CachedStateFits
  <2>5. pc'[t] = "restore_s" /\ start'[t] = save_start[t]
    BY <1>0, <1>2, <2>1, <2>2, <2>4 DEF RestoreStart
  <2>6. At(t)' = At(t)
    BY <2>1, <2>5 DEF At
  <2>7. phase[t] # "start" /\ Carried(t, At(t)) => Carried(t, At(t))'
    BY <2>1, <2>5, <2>6 DEF Carried, UsesStart, UsesState, Outside
  <2> QED
    BY <1>0, <2>1, <2>5, <2>7, SamePlace
<1>3. CASE RestoreS(t)
  <2>1. /\ phase' = phase /\ job' = job /\ sym' = sym /\ p' = p /\ lastmatch' = lastmatch
        /\ matches' = matches /\ start' = start
        /\ pc[t] = "restore_s"
        /\ CachedState(save_s[t]) /\ s'[t] = CachedPtr(save_s[t])
    BY <1>0, <1>3 DEF RestoreS
  <2>2. PICK a \in Content : a = save_s[t]
    BY <2>1 DEF IInv, Local
  <2>3. Size[a] <= mem_budget_
    <3>1. Size[a] + Size[a] <= mem_budget_
      BY <2>1 DEF RoomInv, Room
    <3> QED
      BY <3>1, SizeAssumption DEF IInv, TypeOK
  <2>4. CachedPtr(a) = a /\ HasRoom(a)
    BY <2>1, <2>2, <2>3, CachedStateFits
  <2>5. pc'[t] = "mutex" /\ s'[t] = save_s[t]
    BY <1>0, <1>3, <2>1, <2>2, <2>4 DEF RestoreS
  <2>6. At(t)' = At(t)
    BY <2>1, <2>5 DEF At
  <2>7. phase[t] # "start" /\ Carried(t, At(t)) => Carried(t, At(t))'
    BY <2>1, <2>5, <2>6 DEF Carried, UsesStart, UsesState, Outside
  <2> QED
    BY <1>0, <2>1, <2>5, <2>7, SamePlace
<1> QED
  BY <1>1, <1>2, <1>3

\* Coming, going, and giving up.
LEMMA EdgeTracks ==
    ASSUME IInv, RoomInv, TrackInv, NEW t \in Threads,
           Bail(t) \/ Unlock(t) \/ \E j \in Jobs : Begin(t, j)
    PROVE  Tracks(t)'
<1> USE DEF locks, graph, cursor, recovery, call
<1>0. /\ Tracks(t) /\ pc \in [Threads -> PCs] /\ lastmatch \in [Threads -> Int]
      /\ phase \in [Threads -> {"start", "loop", "end"}]
      /\ DOMAIN answer = Threads /\ DOMAIN matches = Threads
  BY DEF IInv, TypeOK, TrackInv, RoomInv
<1>1. CASE Bail(t)
  <2>1. pc'[t] = "unlock" /\ answer'[t] = Failed /\ BailWhenSlow /\ ~ManyMatch
    BY <1>0, <1>1 DEF Bail, Finish, TooSlow
  <2> QED
    BY <2>1 DEF Tracks
<1>2. CASE Unlock(t)
  BY <1>0, <1>2 DEF Unlock, Tracks
<1>3. CASE \E j \in Jobs : Begin(t, j)
  <2>1. /\ pc[t] = "idle" /\ pc'[t] = "rlock" /\ phase' = phase /\ lastmatch' = lastmatch
        /\ matches' = matches /\ phase[t] = "start"
    BY <1>0, <1>3 DEF Begin, IInv, Local
  <2> QED
    BY <1>0, <2>1 DEF Tracks
<1> QED
  BY <1>1, <1>2, <1>3

-----------------------------------------------------------------------------
(* The steps along the run *)

\* What is known at the first state of the run.
LEMMA FirstReport ==
    ASSUME NEW j \in Jobs
    PROVE  /\ Run(j)[0] \notin Matching =>
                 Reports(j, 0) = {} /\ LastEnd(j, 0, -1) /\ IdsOf(j, 0) = {}
           /\ Run(j)[0] \in Matching =>
                 /\ Reports(j, 0) = {0} /\ LastEnd(j, 0, 0)
                 /\ IdsOf(j, 0) = IF ManyMatch /\ ~j.earliest THEN MatchIds[Run(j)[0]] ELSE {}
<1>1. \A i : i \in 0 .. 0 <=> i = 0
  BY SMT
<1>2. CASE Run(j)[0] \notin Matching
  <2>1. Reports(j, 0) = {}
    BY <1>1, <1>2 DEF Reports
  <2> QED
    BY <1>2, <2>1 DEF LastEnd, IdsOf
<1>3. CASE Run(j)[0] \in Matching
  <2>1. Reports(j, 0) = {0}
    BY <1>1, <1>3 DEF Reports
  <2>2. LastEnd(j, 0, 0)
    BY <2>1 DEF LastEnd, MatchEnd
  <2>3. UNION {MatchIds[Run(j)[i]] : i \in {0}} = MatchIds[Run(j)[0]]
    OBVIOUS
  <2> QED
    BY <1>3, <2>1, <2>2, <2>3 DEF IdsOf
<1> QED
  BY <1>2, <1>3

\* What one more state adds.
LEMMA NextReport ==
    ASSUME NEW j \in Jobs, NEW q \in 0 .. Len(j.text), NEW n, LastEnd(j, q, n)
    PROVE  /\ Run(j)[q + 1] \notin Matching =>
                 /\ Reports(j, q + 1) = Reports(j, q) /\ LastEnd(j, q + 1, n)
                 /\ IdsOf(j, q + 1) = IdsOf(j, q)
           /\ Run(j)[q + 1] \in Matching =>
                 /\ Reports(j, q + 1) = Reports(j, q) \cup {q + 1}
                 /\ LastEnd(j, q + 1, q)
                 /\ IdsOf(j, q + 1) = IdsOf(j, q) \cup
                       IF ManyMatch /\ ~j.earliest THEN MatchIds[Run(j)[q + 1]] ELSE {}
<1>1. Len(j.text) \in Nat /\ q \in Nat /\ q + 1 # 0
  BY SymbolFacts, SMT
<1>2. \A i : i \in 0 .. q + 1 <=> i \in 0 .. q \/ i = q + 1
  BY <1>1, SMT
<1>3. CASE Run(j)[q + 1] \notin Matching
  <2>1. Reports(j, q + 1) = Reports(j, q)
    BY <1>2, <1>3 DEF Reports
  <2> QED
    BY <1>3, <2>1 DEF LastEnd, IdsOf
<1>4. CASE Run(j)[q + 1] \in Matching
  <2>1. Reports(j, q + 1) = Reports(j, q) \cup {q + 1}
    BY <1>2, <1>4 DEF Reports
  <2>2. LastEnd(j, q + 1, q)
    <3>1. MatchEnd(q + 1) = q
      BY <1>1, SMT DEF MatchEnd
    <3>2. ASSUME NEW k \in Reports(j, q) PROVE MatchEnd(k) <= q
      <4>1. k \in 0 .. q
        BY DEF Reports
      <4> QED
        BY <1>1, <4>1, SMT DEF MatchEnd
    <3> QED
      BY <1>1, <2>1, <3>1, <3>2 DEF LastEnd
  <2>3. UNION {MatchIds[Run(j)[i]] : i \in Reports(j, q) \cup {q + 1}}
           = (UNION {MatchIds[Run(j)[i]] : i \in Reports(j, q)}) \cup MatchIds[Run(j)[q + 1]]
    OBVIOUS
  <2> QED
    BY <1>4, <2>1, <2>2, <2>3 DEF IdsOf
<1> QED
  BY <1>3, <1>4

\* The first state, with an answer or without one.
LEMMA TakeStartTracks ==
    ASSUME IInv, RoomInv, TrackInv, NEW t \in Threads, TakeStart(t)
    PROVE  Tracks(t)'
<1> USE DEF locks, graph, cursor, recovery, call
<1> DEFINE j == job[t]
           begin == start_[job[t].kind]
<1>0. /\ Tracks(t) /\ pc \in [Threads -> PCs] /\ start \in [Threads -> Pointers]
      /\ s \in [Threads -> Pointers] /\ lastmatch \in [Threads -> Int]
      /\ phase \in [Threads -> {"start", "loop", "end"}]
      /\ DOMAIN answer = Threads /\ DOMAIN matches = Threads
      /\ j \in Jobs /\ j.kind \in StartKinds
  BY SymbolFacts DEF IInv, TypeOK, TrackInv, RoomInv
<1>1. /\ pc[t] = "take" /\ phase[t] = "start" /\ p[t] = 0
      /\ lastmatch[t] = -1 /\ matches[t] = {}
  BY <1>0 DEF TakeStart, Tracks, IInv, Local
<1>2. begin = StartOf[j.kind] /\ begin = Run(j)[0] /\ begin \in Targets
  <2>1. begin # NULL /\ begin \in {NULL, StartOf[j.kind]}
    BY <1>0, <1>1 DEF IInv, Local, GraphSound
  <2> QED
    BY <1>0, <2>1, RunFacts, AutomatonAssumption DEF Begins
<1>3. 0 \in 0 .. Last(j) /\ Len(j.text) \in Nat /\ 0 \in 0 .. Len(j.text)
  BY <1>0, SymbolFacts
<1>4. CASE begin \in Special
  <2>1. begin \notin Matching
    BY <1>4, NamesAssumption, AutomatonAssumption DEF Special
  <2>2. Expected(j) = Found(IF begin # FullMatch THEN -1
                            ELSE IF j.earliest THEN 0 ELSE Len(j.text), {})
    <3>1. Reports(j, 0) = {} /\ LastEnd(j, 0, -1) /\ IdsOf(j, 0) = {}
      BY <1>0, <1>2, <2>1, FirstReport
    <3>2. Expected(j) = Found(IF Run(j)[0] # FullMatch THEN -1
                              ELSE IF j.earliest /\ 0 = 0 THEN 0 ELSE Len(j.text), IdsOf(j, 0))
      BY <1>0, <1>2, <1>3, <1>4, <3>1, Settled
    <3> QED
      BY <1>2, <3>1, <3>2
  <2>3. begin \notin Content
    BY <1>4, NamesAssumption DEF Special
  <2>4. Finish(t, Found(StartEnd(t, begin), {})) /\ job' = job
    BY <2>1, <2>3 DEF TakeStart
  <2>5. StartEnd(t, begin) = IF begin # FullMatch THEN -1
                             ELSE IF j.earliest THEN 0 ELSE Len(j.text)
    BY <1>4, NamesAssumption DEF StartEnd, Special, Len_
  <2> QED
    BY <1>0, <2>2, <2>4, <2>5 DEF Finish, Tracks
<1>5. CASE begin \in Matching /\ j.earliest
  <2>1. begin \notin Special
    BY <1>5, NamesAssumption, AutomatonAssumption DEF Special
  <2>2. Finish(t, Found(0, {})) /\ job' = job
    BY <1>5, <2>1 DEF TakeStart
  <2>3. Expected(j) = Found(0, {})
    <3>1. \A i \in 0 .. 0 : i # 0 => Run(j)[i] \notin Matching
      BY SMT
    <3>2. Expected(j) = Found(MatchEnd(0), {})
      BY <1>0, <1>2, <1>3, <1>5, <3>1, EarliestSettled
    <3> QED
      BY <3>2 DEF MatchEnd
  <2> QED
    BY <1>0, <2>2, <2>3 DEF Finish, Tracks
<1>6. CASE begin \notin Special /\ ~(begin \in Matching /\ j.earliest)
  <2>1. /\ pc'[t] = "fetch" /\ phase'[t] = "loop" /\ job' = job /\ p' = p
        /\ start'[t] = begin /\ s'[t] = begin
        /\ begin \in Matching => lastmatch'[t] = 0 /\ matches'[t] = Collected(t, begin)
        /\ begin \notin Matching => lastmatch' = lastmatch /\ matches' = matches
    BY <1>0, <1>6 DEF TakeStart
  <2>2. At(t)' = 0
    BY <1>1, <2>1 DEF At
  <2>3. LastEnd(j, 0, lastmatch'[t]) /\ matches'[t] = IdsOf(j, 0)
    BY <1>0, <1>1, <1>2, <2>1, FirstReport DEF Collected
  <2>4. j.earliest => Reports(j, 0) = {}
    BY <1>0, <1>2, <1>6, FirstReport
  <2>5. Run(j)[0] \in Content
    BY <1>2, <1>6 DEF Targets
  <2>6. Place(t, At(t))'
    BY <1>3, <2>1, <2>2, <2>3, <2>4, <2>5 DEF Place
  <2>7. Carried(t, At(t))'
    BY <1>2, <2>1, <2>2 DEF Carried
  <2> QED
    BY <2>1, <2>6, <2>7 DEF Tracks
<1> QED
  BY <1>4, <1>5, <1>6

\* Over the bytes that PrefixAccel skips the run stays in the start state.
LEMMA SkipRuns ==
    ASSUME NEW j \in Jobs, NEW q \in 0 .. Len(j.text), NEW from \in PrefixAccel(j.text, q),
           PrefixClasses # {}, j.kind \notin AnchoredKinds,
           StartOf[j.kind] \in Content \ NeedsFlags, Run(j)[q] = StartOf[j.kind]
    PROVE  /\ from \in q .. Len(j.text)
           /\ \A i \in q .. from : Run(j)[i] = StartOf[j.kind] /\ Run(j)[i] \notin Matching
<1> DEFINE strays == {m \in q .. from : Run(j)[m] # StartOf[j.kind]}
<1>1. /\ Len(j.text) \in Nat /\ Last(j) = Len(j.text) + 1 /\ q \in Nat
      /\ from \in q .. Len(j.text)
      /\ \A k \in q .. from - 1 : j.text[k + 1] \notin PrefixClasses
  BY SymbolFacts DEF PrefixAccel
<1>2. /\ StartOf[j.kind] \notin Matching
      /\ \A a \in Classes \ PrefixClasses : Delta[StartOf[j.kind]][a] = StartOf[j.kind]
  BY PrefixAssumption, SymbolFacts
<1>3. ASSUME strays # {} PROVE FALSE
  <2>1. strays \in SUBSET Nat
    BY <1>1, SMT
  <2>2. PICK m \in strays : \A k \in strays : m <= k
    <3> HIDE DEF strays
    <3> QED
      BY <1>3, <2>1, LeastNat
  <2>3. m \in q .. from /\ m # q
    OBVIOUS
  <2>4. /\ m - 1 \in q .. from /\ m - 1 \in q .. from - 1 /\ (m - 1) + 1 = m /\ ~(m <= m - 1)
        /\ m \in 1 .. Last(j) /\ m \in 1 .. Len(j.text)
    BY <1>1, <2>3, SMT
  <2>5. Run(j)[m - 1] = StartOf[j.kind]
    BY <2>2, <2>4
  <2>6. j.text[m] \notin PrefixClasses /\ j.text[m] \in Classes
    <3>1. j.text \in [1 .. Len(j.text) -> Classes]
      BY SymbolFacts, LenProperties
    <3> QED
      BY <1>1, <2>4, <3>1
  <2>7. Run(j)[m] = After(Run(j)[m - 1], j.text[m])
    BY <2>4, RunFacts, SymbolFacts DEF Begins
  <2>8. Run(j)[m] = StartOf[j.kind]
    BY <1>2, <2>5, <2>6, <2>7, NamesAssumption DEF After, Special
  <2> QED
    BY <2>8
<1> QED
  BY <1>1, <1>2, <1>3

\* So nothing is reported there either.
LEMMA SkipReports ==
    ASSUME NEW j \in Jobs, NEW q \in 0 .. Len(j.text), NEW from \in q .. Len(j.text),
           \A i \in q .. from : Run(j)[i] \notin Matching
    PROVE  Reports(j, from) = Reports(j, q)
<1>1. Len(j.text) \in Nat
  BY SymbolFacts
<1>2. \A i : i \in 0 .. from <=> i \in 0 .. q \/ i \in q .. from
  BY <1>1, SMT
<1> QED
  BY <1>2 DEF Reports

\* Skipping ahead and reading a byte.
LEMMA FetchTracks ==
    ASSUME IInv, RoomInv, TrackInv, NEW t \in Threads, Fetch(t)
    PROVE  Tracks(t)'
<1> USE DEF locks, graph, cursor, recovery, call
<1> DEFINE j == job[t]
           q == p[t]
<1>0. /\ Tracks(t) /\ pc \in [Threads -> PCs] /\ sym \in [Threads -> Symbols]
      /\ phase \in [Threads -> {"start", "loop", "end"}] /\ p \in [Threads -> Nat]
      /\ j \in Jobs /\ Len(j.text) \in Nat
  BY SymbolFacts DEF IInv, TypeOK, TrackInv
<1>1. /\ pc[t] = "fetch" /\ phase[t] = "loop" /\ At(t) = q
      /\ Place(t, q) /\ Carried(t, q)
  BY <1>0 DEF Fetch, Tracks, IInv, Local, At
<1>2. /\ q \in 0 .. Len(j.text)
      /\ start[t] = StartOf[j.kind] /\ s[t] = Run(j)[q]
      /\ start[t] \in Content
  <2>1. start[t] = StartOf[j.kind] /\ s[t] = Run(j)[q] /\ q \in 0 .. Len(j.text)
    BY <1>1 DEF Place, Carried, UsesStart, UsesState, Outside
  <2>2. start[t] \in state_cache_
    BY <1>1 DEF IInv, NoDanglingPointers, LocalsLive, UsesStart, Outside
  <2> QED
    BY <2>1, <2>2 DEF IInv, TypeOK
<1>3. PICK from \in IF CanPrefixAccel(t) /\ s[t] = start[t]
                    THEN PrefixAccel(j.text, q) ELSE {q} :
        \/ /\ from = Len_(t)
           /\ phase' = [phase EXCEPT ![t] = "end"]
           /\ p' = [p EXCEPT ![t] = from]
           /\ sym' = [sym EXCEPT ![t] = j.last]
        \/ /\ from # Len_(t)
           /\ phase' = phase
           /\ p' = [p EXCEPT ![t] = AfterByte(from)]
           /\ sym' = [sym EXCEPT ![t] = j.text[from + 1]]
  BY DEF Fetch
<1>4. /\ pc'[t] = "quick" /\ job' = job /\ start' = start /\ s' = s
      /\ lastmatch' = lastmatch /\ matches' = matches
  BY <1>0 DEF Fetch
<1>5. /\ from \in 0 .. Len(j.text) /\ Run(j)[from] = Run(j)[q]
      /\ Reports(j, from) = Reports(j, q)
  <2>1. CASE CanPrefixAccel(t) /\ s[t] = start[t]
    <3>1. /\ PrefixClasses # {} /\ j.kind \notin AnchoredKinds
          /\ StartOf[j.kind] \in Content \ NeedsFlags /\ Run(j)[q] = StartOf[j.kind]
          /\ from \in PrefixAccel(j.text, q)
      BY <1>2, <1>3, <2>1 DEF CanPrefixAccel
    <3>2. /\ from \in q .. Len(j.text)
          /\ \A i \in q .. from : Run(j)[i] = StartOf[j.kind] /\ Run(j)[i] \notin Matching
      BY <1>0, <1>2, <3>1, SkipRuns
    <3>3. from \in 0 .. Len(j.text) /\ from \in q .. from
      BY <1>0, <1>2, <3>2, SMT
    <3>4. Reports(j, from) = Reports(j, q)
      BY <1>0, <1>2, <3>2, SkipReports
    <3> QED
      BY <3>1, <3>2, <3>3, <3>4
  <2>2. CASE ~(CanPrefixAccel(t) /\ s[t] = start[t])
    BY <1>2, <1>3, <2>2
  <2> QED
    BY <2>1, <2>2
<1>6. /\ Run(j)[from] \in Content
      /\ LastEnd(j, from, lastmatch[t])
      /\ matches[t] = IdsOf(j, from)
      /\ j.earliest => Reports(j, from) = {}
  BY <1>1, <1>5 DEF Place, LastEnd, IdsOf
<1>7. /\ At(t)' = from /\ phase'[t] \in {"loop", "end"}
      /\ sym'[t] = SymbolAt(j, from + 1)
      /\ phase'[t] = "end" => from = Len(j.text)
  <2>1. CASE from = Len(j.text)
    <3>1. phase'[t] = "end" /\ p'[t] = from /\ sym'[t] = j.last
      BY <1>0, <1>3, <2>1 DEF Len_
    <3>2. SymbolAt(j, from + 1) = j.last
      BY <1>0, <2>1 DEF SymbolAt, Last
    <3> QED
      BY <1>4, <2>1, <3>1, <3>2 DEF At
  <2>2. CASE from # Len(j.text)
    <3>1. phase'[t] = "loop" /\ p'[t] = from + 1 /\ sym'[t] = j.text[from + 1]
      BY <1>0, <1>1, <1>3, <2>2 DEF Len_, AfterByte
    <3>2. SymbolAt(j, from + 1) = j.text[from + 1] /\ (from + 1) - 1 = from
      BY <1>0, <1>5, <2>2, SMT DEF SymbolAt, Last
    <3> QED
      BY <1>4, <3>1, <3>2 DEF At
  <2> QED
    BY <2>1, <2>2
<1>8. Place(t, At(t))'
  BY <1>4, <1>5, <1>6, <1>7 DEF Place
<1>9. Carried(t, At(t))'
  BY <1>2, <1>4, <1>5, <1>7 DEF Carried
<1> QED
  BY <1>4, <1>7, <1>8, <1>9 DEF Tracks

\* What is known of a thread that is about to follow an arrow of a state.
LEMMA TakeFacts ==
    ASSUME IInv, TrackInv, NEW t \in Threads, pc[t] = "take", phase[t] # "start"
    PROVE  /\ job[t] \in Jobs /\ At(t) \in 0 .. Len(job[t].text)
           /\ At(t) + 1 \in 0 .. Last(job[t]) /\ At(t) + 1 # 0
           /\ Place(t, At(t)) /\ Carried(t, At(t))
           /\ ns[t] = Run(job[t])[At(t) + 1] /\ ns[t] \in Targets
           /\ Run(job[t])[0] # FullMatch
           /\ MatchPosition(t) = At(t)
<1> DEFINE j == job[t]
           q == At(t)
<1>1. Tracks(t) /\ j \in Jobs /\ phase[t] \in {"loop", "end"}
  BY DEF IInv, TypeOK, TrackInv
<1>2. Place(t, q) /\ Carried(t, q)
  BY <1>1 DEF Tracks
<1>3. q \in 0 .. Len(j.text) /\ Run(j)[q] \in Content /\ ns[t] = Run(j)[q + 1]
  BY <1>2 DEF Place, Carried
<1>4. ns[t] \in Targets
  BY <1>1, <1>3, NextOfRun
<1>5. /\ q + 1 \in 0 .. Last(j) /\ q + 1 # 0 /\ 0 \in 0 .. Last(j) /\ q \in 0 .. Last(j)
  BY <1>1, <1>3, SymbolFacts, SMT
<1>6. Run(j)[0] # FullMatch
  BY <1>1, <1>3, <1>5, SpecialStays, NamesAssumption DEF Special
<1>7. MatchPosition(t) = q
  BY <1>1 DEF MatchPosition, At
<1> HIDE DEF j, q
<1> QED
  BY <1>1, <1>2, <1>3, <1>4, <1>5, <1>6, <1>7 DEF j, q

\* A special state ends the search.
LEMMA TakeSpecialTracks ==
    ASSUME IInv, RoomInv, TrackInv, NEW t \in Threads, TakeSpecial(t)
    PROVE  Tracks(t)'
<1> USE DEF locks, graph, cursor, recovery, call
<1> DEFINE j == job[t]
           q == At(t)
<1>0. pc \in [Threads -> PCs] /\ DOMAIN answer = Threads
  BY DEF IInv, TypeOK, RoomInv
<1>1. /\ pc[t] = "take" /\ phase[t] # "start" /\ ns[t] \in Special /\ job' = job
      /\ pc'[t] = "unlock" /\ answer'[t] = Found(SpecialEnd(t), matches[t])
  BY <1>0 DEF TakeSpecial, Finish
<1>2. /\ j \in Jobs /\ q \in 0 .. Len(j.text) /\ q + 1 \in 0 .. Last(j) /\ q + 1 # 0
      /\ Place(t, q) /\ ns[t] = Run(j)[q + 1] /\ Run(j)[0] # FullMatch
  BY <1>1, TakeFacts
<1>3. /\ LastEnd(j, q, lastmatch[t]) /\ matches[t] = IdsOf(j, q)
      /\ j.earliest => Reports(j, q) = {}
  BY <1>2 DEF Place
<1>4. Run(j)[q + 1] \in Special /\ Run(j)[q + 1] \notin Matching
  BY <1>1, <1>2, NamesAssumption, AutomatonAssumption DEF Special
<1>5. /\ LastEnd(j, q + 1, lastmatch[t]) /\ matches[t] = IdsOf(j, q + 1)
      /\ j.earliest => Reports(j, q + 1) = {}
  BY <1>2, <1>3, <1>4, NextReport
<1>6. Expected(j) = Found(IF Run(j)[q + 1] # FullMatch THEN lastmatch[t]
                          ELSE IF j.earliest /\ q + 1 = 0 THEN 0 ELSE Len(j.text),
                          IdsOf(j, q + 1))
  <2> HIDE DEF j, q
  <2> QED
    BY <1>2, <1>4, <1>5, Settled
<1>7. SpecialEnd(t) = IF Run(j)[q + 1] # FullMatch THEN lastmatch[t] ELSE Len(j.text)
  BY <1>2, <1>4, NamesAssumption DEF SpecialEnd, Special, Len_
<1>8. answer'[t] = Expected(j)
  BY <1>1, <1>2, <1>5, <1>6, <1>7
<1> QED
  BY <1>1, <1>8 DEF Tracks

\* Another state, with an answer or without one.
LEMMA TakeStateTracks ==
    ASSUME IInv, RoomInv, TrackInv, NEW t \in Threads, TakeState(t)
    PROVE  Tracks(t)'
<1> USE DEF locks, graph, cursor, recovery, call
<1> DEFINE j == job[t]
           q == At(t)
           c == ns[t]
<1>0. /\ pc \in [Threads -> PCs] /\ DOMAIN answer = Threads /\ DOMAIN matches = Threads
      /\ lastmatch \in [Threads -> Int] /\ s \in [Threads -> Pointers]
      /\ phase[t] \in {"start", "loop", "end"} /\ p[t] \in Nat
  BY DEF IInv, TypeOK, RoomInv, TrackInv
<1>1. /\ pc[t] = "take" /\ phase[t] # "start" /\ c \notin Special
      /\ job' = job /\ phase' = phase /\ p' = p /\ start' = start /\ s'[t] = c
      /\ c \in Matching => /\ lastmatch'[t] = MatchPosition(t)
                           /\ matches'[t] = matches[t] \cup Collected(t, c)
      /\ c \notin Matching => lastmatch' = lastmatch /\ matches' = matches
  BY <1>0 DEF TakeState
<1>2. /\ j \in Jobs /\ q \in 0 .. Len(j.text) /\ q + 1 \in 0 .. Last(j) /\ q + 1 # 0
      /\ Place(t, q) /\ Carried(t, q) /\ c = Run(j)[q + 1] /\ c \in Targets
      /\ Run(j)[0] # FullMatch /\ MatchPosition(t) = q
  BY <1>1, TakeFacts
<1>3. /\ LastEnd(j, q, lastmatch[t]) /\ matches[t] = IdsOf(j, q)
      /\ j.earliest => Reports(j, q) = {}
      /\ phase[t] = "end" => q = Len(j.text)
  BY <1>2 DEF Place
<1>4. Run(j)[q + 1] \in Content
  BY <1>1, <1>2 DEF Targets
<1>5. LastEnd(j, q + 1, lastmatch'[t]) /\ matches'[t] = IdsOf(j, q + 1)
  <2>1. CASE c \in Matching
    <3>1. /\ LastEnd(j, q + 1, q)
          /\ IdsOf(j, q + 1) = IdsOf(j, q) \cup
                IF ManyMatch /\ ~j.earliest THEN MatchIds[Run(j)[q + 1]] ELSE {}
      <4> HIDE DEF j, q
      <4> QED
        BY <1>2, <1>3, <2>1, NextReport
    <3>2. lastmatch'[t] = q /\ matches'[t] = IdsOf(j, q) \cup Collected(t, c)
      BY <1>1, <1>2, <1>3, <2>1
    <3>3. Collected(t, c) = IF ManyMatch /\ ~j.earliest THEN MatchIds[Run(j)[q + 1]] ELSE {}
      BY <1>2 DEF Collected
    <3> QED
      BY <3>1, <3>2, <3>3
  <2>2. CASE c \notin Matching
    BY <1>1, <1>2, <1>3, <2>2, NextReport
  <2> QED
    BY <2>1, <2>2
<1>6. CASE c \in Matching /\ j.earliest
  <2>1. pc'[t] = "unlock" /\ answer'[t] = Found(lastmatch'[t], matches'[t])
    BY <1>0, <1>6 DEF TakeState, Finish
  <2>2. \A i \in 0 .. q + 1 : i # q + 1 => Run(j)[i] \notin Matching
    <3>1. \A i \in 0 .. q : Run(j)[i] \notin Matching
      BY <1>3, <1>6 DEF Reports
    <3>2. \A i \in 0 .. q + 1 : i # q + 1 => i \in 0 .. q
      BY <1>2, SymbolFacts, SMT
    <3> QED
      BY <3>1, <3>2
  <2>3. Expected(j) = Found(MatchEnd(q + 1), {})
    <3> HIDE DEF j, q
    <3> QED
      BY <1>2, <1>6, <2>2, EarliestSettled
  <2>4. MatchEnd(q + 1) = q /\ lastmatch'[t] = q
    BY <1>1, <1>2, <1>6, SymbolFacts DEF MatchEnd
  <2>5. matches'[t] = {}
    BY <1>5, <1>6 DEF IdsOf
  <2> QED
    BY <1>1, <2>1, <2>3, <2>4, <2>5 DEF Tracks
<1>7. CASE ~(c \in Matching /\ j.earliest) /\ phase[t] = "end"
  <2>1. pc'[t] = "unlock" /\ answer'[t] = Found(lastmatch'[t], matches'[t])
    BY <1>0, <1>7 DEF TakeState, Finish
  <2>2. q + 1 = Last(j)
    BY <1>3, <1>7 DEF Last
  <2>3. j.earliest => Reports(j, q + 1) = {}
    BY <1>2, <1>3, <1>7, NextReport
  <2>4. Run(j)[q + 1] # FullMatch
    BY <1>1, <1>2 DEF Special
  <2>5. Expected(j) = Found(IF Run(j)[q + 1] # FullMatch THEN lastmatch'[t]
                            ELSE IF j.earliest /\ q + 1 = 0 THEN 0 ELSE Len(j.text),
                            IdsOf(j, q + 1))
    <3> DEFINE n == lastmatch'[t]
    <3>1. LastEnd(j, q + 1, n)
      BY <1>5
    <3> HIDE DEF j, q, n
    <3>2. Expected(j) = Found(IF Run(j)[q + 1] # FullMatch THEN n
                              ELSE IF j.earliest /\ q + 1 = 0 THEN 0 ELSE Len(j.text),
                              IdsOf(j, q + 1))
      BY <1>2, <2>2, <2>3, <3>1, Settled
    <3> QED
      BY <3>2 DEF n
  <2> QED
    BY <1>1, <1>5, <2>1, <2>4, <2>5 DEF Tracks
<1>8. CASE ~(c \in Matching /\ j.earliest) /\ phase[t] # "end"
  <2>1. pc'[t] = "fetch" /\ phase'[t] = "loop"
    BY <1>0, <1>1, <1>8 DEF TakeState
  <2>2. At(t)' = q + 1 /\ q + 1 \in 0 .. Len(j.text)
    <3>1. At(t)' = p[t] /\ p[t] = q + 1
      BY <1>0, <1>1, <1>8, <2>1 DEF At
    <3>2. p[t] \in 0 .. Len(j.text)
      BY DEF IInv, Local
    <3> QED
      BY <3>1, <3>2
  <2>3. j.earliest => Reports(j, q + 1) = {}
    BY <1>2, <1>3, <1>8, NextReport
  <2>4. Place(t, At(t))'
    BY <1>1, <1>4, <1>5, <2>1, <2>2, <2>3 DEF Place
  <2>5. start[t] = StartOf[j.kind]
    BY <1>1, <1>2, <2>1 DEF Carried, UsesStart, Outside
  <2>6. Carried(t, At(t))'
    BY <1>1, <1>2, <2>1, <2>2, <2>5 DEF Carried
  <2> QED
    BY <2>1, <2>4, <2>6 DEF Tracks
<1> QED
  BY <1>6, <1>7, <1>8

-----------------------------------------------------------------------------
LEMMA InitTrack == Init => TrackInv
  BY DEF Init, TrackInv, Tracks

LEMMA NextTrack == IInv /\ RoomInv /\ TrackInv /\ [Next]_vars => TrackInv'
  <1> SUFFICES ASSUME IInv, RoomInv, TrackInv, [Next]_vars PROVE TrackInv'
    OBVIOUS
  <1> USE DEF locks, graph, cursor, recovery, call
  <1>1. ASSUME NEW t \in Threads, NEW j \in Jobs, Begin(t, j) PROVE TrackInv'
    <2>1. DOMAIN matches' = Threads
      BY <1>1 DEF Begin, TrackInv
    <2>2. Tracks(t)'
      BY <1>1, EdgeTracks
    <2>3. ASSUME NEW u \in Threads \ {t} PROVE Tracks(u)'
      <3>1. Kept(u)
        BY <1>1 DEF Kept, Begin, IInv, TypeOK, RoomInv
      <3> QED
        BY <3>1, KeptTracks DEF TrackInv
    <2> QED
      BY <2>1, <2>2, <2>3 DEF TrackInv
  <1>2. ASSUME NEW t \in Threads, Step(t) PROVE TrackInv'
    <2>1. DOMAIN matches' = Threads
      BY <1>2 DEF TrackInv, Step, ReaderLock, QuickCheck, LockMutex, Recheck, Expand, Intern,
         Publish, Bail, LockForWriting, WriterLock, ResetCache, RestoreStart, RestoreS, TakeStart,
         Fetch, TakeSpecial, TakeState, Unlock
    <2>2. Tracks(t)'
      BY <1>2, QuietTracks, ArrowTracks, ResetTracks, EdgeTracks, TakeStartTracks, FetchTracks,
         TakeSpecialTracks, TakeStateTracks DEF Step
    <2>3. ASSUME NEW u \in Threads \ {t} PROVE Tracks(u)'
      BY <1>2, OthersSame, KeptTracks DEF TrackInv
    <2> QED
      BY <2>1, <2>2, <2>3 DEF TrackInv
  <1>3. CASE UNCHANGED vars
    <2>1. matches' = matches
      BY <1>3 DEF vars
    <2>2. ASSUME NEW u \in Threads PROVE Kept(u)
      BY <1>3 DEF vars, Kept
    <2> QED
      BY <2>1, <2>2, KeptTracks DEF TrackInv
  <1> QED
    BY <1>1, <1>2, <1>3 DEF Next

\* A search stands, whenever it reads a byte, where the run of its own call stands after
\* the bytes it has read, and has noted what that run reported; when it returns, its
\* answer is what the run means, or a failure where failing is allowed.  No interleaving,
\* reset of the cache or skip ahead changes that.
THEOREM SpecTracks == Spec => []TrackInv
  BY SpecIInv, InitTrack, NextTrack, InitRoom, NextRoom, PTL DEF Spec

-----------------------------------------------------------------------------
(* The refinement *)

\* What a caller sees of a thread.
Asked == [t \in Threads |-> IF pc[t] = "idle" THEN NULL ELSE job[t]]
Replied == [t \in Threads |-> IF pc[t] = "idle" THEN answer[t] ELSE NoAnswer]

LEMMA InitRefines == Init => Search!Init
  BY DEF Init, Search!Init

LEMMA BeginRefines ==
    ASSUME IInv, RoomInv, NEW t \in Threads, NEW j \in Jobs, Begin(t, j)
    PROVE  Search!Ask(t, j)
<1>1. /\ pc[t] = "idle" /\ pc' = [pc EXCEPT ![t] = "rlock"] /\ job' = [job EXCEPT ![t] = j]
      /\ answer' = [answer EXCEPT ![t] = NoAnswer]
      /\ pc \in [Threads -> PCs] /\ job \in [Threads -> Jobs] /\ DOMAIN answer = Threads
  BY DEF Begin, IInv, TypeOK, RoomInv
<1>2. Asked[t] = NULL
  BY <1>1 DEF Asked
<1>3. Asked' = [Asked EXCEPT ![t] = j]
  BY <1>1 DEF Asked
<1>4. Replied' = [Replied EXCEPT ![t] = NoAnswer]
  BY <1>1 DEF Replied
<1> QED
  BY <1>2, <1>3, <1>4 DEF Search!Ask, Asked, Replied

LEMMA UnlockRefines ==
    ASSUME IInv, RoomInv, TrackInv, NEW t \in Threads, Unlock(t)
    PROVE  Search!Reply(t)
<1>1. /\ pc[t] = "unlock" /\ pc' = [pc EXCEPT ![t] = "idle"] /\ job' = job /\ answer' = answer
      /\ pc \in [Threads -> PCs] /\ job \in [Threads -> Jobs] /\ DOMAIN answer = Threads
  BY DEF Unlock, IInv, TypeOK, RoomInv, call
<1>2. Asked[t] = job[t] /\ job[t] \in Jobs /\ Asked[t] # NULL
  BY <1>1, JobAssumption DEF Asked
<1>3. Asked' = [Asked EXCEPT ![t] = NULL]
  BY <1>1 DEF Asked
<1>4. Replied' = [Replied EXCEPT ![t] = answer[t]]
  BY <1>1 DEF Replied
<1>5. \/ answer[t] = ExpectedOf[Asked[t]]
      \/ answer[t] = Failed /\ BailWhenSlow /\ ~ManyMatch
  BY <1>1, <1>2 DEF TrackInv, Tracks, ExpectedOf
<1> QED
  BY <1>2, <1>3, <1>4, <1>5 DEF Search!Reply, Asked, Replied

\* Everything else happens where no caller looks.
LEMMA StepHidden ==
    ASSUME IInv, RoomInv, TrackInv, NEW t \in Threads, Step(t), ~Unlock(t)
    PROVE  Asked' = Asked /\ Replied' = Replied
<1> USE DEF locks, graph, cursor, recovery, call
<1>1. /\ pc \in [Threads -> PCs] /\ job' = job /\ DOMAIN answer = Threads
      /\ pc[t] # "idle" /\ pc'[t] # "idle"
  <2>1. pc \in [Threads -> PCs] /\ DOMAIN answer = Threads /\ phase[t] \in {"start", "loop", "end"}
    BY DEF IInv, TypeOK, RoomInv
  <2>2. job' = job /\ pc[t] # "idle"
    BY DEF Step, ReaderLock, QuickCheck, LockMutex, Recheck, Expand, Intern,
         Publish, Bail, LockForWriting, WriterLock, ResetCache, RestoreStart, RestoreS, TakeStart,
         Fetch, TakeSpecial, TakeState
  <2>3. CASE ResetCache(t)
    <3>1. pc'[t] = CASE phase[t] = "start" -> "quick"
                     [] phase[t] = "loop" -> "restore_start"
                     [] phase[t] = "end" -> "restore_s"
      BY <2>1, <2>3 DEF ResetCache
    <3> QED
      BY <2>1, <2>2, <3>1
  <2>4. CASE ~ResetCache(t)
    BY <2>1, <2>2, <2>4 DEF Step, ReaderLock, QuickCheck, LockMutex, Recheck, Expand, Intern,
         Publish, Bail, LockForWriting, WriterLock, RestoreStart, RestoreS, TakeStart,
         Fetch, TakeSpecial, TakeState, Finish
  <2> QED
    BY <2>1, <2>2, <2>3, <2>4
<1>2. ASSUME NEW u \in Threads \ {t} PROVE pc'[u] = pc[u] /\ answer'[u] = answer[u]
  BY OthersSame DEF Kept
<1> QED
  BY <1>1, <1>2 DEF Asked, Replied

\* To its callers a search is one step: it answers what the automaton says of the call,
\* whatever other threads do to the shared cache meanwhile, or fails, where it may.
THEOREM SpecImplementsSearch == Spec => Search!Safe
  <1> USE DEF Asked, Replied
  <1>1. ASSUME IInv, RoomInv, TrackInv, [Next]_vars PROVE Search!Next \/ (Asked' = Asked /\ Replied' = Replied)
    <2>1. ASSUME NEW t \in Threads, NEW j \in Jobs, Begin(t, j) PROVE Search!Next
      BY <1>1, <2>1, BeginRefines DEF Search!Next
    <2>2. ASSUME NEW t \in Threads, Unlock(t) PROVE Search!Next
      BY <1>1, <2>2, UnlockRefines DEF Search!Next
    <2>3. ASSUME NEW t \in Threads, Step(t), ~Unlock(t)
          PROVE  Asked' = Asked /\ Replied' = Replied
      BY <1>1, <2>3, StepHidden
    <2>4. CASE UNCHANGED vars
      BY <2>4 DEF vars, call
    <2> HIDE DEF Asked, Replied
    <2> QED
      BY <1>1, <2>1, <2>2, <2>3, <2>4 DEF Next
  <1>2. IInv /\ RoomInv /\ TrackInv /\ [Next]_vars => [Search!Next]_<<Asked, Replied>>
    BY <1>1
  <1> QED
    BY <1>2, SpecIInv, SpecTracks, InitRoom, NextRoom, InitRefines, PTL DEF Spec, Search!Safe

=============================================================================
