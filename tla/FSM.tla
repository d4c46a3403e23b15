-------------------------------- MODULE FSM --------------------------------
(***************************************************************************)
(* The table-driven library of util/: a Table that a DFA was exported to,  *)
(* the sequential run that results are compared with (Verify), the         *)
(* prediction of the states that chunks of the input begin in (Predictor), *)
(* and the Analyzer, which profiles the states, renumbers them by how hot  *)
(* they are and hashes the rows of the hot ones.                           *)
(*                                                                         *)
(* The chunks themselves are run elsewhere, each from a state of its own.  *)
(***************************************************************************)
EXTENDS Integers, FiniteSets, Sequences, SequencesExt

CONSTANTS
    MAXSLOT,        \* the most predictions for a chunk
    MaxProfiles,    \* bound: how often one Analyzer profiles
    Garbage         \* bound: the bytes that may be found before the input

ASSUME FSMAssumption == MAXSLOT \in Nat \ {0} /\ MaxProfiles \in Nat

VARIABLE fsm        \* the objects of one session with the library, and its step

LOOKBACK == 2

-----------------------------------------------------------------------------
(* A table: a row for each state, the start state and the accept states.   *)

States(table) == 0 .. Len(table.next) - 1
Row(table, q) == table.next[q + 1]

Columns(table) == DOMAIN Row(table, 0)

\* The states on the way from q, one after each byte of s, and the last of them.
Path(table, q, s) ==
    LET path[i \in 0 .. Len(s)] == IF i = 0 THEN q ELSE Row(table, path[i - 1])[s[i]]
    IN  path
Reached(table, q, s) == Path(table, q, s)[Len(s)]

-----------------------------------------------------------------------------
(* A run: an input, cut into as many chunks as blocks have threads.        *)

NumChunks(run) == run.blocks * run.threads
Chunks(run) == 0 .. NumChunks(run) - 1

\* What the division leaves over is not read by anybody.
ChunkLength(run) == Len(run.input) \div NumChunks(run)
Chunk(run, k) == SubSeq(run.input, k * ChunkLength(run) + 1, (k + 1) * ChunkLength(run))

\* Mistake: the state of a chunk is recorded before its last byte is read.
RecordedEarly(table, run, streams) ==
    [k \in Chunks(run) |->
        Reached(table, table.start, SubSeq(run.input, 1, (k + 1) * ChunkLength(run) - 1))]

\* run_CPU_multiInput, and run_CPU for a single stream: the state at the end of every
\* chunk, when every stream begins in the start state.
GroundTruth(table, run, streams) ==
    LET length == ChunkLength(run) * NumChunks(run)
        stream == length \div streams
        end(k) == (k + 1) * ChunkLength(run)
        begin(k) == ((end(k) - 1) \div stream) * stream
    IN [k \in Chunks(run) |->
           IF length = 0 THEN 0
           ELSE Reached(table, table.start, SubSeq(run.input, begin(k) + 1, end(k)))]

-----------------------------------------------------------------------------
(* Sorting by frequency.                                                   *)

\* The records of list, the most frequent first; those equally frequent in the order
\* of the list or the other way round, which stands for all that std::sort may do.
ByTimes(list, stable) ==
    LET before(i, j) ==
            \/ list[i].times > list[j].times
            \/ list[i].times = list[j].times /\ (IF stable THEN i < j ELSE i > j)
    IN [k \in DOMAIN list |->
           list[CHOOSE i \in DOMAIN list :
                    Cardinality({j \in DOMAIN list : before(j, i)}) = k - 1]]

\* A record for each state.
Counted(table, times) ==
    [k \in DOMAIN table.next |-> [state |-> k - 1, times |-> times[k - 1]]]

-----------------------------------------------------------------------------
(* Predictor.                                                              *)

\* Mistake: the last byte before the chunk is not looked at.
LookBackEarly(run, tid, garbage) ==
    LET index(i) == ChunkLength(run) * tid - LOOKBACK + i - 1
    IN [i \in 1 .. LOOKBACK |-> IF index(i) < 1 THEN garbage ELSE run.input[index(i)]]

\* The bytes before chunk tid.  Before the input there is garbage.
LookBack(run, tid, garbage) ==
    LET index(i) == ChunkLength(run) * tid - LOOKBACK + i
    IN [i \in 1 .. LOOKBACK |-> IF index(i) < 1 THEN garbage ELSE run.input[index(i)]]

NumSlots(table, slot) ==
    IF slot > Len(table.next) \/ slot > MAXSLOT
    THEN IF Len(table.next) < MAXSLOT THEN Len(table.next) ELSE MAXSLOT
    ELSE slot

\* How many states the bytes of window lead to q from.
TimesReached(table, window, q) ==
    Cardinality({p \in States(table) : Reached(table, p, window) = q})

\* The slots of a chunk: the first of a block begins in the start state; for any other
\* every state is run over the bytes before it, and those that most lead to are stored.
Predicted(table, run, tid, slots, stable, garbage) ==
    LET times == [q \in States(table) |-> TimesReached(table, LookBack(run, tid, garbage), q)]
    IN IF tid % run.threads = 0
       THEN [k \in 1 .. slots |-> [state |-> table.start,
                                   times |-> IF k = 1 THEN Len(table.next) ELSE 0]]
       ELSE SubSeq(ByTimes(Counted(table, times), stable), 1, slots)

-----------------------------------------------------------------------------
(* Analyzer.  mOfflineResults is the list hot.                             *)

\* A record for each state is appended, then the records are counted up by their place
\* in the list: on a list that was sorted before, they are those of other states.
Profiled(hot, table, visits, stable) ==
    LET list == hot \o Counted(table, [q \in States(table) |-> 0])
        up(k) == IF k <= Len(table.next) THEN visits[k - 1] ELSE 0
    IN ByTimes([k \in DOMAIN list |-> [list[k] EXCEPT !.times = @ + up(k)]], stable)

\* offlineHotArea: how many arrows lead to a state.
ArrowsTo(table, q) ==
    Cardinality({arrow \in UNION {{p} \X DOMAIN Row(table, p) : p \in States(table)} :
                    Row(table, arrow[1])[arrow[2]] = q})

\* offlineHotArea_withInput: how often a byte is read in a state, when chunk k begins
\* in todo[k].
ReadIn(table, run, todo, q) ==
    Cardinality({at \in Chunks(run) \X (0 .. ChunkLength(run) - 1) :
                    Reached(table, todo[at[1]], SubSeq(Chunk(run, at[1]), 1, at[2])) = q})

\* mTranslationTable_NewToOriginal: the hottest in their order, then the others in
\* the order of their numbers.  With a slot for every state it is that of
\* generateTranslationTable_old.
NewToOriginal(hot, slots) ==
    LET cold == {hot[k].state : k \in {k \in DOMAIN hot : k > slots}}
        rank(k) == CHOOSE q \in cold : Cardinality({p \in cold : p < q}) = k - slots
    IN [k \in 0 .. Len(hot) - 1 |-> IF k < slots THEN hot[k + 1].state ELSE rank(k)]

\* mTranslationTable_OriginalToNew.
OriginalToNew(original) ==
    [q \in {original[k] : k \in DOMAIN original} |->
        CHOOSE k \in DOMAIN original : original[k] = q]

\* Mistake: the rows are moved and not renumbered.
RowsMoved(table, original) ==
    [table EXCEPT !.next = [k \in DOMAIN @ |-> @[original[k - 1] + 1]]]

\* transform_Table: rows and arrows.  The start state that the table has is not.
TransformTable(table, original) ==
    LET new == OriginalToNew(original) IN
    [table EXCEPT !.next =
        [k \in DOMAIN @ |-> [c \in DOMAIN @[k] |-> new[@[original[k - 1] + 1][c]]]]]

HashOf(state, modulus, scalevar) == (state * scalevar) % modulus

\* The places of the states of hot with hash h.
Hashed(hot, threshold, scalevar, h) ==
    {k \in DOMAIN hot : HashOf(hot[k].state, threshold, scalevar) = h}

\* Mistake: a state that comes later takes the entry.
LastOf(places) == Max(places)

\* The hottest state of those with the same hash has the entry.
FirstOf(places) == Min(places)

\* loadHotArea_hash.
LoadHotArea(table, hot, threshold, scalevar) ==
    [h \in 0 .. threshold - 1 |->
        IF Hashed(hot, threshold, scalevar, h) = {} THEN [state |-> -1, row |-> <<>>]
        ELSE LET q == hot[FirstOf(Hashed(hot, threshold, scalevar, h))].state
             IN  [state |-> q, row |-> Row(table, q)]]

-----------------------------------------------------------------------------
(* A session.                                                              *)

\* A table as a DFA is exported to: each row leads from each byte to a state.
IsTable(table) ==
    /\ Len(table.next) > 0 /\ IsFiniteSet(Columns(table))
    /\ table \in [next : Seq([Columns(table) -> States(table)]), start : States(table)]

\* The states after an empty chunk are only right if the first state is numbered 0.
IsSession(table, run, streams) ==
    /\ IsTable(table)
    /\ run.input \in Seq(Columns(table))
    /\ {run.blocks, run.threads, streams} \subseteq Nat \ {0}
    /\ NumChunks(run) % streams = 0
    /\ table.start = 0 \/ Len(run.input) >= NumChunks(run)

\* What comes later is empty.
NoSession ==
    [step |-> "none", table |-> <<>>, run |-> <<>>, streams |-> 0, truth |-> <<>>,
     hot |-> <<>>, slots |-> <<>>, original |-> <<>>, renumbered |-> <<>>, todo |-> <<>>,
     results |-> <<>>, entries |-> <<>>, threshold |-> 0, scalevar |-> 0]

FSMInit == fsm = NoSession

At(steps) == fsm.step \in steps

\* Table::Table, Input::Input, and run_CPU, for streams of whole chunks.
RunCPU(table, run, streams) ==
    /\ At({"none"}) /\ NumChunks(run) % streams = 0
    /\ fsm' = [fsm EXCEPT !.step = "verified", !.table = table, !.run = run,
                          !.streams = streams, !.truth = GroundTruth(table, run, streams)]

\* startSpec.
StartSpec(slot, stable, garbage) ==
    /\ At({"verified"})
    /\ fsm' = [fsm EXCEPT !.step = "predicted",
                          !.slots = [tid \in Chunks(fsm.run) |->
                                        Predicted(fsm.table, fsm.run, tid,
                                                  NumSlots(fsm.table, slot), stable, garbage)]]

\* The states that the chunks begin in: todo_state, and later todo_message_h.
Todo ==
    [k \in Chunks(fsm.run) |->
        IF k % (NumChunks(fsm.run) \div fsm.streams) = 0 THEN fsm.table.start
        ELSE fsm.truth[k - 1]]

Profiles == Len(fsm.hot) \div Len(fsm.table.next)

OfflineHotArea(stable) ==
    /\ At({"verified", "profiled"}) /\ Profiles < MaxProfiles
    /\ fsm' = [fsm EXCEPT !.step = "profiled",
                          !.hot = Profiled(@, fsm.table,
                                           [q \in States(fsm.table) |-> ArrowsTo(fsm.table, q)],
                                           stable)]

OfflineHotAreaWithInput(stable) ==
    /\ At({"verified", "profiled"}) /\ Profiles < MaxProfiles
    /\ fsm' = [fsm EXCEPT !.step = "profiled",
                          !.hot = Profiled(@, fsm.table,
                                           [q \in States(fsm.table) |-> ReadIn(fsm.table, fsm.run, Todo, q)],
                                           stable)]

\* generateTranslationTable, then transform_Table.  If a list that does not fit the
\* table is found, the program exits.
Renumber(slots) ==
    LET original == NewToOriginal(fsm.hot, slots)
        new == OriginalToNew(original)
    IN
    /\ At({"profiled"})
    /\ \/ /\ Len(fsm.hot) # Len(fsm.table.next)
          /\ fsm' = [NoSession EXCEPT !.step = "exited"]
       \/ /\ Len(fsm.hot) = Len(fsm.table.next)
          /\ fsm' = [fsm EXCEPT !.step = "renumbered",
                                !.original = original,
                                !.renumbered = TransformTable(fsm.table, original),
                                !.todo = [k \in Chunks(fsm.run) |-> new[Todo[k]]]]

\* The chunks are run from the states that were translated with the table, then
\* transform_result.
Replay ==
    /\ At({"renumbered"})
    /\ fsm' = [fsm EXCEPT !.step = "replayed",
                          !.results = [k \in Chunks(fsm.run) |->
                              fsm.original[Reached(fsm.renumbered, fsm.todo[k], Chunk(fsm.run, k))]]]

LoadHot(threshold, scalevar) ==
    /\ At({"profiled"})
    /\ fsm' = [fsm EXCEPT !.step = "loaded", !.threshold = threshold, !.scalevar = scalevar,
                          !.entries = LoadHotArea(fsm.table, fsm.hot, threshold, scalevar)]

FSMNext ==
    \/ /\ At({"verified"})
       /\ \E slot \in 1 .. MAXSLOT + 1, stable \in BOOLEAN, garbage \in Garbage :
            StartSpec(slot, stable, garbage)
    \/ \E stable \in BOOLEAN : OfflineHotArea(stable) \/ OfflineHotAreaWithInput(stable)
    \/ At({"profiled"}) /\ \E slots \in {MAXSLOT, Len(fsm.table.next)} : Renumber(slots)
    \/ Replay
    \/ \E scalevar \in {1, MAXSLOT} : LoadHot(MAXSLOT, scalevar)

\* A session with any table and any input.
Opens == \E table, run, streams :
            IsSession(table, run, streams) /\ RunCPU(table, run, streams)

FSMSpec == FSMInit /\ [][Opens \/ FSMNext]_fsm

-----------------------------------------------------------------------------
(* Properties.                                                             *)

\* The state that a chunk really begins in is among its predictions, or there are fewer
\* of them than states and they are at least as frequent: unless the chunk is the first
\* of a block, or the bytes looked back at begin before the input.
PredictionsCover ==
    At({"predicted"}) /\ fsm.streams = 1 => \A tid \in Chunks(fsm.run) \ {0} :
        ChunkLength(fsm.run) * tid >= LOOKBACK /\ tid % fsm.run.threads # 0 =>
            LET slots == ToSet(fsm.slots[tid])
                begins == fsm.truth[tid - 1]
                end == ChunkLength(fsm.run) * tid
                window == SubSeq(fsm.run.input, end - LOOKBACK + 1, end)
            IN \/ \E s \in slots : s.state = begins /\ s.times > 0
               \/ /\ Cardinality(slots) < Len(fsm.table.next)
                  /\ \A s \in slots : s.times >= TimesReached(fsm.table, window, begins)

\* Run chunk by chunk through the renumbered table and translated back, an input ends
\* every chunk in the state that the sequential run has there.
RenumberingInvisible == At({"replayed"}) => fsm.results = fsm.truth

\* An entry of the hash table holds the row of its state, and no state that hashes to
\* it is hotter.
HotRowsExact ==
    At({"loaded"}) /\ Profiles = 1 => \A cur \in ToSet(fsm.hot) :
        LET entry == fsm.entries[HashOf(cur.state, fsm.threshold, fsm.scalevar)] IN
        /\ entry.row = Row(fsm.table, entry.state)
        /\ \E other \in ToSet(fsm.hot) :
            other.state = entry.state /\ other.times >= cur.times

\* The table of a DFA is one: no arrow, not even one that was dead, leads out of it.
TablesClosed == ~At({"none", "exited"}) => IsSession(fsm.table, fsm.run, fsm.streams)

\* What the library predicts, renumbers and hashes agrees with the sequential run.
LibraryAgrees == TablesClosed /\ PredictionsCover /\ RenumberingInvisible /\ HotRowsExact

=============================================================================
