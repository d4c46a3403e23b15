------------------------------ MODULE Engines ------------------------------
(***************************************************************************)
(* The engines over the programs of the compile pipeline: every program is *)
(* searched once, by one engine, or its DFA is exported, or asked for the  *)
(* range of its matches.                                                   *)
(***************************************************************************)
EXTENDS NFA, BitState, OnePass, DFAStates, FSM

\* A family also says with how many blocks and threads the table library is run.
ASSUME EnginesAssumption ==
    \A f \in Families : f.grids \subseteq (Nat \ {0}) \X (Nat \ {0})

engineVars == <<nfa, bit, onepass, dfa>>

EnginesInit ==
    Init /\ SearchInit /\ NFAInit /\ BitInit /\ OnePassInit /\ DFAInit /\ FSMInit

Compiles == PipelineNext /\ UNCHANGED <<searchVars, engineVars>>

\* A program is tested for being one-pass only in order to search it so: engines share
\* nothing but the program.
Others == onepass = Unset /\ UNCHANGED onepass

NFASearches == (SearchNFA \/ NFAStep) /\ Others /\ UNCHANGED <<bit, dfa>>

BitStateSearches ==
    (SearchBitState \/ NextAttempt \/ DoJob \/ Report) /\ Others /\ UNCHANGED <<nfa, dfa>>

OnePassSearches ==
    /\ IsOnePass \/ BuildNode \/ SearchOnePass \/ OnePassByte \/ OnePassEnd
    /\ UNCHANGED <<nfa, bit, dfa>>

DFASearchesText == (SearchDFA \/ SpecialStart \/ DFAByte \/ DFAEnd) /\ Others /\ UNCHANGED <<nfa, bit>>

DFAIsExported == (BuildAllStates \/ ExpandState \/ Exported) /\ Others /\ UNCHANGED <<nfa, bit>>

DFAIsBounded == PossibleMatchRange /\ Others /\ UNCHANGED <<nfa, bit>>

\* The table of a DFA for all matches, which has no state that is not in the cache, is
\* handed to the library, with an input as long as the texts.
TableIsRun ==
    /\ search.engine = "Export" /\ search.kind = "many"
    /\ answer # Unset /\ answer.next # <<>>
    /\ \E grid \in family.grids, t \in [1 .. family.text_length -> family.alphabet] :
        \E streams \in {1, grid[1] * grid[2]} :
            RunCPU([next |-> Table(answer.next), start |-> 0],
                   [input |-> t, blocks |-> grid[1], threads |-> grid[2]], streams)
    /\ search' = [engine |-> "Library"] /\ answer' = Unset
    /\ UNCHANGED <<vars, engineVars>>

LibraryRuns == FSMNext /\ UNCHANGED <<vars, searchVars, engineVars>>

EnginesNext ==
    \/ /\ \/ Compiles
          \/ NFASearches \/ BitStateSearches \/ OnePassSearches
          \/ DFASearchesText \/ DFAIsExported \/ DFAIsBounded
       /\ UNCHANGED fsm
    \/ TableIsRun \/ LibraryRuns

EnginesSpec == EnginesInit /\ [][EnginesNext]_<<vars, searchVars, engineVars, fsm>>

-----------------------------------------------------------------------------
NFAStackFits == nfa # Unset => nfa.nstack <= NStack

OnePassStackFits == onepass # Unset => onepass.nstack <= StackSize

DFAStackFits ==
    dfa # Unset => dfa.nstack <= DFAStack(dfa.matchkind) /\ dfa.nmark <= NMark(dfa.matchkind)

\* No engine reads beyond the end of the program, nor writes beyond the end of the
\* stack, or of the marks, that it sized by counting the program's instructions.
StacksFit == FlatProg /\ NFAStackFits /\ OnePassStackFits /\ DFAStackFits

\* Every state that BuildAllStates handles points into the cache.
ExportedStatesInCache ==
    dfa # Unset /\ search.engine = "Export" =>
        \A n \in DOMAIN dfa.m : dfa.m[n] \notin {DeadState, FullMatchState}

=============================================================================
