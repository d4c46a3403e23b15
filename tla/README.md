# RE2 with exported DFAs: specifications, model checks and proofs

The repository is a fork of RE2, Google's library of regular expressions that
run in linear time, extended by functions that write a whole DFA to a
transition table (`DFA::BuildAllStates`) and by a small library that runs such
tables (`util/fsm.cc`, `util/analyzer.cc`). This directory holds TLA+ modules
translated from the C++ code, the configurations with which TLC checks them on
small instances, and theorems about them that TLAPS proves for every instance.

File names below are relative to the repository's `re2/` unless they start with
`util/`.

## 1. The system

A pattern goes through a pipeline, is turned into a program, and the program is
run by one of four engines:

    pattern --parse.cc--> Regexp --simplify.cc--> Regexp --compile.cc--> Prog
        Prog --prog.cc: Optimize, Flatten, ComputeByteMap--> flat Prog
        RE2::Match (re2.cc) --> DFA (dfa.cc) | OnePass | BitState | NFA

Beside it, a regexp is turned into a filter (`prefilter.cc`), many patterns into
one set (`set.cc`) or a graph of filters (`prefilter_tree.cc`), a match into a
replacement (`re2.cc`), and a DFA into a table that is profiled and renumbered
(`util/`).

| component | state it keeps | operations | properties that make it correct |
|---|---|---|---|
| DFA cache and search, `dfa.cc` | `state_cache_`, `start_`, every state's `next_`, `mem_budget_`, the scratch queue `q0_`, `mutex_`, `cache_mutex_`; per search `start`, `s`, `ns`, `p`, `lastmatch`, `resetp` | `Search`, `AnalyzeSearch`, `InlinedSearchLoop`, `RunStateOnByte(Unlocked)`, `CachedState`, `ResetCache`, `StateSaver`, `RWLocker` | a search answers what the automaton says, for any schedule; no pointer to a deallocated state is used; every call returns |
| DFA construction, `dfa.cc` | work queues, instruction lists, flags | `StateToWorkq`, `AddToQueue`, `RunWorkqOnByte`, `WorkqToCachedState` | the arrows follow the program |
| whole-DFA export, `dfa.cc` | map of states, table | `BuildAllStates` (three of them) | the table is the DFA |
| FSM tables, `util/` | table, start and accept states, profile, both numberings of the states, hash of hot rows | `run_CPU`, `startSpec`, `offlineHotArea*`, `generateTranslationTable`, `transform_Table`, `transform_result`, `loadHotArea_hash` | predicted, renumbered and hashed tables agree with the plain run |
| matching front end, `re2.cc` | the compiled programs `prog_`, `rprog_`, lazily, under `rprog_once_` | `RE2::Match` | the answer is that of the regexp, whichever engines run |
| replacements, `re2.cc` | `p`, `lastend`, `out`, `count` of the loop | `Replace`, `GlobalReplace`, `Extract`, `Rewrite`, `CheckRewriteString` | the successive matches are replaced, each once, and nothing else |
| parser, `parse.cc` | a stack of regexps and markers, flags, the class being read | one per token: literals, operators, repetitions, groups, flags, classes; `DoConcatenation`, `DoAlternation`, `FactorAlternation` | the regexp means what the pattern means; an error is the first one |
| character classes, `regexp.h`, `unicode_casefold.cc` | ranges, counts of runes and letters | `AddRange`, `Negate`, `RemoveAbove`, `AddFoldedRange`, ... | disjoint ranges; the counts are theirs |
| simplifier, `simplify.cc`; walker | trees | `CoalesceWalker`, `SimplifyWalker`; `WalkInternal` | the meaning is kept, and nothing counted is left |
| printing, `tostring.cc` | precedences | `ToString` | what is printed is read back as the same |
| compiler, `compile.cc` | `inst_`, patch lists through the instructions, `rune_cache_`, `failed_` | `Cat`, `Alt`, `Star`, `Plus`, `Quest`, `AddRuneRange*`, ..., `Finish` | the program matches what the regexp matches, and prefers the same match |
| program passes, `prog.cc` | `inst_`, `start_`, sets of roots and predecessors, byte map | `Optimize`, `Flatten`, `ComputeHints`, `ComputeByteMap` | they keep the program's meaning; hints and byte classes lose no byte |
| NFA, OnePass, BitState | threads, captures, job stacks, visited bits | `SearchNFA`, `SearchOnePass`, `SearchBitState` | each answers what the program says |
| reference counts, `regexp.cc`, `parse.cc` | `ref_`, the map of overflowed counts, `down_` stacks | `Incref`, `Decref`, `Destroy`, `RemoveLeading*`, `Swap` | an object is deleted exactly when nothing refers to it |
| sparse array, `sparse_array.h` | `size_`, `sparse_`, `dense_`, both uninitialized at first | `has_index`, `set*`, `clear`, `resize` | it is a map with insertion order |
| prefilters, `filtered_re2.cc` | strings a match must contain; a graph of entries with counts and parents; regexps | `BuildInfo`, `AssignUniqueIds`, `Compile`, `RegexpsGivenStrings`; `Add`, `FirstMatch`, `AllMatches` | no match is filtered out; shared and pruned entries still lead to every regexp |
| `RE2::Set`, `set.cc` | patterns and ids, one program | `Add`, `Compile`, `Match` | ids of exactly the patterns that match |

How they interact. `RE2::Match` calls the engines and decides from the answer of
one which to call next. The engines of one `RE2` object share its program; the
DFAs inside it are built while they are used, by all threads at once. Two locks
guard a DFA: `mutex_` for computing arrows, `cache_mutex_` for the lifetime of
states, held for reading by each search and upgraded, with a gap, to clear the
cache. The reverse program is compiled by the first match that needs it.
Parser, compiler and passes run once, on one thread, but hand data to each other
through representation tricks (a stack of regexps with markers among them, edited
in place; patch lists threaded through the fields they will patch; an `AltMatch`
that stands for the next two instructions; a byte map that mixes classes and
colors). Work queues of the engines and of `Flatten` are sparse arrays that grow
while they are iterated over.

What is hard in it: the double-checked arrows and the lock upgrade of the DFA; a
cache limit met in the middle of a search; matches noticed one byte late; the
choice of engines at length limits and the fallbacks between them; factoring
that edits shared prefixes in place; loops over bodies that may be empty;
priorities kept through flattening; suffixes shared through a cache while others
are freed; counts that overflow into a map keyed by address; memory that is read
before it is written; states with two numberings. `PROJECT.json` lists each
hazard with its line and the properties that would catch it.

## 2. The modules

| module | models | extends or instantiates |
|---|---|---|
| `DFASearch` | what a search of a DFA promises: one step from call to answer | |
| `DFACache` | threads in `DFA::Search` with one shared, bounded cache | `DFASearch` (instance) |
| `DFACacheProofs` | theorems about the invariants of `DFACache`, and that it implements `DFASearch` | `DFACache`, `OrderLemmas` |
| `RE2Match` | `RE2::Match`, the engines being what they promise | |
| `RE2MatchProofs` | theorems about `RE2Match` | `RE2Match`, `OrderLemmas` |
| `SparseMap` | what a `SparseArray` promises: an ordered map | |
| `SparseArray` | `SparseArray` over uninitialized memory | `SparseMap` (instance) |
| `SparseArrayProofs` | theorems about `SparseArray` | `SparseArray` |
| `RegexpRef` | reference counts of `Regexp` | |
| `RegexpRefProofs` | theorems about `RegexpRef` | `RegexpRef` |
| `Regexps` | regexp trees, character classes, the bounded set of regexps compiled, and the bytes an instruction takes | |
| `Matching` | what a regexp matches (ends, in order of preference) and what a program matches (the backtracker) | `Regexps` |
| `Compiler` | `Compiler`, from a tree to a program | `Regexps` |
| `CompilerProofs` | the theorem about the patch lists of `Compiler` | `Compiler`, `OrderLemmas` |
| `ProgPasses` | `Optimize`, `Flatten`, `ComputeHints`, `ByteMapBuilder` with `ComputeByteMap` | `Regexps` |
| `Pipeline` | one regexp on its way through compiler and passes | `Compiler`, `ProgPasses` |
| `CompilePipeline` | what the programs on that way should mean | `Pipeline`, `Matching` |
| `ProgSearch` | a search of a program, and what engines ask of the program | `Pipeline` |
| `NFA` | `NFA::Search`: threads, captures, reference counts | `ProgSearch` |
| `BitState` | `BitState::Search`: jobs and visited bits | `ProgSearch` |
| `OnePass` | `IsOnePass` and `SearchOnePass` | `ProgSearch` |
| `DFAStates` | construction of DFA states, the search with them, `BuildAllStates`, `PossibleMatchRange` | `ProgSearch` |
| `FSM` | a table's run, its prediction, profile, renumbering and hash | |
| `Engines` | a program from the pipeline, searched by one of the engines, or exported and run as a table | `NFA`, `BitState`, `OnePass`, `DFAStates`, `FSM` |
| `EngineProofs` | theorems about `FSM`, and about `NFA`, `OnePass` and `DFAStates` in `Engines` | `Engines`, `OrderLemmas` |
| `Rewriting` | the answer a search should have; `Replace`, `GlobalReplace`, `Extract` with it | `Engines`, `Matching` |
| `CharClassBuilder`, `CaseFold` | classes of runes, and what folding and groups add to them | |
| `CharClassProofs` | theorems about `CharClassBuilder` | `CharClassBuilder`, `OrderLemmas` |
| `RegexpTrees` | nodes as the parser makes them, factoring of alternations, what a node means | |
| `Parser` | the parse stack, token by token; what it should make of its tokens, by recursive descent | |
| `Simplifier`, `Printer` | `Simplify`, `ToString` | `RegexpTrees` |
| `Walker` | the walk with its stack and its budget | |
| `Prefilters` | the filter of a regexp | `Walker` (instance) |
| `RuneRanges` | runes and bytes; rune ranges as instructions, with the suffix cache and the trie | |
| `FrontEnd` | one pattern: read, simplified, filtered, its classes encoded | all of these |
| `Collections` | the graph of filters, `FilteredRE2` and `RE2::Set` | `Prefilters`, `RuneRanges`, `Matching` |
| `PatternSets` | patterns read into a collection | `FrontEnd`, `Collections` |
| `OrderLemmas` | least and greatest elements of sets of numbers, and ranks, for the proofs | |
| `MC*` | small instances | the module they are named after |

### DFACache

One process per thread. `pc` is the place in `Search`, `phase` which arrow it
wants: `start_[kind]` (`AnalyzeSearch`), `s->next_[c]` in the loop, or the arrow
of the byte after the text. An action is one critical step: a load without lock
(`QuickCheck`), taking `mutex_`, the second check, loading the scratch queue
(`Expand`), `WorkqToCachedState` with the budget (`Intern`), the release store
(`Publish`), giving up (`Bail`), the two halves of `LockForWriting`, clearing,
restoring each saved state, consuming a byte (`Fetch`), taking the new state
with its matches (`TakeState`, `TakeSpecial`), and unlocking. The contents of
states is a constant (`Content`, `StartOf`, `Delta`, `Matching`, ...): what the
automaton is does not matter for sharing it. A `State*` is the contents of its
state until the cache is cleared; then every raw pointer anywhere turns into
`Dangling`, so that a later use is visible. `SharedReads` selects the
build of `util/mutex.h`: a reader-writer lock, or a `std::mutex` whose readers
exclude each other. `Reversed` and `SizeModulus` keep the width of the
subtraction `static_cast<size_t>(p - resetp)`.

### RE2Match

One call of `Match` is a sequence of steps: the checks at the entry, the
required prefix, the first DFA, the reverse DFA, the choice of the engine for
submatches. A regexp is the matches it has at each position of the text
(ordered by preference), its anchors, its prefix, whether it is one-pass, small
enough for BitState; an engine returns what it promises, or fails where the code
lets it fail. Length limits (`BitStateTextMax`, ...) are constants set at the
boundary of the texts.

### SparseArray

`sparse_` and `dense_` start with arbitrary garbage, and again do the cells that
`resize` adds. Iteration is part of the state, since the engines add entries
while they iterate. The refinement mapping makes `SparseMap`'s `order` of the
first `size_` indices in `dense_` and its `value` of the values beside them.

### RegexpRef

Objects are addresses of a finite set; `ref_` saturates at `kMaxRef`, above
which the count is in the map. `Destroy` runs step by step with its stack through
`down_`. Building operators only fix which counts they take over; the parser's
edits of leading regexps and strings, with `Swap`, are modelled as they are,
because they exchange what lives at an address.

### The compile pipeline

`Pipeline` picks a family of regexps (leaves, operators, a size and the
texts to compare on), then a regexp and a kind (forward, reverse, or a set with an
anchor), compiles it one tree node at a time, and then runs `Finish` and the
passes, one per step, keeping every intermediate program. `Compiler` has the instruction
array as the code does. A patch list, which the code threads through the very fields it
will patch, is the set of those fields, and a field on a list holds `Hole`; that no list is dropped,
shared or patched twice is what `HolesPatched` says. The two definitions of meaning are
in `Matching`, which only the properties in `CompilePipeline` and `Rewriting` use: `Ends` is the textbook meaning of a tree (sets of end positions,
with assertions looked up in the text around), `Run` is the depth-first search of
`testing/backtrack.cc`, which gives the match a program prefers with its
submatches. Bytes are numbered so that case folding, newline and word characters
each have their place (`Newline`, `UpperA`, `LowerA`, ...), and a class is
a sorted list of ranges as in `CharClass`.

### The engines

`ProgSearch` has a search as the engines are given it: the context, the span of
it that is the text, the anchor, the kind of match and the number of submatches.
`Reference`, in `Rewriting`, is its answer after `testing/backtrack.cc`, with which
`testing/tester.cc` compares the engines too. `Engines` takes a program when the
pipeline has delivered it, chooses one search and one engine, and runs that.
The loops of the code (over a stack, a queue, a list) are recursive functions of the number of
turns made, with a bound that the code does not have but cannot reach: an instruction is entered once
(`MaxJobs`, `MaxTurns`, `MaxIds`). What one turn does is an operator (`Explore`,
`FloodInst`, `Loop`, `RunEntry`, ...).

- `NFA`: a step is one turn of the loop over the text: `Step` over the run
  queue, then a new thread. Work queues are sequences of instructions with
  their threads; threads have numbers, counts and a free list as in the code.
- `BitState`: a step is one job popped from the stack, with everything visited
  until the next pop. A job is an instruction, a position and the number of
  later positions it stands for.
- `OnePass`: a step of `IsOnePass` builds one node; a step of the search takes
  one byte. An action word is a record of conditions, captures and the next node.
- `DFAStates`: a `State` is a sequence of instruction ids with marks and match
  ids, and its flags. A step of the search takes one byte; a step of the export
  expands one state. States are computed when they are wanted. Sharing, caching
  and clearing them is `DFACache`, for which the automaton is a constant; the
  automata it is run with are those that this construction gives.

What is abstracted: a search backward reads the mirror image of its context
(`View`); an arrow is computed for any byte of its class, as the cache keeps the
arrow computed first; prefixes have one byte, and `PrefixAccel` finds the first
occurrence; `BitState`'s stack has no size, and `GrowStack` is left out; a
program is searched once, by one engine. Running out of memory is part of
`DFACache` and `RE2Match` only. Texts whose data pointer is NULL, for
which some engines report another pointer, are not among the texts.

### Front end

`FrontEnd` reads one pattern of a family, simplifies it, builds its filter, and, in
families that ask for it, adds the ranges of its class one by one as the compiler
does. A token is what one turn of the parser's loop takes off the input, so `Parser`
has an operation for each kind of token, and a marker on the stack for a group or a
bar as in the code. `Reference` is what the tokens should give, written by recursive
descent and with no parse stack: alternatives are a set of choices, flags are passed
down, a class is the set of its runes, an error is the first that a reader from the
left meets. Both results are compared by what they match (`Meaning`, with
`Matching!Ends`), with the preference where the regexp is one that `mimics_pcre.cc`
admits.

- `RegexpTrees` has nodes as values; `FactorAlternation` runs in its rounds (common
  strings, common first regexps, single runes and classes, empty matches) over the
  list of alternatives. Counts of the nodes it moves are in `RegexpRef`.
- `CharClassBuilder` keeps ranges, `nrunes` and the two sets of letters as the code
  does; `CaseFold` has the rows of the folding table that concern the runes of the
  families, found by binary search and followed as `AddFoldedRange` follows them.
- `Simplifier` is the two walkers, node by node; `Printer` gives the tokens that
  `ToString` prints, with its precedences and parentheses.
- `Prefilters` computes `Info` for each node with `Walker`, whose stack and budget of
  visits are `WalkInternal`'s. A filter is a tree of And, Or and atoms, an atom a
  short sequence of runes.
- `RuneRanges` makes instructions of rune ranges: it splits ranges where the
  encoding has its seams, shares suffixes through `rune_cache_`, merges prefixes into
  a trie (`AddSuffixRecursive`, with its clones of shared instructions) and frees
  what that makes superfluous. The lengths and the bytes of a rune are there, too.

### PatternSets

Patterns are read one after the other and given to a `FilteredRE2` or an `RE2::Set`
with `Add`; `Compile`, the questions about a text, and moves come in any order. A
pattern may fail to parse; a set may not fit its memory; the patterns of a set are
sorted by their text, which the model does not have, so that any order is possible. The graph of filters has entries with their parents,
`propagate_up_at_count` and regexps, the pruning of what too many share, and the
propagation of the atoms that were found. Atoms are found in the text by an external
matcher, which is taken to find exactly those that are there.

### Rewriting

`Replace`, `GlobalReplace` and `Extract` on top of the reference answer of a search.
A turn of `GlobalReplace`'s loop is a step; `p`, `lastend`, `out` and `count` are its
state. A rewrite string is a sequence of bytes, group references and what must not
follow a backslash.

### FSM

One session with the library of `util/`: a table, its run over an input that is
one or many streams, and then any order of prediction, profiling, renumbering, a run
over the renumbered table with the translation of its results, and loading the hot
rows. `FSMSpec` is a session with any table, any input and any division of it that
`IsSession` admits: a table has a row for each state that leads from each byte to a
state, and the division asks for whole chunks and streams. In `Engines` the tables are
those that `DFAStates` has exported, so that the library runs what the export writes;
`TablesClosed` checks there that these are tables as `IsSession` says. Chunks are run by code outside this
repository: the model lets each chunk run from the state it is given. Predictions
look back `LOOKBACK` bytes; for the first chunk of a text these lie before the input,
hence `Garbage`. Sorting by frequency may leave equals in either order (`stable`).

## 3. The runs

| run | instance | what it shows |
|---|---|---|
| `dfa_rwlock` | 2 threads, a reader-writer lock, the DFA of `x(yy(?s).*\|y)?` with five states and a full match, a cache for three, four searches to choose from | all invariants of the shared cache; each answer is the automaton's; searches fail only after being slow; states are only freed in exclusive possession; the whole implements `DFASearch`, liveness included |
| `dfa_set` | 2 threads, a `std::mutex` whose readers exclude each other, the set `{x, xy}`, states of different sizes | the ids collected are exactly the automaton's, across resets; such a search never fails; nothing deadlocks and every call returns |
| `dfa_reverse` | 2 threads, backward search of `xyxy` | **violation**: `BailsWhenSlow`, see findings |
| `re2` | one thread asks everything of each regexp with at most two ends at a position of a text of two bytes, with and without anchors, prefix, longest match, one-pass and BitState; two threads share `a\|ab`, anchored at the end or not; any DFA may run out of memory | `Match` answers what the regexp says, at each limit and after each fallback; the reverse program is compiled once; every call returns, unless the process exits |
| `re2_exit` | `a\|ab`, one thread | **violation**: `NeverExits`, see findings |
| `sparse_array` | capacity up to 3, two values, garbage below, within and on the edge of the arrays | agreement of both arrays, room for a new index, refinement of `SparseMap` |
| `regexp_ref` | 4 addresses, trees of up to 2 children, counts that overflow at 3 | counts are exact, wherever they are kept; nothing dangles; nothing leaks |
| `compile` | every regexp of at most 4 nodes: over a letter, any byte, empty and nothing with all loops, forward and reverse; the loops over a letter again within 6 instructions; with assertions and captures, both ways; with folded letters and classes over seven bytes. Sets of up to 7 nodes with three anchors. Texts of at most 2 bytes | meaning and preference kept by compiler, `Optimize` and `Flatten`; the ids of exactly the regexps of a set that match; the anchors taken off, mirrored assertions, submatches; patch lists exact in every intermediate state; hints and byte classes lose nothing; giving up at the limit |
| `engines` | loops and alternatives; assertions searched from inside of a text and backward; submatches; a literal of both cases in front; sets with each anchor; six single regexps such as `aba\|b.*` on texts of up to four bytes, whose tables are run in one block of two chunks and two of two; six with which four rewrite strings are tried | each engine's answer is the backtracker's; stacks and marks fit the sizes counted for them; threads are counted exactly; the exported rows and tables find the matches that a search finds; `PossibleMatchRange` bounds them; predicted, renumbered and hashed tables agree with the plain run; replacements are exact |
| `export_special` | `a.*` | **violation**: `ExportedStatesInCache`, see findings |
| `front_end` | patterns of a few tokens: groups, bars and loops, balanced or not; alternatives that begin alike, with and without DotNL; repetitions in a row and nested, up to the limit and over it; flags; strings of both cases; single bytes; ranges between the seams of UTF-8; classes under four sets of flags; sets of patterns with each anchor; patterns for a `FilteredRE2` with atoms of at least 1 and 2 runes | what is parsed, simplified and printed has the matches of the definition, or the error of it; no filter loses a match; classes are encoded exactly; suffixes are shared and freed safely; collections find exactly what matches, in any order of calls |
| `parse_fold` | `a`, `(?i:` `)`, `\|`, up to five of them | **violation**: `ParseMeaning`, see findings |

Why the bounds are enough. Two threads are what each race in the DFA needs: one
to act between two steps of another. A cache for three of five states makes each
search reset it in each of the phases, and the texts are long enough for two resets
in one search, which bailing out requires. Regexps of four nodes contain each loop
directly in each loop, in a concatenation and in an alternation; texts of two
bytes tell a loop's first and second turn and any preference between them apart.
The families of `engines` each have what one group of decisions in the engines
needs (an `AltMatch` in front and behind another alternative, a mark between
threads, a flag that waits for the next byte, a capture shared by two entries, a
run of jobs, a node with a match that wins), and the single regexps are those
that, one by one, the other families left undecided. `MaxNodes` of 4 makes some
programs too large for one pass and `kMaxCap` of 4 is never exceeded by the
submatches asked for. `MaxLen` of 2 cuts the walks of `PossibleMatchRange` short,
or lets them end. A table is profiled at most twice (`MaxProfiles`), which is once
too often; `MAXSLOT` of 3 is less than the states of some tables. In `front_end` the
families split what would be too many patterns together: each has the tokens that one
group of decisions tells apart, and three to five chunks of them, enough for
two alternatives with a common beginning inside a third, for a repetition of
a repetition of a repetition, and for a flag that is set, left and used again.
`maximum_repeat_count` of 6 is exceeded by one repetition alone and by two nested
ones, `kMaxNsub` of 3 by concatenations and alternations of four, and
`MaxParents` of 1 prunes an entry as soon as two others share it; in the code the
three are 1000, 65535 and 8. `MaxVisits` is the code's. Four addresses let two trees that
share a child wait on `Destroy`'s stack at once. `kMaxRef` of 3 is reached in a few
steps, which the code reaches after 65535. The bounds named in `.cfg` files and the
families of the `MC` modules are the only ones.

`CHECK_DEADLOCK FALSE` is set where the system stops: a pipeline that has
delivered its program (`compile`), a program that has been searched (`engines`,
`export_special`), a pattern that has been taken through all stages (`front_end`,
`parse_fold`), and a `Match` after the process has exited (`re2`, `re2_exit`).

## 4. Fairness

`DFACache!LiveSpec` assumes that a thread in a call takes its next step if the
step stays possible (weak fairness): threads are scheduled and critical sections
are short. It assumes too that from some point on no new call begins, because a
reader-writer lock may starve a writer, here a thread that waits to
clear the cache, while readers keep coming; once the readers stop coming, weak
fairness is enough. `DFASearch` has a call answered under weak fairness of the
answer alone, so the refinement shows that every call is.
`RE2Match!LiveSpec` assumes weak fairness of each thread's steps in a call. The
other modules are sequential code, checked for safety.

## 5. What is proved

`DFACacheProofs`, for any set of threads, any automaton, any texts and sizes:
type correctness, `LockDiscipline`, `NoDanglingPointers`, `GraphSound`,
`ResetsExclusive` and `FailsOnlyWhenSlow`. None of the three invariants after the
types is inductive by itself. The
invariant that is has a global part (who holds which lock, the cache and the
arrows are closed: a published arrow leads to a cached state or a special one)
and a part for each thread that says, for each place in the code, which of its
pointers are alive, which lock protects them, what its scratch queue was loaded
from, and what it has saved. A reset by one thread keeps the part of all others since
by the lock discipline they are outside the search, where they hold no pointer
they will use. `FailsOnlyWhenSlow` needs more: after a reset the thread that did
it is alone with the cache until it returns, and what it has not spent of the budget
is enough for the two states it saved and the one that did not fit
(`RoomInv`), so that neither `RestoreStart` nor the second attempt can fail.
`BudgetAccounted` counts the bytes of states as the size of a set of pairs (state,
byte), so that a new state adds its bytes by the laws of finite sets; what a thread
still has to restore after a reset is counted in the same way.
Assumptions: the named constants are different, the automaton is
a function (`AutomatonAssumption`), and `RoomAssumption`: three states fit into
the budget. The constructor guarantees twenty for states without match ids, and
without room for three the theorem would be false.

The second half of `DFACacheProofs`, for the same constants: `SpecImplementsSearch`, that each step of
`DFACache` is a step of `DFASearch` or changes nothing a caller sees. The
abstract search answers with what the run of the automaton over the text of the call
says; the invariant (`TrackInv`, theorem `SpecTracks`) relates each thread to that run. While a
thread serves a call, the state it stands in is the state of the run after the bytes consumed so
far, whether the pointer is in `s`, saved by a `StateSaver`, or about to be computed
into `ns`, and `lastmatch` and the ids are what the run has
reported up to there. The invariants above are what it rests on: an arrow found in the cache is
the automaton's (`GraphSound`), and the pointers a thread follows are alive. Two steps are not a
byte long. A search that finds a dead or full-match state leaves at once, and the run
keeps its state from there on. The prefix acceleration skips bytes, which
`PrefixAssumption` justifies: an unanchored start state that waits for no flags leads
back to itself on every byte that does not begin the prefix. These are the states for
which the code accelerates, and its reason (`dfa.cc:1692`: only a "single byte" may lead to a
different state). `NULL` is no call (`JobAssumption`).
The runs are recursive functions; a fact about one is proved by taking the least position at
which it would fail (`LeastNat` in `OrderLemmas`).

`RE2MatchProofs`, for any length of text, any regexps, calls, threads and limits
of the engines: `MatchExpected`. `Target` is the span the engines are after:
where the wanted matches begin after `Match` has narrowed its anchors and taken off the
prefix, and where the best of them ends. The invariant (`SpecInvariant`) says what is known
of it at each place in `Match`: nothing at the entry or after a DFA was skipped or
has failed, its end after the forward DFA (unless the regexp is anchored at its end, which
the reverse DFA tries first), both its ends once the DFAs have run.
Each engine, from the arguments it gets at its place, returns the target or
the part of it that is missing, so a failure of a DFA loses nothing that the next engine needs. Least and greatest elements
of sets of ends are the work here (`MinIsLeast`, `MaxIsUnique`). The assumptions give the types of the
constants only.

`SparseArrayProofs`, for any capacity and any garbage: the types, `Agree`, `RoomForNew` and
`ImplementsMap`. `Agree` and the types are inductive.
Room for a new index is a counting argument: the entries in use name different
indices below the capacity, so an absent index leaves a free entry (the
pigeonhole fact of `FiniteSetTheorems`). The refinement maps each step to a step
of `SparseMap` or to a stutter.

`RegexpRefProofs`, for any finite number of addresses and children, and for a count of
any width of at least 2: `RefsExact`, `NoDanglingSubs` and `NothingLeaks`. The
invariant says that each count, in the object or in the map, is the number of
places that refer to it: as a child, as a client, as a `Decref` still to be made. The map has
an entry exactly for the counts that are saturated. What waits on `Destroy`'s
stack is there once and has count 0, and what `RemoveLeading...` has taken apart is
given up next. A step moves references of a few parents; the lemmas `UsesTail` and
`PlacesSplit` count the children of those one by one and all others as one set, so
that the counts of everything else are the same set before and after. `NothingLeaks` needs in
addition that trees have no cycles: parents are younger than their children, so there
is a rank that is lower for parents. A set that holds nothing but itself up
would have a member of lowest rank (`WFMin`), whose count nobody accounts for.

`EngineProofs`, its first part, for any table, input, division into blocks, threads and streams, any
`MAXSLOT`, any number of profiles, and either order among states equally frequent: `LibraryAgrees`, as a
theorem about `FSMSpec`. The argument has four parts. Sorting by counts is a permutation of the
list: the number of entries before an entry is its place, and no two share
one (`FS_Bijection` and a pigeonhole). Hence the translation that is read off a profile is a
bijection of the states, the hot ones by their place, the cold ones by rank; it
has an inverse, and the renumbered table maps each arrow through it. A path through the
renumbered table is then the path through the table, renumbered, at every position. A path over
two pieces of input is the path over the first followed by that over the second, so a run chunk by
chunk from the states recorded at the ends of chunks is the run of the whole stream; the
arithmetic of division shows that chunks do not cross the beginning of a stream. Predictions cover the state of
the sequential run because the bytes looked back at lead to it from some state: either
it is among the slots or every slot is at least as frequent. `LibraryInv` keeps of
a session that its table is still the one opened, its truth the sequential run, its list a sorted
profile or several of them, and its renumbered table the image of the table. `IsSession` holds no more than
the constructors need: a table has a finite number of columns (256 in the code) and leads
to its own states, a run has at least one block and thread, streams consist of whole chunks. The start
state is 0, which is what the export writes, unless chunks are not empty. `FSMSpec` needs it
as an hypothesis; that the tables the DFA exports satisfy it is `TablesClosed`, which the run `engines`
checks for every table of its instances.

The second part of `EngineProofs`, for any family of regexps, any texts and any program:
`ThreadsCounted` (`SpecThreadsCounted`), and that the stacks of `AddToThreadq`, of the walk of
`IsOnePass` and of the DFA's `AddToQueue` are long enough (`SpecNFAStackFits`, `SpecOnePassStackFits`,
`SpecDFAStackFits`, and all of them `SpecStacksFit`), as theorems about
`EnginesSpec`. `SearchInv` says that one engine at a time has an object, and only when the program is flat,
so that each engine need be shown only that its own steps keep its part; nobody else touches it.

- Threads. Between two turns of `AddToThreadq` the count of a thread is the number of queue
  entries that hold it, plus the references that the caller, `t0` and the jobs on the stack
  owe (`Exploring`). A job that restores `t0` takes the thread of a Capture away and gives the
  older one back, so under it on the stack are, in order, threads that were current before, the thread
  of the call at the bottom (`GoesBack`). `ExploreFacts` is the induction step: each of the seven
  kinds of instruction keeps the balance. `Step` then walks over the queue, and the entries it has
  not yet visited are what is still owed (`HeldAfter`); what it drops it dereferences once. A search
  begins with nothing owed and each turn ends so (`Held`, with `Nobody`), and when it is answered the
  queue is empty: no thread leaks, none is freed while something refers to it.
- Stacks. The code allots each Capture two entries, each EmptyWidth and Nop one, and a last
  one. The bound holds because an instruction enters the queue once: the entries that can be on the
  stack are at most what the instructions in the queue were allotted plus one (`Fits`), and the turns left are at
  most what the instructions not in the queue may cause (`Left`), which is why `MaxJobs` turns are enough
  for the stack to be empty (`AddToThreadqEnds`).
  `OnePass` fails as soon as it meets an instruction twice, so what waits on its stack are
  different instructions, each the successor in its list of a Capture, EmptyWidth or Nop (`Waiting`),
  or the one it goes on with.
- The DFA. `stack_` has an entry for each Capture, EmptyWidth and Nop and one for each mark the queue has room
  for, and one more. A turn of `AddToQueue` is paid for as in the NFA (`EnqueueTurns`), except for
  the mark that the `.*?` loop in front of a leftmost-longest search pushes besides: it is one more
  for each time a queue is filled, a lap. The marks of a queue are then those of the ids it was
  filled from and one for the lap (`Becomes`, a relation that `AddToQueueFacts`, `AddAllFacts` and
  `RunOnByteFacts` hand on), and a step of the DFA fills a queue at most three times: when it
  loads the state, when it loads it again with the flags before the byte, and after the byte.
  So a queue does not overflow if the state leaves three marks to spare (`StateOk`). It does, because
  `WorkqToCachedState` keeps only heads of lists and no mark at the end or behind a
  mark: a state has less than one mark for two of its entries (`KeepFacts`), and neither the fail instruction
  nor the one behind the `.*?` loop is a head (`HeadsFew`). Sorting adds no mark
  (`SortedSetsFacts`). `DFAInv` says that the state a search is in, and every
  state an export has numbered, is so.

These have a hypothesis, `[]FlatProg`: the program the engines are given is what `Flatten` leaves
(`IsFlat`: the ids are 0 to n - 1, targets are ids, a list ends before the next
begins, id 0 fails, the `.*?` loop has the byte it skips behind it). It is an invariant of the programs of the
pipeline, checked by the run `engines` as a part of `StacksFit`.

`CharClassProofs`, for any number of runes and any place of the letters among them: a
`CharClassBuilder` is a set of runes. `AddRange` is union, `RemoveAbove` cuts, `Negate` is
the complement, and after any of them the ranges are apart and `nrunes` and the two
bitmaps are those of the runes (`SpecExact`: after any calls in any order; a builder by itself is the
machine `BuilderSpec`, and `BuildersExact` is the same statement, `IsExact`, about each builder that the
parser has in hand). Each range is a longest run of runes, so a class is determined
by its runes (`ClassUnique`), and it does not matter in which order ranges came
(`AddRangesIsUnion`). This is also why `AddRange` may look for one range that holds all of
`lo` to `hi` (`InClassIsSubset`). The count is a sum over a set, a fold; it equals the size of the set of runes, because
the ranges share none, and this closed form is what the proofs use of it. `GetCharClass`
puts the ranges in order (`SortedInOrder`), and negating the sorted class gives what negating
the builder first would have given (`NegateClassCommutes`), its folding included. The only
assumption is `ByteAssumption`: the letters lie in order, upper case first, none beyond the last rune.

`CompilerProofs`, for any family of regexps (leaves, operators, sizes, classes), any kind of program
and any limit of instructions: `HolesPatched`, as a theorem about `Spec` of `Compiler`, that is, from the
first node of the walk until the program is handed to the passes. `HolesPatched` alone is not
inductive, since what an operation patches could be part of another fragment. The invariant (`Inv`, theorem `SpecFragments`)
gives each fragment its foot, the instructions that it reaches and those on its list, and says that the
feet of two fragments that wait for their parents share nothing but the fail instruction. It
says further which fragments have an end to be patched and which end with a match: behind a fragment with
an empty list nothing could be reached, so the list of what is joined behind it would not be the holes that can be. What can be reached is
computed in as many rounds as there are instructions; that this is enough, so that
`Reach` is the least set closed under `Outs` (`ReachIsLeast`), is a counting argument: the set grows in each round or is closed. Each
operation then has one lemma, in one form: from its operands it `Makes` a fragment whose foot
lies in theirs, in new instructions and the fail instruction, and it changes nothing else; or it fails.
The lemmas chain (`Chain`), what is made is apart from what was apart from its parts (`Apart`), and
the loops over children and over the ranges of a class are folds, unrolled into a sequence of
states (`CatTurns`, `AltTurns`, `ClassTurns`). `FamilyAssumption` names the leaves and operators that the
simplifier leaves, a class with at least one range of bytes, and the five kinds of program.

What stays with TLC: liveness under fairness (`ImplementsSearch` beyond its safety part,
`EveryCallReturns`), which the prover does not handle; and what compiled programs mean, what the engines answer and the front end, whose
definitions recurse over trees. The prover has no induction
over trees; what is proved above about recursive functions is about functions on numbers, where a
least counterexample serves, and it cannot be applied to `RECURSIVE` operators. `FlatProg`, the
hypothesis of the theorems about the engines, is model-checked only.

## 6. Findings

- `dfa_reverse`. "If the cache is being reset often, bail out" (`dfa.cc:1404`
  ff.): a search that runs backwards has `p` below `resetp`, the difference
  becomes a huge `size_t`, and the search never is slow. It still answers right.
- `re2_exit`. The header promises that a match that runs out of memory falls
  back; in this code the process exits after a DFA has failed, on one path
  depending on the option `log_errors`, on another always.
- `export_special`. A comment in `BuildAllStates` says that every state it
  handles points into the cache (`dfa.cc:1922`). `FullMatchState`, the number 2,
  is handled, too: it is put into the map like any state, numbered and expanded.
  The loops that this repository has added after the flood read the arrows and
  the flag of every key of the map through its pointer (`dfa.cc:1998`, `2013`
  and the same in the other overloads), that is, through the number 2, for every
  regexp whose DFA has a full-match state. The test that lists such states
  (`testing/dfa_test.cc:345`) is commented out.
- `parse_fold`. `AddFoldedRange` returns at once if the range is in the class,
  "assume that the fold-equivalent chars are there too" (`parse.cc:343`). The third
  round of `FactorAlternation` puts letters with and without `FoldCase` into one
  class, so that in `a|(?i:a)` the second adds nothing: the pattern does not match
  `A`, while `(?i:a)|a` does. The program itself answers so, too.

Observations without a run.

- Compiling and searching. `MayAccel`'s test for flags in the start state is not
  needed for the prefixes that `RequiredPrefixForAccel` finds. A start state is
  never `FullMatchState`: it has no match flag. `Flatten` may change which match is
  preferred for loops over bodies that may be empty, such as `(?:(?:a?)*?)+`;
  `mimics_pcre.cc` excludes such regexps from the comparison of preferences, so
  `CompiledPreference` is stated for the regexps it admits, `CompiledMeaning` for
  all. A literal newline among the alternatives of single runes is lost if classes
  may not have newlines (`ClassNL` is not set). After `RE2::Set::Compile` has failed
  the program is NULL and a match must not be asked for.
- Exported tables have no column
  for the end of the text, and 0, which is the start state, where there is no
  arrow. A table thus loses matches that end with the text, and after a dead
  state it starts again; `ExportMatches` says what is left: read from state 0,
  the table of a many-match DFA without a leading anchor finds every end of a
  match before the end of the text.
- FSM library. `Predictor` reads before the input when chunks are
  shorter than `LOOKBACK`, and takes the first chunk of every block to begin in the start state;
  `PredictionsCover` is stated for the other chunks. After profiling twice, the list
  of states has duplicates: `generateTranslationTable` exits, and the hottest row
  need not be in the hash. The loop of `MappingRule` over `uint8_t i < 256` never ends;
  `readFromFile` stores a value after its last read has failed; the check of a row's length lets
  rows pass that are one short.
- `GlobalReplace` ignores that `Rewrite` fails, and counts the match; the header
  (`re2.h:575`) asks callers to check the rewrite string first.

## 7. What is not modelled

- How tokens are read: escapes, the text of names and numbers, validity of UTF-8;
  named captures; the tables of Unicode groups (`unicode_groups.cc`), which are
  data and were generated.
- The visit budget of the compiler's walk, the cap of hints at 32767 and the
  512 instructions for `list_heads_`: limits far from the sizes here. The trial
  search of `CompileSet`, which only asks whether a DFA has memory.
- The search for the prefix (`PrefixAccel_ShiftDFA`, SIMD), literal strings, and
  prefixes of several bytes: the models have where the search lands.
- The memory that a one-pass table takes from the DFA's budget, and
  `RE2::PossibleMatchRange`, which puts the required prefix in front of the
  program's range.
- `FullMatchN`, `ConsumeN` and the like with the parsing of arguments, `QuoteMeta`; that
  `GlobalReplace` steps over a whole character of UTF-8, as the programs it searches
  with here are Latin-1.
- The files: what exports write and print, how the FSM library reads tables and
  inputs, `MappingRule`, `onlineProfilingCheck`, and `loadHotArea` without a hash.
  `Definitions.cpp` is commented out. The programs that run the chunks are not in
  the repository.
- Copying and moving sparse arrays; the sparse set, which is a sparse array without
  values; `ref_mutex`, since a tree belongs to one
  thread until it is compiled.
- Formatting, logging, string helpers, the PCRE wrapper, tests, fuzzers and benchmarks.

## 8. Plan

Done, in this order: the shared DFA, because everything a user runs goes through
it and it is the only concurrent part; the front end that chooses engines; the
sparse array below every engine; reference counts; the compiler and the passes;
the engines over compiled programs, each against the backtracker, with the export
of the DFA and the range of its matches; parser, simplifier, printer and UTF-8
against definitions; prefilters and collections of patterns; the FSM library over
exported tables; replacements; the proofs about the DFA's cache, the sparse array
and the reference counts; the proofs of `MatchExpected`, of `BudgetAccounted`, of the
refinement of `DFASearch`, of `LibraryAgrees`, of classes as sets of runes and of `HolesPatched`;
the proofs about the threads of `NFA` and the stacks of `NFA`, `OnePass` and the DFA.

Left: the proof that what the pipeline delivers is flat (`FlatProg`).
