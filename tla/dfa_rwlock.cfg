\* Two threads search with the DFA of x(yy(?s).*|y)? behind a reader-writer lock; the
\* cache has room for three of its five states.
SPECIFICATION LiveSpec
CONSTANTS
    Threads = {t1, t2}
    NoThread = NoThread
    Dead = Dead
    FullMatch = FullMatch
    NULL = NULL
    Dangling = Dangling
    EndText = EndText
    Classes <- MCClasses
    StartKinds <- MCStartKinds
    AnchoredKinds = {"anchored"}
    Content <- ChoiceContent
    StartOf <- ChoiceStartOf
    Delta <- ChoiceDelta
    Matching <- ChoiceMatching
    NeedsFlags = {}
    MatchIds <- NoIds
    PrefixClasses = {"x"}
    Size <- UnitSize
    StateBudget = 3
    ManyMatch = FALSE
    Reversed = FALSE
    BailWhenSlow = TRUE
    BailFactor = 1
    SizeModulus = 64
    SharedReads = TRUE
    Jobs <- ChoiceJobs
INVARIANTS
    TypeOK
    LockDiscipline
    NoDanglingPointers
    GraphSound
    BudgetAccounted
PROPERTIES
    FailsOnlyWhenSlow
    ResetsExclusive
    ImplementsSearch
