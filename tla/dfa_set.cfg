\* Two threads search with the DFA of the set {x, xy}, which cannot bail out;
\* cache_mutex_ is a std::mutex, so that even readers exclude each other.
SPECIFICATION LiveSpec
CONSTANTS
    Threads = {t1, t2}
    NoThread = NoThread
    Dead = Dead
    FullMatch = FullMatch
    NULL = NULL
    Dangling = Dangling
    EndText = EndText
    Classes <- MCClasses
    StartKinds = {"unanchored"}
    AnchoredKinds = {}
    Content <- SetContent
    StartOf <- SetStartOf
    Delta <- SetDelta
    Matching <- SetMatching
    NeedsFlags = {}
    MatchIds <- SetIds
    PrefixClasses = {}
    Size <- SetSize
    StateBudget = 6
    ManyMatch = TRUE
    Reversed = FALSE
    BailWhenSlow = TRUE
    BailFactor = 10
    SizeModulus = 64
    SharedReads = FALSE
    Jobs <- SetJobs
PROPERTIES
    ImplementsSearch
