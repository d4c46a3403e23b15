\* Two threads search backwards for xyxy; the cache has room for three states.
SPECIFICATION Spec
CONSTANTS
    Threads = {t1, t2}
    NoThread = NoThread
    Dead = Dead
    FullMatch = FullMatch
    NULL = NULL
    Dangling = Dangling
    EndText = EndText
    Classes <- MCClasses
    StartKinds = {"anchored"}
    AnchoredKinds = {"anchored"}
    Content <- ChainContent
    StartOf <- ChainStartOf
    Delta <- ChainDelta
    Matching <- ChainMatching
    NeedsFlags = {}
    MatchIds <- NoIds
    PrefixClasses = {}
    Size <- UnitSize
    StateBudget = 3
    ManyMatch = FALSE
    Reversed = TRUE
    BailWhenSlow = TRUE
    BailFactor = 10
    SizeModulus = 64
    SharedReads = TRUE
    Jobs <- ChainJobs
PROPERTIES
    BailsWhenSlow
