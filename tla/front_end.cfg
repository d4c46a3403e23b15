SPECIFICATION SetsSpec
CONSTANTS
    MaxByte = 1114111
    Newline = 10
    UpperA = 65
    UpperZ = 90
    LowerA = 97
    kMaxNsub = 3
    maximum_repeat_count = 6
    MaxVisits = 100000
    MaxParents = 1
    Families <- AllFamilies
INVARIANTS
    ParseMeaning
    SimplifyMeaning
    SimplifyComplete
    PrintsSame
    FilterSound
    BuildersExact
    EncodesClass
    SuffixesLive
    FilterExact
    SetExact
CHECK_DEADLOCK FALSE
