SPECIFICATION RewritingSpec
CONSTANTS
    MaxByte = 4
    Newline = 0
    UpperA = 1
    UpperZ = 1
    LowerA = 3
    Unset = Unset
    kMaxCap = 4
    MaxNodes = 4
    MaxLen = 2
    MAXSLOT = 3
    MaxProfiles = 2
    Garbage = {1, 3}
    Families <- DotFamilies
INVARIANTS
    ExportedStatesInCache
\* A program is searched once, and the system stops.
CHECK_DEADLOCK FALSE
