SPECIFICATION PipelineSpec
CONSTANTS
    MaxByte = 6
    Newline = 0
    UpperA = 1
    UpperZ = 2
    LowerA = 4
    Families <- AllFamilies
INVARIANTS
    CompiledMeaning
    CompiledPreference
    AnchorsSound
    HolesPatched
    HintsSound
    ByteMapSound
\* A compiled program is final, and so is a compilation that failed.
CHECK_DEADLOCK FALSE
