SPECIFICATION LiveSpec
CONSTANTS
    Threads = {t1, t2}
    NoThread = NoThread
    N <- MCN
    Regexps <- AllRegexps
    Calls <- AllCalls
    Users <- UsersOf
    CallsOn <- AskedOf
    LogErrors <- LogErrorsOf
    BitStateTextMax = 1
    OnePassTextMax = 2
    TinyTextMax = 1
    MaxOnePassCapture = 2
    MayFail = TRUE
INVARIANTS
    MatchExpected
PROPERTIES
    EveryCallReturns
CHECK_DEADLOCK FALSE
