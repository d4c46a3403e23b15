SPECIFICATION Spec
CONSTANTS
    Threads = {t1}
    NoThread = NoThread
    N <- MCN
    Regexps <- FewRegexps
    Calls <- AllCalls
    Users <- UsersOf
    CallsOn <- AskedOf
    LogErrors <- Logs
    BitStateTextMax = 1
    OnePassTextMax = 2
    TinyTextMax = 1
    MaxOnePassCapture = 2
    MayFail = TRUE
INVARIANTS
    NeverExits
CHECK_DEADLOCK FALSE
