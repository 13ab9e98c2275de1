\* A block is handed out although its write has failed, and handed out again
\* after a restart.
SPECIFICATION Spec
CONSTANTS
    p1 = p1
    p2 = p2
    t1 = t1
    t2 = t2
    Providers = {p1}
    Threads = {t1, t2}
    ProviderOf <- MCOneProviderOf
    InitSequence = 1
    NrToPreserve = 2
    Steps = {1}
    Absent = Absent
    Empty = Empty
    Junk = {}
    MaxClaims = 3
    MaxCrashes = 1
    MaxFaults = 1
INVARIANTS
    NoIdTwice
CHECK_DEADLOCK FALSE
