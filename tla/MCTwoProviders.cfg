\* Two providers on one file: two naming services, as two calls of
\* CreateNamingService make them.
SPECIFICATION Spec
CONSTANTS
    p1 = p1
    p2 = p2
    t1 = t1
    t2 = t2
    Providers = {p1, p2}
    Threads = {t1, t2}
    ProviderOf <- MCTwoProvidersOf
    InitSequence = 1
    NrToPreserve = 2
    Steps = {1}
    Absent = Absent
    Empty = Empty
    Junk = {}
    MaxClaims = 6
    MaxCrashes = 0
    MaxFaults = 0
INVARIANTS
    NoIdTwice
CHECK_DEADLOCK FALSE
