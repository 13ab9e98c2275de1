\* One provider, two threads; crashes, and a failing read or write, at every step.
SPECIFICATION FairSpec
CONSTANTS
    p1 = p1
    p2 = p2
    t1 = t1
    t2 = t2
    Providers = {p1}
    Threads = {t1, t2}
    ProviderOf <- MCOneProviderOf
    InitSequence = 1
    NrToPreserve = 2
    Steps = {1, 3}
    Absent = Absent
    Empty = Empty
    Junk = {0, 1}
    MaxClaims = 3
    MaxCrashes = 2
    MaxFaults = 1
INVARIANTS
    TypeOK
    IssuedReserved
    UniqueIds
PROPERTIES
    AllocatorSpec
    CallsReturn
CHECK_DEADLOCK FALSE
