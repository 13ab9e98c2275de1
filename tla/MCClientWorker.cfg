\* Two keys, two listeners, one application thread, one watcher.
SPECIFICATION FairSpec
CONSTANTS
    Keys = {k1, k2}
    Listeners = {l1, l2}
    Apps = {a1}
    MaxVersion = 1
    ClearLimit = 1
    MaxEdits = 1
    MaxCalls = 4
    MaxFaults = 1
INVARIANTS
    TypeOK
    ListenerAlive
    PostedIsKnown
    NothingLeaks
PROPERTIES
    Converges
    RemovedIsFreed
CHECK_DEADLOCK FALSE
