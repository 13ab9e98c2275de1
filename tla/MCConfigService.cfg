\* Two threads in getConfig() for one configuration, a crash and a failing call in between.
SPECIFICATION Spec
CONSTANTS
    Threads = {t1, t2}
    Contents = {1, 2}
    Length <- MCLength
    Files = {f1, f2}
    NoFile = NoFile
    MaxCalls = 5
    MaxEdits = 3
    MaxCrashes = 1
    MaxFaults = 1
INVARIANTS
    TypeOK
    SnapshotIsOneContent
    FallbackIsLastSaved
CHECK_DEADLOCK FALSE
