\* A save that was cut short, by a crash or an error, is read again.
SPECIFICATION Spec
CONSTANTS
    Threads = {t1}
    Contents = {2}
    Length <- MCLength
    Files = {f1}
    NoFile = NoFile
    MaxCalls = 2
    MaxEdits = 1
    MaxCrashes = 0
    MaxFaults = 1
INVARIANT
    SavedIsRead
CHECK_DEADLOCK FALSE
