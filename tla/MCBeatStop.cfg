\* The reactor is stopped while a worker is about to wait.
SPECIFICATION FairSpec
CONSTANTS
    Keys = {i1}
    Tasks = {b1}
    Workers = {w1}
    Apps = {a1}
    NoTask = NoTask
PROPERTY
    StopReturns
CHECK_DEADLOCK FALSE
