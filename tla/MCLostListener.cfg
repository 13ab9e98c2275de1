\* A listener on two keys is removed from one of them and added to it again.
SPECIFICATION Spec
CONSTANTS
    Keys = {k1, k2}
    Listeners = {l1}
    Apps = {a1}
    MaxVersion = 1
    ClearLimit = 20
    MaxEdits = 0
    MaxCalls = 4
    MaxFaults = 0
INVARIANTS
    RegisteredIsListed
CHECK_DEADLOCK FALSE
