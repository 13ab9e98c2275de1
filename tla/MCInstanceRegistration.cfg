\* One instance, two threads of the application, two workers.
SPECIFICATION FairRegistrationSpec
CONSTANTS
    Keys = {i1}
    Tasks = {b1, b2}
    Workers = {w1, w2}
    Apps = {a1, a2}
    NoTask = NoTask
INVARIANTS
    RegistrationTypeOK
    OnePlace
    OneBeatPerInstance
PROPERTIES
    BeatsRegister
    DeregisteredLeavesNothing
CHECK_DEADLOCK FALSE
