\* Two services of any kind, created by two threads with one factory.
SPECIFICATION FairSpec
CONSTANTS
    Services = {s1, s2}
    Factories = {f1}
    NoService = NoService
CHECK_DEADLOCK FALSE
INVARIANTS
    TypeOK
    InitializedOnce
    ConfiguredOnce
    NoUseAfterDelete
    DestroyedIsGone
PROPERTY
    CallsReturn
