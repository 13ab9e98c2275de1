\* Two services, each created with a factory of its own.
SPECIFICATION FairSpec
CONSTANTS
    Services = {s1, s2}
    Factories = {f1, f2}
    NoService = NoService
CHECK_DEADLOCK FALSE
INVARIANT ConfiguredOnce
