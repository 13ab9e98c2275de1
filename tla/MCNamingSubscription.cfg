\* One service, two listeners, one application thread, both notifying threads.
SPECIFICATION FairSpec
CONSTANTS
    Keys = {k1}
    Listeners = {l1, l2}
    Notifiers = {"poller", "udp"}
    Apps = {a1}
    Hosts = {0, 1}
    MaxTime = 3
    MaxCalls = 4
    MaxPackets = 2
INVARIANTS
    TypeOK
    ReferencesHeld
    ListenedIsPolled
    ChangeInHand
    PurgeDeletesAll
PROPERTIES
    EveryChangeIsTold
    PolledIsCurrent
CHECK_DEADLOCK FALSE
