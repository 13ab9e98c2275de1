\* Two application threads: one unsubscribes while the other subscribes.
SPECIFICATION Spec
CONSTANTS
    Keys = {k1}
    Listeners = {l1, l2}
    Notifiers = {"poller", "udp"}
    Apps = {a1, a2}
    Hosts = {0, 1}
    MaxTime = 1
    MaxCalls = 3
    MaxPackets = 0
INVARIANT
    ListenedIsPolled
CHECK_DEADLOCK FALSE
