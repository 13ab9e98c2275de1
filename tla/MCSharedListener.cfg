\* One listener subscribed to two services when the naming service is deleted.
SPECIFICATION Spec
CONSTANTS
    Keys = {k1, k2}
    Listeners = {l1}
    Notifiers = {"poller", "udp"}
    Apps = {a1}
    Hosts = {0, 1}
    MaxTime = 1
    MaxCalls = 2
    MaxPackets = 0
INVARIANT
    NoAssertionFails
CHECK_DEADLOCK FALSE
