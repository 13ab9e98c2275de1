\* The signal to the UDP thread gets lost, and the destructor waits for a datagram.
SPECIFICATION FairSpec
CONSTANTS
    Keys = {k1}
    Listeners = {l1}
    Notifiers = {"poller", "udp"}
    Apps = {a1}
    Hosts = {0, 1}
    MaxTime = 2
    MaxCalls = 1
    MaxPackets = 1
PROPERTY
    DestructionEnds
CHECK_DEADLOCK FALSE
