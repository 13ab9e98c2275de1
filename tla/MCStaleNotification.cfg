\* The polling thread and the UDP thread notify the same listener.
SPECIFICATION FairSpec
CONSTANTS
    Keys = {k1}
    Listeners = {l1}
    Notifiers = {"poller", "udp"}
    Apps = {a1}
    Hosts = {0, 1}
    MaxTime = 3
    MaxCalls = 1
    MaxPackets = 2
PROPERTY
    LastToldIsCurrent
CHECK_DEADLOCK FALSE
