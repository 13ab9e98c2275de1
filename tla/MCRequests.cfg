\* Two servers, one thread with requests, three lists.
SPECIFICATION Spec
CONSTANTS
    s1 = s1
    s2 = s2
    Servers = {s1, s2}
    Blank = Blank
    Threads = {t1}
    Pages <- MCPages
    MaxOutages = 1
    MaxPages = 1
INVARIANTS
    TypeOK
    AvailableServerAnswers
    AvailableServerLogsIn
PROPERTIES
    CallsReturn
    TokenRenewed
    ListFollowsPage
CHECK_DEADLOCK FALSE
