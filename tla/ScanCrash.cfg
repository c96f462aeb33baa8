\* The UDP generator and an interrupt, violated.
CONSTANTS
    r1 = r1
    r2 = r2
    NULL = NULL
    IntBits = 5
    AddrBits = 2
    Modes = {"udp"}
    HostSizes = {2}
    NetIps = {0}
    FileList <- FourLines
    Blocked = {}
    ChanCap = 2
    Routines = {r1}
    Rate = 1
    Slack = 2
SPECIFICATION Spec
INVARIANTS
    StopClosedOnce
CHECK_DEADLOCK FALSE
