\* Every generator, networks of one, two and four of the four addresses there are, one
\* address excluded, a queue of two, and an interrupt at any time.  The int overflows in
\* the generator of the largest network.  An interrupted program may crash or hang, so
\* deadlock is not checked.
CONSTANTS
    r1 = r1
    r2 = r2
    NULL = NULL
    IntBits = 5
    AddrBits = 2
    Modes = {"tcp", "udp", "file"}
    HostSizes = {0, 1, 2}
    NetIps = {0, 1}
    FileList <- FourLines
    Blocked = {2}
    ChanCap = 2
    Routines = {r1, r2}
    Rate = 1
    Slack = 3
SPECIFICATION FairSpec
INVARIANTS
    AddressesConserved
    AllProbedAtEnd
PROPERTIES
    ScanEnds
    StopEndsScan
CHECK_DEADLOCK FALSE
