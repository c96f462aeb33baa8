\* One slot that traces two targets over two hops, two packets handled at a time, queues
\* of one.  What the bounds leave out is said in MCTraceroute.  A program that hangs is
\* part of the model, so deadlock is not checked.
CONSTANTS
    s1 = s1
    s2 = s2
    g1 = g1
    g2 = g2
    NULL = NULL
    Slots = {s1}
    MaxTargets = 2
    MaxTtl = 2
    Handlers = {g1, g2}
    IpCap = 1
    WriteCap = 1
    Modes = {"file"}
SPECIFICATION Spec
SYMMETRY HandlerSymmetry
CONSTRAINTS
    SomeUndisturbed
    NotStopped
    MeetInFirstRun
INVARIANTS
    TypeOK
    ResultsOfOneRun
    AllTracedAtEnd
PROPERTIES
    DnsPortFixed
    NoRunDropped
CHECK_DEADLOCK FALSE
