\* Two slots of which one stays unused, two targets or a single one, one packet at a time.
\* A program that hangs is part of the model, so deadlock is not checked.
CONSTANTS
    s1 = s1
    s2 = s2
    g1 = g1
    g2 = g2
    NULL = NULL
    Slots = {s1, s2}
    MaxTargets = 2
    MaxTtl = 1
    Handlers = {g1}
    IpCap = 1
    WriteCap = 1
    Modes = {"file", "single"}
SPECIFICATION FairSpec
CONSTRAINTS
    SomeUndisturbed
    SecondUnused
    NoStrayHops
PROPERTIES
    TracerouteEnds
CHECK_DEADLOCK FALSE
