SPECIFICATION FairSpec
CONSTANTS
    r1 = r1
    r2 = r2
    r3 = r3
    s1 = s1
    Resolvers = {r1, r2, r3}
    Senders = {s1, s2}
    Injectors = {k1, k2}
    Handlers = {h1}
    RetCap = 2
    FinCap = 1
    MaxPool = 2
    Port_max = 65535
    Configs <- MCConfigs
    NULL = NULL
INVARIANTS
    ResolversConserved
    RatesOfOneRound
    IndexInRange
    PortsKept
    AnswersCountedForAsker
PROPERTY
    TestEnds
CHECK_DEADLOCK FALSE
