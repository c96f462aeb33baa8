\* Two ports with two DNS ids each and five probes: ports and DNS ids wrap around.
\* Two packets and a channel of one slot.
CONSTANTS
    g1 = g1
    g2 = g2
    NULL = NULL
    PortMin = 1
    PortMax = 2
    MaxDnsId = 1
    MaxProbes = 5
    Handlers = {g1, g2}
    Routines = {r1}
    WriteCap = 1
SPECIFICATION Spec
SYMMETRY HandlerSymmetry
CONSTRAINT StopEarly
INVARIANTS
    RecordedOnce
    MissedOnlyLate
    MixedUpAfterFullCycle
PROPERTIES
    ImplementsProbeRecord
