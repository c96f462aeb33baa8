\* The claim about a repeated SYN-ACK, violated.
CONSTANTS
    g1 = g1
    g2 = g2
    g3 = g3
    g4 = g4
    r1 = r1
    r2 = r2
    NULL = NULL
    MaxConns = 1
    Handlers <- ThreeHandlers
    Routines <- OneRoutine
    WriteCap = 1
    Bodies <- UsableBody
SPECIFICATION Spec
INVARIANTS
    SynAckLinkedOnce
