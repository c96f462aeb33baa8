\* Widths scaled down: 32 ids, sequence numbers modulo 128, a query of 6 bytes.
CONSTANTS
    Pad = 16
    Slots = 8
    Ports = 4
    PortBase = 100
    PayloadSize = 6
    Byte = 4
    ISNs = {0, 127}
    Lengths = {3, 6}
SPECIFICATION Spec
INVARIANTS
    LookupFindsConnection
    OtherStagesMiss
    KeysDistinct
