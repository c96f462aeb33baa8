\* Four packets, two of them under one Id, six arrivals in any order, every fragment at
\* most twice.  The arrivals come to an end, so deadlock is not checked.
CONSTANTS
    Datagrams <- Packets
    Ends <- PacketEnds
    IdOf <- Ids
    MaxCopies = 2
    MaxArrivals = 6
SPECIFICATION Spec
INVARIANTS
    WholePacketsOnly
    UnitsInPlace
CHECK_DEADLOCK FALSE
