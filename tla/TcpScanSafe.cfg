\* Two connections, two init_tcp goroutines, four packets, every kind of answer, up to
\* the closing of Stop_chan.
CONSTANTS
    g1 = g1
    g2 = g2
    g3 = g3
    g4 = g4
    r1 = r1
    r2 = r2
    NULL = NULL
    MaxConns = 2
    Handlers <- FourHandlers
    Routines <- TwoRoutines
    WriteCap = 1
    Bodies <- AllBodies
SPECIFICATION Spec
SYMMETRY Symmetry
CONSTRAINT NotStopped
INVARIANTS
    TypeOK
    FreshKey
    ListsOrdered
    RecordsOrdered
    QueuedComplete
    RecordsConserved
    FinPshAckRecordedOnce
