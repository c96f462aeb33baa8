\* One connection, three packets, the end of the scan.
CONSTANTS
    g1 = g1
    g2 = g2
    g3 = g3
    g4 = g4
    r1 = r1
    r2 = r2
    NULL = NULL
    MaxConns = 1
    Handlers <- NumberedHandlers
    Routines <- OneRoutine
    WriteCap = 1
    Bodies <- UsableBody
SPECIFICATION FairSpec
PROPERTIES
    EntriesLeave
    EnqueuedIsTaken
    StopEnds
ACTION_CONSTRAINT SpawnInOrder
