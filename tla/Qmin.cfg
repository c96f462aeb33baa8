SPECIFICATION Spec
CONSTANTS
    Configs <- MCConfigs
    NULL = NULL
INVARIANTS
    MeasuredTruly
    NxTruly
    RowPerQuery
    OrderFree
PROPERTY
    ScanEnds
CHECK_DEADLOCK FALSE
