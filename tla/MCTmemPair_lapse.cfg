SPECIFICATION Spec
CONSTANTS
    NumMma = 2
    Latency = 2
    Span = 3
    AllocSpan = 1
    Interval = 1
    NumAlloc = 2
    AllocCols = 1
    MmaCols = 2
    MaxCols = 2
    MaxReady = 3
    LastCycle = 22
CHECK_DEADLOCK FALSE
INVARIANTS
    GrantsUsed
