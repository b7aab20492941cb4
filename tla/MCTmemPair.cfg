SPECIFICATION FairSpec
CONSTANTS
    NumMma = 3
    Latency = 2
    Span = 2
    AllocSpan = 1
    Interval = 1
    NumAlloc = 2
    AllocCols = 1
    MmaCols = 2
    MaxCols = 2
    MaxReady = 3
    LastCycle = 22
CHECK_DEADLOCK FALSE
INVARIANTS
    CompleteTogether
    TokensMatch
    GrantsUsed
PROPERTIES
    AllComplete
