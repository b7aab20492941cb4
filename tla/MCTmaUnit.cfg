SPECIFICATION TmaFairSpec
CONSTANTS
    Lanes = 2
    BankBytes = 2
    Banks = 3
    Tiles <- SomeTiles
    Unit = {0}
    Command <- Commands
    NumSubops = 1
    Key = {0, 2}
    QueueDepth = 2
    TotalBudget = 2
    WriteBudget = 2
    CacheLines = 1
    HitLatency = 1
    DramLatency = 2
    LineSize = 2
    Gain = 1
    MaxCredit = 16
INVARIANTS
    EachInOnePlace
    OneFetchPerLine
    NoStaleFill
    SentInOrder
    TransactionsExact
PROPERTIES
    DirtyLeavesByWriteback
    AllServed
