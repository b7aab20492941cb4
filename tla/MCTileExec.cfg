SPECIFICATION FairSpec
CONSTANTS
    Id <- Ids4
    Node <- N4
    TB <- ThreeBlocks
    SM <- OneSM
    SmOf <- AllOnZero
    MaxResident = 2
    Workload <- AllGraphs
INVARIANTS
    TypeOK
    DependencyCounter
    ReadyOnce
    TransactionsBalance
    Accounting
    BlockLifecycle
PROPERTIES
    ImplementsTileGraph
    RunCompletes
CHECK_DEADLOCK FALSE
