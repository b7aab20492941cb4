SPECIFICATION FairSpec
CONSTANTS
    NumSMs = 4
    Accesses <- Traffic
    ClusterSize = 3
    NetDepth = 2
    Topologies <- Networks
    MemoryDepth = 2
    MemoryLatency = 1
INVARIANTS
    EachInOnePlace
    RecordsMatch
    ArrivalsInOrder
    PortsSerial
    RoutesShortest
PROPERTIES
    AllAnswered
