SPECIFICATION Spec
CONSTANTS
    NumSMs = 4
    Accesses <- TwoClusters
    ClusterSize = 2
    NetDepth = 2
    Topologies <- OnePerCluster
    MemoryDepth = 1
    MemoryLatency = 1
INVARIANTS
    RoutesShortest
