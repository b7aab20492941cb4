SPECIFICATION Spec
CONSTANTS
    MaxGroup = 2
    Consumer = {0, 1}
    Steps = 1
    Load = {0, 1}
    Put = {0}
    Chunks = 2
    GemmShape <- Shapes
    Fa3Shape <- Attention
CHECK_DEADLOCK FALSE
INVARIANTS
    TwoStages
    OneTileAtATime
    EveryTileStored
    NoDeadEnd
PROPERTIES
    StagesInOrder
