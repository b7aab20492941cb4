SPECIFICATION Spec
CONSTANTS
    NumTBs = 6
    MaxResident = 3
    Latency = 2
    LastCycle = 9
CONSTRAINT WithinBound
INVARIANTS
    PlacesConserved
    NoPlaceIdle
PROPERTIES
    DispatchOnTime
