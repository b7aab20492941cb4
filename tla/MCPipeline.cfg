SPECIFICATION Spec
CONSTANTS
    Op <- OneOp
    Latency = 3
    Throughput = 16
    Width = 8
    Overrides <- SomeOverrides
    LastCycle = 14
CONSTRAINT WithinBound
INVARIANTS
    Fifo
    Prompt
PROPERTIES
    ImplementsDelayLine
