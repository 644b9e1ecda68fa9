\* Every graph of four nodes, cycles and self edges included.
SPECIFICATION FairSpec
CONSTANT NumNodes = 4
INVARIANTS
    LayersAreExecutable
    LayersAreEarliest
    CyclesAreRejected
PROPERTY LayeringEnds
\* The function returns.
CHECK_DEADLOCK FALSE
