SPECIFICATION FairSpec
CONSTANTS
    MaxUnits = 2
    WireCapacity = 1
    MaxMessages = 0
    MaxCompliant = 3
    Capacity = 1
INVARIANTS
    BufferedIsWhole
PROPERTIES
    WriterFinishes
    ComputeEnds
    HeadersReturnEarly
CHECK_DEADLOCK FALSE
