SPECIFICATION FairResponseSpec
CONSTANTS
    MaxMessages = 3
    MaxCompliant = 0
    Capacity = 1
PROPERTY TimeoutBoundsHandle
CHECK_DEADLOCK FALSE
