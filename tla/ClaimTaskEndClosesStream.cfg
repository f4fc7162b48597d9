SPECIFICATION FairSpec
CONSTANTS
    MaxMessages = 0
    MaxCompliant = 2
    MaxFrames = 1
    Capacity = 1
INVARIANT TaskEndClosesStream
CHECK_DEADLOCK FALSE
