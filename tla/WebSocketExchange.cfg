SPECIFICATION FairSpec
CONSTANTS
    MaxMessages = 2
    MaxCompliant = 3
    MaxFrames = 2
    Capacity = 1
INVARIANTS
    HandshakeComesFirst
    DeliveredInOrder
    AckedIsWritten
    RaiseFollowsDisconnect
    SendsAreAcked
PROPERTIES
    NothingAfterClose
    DisconnectArrives
    SendCompletes
    StreamEnds
    ReturnEndsHandshake
CHECK_DEADLOCK FALSE
