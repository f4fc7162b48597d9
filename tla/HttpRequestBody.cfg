SPECIFICATION FairRequestSpec
CONSTANTS
    MaxUnits = 3
    WireCapacity = 2
INVARIANTS
    BodyIsContiguous
    FinalMeansComplete
    RaiseMeansNothingLeft
PROPERTIES
    ReceiveAnsweredAfterEnd
    ClientNeverBlocked
CHECK_DEADLOCK FALSE
