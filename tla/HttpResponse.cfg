SPECIFICATION FairResponseSpec
CONSTANTS
    MaxMessages = 3
    MaxCompliant = 5
    Capacity = 1
INVARIANTS
    DeliveredInOrder
    AckedIsWritten
    EndMeansComplete
    ErrorIsReportedOnce
    FailureMeansNotStarted
    SendsAreAcked
    RaiseIsReported
PROPERTIES
    NothingAfterEnd
    ImplementsContract
    SendCompletes
    HandleTerminates
    StartedResponseEnds
CHECK_DEADLOCK FALSE
