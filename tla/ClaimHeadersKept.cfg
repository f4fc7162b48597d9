SPECIFICATION Spec
CONSTANTS
    Plain = {"text", "more text"}
    MaxHeaders = 1
    MaxPairs = 1
INVARIANT HeadersReachTheClient
CHECK_DEADLOCK FALSE
