SPECIFICATION Spec
CONSTANTS
    Plain = {"text", "more text"}
    MaxHeaders = 2
    MaxPairs = 3
INVARIANTS
    ScopeKeepsHeaders
    HeadIsAsGiven
CHECK_DEADLOCK FALSE
