SPECIFICATION FairSpec
CONSTANTS
    Owners = {"main", "worker"}
    MaxLoops = 2
    Coroutines = {"c1", "c2"}
INVARIANTS
    OneSharedLoop
    HeldLoopRuns
PROPERTIES
    RequestStarts
CHECK_DEADLOCK FALSE
