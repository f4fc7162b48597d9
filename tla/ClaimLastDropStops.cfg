SPECIFICATION FairSpec
CONSTANTS
    Owners = {"main", "worker"}
    MaxLoops = 2
    Coroutines = {"c1"}
PROPERTY LastDropStops
CHECK_DEADLOCK FALSE
