SPECIFICATION Spec
CONSTANTS
    Handlers = {"main", "worker"}
    Docroots = {"apps", "sites"}
    CurrentDir = "apps"
INVARIANTS
    AppIsOwn
    ImportsOwn
CHECK_DEADLOCK FALSE
