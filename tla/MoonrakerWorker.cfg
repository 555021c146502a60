SPECIFICATION FairSpec
CONSTANTS
    p1 = p1
    Printers = {p1}
    w = w
    other = other
    Worker = w
    Callers = {w, other}
    None = None
    MaxRows = 2
    MaxTime = 2
    MaxLateness = 0
    MaxDeaths = 1
    QuickDatabase = FALSE
    MaxEdits = 1
    MaxCrashes = 1
INVARIANTS
    StartedAsScheduled
    OneListener
PROPERTIES
    DueIsDecided
    ListenersFollowConfig
CHECK_DEADLOCK FALSE
