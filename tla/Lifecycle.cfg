SPECIFICATION FairSpec
CONSTANTS
    j1 = j1
    j2 = j2
    p1 = p1
    p2 = p2
    s1 = s1
    s2 = s2
    Plates = {1, 2}
    Jobs = {j1}
    JobOf <- OneJob
    Printers = {p1}
    Fits <- OneJobFits
    Unprofiled = {}
    Priorities = {2}
    MaxRetries = 2
    Starters = {s1}
    SlowUploads = FALSE
    NoRow = NoRow
    MaxAttempts = 3
    MaxForms = 1
INVARIANTS
    OneOpenAttemptPerPlate
    ClosedJobQueuesNothing
    DerivedStatesAgree
PROPERTIES
    PlatesFollowLifecycle
    StartSettles
CHECK_DEADLOCK FALSE
