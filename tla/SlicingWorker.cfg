SPECIFICATION WorkerFairSpec
CONSTANTS
    Processes = {p1, p2}
    JobItems = {1}
    PartItems = {2}
    Retries = 1
    Free = Free
    MaxRequests = 2
    MaxCrashes = 1
    MaxFaults = 1
INVARIANTS
    OneWorker
    NoOrphanedJob
PROPERTY PendingIsPicked
CHECK_DEADLOCK FALSE
