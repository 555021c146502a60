SPECIFICATION Spec
CONSTANTS
    j1 = j1
    j2 = j2
    p1 = p1
    p2 = p2
    s1 = s1
    s2 = s2
    Plates = {1, 2}
    Jobs = {j1}
    JobOf <- OneJob
    Printers = {p1, p2}
    Fits <- OneJobFitsBoth
    Unprofiled = {}
    Priorities = {2}
    MaxRetries = 2
    Starters = {s1, s2}
    SlowUploads = FALSE
    NoRow = NoRow
    MaxAttempts = 3
    MaxForms = 0
SYMMETRY Symmetry
INVARIANTS
    OneStartPerPrinter
    BedReviewedBeforeStart
    LiveStartsProtected
CHECK_DEADLOCK FALSE
