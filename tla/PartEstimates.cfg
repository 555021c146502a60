SPECIFICATION FairSpec
CONSTANTS
    Parts = {1, 2}
    Projects = {j1, j2}
    Presets = {fine, coarse}
    Models = {m1, m2}
    Requests = {r1, r2}
    None = None
    StaleReads = FALSE
    MaxEdits = 2
    MaxRestarts = 1
INVARIANTS
    EstimateIsOfThePresentModel
    EstimatingIsUnderWay
PROPERTY EstimatesSettle
CHECK_DEADLOCK FALSE
