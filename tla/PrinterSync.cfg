SPECIFICATION Spec
CONSTANTS
    p1 = p1
    p2 = p2
    gcodeFile = gcodeFile
    Plates = {p1, p2}
    Files = {gcodeFile}
    FileOf <- SharedName
    NoFile = NoFile
    NoPlate = NoPlate
    Silent = Silent
    Timely = TRUE
    LostReplies = FALSE
    MaxAttempts = 1
    MaxRuns = 2
    MaxWire = 2
    MaxLosses = 1
SYMMETRY Symmetry
INVARIANTS
    EndedPrintsAreOver
    NoEndIsMissed
PROPERTIES
    SharedNamesAreToldApart
CHECK_DEADLOCK FALSE
