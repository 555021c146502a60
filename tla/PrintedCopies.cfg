SPECIFICATION Spec
CONSTANTS
    Bundle <- TwoOfTwoMeshes
    Layouts <- FourLayouts
    u1 = u1
    u2 = u2
    Users = {u1, u2}
    None = None
    MaxAttempts = 2
    MaxSpoiled = 1
INVARIANTS
    CountIsBacked
    OverviewAddsUp
SYMMETRY Symmetry
PROPERTY ExclusionsAreSeen
CHECK_DEADLOCK FALSE
