SPECIFICATION Spec
CONSTANTS
    Projects = {a, b, c, d}
    Existing = {a, b}
    Quantities = {1, 2}
    Presets = {fine}
    Files = {f1, f2}
    Requests = {r1, r2}
    None = None
    PartQuantity = 1
    PrintedQuantity = 1
    HardwareQuantity = 1
    StaleMoves = FALSE
    StaleFiles = FALSE
    MaxEdits = 3
INVARIANTS
    Forest
    NeedsAgree
    RootsAreProper
    ReferencedFilesExist
PROPERTY HistoryIsKept
SYMMETRY Symmetry
CHECK_DEADLOCK FALSE
