SPECIFICATION FairSpec
CONSTANTS
    a = a
    b = b
    fine = fine
    coarse = coarse
    red = red
    Jobs = {j1}
    Printers = {p1, p2}
    Parts = {a, b}
    Presets = {fine, coarse}
    Filaments = {red, blue}
    FirstSettings <- TwoPresets
    Profiles = {m}
    MaxPlates = 2
    MaxEdits = 3
    MaxRestarts = 2
    None = None
    NoJob = NoJob
INVARIANTS
    
    SlicedJobIsComplete
PROPERTIES
    WishIsAnswered
    SlicingEnds
CHECK_DEADLOCK FALSE
