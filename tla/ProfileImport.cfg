SPECIFICATION ImportSpec
CONSTANTS
    base = base
    user = user
    leaf = leaf
    Names = {base, user, leaf}
    FormerNames = {user}
    Kinds = {"machine", "filament", "process"}
    TypeOf <- OneUntyped
    Rank <- Shown
    NoValue = NoValue
    Importers = {1}
    MaxUploads = 3
    MaxFaults = 1
    MaxChain = 4
    Overlapping = FALSE
INVARIANTS
    PendingHasAReason
    ShownIsSent
CHECK_DEADLOCK FALSE
