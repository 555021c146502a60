SPECIFICATION DialogFairSpec
CONSTANTS
    Entries = {1, 2}
    NoEntry = NoEntry
    MaxPresses = 3
    MaxFailures = 1
    MaxRestarts = 1
INVARIANTS
    StartsWhatWasOffered
PROPERTIES
    VerdictsAreFinal
    ReviewIsOffered
    StaleDialogGoes
CHECK_DEADLOCK FALSE
