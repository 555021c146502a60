SPECIFICATION Spec
CONSTANTS
    Priorities = {1, 2, 3}
    MaxEntries = 4
    None = None
PROPERTIES
    MoveFollowsTheList
CHECK_DEADLOCK FALSE
