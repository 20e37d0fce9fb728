SPECIFICATION Spec
CONSTANTS
    Targets = 2
    ModifiedTargets = 1
    MaxFaults = 2
    MaxEdits = 0
INVARIANTS
    NothingLeftBehind
CHECK_DEADLOCK FALSE
