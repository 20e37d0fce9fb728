SPECIFICATION Spec
CONSTANTS
    Targets = 2
    ModifiedTargets = 1
    MaxFaults = 2
    MaxEdits = 1
PROPERTIES
    ForeignNeverOverwritten
CHECK_DEADLOCK FALSE
