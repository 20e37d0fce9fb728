SPECIFICATION FairSpec
CONSTANTS
    Targets = 3
    ModifiedTargets = 2
    MaxFaults = 3
    MaxEdits = 2
INVARIANTS
    DeployedIsRecoverable
    DeployInv
PROPERTIES
    CheckedForeignPreserved
    UnfinishedIsClosed
CHECK_DEADLOCK FALSE
