SPECIFICATION FairSpec
CONSTANTS
    Layers = {l1, l2}
    Model = model
    Prepare = prepare
    Arm = "reference"
    PromptLen = 2
    Total = 3
    Slack = 1
    CleanupForwards = 1
    MaxFaults = 3
INVARIANTS
    OriginalsBack
    AcceptedIsCovered
    RunInv
PROPERTIES
    RunEnds
CHECK_DEADLOCK FALSE
