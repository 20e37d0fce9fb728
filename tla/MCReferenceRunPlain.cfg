SPECIFICATION Spec
CONSTANTS
    Layers = {l1, l2}
    Model = model
    Prepare = prepare
    Arm = "plain"
    PromptLen = 2
    Total = 3
    Slack = 1
    CleanupForwards = 1
    MaxFaults = 3
INVARIANTS
    AcceptedIsTheRequest
CHECK_DEADLOCK FALSE
