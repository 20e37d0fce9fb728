SPECIFICATION Spec
CONSTANTS
    MaxTokens = 3
    Trajectories = {2, 3, 4}
    OtherTokens = 2
    Slack = 1
    MaxFaults = 3
INVARIANTS
    TrajectoryInOrder
    AcceptedIsReplay
    HookInv
CHECK_DEADLOCK FALSE
