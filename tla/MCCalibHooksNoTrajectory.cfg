SPECIFICATION Spec
CONSTANTS
    MaxTokens = 3
    Trajectories = {0}
    OtherTokens = 2
    Slack = 1
    MaxFaults = 0
PROPERTIES
    StoppedOnlyAtItsEnd
CHECK_DEADLOCK FALSE
