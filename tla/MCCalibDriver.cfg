SPECIFICATION FairSpec
CONSTANTS
    Arms = {"global", "masked", "reference"}
    CleanupChecks = {TRUE, FALSE}
    MaxMishaps = 2
INVARIANTS
    TimeoutIsRecorded
    DriverInv
    ErrorLands
    JudgedBeforeCleanup
PROPERTIES
    RunEnds
CHECK_DEADLOCK FALSE
