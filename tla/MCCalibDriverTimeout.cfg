SPECIFICATION DriverSpec
CONSTANTS
    Arms = {"global", "masked", "reference"}
    CleanupChecks = {TRUE, FALSE}
    MaxMishaps = 0
INVARIANTS
    EveryTimeoutIsRecorded
CHECK_DEADLOCK FALSE
