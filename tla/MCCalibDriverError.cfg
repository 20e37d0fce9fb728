SPECIFICATION DriverSpec
CONSTANTS
    Arms = {"global", "masked", "reference"}
    CleanupChecks = {TRUE, FALSE}
    MaxMishaps = 1
INVARIANTS
    EveryErrorLands
CHECK_DEADLOCK FALSE
