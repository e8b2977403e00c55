SPECIFICATION FleetSpec
CONSTANTS
    Members = {1, 2}
    MaxFleets = 1
    Lag = 1
INVARIANT
    FailedLanesAreRefunded
CHECK_DEADLOCK FALSE
