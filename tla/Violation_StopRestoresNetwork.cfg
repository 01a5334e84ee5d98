\* A stop request while nothing else goes wrong.
CONSTANTS
    Platform = "linux"
    OrigMetric = 100
    Faults = {}
    MayHang = FALSE
    Supervisor = "none"
    MayCancel = TRUE
    MaxRestarts = 0
SPECIFICATION FairSpec
PROPERTIES
    StopRestoresNetwork
CHECK_DEADLOCK FALSE
