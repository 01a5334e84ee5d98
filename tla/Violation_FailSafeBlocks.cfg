\* The VM fails while the failsafe is there to block traffic.
CONSTANTS
    Platform = "linux"
    OrigMetric = 100
    Faults = {}
    MayHang = FALSE
    Supervisor = "none"
    MayCancel = FALSE
    MaxRestarts = 0
SPECIFICATION Spec
PROPERTIES
    FailSafeBlocks
CHECK_DEADLOCK FALSE
