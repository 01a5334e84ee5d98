\* A Linux host under systemd: cancellation, hanging and dying VMs, crashes and
\* a restart on what the first controller left, every command but the deletion
\* of the route failing at will.
CONSTANTS
    Platform = "linux"
    OrigMetric = 100
    Faults = {"SaveConfig", "CreateTAP", "SetupRouting", "RestoreConfig", "DestroyTAP", "VMStart"}
    MayHang = TRUE
    Supervisor = "systemd"
    MayCancel = TRUE
    MaxRestarts = 1
SPECIFICATION Spec
INVARIANTS
    TypeOK
    RunningIsTorified
    HostRoutesRestored
    FailSafeDropsDiversion
    NoOrphanVM
    RetryBound
    RouteInv
PROPERTY
    GuardsEgress
CHECK_DEADLOCK FALSE
