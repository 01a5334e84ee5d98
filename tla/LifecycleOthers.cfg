\* The instances of Lifecycle are in MCLifecycle.
SPECIFICATION Spec
PROPERTIES
    GuardsEgress
    VMExitEndsRun
    StartupDecides
    FailureCleansUp
CHECK_DEADLOCK FALSE
