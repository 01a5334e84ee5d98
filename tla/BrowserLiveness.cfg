\* A launch with a breach, exits and stops, or two launches, by AutoStart and by the
\* button, of which the second may fail or replace the first one's cancel function:
\* what must happen.
CONSTANTS
    Runs = {r1, r2}
    Loops = {l1, l2}
    AutoRemediate = TRUE
    AutoStart = TRUE
    MayStop = TRUE
    MayDie = TRUE
    MayFail = TRUE
    MaxProcs = 2
    MaxEvents = 1
SPECIFICATION FairSpec
ACTION_CONSTRAINT OneOfTwo
PROPERTIES
    StopEnds
    RunEndsItsVM
    TorEndsBrowser
CHECK_DEADLOCK FALSE
