\* Two launches, by the button and by AutoStart, with a breach and VMs that exit.
CONSTANTS
    Runs = {r1, r2}
    Loops = {l1, l2}
    AutoRemediate = TRUE
    AutoStart = TRUE
    MayStop = FALSE
    MayDie = TRUE
    MayFail = TRUE
    MaxProcs = 2
    MaxEvents = 1
SPECIFICATION Spec
SYMMETRY Symmetry
INVARIANTS
    AtMostOneVM
CHECK_DEADLOCK FALSE
