\* One app that uses its 4-tuple for two connections, with failing writes, while
\* the cleanup works on the first or on the second; two bytes from the app and two
\* for it, in the second connection one from the app.
CONSTANTS
    Keys = {k1}
    MaxSessions = 2
    MayPiggyback = FALSE
    MayFail = TRUE
    MaxCreated = 2
    MaxSyn = 2
    MaxTun = 1
    MaxData = 2
    MaxResend = 0
    MaxServed = 2
SPECIFICATION Spec
CONSTRAINT Bytes
INVARIANTS
    Settled
    AckedUntilFin
PROPERTIES
    InSequence
CHECK_DEADLOCK FALSE
