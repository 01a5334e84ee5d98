\* Two connections of one app, whose servers only close, in a table of one; the app
\* sends a byte or its SYN again.
CONSTANTS
    Keys = {k1}
    MaxSessions = 1
    MayPiggyback = FALSE
    MayFail = FALSE
    MaxCreated = 2
    MaxSyn = 2
    MaxTun = 1
    MaxData = 1
    MaxResend = 1
    MaxServed = 0
SPECIFICATION FairSpec
ACTION_CONSTRAINT ResendsEarly
PROPERTIES
    Reaped
CHECK_DEADLOCK FALSE
