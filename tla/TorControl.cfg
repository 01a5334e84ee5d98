\* Two goroutines share a client whose replies may be late, whose connection may
\* break and that may be closed; channels shorter than a reply.
CONSTANTS
    Callers = {c1, c2}
    Replies <- PlainReplies
    SyncCap = 1
    EventCap = 1
    MayTimeout = TRUE
    MayFail = TRUE
    MayClose = TRUE
    MaxCommands = 2
    MaxEvents = 2
SPECIFICATION FairSpec
INVARIANTS
    TypeOK
    OwnReply
    ReplyOrder
PROPERTIES
    CallsReturn
    ReaderStops
CHECK_DEADLOCK FALSE
