\* Three Runs of one engine, begun and cancelled as often as the buttons allow;
\* four operations on the service of each platform; four events around the circuit
\* list, with Auto-refresh turned on twice.
CONSTANTS
    Areas = {"service", "vm", "circuits"}
    Platforms = {"darwin", "linux", "windows"}
    MaxClicks = 4
    Idle = Idle
    Gone = Gone
    Runs = {r1,r2,r3}
    NoRun = NoRun
    g1 = g1
    e1 = e1
    e2 = e2
    c1 = c1
    c2 = c2
    Relays = {g1, e1, e2}
    Circuits = {c1, c2}
    Path <- MCPath
    MaxTickers = 2
    MaxEvents = 4
    NoPoll = NoPoll
    Redraw = Redraw
    NoDialog = NoDialog
SPECIFICATION Spec
ACTION_CONSTRAINT EarlyQuit
INVARIANT
    GlobeFresh
PROPERTIES
    TabConverges
    ListConverges
    StopEndsVM
    AutoRefreshStops
CHECK_DEADLOCK FALSE
