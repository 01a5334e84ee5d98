\* Two edits: writes of the file, with reloads that Tor takes or refuses, and, in
\* the controller with a GUI, edits in its tabs.
SPECIFICATION MCSpec
CONSTANTS
    Modes = {"headless", "gui"}
    b1 = b1
    b2 = b2
    r1 = r1
    Bad = Bad
    NoConfig = NoConfig
    BridgeLines <- MCBridgeLines
    First <- MCFirst
    Rest <- MCRest
    Relays <- MCRelays
    Contents <- MCContents
    Earlier <- MCEarlier
    MemSizes <- MCMemSizes
    MaxEdits = 2
INVARIANTS TypeOK  TorMatchesEngine
PROPERTIES LastWriteWins CloseEnds
CHECK_DEADLOCK FALSE
