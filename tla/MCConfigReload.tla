--------------------------- MODULE MCConfigReload ----------------------------
(* Files that differ in what happens to them: valid without an overlay, with *)
(* one that Tor refuses in a hot reload and with one that it takes, and      *)
(* loadable with an overlay that is refused.  Every file that is being       *)
(* written cannot be loaded.                                                 *)
EXTENDS ConfigReload

CONSTANTS b1, b2, r1

Bridges(transport, lines) == [use |-> TRUE, transport |-> transport, lines |-> lines]

WithPlugin == File("json", [verbose |-> TRUE, bridge |-> Bridges("obfs4", <<b1>>)])

MCContents ==
    {File("json", <<>>), WithPlugin,
     File("json", [bridge |-> Bridges("none", <<b1, b2>>),
                   vector |-> [enabled |-> TRUE, dimension |-> 128]]),
     File("json", [mem |-> 64, relays |-> [exclude |-> {}, exit |-> {Bad}, strict |-> TRUE]])}

MCEarlier == {WithPlugin}

\* b1 is an address, b2 one that is followed by the name and value of an option.
MCBridgeLines == {b1, b2}
MCFirst == [b \in MCBridgeLines |-> b1]
MCRest == [b \in MCBridgeLines |-> IF b = b2 THEN {OtherOption} ELSE {}]
MCRelays == {r1}
MCMemSizes == {512}

\* Without a GUI Tor keeps what SETCONF sets, as TorMatchesEngine asks; with one
\* the state disk is empty and the program starts with bridges.
MCInit ==
    /\ Init
    /\ mode = "headless" => keeps
    /\ mode = "gui" => override = <<>> /\ file = WithPlugin

MCSpec == MCInit /\ [][Next]_vars /\ Fairness
=============================================================================
