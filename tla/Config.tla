-------------------------------- MODULE Config --------------------------------
(***************************************************************************)
(* controller/internal/config without its watcher: a Config and its file,  *)
(* Load, Validate, Diff and the torrc overlay, and what vm.Instance.Start, *)
(* the VM's init script and Engine.ReloadConfig make of the overlay.       *)
(*                                                                         *)
(* A Config keeps apart the fields that are handled differently: mem and   *)
(* verbose, which the settings tab edits, the four groups that go into the *)
(* overlay, vector, which is hot-reloadable too, and other, every          *)
(* remaining field (addresses, ports, paths, Accel, entropy, retry,        *)
(* browser).  A text that no validator lets pass (a control character, an  *)
(* address without a port) is Bad.  What matters of the others is whether  *)
(* they contain spaces, since SetConf does not quote them: the words of a  *)
(* bridge line are First, up to the first space, and Rest.                 *)
(***************************************************************************)
EXTENDS Integers, Sequences

CONSTANTS
    BridgeLines,  \* well-formed bridge lines
    First, Rest,  \* the words of a bridge line
    Relays,       \* well-formed relay entries: $fingerprint or {CC}
    Bad           \* an ill-formed line, entry or address

Fields == {"version", "mem", "verbose", "other", "bridge", "proxy", "relays", "fhe", "vector"}

ProxyTypes == {"", "http", "https", "socks5", "HTTP", "HTTPS", "SOCKS5"}
ProxyAddresses == {"", "host:port", "host name:port"}
Transports == {"", "none", "obfs4"}    \* obfs4: any of the three with a plugin

\* A line of torrc, or what SETCONF makes of a word.
Line(option, value) == <<option, value>>

\* Words that SETCONF takes for an option that no overlay has, and for none.
OtherOption == Line("Other", "1")
Unrecognized == Line("unknown", "")

ASSUME TextAssumption ==
    /\ Bad \notin BridgeLines \cup Relays \cup Transports \cup ProxyAddresses
    /\ First \in [BridgeLines -> BridgeLines]
    /\ Rest \in [BridgeLines -> SUBSET {OtherOption, Unrecognized}]

BridgeType ==
    [use : BOOLEAN, transport : Transports \cup {Bad}, lines : Seq(BridgeLines \cup {Bad})]
ProxyType == [type : ProxyTypes \cup {Bad}, address : ProxyAddresses \cup {Bad}]
RelaysType ==
    [exclude : SUBSET (Relays \cup {Bad}), exit : SUBSET (Relays \cup {Bad}), strict : BOOLEAN]
FheType == [enabled : BOOLEAN, share : BOOLEAN, ringDegree : Nat]
VectorType == [enabled : BOOLEAN, dimension : Nat]

ConfigType ==
    [version : 0..1, mem : Nat, verbose : BOOLEAN, other : {"default", "detected", "invalid"},
     bridge : BridgeType, proxy : ProxyType, relays : RelaysType, fhe : FheType,
     vector : VectorType]

DefaultConfig ==
    [version |-> 0, mem |-> 128, verbose |-> FALSE, other |-> "default",
     bridge  |-> [use |-> FALSE, transport |-> "", lines |-> <<>>],
     proxy   |-> [type |-> "", address |-> ""],
     relays  |-> [exclude |-> {}, exit |-> {}, strict |-> FALSE],
     fhe     |-> [enabled |-> FALSE, share |-> FALSE, ringDegree |-> 12],
     vector  |-> [enabled |-> FALSE, dimension |-> 128]]

-----------------------------------------------------------------------------
(* Load *)

Validate(c) ==
    /\ c.other # "invalid"
    /\ c.mem \in 32..4096
    /\ c.proxy.type \in {"", "http", "https", "socks5"}
    /\ c.bridge.transport \in Transports
    /\ c.fhe.enabled => c.fhe.ringDegree \in 10..15
    /\ c.vector.enabled => c.vector.dimension \in 8..2048

\* A file has a kind and, if it is JSON, those fields of a Config that it names.
File(kind, fields) == [kind |-> kind, fields |-> fields]
Absent == File("absent", <<>>)
Garbage == File("garbage", <<>>)      \* not JSON: also a file that is half written

With(f, more) == [k \in DOMAIN f \cup DOMAIN more |-> IF k \in DOMAIN more THEN more[k] ELSE f[k]]

migrateJSON(f) ==
    IF "version" \in DOMAIN f /\ f.version >= 1 THEN f ELSE With(f, [version |-> 1])

\* The Config that the fields of a file give, over the defaults.
Merged(f) ==
    IF f.kind = "absent" THEN DefaultConfig
    ELSE With(With(DefaultConfig, migrateJSON(f.fields)), [version |-> 1])

\* Whether Load returns a Config, which is then Merged(f), or an error.
Loads(f) ==
    /\ f.kind \notin {"garbage", "insecure"}
    /\ Validate(Merged(f))

-----------------------------------------------------------------------------
(* Diff *)

hotReloadableFields == {"bridge", "proxy", "verbose", "relays", "fhe", "vector"}

Diff(old, new) == {k \in Fields : old[k] # new[k]}
HotReloadable(old, new) == Diff(old, new) \cap hotReloadableFields

-----------------------------------------------------------------------------
(* The torrc overlay *)

Lower(t) == CASE t = "HTTP" -> "http" [] t = "HTTPS" -> "https" [] t = "SOCKS5" -> "socks5"
              [] OTHER -> t

ProxyOption(t) ==
    CASE Lower(t) = "http" -> "HTTPProxy" [] Lower(t) = "https" -> "HTTPSProxy"
      [] OTHER -> "Socks5Proxy"

UsesProxy(c) == c.proxy.type # "" /\ c.proxy.address # ""

\* Mutant: the second list is not validated.
MutRelaysValid(r) == Bad \notin r.exclude

\* validateRelayConfig
RelaysValid(r) == Bad \notin r.exclude \cup r.exit

\* Whether TorrcOverlay returns lines or an error.  The relays are validated
\* here only, not in Validate.
OverlayOK(c) ==
    /\ c.bridge.use => /\ c.bridge.transport \in Transports
                       /\ \A i \in DOMAIN c.bridge.lines : c.bridge.lines[i] # Bad
    /\ UsesProxy(c) => c.proxy.address # Bad
    /\ RelaysValid(c.relays)

LineIf(cond, option, value) == IF cond THEN <<Line(option, value)>> ELSE <<>>

TorrcOverlay(c) ==
    LET b == c.bridge
        bridges == LineIf(TRUE, "UseBridges", "1")
                   \o LineIf(b.transport \notin {"", "none"}, "ClientTransportPlugin", b.transport)
                   \o [i \in DOMAIN b.lines |-> Line("Bridge", b.lines[i])]
    IN  (IF b.use THEN bridges ELSE <<>>)
        \o LineIf(UsesProxy(c) /\ Lower(c.proxy.type) \in {"http", "https", "socks5"},
                  ProxyOption(c.proxy.type), c.proxy.address)
        \o LineIf(c.relays.exclude # {}, "ExcludeNodes", c.relays.exclude)
        \o LineIf(c.relays.exit # {}, "ExcludeExitNodes", c.relays.exit)
        \o LineIf(c.relays.strict, "StrictNodes", "1")
        \o LineIf(c.fhe.enabled /\ c.fhe.share, "HiddenServicePort", "fhe_index")

\* A map of directives: of several lines with one option the last is kept.
parseTorrcOverlay(lines) ==
    [o \in {lines[i][1] : i \in DOMAIN lines} |->
        lines[CHOOSE i \in DOMAIN lines :
                /\ lines[i][1] = o
                /\ \A j \in DOMAIN lines : j > i => lines[j][1] # o][2]]

\* torvminit copies the lines of torrc.override whose option it allows.
TorrcAllowed(line) == line[1] # "HTTPProxy"

BootConf(override) ==
    {override[i] : i \in {j \in DOMAIN override : TorrcAllowed(override[j])}}

Proxies == {"HTTPProxy", "HTTPSProxy", "Socks5Proxy"}

\* The command of a plugin and the target of a hidden service come after a
\* space, and the host of a proxy may contain one.
Spaced(l) ==
    \/ l[1] \in {"ClientTransportPlugin", "HiddenServicePort"}
    \/ l[1] \in Proxies /\ l[2] = "host name:port"

\* The words of option=value, as Tor splits it: the value ends at its first
\* space, and each further word is a setting of its own.
Words(l) ==
    IF l[1] = "Bridge" THEN {Line("Bridge", First[l[2]])} \cup Rest[l[2]]
    ELSE {l} \cup (IF Spaced(l) THEN {Unrecognized} ELSE {})

Sent(directives) == UNION {Words(Line(o, directives[o])) : o \in DOMAIN directives}

\* Tor refuses the whole command for one word that is no option of its.
Accepted(directives) == Unrecognized \notin Sent(directives)

\* SETCONF, with Tor's options as a set of lines: the options it may lead to, of
\* which there are none when it is refused.  It replaces the lines of the
\* options it names.
SetConf(conf, directives) ==
    LET words == Sent(directives)
    IN  IF Accepted(directives)
        THEN {{l \in conf : \A w \in words : w[1] # l[1]} \cup words}
        ELSE {}

\* A line that TorrcOverlay makes of well-formed parts.
LineValid(l) ==
    \/ l[1] \in {"UseBridges", "StrictNodes"} /\ l[2] = "1"
    \/ l[1] = "ClientTransportPlugin" /\ l[2] \in Transports
    \/ l[1] = "Bridge" /\ l[2] \in BridgeLines
    \/ l[1] \in Proxies /\ l[2] \in ProxyAddresses
    \/ l[1] \in {"ExcludeNodes", "ExcludeExitNodes"} /\ l[2] \subseteq Relays
    \/ l[1] = "HiddenServicePort"
=============================================================================
