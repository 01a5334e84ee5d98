----------------------------- MODULE HostNetwork -----------------------------
(***************************************************************************)
(* The host's network configuration and the network.Manager operations     *)
(* that change it (controller/internal/network).  One Manager is compiled  *)
(* in per platform, so Platform is a constant.                             *)
(*                                                                         *)
(* The configuration is a record, and every Manager operation is an        *)
(* operator that maps a configuration to the set of outcomes the operation *)
(* can have.  The engine calls several operations in a row inside one      *)
(* handler, and composes them with \E over these sets.                     *)
(***************************************************************************)
EXTENDS Integers

CONSTANTS
    Platform,     \* which Manager is built in: "linux", "darwin" or "windows"
    OrigMetric,   \* metric of the default route the host had before TorVM
    Faults        \* the external commands that may fail, by Manager operation

NetOps == {"SaveConfig", "CreateTAP", "SetupRouting", "TeardownRouting",
           "RestoreConfig", "DestroyTAP"}

ASSUME PlatformAssumption == Platform \in {"linux", "darwin", "windows"}
ASSUME MetricAssumption   == OrigMetric \in Nat
ASSUME FaultsAssumption   == Faults \subseteq NetOps \cup {"VMStart"}

(***************************************************************************)
(* tap     the TAP device: "partial" is a device that `ip tuntap add` made *)
(*         and that never got its address or was never brought up          *)
(* routes  "orig" is the host's own default route, "tor" a default route   *)
(*         through the VM, "low" and "high" the routes to 0.0.0.0/1 and    *)
(*         128.0.0.0/1 through the VM                                      *)
(* dns     DNS servers set on the Windows TAP adapter: none, one or both   *)
(***************************************************************************)
RouteNames == {"orig", "tor", "low", "high"}
TapStates  == {"absent", "partial", "up"}
DnsStates  == {"none", "one", "both"}
NetConfig  == [tap : TapStates, routes : SUBSET RouteNames, dns : DnsStates]

HostBefore == [tap |-> "absent", routes |-> {"orig"}, dns |-> "none"]

Outcome == [net : NetConfig, ok : BOOLEAN]
Ok(n)   == [net |-> n, ok |-> TRUE]
Err(n)  == [net |-> n, ok |-> FALSE]

\* Outcomes S are possible only if the commands of operation op may fail.
IfFaulty(op, S) == IF op \in Faults THEN S ELSE {}

AddRoute(n, r)  == [n EXCEPT !.routes = @ \cup {r}]
DelRoutes(n, R) == [n EXCEPT !.routes = @ \ R]

(***************************************************************************)
(* The kernel's route selection (external): the most specific prefix wins, *)
(* then the smallest metric.  Egress(n) is the set of paths that packets   *)
(* to the Internet can take; it is empty when no route covers them.        *)
(***************************************************************************)
TorMetric == IF Platform = "linux" THEN 50 ELSE 1

DefaultEgress(n) ==
    IF "tor" \in n.routes /\ ("orig" \notin n.routes \/ TorMetric < OrigMetric)
      THEN {"vm"}
      ELSE IF "orig" \in n.routes THEN {"direct"} ELSE {}

Egress(n) ==
    IF {"low", "high"} \subseteq n.routes
      THEN {"vm"}
      ELSE DefaultEgress(n) \cup (IF {"low", "high"} \cap n.routes # {} THEN {"vm"} ELSE {})

-----------------------------------------------------------------------------
(* linuxManager *)

\* `ip tuntap add` is exclusive: it fails on a device that already exists, so
\* one that an earlier attempt left half configured makes every retry fail.
LinuxCreateTAP(n) ==
    IF n.tap # "absent"
      THEN {Err(n)}
      ELSE {Ok([n EXCEPT !.tap = "up"])}
           \cup IfFaulty("CreateTAP", {Err(n), Err([n EXCEPT !.tap = "partial"])})

\* `ip route add` refuses a second default route of the same metric, and a
\* route through a device that is not up.
LinuxSetupRouting(n) ==
    IF n.tap # "up" \/ "tor" \in n.routes \/ ("orig" \in n.routes /\ OrigMetric = TorMetric)
      THEN {Err(n)}
      ELSE {Ok(AddRoute(n, "tor"))} \cup IfFaulty("SetupRouting", {Err(n)})

\* `ip route del default metric 50` names a route by its metric only.
LinuxTeardownRouting(n) ==
    {DelRoutes(n, IF "tor" \in n.routes THEN {"tor"}
                  ELSE IF OrigMetric = TorMetric THEN {"orig"} ELSE {})}
    \cup IfFaulty("TeardownRouting", {n})

\* The kernel refuses to delete a TAP that a QEMU process still has open, and
\* drops the device's routes when it goes.
LinuxDestroyTAP(n, attached) ==
    (IF attached THEN {n} ELSE {[DelRoutes(n, {"tor"}) EXCEPT !.tap = "absent"]})
    \cup IfFaulty("DestroyTAP", {n})

-----------------------------------------------------------------------------
(* darwinManager: vmnet owns the device; two half-Internet routes *)

\* Mutant: a route that exists is taken for a finished setup.
MutDarwinSetupTolerant(n) ==
    IF "low" \in n.routes THEN {Ok(n)}
    ELSE {Ok(AddRoute(AddRoute(n, "low"), "high"))}
         \cup IfFaulty("SetupRouting", {Err(n), Err(AddRoute(n, "low"))})

DarwinSetupRouting(n) ==
    IF "low" \in n.routes
      THEN {Err(n)}
      ELSE IfFaulty("SetupRouting", {Err(n), Err(AddRoute(n, "low"))})
           \cup {IF "high" \in n.routes
                   THEN Err(AddRoute(n, "low"))
                   ELSE Ok(AddRoute(AddRoute(n, "low"), "high"))}

\* Each of the two deletions may fail on its own; the error is ignored.
DarwinTeardownRouting(n) ==
    {DelRoutes(n, {"low", "high"})}
    \cup IfFaulty("TeardownRouting", {DelRoutes(n, R) : R \in SUBSET {"low", "high"}})

-----------------------------------------------------------------------------
(* windowsManager: the adapter persists; its gateway is the default route *)

WindowsCreateTAP(n) ==
    {Ok([AddRoute(n, "tor") EXCEPT !.tap = "up"])} \cup IfFaulty("CreateTAP", {Err(n)})

WindowsSetupRouting(n) ==
    {Ok([n EXCEPT !.dns = "both"])}
    \cup IfFaulty("SetupRouting", {Err(n), Err([n EXCEPT !.dns = "one"])})

\* netsh exec replays the dump, which holds the DNS servers of every adapter.
WindowsRestoreConfig(n, saved) ==
    {[n EXCEPT !.dns = saved]} \cup IfFaulty("RestoreConfig", {n})

WindowsDestroyTAP(n) ==
    {[DelRoutes(n, {"tor"}) EXCEPT !.tap = "absent"]} \cup IfFaulty("DestroyTAP", {n})

-----------------------------------------------------------------------------
(* The Manager interface *)

CreateTAP(n) == IF Platform = "linux" THEN LinuxCreateTAP(n)
                ELSE IF Platform = "darwin" THEN {Ok(n)}
                ELSE WindowsCreateTAP(n)

SetupRouting(n) == IF Platform = "linux" THEN LinuxSetupRouting(n)
                   ELSE IF Platform = "darwin" THEN DarwinSetupRouting(n)
                   ELSE WindowsSetupRouting(n)

\* On every platform TeardownRouting returns nil, whatever the commands did.
TeardownRouting(n) == IF Platform = "linux" THEN LinuxTeardownRouting(n)
                      ELSE IF Platform = "darwin" THEN DarwinTeardownRouting(n)
                      ELSE {n}

\* Linux and macOS only check the HMAC of the saved configuration, and leave
\* restoration to TeardownRouting.  Errors are logged by the only caller.
RestoreConfig(n, saved) ==
    IF Platform = "windows" THEN WindowsRestoreConfig(n, saved) ELSE {n}

DestroyTAP(n, attached) == IF Platform = "linux" THEN LinuxDestroyTAP(n, attached)
                           ELSE IF Platform = "darwin" THEN {n}
                           ELSE WindowsDestroyTAP(n)

\* What SaveConfig captures of the configuration that RestoreConfig replays.
SaveConfig(n) == n.dns

\* TeardownRouting does what it says: its commands do not fail, it does not
\* take the host's own default route for TorVM's, and (Windows, where it is
\* empty) the gateway goes with the adapter's address.
TeardownReliable ==
    /\ "TeardownRouting" \notin Faults
    /\ Platform = "linux" => OrigMetric # TorMetric
    /\ Platform = "windows" => "DestroyTAP" \notin Faults

\* The routes TorVM adds are all gone.
Undiverted(n) == n.routes \cap {"tor", "low", "high"} = {}

\* Only the routes that this platform's Manager ever adds are there.
PlatformRoutes(n) ==
    /\ Platform = "darwin" => "tor" \notin n.routes
    /\ Platform # "darwin" => n.routes \cap {"low", "high"} = {}
=============================================================================
