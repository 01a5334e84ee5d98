-------------------------- MODULE HostNetworkProofs --------------------------
(***************************************************************************)
(* What the Manager operations of HostNetwork do to a configuration, for   *)
(* every platform, metric and set of faults.  The proofs about the engine  *)
(* use these facts and never open the operations.                          *)
(***************************************************************************)
EXTENDS HostNetwork, TLAPS

-----------------------------------------------------------------------------

\* Editing one field of a configuration keeps it well formed and leaves the
\* other fields alone: the Manager operations are made of such edits.
LEMMA Edits ==
    ASSUME NEW n \in NetConfig
    PROVE  /\ \A r \in RouteNames :
                /\ AddRoute(n, r) \in NetConfig
                /\ AddRoute(n, r).routes = n.routes \cup {r}
           /\ \A R \in SUBSET RouteNames :
                /\ DelRoutes(n, R) \in NetConfig
                /\ DelRoutes(n, R).routes = n.routes \ R
           /\ \A t \in TapStates :
                /\ [n EXCEPT !.tap = t] \in NetConfig
                /\ [n EXCEPT !.tap = t].routes = n.routes
           /\ \A d \in DnsStates :
                /\ [n EXCEPT !.dns = d] \in NetConfig
                /\ [n EXCEPT !.dns = d].routes = n.routes
  BY DEF AddRoute, DelRoutes, NetConfig

\* The two fields of an outcome.
LEMMA Outcomes ==
    ASSUME NEW n
    PROVE  /\ Ok(n).net = n /\ Ok(n).ok = TRUE
           /\ Err(n).net = n /\ Err(n).ok = FALSE
  BY DEF Ok, Err

\* The configuration of the host before TorVM is well formed.
LEMMA HostBeforeFacts ==
    /\ HostBefore \in NetConfig
    /\ HostBefore.routes = {"orig"}
    /\ PlatformRoutes(HostBefore)
  BY DEF HostBefore, NetConfig, TapStates, DnsStates, RouteNames, PlatformRoutes

\* CreateTAP yields well-formed outcomes, keeps the host's own route, adds no
\* route but (Windows) the gateway, and that one whenever it succeeds.
LEMMA CreateTAPFacts ==
    ASSUME NEW n \in NetConfig, NEW r \in CreateTAP(n)
    PROVE  /\ r.net \in NetConfig
           /\ r.ok \in BOOLEAN
           /\ n.routes \subseteq r.net.routes
           /\ PlatformRoutes(n) => PlatformRoutes(r.net)
           /\ Platform = "windows" /\ r.ok => "tor" \in r.net.routes
<1>0. {"absent", "partial", "up"} \subseteq TapStates /\ "tor" \in RouteNames
  BY DEF TapStates, RouteNames
<1>1. CASE Platform = "linux"
  <2>1. \/ r = Err(n)
        \/ \E t \in TapStates : r = Ok([n EXCEPT !.tap = t]) \/ r = Err([n EXCEPT !.tap = t])
    BY <1>0, <1>1 DEF CreateTAP, LinuxCreateTAP, IfFaulty
  <2>2. r.net \in NetConfig /\ r.net.routes = n.routes /\ r.ok \in BOOLEAN
    <3>1. CASE r = Err(n)
      BY <3>1, Outcomes
    <3>2. ASSUME NEW t \in TapStates, r = Ok([n EXCEPT !.tap = t]) \/ r = Err([n EXCEPT !.tap = t])
          PROVE  r.net \in NetConfig /\ r.net.routes = n.routes /\ r.ok \in BOOLEAN
      <4>1. r.net = [n EXCEPT !.tap = t] /\ r.ok \in BOOLEAN
        BY <3>2, Outcomes
      <4> QED BY <4>1, Edits
    <3> QED BY <2>1, <3>1, <3>2
  <2> QED BY <1>1, <2>2 DEF PlatformRoutes
<1>2. CASE Platform = "darwin"
  <2>1. r = Ok(n)
    BY <1>2 DEF CreateTAP
  <2> QED BY <1>2, <2>1, Outcomes
<1>3. CASE Platform = "windows"
  <2> DEFINE up == [AddRoute(n, "tor") EXCEPT !.tap = "up"]
  <2>1. r = Ok(up) \/ r = Err(n)
    BY <1>3 DEF CreateTAP, WindowsCreateTAP, IfFaulty
  <2>2. up \in NetConfig /\ up.routes = n.routes \cup {"tor"}
    <3>1. AddRoute(n, "tor") \in NetConfig /\ AddRoute(n, "tor").routes = n.routes \cup {"tor"}
      BY <1>0, Edits
    <3> QED BY <1>0, <3>1, Edits
  <2> HIDE DEF up
  <2>3. \/ r.net = up /\ r.ok = TRUE
        \/ r.net = n /\ r.ok = FALSE
    BY <2>1, Outcomes
  <2> QED BY <1>3, <2>2, <2>3 DEF PlatformRoutes
<1> QED BY <1>1, <1>2, <1>3, PlatformAssumption

\* SetupRouting yields well-formed outcomes, removes no route, and succeeds
\* only when the routes it stands for are all in the table.
LEMMA SetupRoutingFacts ==
    ASSUME NEW n \in NetConfig, NEW r \in SetupRouting(n)
    PROVE  /\ r.net \in NetConfig
           /\ r.ok \in BOOLEAN
           /\ n.routes \subseteq r.net.routes
           /\ PlatformRoutes(n) => PlatformRoutes(r.net)
           /\ r.ok /\ Platform = "linux" => "tor" \in r.net.routes
           /\ r.ok /\ Platform = "darwin" => {"low", "high"} \subseteq r.net.routes
<1>0. {"tor", "low", "high"} \subseteq RouteNames /\ {"one", "both"} \subseteq DnsStates
  BY DEF RouteNames, DnsStates
<1>1. CASE Platform = "linux"
  <2> DEFINE m == AddRoute(n, "tor")
  <2>1. r = Err(n) \/ r = Ok(m)
    BY <1>1 DEF SetupRouting, LinuxSetupRouting, IfFaulty
  <2>2. m \in NetConfig /\ m.routes = n.routes \cup {"tor"}
    BY <1>0, Edits
  <2> HIDE DEF m
  <2>3. \/ r.net = n /\ r.ok = FALSE
        \/ r.net = m /\ r.ok = TRUE
    BY <2>1, Outcomes
  <2> QED BY <1>1, <2>2, <2>3 DEF PlatformRoutes
<1>2. CASE Platform = "darwin"
  <2> DEFINE half == AddRoute(n, "low")
             full == AddRoute(half, "high")
  <2>1. r = Err(n) \/ r = Err(half) \/ r = Ok(full)
    BY <1>2 DEF SetupRouting, DarwinSetupRouting, IfFaulty
  <2>2. half \in NetConfig /\ half.routes = n.routes \cup {"low"}
    BY <1>0, Edits
  <2>3. full \in NetConfig /\ full.routes = half.routes \cup {"high"}
    <3> HIDE DEF half
    <3> QED BY <1>0, <2>2, Edits
  <2> HIDE DEF half, full
  <2>4. \/ r.net = n /\ r.ok = FALSE
        \/ r.net = half /\ r.ok = FALSE
        \/ r.net = full /\ r.ok = TRUE
    BY <2>1, Outcomes
  <2>5. CASE r.net = n /\ r.ok = FALSE
    BY <1>2, <2>5
  <2>6. CASE r.net = half /\ r.ok = FALSE
    <3>1. PlatformRoutes(n) => PlatformRoutes(half)
      BY <1>2, <2>2 DEF PlatformRoutes
    <3> QED BY <1>2, <2>2, <2>6, <3>1
  <2>7. CASE r.net = full /\ r.ok = TRUE
    BY <1>2, <2>2, <2>3, <2>7 DEF PlatformRoutes
  <2> QED BY <2>4, <2>5, <2>6, <2>7
<1>3. CASE Platform = "windows"
  <2>1. \/ r = Err(n)
        \/ \E d \in DnsStates : r = Ok([n EXCEPT !.dns = d]) \/ r = Err([n EXCEPT !.dns = d])
    BY <1>0, <1>3 DEF SetupRouting, WindowsSetupRouting, IfFaulty
  <2>2. r.net \in NetConfig /\ r.net.routes = n.routes /\ r.ok \in BOOLEAN
    <3>1. CASE r = Err(n)
      BY <3>1, Outcomes
    <3>2. ASSUME NEW d \in DnsStates, r = Ok([n EXCEPT !.dns = d]) \/ r = Err([n EXCEPT !.dns = d])
          PROVE  r.net \in NetConfig /\ r.net.routes = n.routes /\ r.ok \in BOOLEAN
      <4>1. r.net = [n EXCEPT !.dns = d] /\ r.ok \in BOOLEAN
        BY <3>2, Outcomes
      <4> QED BY <4>1, Edits
    <3> QED BY <2>1, <3>1, <3>2
  <2> QED BY <1>3, <2>2 DEF PlatformRoutes
<1> QED BY <1>1, <1>2, <1>3, PlatformAssumption

\* TeardownRouting keeps configurations well formed, adds no route, and where
\* it is reliable removes TorVM's routes and only those (but on Windows).
LEMMA TeardownRoutingFacts ==
    ASSUME NEW n \in NetConfig, NEW m \in TeardownRouting(n)
    PROVE  /\ m \in NetConfig
           /\ PlatformRoutes(n) => PlatformRoutes(m)
           /\ TeardownReliable /\ "orig" \in n.routes => "orig" \in m.routes
           /\ TeardownReliable /\ PlatformRoutes(n) /\ Platform # "windows" => Undiverted(m)
<1>0. \A R \in SUBSET {"orig", "tor", "low", "high"} :
        DelRoutes(n, R) \in NetConfig /\ DelRoutes(n, R).routes = n.routes \ R
  BY Edits DEF RouteNames
<1>1. CASE Platform = "linux"
  <2> DEFINE R == IF "tor" \in n.routes THEN {"tor"}
                  ELSE IF OrigMetric = TorMetric THEN {"orig"} ELSE {}
  <2>1. m = DelRoutes(n, R) \/ (m = n /\ "TeardownRouting" \in Faults)
    BY <1>1 DEF TeardownRouting, LinuxTeardownRouting, IfFaulty
  <2>2. m = n \/ (m \in NetConfig /\ m.routes = n.routes \ R)
    BY <1>0, <2>1
  <2>3. TeardownReliable => m \in NetConfig /\ m.routes = n.routes \ {"tor"}
    BY <1>0, <1>1, <2>1 DEF TeardownReliable
  <2> QED BY <1>1, <2>2, <2>3 DEF PlatformRoutes, Undiverted
<1>2. CASE Platform = "darwin"
  <2>1. \E R \in SUBSET {"low", "high"} :
          /\ m = DelRoutes(n, R)
          /\ "TeardownRouting" \notin Faults => R = {"low", "high"}
    BY <1>2 DEF TeardownRouting, DarwinTeardownRouting, IfFaulty
  <2>2. PICK R \in SUBSET {"low", "high"} :
          /\ m \in NetConfig
          /\ m.routes = n.routes \ R
          /\ "TeardownRouting" \notin Faults => R = {"low", "high"}
    BY <1>0, <2>1
  <2> QED BY <1>2, <2>2 DEF PlatformRoutes, Undiverted, TeardownReliable
<1>3. CASE Platform = "windows"
  BY <1>3 DEF TeardownRouting
<1> QED BY <1>1, <1>2, <1>3, PlatformAssumption

\* RestoreConfig touches no route.
LEMMA RestoreConfigFacts ==
    ASSUME NEW n \in NetConfig, NEW d \in DnsStates, NEW m \in RestoreConfig(n, d)
    PROVE  m \in NetConfig /\ m.routes = n.routes
<1>1. m = n \/ m = [n EXCEPT !.dns = d]
  BY DEF RestoreConfig, WindowsRestoreConfig, IfFaulty
<1>2. [n EXCEPT !.dns = d] \in NetConfig /\ [n EXCEPT !.dns = d].routes = n.routes
  BY Edits
<1> QED BY <1>1, <1>2

\* DestroyTAP adds no route and keeps the host's own, and on Windows it removes
\* the gateway unless it fails.
LEMMA DestroyTAPFacts ==
    ASSUME NEW n \in NetConfig, NEW attached \in BOOLEAN, NEW m \in DestroyTAP(n, attached)
    PROVE  /\ m \in NetConfig
           /\ m.routes \subseteq n.routes
           /\ "orig" \in n.routes => "orig" \in m.routes
           /\ TeardownReliable /\ Platform = "windows" => "tor" \notin m.routes
<1> DEFINE gone == [DelRoutes(n, {"tor"}) EXCEPT !.tap = "absent"]
<1>1. gone \in NetConfig /\ gone.routes = n.routes \ {"tor"}
  <2>1. {"tor"} \in SUBSET RouteNames /\ "absent" \in TapStates
    BY DEF RouteNames, TapStates
  <2>2. DelRoutes(n, {"tor"}) \in NetConfig /\ DelRoutes(n, {"tor"}).routes = n.routes \ {"tor"}
    BY <2>1, Edits
  <2> QED BY <2>1, <2>2, Edits
<1>2. /\ m = gone \/ m = n
      /\ TeardownReliable /\ Platform = "windows" => m = gone
  BY PlatformAssumption
     DEF DestroyTAP, LinuxDestroyTAP, WindowsDestroyTAP, IfFaulty, TeardownReliable
<1> HIDE DEF gone
<1> QED BY <1>1, <1>2

\* The path of the packets, read off the routes.
LEMMA EgressFacts ==
    ASSUME NEW n \in NetConfig
    PROVE  /\ "tor" \in n.routes /\ TorMetric < OrigMetric => Egress(n) = {"vm"}
           /\ {"low", "high"} \subseteq n.routes => Egress(n) = {"vm"}
           /\ Undiverted(n) => "vm" \notin Egress(n)
  BY DEF Egress, DefaultEgress, Undiverted
=============================================================================
