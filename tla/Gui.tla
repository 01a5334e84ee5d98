--------------------------------- MODULE Gui ---------------------------------
(***************************************************************************)
(* The GUI as one process: the application with its engine (GuiApp), the   *)
(* Service tab that it shares service mode with (ServiceTab) and the       *)
(* Circuits tab (CircuitsTab).  The user works in one of three areas of    *)
(* the window for as long as a behaviour lasts.                            *)
(***************************************************************************)
EXTENDS GuiApp, CircuitsTab

CONSTANT Areas   \* the areas that are looked at

ASSUME AreasAssumption == Areas \subseteq {"vm", "service", "circuits"}

VARIABLE area   \* where the user clicks: "vm", "service" or "circuits"

vars == <<area, serviceVars, appVars, circuitVars>>

\* Away from the Service area no service is installed, and of the platforms, which
\* differ only in whether Run may ask for root in vain (not on Windows), Linux has
\* all behaviours; away from the Circuits area Tor has no circuit to show.
Init ==
    /\ ServiceInit
    /\ AppInit
    /\ CircuitsInit
    /\ area \in Areas
    /\ area # "service" => os = "linux"
    /\ area # "service" => svc = NoService
    /\ area # "circuits" => built = <<>>

\* Without a service the polls find nothing to change, and are left out.
Polls(step) == area = "service" /\ step /\ UNCHANGED <<appVars, circuitVars, area>>

TabPolls == Polls(ServicePoll)
StatusPolls == Polls(StatusPoll)

\* In service mode Start and Stop are operations on the service, too.
ServiceNext ==
    /\ area = "service"
    /\ \/ ServiceClick /\ UNCHANGED appVars
       \/ serviceModeCall(LaunchdStart(svc))
       \/ serviceModeCall(LaunchdStop(svc))
    /\ UNCHANGED <<circuitVars, area>>

AppNext ==
    /\ area = "vm"
    /\ AppStep \/ AppClick
    /\ UNCHANGED <<circuitVars, area>>

CircuitsNext ==
    /\ area = "circuits"
    /\ \/ CircuitsUser
       \/ \E p \in Pollers : CircuitsStep(p)
       \/ \E t \in Tickers : tickerStep(t)
    /\ UNCHANGED <<serviceVars, appVars, area>>

Next == TabPolls \/ StatusPolls \/ ServiceNext \/ AppNext \/ CircuitsNext

\* The tickers fire and the commands they run return; see also the fairness of
\* the parts.
Fairness == WF_vars(TabPolls) /\ WF_vars(StatusPolls) /\ AppFairness /\ CircuitsFairness

Spec == Init /\ [][Next]_vars /\ Fairness

\* Every variable stays in its range.
TypeOK == ServiceTypeOK /\ AppTypeOK /\ CircuitsTypeOK
=============================================================================
