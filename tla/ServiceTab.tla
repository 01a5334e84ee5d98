----------------------------- MODULE ServiceTab ------------------------------
(***************************************************************************)
(* The Service tab of the GUI (service_tab.go, service_tab_linux.go,       *)
(* service_tab_windows.go) over the service managers.  Two goroutines      *)
(* touch it: the one of the window, which runs the buttons' handlers, and  *)
(* the one that polls every five seconds.  A poll asks for the status and  *)
(* applies it in two steps, and applying it may itself change the service: *)
(* SetChecked calls the check box's handler when the box changes.  The     *)
(* service also changes underneath, through torvm --service-install and    *)
(* --service-uninstall or on its own.                                      *)
(***************************************************************************)
EXTENDS ServiceManager, Naturals

CONSTANTS
    Platforms,   \* the platforms the GUI is built for, a part of {"darwin", "linux", "windows"}
    MaxClicks,   \* bound: what the user, another process and the host do
    Idle,        \* a poll that waits for its ticker
    Gone         \* a poll whose goroutine has ended

ASSUME ServiceAssumption ==
    /\ Platforms \subseteq {"darwin", "linux", "windows"}
    /\ MaxClicks \in Nat

VARIABLES
    os,           \* runtime.GOOS
    svc,          \* the service as the host has it
    view,         \* the tab: the branch of updateUI it shows, and bootCheck
    poll,         \* the poll's QueryStatus result until it is applied, or Idle
    statusPoll,   \* the same for the Status tab's poll of launchd, or Gone
    serviceMode,  \* a.serviceMode
    quit,         \* doQuit has run: the tickers are stopped
    clicks        \* how much of MaxClicks is used

serviceVars == <<os, svc, view, poll, statusPoll, serviceMode, quit, clicks>>

Statuses == [installed : BOOLEAN, running : BOOLEAN, enabled : BOOLEAN]

-----------------------------------------------------------------------------
(* updateUI *)

\* The branch of updateUI.  The tab of Windows shows the TAP adapter only.
ShownService(st) ==
    IF ~st.installed THEN "notinstalled" ELSE IF st.running THEN "running" ELSE "stopped"

ShownTAP(st) == IF st.installed THEN "tap" ELSE "notap"

Shown(st) == IF os = "windows" THEN ShownTAP(st) ELSE ShownService(st)

\* What updateUI sets the check box to; the tab of Windows has none.
Checked(st) == os # "windows" /\ st.enabled

pollQuery ==
    /\ ~quit
    /\ poll = Idle
    /\ poll' = QueryStatus(os, svc)
    /\ UNCHANGED <<os, svc, view, statusPoll, serviceMode, quit, clicks>>

\* Mutant: the branch for a service that is not installed leaves the box.
MutUpdateUI ==
    /\ poll # Idle
    /\ poll' = Idle
    /\ view' = [shown |-> Shown(poll),
                checked |-> IF poll.installed THEN poll.enabled ELSE view.checked]
    /\ \E r \in IF view'.checked # view.checked
                  THEN SetBoot(os, svc, view'.checked) ELSE {Done(svc)} :
         svc' = r.svc
    /\ serviceMode' = (serviceMode \/ (os # "windows" /\ poll.installed))
    /\ UNCHANGED <<os, statusPoll, quit, clicks>>

updateUI ==
    /\ poll # Idle
    /\ poll' = Idle
    /\ view' = [shown |-> Shown(poll), checked |-> Checked(poll)]
    /\ \E r \in IF view'.checked # view.checked
                  THEN SetBoot(os, svc, view'.checked) ELSE {Done(svc)} :
         svc' = r.svc
    /\ serviceMode' = (serviceMode \/ (os # "windows" /\ poll.installed))
    /\ UNCHANGED <<os, statusPoll, quit, clicks>>

\* The Status tab polls launchd as long as it finds service mode on, and turns
\* it off when the service is not installed any more.
statusTick ==
    /\ ~quit
    /\ statusPoll = Idle
    /\ statusPoll' = IF serviceMode THEN LaunchdStatus(svc) ELSE Gone
    /\ UNCHANGED <<os, svc, view, poll, serviceMode, quit, clicks>>

pollServiceStatus ==
    /\ statusPoll \notin {Idle, Gone}
    /\ statusPoll' = Idle
    /\ serviceMode' = (serviceMode /\ statusPoll.installed)
    /\ UNCHANGED <<os, svc, view, poll, quit, clicks>>

-----------------------------------------------------------------------------
(* The buttons *)

Click ==
    /\ ~quit
    /\ clicks < MaxClicks
    /\ clicks' = clicks + 1
    /\ UNCHANGED <<os, poll, statusPoll, quit>>

\* A button that the last updateUI has left enabled runs one of the managers'
\* operations.
Press(enabled, outcomes) ==
    /\ Click
    /\ view.shown \in enabled
    /\ \E r \in outcomes : svc' = r.svc
    /\ UNCHANGED <<view, serviceMode>>

installBtn == Press({"notinstalled", "tap", "notap"}, Install(os, svc))

uninstallBtn ==
    /\ Click
    /\ view.shown \in {"stopped", "tap", "notap"}
    /\ \E r \in Uninstall(os, svc) :
         /\ svc' = r.svc
         /\ serviceMode' = (serviceMode /\ ~r.ok)
    /\ UNCHANGED view

startBtn == Press({"stopped"}, IF os = "darwin" THEN LaunchdStart(svc) ELSE SystemdStart(svc))

stopBtn == Press({"running"}, IF os = "darwin" THEN LaunchdStop(svc) ELSE SystemdStop(svc))

restartBtn == os = "linux" /\ Press({"running"}, SystemdRestart(svc))

installTAPBtn == Press({"notap"}, InstallTAPAdapter(svc))

removeTAPBtn == Press({"tap"}, RemoveTAPAdapter(svc))

\* The box changes first, then its handler is called, and stays when that fails.
bootCheck ==
    /\ Click
    /\ view.shown \in {"running", "stopped"}
    /\ view' = [view EXCEPT !.checked = ~@]
    /\ \E r \in SetBoot(os, svc, view'.checked) : svc' = r.svc
    /\ UNCHANGED serviceMode

\* torvm --service-install and --service-uninstall, in a process of its own.
CommandLine ==
    /\ Click
    /\ \E r \in Install(os, svc) \cup Uninstall(os, svc) : svc' = r.svc
    /\ UNCHANGED <<view, serviceMode>>

\* The service's process ends, or its manager starts it.
ServiceMoves ==
    /\ Click
    /\ IF os = "darwin" THEN svc.loaded ELSE svc.installed
    /\ svc' = [svc EXCEPT !.active = ~@]
    /\ UNCHANGED <<view, serviceMode>>

ServiceClick ==
    \/ installBtn \/ uninstallBtn \/ startBtn \/ stopBtn \/ restartBtn
    \/ installTAPBtn \/ removeTAPBtn \/ bootCheck
    \/ CommandLine \/ ServiceMoves

-----------------------------------------------------------------------------

\* Run asks launchd whether the service is installed, and serviceTab calls
\* updateUI before it returns.
ServiceInit ==
    /\ os \in Platforms
    /\ svc \in {s \in Service :
                  /\ ~s.installed => s = [NoService EXCEPT !.tap = s.tap]
                  /\ s.loaded <=> os = "darwin" /\ s.installed
                  /\ os = "windows" /\ s.installed => s.enabled /\ ~s.active
                  /\ s.tap => os = "windows"}
    /\ view = [shown |-> Shown(QueryStatus(os, svc)), checked |-> Checked(QueryStatus(os, svc))]
    /\ poll = Idle
    /\ serviceMode = (os # "windows" /\ svc.installed)
    /\ statusPoll = IF os = "darwin" /\ svc.installed THEN Idle ELSE Gone
    /\ quit = FALSE
    /\ clicks = 0

ServicePoll == pollQuery \/ updateUI

StatusPoll == statusTick \/ pollServiceStatus

ServiceTypeOK ==
    /\ os \in Platforms
    /\ svc \in Service
    /\ view \in [shown : {"notinstalled", "running", "stopped", "tap", "notap"}, checked : BOOLEAN]
    /\ poll \in Statuses \cup {Idle}
    /\ statusPoll \in Statuses \cup {Idle, Gone}
    /\ serviceMode \in BOOLEAN
    /\ quit \in BOOLEAN
    /\ clicks \in 0..MaxClicks

-----------------------------------------------------------------------------
(* Properties *)

\* What the tab shows is what the host has: the branch, the check box, and
\* (where the tab sets it) service mode for a service that is installed.
TabAgrees ==
    LET st == QueryStatus(os, svc)
    IN  /\ view.shown = Shown(st)
        /\ view.checked = (os # "windows" /\ st.enabled)
        /\ os # "windows" /\ st.installed => serviceMode

\* Once the user and the host leave the service alone, the tab comes to agree
\* with it and stays so: the poll that applies a stale status, the handler it
\* calls through SetChecked, and the commands of that handler that fail, never
\* keep each other going.
TabConverges == <>[](TabAgrees \/ quit)
=============================================================================
