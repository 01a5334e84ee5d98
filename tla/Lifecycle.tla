------------------------------ MODULE Lifecycle ------------------------------
(***************************************************************************)
(* lifecycle.Engine (controller/internal/lifecycle): the loop of Run, its  *)
(* handlers, the retry policy and the failsafe, over the host's network    *)
(* (HostNetwork) and the QEMU process (VMInstance), together with the      *)
(* process that runs the engine headless: its signal handler, the systemd  *)
(* observer of main.go and the Windows service handler.                    *)
(*                                                                         *)
(* The engine is one goroutine.  It moves through Run with a program       *)
(* counter, so that a cancellation, an exit of QEMU or a crash can fall    *)
(* between any two of its steps.                                           *)
(***************************************************************************)
EXTENDS HostNetwork, VMInstance

CONSTANTS
    Supervisor,   \* what runs the controller: "none" (a shell), "systemd", "winsvc"
    MayCancel,    \* whether a signal, a stop request or --timeout may come
    MaxRestarts   \* bound: how often the controller is started again

ASSUME SupervisorAssumption ==
    /\ Supervisor \in {"none", "systemd", "winsvc"}
    /\ MayCancel \in BOOLEAN
    /\ MaxRestarts \in Nat

VARIABLES
    net,          \* the host's network configuration: outlives the controller
    state,        \* e.state
    pc,           \* where Run is: "top" of its loop, in the "body" of a handler, in
                  \* the retry "delay", in VM.Wait ("wait"), in VM.Stop ("stop"), "exited"
    attempts,     \* e.attempts, 0 for a state that is not in the map
    savedNet,     \* e.savedNet, "nil" when nothing is saved
    torControl,   \* e.TorControl # nil
    failSafe,     \* e.FailSafe.active
    cancelled,    \* ctx.Err() # nil
    watchdogStop, \* the channel of main.go's systemd observer: "open" or "closed"
    exit,         \* how the controller ended: "none", "ok", "err", "panic", "gone"
    tries,        \* history: calls of each retryable handler by this process
    restarts      \* how often the controller has been started again

engineVars == <<state, pc, attempts, savedNet, torControl, failSafe, cancelled,
                watchdogStop, exit, tries>>
vars == <<net, engineVars, restarts, vmVars>>

-----------------------------------------------------------------------------
(* States and retry policy *)

States == {"Init", "CheckPrivileges", "SaveNetwork", "CreateTAP", "LaunchVM", "WaitTAP",
           "ConfigureTAP", "FlushDNS", "WaitBootstrap", "Running", "Shutdown",
           "RestoreNetwork", "Cleanup", "Failed"}

ShutdownStates == {"Shutdown", "RestoreNetwork", "Cleanup"}

DefaultRetryPolicy == [s \in {"CreateTAP", "LaunchVM", "SaveNetwork", "ConfigureTAP", "FlushDNS"} |->
                         IF s = "CreateTAP" THEN 3 ELSE 2]

Retryable == DOMAIN DefaultRetryPolicy

ErrorClass == {"Transient", "Permanent"}

\* Mutant: attempt > MaxAttempts instead of attempt >= MaxAttempts.
MutShouldRetryOneMore(s, class, attempt) ==
    /\ s \in Retryable
    /\ attempt <= DefaultRetryPolicy[s]
    /\ class = "Transient"

ShouldRetry(s, class, attempt) ==
    /\ s \in Retryable
    /\ attempt < DefaultRetryPolicy[s]
    /\ class = "Transient"

-----------------------------------------------------------------------------
(* Run: transition, the failsafe and the error path *)

\* transition(next), after which Run goes on at nextPc.  The systemd observer
\* closes watchdogStop on every transition to Shutdown, and closing a channel
\* that is closed panics.
Transition(next, nextPc) ==
    LET closing == Supervisor = "systemd" /\ next = "Shutdown"
        panics  == closing /\ watchdogStop = "closed"
    IN  /\ state' = next
        /\ attempts' = [attempts EXCEPT ![state] = 0]
        /\ watchdogStop' = IF closing THEN "closed" ELSE watchdogStop
        /\ pc' = IF panics THEN "exited" ELSE nextPc
        /\ exit' = IF panics THEN "panic" ELSE exit

\* Mutant: the failsafe is marked active without touching the routes.
MutActivateOnlyFlag(n) ==
    /\ net' = n
    /\ failSafe' = TRUE

\* FailSafe.Activate, on a host whose configuration is n.
Activate(n) ==
    /\ net' \in IF failSafe THEN {n} ELSE TeardownRouting(n)
    /\ failSafe' = TRUE

\* Mutant: the attempt is not counted.
MutOnErrorUncounted(n, class) ==
    \/ /\ ShouldRetry(state, class, attempts[state])
       /\ pc' = "delay"
       /\ net' = n
       /\ UNCHANGED <<state, attempts, failSafe, watchdogStop, exit>>
    \/ /\ ~ShouldRetry(state, class, attempts[state])
       /\ Activate(n)
       /\ Transition("Shutdown", "top")

\* A handler has failed and left the host's configuration at n.
OnError(n, class) ==
    \/ /\ ShouldRetry(state, class, attempts[state])
       /\ attempts' = [attempts EXCEPT ![state] = @ + 1]
       /\ pc' = "delay"
       /\ net' = n
       /\ UNCHANGED <<state, failSafe, watchdogStop, exit>>
    \/ /\ ~ShouldRetry(state, class, attempts[state])
       /\ Activate(n)
       /\ Transition("Shutdown", "top")

\* A handler has succeeded and left the host's configuration at n.
OnSuccess(n, next) ==
    /\ net' = n
    /\ failSafe' = failSafe
    /\ Transition(next, "top")

At(s) == pc = "body" /\ state = s

Try(s) == tries' = [tries EXCEPT ![s] = @ + 1]

\* The top of the loop.  ctx.Err() is tested on every iteration, so that each
\* one after the cancellation goes to Shutdown, whatever the last one reached.
RunTop ==
    /\ pc = "top"
    /\ \/ cancelled /\ Transition("Shutdown", "body")
       \/ ~cancelled /\ pc' = "body" /\ UNCHANGED <<state, attempts, watchdogStop, exit>>
    /\ UNCHANGED <<net, savedNet, torControl, failSafe, cancelled, tries, restarts, vmVars>>

\* Mutant: the retry waits for ctx.Done() only.
MutRunDelayNoTimer ==
    /\ pc = "delay"
    /\ cancelled
    /\ Transition("Shutdown", "top")
    /\ UNCHANGED <<net, savedNet, torControl, failSafe, cancelled, tries, restarts, vmVars>>

\* The select between the retry delay and ctx.Done().
RunDelay ==
    /\ pc = "delay"
    /\ \/ pc' = "top" /\ UNCHANGED <<state, attempts, watchdogStop, exit>>
       \/ cancelled /\ Transition("Shutdown", "top")
    /\ UNCHANGED <<net, savedNet, torControl, failSafe, cancelled, tries, restarts, vmVars>>

-----------------------------------------------------------------------------
(* The handlers of Run *)

Init0 ==
    /\ At("Init")
    /\ OnSuccess(net, "CheckPrivileges")
    /\ UNCHANGED <<savedNet, torControl, cancelled, tries, restarts, vmVars>>

\* Without root, Run returns the error at once.
checkPrivileges ==
    /\ At("CheckPrivileges")
    /\ \/ OnSuccess(net, "SaveNetwork")
       \/ /\ Platform # "windows"
          /\ pc' = "exited"
          /\ exit' = "err"
          /\ UNCHANGED <<net, state, attempts, failSafe, watchdogStop>>
    /\ UNCHANGED <<savedNet, torControl, cancelled, tries, restarts, vmVars>>

doSaveNetwork ==
    /\ At("SaveNetwork")
    /\ Try("SaveNetwork")
    /\ \/ /\ savedNet' = SaveConfig(net)
          /\ OnSuccess(net, "CreateTAP")
       \/ /\ "SaveConfig" \in Faults
          /\ \E class \in ErrorClass : OnError(net, class)
          /\ UNCHANGED savedNet
    /\ UNCHANGED <<torControl, cancelled, restarts, vmVars>>

doCreateTAP ==
    /\ At("CreateTAP")
    /\ Try("CreateTAP")
    /\ \E r \in CreateTAP(net) :
         \/ r.ok /\ OnSuccess(r.net, "LaunchVM")
         \/ ~r.ok /\ \E class \in ErrorClass : OnError(r.net, class)
    /\ UNCHANGED <<savedNet, torControl, cancelled, restarts, vmVars>>

\* exec refuses to start a process whose context is done.
doLaunchVM ==
    /\ At("LaunchVM")
    /\ Try("LaunchVM")
    /\ \/ /\ ~cancelled
          /\ Start(TRUE)
          /\ OnSuccess(net, "WaitTAP")
       \/ /\ cancelled \/ running
          /\ Start(FALSE)
          /\ OnError(net, "Transient")
       \/ /\ "VMStart" \in Faults
          /\ Start(FALSE)
          /\ \E class \in ErrorClass : OnError(net, class)
    /\ UNCHANGED <<savedNet, torControl, cancelled, restarts>>

\* The polling loops of doWaitTAP and doWaitBootstrap: each ends when the
\* probe of the VM succeeds, or in an error (cancelled, VM gone, deadline).
PollVM(s, next) ==
    /\ At(s)
    /\ \/ ~cancelled /\ proc = "up" /\ OnSuccess(net, next)
       \/ OnError(net, "Transient")
    /\ UNCHANGED <<savedNet, torControl, cancelled, tries, restarts, vmVars>>

doWaitTAP == PollVM("WaitTAP", "ConfigureTAP")

\* Mutant: an error of SetupRouting is logged and forgotten.
MutConfigureTAPIgnoresError ==
    /\ At("ConfigureTAP")
    /\ Try("ConfigureTAP")
    /\ \E r \in SetupRouting(net) : OnSuccess(r.net, "FlushDNS")
    /\ UNCHANGED <<savedNet, torControl, cancelled, restarts, vmVars>>

doConfigureTAP ==
    /\ At("ConfigureTAP")
    /\ Try("ConfigureTAP")
    /\ \E r \in SetupRouting(net) :
         \/ r.ok /\ OnSuccess(r.net, "FlushDNS")
         \/ ~r.ok /\ \E class \in ErrorClass : OnError(r.net, class)
    /\ UNCHANGED <<savedNet, torControl, cancelled, restarts, vmVars>>

\* Neither a failed flush nor a failed control connection is an error.
doFlushDNS ==
    /\ At("FlushDNS")
    /\ Try("FlushDNS")
    /\ \/ torControl' = TRUE /\ proc = "up"
       \/ torControl' = FALSE
    /\ OnSuccess(net, "WaitBootstrap")
    /\ UNCHANGED <<savedNet, cancelled, restarts, vmVars>>

doWaitBootstrap == PollVM("WaitBootstrap", "Running")

\* Mutant: Activate for Deactivate.
MutRunningActivates ==
    /\ At("Running")
    /\ Activate(net)
    /\ pc' = "wait"
    /\ UNCHANGED <<state, attempts, savedNet, torControl, cancelled, watchdogStop,
                   exit, tries, restarts, vmVars>>

doRunning ==
    /\ At("Running")
    /\ failSafe' = FALSE
    /\ pc' = "wait"
    /\ UNCHANGED <<net, state, attempts, savedNet, torControl, cancelled, watchdogStop,
                   exit, tries, restarts, vmVars>>

\* VM.Wait returns in doRunning: the result of the process or ctx.Err().
doRunningWake ==
    /\ pc = "wait"
    /\ \/ /\ waitErr # "empty"
          /\ waitErr' = "empty"
          /\ IF waitErr = "err" /\ ~cancelled
               THEN Activate(net)
               ELSE UNCHANGED <<net, failSafe>>
       \/ cancelled /\ UNCHANGED <<net, failSafe, waitErr>>
    /\ Transition("Shutdown", "top")
    /\ UNCHANGED <<savedNet, torControl, cancelled, tries, restarts,
                   proc, killed, status, running, reaper, stopPc>>

doShutdown ==
    /\ At("Shutdown")
    /\ torControl' = FALSE
    /\ \/ /\ running
          /\ pc' = "stop"
          /\ stopPc' = "check"
          /\ UNCHANGED <<net, state, attempts, failSafe, watchdogStop, exit>>
       \/ /\ ~running
          /\ OnSuccess(net, "RestoreNetwork")
          /\ UNCHANGED stopPc
    /\ UNCHANGED <<savedNet, cancelled, tries, restarts,
                   proc, killed, status, running, reaper, waitErr>>

\* doShutdown inside VM.Stop, and after it.
doShutdownStop ==
    /\ pc = "stop"
    /\ Stop
    /\ UNCHANGED <<net, engineVars, restarts>>

\* Mutant: the transition after VM.Stop is missing.
MutShutdownDoneStays ==
    /\ pc = "stop"
    /\ stopPc = "done"
    /\ stopPc' = "idle"
    /\ pc' = "stop"
    /\ UNCHANGED <<net, state, attempts, savedNet, torControl, failSafe, cancelled, watchdogStop,
                   exit, tries, restarts, proc, killed, status, running, reaper, waitErr>>

doShutdownDone ==
    /\ pc = "stop"
    /\ stopPc = "done"
    /\ stopPc' = "idle"
    /\ OnSuccess(net, "RestoreNetwork")
    /\ UNCHANGED <<savedNet, torControl, cancelled, tries, restarts,
                   proc, killed, status, running, reaper, waitErr>>

\* Mutant: TeardownRouting is left to the removal of the TAP device.
MutRestoreNetworkNoTeardown ==
    /\ At("RestoreNetwork")
    /\ \E n2 \in IF savedNet # "nil" THEN RestoreConfig(net, savedNet) ELSE {net} :
         \E n3 \in DestroyTAP(n2, Alive) :
           OnSuccess(n3, "Cleanup")
    /\ UNCHANGED <<savedNet, torControl, cancelled, tries, restarts, vmVars>>

doRestoreNetwork ==
    /\ At("RestoreNetwork")
    /\ \E n1 \in TeardownRouting(net) :
         \E n2 \in IF savedNet # "nil" THEN RestoreConfig(n1, savedNet) ELSE {n1} :
           \E n3 \in DestroyTAP(n2, Alive) :
             OnSuccess(n3, "Cleanup")
    /\ UNCHANGED <<savedNet, torControl, cancelled, tries, restarts, vmVars>>

doCleanup ==
    /\ At("Cleanup")
    /\ failSafe' = FALSE
    /\ pc' = "exited"
    /\ exit' = "ok"
    /\ UNCHANGED <<net, state, attempts, savedNet, torControl, cancelled, watchdogStop,
                   tries, restarts, vmVars>>

EngineStep ==
    \/ RunTop \/ RunDelay
    \/ Init0 \/ checkPrivileges \/ doSaveNetwork \/ doCreateTAP \/ doLaunchVM
    \/ doWaitTAP \/ doConfigureTAP \/ doFlushDNS \/ doWaitBootstrap
    \/ doRunning \/ doRunningWake
    \/ doShutdown \/ doShutdownStop \/ doShutdownDone
    \/ doRestoreNetwork \/ doCleanup

-----------------------------------------------------------------------------
(* The process around the engine *)

\* SIGINT, SIGTERM, the end of --timeout, or a stop request of the Windows SCM.
Cancel ==
    /\ MayCancel
    /\ pc # "exited"
    /\ ~cancelled
    /\ cancelled' = TRUE
    /\ UNCHANGED <<net, state, pc, attempts, savedNet, torControl, failSafe, watchdogStop,
                   exit, tries, restarts, vmVars>>

\* The Windows service handler waits 30 seconds for Run after a stop request,
\* then leaves; the process ends with it.
ServiceGivesUp == Supervisor = "winsvc" /\ cancelled

\* SIGKILL after TimeoutStopSec, a missed watchdog, the OOM killer; bounded by
\* the restarts that follow.
SystemdKills == Supervisor = "systemd" /\ restarts < MaxRestarts

\* The controller ends without running another line of its code.
Crash ==
    /\ pc # "exited"
    /\ ServiceGivesUp \/ SystemdKills
    /\ pc' = "exited"
    /\ exit' = "gone"
    /\ UNCHANGED <<net, state, attempts, savedNet, torControl, failSafe, cancelled,
                   watchdogStop, tries, restarts, vmVars>>

FreshEngine ==
    /\ state' = "Init"
    /\ pc' = "top"
    /\ attempts' = [s \in States |-> 0]
    /\ savedNet' = "nil"
    /\ torControl' = FALSE
    /\ failSafe' = FALSE
    /\ cancelled' = FALSE
    /\ watchdogStop' = "open"
    /\ exit' = "none"
    /\ tries' = [s \in Retryable |-> 0]

\* A new controller on the same host.  systemd (KillMode=mixed) has killed
\* what was left of the old one's QEMU; elsewhere the old QEMU has to be gone.
Restart ==
    /\ pc = "exited"
    /\ restarts < MaxRestarts
    /\ Supervisor = "systemd" \/ ~Alive
    /\ restarts' = restarts + 1
    /\ FreshEngine
    /\ VMReset
    /\ UNCHANGED net

\* The QEMU process on its own, and the goroutines of the controller that
\* belong to it: these go when the controller goes.
QemuStep ==
    /\ GuestExit \/ QemuHang
    /\ UNCHANGED <<net, engineVars, restarts>>

QemuDies ==
    /\ KilledExit
    /\ UNCHANGED <<net, engineVars, restarts>>

Reaper ==
    /\ pc # "exited"
    /\ Reap \/ Deliver
    /\ UNCHANGED <<net, engineVars, restarts>>

ContextWatcher ==
    /\ pc # "exited"
    /\ ContextKill(cancelled)
    /\ UNCHANGED <<net, engineVars, restarts>>

-----------------------------------------------------------------------------

Init ==
    /\ net = HostBefore
    /\ state = "Init"
    /\ pc = "top"
    /\ attempts = [s \in States |-> 0]
    /\ savedNet = "nil"
    /\ torControl = FALSE
    /\ failSafe = FALSE
    /\ cancelled = FALSE
    /\ watchdogStop = "open"
    /\ exit = "none"
    /\ tries = [s \in Retryable |-> 0]
    /\ restarts = 0
    /\ VMInit

Next ==
    \/ EngineStep
    \/ QemuStep \/ QemuDies \/ Reaper \/ ContextWatcher
    \/ Cancel \/ Crash \/ Restart

Spec == Init /\ [][Next]_vars

\* The Go scheduler runs every goroutine that can run, and the kernel delivers
\* SIGKILL.  Nothing obliges the guest to exit, or anyone to cancel.
Fairness ==
    /\ WF_vars(EngineStep)
    /\ WF_vars(Reaper)
    /\ WF_vars(ContextWatcher)
    /\ WF_vars(QemuDies)

FairSpec == Spec /\ Fairness

-----------------------------------------------------------------------------
(* Properties *)

\* Every variable stays in its range; in particular no retry counter passes
\* the largest MaxAttempts of DefaultRetryPolicy.
TypeOK ==
    /\ net \in NetConfig
    /\ state \in States
    /\ pc \in {"top", "body", "delay", "wait", "stop", "exited"}
    /\ attempts \in [States -> 0..3]
    /\ savedNet \in DnsStates \cup {"nil"}
    /\ torControl \in BOOLEAN
    /\ failSafe \in BOOLEAN
    /\ cancelled \in BOOLEAN
    /\ watchdogStop \in {"open", "closed"}
    /\ exit \in {"none", "ok", "err", "panic", "gone"}
    /\ tries \in [Retryable -> Nat]
    /\ restarts \in 0..MaxRestarts
    /\ VMTypeOK

\* While the engine is Running, every packet the host sends goes to the VM:
\* no half-installed routing survives the retries of ConfigureTAP, and nothing
\* removes a route before the engine leaves Running.
RunningIsTorified ==
    pc # "exited" /\ state = "Running" => Egress(net) = {"vm"}

\* When Run returns nil, the host routes as it did before TorVM, whichever
\* handlers failed, however often they were retried, and whatever an earlier
\* controller that crashed had left behind.
HostRoutesRestored ==
    TeardownReliable /\ exit = "ok" => net.routes = {"orig"}

\* Once the failsafe is active no route sends traffic to the VM that failed,
\* and none is installed again (not on Windows, where TeardownRouting is empty).
FailSafeDropsDiversion ==
    TeardownReliable /\ Platform # "windows" /\ failSafe => "vm" \notin Egress(net)

\* A controller that ends normally leaves no QEMU process that it has not at
\* least killed: VM.Stop falls back to a kill when the guest ignores it.
NoOrphanVM ==
    exit = "ok" => ~Alive \/ killed

\* The engine calls a handler at most once more than its policy allows retries,
\* counted over the life of the controller, not from the last reset.
RetryBound ==
    \A s \in Retryable : tries[s] <= DefaultRetryPolicy[s] + 1

\* The controller as EgressGuard sees it.
Phase ==
    IF pc = "exited" THEN IF exit = "ok" THEN "ended" ELSE "dead"
    ELSE IF state = "Running" THEN "up"
    ELSE IF state \in ShutdownStates THEN "ending" ELSE "starting"

Guard == INSTANCE EgressGuard WITH phase <- Phase, egress <- Egress(net)

\* The engine, its retries, its failsafe, its crashes and restarts implement the
\* abstract guard of the host's traffic: all of it goes to the VM while the
\* controller is up, none of it is released but on the way down, and a controller
\* that ends in order has handed it back.
GuardsEgress == Guard!Spec

\* An exit of the VM while Running ends the controller, normally.
VMExitEndsRun ==
    (state = "Running" /\ proc = "dead") ~> exit = "ok"

\* Startup comes to a decision: Running, or the end of the controller.
StartupDecides ==
    (state = "Init") ~> (state = "Running" \/ pc = "exited")

\* A failure that engages the failsafe ends with the host's routes restored.
FailureCleansUp ==
    failSafe ~> (exit = "ok" /\ net.routes = {"orig"})

-----------------------------------------------------------------------------
(* The invariant behind the three properties of the routes *)

DivertedStates == {"FlushDNS", "WaitBootstrap", "Running"}
PreparedStates == {"LaunchVM", "WaitTAP", "ConfigureTAP"} \cup DivertedStates

\* What the routes of the host look like in every state of the engine.  The
\* failsafe is active only on the way down, and it is only there, and in
\* TeardownRouting's own handler, that a route is removed.
RouteInv ==
    /\ PlatformRoutes(net)
    /\ TeardownReliable => "orig" \in net.routes
    /\ failSafe => state \in ShutdownStates
    /\ TeardownReliable /\ Platform # "windows" /\ failSafe => Undiverted(net)
    /\ TeardownReliable /\ state = "Cleanup" => net.routes = {"orig"}
    /\ exit = "ok" => state = "Cleanup" /\ pc = "exited"
    /\ Platform = "linux" /\ state \in DivertedStates => "tor" \in net.routes
    /\ Platform = "darwin" /\ state \in DivertedStates => {"low", "high"} \subseteq net.routes
    /\ Platform = "windows" /\ state \in PreparedStates => "tor" \in net.routes

-----------------------------------------------------------------------------
(* What the repository's documents say of the controller, and the code does *)
(* not do                                                                   *)

\* "blocks all traffic if the VM dies unexpectedly" (README.md:68), "blocking
\* all network traffic" (failsafe.go:10 and its log line 37).
FailSafeBlocks ==
    [][ Egress(net) = {"vm"} /\ ~failSafe /\ failSafe' => "direct" \notin Egress(net') ]_vars

\* "If the VM crashes or QEMU exits unexpectedly, the failsafe activates
\* immediately" (README.md:197).
FailSafeOnVMExit ==
    [][ pc = "wait" /\ state' = "Shutdown" /\ ~cancelled => failSafe' ]_vars

\* "saves the host's network configuration before modifying it and restores it
\* during shutdown" (README.md:198), for a shutdown on request.
StopRestoresNetwork ==
    cancelled ~> (exit = "ok" /\ net.routes = {"orig"})

\* The same promise for a controller under systemd: stopping it is not a crash.
StopIsNoPanic ==
    exit # "panic"

\* "the host network is always left in a clean state, even on failure"
\* (README.md:100): the TAP device is gone when Run has returned.
TapRemoved ==
    exit = "ok" => net.tap = "absent"

\* The same sentence, for the host's own default route.
OwnRouteKept ==
    exit = "ok" => "orig" \in net.routes
=============================================================================
