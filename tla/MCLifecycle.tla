---------------------------- MODULE MCLifecycle ------------------------------
(***************************************************************************)
(* The engine on the two platforms that LifecycleLinux.cfg leaves out: a   *)
(* macOS host that nobody stops, with two half-Internet routes, either of  *)
(* which may fail to go in; and a Windows service that is stopped and      *)
(* started again, where the route comes and goes with the adapter.         *)
(***************************************************************************)
VARIABLES
    platform,   \* "darwin" or "windows", for the whole of a behaviour
    net, state, pc, attempts, savedNet, torControl, failSafe, cancelled, watchdogStop,
    exit, tries, restarts, proc, killed, status, running, reaper, waitErr, stopPc

Darwin == INSTANCE Lifecycle WITH
            Platform <- "darwin", Supervisor <- "none", OrigMetric <- 100,
            Faults <- {"SaveConfig", "SetupRouting", "VMStart"},
            MayHang <- FALSE, MayCancel <- FALSE, MaxRestarts <- 0

Windows == INSTANCE Lifecycle WITH
             Platform <- "windows", Supervisor <- "winsvc", OrigMetric <- 100,
             Faults <- {"SaveConfig", "CreateTAP", "SetupRouting", "RestoreConfig", "VMStart"},
             MayHang <- TRUE, MayCancel <- TRUE, MaxRestarts <- 1

vars == <<platform, Darwin!vars>>

Init == \/ platform = "darwin" /\ Darwin!Init
        \/ platform = "windows" /\ Windows!Init

OnDarwin(step) == platform = "darwin" /\ step /\ UNCHANGED platform

Next == \/ OnDarwin(Darwin!Next)
        \/ platform = "windows" /\ Windows!Next /\ UNCHANGED platform

\* The fairness of Lifecycle, where nobody cancels and no VM hangs.
Fairness ==
    /\ WF_vars(OnDarwin(Darwin!EngineStep))
    /\ WF_vars(OnDarwin(Darwin!Reaper))
    /\ WF_vars(OnDarwin(Darwin!ContextWatcher))
    /\ WF_vars(OnDarwin(Darwin!QemuDies))

Spec == Init /\ [][Next]_vars /\ Fairness

-----------------------------------------------------------------------------
(* The properties of Lifecycle *)

Guard == INSTANCE EgressGuard WITH
           phase <- Darwin!Phase,
           egress <- IF platform = "darwin" THEN Darwin!Egress(net) ELSE Windows!Egress(net)

\* On both platforms the engine implements the abstract guard of the host's
\* traffic, half-installed routes, an adapter that comes and goes and a service
\* handler that leaves before Run has returned included.
GuardsEgress == Guard!Spec

\* On macOS, an exit of the VM while Running ends the controller, normally.
VMExitEndsRun == platform = "darwin" => Darwin!VMExitEndsRun

\* On macOS, startup comes to a decision: Running, or the end of the controller,
\* although SetupRouting may fail half way in every attempt.
StartupDecides == platform = "darwin" => Darwin!StartupDecides

\* On macOS, a failure that engages the failsafe ends with the host's routes
\* restored, also after half of them were put in.
FailureCleansUp == platform = "darwin" => Darwin!FailureCleansUp
=============================================================================
