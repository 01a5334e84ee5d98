--------------------------- MODULE LifecycleProofs ---------------------------
(***************************************************************************)
(* Theorems about the engine, for every platform, supervisor, metric, set  *)
(* of failing commands and number of restarts.                             *)
(***************************************************************************)
EXTENDS Lifecycle, HostNetworkProofs

-----------------------------------------------------------------------------
(* Type correctness *)

\* What transition() leaves behind.
EngineTyped ==
    /\ state \in States
    /\ pc \in {"top", "body", "delay", "wait", "stop", "exited"}
    /\ attempts \in [States -> 0..3]
    /\ watchdogStop \in {"open", "closed"}
    /\ exit \in {"none", "ok", "err", "panic", "gone"}

\* transition() moves to the given state and keeps the engine's types.
LEMMA TransitionTyped ==
    ASSUME TypeOK, NEW s \in States, NEW p \in {"top", "body"}, Transition(s, p)
    PROVE  EngineTyped' /\ state' = s
  BY DEF TypeOK, Transition, EngineTyped

\* FailSafe.Activate leaves a well-formed configuration.
LEMMA ActivateTyped ==
    ASSUME TypeOK, NEW n \in NetConfig, Activate(n)
    PROVE  net' \in NetConfig /\ failSafe' = TRUE
<1>1. net' = n \/ net' \in TeardownRouting(n)
  BY DEF Activate
<1> QED BY <1>1, TeardownRoutingFacts DEF Activate

\* The success path of Run keeps the types.
LEMMA OnSuccessTyped ==
    ASSUME TypeOK, NEW n \in NetConfig, NEW s \in States, OnSuccess(n, s)
    PROVE  EngineTyped' /\ net' \in NetConfig /\ failSafe' \in BOOLEAN /\ state' = s
  BY TransitionTyped DEF OnSuccess, TypeOK

\* The error path of Run keeps the types: the counter stops at MaxAttempts.
LEMMA OnErrorTyped ==
    ASSUME TypeOK, NEW n \in NetConfig, NEW class, OnError(n, class)
    PROVE  EngineTyped' /\ net' \in NetConfig /\ failSafe' \in BOOLEAN
<1>1. CASE /\ ShouldRetry(state, class, attempts[state])
           /\ attempts' = [attempts EXCEPT ![state] = @ + 1]
           /\ pc' = "delay"
           /\ net' = n
           /\ UNCHANGED <<state, failSafe, watchdogStop, exit>>
  <2>1. attempts[state] \in 0..3 /\ attempts[state] < 3
    BY <1>1 DEF TypeOK, ShouldRetry, DefaultRetryPolicy, Retryable
  <2> QED BY <1>1, <2>1 DEF TypeOK, EngineTyped
<1>2. CASE Activate(n) /\ Transition("Shutdown", "top")
  BY <1>2, ActivateTyped, TransitionTyped DEF States
<1> QED BY <1>1, <1>2 DEF OnError

\* A handler counts its calls in tries.
LEMMA TryTyped ==
    ASSUME TypeOK, NEW s \in Retryable, Try(s)
    PROVE  tries' \in [Retryable -> Nat]
  BY DEF TypeOK, Try

\* No step of the QEMU process, of the goroutines around it or of Stop leaves
\* the types of VMInstance.
LEMMA VMStepTyped ==
    ASSUME VMTypeOK,
           \/ GuestExit \/ QemuHang \/ KilledExit \/ Reap \/ Deliver
           \/ ContextKill(cancelled) \/ Stop \/ (\E ok \in BOOLEAN : Start(ok)) \/ VMReset
    PROVE  VMTypeOK'
<1>1. CASE GuestExit \/ QemuHang \/ KilledExit
  BY <1>1 DEF VMTypeOK, GuestExit, QemuHang, KilledExit
<1>2. CASE Reap \/ Deliver \/ ContextKill(cancelled)
  BY <1>2 DEF VMTypeOK, Reap, Deliver, ContextKill
<1>3. CASE Stop
  BY <1>3 DEF VMTypeOK, Stop, StopCheck, StopPowerdown, StopExited, StopTimeout, StopKill
<1>4. CASE \E ok \in BOOLEAN : Start(ok)
  BY <1>4 DEF VMTypeOK, Start
<1>5. CASE VMReset
  BY <1>5 DEF VMTypeOK, VMReset
<1> QED BY <1>1, <1>2, <1>3, <1>4, <1>5

\* Every step of the engine keeps the types.
LEMMA EngineStepTyped ==
    ASSUME TypeOK, EngineStep
    PROVE  TypeOK'
<1> DEFINE Rest == /\ net \in NetConfig
                   /\ savedNet \in DnsStates \cup {"nil"}
                   /\ torControl \in BOOLEAN
                   /\ failSafe \in BOOLEAN
                   /\ cancelled \in BOOLEAN
                   /\ tries \in [Retryable -> Nat]
                   /\ restarts \in 0..MaxRestarts
                   /\ VMTypeOK
<1>a. SUFFICES EngineTyped' /\ Rest'
  BY DEF TypeOK, EngineTyped
<1>b. EngineTyped /\ Rest
  BY DEF TypeOK, EngineTyped
<1>c. {"CheckPrivileges", "SaveNetwork", "CreateTAP", "LaunchVM", "WaitTAP", "ConfigureTAP",
       "FlushDNS", "WaitBootstrap", "Running", "Shutdown", "RestoreNetwork", "Cleanup"}
        \subseteq States
  BY DEF States
<1>d. {"SaveNetwork", "CreateTAP", "LaunchVM", "ConfigureTAP", "FlushDNS"} = Retryable
  BY DEF Retryable, DefaultRetryPolicy
<1>e. ASSUME UNCHANGED vmVars PROVE VMTypeOK'
  BY <1>b, <1>e DEF vmVars, VMTypeOK
<1>1. CASE RunTop \/ RunDelay
  BY <1>1, <1>b, <1>c, <1>e, TransitionTyped DEF RunTop, RunDelay, EngineTyped
<1>2. CASE Init0 \/ checkPrivileges
  <2>1. CASE \E s \in States : OnSuccess(net, s)
    BY <1>2, <2>1, <1>b, <1>e, OnSuccessTyped DEF Init0, checkPrivileges
  <2>2. CASE /\ pc' = "exited"
             /\ exit' = "err"
             /\ UNCHANGED <<net, state, attempts, failSafe, watchdogStop>>
    BY <1>2, <2>2, <1>b, <1>e DEF Init0, checkPrivileges, EngineTyped
  <2> QED BY <1>2, <1>c, <2>1, <2>2 DEF Init0, checkPrivileges
<1>3. CASE doSaveNetwork
  <2>1. tries' \in [Retryable -> Nat]
    BY <1>3, <1>d, TryTyped DEF doSaveNetwork
  <2>2. EngineTyped' /\ net' \in NetConfig /\ failSafe' \in BOOLEAN
    BY <1>3, <1>b, <1>c, OnSuccessTyped, OnErrorTyped DEF doSaveNetwork
  <2>3. savedNet' \in DnsStates \cup {"nil"}
    BY <1>3, <1>b DEF doSaveNetwork, SaveConfig, NetConfig
  <2> QED BY <1>3, <1>b, <1>e, <2>1, <2>2, <2>3 DEF doSaveNetwork
<1>4. CASE doCreateTAP
  <2>1. tries' \in [Retryable -> Nat]
    BY <1>4, <1>d, TryTyped DEF doCreateTAP
  <2>2. PICK r \in CreateTAP(net) :
          (r.ok /\ OnSuccess(r.net, "LaunchVM"))
            \/ (~r.ok /\ (\E class \in ErrorClass : OnError(r.net, class)))
    BY <1>4 DEF doCreateTAP
  <2>3. EngineTyped' /\ net' \in NetConfig /\ failSafe' \in BOOLEAN
    BY <2>2, <1>b, <1>c, CreateTAPFacts, OnSuccessTyped, OnErrorTyped
  <2> QED BY <1>4, <1>b, <1>e, <2>1, <2>3 DEF doCreateTAP
<1>5. CASE doLaunchVM
  <2>1. tries' \in [Retryable -> Nat]
    BY <1>5, <1>d, TryTyped DEF doLaunchVM
  <2>2. EngineTyped' /\ net' \in NetConfig /\ failSafe' \in BOOLEAN
    BY <1>5, <1>b, <1>c, OnSuccessTyped, OnErrorTyped DEF doLaunchVM
  <2>3. VMTypeOK'
    BY <1>5, <1>b, VMStepTyped DEF doLaunchVM
  <2> QED BY <1>5, <1>b, <2>1, <2>2, <2>3 DEF doLaunchVM
<1>6. CASE doWaitTAP \/ doWaitBootstrap
  <2>1. EngineTyped' /\ net' \in NetConfig /\ failSafe' \in BOOLEAN
    BY <1>6, <1>b, <1>c, OnSuccessTyped, OnErrorTyped DEF doWaitTAP, doWaitBootstrap, PollVM
  <2> QED BY <1>6, <1>b, <1>e, <2>1 DEF doWaitTAP, doWaitBootstrap, PollVM
<1>7. CASE doConfigureTAP
  <2>1. tries' \in [Retryable -> Nat]
    BY <1>7, <1>d, TryTyped DEF doConfigureTAP
  <2>2. PICK r \in SetupRouting(net) :
          (r.ok /\ OnSuccess(r.net, "FlushDNS"))
            \/ (~r.ok /\ (\E class \in ErrorClass : OnError(r.net, class)))
    BY <1>7 DEF doConfigureTAP
  <2>3. EngineTyped' /\ net' \in NetConfig /\ failSafe' \in BOOLEAN
    BY <2>2, <1>b, <1>c, SetupRoutingFacts, OnSuccessTyped, OnErrorTyped
  <2> QED BY <1>7, <1>b, <1>e, <2>1, <2>3 DEF doConfigureTAP
<1>8. CASE doFlushDNS
  <2>1. tries' \in [Retryable -> Nat]
    BY <1>8, <1>d, TryTyped DEF doFlushDNS
  <2>2. EngineTyped' /\ net' \in NetConfig /\ failSafe' \in BOOLEAN
    BY <1>8, <1>b, <1>c, OnSuccessTyped DEF doFlushDNS
  <2> QED BY <1>8, <1>b, <1>e, <2>1, <2>2 DEF doFlushDNS
<1>9. CASE doRunning \/ doCleanup
  BY <1>9, <1>b, <1>e DEF doRunning, doCleanup, EngineTyped
<1>10. CASE doRunningWake
  <2>1. EngineTyped'
    BY <1>10, <1>c, TransitionTyped DEF doRunningWake
  <2>2. net' \in NetConfig /\ failSafe' \in BOOLEAN
    BY <1>10, <1>b, ActivateTyped DEF doRunningWake
  <2>3. VMTypeOK'
    BY <1>10, <1>b DEF doRunningWake, VMTypeOK
  <2> QED BY <1>10, <1>b, <2>1, <2>2, <2>3 DEF doRunningWake
<1>11. CASE doShutdown
  <2>1. EngineTyped' /\ net' \in NetConfig /\ failSafe' \in BOOLEAN
    BY <1>11, <1>b, <1>c, OnSuccessTyped DEF doShutdown, EngineTyped
  <2>2. VMTypeOK'
    BY <1>11, <1>b DEF doShutdown, VMTypeOK
  <2> QED BY <1>11, <1>b, <2>1, <2>2 DEF doShutdown
<1>12. CASE doShutdownStop
  <2>1. VMTypeOK'
    BY <1>12, <1>b, VMStepTyped DEF doShutdownStop
  <2> QED BY <1>12, <1>b, <2>1 DEF doShutdownStop, engineVars, EngineTyped
<1>13. CASE doShutdownDone
  <2>1. EngineTyped' /\ net' \in NetConfig /\ failSafe' \in BOOLEAN
    BY <1>13, <1>b, <1>c, OnSuccessTyped DEF doShutdownDone
  <2>2. VMTypeOK'
    BY <1>13, <1>b DEF doShutdownDone, VMTypeOK
  <2> QED BY <1>13, <1>b, <2>1, <2>2 DEF doShutdownDone
<1>14. CASE doRestoreNetwork
  <2>1. PICK n1 \in TeardownRouting(net) :
          \E n2 \in IF savedNet # "nil" THEN RestoreConfig(n1, savedNet) ELSE {n1} :
            \E n3 \in DestroyTAP(n2, Alive) : OnSuccess(n3, "Cleanup")
    BY <1>14 DEF doRestoreNetwork
  <2>a. PICK n2 \in IF savedNet # "nil" THEN RestoreConfig(n1, savedNet) ELSE {n1} :
          \E n3 \in DestroyTAP(n2, Alive) : OnSuccess(n3, "Cleanup")
    BY <2>1
  <2>b. PICK n3 \in DestroyTAP(n2, Alive) : OnSuccess(n3, "Cleanup")
    BY <2>a
  <2>2. n1 \in NetConfig
    BY <1>b, TeardownRoutingFacts
  <2>3. n2 \in NetConfig
    BY <1>b, <2>2, RestoreConfigFacts
  <2>4. n3 \in NetConfig
    <3>1. Alive \in BOOLEAN
      BY DEF Alive
    <3> QED BY <2>3, <3>1, DestroyTAPFacts
  <2>5. EngineTyped' /\ net' \in NetConfig /\ failSafe' \in BOOLEAN
    BY <2>b, <2>4, <1>c, OnSuccessTyped
  <2> QED BY <1>14, <1>b, <1>e, <2>5 DEF doRestoreNetwork
<1> QED
  BY <1>1, <1>2, <1>3, <1>4, <1>5, <1>6, <1>7, <1>8, <1>9, <1>10, <1>11, <1>12, <1>13, <1>14
     DEF EngineStep

\* Type correctness: no step of the engine, of the QEMU process or of the
\* process around them leaves the declared ranges, the retry counters included.
THEOREM TypeCorrect == Spec => []TypeOK
<1>0. /\ "Init" \in States
      /\ [s \in States |-> 0] \in [States -> 0..3]
      /\ [s \in Retryable |-> 0] \in [Retryable -> Nat]
  <2>1. "Init" \in States
    BY DEF States
  <2> QED BY <2>1
<1>1. Init => TypeOK
  <2> SUFFICES ASSUME Init PROVE TypeOK
    OBVIOUS
  <2>1. VMTypeOK
    BY DEF Init, VMInit, VMTypeOK
  <2>2. torControl \in BOOLEAN /\ failSafe \in BOOLEAN /\ cancelled \in BOOLEAN
    BY DEF Init
  <2>3. net \in NetConfig /\ restarts \in 0..MaxRestarts
    BY HostBeforeFacts, SupervisorAssumption DEF Init
  <2>4. attempts \in [States -> 0..3] /\ tries \in [Retryable -> Nat]
    BY <1>0 DEF Init
  <2> QED BY <1>0, <2>1, <2>2, <2>3, <2>4 DEF Init, TypeOK
<1>2. TypeOK /\ [Next]_vars => TypeOK'
  <2> SUFFICES ASSUME TypeOK, [Next]_vars PROVE TypeOK'
    OBVIOUS
  <2>1. CASE EngineStep
    BY <2>1, EngineStepTyped
  <2>2. CASE QemuStep \/ QemuDies \/ Reaper \/ ContextWatcher
    <3>1. VMTypeOK'
      BY <2>2, VMStepTyped DEF TypeOK, QemuStep, QemuDies, Reaper, ContextWatcher
    <3> QED BY <2>2, <3>1 DEF TypeOK, QemuStep, QemuDies, Reaper, ContextWatcher, engineVars
  <2>3. CASE Cancel \/ Crash
    BY <2>3 DEF TypeOK, Cancel, Crash, vmVars, VMTypeOK
  <2>4. CASE Restart
    <3>1. VMTypeOK'
      BY <2>4, VMStepTyped DEF TypeOK, Restart
    <3>2. restarts' \in 0..MaxRestarts
      BY <2>4, SupervisorAssumption DEF TypeOK, Restart
    <3> QED BY <1>0, <2>4, <3>1, <3>2 DEF TypeOK, Restart, FreshEngine
  <2>5. CASE UNCHANGED vars
    BY <2>5 DEF TypeOK, vars, engineVars, vmVars, VMTypeOK
  <2> QED BY <2>1, <2>2, <2>3, <2>4, <2>5 DEF Next
<1> QED BY <1>1, <1>2, PTL DEF Spec

-----------------------------------------------------------------------------
(* The routes of the host *)

\* transition() does not end the controller normally.
LEMMA TransitionExit ==
    ASSUME NEW s, NEW p, Transition(s, p)
    PROVE  state' = s /\ (exit' = exit \/ exit' = "panic")
  BY DEF Transition

\* Two shapes of a step that keep RouteInv.  A step that leaves the network
\* and the failsafe alone, and moves between states of the same kind:
LEMMA QuietStep ==
    ASSUME TypeOK, RouteInv, UNCHANGED <<net, failSafe>>,
           exit' = exit \/ exit' # "ok",
           exit = "ok" => UNCHANGED <<state, pc>>,
           \/ state' = state
           \/ state' \in {"Shutdown", "RestoreNetwork"}
           \/ state' \in {"Init", "CheckPrivileges", "SaveNetwork", "CreateTAP"} /\ ~failSafe
           \/ state' \in PreparedStates \ DivertedStates /\ state \in PreparedStates /\ ~failSafe
           \/ state' \in DivertedStates /\ state \in DivertedStates /\ ~failSafe
    PROVE  RouteInv'
  BY DEF RouteInv, ShutdownStates, PreparedStates, DivertedStates, Undiverted, PlatformRoutes, TypeOK

\* A step into Shutdown that activates the failsafe:
LEMMA FailingStep ==
    ASSUME TypeOK, RouteInv, NEW n \in NetConfig, PlatformRoutes(n),
           TeardownReliable => "orig" \in n.routes,
           ~failSafe, Activate(n), state' = "Shutdown", exit' # "ok"
    PROVE  RouteInv'
<1>1. net' \in TeardownRouting(n) /\ failSafe'
  BY DEF Activate
<1>2. /\ PlatformRoutes(net')
      /\ TeardownReliable => "orig" \in net'.routes
      /\ TeardownReliable /\ Platform # "windows" => Undiverted(net')
  BY <1>1, TeardownRoutingFacts
<1> QED
  BY <1>1, <1>2 DEF RouteInv, ShutdownStates, PreparedStates, DivertedStates,
                    Undiverted, PlatformRoutes

\* The error path of Run, after a handler that took no route away.
LEMMA OnErrorRoutes ==
    ASSUME TypeOK, RouteInv, NEW n \in NetConfig, NEW class, OnError(n, class),
           PlatformRoutes(n), net.routes \subseteq n.routes,
           pc = "body", state \notin ShutdownStates
    PROVE  RouteInv'
<1>0. exit # "ok" /\ ~failSafe
  BY DEF RouteInv
<1>1. CASE pc' = "delay" /\ net' = n /\ UNCHANGED <<state, failSafe, watchdogStop, exit>>
  BY <1>0, <1>1 DEF RouteInv, ShutdownStates, Undiverted, PlatformRoutes
<1>2. CASE Activate(n) /\ Transition("Shutdown", "top")
  <2>1. state' = "Shutdown" /\ exit' # "ok"
    BY <1>0, <1>2, TransitionExit
  <2> QED BY <1>0, <1>2, <2>1, FailingStep DEF RouteInv
<1> QED BY <1>1, <1>2 DEF OnError

\* Every step of the engine keeps RouteInv.
LEMMA EngineStepRoutes ==
    ASSUME TypeOK, TypeOK', RouteInv, EngineStep
    PROVE  RouteInv'
<1>a. pc # "exited" /\ exit # "ok"
  BY DEF EngineStep, RouteInv, TypeOK, RunTop, RunDelay, Init0, checkPrivileges, doSaveNetwork,
         doCreateTAP, doLaunchVM, doWaitTAP, doWaitBootstrap, PollVM, doConfigureTAP, doFlushDNS,
         doRunning, doRunningWake, doShutdown, doShutdownStop, doShutdownDone, doRestoreNetwork,
         doCleanup, At
<1>b. net \in NetConfig
  BY DEF TypeOK
<1>c. state \notin ShutdownStates => ~failSafe
  BY DEF RouteInv
<1>d. ASSUME NEW s, OnSuccess(net, s)
      PROVE  UNCHANGED <<net, failSafe>> /\ state' = s /\ exit' # "ok"
  BY <1>a, <1>d, TransitionExit DEF OnSuccess
<1>1. CASE RunTop \/ RunDelay
  <2>1. UNCHANGED <<net, failSafe>>
    BY <1>1 DEF RunTop, RunDelay
  <2>2. \/ state' = state /\ exit' = exit
        \/ state' = "Shutdown" /\ exit' # "ok"
    BY <1>1, <1>a, TransitionExit DEF RunTop, RunDelay
  <2> QED BY <1>a, <2>1, <2>2, QuietStep
<1>2. CASE Init0 \/ checkPrivileges
  <2>1. state \in {"Init", "CheckPrivileges"} /\ ~failSafe
    BY <1>2, <1>c DEF Init0, checkPrivileges, At, ShutdownStates
  <2>2. CASE OnSuccess(net, "CheckPrivileges") \/ OnSuccess(net, "SaveNetwork")
    BY <1>a, <1>d, <2>1, <2>2, QuietStep
  <2>3. CASE exit' = "err" /\ UNCHANGED <<net, state, attempts, failSafe, watchdogStop>>
    BY <1>a, <2>3, QuietStep
  <2> QED BY <1>2, <2>2, <2>3 DEF Init0, checkPrivileges
<1>3. CASE doSaveNetwork
  <2>1. state = "SaveNetwork" /\ pc = "body" /\ state \notin ShutdownStates
    BY <1>3 DEF doSaveNetwork, At, ShutdownStates
  <2>2. CASE OnSuccess(net, "CreateTAP")
    BY <1>a, <1>c, <1>d, <2>1, <2>2, QuietStep
  <2>3. CASE \E class \in ErrorClass : OnError(net, class)
    BY <1>b, <2>1, <2>3, OnErrorRoutes DEF RouteInv
  <2> QED BY <1>3, <2>2, <2>3 DEF doSaveNetwork
<1>4. CASE doCreateTAP
  <2>1. state = "CreateTAP" /\ pc = "body" /\ state \notin ShutdownStates
    BY <1>4 DEF doCreateTAP, At, ShutdownStates
  <2>2. PICK r \in CreateTAP(net) :
          (r.ok /\ OnSuccess(r.net, "LaunchVM"))
            \/ (~r.ok /\ (\E class \in ErrorClass : OnError(r.net, class)))
    BY <1>4 DEF doCreateTAP
  <2>3. /\ r.net \in NetConfig /\ PlatformRoutes(r.net) /\ net.routes \subseteq r.net.routes
        /\ Platform = "windows" /\ r.ok => "tor" \in r.net.routes
    BY <1>b, CreateTAPFacts DEF RouteInv
  <2>4. CASE r.ok /\ OnSuccess(r.net, "LaunchVM")
    <3>1. net' = r.net /\ failSafe' = failSafe /\ state' = "LaunchVM" /\ exit' # "ok"
      BY <1>a, <2>4, TransitionExit DEF OnSuccess
    <3> QED BY <1>c, <2>1, <2>3, <2>4, <3>1
            DEF RouteInv, ShutdownStates, PreparedStates, DivertedStates
  <2>5. CASE \E class \in ErrorClass : OnError(r.net, class)
    BY <2>1, <2>3, <2>5, OnErrorRoutes
  <2> QED BY <2>2, <2>4, <2>5
<1>5. CASE doLaunchVM
  <2>1. state = "LaunchVM" /\ pc = "body" /\ state \notin ShutdownStates
    BY <1>5 DEF doLaunchVM, At, ShutdownStates
  <2>2. CASE OnSuccess(net, "WaitTAP")
    BY <1>a, <1>c, <1>d, <2>1, <2>2, QuietStep DEF PreparedStates, DivertedStates
  <2>3. CASE \E class : OnError(net, class)
    BY <1>b, <2>1, <2>3, OnErrorRoutes DEF RouteInv
  <2> QED BY <1>5, <2>2, <2>3 DEF doLaunchVM
<1>6. CASE doWaitTAP
  <2>1. state = "WaitTAP" /\ pc = "body" /\ state \notin ShutdownStates
    BY <1>6 DEF doWaitTAP, PollVM, At, ShutdownStates
  <2>2. CASE OnSuccess(net, "ConfigureTAP")
    BY <1>a, <1>c, <1>d, <2>1, <2>2, QuietStep DEF PreparedStates, DivertedStates
  <2>3. CASE OnError(net, "Transient")
    BY <1>b, <2>1, <2>3, OnErrorRoutes DEF RouteInv
  <2> QED BY <1>6, <2>2, <2>3 DEF doWaitTAP, PollVM
<1>7. CASE doConfigureTAP
  <2>1. state = "ConfigureTAP" /\ pc = "body" /\ state \notin ShutdownStates
    BY <1>7 DEF doConfigureTAP, At, ShutdownStates
  <2>2. PICK r \in SetupRouting(net) :
          (r.ok /\ OnSuccess(r.net, "FlushDNS"))
            \/ (~r.ok /\ (\E class \in ErrorClass : OnError(r.net, class)))
    BY <1>7 DEF doConfigureTAP
  <2>3. /\ r.net \in NetConfig /\ PlatformRoutes(r.net) /\ net.routes \subseteq r.net.routes
        /\ r.ok /\ Platform = "linux" => "tor" \in r.net.routes
        /\ r.ok /\ Platform = "darwin" => {"low", "high"} \subseteq r.net.routes
    BY <1>b, SetupRoutingFacts DEF RouteInv
  <2>4. CASE r.ok /\ OnSuccess(r.net, "FlushDNS")
    <3>1. net' = r.net /\ failSafe' = failSafe /\ state' = "FlushDNS" /\ exit' # "ok"
      BY <1>a, <2>4, TransitionExit DEF OnSuccess
    <3> QED BY <1>c, <2>1, <2>3, <2>4, <3>1
            DEF RouteInv, ShutdownStates, PreparedStates, DivertedStates
  <2>5. CASE \E class \in ErrorClass : OnError(r.net, class)
    BY <2>1, <2>3, <2>5, OnErrorRoutes
  <2> QED BY <2>2, <2>4, <2>5
<1>8. CASE doFlushDNS
  <2>1. state = "FlushDNS" /\ OnSuccess(net, "WaitBootstrap")
    BY <1>8 DEF doFlushDNS, At
  <2> QED BY <1>a, <1>c, <1>d, <2>1, QuietStep DEF DivertedStates, ShutdownStates
<1>9. CASE doWaitBootstrap
  <2>1. state = "WaitBootstrap" /\ pc = "body" /\ state \notin ShutdownStates
    BY <1>9 DEF doWaitBootstrap, PollVM, At, ShutdownStates
  <2>2. CASE OnSuccess(net, "Running")
    BY <1>a, <1>c, <1>d, <2>1, <2>2, QuietStep DEF DivertedStates
  <2>3. CASE OnError(net, "Transient")
    BY <1>b, <2>1, <2>3, OnErrorRoutes DEF RouteInv
  <2> QED BY <1>9, <2>2, <2>3 DEF doWaitBootstrap, PollVM
<1>10. CASE doRunning
  BY <1>10, <1>a DEF doRunning, RouteInv, At, ShutdownStates, PreparedStates, DivertedStates
<1>11. CASE doRunningWake
  <2>1. state' = "Shutdown" /\ exit' # "ok"
    BY <1>11, <1>a, TransitionExit DEF doRunningWake
  <2>2. CASE UNCHANGED <<net, failSafe>>
    BY <1>a, <2>1, <2>2, QuietStep
  <2>3. CASE Activate(net)
    <3>1. CASE failSafe
      <4>1. UNCHANGED <<net, failSafe>>
        BY <2>3, <3>1 DEF Activate
      <4> QED BY <1>a, <2>1, <4>1, QuietStep
    <3>2. CASE ~failSafe
      BY <1>b, <2>1, <2>3, <3>2, FailingStep DEF RouteInv
    <3> QED BY <3>1, <3>2
  <2> QED BY <1>11, <2>2, <2>3 DEF doRunningWake
<1>12. CASE doShutdown
  <2>1. CASE UNCHANGED <<net, state, attempts, failSafe, watchdogStop, exit>>
    BY <1>a, <2>1, QuietStep
  <2>2. CASE OnSuccess(net, "RestoreNetwork")
    BY <1>a, <1>d, <2>2, QuietStep
  <2> QED BY <1>12, <2>1, <2>2 DEF doShutdown
<1>13. CASE doShutdownStop
  BY <1>13, <1>a, QuietStep DEF doShutdownStop, engineVars
<1>14. CASE doShutdownDone
  <2>1. OnSuccess(net, "RestoreNetwork")
    BY <1>14 DEF doShutdownDone
  <2> QED BY <1>a, <1>d, <2>1, QuietStep
<1>15. CASE doRestoreNetwork
  <2>1. PICK n1 \in TeardownRouting(net) :
          \E n2 \in IF savedNet # "nil" THEN RestoreConfig(n1, savedNet) ELSE {n1} :
            \E n3 \in DestroyTAP(n2, Alive) : OnSuccess(n3, "Cleanup")
    BY <1>15 DEF doRestoreNetwork
  <2>2. PICK n2 \in IF savedNet # "nil" THEN RestoreConfig(n1, savedNet) ELSE {n1} :
          \E n3 \in DestroyTAP(n2, Alive) : OnSuccess(n3, "Cleanup")
    BY <2>1
  <2>3. PICK n3 \in DestroyTAP(n2, Alive) : OnSuccess(n3, "Cleanup")
    BY <2>2
  <2>4. /\ n1 \in NetConfig /\ PlatformRoutes(n1)
        /\ TeardownReliable => "orig" \in n1.routes
        /\ TeardownReliable /\ Platform # "windows" => Undiverted(n1)
    BY <1>b, TeardownRoutingFacts DEF RouteInv
  <2>5. n2 \in NetConfig /\ n2.routes = n1.routes
    <3>1. savedNet # "nil" => savedNet \in DnsStates
      BY DEF TypeOK
    <3> QED BY <2>4, <3>1, RestoreConfigFacts
  <2>6. /\ n3 \in NetConfig /\ n3.routes \subseteq n2.routes
        /\ "orig" \in n2.routes => "orig" \in n3.routes
        /\ TeardownReliable /\ Platform = "windows" => "tor" \notin n3.routes
    <3>1. Alive \in BOOLEAN
      BY DEF Alive
    <3> QED BY <2>5, <3>1, DestroyTAPFacts
  <2>7. TeardownReliable => n3.routes = {"orig"}
    BY <2>4, <2>5, <2>6, PlatformAssumption DEF NetConfig, RouteNames, PlatformRoutes, Undiverted
  <2>8. PlatformRoutes(n3)
    BY <2>4, <2>5, <2>6 DEF PlatformRoutes
  <2>9. net' = n3 /\ failSafe' = failSafe /\ state' = "Cleanup" /\ exit' # "ok"
    BY <1>a, <2>3, TransitionExit DEF OnSuccess
  <2> QED
    BY <2>7, <2>8, <2>9
       DEF RouteInv, ShutdownStates, PreparedStates, DivertedStates, Undiverted
<1>16. CASE doCleanup
  BY <1>16, <1>a DEF doCleanup, At, RouteInv, PreparedStates, DivertedStates
<1> QED
  BY <1>1, <1>2, <1>3, <1>4, <1>5, <1>6, <1>7, <1>8, <1>9, <1>10, <1>11, <1>12, <1>13, <1>14,
     <1>15, <1>16 DEF EngineStep

\* RouteInv is an invariant: it relates the routes of the host to the state of
\* the engine at every moment, across crashes and restarts.
THEOREM RoutesInvariant == Spec => []RouteInv
<1>1. Init => RouteInv
  BY HostBeforeFacts
     DEF Init, RouteInv, ShutdownStates, PreparedStates, DivertedStates, Undiverted
<1>2. TypeOK /\ TypeOK' /\ RouteInv /\ [Next]_vars => RouteInv'
  <2> SUFFICES ASSUME TypeOK, TypeOK', RouteInv, [Next]_vars PROVE RouteInv'
    OBVIOUS
  <2>1. CASE EngineStep
    BY <2>1, EngineStepRoutes
  <2>2. CASE QemuStep \/ QemuDies \/ Reaper \/ ContextWatcher
    BY <2>2, QuietStep DEF QemuStep, QemuDies, Reaper, ContextWatcher, engineVars
  <2>3. CASE Cancel
    BY <2>3, QuietStep DEF Cancel
  <2>4. CASE Crash
    <3>1. exit # "ok"
      BY <2>4 DEF Crash, RouteInv
    <3> QED BY <2>4, <3>1, QuietStep DEF Crash
  <2>5. CASE Restart
    BY <2>5 DEF Restart, FreshEngine, RouteInv, ShutdownStates, PreparedStates, DivertedStates
  <2>6. CASE UNCHANGED vars
    BY <2>6, QuietStep DEF vars, engineVars
  <2> QED BY <2>1, <2>2, <2>3, <2>4, <2>5, <2>6 DEF Next
<1> QED BY <1>1, <1>2, TypeCorrect, PTL DEF Spec

\* When Run returns nil the host routes as it did before TorVM.
THEOREM ReturnRestoresRoutes == Spec => []HostRoutesRestored
<1>1. RouteInv => HostRoutesRestored
  BY DEF RouteInv, HostRoutesRestored
<1> QED BY <1>1, RoutesInvariant, PTL

\* An active failsafe leaves no route to the VM that failed.
THEOREM FailSafeReleases == Spec => []FailSafeDropsDiversion
<1>1. TypeOK /\ RouteInv => FailSafeDropsDiversion
  BY EgressFacts DEF TypeOK, RouteInv, FailSafeDropsDiversion
<1> QED BY <1>1, TypeCorrect, RoutesInvariant, PTL

\* While the engine is Running every packet goes to the VM, provided that the
\* host's own default route has a larger metric than TorVM's.
THEOREM RunningTorified == (TorMetric < OrigMetric) => (Spec => []RunningIsTorified)
<1> SUFFICES ASSUME TorMetric < OrigMetric PROVE Spec => []RunningIsTorified
  OBVIOUS
<1>1. TypeOK /\ RouteInv => RunningIsTorified
  BY EgressFacts, PlatformAssumption
     DEF TypeOK, RouteInv, RunningIsTorified, DivertedStates, PreparedStates
<1> QED BY <1>1, TypeCorrect, RoutesInvariant, PTL

-----------------------------------------------------------------------------
(* No QEMU process is left behind *)

\* A process that lives has its goroutine and its flag, and no result of it is
\* waiting; Stop is on its way only inside doShutdown; and once Stop is done, or
\* the engine has got past Shutdown, the process is dead or killed.
OrphanInv ==
    /\ Alive => running /\ reaper = "waiting" /\ waitErr = "empty"
    /\ stopPc # "idle" => pc \in {"stop", "exited"}
    /\ stopPc = "done" => ~Alive \/ killed
    /\ state \in {"RestoreNetwork", "Cleanup"} => ~Alive \/ killed

\* A step that leaves the VM alone and does not get past Shutdown.
LEMMA OrphanQuiet ==
    ASSUME OrphanInv, UNCHANGED vmVars,
           state' \in {"RestoreNetwork", "Cleanup"} => state \in {"RestoreNetwork", "Cleanup"},
           pc \in {"stop", "exited"} => pc' \in {"stop", "exited"}
    PROVE  OrphanInv'
  BY DEF OrphanInv, vmVars, Alive

\* A step of QEMU, of the goroutines around it or of Stop.
LEMMA OrphanVMStep ==
    ASSUME VMTypeOK, OrphanInv, UNCHANGED <<state, pc>>,
           \/ GuestExit \/ QemuHang \/ KilledExit \/ Reap \/ Deliver
           \/ ContextKill(cancelled) \/ (Stop /\ pc = "stop")
    PROVE  OrphanInv'
<1>1. CASE GuestExit \/ QemuHang \/ KilledExit
  BY <1>1 DEF OrphanInv, Alive, GuestExit, QemuHang, KilledExit
<1>2. CASE Reap \/ Deliver \/ ContextKill(cancelled)
  BY <1>2 DEF OrphanInv, Alive, Reap, Deliver, ContextKill
<1>3. CASE Stop /\ pc = "stop"
  BY <1>3 DEF OrphanInv, Alive, Stop, StopCheck, StopPowerdown, StopExited, StopTimeout, StopKill,
              VMTypeOK
<1> QED BY <1>1, <1>2, <1>3

\* The error path of Run ends in the state it began in, or in Shutdown.
LEMMA OnErrorState ==
    ASSUME NEW n, NEW class, OnError(n, class)
    PROVE  \/ state' = state /\ pc' = "delay"
           \/ state' = "Shutdown"
  BY DEF OnError, Transition

\* The success path of Run ends in the state it names.
LEMMA OnSuccessState ==
    ASSUME NEW n, NEW s, OnSuccess(n, s)
    PROVE  net' = n /\ failSafe' = failSafe /\ state' = s
  BY DEF OnSuccess, Transition

\* Every step of the engine keeps OrphanInv.
LEMMA EngineStepOrphan ==
    ASSUME TypeOK, OrphanInv, EngineStep
    PROVE  OrphanInv'
<1> USE DEF At
<1>1. CASE RunTop \/ RunDelay
  BY <1>1, OrphanQuiet DEF RunTop, RunDelay, Transition
<1>2. CASE Init0 \/ checkPrivileges
  BY <1>2, OrphanQuiet, OnSuccessState DEF Init0, checkPrivileges
<1>3. CASE doSaveNetwork \/ doCreateTAP \/ doConfigureTAP
  <2>1. state' \notin {"RestoreNetwork", "Cleanup"} /\ pc = "body" /\ UNCHANGED vmVars
    BY <1>3, OnSuccessState, OnErrorState DEF doSaveNetwork, doCreateTAP, doConfigureTAP
  <2> QED BY <2>1, OrphanQuiet
<1>4. CASE doLaunchVM
  <2>1. state' \notin {"RestoreNetwork", "Cleanup"} /\ pc = "body"
    <3>1. state = "LaunchVM" /\ pc = "body"
      BY <1>4 DEF doLaunchVM
    <3>2. OnSuccess(net, "WaitTAP") \/ \E class : OnError(net, class)
      BY <1>4 DEF doLaunchVM
    <3> QED BY <3>1, <3>2, OnSuccessState, OnErrorState
  <2>2. Start(TRUE) \/ Start(FALSE)
    BY <1>4 DEF doLaunchVM
  <2> QED BY <2>1, <2>2 DEF OrphanInv, Start, Alive
<1>5. CASE doWaitTAP \/ doWaitBootstrap \/ doFlushDNS
  <2>1. state' \notin {"RestoreNetwork", "Cleanup"} /\ pc = "body" /\ UNCHANGED vmVars
    BY <1>5, OnSuccessState, OnErrorState DEF doWaitTAP, doWaitBootstrap, PollVM, doFlushDNS
  <2> QED BY <2>1, OrphanQuiet
<1>6. CASE doRunning \/ doRestoreNetwork \/ doCleanup
  BY <1>6, OrphanQuiet, OnSuccessState DEF doRunning, doRestoreNetwork, doCleanup
<1>7. CASE doRunningWake
  BY <1>7 DEF doRunningWake, Transition, OrphanInv, Alive
<1>8. CASE doShutdown
  BY <1>8, OnSuccessState DEF doShutdown, OrphanInv, Alive
<1>9. CASE doShutdownStop
  BY <1>9, OrphanVMStep DEF doShutdownStop, engineVars, TypeOK
<1>10. CASE doShutdownDone
  BY <1>10, OnSuccessState DEF doShutdownDone, OrphanInv, Alive
<1> QED
  BY <1>1, <1>2, <1>3, <1>4, <1>5, <1>6, <1>7, <1>8, <1>9, <1>10 DEF EngineStep

\* OrphanInv holds throughout.
LEMMA OrphanInvariant == Spec => []OrphanInv
<1>1. Init => OrphanInv
  BY DEF Init, VMInit, OrphanInv, Alive
<1>2. TypeOK /\ OrphanInv /\ [Next]_vars => OrphanInv'
  <2> SUFFICES ASSUME TypeOK, OrphanInv, [Next]_vars PROVE OrphanInv'
    OBVIOUS
  <2>1. CASE EngineStep
    BY <2>1, EngineStepOrphan
  <2>2. CASE QemuStep \/ QemuDies \/ Reaper \/ ContextWatcher
    BY <2>2, OrphanVMStep DEF QemuStep, QemuDies, Reaper, ContextWatcher, engineVars, TypeOK
  <2>3. CASE Cancel \/ Crash \/ UNCHANGED vars
    BY <2>3, OrphanQuiet DEF Cancel, Crash, vars, engineVars
  <2>4. CASE Restart
    BY <2>4 DEF Restart, FreshEngine, VMReset, OrphanInv, Alive
  <2> QED BY <2>1, <2>2, <2>3, <2>4 DEF Next
<1> QED BY <1>1, <1>2, TypeCorrect, PTL DEF Spec

\* A controller that ends normally leaves no QEMU process that it has not killed.
THEOREM NoVMLeftBehind == Spec => []NoOrphanVM
<1>1. RouteInv /\ OrphanInv => NoOrphanVM
  BY DEF RouteInv, OrphanInv, NoOrphanVM
<1> QED BY <1>1, RoutesInvariant, OrphanInvariant, PTL

-----------------------------------------------------------------------------
(* The bound on retries *)

\* The order in which Run goes through the states.
Rank(s) ==
    CASE s = "Init" -> 1 [] s = "CheckPrivileges" -> 2 [] s = "SaveNetwork" -> 3
      [] s = "CreateTAP" -> 4 [] s = "LaunchVM" -> 5 [] s = "WaitTAP" -> 6
      [] s = "ConfigureTAP" -> 7 [] s = "FlushDNS" -> 8 [] s = "WaitBootstrap" -> 9
      [] OTHER -> 10

\* A handler whose state Run has not reached has not been called; in its state,
\* it has been called once for every attempt that was counted; and after that it
\* has had its last call.  The counter alone would not do: it is reset.
RetryInv ==
    \A s \in Retryable :
      /\ Rank(state) < Rank(s) => tries[s] = 0 /\ attempts[s] = 0
      /\ state = s => tries[s] = attempts[s] /\ attempts[s] <= DefaultRetryPolicy[s]
      /\ tries[s] <= DefaultRetryPolicy[s] + 1

\* The retryable states are states, their policy is a small number, and they
\* come before Running.
LEMMA RetryableFacts ==
    /\ \A s \in Retryable : s \in States /\ DefaultRetryPolicy[s] \in 2..3 /\ Rank(s) \in 3..8
    /\ \A s \in States : Rank(s) \in 1..10
    /\ \A s, t \in Retryable : Rank(s) = Rank(t) => s = t
  BY DEF Retryable, DefaultRetryPolicy, States, Rank

\* A step that calls no handler that is counted: the state is kept, or left for
\* a later one, or for Shutdown.
LEMMA UncountedStep ==
    ASSUME TypeOK, RetryInv, UNCHANGED tries, state' \in States,
           \/ UNCHANGED <<state, attempts>>
           \/ /\ attempts' = [attempts EXCEPT ![state] = 0]
              /\ Rank(state) < Rank(state') \/ Rank(state') = 10
    PROVE  RetryInv'
<1> SUFFICES ASSUME NEW s \in Retryable
             PROVE  /\ Rank(state') < Rank(s) => tries'[s] = 0 /\ attempts'[s] = 0
                    /\ state' = s => tries'[s] = attempts'[s] /\ attempts'[s] <= DefaultRetryPolicy[s]
                    /\ tries'[s] <= DefaultRetryPolicy[s] + 1
  BY DEF RetryInv
<1>1. /\ s \in States /\ DefaultRetryPolicy[s] \in 2..3 /\ Rank(s) \in 3..8
      /\ Rank(state) \in 1..10 /\ Rank(state') \in 1..10
  BY RetryableFacts DEF TypeOK
<1>2. /\ Rank(state) < Rank(s) => tries[s] = 0 /\ attempts[s] = 0
      /\ state = s => tries[s] = attempts[s] /\ attempts[s] <= DefaultRetryPolicy[s]
      /\ tries[s] <= DefaultRetryPolicy[s] + 1
  BY DEF RetryInv
<1>3. CASE UNCHANGED <<state, attempts>>
  BY <1>2, <1>3
<1>4. CASE /\ attempts' = [attempts EXCEPT ![state] = 0]
           /\ Rank(state) < Rank(state') \/ Rank(state') = 10
  <2>1. state' = s => Rank(state') = Rank(s)
    OBVIOUS
  <2>2. attempts'[s] = IF s = state THEN 0 ELSE attempts[s]
    BY <1>1, <1>4 DEF TypeOK
  <2>3. Rank(state') < Rank(s) \/ state' = s => Rank(state) < Rank(s)
    BY <1>1, <1>4, <2>1
  <2> QED BY <1>1, <1>2, <2>2, <2>3
<1> QED BY <1>3, <1>4

\* A call of a handler that is counted: it is called again, or left for good.
LEMMA CountedStep ==
    ASSUME TypeOK, RetryInv, NEW x \in Retryable, state = x, Try(x), state' \in States,
           \/ /\ attempts[x] < DefaultRetryPolicy[x]
              /\ attempts' = [attempts EXCEPT ![x] = @ + 1]
              /\ state' = x
           \/ /\ attempts' = [attempts EXCEPT ![x] = 0]
              /\ Rank(x) < Rank(state')
    PROVE  RetryInv'
<1> SUFFICES ASSUME NEW s \in Retryable
             PROVE  /\ Rank(state') < Rank(s) => tries'[s] = 0 /\ attempts'[s] = 0
                    /\ state' = s => tries'[s] = attempts'[s] /\ attempts'[s] <= DefaultRetryPolicy[s]
                    /\ tries'[s] <= DefaultRetryPolicy[s] + 1
  BY DEF RetryInv
<1>1. /\ s \in States /\ DefaultRetryPolicy[s] \in 2..3 /\ Rank(s) \in 3..8
      /\ Rank(x) \in 3..8 /\ x \in States /\ Rank(state') \in 1..10
      /\ Rank(s) = Rank(x) => s = x
  BY RetryableFacts
<1>2. /\ Rank(x) < Rank(s) => tries[s] = 0 /\ attempts[s] = 0
      /\ s = x => tries[s] = attempts[s] /\ attempts[s] <= DefaultRetryPolicy[s]
      /\ tries[s] <= DefaultRetryPolicy[s] + 1
  BY DEF RetryInv
<1>3. tries'[s] = IF s = x THEN tries[s] + 1 ELSE tries[s]
  BY DEF Try, TypeOK
<1>4. tries[s] \in Nat /\ attempts[s] \in 0..3
  BY <1>1 DEF TypeOK
<1>5. CASE /\ attempts[x] < DefaultRetryPolicy[x]
           /\ attempts' = [attempts EXCEPT ![x] = @ + 1]
           /\ state' = x
  <2>1. attempts'[s] = IF s = x THEN attempts[s] + 1 ELSE attempts[s]
    BY <1>1, <1>5 DEF TypeOK
  <2> QED BY <1>1, <1>2, <1>3, <1>4, <1>5, <2>1
<1>6. CASE /\ attempts' = [attempts EXCEPT ![x] = 0]
           /\ Rank(x) < Rank(state')
  <2>1. attempts'[s] = IF s = x THEN 0 ELSE attempts[s]
    BY <1>1, <1>6 DEF TypeOK
  <2>2. state' = s => Rank(state') = Rank(s)
    OBVIOUS
  <2>3. Rank(state') < Rank(s) \/ state' = s => Rank(x) < Rank(s) /\ s # x
    BY <1>1, <1>6, <2>2
  <2> QED BY <1>1, <1>2, <1>3, <1>4, <2>1, <2>3
<1> QED BY <1>5, <1>6

\* What the two ends of a handler do to the counters.
LEMMA EndCounters ==
    ASSUME TypeOK
    PROVE  /\ \A n, s : OnSuccess(n, s) => attempts' = [attempts EXCEPT ![state] = 0] /\ state' = s
           /\ \A n, class : OnError(n, class) =>
                \/ /\ ShouldRetry(state, class, attempts[state])
                   /\ attempts' = [attempts EXCEPT ![state] = @ + 1]
                   /\ state' = state
                \/ /\ ~ShouldRetry(state, class, attempts[state])
                   /\ attempts' = [attempts EXCEPT ![state] = 0]
                   /\ state' = "Shutdown"
  BY DEF OnSuccess, OnError, Transition

\* A handler that is counted is called again below its bound, or left for good.
LEMMA CountedHandler ==
    ASSUME TypeOK, TypeOK', RetryInv, NEW x \in Retryable, NEW next, state = x, Try(x),
           Rank(x) < Rank(next),
           (\E n : OnSuccess(n, next)) \/ (\E n, class : OnError(n, class))
    PROVE  RetryInv'
<1>0. state' \in States /\ Rank("Shutdown") = 10 /\ Rank(x) \in 3..8
  BY RetryableFacts DEF TypeOK, Rank
<1>1. CASE \E n : OnSuccess(n, next)
  BY <1>0, <1>1, EndCounters, CountedStep
<1>2. CASE \E n, class : OnError(n, class)
  <2>1. \/ /\ attempts[x] < DefaultRetryPolicy[x]
           /\ attempts' = [attempts EXCEPT ![x] = @ + 1]
           /\ state' = x
        \/ /\ attempts' = [attempts EXCEPT ![x] = 0]
           /\ state' = "Shutdown"
    BY <1>2, EndCounters DEF ShouldRetry
  <2> QED BY <1>0, <2>1, CountedStep
<1> QED BY <1>1, <1>2

\* Every step of the engine keeps RetryInv.
LEMMA EngineStepRetry ==
    ASSUME TypeOK, TypeOK', RetryInv, EngineStep
    PROVE  RetryInv'
<1> USE DEF At
<1>a. state' \in States
  BY DEF TypeOK
<1>b. /\ Rank("Init") = 1 /\ Rank("CheckPrivileges") = 2 /\ Rank("SaveNetwork") = 3
      /\ Rank("CreateTAP") = 4 /\ Rank("LaunchVM") = 5 /\ Rank("WaitTAP") = 6
      /\ Rank("ConfigureTAP") = 7 /\ Rank("FlushDNS") = 8 /\ Rank("WaitBootstrap") = 9
      /\ Rank("Running") = 10 /\ Rank("Shutdown") = 10 /\ Rank("RestoreNetwork") = 10
      /\ Rank("Cleanup") = 10
  BY DEF Rank
<1>c. Retryable = {"SaveNetwork", "CreateTAP", "LaunchVM", "ConfigureTAP", "FlushDNS"}
  BY DEF Retryable, DefaultRetryPolicy
<1>1. CASE RunTop \/ RunDelay
  <2>1. UNCHANGED tries
    BY <1>1 DEF RunTop, RunDelay
  <2>2. \/ UNCHANGED <<state, attempts>>
        \/ attempts' = [attempts EXCEPT ![state] = 0] /\ state' = "Shutdown"
    BY <1>1 DEF RunTop, RunDelay, Transition
  <2> QED BY <1>a, <1>b, <2>1, <2>2, UncountedStep
<1>2. CASE Init0 \/ checkPrivileges
  <2>1. UNCHANGED tries
    BY <1>2 DEF Init0, checkPrivileges
  <2>2. \/ UNCHANGED <<state, attempts>>
        \/ state = "Init" /\ OnSuccess(net, "CheckPrivileges")
        \/ state = "CheckPrivileges" /\ OnSuccess(net, "SaveNetwork")
    BY <1>2 DEF Init0, checkPrivileges
  <2> QED BY <1>a, <1>b, <2>1, <2>2, EndCounters, UncountedStep
<1>3. CASE doSaveNetwork
  BY <1>3, <1>b, <1>c, CountedHandler DEF doSaveNetwork
<1>4. CASE doCreateTAP
  BY <1>4, <1>b, <1>c, CountedHandler DEF doCreateTAP
<1>5. CASE doLaunchVM
  <2>1. /\ state = "LaunchVM" /\ Try("LaunchVM")
        /\ OnSuccess(net, "WaitTAP") \/ (\E class : OnError(net, class))
    BY <1>5 DEF doLaunchVM
  <2> QED BY <1>b, <1>c, <2>1, CountedHandler
<1>6. CASE doConfigureTAP
  BY <1>6, <1>b, <1>c, CountedHandler DEF doConfigureTAP
<1>7. CASE doFlushDNS
  BY <1>7, <1>b, <1>c, CountedHandler DEF doFlushDNS
<1>8. CASE doWaitTAP \/ doWaitBootstrap
  <2>1. UNCHANGED tries /\ state \in {"WaitTAP", "WaitBootstrap"}
    BY <1>8 DEF doWaitTAP, doWaitBootstrap, PollVM
  <2>2. \/ OnError(net, "Transient")
        \/ state = "WaitTAP" /\ OnSuccess(net, "ConfigureTAP")
        \/ state = "WaitBootstrap" /\ OnSuccess(net, "Running")
    BY <1>8 DEF doWaitTAP, doWaitBootstrap, PollVM
  <2>3. ~ShouldRetry(state, "Transient", attempts[state])
    BY <1>c, <2>1 DEF ShouldRetry
  <2>4. attempts' = [attempts EXCEPT ![state] = 0] /\ Rank(state) < Rank(state')
    BY <1>b, <2>1, <2>2, <2>3, EndCounters
  <2> QED BY <1>a, <2>1, <2>4, UncountedStep
<1>9. CASE doRunning \/ doCleanup \/ doShutdownStop
  BY <1>9, <1>a, UncountedStep DEF doRunning, doCleanup, doShutdownStop, engineVars
<1>10. CASE doRunningWake
  BY <1>10, <1>a, <1>b, UncountedStep DEF doRunningWake, Transition
<1>11. CASE doShutdown \/ doShutdownDone \/ doRestoreNetwork
  <2>1. UNCHANGED tries
    BY <1>11 DEF doShutdown, doShutdownDone, doRestoreNetwork
  <2>2. \/ UNCHANGED <<state, attempts>>
        \/ \E n : OnSuccess(n, "RestoreNetwork")
        \/ \E n : OnSuccess(n, "Cleanup")
    BY <1>11 DEF doShutdown, doShutdownDone, doRestoreNetwork
  <2> QED BY <1>a, <1>b, <2>1, <2>2, EndCounters, UncountedStep
<1> QED
  BY <1>1, <1>2, <1>3, <1>4, <1>5, <1>6, <1>7, <1>8, <1>9, <1>10, <1>11 DEF EngineStep

\* No handler is called more often in the life of a controller than its policy
\* allows retries and once more.
THEOREM RetriesBounded == Spec => []RetryBound
<1>1. Init => RetryInv
  <2> SUFFICES ASSUME Init, NEW s \in Retryable
               PROVE  /\ tries[s] = 0 /\ attempts[s] = 0
                      /\ DefaultRetryPolicy[s] \in 2..3
    BY DEF RetryInv
  <2> QED BY RetryableFacts DEF Init
<1>2. TypeOK /\ TypeOK' /\ RetryInv /\ [Next]_vars => RetryInv'
  <2> SUFFICES ASSUME TypeOK, TypeOK', RetryInv, [Next]_vars PROVE RetryInv'
    OBVIOUS
  <2>1. CASE EngineStep
    BY <2>1, EngineStepRetry
  <2>2. CASE \/ QemuStep \/ QemuDies \/ Reaper \/ ContextWatcher
             \/ Cancel \/ Crash \/ UNCHANGED vars
    <3>1. UNCHANGED <<state, attempts, tries>> /\ state' \in States
      BY <2>2 DEF QemuStep, QemuDies, Reaper, ContextWatcher, Cancel, Crash, vars, engineVars, TypeOK
    <3> QED BY <3>1, UncountedStep
  <2>3. CASE Restart
    <3> SUFFICES ASSUME NEW s \in Retryable
                 PROVE  /\ tries'[s] = 0 /\ attempts'[s] = 0
                        /\ DefaultRetryPolicy[s] \in 2..3
      BY DEF RetryInv
    <3> QED BY <2>3, RetryableFacts DEF Restart, FreshEngine
  <2> QED BY <2>1, <2>2, <2>3 DEF Next
<1>3. RetryInv => RetryBound
  BY DEF RetryInv, RetryBound
<1> QED BY <1>1, <1>2, <1>3, TypeCorrect, PTL DEF Spec

-----------------------------------------------------------------------------
(* The engine implements EgressGuard *)

\* What the phases need of the engine: doRunning waits only in Running, Stop is
\* called only in Shutdown, and the systemd observer has closed its channel only
\* on the way down, so that no panic falls into a step that changes routes.
PhaseInv ==
    /\ pc = "wait" => state = "Running"
    /\ pc = "stop" => state = "Shutdown"
    /\ watchdogStop = "closed" => state \in ShutdownStates

\* The paths that packets can take are those of EgressGuard; a host that keeps
\* its own route and sends everything to the VM still does with more routes.
LEMMA EgressGrows ==
    ASSUME NEW n \in NetConfig
    PROVE  /\ Egress(n) \in {{}, {"vm"}, {"direct"}, {"vm", "direct"}}
           /\ n.routes = {"orig"} => Egress(n) = {"direct"}
           /\ \A m \in NetConfig :
                /\ TorMetric < OrigMetric /\ "orig" \in n.routes
                /\ n.routes \subseteq m.routes /\ Egress(n) = {"vm"}
                => Egress(m) = {"vm"}
<1>1. Egress(n) \in {{}, {"vm"}, {"direct"}, {"vm", "direct"}}
  BY DEF Egress, DefaultEgress
<1>2. n.routes = {"orig"} => Egress(n) = {"direct"}
  BY DEF Egress, DefaultEgress
<1>3. ASSUME NEW m \in NetConfig, TorMetric < OrigMetric, "orig" \in n.routes,
             n.routes \subseteq m.routes, Egress(n) = {"vm"}
      PROVE  Egress(m) = {"vm"}
  <2>1. {"low", "high"} \subseteq n.routes \/ "tor" \in n.routes
    BY <1>3 DEF Egress, DefaultEgress
  <2> QED BY <1>3, <2>1, EgressFacts
<1> QED BY <1>1, <1>2, <1>3

\* transition() does not panic but on the way down.
LEMMA TransitionPhase ==
    ASSUME TypeOK, PhaseInv, NEW s \in States, NEW p \in {"top", "body"}, Transition(s, p),
           state \in ShutdownStates => s \in ShutdownStates
    PROVE  /\ PhaseInv'
           /\ state' = s
           /\ \/ pc' = p /\ exit' = exit
              \/ pc' = "exited" /\ exit' = "panic" /\ state \in ShutdownStates
  BY DEF Transition, PhaseInv, TypeOK, ShutdownStates, States

\* The error path: the engine stays, or goes down without a panic.
LEMMA OnErrorPhase ==
    ASSUME TypeOK, PhaseInv, NEW n, NEW class, OnError(n, class),
           pc = "body", state \notin ShutdownStates
    PROVE  /\ PhaseInv'
           /\ exit' = exit
           /\ \/ pc' = "delay" /\ state' = state /\ net' = n
              \/ pc' = "top" /\ state' = "Shutdown"
<1>0. "Shutdown" \in States /\ "Shutdown" \in ShutdownStates
  BY DEF States, ShutdownStates
<1>1. CASE pc' = "delay" /\ net' = n /\ UNCHANGED <<state, failSafe, watchdogStop, exit>>
  BY <1>1 DEF PhaseInv
<1>2. CASE Transition("Shutdown", "top")
  BY <1>0, <1>2, TransitionPhase
<1> QED BY <1>1, <1>2 DEF OnError

\* The success path before Shutdown: the engine moves on without a panic.
LEMMA OnSuccessPhase ==
    ASSUME TypeOK, PhaseInv, NEW n, NEW s \in States, OnSuccess(n, s),
           state \in ShutdownStates => s \in ShutdownStates, s # "Shutdown"
    PROVE  PhaseInv' /\ exit' = exit /\ pc' = "top" /\ state' = s /\ net' = n
<1>1. Transition(s, "top") /\ net' = n
  BY DEF OnSuccess
<1>2. exit' = exit /\ pc' = "top"
  BY <1>1 DEF Transition
<1> QED BY <1>1, <1>2, TransitionPhase

\* Four shapes of a step of the engine that EgressGuard allows.  The engine is
\* starting and adds routes:
LEMMA GuardPrepares ==
    ASSUME TorMetric < OrigMetric, TeardownReliable, TypeOK, TypeOK', RouteInv,
           pc # "exited", pc' # "exited",
           state \notin ShutdownStates \cup {"Running"}, state' \notin ShutdownStates \cup {"Running"},
           net.routes \subseteq net'.routes
    PROVE  Guard!Prepare
<1>1. Phase = "starting" /\ Phase' = "starting"
  BY DEF Phase
<1>2. Egress(net') \in {{}, {"vm"}, {"direct"}, {"vm", "direct"}}
  BY EgressGrows DEF TypeOK
<1>3. Egress(net) = {"vm"} => Egress(net') = {"vm"}
  BY EgressGrows DEF TypeOK, RouteInv
<1> QED BY <1>1, <1>2, <1>3 DEF Guard!Prepare, Guard!Paths, Guard!Torified

\* it goes down, or goes on going down:
LEMMA GuardGoesDown ==
    ASSUME TypeOK, TypeOK', pc # "exited", pc' # "exited", state' \in ShutdownStates
    PROVE  Guard!GoDown
<1>1. Phase \in {"starting", "up", "ending"}
  BY DEF Phase
<1>2. Phase' = "ending"
  BY DEF Phase, ShutdownStates
<1>3. Egress(net') \in {{}, {"vm"}, {"direct"}, {"vm", "direct"}}
  BY EgressGrows DEF TypeOK
<1> QED BY <1>1, <1>2, <1>3 DEF Guard!GoDown, Guard!Paths

\* it ends otherwise than in order, and touches no route:
LEMMA GuardDies ==
    ASSUME pc # "exited", pc' = "exited", exit' # "ok", UNCHANGED net
    PROVE  Guard!Die
<1>1. Phase \in {"starting", "up", "ending"} /\ Phase' = "dead"
  BY DEF Phase
<1> QED BY <1>1 DEF Guard!Die

\* or nothing that EgressGuard sees happens:
LEMMA GuardStutters ==
    ASSUME UNCHANGED <<net, state>>,
           \/ UNCHANGED <<pc, exit>>
           \/ pc # "exited" /\ pc' # "exited"
    PROVE  UNCHANGED <<Phase, Egress(net)>>
  BY DEF Phase

\* Every step of the engine is a step of EgressGuard, or none.
LEMMA EngineStepGuard ==
    ASSUME TorMetric < OrigMetric, TeardownReliable,
           TypeOK, TypeOK', RouteInv, RouteInv', PhaseInv, EngineStep
    PROVE  PhaseInv' /\ [Guard!Next]_<<Phase, Egress(net)>>
<1> USE DEF At
<1>a. net \in NetConfig /\ net' \in NetConfig
  BY DEF TypeOK
<1>b. {"CheckPrivileges", "SaveNetwork", "CreateTAP", "LaunchVM", "WaitTAP", "ConfigureTAP",
       "FlushDNS", "WaitBootstrap", "Running", "Shutdown", "RestoreNetwork", "Cleanup"}
        \subseteq States
  BY DEF States
<1>c. /\ Guard!Prepare => Guard!Next
      /\ Guard!ComeUp => Guard!Next
      /\ Guard!GoDown => Guard!Next
      /\ Guard!End => Guard!Next
      /\ Guard!Die => Guard!Next
  BY DEF Guard!Next
<1>d. ASSUME NEW s \in States \ (ShutdownStates \cup {"Running"}), OnSuccess(net, s), pc = "body",
             state \notin ShutdownStates \cup {"Running"}
      PROVE  PhaseInv' /\ Guard!Next
  <2>1. PhaseInv' /\ pc' = "top" /\ state' = s /\ net' = net
    BY <1>d, OnSuccessPhase DEF ShutdownStates
  <2> QED BY <1>a, <1>c, <1>d, <2>1, GuardPrepares
<1>e. ASSUME NEW n \in NetConfig, NEW class, OnError(n, class), net.routes \subseteq n.routes,
             pc = "body", state \notin ShutdownStates \cup {"Running"}
      PROVE  PhaseInv' /\ Guard!Next
  <2>1. /\ PhaseInv'
        /\ \/ pc' = "delay" /\ state' = state /\ net' = n
           \/ pc' = "top" /\ state' = "Shutdown"
    BY <1>e, OnErrorPhase
  <2>2. CASE pc' = "delay" /\ state' = state /\ net' = n
    BY <1>c, <1>e, <2>1, <2>2, GuardPrepares
  <2>3. CASE pc' = "top" /\ state' = "Shutdown"
    BY <1>c, <1>e, <2>1, <2>3, GuardGoesDown DEF ShutdownStates
  <2> QED BY <2>1, <2>2, <2>3
<1>1. CASE RunTop \/ RunDelay
  <2>1. UNCHANGED net /\ pc \in {"top", "delay"}
    BY <1>1 DEF RunTop, RunDelay
  <2>2. CASE pc' \in {"top", "body"} /\ UNCHANGED <<state, attempts, watchdogStop, exit>>
    <3>1. PhaseInv'
      BY <2>2 DEF PhaseInv
    <3> QED BY <2>1, <2>2, <3>1, GuardStutters
  <2>3. CASE Transition("Shutdown", "body") \/ Transition("Shutdown", "top")
    <3>1. /\ PhaseInv' /\ state' = "Shutdown"
          /\ \/ pc' \in {"top", "body"}
             \/ pc' = "exited" /\ exit' = "panic"
      BY <1>b, <2>3, TransitionPhase DEF ShutdownStates
    <3>2. CASE pc' \in {"top", "body"}
      BY <1>c, <2>1, <3>1, <3>2, GuardGoesDown DEF ShutdownStates
    <3>3. CASE pc' = "exited" /\ exit' = "panic"
      BY <1>c, <2>1, <3>1, <3>3, GuardDies
    <3> QED BY <3>1, <3>2, <3>3
  <2> QED BY <1>1, <2>2, <2>3 DEF RunTop, RunDelay
<1>2. CASE Init0
  BY <1>2, <1>b, <1>d DEF Init0, ShutdownStates
<1>3. CASE checkPrivileges
  <2>1. CASE OnSuccess(net, "SaveNetwork")
    BY <1>3, <1>b, <1>d, <2>1 DEF checkPrivileges, ShutdownStates
  <2>2. CASE /\ pc' = "exited" /\ exit' = "err"
             /\ UNCHANGED <<net, state, attempts, failSafe, watchdogStop>>
    <3>1. PhaseInv'
      BY <2>2 DEF PhaseInv
    <3> QED BY <1>3, <1>c, <2>2, <3>1, GuardDies DEF checkPrivileges
  <2> QED BY <1>3, <2>1, <2>2 DEF checkPrivileges
<1>4. CASE doSaveNetwork
  <2>1. pc = "body" /\ state \notin ShutdownStates \cup {"Running"}
    BY <1>4 DEF doSaveNetwork, ShutdownStates
  <2>2. OnSuccess(net, "CreateTAP") \/ \E class \in ErrorClass : OnError(net, class)
    BY <1>4 DEF doSaveNetwork
  <2> QED BY <1>a, <1>b, <1>d, <1>e, <2>1, <2>2 DEF ShutdownStates
<1>5. CASE doCreateTAP
  <2>1. pc = "body" /\ state \notin ShutdownStates \cup {"Running"}
    BY <1>5 DEF doCreateTAP, ShutdownStates
  <2>2. PICK r \in CreateTAP(net) :
          OnSuccess(r.net, "LaunchVM") \/ \E class \in ErrorClass : OnError(r.net, class)
    BY <1>5 DEF doCreateTAP
  <2>3. r.net \in NetConfig /\ net.routes \subseteq r.net.routes
    BY <1>a, CreateTAPFacts
  <2>4. CASE OnSuccess(r.net, "LaunchVM")
    <3>1. PhaseInv' /\ pc' = "top" /\ state' = "LaunchVM" /\ net' = r.net
      BY <1>b, <2>1, <2>4, OnSuccessPhase DEF ShutdownStates
    <3> QED BY <1>c, <2>1, <2>3, <3>1, GuardPrepares DEF ShutdownStates
  <2> QED BY <1>e, <2>1, <2>2, <2>3, <2>4
<1>6. CASE doLaunchVM
  <2>1. pc = "body" /\ state \notin ShutdownStates \cup {"Running"}
    BY <1>6 DEF doLaunchVM, ShutdownStates
  <2>2. OnSuccess(net, "WaitTAP") \/ \E class : OnError(net, class)
    BY <1>6 DEF doLaunchVM
  <2> QED BY <1>a, <1>b, <1>d, <1>e, <2>1, <2>2 DEF ShutdownStates
<1>7. CASE doWaitTAP
  <2>1. pc = "body" /\ state \notin ShutdownStates \cup {"Running"}
    BY <1>7 DEF doWaitTAP, PollVM, ShutdownStates
  <2>2. OnSuccess(net, "ConfigureTAP") \/ OnError(net, "Transient")
    BY <1>7 DEF doWaitTAP, PollVM
  <2> QED BY <1>a, <1>b, <1>d, <1>e, <2>1, <2>2 DEF ShutdownStates
<1>8. CASE doConfigureTAP
  <2>1. pc = "body" /\ state \notin ShutdownStates \cup {"Running"}
    BY <1>8 DEF doConfigureTAP, ShutdownStates
  <2>2. PICK r \in SetupRouting(net) :
          OnSuccess(r.net, "FlushDNS") \/ \E class \in ErrorClass : OnError(r.net, class)
    BY <1>8 DEF doConfigureTAP
  <2>3. r.net \in NetConfig /\ net.routes \subseteq r.net.routes
    BY <1>a, SetupRoutingFacts
  <2>4. CASE OnSuccess(r.net, "FlushDNS")
    <3>1. PhaseInv' /\ pc' = "top" /\ state' = "FlushDNS" /\ net' = r.net
      BY <1>b, <2>1, <2>4, OnSuccessPhase DEF ShutdownStates
    <3> QED BY <1>c, <2>1, <2>3, <3>1, GuardPrepares DEF ShutdownStates
  <2> QED BY <1>e, <2>1, <2>2, <2>3, <2>4
<1>9. CASE doFlushDNS
  <2>1. pc = "body" /\ state = "FlushDNS" /\ OnSuccess(net, "WaitBootstrap")
    BY <1>9 DEF doFlushDNS
  <2> QED BY <1>b, <1>d, <2>1 DEF ShutdownStates
<1>10. CASE doWaitBootstrap
  <2>1. pc = "body" /\ state = "WaitBootstrap"
    BY <1>10 DEF doWaitBootstrap, PollVM
  <2>2. CASE OnSuccess(net, "Running")
    <3>1. PhaseInv' /\ pc' = "top" /\ state' = "Running" /\ net' = net
      BY <1>b, <2>1, <2>2, OnSuccessPhase DEF ShutdownStates
    <3>2. Egress(net') = {"vm"}
      BY <1>a, <3>1, EgressFacts, PlatformAssumption DEF RouteInv, DivertedStates, PreparedStates
    <3>3. Phase = "starting" /\ Phase' = "up"
      BY <2>1, <3>1 DEF Phase, ShutdownStates
    <3>4. Guard!ComeUp
      BY <3>1, <3>2, <3>3 DEF Guard!ComeUp, Guard!Torified
    <3> QED BY <1>c, <3>1, <3>4
  <2>3. CASE OnError(net, "Transient")
    BY <1>a, <1>e, <2>1, <2>3 DEF ShutdownStates
  <2> QED BY <1>10, <2>2, <2>3 DEF doWaitBootstrap, PollVM
<1>11. CASE doRunning
  <2>1. PhaseInv'
    BY <1>11 DEF doRunning, PhaseInv
  <2> QED BY <1>11, <2>1, GuardStutters DEF doRunning
<1>12. CASE doRunningWake
  <2>1. pc = "wait" /\ state = "Running" /\ Transition("Shutdown", "top")
    BY <1>12 DEF doRunningWake, PhaseInv
  <2>2. PhaseInv' /\ state' = "Shutdown" /\ pc' = "top"
    BY <1>b, <2>1, TransitionPhase DEF ShutdownStates
  <2> QED BY <1>c, <2>1, <2>2, GuardGoesDown DEF ShutdownStates
<1>13. CASE doShutdown \/ doShutdownDone \/ doRestoreNetwork
  <2>1. /\ pc \in {"body", "stop"} /\ state \in ShutdownStates
        /\ \/ pc' = "stop" /\ state = "Shutdown" /\ UNCHANGED <<net, state, watchdogStop, exit>>
           \/ \E n : OnSuccess(n, "RestoreNetwork") \/ OnSuccess(n, "Cleanup")
    BY <1>13 DEF doShutdown, doShutdownDone, doRestoreNetwork, PhaseInv, ShutdownStates
  <2>2. CASE pc' = "stop" /\ state = "Shutdown" /\ UNCHANGED <<net, state, watchdogStop, exit>>
    <3>1. PhaseInv'
      BY <2>2 DEF PhaseInv
    <3> QED BY <2>1, <2>2, <3>1, GuardStutters
  <2>3. CASE \E n : OnSuccess(n, "RestoreNetwork") \/ OnSuccess(n, "Cleanup")
    <3>1. PhaseInv' /\ pc' = "top" /\ state' \in {"RestoreNetwork", "Cleanup"}
      BY <1>b, <2>3, OnSuccessPhase DEF ShutdownStates
    <3> QED BY <1>c, <2>1, <3>1, GuardGoesDown DEF ShutdownStates
  <2> QED BY <2>1, <2>2, <2>3
<1>14. CASE doShutdownStop
  <2>1. PhaseInv'
    BY <1>14 DEF doShutdownStop, engineVars, PhaseInv
  <2> QED BY <1>14, <2>1, GuardStutters DEF doShutdownStop, engineVars
<1>15. CASE doCleanup
  <2>1. /\ pc = "body" /\ state = "Cleanup" /\ pc' = "exited" /\ exit' = "ok"
        /\ UNCHANGED <<net, state, watchdogStop>>
    BY <1>15 DEF doCleanup
  <2>2. PhaseInv'
    BY <2>1 DEF PhaseInv
  <2>3. Phase = "ending" /\ Phase' = "ended"
    BY <2>1 DEF Phase, ShutdownStates
  <2>4. Egress(net) = {"direct"}
    BY <1>a, <2>1, EgressGrows DEF RouteInv
  <2>5. Guard!End
    BY <2>1, <2>3, <2>4 DEF Guard!End
  <2> QED BY <1>c, <2>2, <2>5
<1> QED
  BY <1>1, <1>2, <1>3, <1>4, <1>5, <1>6, <1>7, <1>8, <1>9, <1>10, <1>11, <1>12, <1>13, <1>14, <1>15
     DEF EngineStep

\* The engine, its retries, failsafe, crashes and restarts implement EgressGuard,
\* where the commands of TeardownRouting work and the host's own default route
\* has a larger metric than TorVM's.
THEOREM EngineGuardsEgress ==
    TorMetric < OrigMetric /\ TeardownReliable => (Spec => GuardsEgress)
<1> SUFFICES ASSUME TorMetric < OrigMetric, TeardownReliable PROVE Spec => GuardsEgress
  OBVIOUS
<1>1. Init => PhaseInv /\ Guard!Init
  <2> SUFFICES ASSUME Init PROVE PhaseInv /\ Guard!Init
    OBVIOUS
  <2>1. PhaseInv
    BY DEF Init, PhaseInv
  <2>2. Phase = "starting"
    BY DEF Init, Phase, ShutdownStates
  <2>3. Egress(net) = {"direct"}
    BY HostBeforeFacts, EgressGrows DEF Init
  <2> QED BY <2>1, <2>2, <2>3 DEF Guard!Init
<1>2. /\ TypeOK /\ TypeOK' /\ RouteInv /\ RouteInv' /\ PhaseInv /\ [Next]_vars
      => PhaseInv' /\ [Guard!Next]_<<Phase, Egress(net)>>
  <2> SUFFICES ASSUME TypeOK, TypeOK', RouteInv, RouteInv', PhaseInv, [Next]_vars
               PROVE  PhaseInv' /\ [Guard!Next]_<<Phase, Egress(net)>>
    OBVIOUS
  <2>1. CASE EngineStep
    BY <2>1, EngineStepGuard
  <2>2. CASE QemuStep \/ QemuDies \/ Reaper \/ ContextWatcher \/ Cancel \/ UNCHANGED vars
    <3>1. UNCHANGED <<net, state, pc, exit, watchdogStop>>
      BY <2>2 DEF QemuStep, QemuDies, Reaper, ContextWatcher, Cancel, vars, engineVars
    <3>2. PhaseInv'
      BY <3>1 DEF PhaseInv
    <3> QED BY <3>1, <3>2, GuardStutters
  <2>3. CASE Crash
    <3>1. PhaseInv'
      BY <2>3 DEF Crash, PhaseInv
    <3>2. Guard!Die
      BY <2>3, GuardDies DEF Crash
    <3> QED BY <3>1, <3>2 DEF Guard!Next
  <2>4. CASE Restart
    <3>1. /\ pc = "exited" /\ pc' = "top" /\ state' = "Init" /\ watchdogStop' = "open"
          /\ UNCHANGED net
      BY <2>4 DEF Restart, FreshEngine
    <3>2. PhaseInv'
      BY <3>1 DEF PhaseInv
    <3>3. Phase \in {"ended", "dead"} /\ Phase' = "starting"
      BY <3>1 DEF Phase, ShutdownStates
    <3>4. Guard!StartAgain
      BY <3>1, <3>3 DEF Guard!StartAgain
    <3> QED BY <3>2, <3>4 DEF Guard!Next
  <2> QED BY <2>1, <2>2, <2>3, <2>4 DEF Next
<1> QED
  BY <1>1, <1>2, TypeCorrect, RoutesInvariant, PTL DEF Spec, GuardsEgress, Guard!Spec

=============================================================================
