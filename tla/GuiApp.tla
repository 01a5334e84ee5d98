------------------------------- MODULE GuiApp --------------------------------
(***************************************************************************)
(* gui.App: the Start, Stop and Quit of the Status tab and of the tray     *)
(* (app.go, systray.go) over an engine whose Run they begin in a goroutine *)
(* of its own.  Stop forgets the cancel function before the Run it cancels *)
(* has returned, so that a second Run can begin while the first still      *)
(* moves the same engine: e.state, the VM and its result are shared.       *)
(*                                                                         *)
(* The engine is the one of Lifecycle, reduced to what Runs can do to      *)
(* each other: which handler each of them is in, and the VM.  In service   *)
(* mode Start and Stop go to launchd instead, on every platform.           *)
(***************************************************************************)
EXTENDS ServiceTab

CONSTANTS
    Runs,   \* bound: the Runs that startVM may begin
    NoRun   \* a.cancel is nil

VARIABLES
    state,      \* e.state
    pc,         \* of each Run: "unborn", the "top" of its loop, its "switch", the handler
                \* it is in, its "transition", "returned", or "done" when startVM's
                \* goroutine has its result
    next,       \* of each Run: the argument of the transition it is about to make, or "Init"
    cancelled,  \* the Runs whose context is cancelled
    cancel,     \* a.cancel: the Run it would cancel, or NoRun
    proc,       \* the QEMU process: "none", "up" or "killed"
    owner,      \* the Run whose context exec.CommandContext ties the process to
    result,     \* inst.waitErr holds the result of a process
    asked       \* history: what the last click that reached the engine asked for, and
                \* could hope for

appVars == <<state, pc, next, cancelled, cancel, proc, owner, result, asked>>

\* The handlers that succeed into the next state or fail; the states between
\* CheckPrivileges and LaunchVM, and those from WaitTAP to WaitBootstrap, are one
\* each here, since nothing that two Runs share tells them apart.
Following == [SaveNetwork |-> "LaunchVM", WaitBootstrap |-> "Running"]

States == {"Init", "CheckPrivileges", "LaunchVM", "Running", "Shutdown",
           "RestoreNetwork", "Cleanup"} \cup DOMAIN Following

-----------------------------------------------------------------------------
(* The user *)

\* startVM and stopVM in service mode.  The platform's launchd package answers:
\* a stub that fails everywhere but on macOS.
serviceModeCall(outcomes) ==
    /\ Click
    /\ serviceMode
    /\ \E r \in IF os = "darwin" THEN outcomes ELSE {Fail(svc)} : svc' = r.svc
    /\ UNCHANGED <<view, serviceMode, appVars>>

\* A Run that has not begun; which one makes no difference.
NextRun == CHOOSE r \in Runs : pc[r] = "unborn"

startVM ==
    /\ ~quit
    /\ ~serviceMode
    /\ cancel = NoRun
    /\ \E r \in Runs : pc[r] = "unborn"
    /\ cancel' = NextRun
    /\ pc' = [pc EXCEPT ![NextRun] = "top"]
    /\ asked' = "start"
    /\ UNCHANGED <<serviceVars, state, next, cancelled, proc, owner, result>>

\* The Runs that have not returned.
Going == {r \in Runs : pc[r] \notin {"unborn", "returned", "done"}}

\* Each of them, and the VM, belongs to a context that is or can be cancelled.
Stoppable ==
    /\ Going \subseteq cancelled \cup {cancel}
    /\ proc = "up" => owner \in cancelled \cup {cancel}

\* Mutant: stopVM forgets the cancel function without calling it.
MutStopVM ==
    /\ ~quit
    /\ ~serviceMode
    /\ cancel # NoRun
    /\ cancel' = NoRun
    /\ asked' = IF Stoppable THEN "stop" ELSE "nothing"
    /\ UNCHANGED <<serviceVars, state, pc, next, cancelled, proc, owner, result>>

stopVM ==
    /\ ~quit
    /\ ~serviceMode
    /\ cancel # NoRun
    /\ cancelled' = cancelled \cup {cancel}
    /\ cancel' = NoRun
    /\ asked' = IF Stoppable THEN "stop" ELSE "nothing"
    /\ UNCHANGED <<serviceVars, state, pc, next, proc, owner, result>>

\* Quit cancels the Run, if it still can, and does not wait for it.
doQuit ==
    /\ ~quit
    /\ quit' = TRUE
    /\ cancelled' = IF cancel = NoRun THEN cancelled ELSE cancelled \cup {cancel}
    /\ UNCHANGED <<os, svc, view, poll, statusPoll, serviceMode, clicks,
                   state, pc, next, cancel, proc, owner, result, asked>>

\* The goroutine of startVM receives what Run returned.
completion(r) ==
    /\ pc[r] = "returned"
    /\ pc' = [pc EXCEPT ![r] = "done"]
    /\ cancel' = NoRun
    /\ UNCHANGED <<serviceVars, state, next, cancelled, proc, owner, result, asked>>

-----------------------------------------------------------------------------
(* Engine.Run, by several goroutines *)

Goto(r, place) == pc' = [pc EXCEPT ![r] = place]

\* ctx.Err(), at the top of every iteration.
runTop(r) ==
    /\ pc[r] = "top"
    /\ Goto(r, "switch")
    /\ state' = IF r \in cancelled THEN "Shutdown" ELSE state
    /\ UNCHANGED <<next, proc, owner, result>>

runSwitch(r) ==
    /\ pc[r] = "switch"
    /\ Goto(r, state)
    /\ UNCHANGED <<state, next, proc, owner, result>>

\* e.state changes only after what the handler has done.
transition(r) ==
    /\ pc[r] = "transition"
    /\ state' = next[r]
    /\ next' = [next EXCEPT ![r] = "Init"]
    /\ Goto(r, "top")
    /\ UNCHANGED <<proc, owner, result>>

\* How a handler ends: in a transition, by returning from Run, or in an error,
\* which is retried in whatever state the engine is or ends in Shutdown.
EndsIn(r, s) == next' = [next EXCEPT ![r] = s] /\ Goto(r, "transition")
Return(r) == Goto(r, "returned") /\ UNCHANGED next
OnError(r) == EndsIn(r, "Shutdown") \/ (Goto(r, "top") /\ UNCHANGED next)

init(r) == pc[r] = "Init" /\ EndsIn(r, "CheckPrivileges") /\ UNCHANGED <<state, proc, owner, result>>

checkPrivileges(r) ==
    /\ pc[r] = "CheckPrivileges"
    /\ EndsIn(r, "SaveNetwork") \/ (os # "windows" /\ Return(r))
    /\ UNCHANGED <<state, proc, owner, result>>

doLaunchVM(r) ==
    /\ pc[r] = "LaunchVM"
    /\ \/ /\ r \notin cancelled
          /\ proc = "none"
          /\ proc' = "up"
          /\ owner' = r
          /\ result' = FALSE
          /\ EndsIn(r, "WaitBootstrap")
       \/ OnError(r) /\ UNCHANGED <<proc, owner>> /\ result' \in {result, FALSE}
    /\ UNCHANGED state

otherHandler(r) ==
    /\ pc[r] \in DOMAIN Following
    /\ \/ /\ pc[r] # "SaveNetwork" => proc = "up" /\ r \notin cancelled
          /\ EndsIn(r, Following[pc[r]])
       \/ OnError(r)
    /\ UNCHANGED <<state, proc, owner, result>>

\* Only one of the Runs that wait for the VM receives its result.
doRunning(r) ==
    /\ pc[r] = "Running"
    /\ \/ result /\ result' = FALSE
       \/ r \in cancelled /\ UNCHANGED result
    /\ EndsIn(r, "Shutdown")
    /\ UNCHANGED <<state, proc, owner>>

\* VM.Stop returns when the process has gone or has been killed.
doShutdown(r) ==
    /\ pc[r] = "Shutdown"
    /\ \/ proc = "none" /\ UNCHANGED <<proc, result>>
       \/ proc # "none" /\ proc' = "none" /\ result' = FALSE
       \/ proc # "none" /\ proc' = "killed" /\ UNCHANGED result
    /\ EndsIn(r, "RestoreNetwork")
    /\ UNCHANGED <<state, owner>>

doRestoreNetwork(r) ==
    /\ pc[r] = "RestoreNetwork"
    /\ EndsIn(r, "Cleanup")
    /\ UNCHANGED <<state, proc, owner, result>>

doCleanup(r) == pc[r] = "Cleanup" /\ Return(r) /\ UNCHANGED <<state, proc, owner, result>>

run(r) ==
    /\ \/ runTop(r) \/ runSwitch(r) \/ transition(r) \/ init(r) \/ checkPrivileges(r) \/ doLaunchVM(r)
       \/ otherHandler(r) \/ doRunning(r) \/ doShutdown(r) \/ doRestoreNetwork(r) \/ doCleanup(r)
    /\ UNCHANGED <<serviceVars, cancelled, cancel, asked>>

\* The process ends, on its own or because it was killed; its goroutine
\* delivers the result.
vmExits ==
    /\ proc' = "none"
    /\ result' = TRUE
    /\ UNCHANGED <<serviceVars, state, pc, next, cancelled, cancel, owner, asked>>

guestExits == proc = "up" /\ vmExits
killedExits == proc = "killed" /\ vmExits

contextKill ==
    /\ proc = "up"
    /\ owner \in cancelled
    /\ proc' = "killed"
    /\ UNCHANGED <<serviceVars, state, pc, next, cancelled, cancel, owner, result, asked>>

-----------------------------------------------------------------------------

AppInit ==
    /\ state = "Init"
    /\ pc = [r \in Runs |-> "unborn"]
    /\ next = [r \in Runs |-> "Init"]
    /\ cancelled = {}
    /\ cancel = NoRun
    /\ proc = "none"
    /\ owner = NoRun
    /\ result = FALSE
    /\ asked = "nothing"

AppClick == startVM \/ stopVM \/ doQuit

AppStep ==
    \/ \E r \in Runs : run(r) \/ completion(r)
    \/ guestExits \/ killedExits \/ contextKill

AppFairness ==
    /\ \A r \in Runs : WF_appVars(run(r)) /\ WF_appVars(completion(r))
    /\ WF_appVars(killedExits)
    /\ WF_appVars(contextKill)

AppTypeOK ==
    /\ state \in States
    /\ pc \in [Runs -> States \cup {"unborn", "top", "switch", "transition", "returned", "done"}]
    /\ next \in [Runs -> States]
    /\ cancelled \subseteq Runs
    /\ cancel \in Runs \cup {NoRun}
    /\ proc \in {"none", "up", "killed"}
    /\ owner \in Runs \cup {NoRun}
    /\ result \in BOOLEAN
    /\ asked \in {"nothing", "start", "stop"}

-----------------------------------------------------------------------------
(* Properties *)

\* A Stop ends the VM, whatever earlier Runs that Stop has cancelled and forgotten
\* still do to the engine, unless Start or Quit follows: provided that, at the
\* click, every Run that goes on, and the VM, belonged to a context that was
\* cancelled or that a.cancel could cancel (app.go:196).
StopEndsVM == asked = "stop" ~> (proc = "none" \/ asked # "stop" \/ quit)

-----------------------------------------------------------------------------
(* What the buttons do not ensure *)

\* A VM that nobody has asked to stop is one that Stop can reach: "stopVM
\* signals the lifecycle engine to shut down" (app.go:185).  A Start soon after
\* a Stop lets two Runs move the engine; the first can return and take the
\* cancel function of the second with it, or both can return over the VM.
VMCanBeStopped == proc = "up" /\ owner \notin cancelled => cancel # NoRun
=============================================================================
