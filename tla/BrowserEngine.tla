---------------------------- MODULE BrowserEngine ----------------------------
(***************************************************************************)
(* lifecycle.BrowserEngine (controller/internal/lifecycle/browser.go) with *)
(* the vm.BrowserInstance and the secwatch.Monitor it owns, and the GUI    *)
(* and the Tor engine's observer that start and stop it.                   *)
(*                                                                         *)
(* Goroutines run the code: one per call of BrowserEngine.Start (run), one *)
(* per call of Monitor.Start (readLoop, which also executes                *)
(* handleCompromise), and one per QEMU process (the reaper of              *)
(* BrowserInstance.Start).  Processes are numbered, and so are the         *)
(* channels waitErr: Start number g makes channel g, the first one is 0.   *)
(***************************************************************************)
EXTENDS Integers, Sequences

CONSTANTS
    Runs,           \* bound: the goroutines of run
    Loops,          \* bound: the goroutines of readLoop
    AutoRemediate,  \* Config.Browser.AutoRemediate
    AutoStart,      \* Config.Browser.AutoStart
    MayStop,        \* whether the user presses Stop, and Tor may shut down
    MayDie,         \* whether a browser VM may exit by itself
    MayFail,        \* whether Start may fail for want of an image or of QEMU
    MaxProcs,       \* bound: QEMU processes
    MaxEvents       \* bound: critical events that secwatchd reports of a process

NoRun == "none"

ASSUME BrowserAssumption ==
    /\ Runs \cap Loops = {} /\ NoRun \notin Runs
    /\ {AutoRemediate, AutoStart, MayStop, MayDie, MayFail} \subseteq BOOLEAN
    /\ MaxProcs \in Nat /\ MaxEvents \in Nat

Threads == Runs \cup Loops
Procs   == 1..MaxProcs

VARIABLES
    tor,       \* the Tor engine: "starting", "Running", "ended"
    state,     \* b.state
    cancel,    \* b.cancel: the run it belongs to
    ctxDone,   \* per run: its context is cancelled
    pc,        \* per goroutine: where it is
    ch,        \* per goroutine: the channel it listens to
    link,      \* per readLoop: the process it is connected to
    obs,       \* SecMonitor.observers: the runs whose context handleCompromise gets
    idx,       \* per reader: the observer it is calling
    monDone,   \* SecMonitor.done is closed
    gen,       \* number of the process b.process and of the channel b.waitErr
    proc,      \* per process: "none", "up", "dead"
    owner,     \* per process: the run whose context it was started with
    killed,    \* per process: Process.Kill was called and has not taken effect
    running,   \* b.running
    reaper,    \* per process: its goroutine: "idle", "wait", "send", "sending"
    target,    \* per process: the channel its goroutine sends to
    chan,      \* per channel: how many results it holds
    reported   \* per process: how many critical events were reported of it

engineVars == <<state, cancel, ctxDone, obs, idx, monDone>>
vmVars     == <<gen, proc, owner, killed, running, reaper, target, chan>>
vars       == <<tor, engineVars, vmVars, pc, ch, link, reported>>

Alive == gen > 0 /\ proc[gen] = "up"

Goto(t, p) == pc' = [pc EXCEPT ![t] = p]

\* Go on, and stop listening.
Leave(t, p) ==
    /\ Goto(t, p)
    /\ ch' = [ch EXCEPT ![t] = 0]

-----------------------------------------------------------------------------
(* BrowserInstance *)

\* Mutant: the test of running is missing.
MutStartOK(r) == ~ctxDone[r]

\* Start can succeed; exec refuses a context that is done.
StartOK(r) == ~running /\ ~ctxDone[r]

StartFails(r) == MayFail \/ ~StartOK(r)

StartVM(r) ==
    /\ StartOK(r)
    /\ gen < MaxProcs
    /\ gen' = gen + 1
    /\ proc' = [proc EXCEPT ![gen + 1] = "up"]
    /\ owner' = [owner EXCEPT ![gen + 1] = r]
    /\ running' = TRUE
    /\ reaper' = [reaper EXCEPT ![gen + 1] = "wait"]
    /\ UNCHANGED <<killed, target, chan>>

\* The guest powers off, by itself or because Stop asked for it through QMP.
GuestExit(g) ==
    /\ proc[g] = "up"
    /\ MayDie \/ \E t \in Threads : pc[t] = "stopw"
    /\ proc' = [proc EXCEPT ![g] = "dead"]
    /\ killed' = [killed EXCEPT ![g] = FALSE]
    /\ UNCHANGED <<tor, engineVars, gen, owner, running, reaper, target, chan, pc, ch,
                   link, reported>>

\* A kill takes effect: of Stop's fallback, or of exec.CommandContext.
KilledExit(g) ==
    /\ proc[g] = "up"
    /\ killed[g] \/ ctxDone[owner[g]]
    /\ proc' = [proc EXCEPT ![g] = "dead"]
    /\ killed' = [killed EXCEPT ![g] = FALSE]
    /\ UNCHANGED <<tor, engineVars, gen, owner, running, reaper, target, chan, pc, ch,
                   link, reported>>

Reap(g) ==
    /\ reaper[g] = "wait"
    /\ proc[g] = "dead"
    /\ running' = FALSE
    /\ reaper' = [reaper EXCEPT ![g] = "send"]
    /\ UNCHANGED <<tor, engineVars, gen, proc, owner, killed, target, chan, pc, ch, link,
                   reported>>

\* The result goes to the channel that b.waitErr is by now, which is not that
\* of process g if Start was called after Reap.
Send(g) ==
    /\ reaper[g] = "send"
    /\ reaper' = [reaper EXCEPT ![g] = "sending"]
    /\ target' = [target EXCEPT ![g] = gen]
    /\ UNCHANGED <<tor, engineVars, gen, proc, owner, killed, running, chan, pc, ch, link,
                   reported>>

\* The send, which blocks while the channel holds a result.
Deliver(g) ==
    /\ reaper[g] = "sending"
    /\ chan[target[g]] = 0
    /\ chan' = [chan EXCEPT ![target[g]] = 1]
    /\ reaper' = [reaper EXCEPT ![g] = "idle"]
    /\ target' = [target EXCEPT ![g] = 0]
    /\ UNCHANGED <<tor, engineVars, gen, proc, owner, killed, running, pc, ch, link, reported>>

Reaper(g) == Reap(g) \/ Send(g) \/ Deliver(g)

\* Stop, as run and handleCompromise call it, after their test of IsRunning.
AfterStop(t) == IF t \in Runs THEN "finish" ELSE "delay"

StopCheck(t) ==
    /\ pc[t] = "stopchk"
    /\ Goto(t, IF running THEN "stopq" ELSE AfterStop(t))
    /\ UNCHANGED <<tor, engineVars, vmVars, ch, link, reported>>

\* The QMP powerdown, after which the channel of the select is determined.
StopPowerdown(t) ==
    /\ pc[t] = "stopq"
    /\ Goto(t, "stopw")
    /\ ch' = [ch EXCEPT ![t] = gen]
    /\ UNCHANGED <<tor, engineVars, vmVars, link, reported>>

StopExited(t) ==
    /\ pc[t] = "stopw"
    /\ chan[ch[t]] = 1
    /\ chan' = [chan EXCEPT ![ch[t]] = 0]
    /\ Leave(t, AfterStop(t))
    /\ UNCHANGED <<tor, engineVars, gen, proc, owner, killed, running, reaper, target,
                   link, reported>>

\* The fallback kills whatever process b.process is by now.
StopKill(t) ==
    /\ pc[t] = "stopw"
    /\ killed' = [killed EXCEPT ![gen] = Alive]
    /\ Leave(t, AfterStop(t))
    /\ UNCHANGED <<tor, engineVars, gen, proc, owner, running, reaper, target, chan, link,
                   reported>>

Stop(t) == StopCheck(t) \/ StopPowerdown(t) \/ StopExited(t) \/ StopKill(t)

-----------------------------------------------------------------------------
(* run *)

\* A goroutine for run: the GUI's Launch button wants Idle and a Tor that runs.
Launch(r) ==
    /\ pc[r] = "none"
    /\ state = "Idle"
    /\ tor = "Running"
    /\ Goto(r, "enter")
    /\ UNCHANGED <<tor, engineVars, vmVars, ch, link, reported>>

RunEnter(r) ==
    /\ pc[r] = "enter"
    /\ cancel' = r
    /\ IF tor = "Running"
         THEN state' = state /\ Goto(r, "starting")
         ELSE state' = "WaitingForTor" /\ Goto(r, "poll")
    /\ UNCHANGED <<tor, ctxDone, obs, idx, monDone, vmVars, ch, link, reported>>

\* A run that is cancelled here leaves the state at WaitingForTor.
RunPoll(r) ==
    /\ pc[r] = "poll"
    /\ \/ tor = "Running" /\ Goto(r, "starting")
       \/ tor # "Running" /\ ctxDone[r] /\ Goto(r, "done")
    /\ UNCHANGED <<tor, engineVars, vmVars, ch, link, reported>>

RunStarting(r) ==
    /\ pc[r] = "starting"
    /\ state' = "Starting"
    /\ Goto(r, "start")
    /\ UNCHANGED <<tor, cancel, ctxDone, obs, idx, monDone, vmVars, ch, link, reported>>

RunStart(r) ==
    /\ pc[r] = "start"
    /\ \/ /\ StartVM(r)
          /\ Goto(r, "arm")
          /\ UNCHANGED <<state, ctxDone>>
       \/ /\ StartFails(r)
          /\ state' = "Idle"
          /\ ctxDone' = [ctxDone EXCEPT ![r] = TRUE]
          /\ Goto(r, "done")
          /\ UNCHANGED vmVars
    /\ UNCHANGED <<tor, cancel, obs, idx, monDone, ch, link, reported>>

\* A loop that does not run; which of them makes no difference.
FreeLoop(l) == pc[l] = "none" /\ l = CHOOSE m \in Loops : pc[m] = "none"

\* OnEvent and Monitor.Start: the observer stays registered when run returns.
RunArm(r) ==
    /\ pc[r] = "arm"
    /\ obs' = Append(obs, r)
    /\ \E l \in Loops :
         /\ FreeLoop(l)
         /\ pc' = [pc EXCEPT ![r] = "mark", ![l] = "dial"]
    /\ UNCHANGED <<tor, state, cancel, ctxDone, idx, monDone, vmVars, ch, link, reported>>

RunMark(r) ==
    /\ pc[r] = "mark"
    /\ state' = "Running"
    /\ Goto(r, "running")
    /\ UNCHANGED <<tor, cancel, ctxDone, obs, idx, monDone, vmVars, ch, link, reported>>

\* Wait begins: it listens to the channel that b.waitErr is now.
RunListen(r) ==
    /\ pc[r] = "running"
    /\ ch' = [ch EXCEPT ![r] = gen]
    /\ Goto(r, "wait")
    /\ UNCHANGED <<tor, engineVars, vmVars, link, reported>>

\* Mutant: Wait does not watch its context.
MutRunWake(r) ==
    /\ pc[r] = "wait"
    /\ chan[ch[r]] = 1 /\ chan' = [chan EXCEPT ![ch[r]] = 0]
    /\ Leave(r, "unmonitor")
    /\ UNCHANGED <<tor, engineVars, gen, proc, owner, killed, running, reaper, target,
                   link, reported>>

RunWake(r) ==
    /\ pc[r] = "wait"
    /\ \/ chan[ch[r]] = 1 /\ chan' = [chan EXCEPT ![ch[r]] = 0]
       \/ ctxDone[r] /\ UNCHANGED chan
    /\ Leave(r, "unmonitor")
    /\ UNCHANGED <<tor, engineVars, gen, proc, owner, killed, running, reaper, target,
                   link, reported>>

\* Monitor.Stop and transition(BrowserStopping).
RunUnmonitor(r) ==
    /\ pc[r] = "unmonitor"
    /\ monDone' = TRUE
    /\ state' = "Stopping"
    /\ Goto(r, "stopchk")
    /\ UNCHANGED <<tor, cancel, ctxDone, obs, idx, vmVars, ch, link, reported>>

\* Mutant: the deferred cancel is missing.
MutRunFinish(r) ==
    /\ pc[r] = "finish"
    /\ state' = "Idle"
    /\ Goto(r, "done")
    /\ UNCHANGED <<tor, cancel, ctxDone, obs, idx, monDone, vmVars, ch, link, reported>>

\* transition(BrowserIdle) and the deferred cancel.
RunFinish(r) ==
    /\ pc[r] = "finish"
    /\ state' = "Idle"
    /\ ctxDone' = [ctxDone EXCEPT ![r] = TRUE]
    /\ Goto(r, "done")
    /\ UNCHANGED <<tor, cancel, obs, idx, monDone, vmVars, ch, link, reported>>

RunStep(r) ==
    \/ RunEnter(r) \/ RunPoll(r) \/ RunStarting(r) \/ RunStart(r) \/ RunArm(r) \/ RunMark(r)
    \/ RunListen(r) \/ RunWake(r) \/ RunUnmonitor(r) \/ Stop(r) \/ RunFinish(r)

-----------------------------------------------------------------------------
(* readLoop of the Monitor, and handleCompromise *)

\* Monitor.done is never made anew: after the first Stop every loop ends at
\* once.  QEMU serves one client of the socket at a time.
LoopDial(l) ==
    /\ pc[l] = "dial"
    /\ \/ monDone /\ Goto(l, "none") /\ UNCHANGED link
       \/ /\ ~monDone
          /\ Alive
          /\ \A m \in Loops : link[m] # gen
          /\ Goto(l, "conn")
          /\ link' = [link EXCEPT ![l] = gen]
    /\ UNCHANGED <<tor, engineVars, vmVars, ch, reported>>

\* A critical event: the observers are called one after the other.  Lines that
\* a process sent before it died are still read.
LoopEvent(l) ==
    /\ pc[l] = "conn"
    /\ ~monDone
    /\ reported[link[l]] < MaxEvents
    /\ reported' = [reported EXCEPT ![link[l]] = @ + 1]
    /\ idx' = [idx EXCEPT ![l] = 1]
    /\ Goto(l, "compromised")
    /\ UNCHANGED <<tor, state, cancel, ctxDone, obs, monDone, vmVars, ch, link>>

\* The process has gone, or Monitor.Stop has closed the connection.
LoopEOF(l) ==
    /\ pc[l] = "conn"
    /\ monDone \/ proc[link[l]] = "dead"
    /\ Goto(l, "dial")
    /\ link' = [link EXCEPT ![l] = 0]
    /\ UNCHANGED <<tor, engineVars, vmVars, ch, reported>>

\* handleCompromise returns: to the next observer, or to the connection.
HandlerReturns(l) ==
    IF idx[l] < Len(obs)
      THEN Goto(l, "compromised") /\ idx' = [idx EXCEPT ![l] = @ + 1]
      ELSE Goto(l, "conn") /\ idx' = [idx EXCEPT ![l] = 1]

HandlerMark(l) ==
    /\ pc[l] = "compromised"
    /\ state' = "Compromised"
    /\ Goto(l, "stopchk")
    /\ UNCHANGED <<tor, cancel, ctxDone, obs, idx, monDone, vmVars, ch, link, reported>>

\* After VM.Stop: three seconds or the end of the context, then the test of Tor.
HandlerDelay(l) ==
    /\ pc[l] = "delay"
    /\ \/ /\ AutoRemediate /\ tor = "Running"
          /\ state' = "Starting"
          /\ Goto(l, "restart")
          /\ UNCHANGED idx
       \/ /\ ~AutoRemediate \/ tor # "Running" \/ ctxDone[obs[idx[l]]]
          /\ HandlerReturns(l)
          /\ UNCHANGED state
    /\ UNCHANGED <<tor, cancel, ctxDone, obs, monDone, vmVars, ch, link, reported>>

HandlerRestart(l) ==
    /\ pc[l] = "restart"
    /\ \/ /\ StartVM(obs[idx[l]])
          /\ Goto(l, "restarted")
          /\ UNCHANGED <<state, idx>>
       \/ /\ StartFails(obs[idx[l]])
          /\ state' = "Idle"
          /\ HandlerReturns(l)
          /\ UNCHANGED vmVars
    /\ UNCHANGED <<tor, cancel, ctxDone, obs, monDone, ch, link, reported>>

\* Monitor.Start, which adds a second loop, and transition(BrowserRunning).
HandlerRestarted(l) ==
    /\ pc[l] = "restarted"
    /\ state' = "Running"
    /\ \E m \in Loops :
         /\ FreeLoop(m)
         /\ IF idx[l] < Len(obs)
              THEN /\ pc' = [pc EXCEPT ![m] = "dial", ![l] = "compromised"]
                   /\ idx' = [idx EXCEPT ![l] = @ + 1]
              ELSE /\ pc' = [pc EXCEPT ![m] = "dial", ![l] = "conn"]
                   /\ idx' = [idx EXCEPT ![l] = 1]
    /\ UNCHANGED <<tor, cancel, ctxDone, obs, monDone, vmVars, ch, link, reported>>

LoopStep(l) ==
    \/ LoopDial(l) \/ LoopEOF(l) \/ HandlerMark(l) \/ Stop(l)
    \/ HandlerDelay(l) \/ HandlerRestart(l) \/ HandlerRestarted(l)

-----------------------------------------------------------------------------
(* The Tor engine and the user *)

CancelRun == ctxDone' = IF cancel = NoRun THEN ctxDone ELSE [ctxDone EXCEPT ![cancel] = TRUE]

\* With AutoStart main.go's observer starts a run, whatever the browser's state.
TorUp ==
    /\ tor = "starting"
    /\ tor' = "Running"
    /\ IF AutoStart THEN \E r \in Runs : pc[r] = "none" /\ Goto(r, "enter") ELSE UNCHANGED pc
    /\ UNCHANGED <<engineVars, vmVars, ch, link, reported>>

\* Mutant: the observer forgets the browser.
MutTorDown ==
    /\ MayStop
    /\ tor = "Running"
    /\ tor' = "ended"
    /\ UNCHANGED <<engineVars, vmVars, pc, ch, link, reported>>

TorDown ==
    /\ MayStop
    /\ tor = "Running"
    /\ tor' = "ended"
    /\ IF AutoStart THEN CancelRun ELSE UNCHANGED ctxDone
    /\ UNCHANGED <<state, cancel, obs, idx, monDone, vmVars, pc, ch, link, reported>>

\* The Stop button: BrowserEngine.Stop.
UserStop ==
    /\ MayStop
    /\ cancel # NoRun
    /\ ~ctxDone[cancel]
    /\ CancelRun
    /\ UNCHANGED <<tor, state, cancel, obs, idx, monDone, vmVars, pc, ch, link, reported>>

-----------------------------------------------------------------------------
(* The specification *)

Init ==
    /\ tor = "starting"
    /\ state = "Idle"
    /\ cancel = NoRun
    /\ ctxDone = [r \in Runs |-> FALSE]
    /\ pc = [t \in Threads |-> "none"]
    /\ ch = [t \in Threads |-> 0]
    /\ link = [l \in Loops |-> 0]
    /\ obs = <<>>
    /\ idx = [l \in Loops |-> 1]
    /\ monDone = FALSE
    /\ gen = 0
    /\ proc = [g \in Procs |-> "none"]
    /\ owner = [g \in Procs |-> NoRun]
    /\ killed = [g \in Procs |-> FALSE]
    /\ running = FALSE
    /\ reaper = [g \in Procs |-> "idle"]
    /\ target = [g \in Procs |-> 0]
    /\ chan = [g \in 0..MaxProcs |-> 0]
    /\ reported = [g \in Procs |-> 0]

Next ==
    \/ \E r \in Runs : Launch(r) \/ RunStep(r)
    \/ \E l \in Loops : LoopEvent(l) \/ LoopStep(l)
    \/ \E g \in Procs : GuestExit(g) \/ KilledExit(g) \/ Reaper(g)
    \/ TorUp \/ TorDown \/ UserStop

Spec == Init /\ [][Next]_vars

\* Goroutines that can run do run, and the kernel delivers a SIGKILL.
Fairness ==
    /\ \A r \in Runs : WF_vars(RunStep(r))
    /\ \A l \in Loops : WF_vars(LoopStep(l))
    /\ \A g \in Procs : WF_vars(Reaper(g))
    /\ \A g \in Procs : WF_vars(KilledExit(g))

FairSpec == Spec /\ Fairness

-----------------------------------------------------------------------------
(* Properties *)

\* Every variable stays in its range; no channel holds more than one result.
TypeOK ==
    /\ tor \in {"starting", "Running", "ended"}
    /\ state \in {"Idle", "WaitingForTor", "Starting", "Running", "Compromised", "Stopping"}
    /\ cancel \in Runs \cup {NoRun}
    /\ ctxDone \in [Runs -> BOOLEAN]
    /\ obs \in Seq(Runs)
    /\ gen \in 0..MaxProcs
    /\ proc \in [Procs -> {"none", "up", "dead"}]
    /\ chan \in [0..MaxProcs -> 0..1]
    /\ ch \in [Threads -> 0..MaxProcs]
    /\ reported \in [Procs -> 0..MaxEvents]

\* There is never more than one browser VM, although run, the handler of an
\* earlier run and a second run may all call Start.
AtMostOneVM ==
    \A g, h \in Procs : proc[g] = "up" /\ proc[h] = "up" => g = h

\* A run that is cancelled returns, wherever it is and whatever the handler of
\* a compromise does meanwhile.
StopEnds ==
    \A r \in Runs : (ctxDone[r] /\ pc[r] # "none") ~> pc[r] = "done"

\* When a run has returned, the processes started under its context die, and
\* no handler that is still under way starts another one.
RunEndsItsVM ==
    \A r \in Runs : pc[r] = "done" ~> [](\A g \in Procs : owner[g] = r => proc[g] # "up")

\* Run r goes on, and a later launch has taken the cancel function that would
\* end it (browser.go:105).
Unreachable(r) == pc[r] \notin {"none", "enter", "done"} /\ cancel # r /\ ~ctxDone[r]

\* With AutoStart, the end of Tor is the end of the browser VM for good, even
\* if it is just being launched, launched again, stopped or restarted after a
\* breach, unless a run has become unreachable by then.
\* "subordinate to the Tor VM lifecycle engine" (browser.go:41)
TorEndsBrowser ==
    (tor = "ended" /\ \A r \in Runs : ~Unreachable(r)) ~> []~Alive

-----------------------------------------------------------------------------
(* What comments in the code say of the browser VM, and TLC refutes *)

\* "kill+restart on breach" (AutoRemediate, config.go:139).
KillAndRestart ==
    \A g \in Procs : reported[g] > 0 ~> gen > g

\* "Wait blocks until the browser VM exits or context is cancelled."
\* (vm/browser.go:144)
ExitNoticed ==
    (state = "Running" /\ gen > 0 /\ ~Alive) ~> state # "Running"

\* "Start begins listening for security events [...] until Stop is called"
\* (secwatch/monitor.go:53).
MonitorListens ==
    (state = "Running" /\ \E r \in Runs : pc[r] = "wait") => \E l \in Loops : pc[l] # "none"

\* "Stop gracefully shuts down the browser VM." (browser.go:92): b.cancel is the
\* one thing that Stop has, so a VM whose b.cancel is spent has to be on its way out.
StopReachesVM ==
    (Alive /\ cancel # NoRun /\ ctxDone[cancel]) ~> ~Alive
=============================================================================
