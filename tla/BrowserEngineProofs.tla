------------------------- MODULE BrowserEngineProofs -------------------------
(***************************************************************************)
(* Proofs about the browser VM engine: its variables keep their types, and *)
(* there is never a second browser VM, for every number of runs, of loops  *)
(* of the monitor, of processes and of events.                             *)
(*                                                                         *)
(* AtMostOneVM is not inductive: b.running, which Start tests, is cleared  *)
(* by a reaper and not by the exit of a process.  VMInv ties the three     *)
(* together: a process that is up has a reaper that waits for it, at most  *)
(* one reaper waits, and b.running is set while one does.                  *)
(***************************************************************************)
EXTENDS BrowserEngine, TLAPS

ReaperStates == {"idle", "wait", "send", "sending"}

VMInv ==
    /\ gen \in 0..MaxProcs
    /\ running \in BOOLEAN
    /\ proc \in [Procs -> {"none", "up", "dead"}]
    /\ reaper \in [Procs -> ReaperStates]
    /\ \A g \in Procs : proc[g] = "up" => reaper[g] = "wait"
    /\ \A g \in Procs : reaper[g] = "wait" => running
    /\ \A g, h \in Procs : reaper[g] = "wait" /\ reaper[h] = "wait" => g = h

-----------------------------------------------------------------------------
(* Type correctness *)

\* An assignment to an element keeps the type of a function.
LEMMA ExceptType ==
    ASSUME NEW S, NEW T, NEW f \in [S -> T], NEW x, NEW v \in T
    PROVE  [f EXCEPT ![x] = v] \in [S -> T]
  OBVIOUS

\* StartVM numbers the new process within the bound.
LEMMA StartVMType ==
    ASSUME TypeOK, NEW r, StartVM(r)
    PROVE  gen' \in 0..MaxProcs /\ proc' \in [Procs -> {"none", "up", "dead"}] /\ chan' = chan
  BY BrowserAssumption DEF TypeOK, StartVM, Procs

\* The steps of Stop leave every channel with at most one result.
LEMMA StopType == ASSUME TypeOK, NEW t \in Threads, Stop(t) PROVE TypeOK'
<1>1. CASE StopCheck(t)
  BY <1>1 DEF TypeOK, StopCheck, engineVars, vmVars
<1>2. CASE StopPowerdown(t)
  BY <1>2 DEF TypeOK, StopPowerdown, engineVars, vmVars
<1>3. CASE StopExited(t)
  BY <1>3, BrowserAssumption DEF TypeOK, StopExited, Leave, engineVars
<1>4. CASE StopKill(t)
  BY <1>4, BrowserAssumption DEF TypeOK, StopKill, Leave, engineVars
<1> QED BY <1>1, <1>2, <1>3, <1>4 DEF Stop

\* The goroutine of run.
LEMMA RunType == ASSUME TypeOK, NEW r \in Runs, Launch(r) \/ RunStep(r) PROVE TypeOK'
<1>0. r \in Threads
  BY DEF Threads
<1>1. CASE Launch(r) \/ RunEnter(r) \/ RunPoll(r) \/ RunStarting(r)
  BY <1>1 DEF TypeOK, Launch, RunEnter, RunPoll, RunStarting, engineVars, vmVars
<1>2. CASE RunStart(r)
  <2>1. CASE StartVM(r)
    <3>1. gen' \in 0..MaxProcs /\ proc' \in [Procs -> {"none", "up", "dead"}] /\ chan' = chan
      BY <2>1, StartVMType
    <3>2. UNCHANGED <<tor, cancel, obs, ch, reported>> /\ ctxDone' \in [Runs -> BOOLEAN]
          /\ state' \in {state, "Idle"}
      BY <1>2 DEF RunStart, TypeOK
    <3> QED BY <3>1, <3>2 DEF TypeOK
  <2>2. CASE ~StartVM(r)
    BY <1>2, <2>2 DEF TypeOK, RunStart, vmVars
  <2> QED BY <2>1, <2>2
<1>3. CASE RunArm(r)
  BY <1>3 DEF TypeOK, RunArm, vmVars
<1>4. CASE RunMark(r) \/ RunUnmonitor(r) \/ RunFinish(r)
  BY <1>4 DEF TypeOK, RunMark, RunUnmonitor, RunFinish, vmVars
<1>5. CASE RunListen(r)
  BY <1>0, <1>5 DEF TypeOK, RunListen, engineVars, vmVars
<1>6. CASE RunWake(r)
  <2>1. chan' \in {chan, [chan EXCEPT ![ch[r]] = 0]} /\ ch' = [ch EXCEPT ![r] = 0]
    BY <1>6 DEF RunWake, Leave
  <2>2. 0 \in 0..MaxProcs
    BY BrowserAssumption
  <2>3. ch' \in [Threads -> 0..MaxProcs]
    BY <2>1, <2>2 DEF TypeOK
  <2>4. chan' \in [0..MaxProcs -> 0..1]
    BY <2>1, ExceptType DEF TypeOK
  <2> QED BY <1>6, <2>3, <2>4 DEF TypeOK, RunWake, engineVars
<1>7. CASE Stop(r)
  BY <1>0, <1>7, StopType
<1> QED BY <1>1, <1>2, <1>3, <1>4, <1>5, <1>6, <1>7 DEF RunStep

\* The goroutine of readLoop, with handleCompromise.
LEMMA LoopType == ASSUME TypeOK, NEW l \in Loops, LoopEvent(l) \/ LoopStep(l) PROVE TypeOK'
<1>1. CASE LoopEvent(l)
  <2>1. /\ reported[link[l]] < MaxEvents
        /\ reported' = [reported EXCEPT ![link[l]] = reported[link[l]] + 1]
    BY <1>1 DEF LoopEvent
  <2>2. reported' \in [Procs -> 0..MaxEvents]
    <3>1. CASE link[l] \in Procs
      <4>1. reported[link[l]] + 1 \in 0..MaxEvents
        BY <2>1, <3>1, BrowserAssumption DEF TypeOK
      <4> QED BY <2>1, <4>1 DEF TypeOK
    <3>2. CASE link[l] \notin Procs
      BY <2>1, <3>2 DEF TypeOK
    <3> QED BY <3>1, <3>2
  <2> QED BY <1>1, <2>2 DEF TypeOK, LoopEvent, vmVars
<1>2. CASE LoopDial(l) \/ LoopEOF(l)
  BY <1>2 DEF TypeOK, LoopDial, LoopEOF, engineVars, vmVars
<1>3. CASE HandlerMark(l) \/ HandlerDelay(l) \/ HandlerRestarted(l)
  BY <1>3 DEF TypeOK, HandlerMark, HandlerDelay, HandlerRestarted, vmVars
<1>4. CASE HandlerRestart(l)
  <2>1. CASE StartVM(obs[idx[l]])
    <3>1. gen' \in 0..MaxProcs /\ proc' \in [Procs -> {"none", "up", "dead"}] /\ chan' = chan
      BY <2>1, StartVMType
    <3>2. UNCHANGED <<tor, cancel, ctxDone, obs, ch, reported>> /\ state' \in {state, "Idle"}
      BY <1>4 DEF HandlerRestart
    <3> QED BY <3>1, <3>2 DEF TypeOK
  <2>2. CASE ~StartVM(obs[idx[l]])
    BY <1>4, <2>2 DEF TypeOK, HandlerRestart, vmVars
  <2> QED BY <2>1, <2>2
<1>5. CASE Stop(l)
  BY <1>5, StopType DEF Threads
<1> QED BY <1>1, <1>2, <1>3, <1>4, <1>5 DEF LoopStep

\* The QEMU processes and their reapers.
LEMMA ProcType ==
    ASSUME TypeOK, NEW g \in Procs, GuestExit(g) \/ KilledExit(g) \/ Reaper(g)
    PROVE  TypeOK'
<1>1. CASE GuestExit(g) \/ KilledExit(g)
  BY <1>1 DEF TypeOK, GuestExit, KilledExit, engineVars
<1>2. CASE Reap(g) \/ Send(g)
  BY <1>2 DEF TypeOK, Reap, Send, engineVars
<1>3. CASE Deliver(g)
  <2>1. chan' = [chan EXCEPT ![target[g]] = 1]
    BY <1>3 DEF Deliver
  <2>2. chan \in [0..MaxProcs -> 0..1] /\ 1 \in 0..1
    BY DEF TypeOK
  <2>3. chan' \in [0..MaxProcs -> 0..1]
    BY <2>1, <2>2, ExceptType, Zenon
  <2> QED BY <1>3, <2>3 DEF TypeOK, Deliver, engineVars
<1> QED BY <1>1, <1>2, <1>3 DEF Reaper

\* Every variable of the browser engine keeps its type; no channel waitErr ever
\* holds more than the one result it has room for.
THEOREM TypeCorrect == Spec => []TypeOK
<1>1. Init => TypeOK
  BY BrowserAssumption DEF Init, TypeOK, Procs, Threads
<1>2. TypeOK /\ [Next]_vars => TypeOK'
  <2> SUFFICES ASSUME TypeOK, [Next]_vars PROVE TypeOK'
    OBVIOUS
  <2>1. ASSUME NEW r \in Runs, Launch(r) \/ RunStep(r) PROVE TypeOK'
    BY <2>1, RunType
  <2>2. ASSUME NEW l \in Loops, LoopEvent(l) \/ LoopStep(l) PROVE TypeOK'
    BY <2>2, LoopType
  <2>3. ASSUME NEW g \in Procs, GuestExit(g) \/ KilledExit(g) \/ Reaper(g) PROVE TypeOK'
    BY <2>3, ProcType
  <2>4. CASE TorUp \/ TorDown \/ UserStop
    BY <2>4 DEF TypeOK, TorUp, TorDown, UserStop, CancelRun, engineVars, vmVars
  <2>5. CASE UNCHANGED vars
    BY <2>5 DEF TypeOK, vars, engineVars, vmVars
  <2> QED BY <2>1, <2>2, <2>3, <2>4, <2>5 DEF Next
<1> QED BY <1>1, <1>2, PTL DEF Spec

-----------------------------------------------------------------------------
(* One browser VM at a time *)

\* BrowserInstance.Start, whoever calls it: no reaper waits when running is clear.
LEMMA StartVMStep == ASSUME VMInv, NEW r, StartVM(r) PROVE VMInv'
<1>1. ~running /\ gen + 1 \in Procs
  BY BrowserAssumption DEF StartVM, StartOK, VMInv, Procs
<1>2. \A g \in Procs : reaper[g] # "wait" /\ proc[g] # "up"
  BY <1>1 DEF VMInv
<1>3. /\ gen' = gen + 1 /\ running' = TRUE
      /\ proc' = [proc EXCEPT ![gen + 1] = "up"]
      /\ reaper' = [reaper EXCEPT ![gen + 1] = "wait"]
  BY DEF StartVM
<1>4. gen' \in 0..MaxProcs
  BY <1>1, <1>3, BrowserAssumption DEF VMInv, Procs
<1> QED BY <1>1, <1>2, <1>3, <1>4 DEF VMInv, ReaperStates

\* Steps that leave the process table and b.running alone.
LEMMA VMQuiet == ASSUME VMInv, UNCHANGED <<gen, proc, running, reaper>> PROVE VMInv'
  BY DEF VMInv

\* The steps of Stop and of the reapers after Reap.
LEMMA StopStep == ASSUME VMInv, NEW t, Stop(t) PROVE VMInv'
<1>1. UNCHANGED <<gen, proc, running, reaper>>
  BY DEF Stop, StopCheck, StopPowerdown, StopExited, StopKill, vmVars
<1> QED BY <1>1, VMQuiet

\* The goroutine of run.
LEMMA RunKeepsOneVM == ASSUME VMInv, NEW r \in Runs, Launch(r) \/ RunStep(r) PROVE VMInv'
<1>1. CASE Stop(r)
  BY <1>1, StopStep
<1>2. CASE StartVM(r)
  BY <1>2, StartVMStep
<1>3. CASE ~Stop(r) /\ ~StartVM(r)
  <2>1. UNCHANGED <<gen, proc, running, reaper>>
    BY <1>3 DEF Launch, RunStep, RunEnter, RunPoll, RunStarting, RunStart, RunArm, RunMark,
                RunListen, RunWake, RunUnmonitor, RunFinish, vmVars
  <2> QED BY <2>1, VMQuiet
<1> QED BY <1>1, <1>2, <1>3

\* The goroutine of readLoop, with handleCompromise, which restarts the VM.
LEMMA LoopKeepsOneVM == ASSUME VMInv, NEW l \in Loops, LoopEvent(l) \/ LoopStep(l) PROVE VMInv'
<1>1. CASE Stop(l)
  BY <1>1, StopStep
<1>2. CASE StartVM(obs[idx[l]])
  BY <1>2, StartVMStep
<1>3. CASE ~Stop(l) /\ ~StartVM(obs[idx[l]])
  <2>1. UNCHANGED <<gen, proc, running, reaper>>
    BY <1>3 DEF LoopEvent, LoopStep, LoopDial, LoopEOF, HandlerMark, HandlerDelay,
                HandlerRestart, HandlerRestarted, vmVars
  <2> QED BY <2>1, VMQuiet
<1> QED BY <1>1, <1>2, <1>3

\* A reaper clears running only when its process is dead, so that no other
\* reaper can be waiting.
LEMMA ProcKeepsOneVM ==
    ASSUME VMInv, NEW g \in Procs, GuestExit(g) \/ KilledExit(g) \/ Reaper(g)
    PROVE  VMInv'
<1>1. CASE GuestExit(g) \/ KilledExit(g)
  BY <1>1 DEF VMInv, GuestExit, KilledExit
<1>2. CASE Reap(g)
  <2>1. /\ reaper[g] = "wait" /\ proc[g] = "dead" /\ running' = FALSE
        /\ reaper' = [reaper EXCEPT ![g] = "send"] /\ UNCHANGED <<gen, proc>>
    BY <1>2 DEF Reap
  <2>2. \A h \in Procs : reaper'[h] # "wait" /\ proc[h] # "up"
    BY <2>1 DEF VMInv
  <2> QED BY <2>1, <2>2 DEF VMInv, ReaperStates
<1>3. CASE Send(g) \/ Deliver(g)
  BY <1>3 DEF VMInv, Send, Deliver, ReaperStates
<1> QED BY <1>1, <1>2, <1>3 DEF Reaper

\* VMInv holds in every reachable state.
LEMMA VMInvariant == Spec => []VMInv
<1>1. Init => VMInv
  <2> SUFFICES ASSUME Init PROVE VMInv
    OBVIOUS
  <2>1. gen \in 0..MaxProcs
    BY BrowserAssumption DEF Init
  <2>2. proc = [g \in Procs |-> "none"] /\ reaper = [g \in Procs |-> "idle"] /\ running = FALSE
    BY DEF Init
  <2> QED BY <2>1, <2>2 DEF VMInv, ReaperStates
<1>2. VMInv /\ [Next]_vars => VMInv'
  <2> SUFFICES ASSUME VMInv, [Next]_vars PROVE VMInv'
    OBVIOUS
  <2>1. ASSUME NEW r \in Runs, Launch(r) \/ RunStep(r) PROVE VMInv'
    BY <2>1, RunKeepsOneVM
  <2>2. ASSUME NEW l \in Loops, LoopEvent(l) \/ LoopStep(l) PROVE VMInv'
    BY <2>2, LoopKeepsOneVM
  <2>3. ASSUME NEW g \in Procs, GuestExit(g) \/ KilledExit(g) \/ Reaper(g) PROVE VMInv'
    BY <2>3, ProcKeepsOneVM
  <2>4. CASE TorUp \/ TorDown \/ UserStop \/ UNCHANGED vars
    <3>1. UNCHANGED <<gen, proc, running, reaper>>
      BY <2>4 DEF TorUp, TorDown, UserStop, vars, vmVars
    <3> QED BY <3>1, VMQuiet
  <2> QED BY <2>1, <2>2, <2>3, <2>4 DEF Next
<1> QED BY <1>1, <1>2, PTL DEF Spec

\* There is never more than one browser VM, however many runs and handlers of
\* breaches call BrowserInstance.Start and Stop at the same time.
THEOREM OneBrowserVM == Spec => []AtMostOneVM
<1>1. VMInv => AtMostOneVM
  BY DEF VMInv, AtMostOneVM
<1> QED BY <1>1, VMInvariant, PTL
=============================================================================
