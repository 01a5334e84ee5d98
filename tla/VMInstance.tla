----------------------------- MODULE VMInstance ------------------------------
(***************************************************************************)
(* The QEMU process behind vm.Instance (controller/internal/vm/qemu.go)    *)
(* and the QMP connection Stop uses (monitor.go).  Three parties act on    *)
(* it: the caller of Start and Stop, the goroutine that Start leaves       *)
(* behind to reap the process, and the process itself.                     *)
(***************************************************************************)

CONSTANT MayHang   \* whether a QEMU process may stop answering (its QMP too)

ASSUME MayHangAssumption == MayHang \in BOOLEAN

VARIABLES
    proc,      \* the OS process: "none", "up", "hung" or "dead"
    killed,    \* SIGKILL has been sent to it
    status,    \* what Process.Wait returns once it is dead: "nil" or "err"
    running,   \* inst.running
    reaper,    \* the goroutine of Start: "idle", "waiting", "sending"
    waitErr,   \* inst.waitErr, a channel of capacity 1
    stopPc     \* progress of Stop: "idle", "check", "qmp", "wait", "kill", "done"

vmVars == <<proc, killed, status, running, reaper, waitErr, stopPc>>

VMTypeOK ==
    /\ proc \in {"none", "up", "hung", "dead"}
    /\ killed \in BOOLEAN
    /\ status \in {"nil", "err"}
    /\ running \in BOOLEAN
    /\ reaper \in {"idle", "waiting", "sending"}
    /\ waitErr \in {"empty", "nil", "err"}
    /\ stopPc \in {"idle", "check", "qmp", "wait", "kill", "done"}

VMInit ==
    /\ proc = "none"
    /\ killed = FALSE
    /\ status = "nil"
    /\ running = FALSE
    /\ reaper = "idle"
    /\ waitErr = "empty"
    /\ stopPc = "idle"

\* The same values, for a controller process that starts anew.
VMReset ==
    /\ proc' = "none"
    /\ killed' = FALSE
    /\ status' = "nil"
    /\ running' = FALSE
    /\ reaper' = "idle"
    /\ waitErr' = "empty"
    /\ stopPc' = "idle"

Alive == proc \in {"up", "hung"}

-----------------------------------------------------------------------------
(* Start *)

\* Start drains the result of an earlier process before it can fail for any
\* other reason than a process that runs already.
Start(ok) ==
    /\ UNCHANGED <<status, stopPc>>
    /\ \/ /\ ok
          /\ ~running
          /\ waitErr' = "empty"
          /\ proc' = "up"
          /\ killed' = FALSE
          /\ running' = TRUE
          /\ reaper' = "waiting"
       \/ /\ ~ok
          /\ waitErr' = IF running THEN waitErr ELSE "empty"
          /\ UNCHANGED <<proc, killed, running, reaper>>

-----------------------------------------------------------------------------
(* The process (external) *)

\* The guest powers off or QEMU fails, on its own account.
GuestExit ==
    /\ proc = "up"
    /\ ~killed
    /\ proc' = "dead"
    /\ status' \in {"nil", "err"}
    /\ UNCHANGED <<killed, running, reaper, waitErr, stopPc>>

QemuHang ==
    /\ MayHang
    /\ proc = "up"
    /\ proc' = "hung"
    /\ UNCHANGED <<killed, status, running, reaper, waitErr, stopPc>>

KilledExit ==
    /\ Alive
    /\ killed
    /\ proc' = "dead"
    /\ status' = "err"
    /\ UNCHANGED <<killed, running, reaper, waitErr, stopPc>>

\* exec.CommandContext kills the process when the context of Start is done.
ContextKill(ctxDone) ==
    /\ ctxDone
    /\ Alive
    /\ ~killed
    /\ killed' = TRUE
    /\ UNCHANGED <<proc, status, running, reaper, waitErr, stopPc>>

-----------------------------------------------------------------------------
(* The goroutine that Start leaves behind *)

Reap ==
    /\ reaper = "waiting"
    /\ proc = "dead"
    /\ running' = FALSE
    /\ reaper' = "sending"
    /\ UNCHANGED <<proc, killed, status, waitErr, stopPc>>

\* Mutant: the goroutine ends without sending the result.
MutDeliverNothing ==
    /\ reaper = "sending"
    /\ reaper' = "idle"
    /\ UNCHANGED <<proc, killed, status, running, waitErr, stopPc>>

\* The send blocks while the buffer holds a result nobody has taken.
Deliver ==
    /\ reaper = "sending"
    /\ waitErr = "empty"
    /\ waitErr' = status
    /\ reaper' = "idle"
    /\ UNCHANGED <<proc, killed, status, running, stopPc>>

-----------------------------------------------------------------------------
(* Stop *)

StopCheck ==
    /\ stopPc = "check"
    /\ stopPc' = IF running THEN "qmp" ELSE "done"
    /\ UNCHANGED <<proc, killed, status, running, reaper, waitErr>>

\* NewQMPClient and SystemPowerdown.  The QMP reads have no deadline: the
\* greeting of a process that hangs never comes, and neither does an error.
\* Without a connection Stop goes on to the kill; a powerdown that fails is
\* waited for like one that does not.
StopPowerdown ==
    /\ stopPc = "qmp"
    /\ proc # "hung"
    /\ stopPc' \in {"wait", "kill"}
    /\ UNCHANGED <<proc, killed, status, running, reaper, waitErr>>

\* The process has gone within the 10 seconds of the caller's context...
StopExited ==
    /\ stopPc = "wait"
    /\ waitErr # "empty"
    /\ waitErr' = "empty"
    /\ stopPc' = "done"
    /\ UNCHANGED <<proc, killed, status, running, reaper>>

\* Mutant: Stop returns when its context is done, without the fallback.
MutStopTimeoutReturns ==
    /\ stopPc = "wait"
    /\ stopPc' = "done"
    /\ UNCHANGED <<proc, killed, status, running, reaper, waitErr>>

\* ... or it has not.
StopTimeout ==
    /\ stopPc = "wait"
    /\ stopPc' = "kill"
    /\ UNCHANGED <<proc, killed, status, running, reaper, waitErr>>

StopKill ==
    /\ stopPc = "kill"
    /\ stopPc' = "done"
    /\ killed' = IF running /\ Alive THEN TRUE ELSE killed
    /\ UNCHANGED <<proc, status, running, reaper, waitErr>>

Stop == StopCheck \/ StopPowerdown \/ StopExited \/ StopTimeout \/ StopKill
=============================================================================
