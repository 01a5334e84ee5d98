--------------------------- MODULE ServiceManager ----------------------------
(***************************************************************************)
(* The packages that install TorVM as a service and drive it: launchd     *)
(* (macOS), systemd (Linux) and winsvc (Windows, with its TAP adapter).    *)
(* Each call runs commands that may fail, some of which leave half of the  *)
(* work behind, and several of whose errors are swallowed; so an operation *)
(* is the set of its outcomes, each with the service it leaves and whether *)
(* the caller is told that it worked.                                      *)
(***************************************************************************)

\* installed: the plist, unit file or SCM entry exists.  loaded: launchd has
\* the job.  active: its process runs.  enabled: it starts on boot.  tap: the
\* adapter of Windows.
Service == [installed : BOOLEAN, loaded : BOOLEAN, active : BOOLEAN,
            enabled : BOOLEAN, tap : BOOLEAN]

NoService == [installed |-> FALSE, loaded |-> FALSE, active |-> FALSE,
              enabled |-> FALSE, tap |-> FALSE]

Done(s) == [svc |-> s, ok |-> TRUE]
Fail(s) == [svc |-> s, ok |-> FALSE]

\* A command that has its effect or fails and has none.
Command(s, t) == {Done(t), Fail(s)}

-----------------------------------------------------------------------------
(* launchd *)

\* Without its administrator's password nothing happens.  launchctl load comes
\* last: when it fails the plist stays.  A job with KeepAlive starts on load.
LaunchdInstall(s) ==
    LET written == [s EXCEPT !.installed = TRUE, !.enabled = FALSE]
    IN  {Fail(s), Fail(written)}
        \cup {Done([written EXCEPT !.loaded = TRUE, !.active = a]) : a \in BOOLEAN}

\* The result is that of rm: a failed unload is not noticed.
LaunchdUninstall(s) ==
    LET unloaded == [s EXCEPT !.loaded = FALSE, !.active = FALSE]
    IN  {Fail(s), Fail(unloaded)}
        \cup {Done([t EXCEPT !.installed = FALSE, !.enabled = FALSE]) : t \in {s, unloaded}}

\* kickstart and kill need a job that is loaded; SIGTERM returns before the
\* process is gone.
LaunchdStart(s) ==
    IF s.loaded THEN Command(s, [s EXCEPT !.active = TRUE]) ELSE {Fail(s)}

LaunchdStop(s) ==
    IF s.loaded /\ s.active
      THEN Command(s, [s EXCEPT !.active = FALSE]) \cup {Done(s)}
      ELSE {Fail(s)}

SetRunAtLoad(s, on) ==
    IF s.installed THEN Command(s, [s EXCEPT !.enabled = on]) ELSE {Fail(s)}

-----------------------------------------------------------------------------
(* systemd *)

\* The unit file is written before the two commands that can still fail.
SystemdInstall(s) ==
    LET written == [s EXCEPT !.installed = TRUE]
    IN  {Fail(s), Fail(written), Done([written EXCEPT !.enabled = TRUE])}

\* Every step's error is dropped, and the caller is always told it worked.
SystemdUninstall(s) ==
    {Done([s EXCEPT !.active = a, !.enabled = e, !.installed = i]) :
        a \in {FALSE, s.active}, e \in {FALSE, s.enabled}, i \in {FALSE, s.installed}}

SystemdStart(s) ==
    IF s.installed THEN Command(s, [s EXCEPT !.active = TRUE]) ELSE {Fail(s)}

SystemdStop(s) == Command(s, [s EXCEPT !.active = FALSE])

\* A restart that fails may have stopped the service.
SystemdRestart(s) ==
    SystemdStart(s) \cup {Fail([s EXCEPT !.active = FALSE])}

SystemdEnable(s, on) ==
    IF on /\ ~s.installed THEN {Fail(s)} ELSE Command(s, [s EXCEPT !.enabled = on])

-----------------------------------------------------------------------------
(* winsvc *)

\* A failure of the event log takes the new service away again, if it can.
InstallService(s) ==
    IF s.installed THEN {Fail(s)}
    ELSE LET created == [s EXCEPT !.installed = TRUE, !.enabled = TRUE]
         IN  {Fail(s), Fail(created), Done(created)}

\* A failure of the event log is returned although the service is gone.
RemoveService(s) ==
    LET removed == [s EXCEPT !.installed = FALSE, !.enabled = FALSE]
    IN  IF s.installed THEN {Fail(s), Fail(removed), Done(removed)} ELSE {Fail(s)}

InstallTAPAdapter(s) == Command(s, [s EXCEPT !.tap = TRUE])

RemoveTAPAdapter(s) == Command(s, [s EXCEPT !.tap = FALSE])

-----------------------------------------------------------------------------
(* What the platforms have in common *)

Install(os, s) == CASE os = "darwin"  -> LaunchdInstall(s)
                    [] os = "linux"   -> SystemdInstall(s)
                    [] os = "windows" -> InstallService(s)

Uninstall(os, s) == CASE os = "darwin"  -> LaunchdUninstall(s)
                      [] os = "linux"   -> SystemdUninstall(s)
                      [] os = "windows" -> RemoveService(s)

SetBoot(os, s, on) == IF os = "darwin" THEN SetRunAtLoad(s, on) ELSE SystemdEnable(s, on)

\* Without the plist nothing else is asked: a job that outlives its plist is
\* not seen.
LaunchdStatus(s) ==
    [installed |-> s.installed,
     running   |-> s.installed /\ s.loaded /\ s.active,
     enabled   |-> s.installed /\ s.enabled]

SystemdStatus(s) ==
    [installed |-> s.installed,
     running   |-> s.installed /\ s.active,
     enabled   |-> s.installed /\ s.enabled]

\* The tab of Windows asks for the adapter only, not for the service.
QueryTAPStatus(s) == [installed |-> s.tap, running |-> FALSE, enabled |-> FALSE]

QueryStatus(os, s) == CASE os = "darwin"  -> LaunchdStatus(s)
                        [] os = "linux"   -> SystemdStatus(s)
                        [] os = "windows" -> QueryTAPStatus(s)
=============================================================================
