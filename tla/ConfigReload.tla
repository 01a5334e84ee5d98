---------------------------- MODULE ConfigReload -----------------------------
(***************************************************************************)
(* Who changes the configuration while the program runs: an editor (or the *)
(* GUI's Save button) that writes the file, config.ConfigWatcher, which    *)
(* loads it, Engine.ReloadConfig, which hands the hot-reloadable part to   *)
(* Tor, and the GUI's tabs, which edit the Config object in place.  That   *)
(* object (cfg) is shared: it is main's, the GUI's, vm.Instance.Config and *)
(* at first also Engine.Config.  ReloadConfig puts a loaded object in the  *)
(* place of the last of these only.                                        *)
(***************************************************************************)
EXTENDS Config

CONSTANTS
    Modes,      \* how the program may be started: "headless" or "gui"
    Contents,   \* the files an editor may write
    Earlier,    \* those of them that an earlier Run may have started with
    MemSizes,   \* positions of the memory slider
    MaxEdits,   \* bound on edits, by the editor and in the GUI together
    NoConfig

\* A file that Load accepts gives a Config.
Typed(f) == /\ f.kind \in {"absent", "garbage", "insecure", "json"}
            /\ Loads(f) => Merged(f) \in ConfigType

ASSUME ReloadAssumption ==
    /\ Modes \subseteq {"headless", "gui"}
    /\ \A f \in Contents : Typed(f)
    /\ Earlier \subseteq Contents
    /\ NoConfig \notin ConfigType
    /\ MemSizes \subseteq Nat
    /\ MaxEdits \in Nat

VARIABLES
    mode,      \* how it was started
    keeps,     \* external: does Tor keep options set by SETCONF over a RELOAD?
    file, writing,      \* the file; the content a writer still has to write
    watched, events,    \* inotify watches the file's inode; events not yet read
    timer,     \* loop's debounce timer: "nil", "armed" or "fired"
    loop, main,         \* the watcher's goroutine; main, up to the end of Close
    cfg,       \* the Config object made by main
    loaded,    \* the object ReloadConfig stored in Engine.Config, if any
    logVerbose,         \* the logger's level
    engine, control,    \* the engine's state; Engine.TorControl # nil
    override, torConf,  \* torrc.override on the state disk; Tor's options
    pc, new,   \* ReloadConfig as called by the watcher and by the GUI
    early, failed, crashed, edits

fileVars == <<file, writing, watched, events>>
watchVars == <<timer, loop, main>>
engineVars == <<cfg, loaded, logVerbose, engine, control, override>>
reloadVars == <<pc, new, early, failed, crashed>>
vars == <<mode, keeps, fileVars, watchVars, engineVars, torConf, reloadVars, edits>>

\* The process has neither ended nor panicked.
Alive == main # "ended" /\ ~crashed

Callers == {"watcher", "gui"}
EngineConfig == IF loaded = NoConfig THEN cfg ELSE loaded
HotPart(c) == [k \in hotReloadableFields |-> c[k]]
Directives(c) == parseTorrcOverlay(TorrcOverlay(c))

\* main: Load, then the command line and the detected platform override
\* Verbose, Accel and VhostNet; in the GUI, bridgesTab selects "none" for an
\* empty transport, which its callback stores in the object.
InitialConfig(f, flag, m) ==
    LET c == [Merged(f) EXCEPT !.verbose = flag, !.other = "detected"]
    IN  IF m = "gui" /\ c.bridge.transport = "" THEN [c EXCEPT !.bridge.transport = "none"] ELSE c

Init ==
    /\ mode \in Modes
    /\ keeps \in IF mode = "headless" THEN BOOLEAN ELSE {FALSE}   \* FALSE allows both
    /\ file \in {f \in Contents \cup {Absent} : Loads(f)}
    /\ watched = (file # Absent)         \* NewConfigWatcher fails without a file
    /\ writing = <<>> /\ events = 0 /\ timer = "nil" /\ main = "run"
    /\ loop = (IF watched THEN "select" ELSE "exited")
    /\ \E flag \in IF mode = "headless" THEN BOOLEAN ELSE {FALSE} :   \* the GUI has a check box
           cfg = InitialConfig(file, flag, mode)
    /\ logVerbose = cfg.verbose
    /\ loaded = NoConfig /\ engine = "starting" /\ control = FALSE
    /\ override \in {<<>>} \cup {TorrcOverlay(Merged(f)) :
                       f \in {g \in Earlier : Loads(g) /\ OverlayOK(Merged(g))}}
    /\ torConf = {}
    /\ pc = [p \in Callers |-> "idle"] /\ new = [p \in Callers |-> NoConfig]
    /\ early = FALSE /\ failed = FALSE /\ crashed = FALSE /\ edits = 0

-----------------------------------------------------------------------------
(* Writers of the file *)

\* A write is seen as two: the file is truncated, then it has its content.
\* Each gives an event, if the inode is still watched.
Notified == events' = IF watched THEN events + 1 ELSE events

BeginWrite(content) ==
    /\ Alive /\ writing = <<>> /\ edits < MaxEdits
    /\ file' = Garbage /\ writing' = <<content>> /\ edits' = edits + 1
    /\ Notified
    /\ UNCHANGED <<mode, keeps, watched, watchVars, engineVars, torConf, reloadVars>>

EditorWrites == \E f \in Contents : BeginWrite(f)

EndWrite ==
    /\ Alive /\ writing # <<>>
    /\ file' = writing[1] /\ writing' = <<>>
    /\ Notified
    /\ UNCHANGED <<mode, keeps, watched, watchVars, engineVars, torConf, reloadVars, edits>>

\* An editor that renames a new file over the old one: the watched inode loses
\* its last link (an attribute event), and the watch ends with it.
EditorRenames ==
    /\ Alive /\ writing = <<>> /\ edits < MaxEdits
    /\ file' \in Contents /\ edits' = edits + 1
    /\ Notified /\ watched' = FALSE
    /\ UNCHANGED <<mode, keeps, writing, watchVars, engineVars, torConf, reloadVars>>

-----------------------------------------------------------------------------
(* ConfigWatcher *)

\* Mutant: the timer is made once and never again.
MutFirstEventOnly ==
    /\ Alive /\ loop = "select" /\ events > 0
    /\ events' = events - 1
    /\ timer' = IF timer = "nil" THEN "armed" ELSE timer
    /\ UNCHANGED <<mode, keeps, file, writing, watched, loop, main, engineVars, torConf,
                   reloadVars, edits>>

\* loop: an event arms the debounce timer again.
ReadEvent ==
    /\ Alive /\ loop = "select" /\ events > 0
    /\ events' = events - 1
    /\ timer' = "armed"
    /\ UNCHANGED <<mode, keeps, file, writing, watched, loop, main, engineVars, torConf,
                   reloadVars, edits>>

\* The callback that main gives the watcher: whether it calls ReloadConfig.
onChange(c) == HotReloadable(EngineConfig, c) # {}

\* loop: the timer fires; reload loads the file and calls onChange.
TimerFires ==
    /\ Alive /\ loop = "select" /\ timer = "armed"
    /\ timer' = "fired"
    /\ IF Loads(file) /\ onChange(Merged(file))
       THEN /\ loop' = "reload"
            /\ pc' = [pc EXCEPT !["watcher"] = "decide"]
            /\ new' = [new EXCEPT !["watcher"] = Merged(file)]
       ELSE UNCHANGED <<loop, pc, new>>
    /\ UNCHANGED <<mode, keeps, fileVars, main, engineVars, torConf, early, failed, crashed, edits>>

ReloadReturns ==
    /\ Alive /\ loop = "reload" /\ pc["watcher"] = "idle"
    /\ loop' = "select"
    /\ UNCHANGED <<mode, keeps, fileVars, timer, main, engineVars, torConf, reloadVars, edits>>

\* Mutant: Close waits for the goroutine before it closes done.
MutWaitBeforeDone ==
    /\ Alive /\ loop = "select" /\ main = "ended"
    /\ loop' = "exited"
    /\ timer' = IF timer = "armed" THEN "nil" ELSE timer
    /\ UNCHANGED <<mode, keeps, fileVars, main, engineVars, torConf, reloadVars, edits>>

\* loop: done is closed, and so are the watcher's channels.
LoopExits ==
    /\ Alive /\ loop = "select" /\ main = "closing"
    /\ loop' = "exited"
    /\ timer' = IF timer = "armed" THEN "nil" ELSE timer
    /\ UNCHANGED <<mode, keeps, fileVars, main, engineVars, torConf, reloadVars, edits>>

\* main returns and its deferred Close closes done and the watcher, and waits
\* for the goroutine.  An error of Run in headless mode exits at once.
CloseBegins ==
    /\ Alive /\ main = "run" /\ pc["gui"] = "idle" /\ (mode = "headless" => engine = "ended")
    /\ main' \in IF mode = "headless" THEN {"closing", "ended"} ELSE {"closing"}
    /\ watched' = FALSE /\ events' = 0
    /\ UNCHANGED <<mode, keeps, file, writing, timer, loop, engineVars, torConf, reloadVars, edits>>

CloseWaits ==
    /\ Alive /\ main = "closing" /\ loop = "exited"
    /\ main' = "ended"
    /\ UNCHANGED <<mode, keeps, fileVars, timer, loop, engineVars, torConf, reloadVars, edits>>

-----------------------------------------------------------------------------
(* ReloadConfig *)

\* The argument is forgotten when the call returns.
Argument(p) == new' = [new EXCEPT ![p] = IF pc'[p] = "idle" THEN NoConfig ELSE @]

\* The diff, the test of TorControl and of the state, and the overlay.
ReloadConfig(p) ==
    LET c == new[p]
        changes == Diff(EngineConfig, c) # {}
        push == HotReloadable(EngineConfig, c) # {} /\ control /\ engine = "running"
    IN  /\ Alive /\ pc[p] = "decide"
        /\ pc' = [pc EXCEPT ![p] = CASE ~changes -> "idle"
                                     [] changes /\ ~push -> "storeEarly"
                                     [] push /\ ~OverlayOK(c) -> "idle"
                                     [] push /\ OverlayOK(c) /\ TorrcOverlay(c) = <<>> -> "signal"
                                     [] OTHER -> "setconf"]
        /\ failed' = (failed \/ (push /\ ~OverlayOK(c)))
        /\ Argument(p)
        /\ UNCHANGED <<mode, keeps, fileVars, watchVars, engineVars, torConf, early, crashed, edits>>

\* TorControl is read again for each call: it may be nil by now.
NilControl(p) ==
    /\ Alive /\ pc[p] \in {"setconf", "signal"} /\ ~control
    /\ crashed' = TRUE
    /\ UNCHANGED <<mode, keeps, fileVars, watchVars, engineVars, torConf, pc, new, early, failed, edits>>

\* Mutant: an error of SETCONF is logged as non-fatal, like one of RELOAD.
MutSetConfNonFatal(p) ==
    /\ Alive /\ pc[p] = "setconf" /\ control
    /\ torConf' \in {torConf} \cup SetConf(torConf, Directives(new[p]))
    /\ pc' = [pc EXCEPT ![p] = "signal"]
    /\ UNCHANGED <<failed, mode, keeps, fileVars, watchVars, engineVars, new, early, crashed, edits>>

\* SETCONF is all or nothing.  After an error (a refusal, or no answer in time,
\* when Tor may have done it) the new Config is not stored.
DoSetConf(p) ==
    /\ Alive /\ pc[p] = "setconf" /\ control
    /\ \/ /\ torConf' \in SetConf(torConf, Directives(new[p]))
          /\ pc' = [pc EXCEPT ![p] = "signal"] /\ UNCHANGED failed
       \/ /\ torConf' \in {torConf} \cup SetConf(torConf, Directives(new[p]))
          /\ pc' = [pc EXCEPT ![p] = "idle"] /\ failed' = TRUE
    /\ Argument(p)
    /\ UNCHANGED <<mode, keeps, fileVars, watchVars, engineVars, early, crashed, edits>>

\* RELOAD: Tor reads its torrc again; an error is not fatal.
SignalReload(p) ==
    /\ Alive /\ pc[p] = "signal" /\ control
    /\ torConf' \in {torConf} \cup (IF keeps THEN {} ELSE {BootConf(override)})
    /\ pc' = [pc EXCEPT ![p] = "store"]
    /\ UNCHANGED <<mode, keeps, fileVars, watchVars, engineVars, new, early, failed, crashed, edits>>

\* SetVerbose and the store.  What the GUI passes is its own object.
Store(p) ==
    /\ Alive /\ pc[p] \in {"store", "storeEarly"}
    /\ logVerbose' = IF new[p].verbose # EngineConfig.verbose THEN new[p].verbose ELSE logVerbose
    /\ loaded' = IF p = "gui" THEN NoConfig ELSE new[p]
    /\ early' = (pc[p] = "storeEarly") /\ failed' = FALSE
    /\ pc' = [pc EXCEPT ![p] = "idle"] /\ Argument(p)
    /\ UNCHANGED <<mode, keeps, fileVars, watchVars, cfg, engine, control, override, torConf,
                   crashed, edits>>

-----------------------------------------------------------------------------
(* The engine, as far as it matters here *)

\* What torrc.override may hold afterwards: debugfs does not replace a file that
\* is there.
WriteStateDiskFile(old, content) == {content} \cup (IF old = <<>> THEN {} ELSE {old})

\* vm.Instance.Start: the overlay of the shared object goes to the state disk,
\* unless it is empty.  The init script then appends what is on the disk to
\* torrc.
VMStart ==
    /\ Alive /\ engine = "starting" /\ OverlayOK(cfg)
    /\ LET overlay == TorrcOverlay(cfg) IN
       /\ override' \in IF overlay = <<>> THEN {override} ELSE WriteStateDiskFile(override, overlay)
       /\ torConf' = BootConf(override')
    /\ engine' = "booting"
    /\ UNCHANGED <<mode, keeps, fileVars, watchVars, cfg, loaded, logVerbose, control, reloadVars, edits>>

\* doFlushDNS connects the control port, or goes on without it.
ControlConnects ==
    /\ Alive /\ engine = "booting" /\ ~control
    /\ control' = TRUE
    /\ UNCHANGED <<mode, keeps, fileVars, watchVars, cfg, loaded, logVerbose, engine, override,
                   torConf, reloadVars, edits>>

\* A start that has failed for good, the VM's exit and a cancelled Run all end
\* in doShutdown, which closes the control connection.
EngineMoves(from, to) ==
    /\ Alive /\ engine = from /\ engine' = to
    /\ control' = (control /\ to # "ended")
    /\ UNCHANGED <<mode, keeps, fileVars, watchVars, cfg, loaded, logVerbose, override, torConf,
                   reloadVars, edits>>

Bootstrapped == EngineMoves("booting", "running")
RunEnds == \/ \E from \in {"starting", "booting", "running"} : EngineMoves(from, "shutdown")
           \/ EngineMoves("shutdown", "ended")

-----------------------------------------------------------------------------
(* The GUI's tabs: callbacks on one thread that edit the shared object *)

GuiIdle == Alive /\ mode = "gui" /\ main = "run" /\ pc["gui"] = "idle"

GuiSets(c) ==
    /\ GuiIdle /\ edits < MaxEdits /\ c # cfg
    /\ cfg' = c /\ edits' = edits + 1
    /\ UNCHANGED <<mode, keeps, fileVars, watchVars, loaded, logVerbose, engine, control, override,
                   torConf, reloadVars>>

\* The slider and the check box; "Reset to Defaults" sets 256 MB.
EditSettings ==
    \/ \E m \in MemSizes : GuiSets([cfg EXCEPT !.mem = m])
    \/ \E v \in BOOLEAN : GuiSets([cfg EXCEPT !.verbose = v])
    \/ GuiSets([cfg EXCEPT !.mem = 256, !.verbose = FALSE])

EditBridges ==
    \/ \E on \in BOOLEAN : GuiSets([cfg EXCEPT !.bridge.use = on])
    \/ \E t \in Transports \ {""} : GuiSets([cfg EXCEPT !.bridge.transport = t])
    \/ \E b \in BridgeLines \cup {Bad} : GuiSets([cfg EXCEPT !.bridge.lines = <<b>>])
    \/ GuiSets([cfg EXCEPT !.bridge.lines = <<>>])

\* Mutant: the text of the selector is stored as it is.
MutProxyNone ==
    \/ \E t \in {"None", "HTTP", "HTTPS", "SOCKS5"} : GuiSets([cfg EXCEPT !.proxy.type = t])
    \/ \E a \in ProxyAddresses \cup {Bad} : GuiSets([cfg EXCEPT !.proxy.address = a])

\* The selector's own texts are stored, except for "None".
EditProxy ==
    \/ \E t \in {"", "HTTP", "HTTPS", "SOCKS5"} : GuiSets([cfg EXCEPT !.proxy.type = t])
    \/ \E a \in ProxyAddresses \cup {Bad} : GuiSets([cfg EXCEPT !.proxy.address = a])

\* normalizeRelayEntry makes the well-formed entries alike; no other passes.
validateGUIRelayEntry(entry) == entry # Bad

\* An entry that the list contains is not added again.
AddEntry(list, entry) == GuiSets([cfg EXCEPT !.relays[list] = @ \cup {entry}])

RemoveEntry(list, entry) == GuiSets([cfg EXCEPT !.relays[list] = @ \ {entry}])

EditExclude ==
    \E r \in Relays \cup {Bad} :
        \/ validateGUIRelayEntry(r) /\ AddEntry("exclude", r)
        \/ RemoveEntry("exclude", r)

EditExit ==
    \E r \in Relays \cup {Bad} :
        \/ validateGUIRelayEntry(r) /\ AddEntry("exit", r)
        \/ RemoveEntry("exit", r)

\* The country selector offers well-formed entries only.
CountrySelect == \E cc \in Relays, list \in {"exclude", "exit"} : AddEntry(list, cc)

StrictCheck == \E on \in BOOLEAN : GuiSets([cfg EXCEPT !.relays.strict = on])

\* Block and Block Exit of an active relay: the entry is added, and if the
\* engine runs ReloadConfig is called with the object just changed.
Block ==
    /\ GuiIdle /\ edits < MaxEdits /\ edits' = edits + 1
    /\ \E r \in Relays : cfg' \in {[cfg EXCEPT !.relays.exclude = @ \cup {r}],
                                 [cfg EXCEPT !.relays.exit = @ \cup {r}]}
    /\ IF engine = "running"
       THEN /\ pc' = [pc EXCEPT !["gui"] = "decide"]
            /\ new' = [new EXCEPT !["gui"] = cfg']
       ELSE UNCHANGED <<pc, new>>
    /\ UNCHANGED <<mode, keeps, fileVars, watchVars, loaded, logVerbose, engine, control, override,
                   torConf, early, failed, crashed>>

\* saveConfig: every field of the shared object.
SaveConfig == GuiIdle /\ BeginWrite(File("json", cfg))

-----------------------------------------------------------------------------
WatcherStep == ReadEvent \/ TimerFires \/ ReloadReturns \/ LoopExits
ReloadStep(p) == ReloadConfig(p) \/ NilControl(p) \/ DoSetConf(p) \/ SignalReload(p) \/ Store(p)
GuiStep == EditSettings \/ EditBridges \/ EditProxy \/ EditExclude \/ EditExit
           \/ CountrySelect \/ StrictCheck \/ Block \/ SaveConfig

Next ==
    \/ EditorWrites \/ EndWrite \/ EditorRenames
    \/ WatcherStep \/ CloseBegins \/ CloseWaits
    \/ \E p \in Callers : ReloadStep(p)
    \/ VMStart \/ ControlConnects \/ Bootstrapped \/ RunEnds
    \/ GuiStep

\* A writer finishes; the watcher's goroutine runs and its timer fires; calls
\* of the control client return (readReply has a deadline); main returns from
\* Close when it can.  The engine, the editor and the user owe nothing.
Fairness ==
    /\ WF_vars(EndWrite) /\ WF_vars(WatcherStep) /\ WF_vars(CloseWaits)
    /\ \A p \in Callers : WF_vars(ReloadStep(p))

Spec == Init /\ [][Next]_vars /\ Fairness

-----------------------------------------------------------------------------
(* Properties *)

TypeOK ==
    /\ mode \in {"headless", "gui"} /\ keeps \in BOOLEAN
    /\ file.kind \in {"absent", "garbage", "insecure", "json"} /\ Len(writing) <= 1
    /\ watched \in BOOLEAN /\ events \in 0..2 * MaxEdits
    /\ timer \in {"nil", "armed", "fired"} /\ loop \in {"select", "reload", "exited"}
    /\ main \in {"run", "closing", "ended"}
    /\ cfg \in ConfigType /\ loaded \in ConfigType \cup {NoConfig} /\ logVerbose \in BOOLEAN
    /\ engine \in {"starting", "booting", "running", "shutdown", "ended"} /\ control \in BOOLEAN
    /\ pc \in [Callers -> {"idle", "decide", "setconf", "signal", "store", "storeEarly"}]
    /\ new \in [Callers -> ConfigType \cup {NoConfig}]
    /\ {early, failed, crashed} \subseteq BOOLEAN /\ edits \in 0..MaxEdits

\* Whatever is typed into the GUI or written to the file, the state disk only
\* ever gets lines that passed the validators of torrc.go, and so does Tor at
\* boot (vm.Instance.Start).  By a hot reload (ReloadConfig) Tor gets such lines,
\* cut at their first space, and the further words of bridge lines that passed.
TorOnlyValidated ==
    /\ \A i \in DOMAIN override : LineValid(override[i])
    /\ \A l \in torConf : LineValid(l) \/ \E b \in BridgeLines : l \in Rest[b]

\* Engine.Config names what Tor has been given: without a GUI, when no reload
\* is under way and the last one neither failed nor came before Running, Tor
\* (if it keeps SETCONF over RELOAD) has all that the directives of the stored
\* Config come to when they are sent.  A Config that Tor refused, such as any
\* with a plugin, is therefore never taken for the current one, with which the
\* next write of the same file would be "no changes".
TorMatchesEngine ==
    mode = "headless" /\ keeps /\ engine = "running" /\ loaded # NoConfig
        /\ pc["watcher"] = "idle" /\ ~early /\ ~failed
    => Accepted(Directives(loaded)) /\ Sent(Directives(loaded)) \subseteq torConf

\* What the watcher cannot follow: it is not running (any more), the file is
\* not loadable, the last reload failed, or nobody has written the file.
Excused == ~watched \/ ~Loads(file) \/ failed \/ crashed \/ edits = 0

\* However writes, events and the debounce timer interleave with a reload that
\* is under way, the engine ends with the hot-reloadable fields, and the
\* logger with the level, of the last thing written.
LastWriteWins ==
    mode = "headless" => <>[](\/ Excused
                              \/ /\ HotPart(EngineConfig) = HotPart(Merged(file))
                                 /\ logVerbose = Merged(file).verbose)

\* ConfigWatcher.Close returns, also when it comes during a reload.
CloseEnds == (main = "closing") ~> (main = "ended" \/ crashed)

-----------------------------------------------------------------------------
(* Statements of the repository that the code does not meet *)

\* config/diff.go: the fields that "can be applied at runtime via the Tor Control
\* Protocol (bridges, proxy, verbose)".  SetConf sends values with spaces as they
\* are, so that Tor refuses every plugin, among others.
HotReloadApplies == \A p \in Callers : pc[p] = "setconf" => Accepted(Directives(new[p]))

\* gui/relays_tab.go: "hotReloadRelays applies relay exclusion changes to the
\* running Tor instance."  ReloadConfig compares the shared object with itself.
BlockReachesTor ==
    [][(GuiIdle' /\ pc["gui"] = "decide" /\ ~failed' /\ engine = "running" /\ control) =>
           \A o \in {"ExcludeNodes", "ExcludeExitNodes"} \cap DOMAIN Directives(new["gui"]) :
               Line(o, Directives(new["gui"])[o]) \in torConf']_vars
=============================================================================
