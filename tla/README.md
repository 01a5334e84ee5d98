# TorVM: verification of the controller and the Android app

TLA+ models of TorVM (the Go controller that routes a host's traffic through Tor in a
virtual machine, and the Android app that does so for a phone), the TLC runs that check
them and the TLAPS proofs about them. Source paths are relative to the repository root
(`src/` here).

## 1. The system

| Part | State | Operations | Talks to |
|---|---|---|---|
| Lifecycle engine (`controller/internal/lifecycle/lifecycle.go`, `retry.go`, `failsafe.go`) | state, attempts, saved network, control client, failsafe flag | `Run` and a handler per state, `ShouldRetry`, `transition`, `Activate` | network manager, VM instance, control client, observers |
| Host network managers (`internal/network`) | the host's routes and TAP device | `SaveConfig`, `CreateTAP`, `SetupRouting`, `TeardownRouting`, `RestoreConfig`, `DestroyTAP` on Linux, macOS, Windows | the operating system's commands |
| Tor VM instance (`internal/vm/qemu.go`, `monitor.go`) | process, running flag, exit channel | `Start`, `Stop`, `Wait`, QMP | the QEMU process, the engine |
| Process (`cmd/torvm/main.go`, `internal/winsvc`, `torvm.service`) | context, systemd observer | signals, restart, service handler | the engine |
| Tor control client (`internal/tor`) | connection, mutex, two channels, `done` | commands, `readLoop`, `Close` | Tor; engine, GUI and config watcher call it |
| Browser VM (`lifecycle/browser.go`, `vm/browser.go`, `secwatch/monitor.go`) | state, cancel function, process, exit channel, monitor | `run`, `handleCompromise`, `Start`, `Stop`, `Wait`, monitor loops | the Tor engine's state, the GUI, secwatchd |
| Configuration (`internal/config`) | file, `Config`, debounce timer | load, validate, migrate, watch, diff, torrc overlay | engine (`ReloadConfig`), control client, state disk, GUI |
| Service managers (`internal/launchd`, `systemd`, `winsvc`) | what the host has installed, loaded, active, enabled | install, uninstall, start, stop, restart, enable, query | the operating system's commands |
| GUI (`controller/gui`) | cancel function, service mode, circuit list, dialogs, the shared `Config` | buttons, tabs, pollers | engine, browser engine, control client, service managers, configuration |
| Encrypted index (`internal/index`, `fhe`, `vectorindex`) | documents, postings, graph | add, search | relay search of the GUI |
| Android app (`android`) and iOS app (`ios`) | TCP sessions, DNS relay, VPN service | a userspace TCP/IP stack over SOCKS5 | the tunnel device, Tor |
| VM images (`vm`, `browservm`) | firewall rules, secwatchd | init scripts, event reports | the controller |
| Logging, metrics, updates, services, installers, legacy C controller | | | |

What is hard: the engine runs while its context is cancelled, its VM exits and
its process is killed at any moment, on top of what earlier attempts and earlier
processes left on the host; the control client multiplexes goroutines over one
connection whose replies carry no identification; the browser engine is executed
by several goroutines that share one exit channel; one `Config` object belongs to the
engine, the VM and the GUI at once, and a watcher replaces it in one of them; the GUI's
pollers replace what the user is looking at; the Android app is a TCP stack
whose coroutines hold no common lock, over calls that block. `PROJECT.json` lists the
places under `hazards`.

What makes each part correct:

* engine and network: traffic goes to the VM whenever the engine says Running;
  whatever the engine did, its end gives the host its own routes back; no VM
  outlives it; startup and failures come to an end;
* control client: a command gets its own reply, and everybody who waits is woken;
* browser VM: one VM at most, a stop ends it, and Tor's end is its end;
* configuration: Tor gets nothing but words of lines that were validated, the engine's
  idea of Tor's configuration is right, and the last write wins;
* GUI: what a tab shows comes to agree with the host and with Tor, and Stop ends the VM;
* DNS relay: a response that the wrong coroutine takes does not spoil more than one query
  of the same socket; no permit or socket is lost; every query ends;
* TCP stack: what an app is told has arrived has been passed on, and what it gets is
  in sequence; sessions that are over go away.

## 2. Modules

`HostNetwork` - the routing table as the set of default routes the host has
(`"orig"`, TorVM's own, and on macOS its two halves) and the TAP device. Each
operation of `network.Manager` is a relation between the configuration before and
after, with a result; a command in `Faults` may fail, also half way.
`Egress` says where packets go: what the kernel's route selection does.

`VMInstance` - `vm.Instance` and its QEMU process: process, reaper goroutine, exit
channel and the program counter of `Stop` (`stopPc`), whose QMP calls block while
QEMU hangs.

`Lifecycle` - extends both with the engine: `state` is `e.state`, `pc` where `Run`
is. Each `do...` handler is an action of its name. A handler that blocks is split
where it blocks (`doRunning`/`doRunningWake`, `doShutdown`/`doShutdownStop`/
`doShutdownDone`), since cancellation, an exit of the VM or a crash can fall there.
`Cancel`, `Crash` (systemd kills the controller, or the Windows service handler leaves
before `Run` has returned) and `Restart` are the process around it; the
systemd observer's `watchdogStop` is part of `Transition`. `OnError` is the end of
the loop in `Run`: retry, or failsafe and Shutdown.

`EgressGuard` - what the controller promises about the host's traffic, without routes,
handlers or processes: a phase and where packets go. `Lifecycle` implements it:
`GuardsEgress` is its specification under the mapping `Phase` (from `state`, `pc` and
`exit`) and `Egress(net)`.

`TorControl` - the control client. Each caller is a goroutine in `sendCommand`/
`collectResponse`; `readLoop` and `Close` are split at their tests of `done`. Lines
are the command they answer and the characters the client looks at.

`BrowserEngine` - `run`, `handleCompromise`, `BrowserInstance` and `Monitor`.
Processes and exit channels are numbered, since `Start` makes a new channel and
goroutines hold on to old ones. A free place for a monitor's loop is chosen by
`CHOOSE`, since places differ in nothing.

`DnsRelay` - `dns/DnsRelay.kt`: a coroutine per query (`pc`), the semaphore
(`permits`), the one shared socket (`sock`, with every socket ever opened and the
datagrams in each), the resolver as a set of queries that it may answer in any order
or not at all. A call that blocks (`receive`, the write to the tunnel) is a step of
its own; `stop()` is two.

`TcpSession` - `tcp/TcpSession.kt` and `TcpSessionManager.kt`: the table, and per
session its state, numbers and socket. `loop` is where the VPN service's read loop is:
it handles a packet in one step (`handlePacket`, with a disjunct per branch of the
code), except for the two places where it blocks, connecting to the SOCKS proxy and
the FIN. `reader` is where a session's upstream reader is, split wherever it reads or
sets what it does not lock. Neither does `cleanup`: `sweep` is where it is with a session,
between deciding that the session is to go (`Decide`), closing it field by field
(`CloseSocket`, `DropStreams`, `SetClosed`) and removing its key (`Remove`), and packets
are handled in between; `DropData` is the data that then finds no output stream. Apps send
one byte at a time; `written` is what reached the upstream socket.

`Config` - a `Config` and its file: `Load` with the migration, `Validate`, `Diff`, the torrc
overlay and what becomes of it in `SETCONF` and in the VM's init script. Fields that the
code treats alike are one field (`other`), a JSON file is the set of fields it names,
lists of relays are sets, `obfs4` stands for the three transports with a plugin, and a
text is well-formed or `Bad`. A proxy's credentials go with its address, the directory of
the hidden service with its port. `SETCONF` sends values without quotes, so it is modelled
by the words that arrive (`Words`): an option with the value up to the first space, and
each further word, which is the name of an option or of none. A command with a word of the
second kind is refused (`Accepted`). Of a well-formed bridge line that is `First` and
`Rest`; its further words are taken to name no option that an overlay has, since such an
option would only be set twice.

`ConfigReload` - extends it with the people who change a configuration: an editor
(`BeginWrite`/`EndWrite`, since a reader may see the file in between), the watcher's
goroutine with its timer, `ReloadConfig` in steps (`pc`, one per call over the control
connection, for the watcher and for the GUI), the engine as far as the reload looks at
it, and the tabs. The object that main made is `cfg`; `loaded` is what took its place in
`Engine.Config`.

`ServiceManager` - the three service managers as relations: each operation is the set of
its outcomes, with the service it leaves and what the caller is told.

`ServiceTab` - the Service tab on each platform and the Status tab's poll. Buttons are
atomic; a poll asks and applies in two steps, on a goroutine of its own.

`GuiApp` - Start, Stop and Quit over an engine that any number of `Run`s may move. The
engine is that of `Lifecycle`, reduced to what they share (`e.state`, the VM, its result);
neighbouring states that nothing shared tells apart are one.

`CircuitsTab` - the circuit list, its selection and dialogs, the globe as the data it
draws, the relay cache and everybody who polls. `GetCircuits` is what the client makes of
Tor's reply, that is nothing if there is more than one circuit (Deviations). `onSelected` is one
step, though it unlocks before it redraws; the poll's redraw, which is two, shows the gap.

`Gui` - composes `ServiceTab`, `GuiApp` (which share service mode) and `CircuitsTab`. A
behaviour's user works in one of the `Areas` of the window.

`MCLifecycle` instantiates `Lifecycle` for macOS and for Windows and chooses between them
in `Init`. `MCTorControl`, `MCBrowserEngine`, `MCConfigReload`, `MCGui`, `MCDnsRelay`,
`MCTcpSession` - definitions for the TLC runs. Four of them leave behaviours out:
`MCConfigReload` starts in fewer states; `MCTcpSession` bounds the bytes of the second
connection (`Bytes`, in a run without liveness) and what is sent again in it
(`ResendsEarly`); `MCGui` has Quit only while one Run has begun at most (`EarlyQuit`);
`MCBrowserEngine`, for the liveness run, has a breach or a second launch but not both
(`OneOfTwo`). What the constraints of the liveness runs leave out are steps that no fairness
obliges anybody to take, or in whose place another is possible, so no behaviour is cut
short. The theorems are in `LifecycleProofs` (with the
lemmas about network operations in `HostNetworkProofs`), `TorControlProofs`,
`BrowserEngineProofs`, `ConfigReloadProofs`, `GuiProofs`, `DnsRelayProofs` and
`TcpSessionProofs`; each extends the module it is about.

Left out inside these parts: text (command lines, log lines, DNS addresses), time
other than as "may have passed", metrics. `RestoreConfig` is kept only where it
changes routes.

## 3. Runs

| Run | Checks |
|---|---|
| `lifecycle_linux` | Linux under systemd: every command but the route's deletion may fail, VMs hang and die, cancellation and one crash with a restart at any point. `RunningIsTorified`, `HostRoutesRestored`, `FailSafeDropsDiversion`, `NoOrphanVM`, `RetryBound`, the inductive invariant `RouteInv`, and the refinement `GuardsEgress` |
| `lifecycle_others` | macOS, with two routes that can fail half way, and a Windows service, with a route that comes with the adapter's address and a handler that leaves 30 s after a stop: `GuardsEgress`. On macOS, with nobody cancelling and VMs that do not hang: startup decides (`StartupDecides`), a VM's exit ends the run (`VMExitEndsRun`), failures clean up (`FailureCleansUp`) |
| `stop_restores_network` | refuted: see Deviations |
| `failsafe_blocks` | refuted: see Deviations |
| `control` | two callers, two commands, replies longer than the channel, events, timeouts, a broken connection, `Close`: `OwnReply`, `ReplyOrder`, `CallsReturn`, `ReaderStops` |
| `browser` | two launches, a breach, exits, failing starts: `AtMostOneVM` |
| `browser_liveness` | a launch by AutoStart with stops, and a breach with its restart or a second launch: `StopEnds`, `RunEndsItsVM`, `TorEndsBrowser` |
| `dns` | four queries, one too short and two with one ID, for two permits; the resolver answers late or never, calls fail, `stop()` at any point: `CrossTalk`, `PermitsConserved`, `OneOpenSocket`, `QueriesEnd` |
| `tcp` | two connections, one after the other, of one 4-tuple, two bytes each way (one from the app in the second), writes that fail, a stop, and the cleanup between any two steps of the others: `Settled`, `AckedUntilFin`, `InSequence` |
| `tcp_liveness` | two connections of one app that sends again, servers that close, a table of one: `Reaped` |
| `config` | two edits, of the file or in the GUI, with loadable, refused, insecure and half-written files, reloads that fail at every step or that Tor refuses, an engine that boots and ends meanwhile, and Close: `TorOnlyValidated`, `TorMatchesEngine`, `LastWriteWins`, `CloseEnds` |
| `gui` | three Runs of one engine, four operations on the service of each platform, four events around two circuits with Auto-refresh turned on twice: `StopEndsVM`, `TabConverges`, `GlobeFresh`, `ListConverges`, `AutoRefreshStops` |

Bounds. One restart is enough for "a fresh engine on what another left"; a second
one starts from the same leftovers. `OrigMetric` 100 is a usual
metric of a host's own route; the theorems cover all of them. Two callers and two
commands give a stale reply and a swap; a channel of one line and a reply of four
make the reader block. Two processes give a VM, its exit and its successor; two
monitor loops are what a restart creates; two launches overwrite `b.cancel`, and
`TorEndsBrowser` is about a VM whose run Tor's end can still reach (Deviations). Four queries for two permits give a refused
query, a shared socket and a late answer to somebody else. Two sessions give a
4-tuple that is used again while reader and cleanup of its first session are still at work;
two bytes in each direction are enough for an order, a gap and a repetition.
`tcp` has no retransmissions, since the stack does not handle them (Deviations).
Two edits give a write during the reload of another, and a GUI edit that is saved over
one. `TorMatchesEngine` and `LastWriteWins` are about the headless controller, where the
watcher is the only writer, and the first about a Tor that keeps `SETCONF` over `RELOAD`;
what happens otherwise is under Deviations. Of three Runs one can move a second through
the shared state past its VM while a third is the one that Stop cancels: `StopEndsVM` is
about a Stop after which no Run that goes on, and not the VM, is out of reach
(`Stoppable`); without this condition TLC refutes it with three Runs (Deviations). Four operations are enough to install, change, break and remove a service
between two polls; two circuits, to put another entry at a selected index; two tickers,
to hand one goroutine the other's channel.

Fairness. Goroutines that can run do run (the Go scheduler), the kernel delivers SIGKILL,
and in `control` Tor answers while the connection holds. Nothing obliges a guest to exit,
a user to act, Tor to come up or a timer of `collectResponse` to fire. On Android
coroutines run, the socket timeouts fire and time passes; apps, servers and the resolver
owe nothing. In `config` a writer that has begun finishes, the watcher's timer fires and
the control client's calls return (they have a deadline); the engine, the editor and the
user owe nothing. In `gui` tickers that have not been stopped fire (so that an older list that replaced a newer
one is itself replaced), commands they run return and a killed process dies; the user need not click and a guest need not exit. Deadlock is not checked where
the system really may stop: after its last restart, after `Close`, after the last query,
connection, edit or click.

## 4. Proofs

Every invariant that a run checks, the action property `InSequence` and the refinement
`GuardsEgress` are theorems as well, for every value of the constants: the bounds of the
runs are parameters, so they hold for any number of callers, sessions, edits, queries or
restarts. They rest on the named assumptions of the modules (`PlatformAssumption`,
`ControlAssumption`, ...), which say what set a constant is from and that stand-ins differ
from what they stand beside; TLC evaluates them in the runs. A theorem that needs more has it
as a hypothesis, named below. Most of the invariants are not inductive; the strengthening
is what the proofs are about; those of the control client and the TCP stack TLC has checked
on the runs' instances first.

| Theorem | Property | Hypothesis |
|---|---|---|
| `LifecycleProofs!TypeCorrect` | `TypeOK` | |
| `RoutesInvariant` | `RouteInv` | |
| `RunningTorified` | `RunningIsTorified` | `TorMetric < OrigMetric` |
| `ReturnRestoresRoutes`, `FailSafeReleases` | `HostRoutesRestored`, `FailSafeDropsDiversion` | (in the property: `TeardownReliable`) |
| `NoVMLeftBehind`, `RetriesBounded` | `NoOrphanVM`, `RetryBound` | |
| `EngineGuardsEgress` | `GuardsEgress` | `TorMetric < OrigMetric`, `TeardownReliable` |
| `TorControlProofs!TypeCorrect`, `RepliesInOrder` | `TypeOK`, `ReplyOrder` | |
| `OwnReplyOnly` | `OwnReply` | `WellFramed` |
| `BrowserEngineProofs!OneBrowserVM` | `AtMostOneVM` | |
| `ConfigReloadProofs!TypeCorrect`, `OnlyValidatedLines`, `EngineConfigGiven` | `TypeOK`, `TorOnlyValidated`, `TorMatchesEngine` | |
| `GuiProofs!GlobeFollowsList` | `GlobeFresh` | |
| `DnsRelayProofs!TypeCorrect`, `NoPermitLost`, `SpoiledWithinSocket`, `SocketsNotLeaked` | `TypeOK`, `PermitsConserved`, `CrossTalk`, `OneOpenSocket` | |
| `TcpSessionProofs!LoopFindsSettled`, `RelayedInSequence` | `Settled`, `InSequence` | |
| `AckedWasWritten` | `AckedUntilFin` | `~MayPiggyback`, `MaxResend = 0` |

**Lifecycle.** "The routes are restored at the end" is not inductive: the end is
reached through Shutdown and RestoreNetwork, from any state, after any number of
retries, and after a restart on a dirty host. `RouteInv` says for every state of
the engine which routes the host can have: TorVM's routes where they are required
(from FlushDNS to Running), none left once RestoreNetwork is done or the failsafe
is active, the host's own always unless its metric is TorVM's. It is inductive
together with `TypeOK`; the lemmas of `HostNetworkProofs` say what one network
operation does to the routes on each platform, and the theorem has one step per
action. `OrphanInv` carries `NoOrphanVM`: a live process has its reaper and an empty exit
channel, `Stop` is under way only inside doShutdown, and past Shutdown the process is dead or
killed. `RetryInv` counts calls by the states the engine has behind it, since
the counter `attempts` itself is reset: a handler not yet reached has not been called, the
current one once per attempt, a former one no more. `EngineGuardsEgress` is a refinement:
the initial states map to one of `EgressGuard`, and each action of engine, VM and process to
one of its actions or to a stutter. It uses `RouteInv` for where packets go and
`PhaseInv` for where `Run` can be when a step changes them (a panic of the
systemd observer, in particular, never falls into a step that changes routes).

**Control client.** `LockInv` (whoever collects holds the mutex and has sent the last
command) and `OrderInv`: what a caller has collected, what is in `syncResp`, in the hands of
`readLoop`, on the wire and still with Tor answers commands in this order, none of them yet
to be sent. That gives `ReplyOrder` in spite of timeouts. `OwnReply` is exact, and needs the
form of replies: `WellFramed` says that the line the client takes for the end of a reply is
its last one, which Tor's replies are except for the lists of circuits of
Deviations. Then, until a command is given up, the pieces of the reply that caller,
channel, reader and wire hold make up the whole of it, and between
commands there are none (`Served`, with `NumbersInv`: a number is given to one caller).

**Browser VM.** `VMInv`: a process that is up has a reaper that waits, one reaper waits at
most, and `running` is set while one does. `Start` tests `running` under its lock, so a
second process cannot come up, whoever calls.

**Configuration.** `TypeInv` adds to the types that each write leaves room for its events and
that a call under way has an argument. `ValidInv`: a call that is about to send SETCONF
passed the validators, the lemma `OverlayValid` that an overlay that passed them has no
ill-formed line, and `WordsOfLine` that a word of a line that SETCONF sends is such a line, or a
further word of a bridge line that passed. `MatchInv` follows one call of `ReloadConfig` by
the watcher: before Running nothing is sent; past SETCONF Tor has accepted the argument and
has all its words; until then it has what was stored. A reload that fails, be it that
Tor refuses it, stores nothing, so the implication survives.

**GUI.** `FreshInv` is `GlobeFresh` with the fact that a poll that has replaced the list
stays at Redraw until the globe is drawn.

**DNS relay.** `PermitsConserved` needs the types, and the types need it: that a permit's return stays within the bound is the fact that
whoever returns one is among `Holders`, and so lowers their number. `OneOpenSocket` needs
`SocketInv`: the current socket and those that coroutines use were opened, and a
coroutine that has not asked for a socket has opened none. The lemmas say what a
coroutine's step onto or off the set of holders does to its cardinality. `CrossTalk` follows
each response from the resolver through a socket to a coroutine: it is in one place
only and in the socket its query used (`InFlight`), what a coroutine has been given it took
from the socket it used (`Given`), and a query on whose response another has failed
can get no other (`Spoiled`).

**TCP stack.** `LoopInv`: sessions are numbered as they come and are under one key each; a
session in SYN_RECEIVED or CLOSE_WAIT is the one that the read loop works on, and one that
connects has no reader. That is `Settled`, and it is why a packet meets only the branches the
model has. `SeqInv`: until a FIN, `ourSeq` follows the bytes relayed, or is the number
of the byte just sent. For `AckedUntilFin`, `StreamInv` describes the tunnel: of
an app's bytes the session has written the first m, the tunnel holds exactly the others, in
order (`Ahead`), the FIN behind them, and a SYN behind everything else of its
app. The lemmas on `Ahead` say what taking the first packet or adding one does to it; so data
that arrives is the next byte, and a FIN arrives when nothing is missing. `SweepInv` says
where the cleanup breaks this: an open session whose output is gone is the one that cleanup
is at, between dropping its streams and setting its state (`Emptied`). Both hypotheses are needed: a byte that is sent again is written again, and the data of a FIN is
acknowledged but not written (`AckedIsWritten` in Deviations).

`BrowserEngineProofs` and `TcpSessionProofs` prove type correctness too, which no run lists.

What proving changed in the models: kinds of control lines are plain words, since the SMT
backend does not take strings with blanks; the type of a `Config` has a name per group of
fields; the cases of `ReloadConfig` exclude each other; some types have a name
(`LineType`, `Typed`) and the assumptions say that `Bad` is no transport and that `NoPoll`
differs from `Redraw`. No behaviour was added or removed.

Only model-checked: what must happen eventually, since the proof system does not support
fairness and `ENABLED` (`VMExitEndsRun`, `StartupDecides`, `FailureCleansUp`,
`CallsReturn`, `ReaderStops`, `StopEnds`, `RunEndsItsVM`, `TorEndsBrowser`, `QueriesEnd`,
`Reaped`, `LastWriteWins`, `CloseEnds`, `TabConverges`, `ListConverges`, `StopEndsVM`, `AutoRefreshStops`).
No module uses a recursive operator; what a recursive definition computes for every input
would stay with TLC as well.

## 5. Deviations

What documents or comments say and the model refutes. The first two have a run;
for the others that have a name, the formula is in the module and is refuted as
described.

* `StopRestoresNetwork` (README.md:198): `Run` tests the context at the top of
  every iteration, so that after a stop request it goes back to Shutdown for ever
  and never executes RestoreNetwork.
* `FailSafeBlocks` (README.md:68): the failsafe deletes TorVM's routes, and traffic
  takes the host's own route.
* `StopIsNoPanic`, under systemd: the second transition to Shutdown closes
  `watchdogStop` again (main.go:288).
* `FailSafeOnVMExit` (README.md:197): not if QEMU exits with status 0.
* `RunningIsTorified` with `OrigMetric` = 0, and `OwnRouteKept` with `OrigMetric` = 50
  on Linux: the route of metric 50 diverts nothing, or its deletion takes the
  host's own (network_linux.go:74, 82).
* `TapRemoved`: `DestroyTAP` runs before a killed QEMU is gone.
* `FailureCleansUp` with `MayHang`: the QMP client has no deadline (monitor.go:56).
* `CollectsItsReply` (control.go:161): the late reply to a command that timed out,
  or the rest of a list of circuits with an ID of three digits, goes to the next
  command. `GetCircuits` loses values in data lines, that is every list of more
  than one circuit.
* `NoPanic` of `TorControl`: `Close` and the reader both close `done`.
* `TorEndsBrowser` with `AutoStart` = FALSE: only AutoStart's observer stops the
  browser (main.go:347). And without its condition: a second launch overwrites `b.cancel`
  (browser.go:105), so that the end of Tor cancels the second run only and the VM of the
  first stays up.
* `KillAndRestart` (config.go:139): the exit of the compromised VM ends `run`, whose
  deferred cancel ends the restart.
* `ExitNoticed` (vm/browser.go:144): after a restart `Wait` listens to the old channel.
* `MonitorListens` (secwatch/monitor.go:53): the second session is not monitored.
* `StopReachesVM` (browser.go:92): a second, failing run overwrites `b.cancel`.
* `ReusableAfterTimeout` (DnsRelay.kt:183): the late answer to a
  query that timed out stays in the shared socket and fails the next query, whose own
  answer then fails the one after it.
* `StopClosesSocket` (DnsRelay.kt:63): a coroutine with a permit opens a new socket
  after `stop()`.
* `AckedIsWritten` (TcpSession.kt:55): a FIN acknowledges the data it carries, and any
  data before it that FIN_WAIT_1 and FIN_WAIT_2 ignored, although none was written; a
  byte that is sent again is written again.
* `Settled` holds, and is the opposite of what the comments say: "If upstream is not
  connected yet the session stays in SYN_RECEIVED" when an ACK arrives (TcpSession.kt:135),
  "Begin upstream SOCKS5 connection asynchronously" (214), "If the three-way handshake ACK
  already arrived while we were connecting" (321). But it is the read loop that
  connects, and it takes no packet until it has: no packet ever meets SYN_RECEIVED, the
  branches for it are dead, and the connecting of one session holds up every other.
* Between the streams and the state of a session that `cleanup` closes (TcpSession.kt:383,
  384) data is dropped without an acknowledgement (232), and a FIN behind it acknowledges
  it (250). `AckedUntilFin` excepts a session at this place.
* `cleanup` removes its key through the iterator (TcpSessionManager.kt:186) after it has
  closed the session: a new session that has taken the key meanwhile goes with it, and keeps
  its socket.
* `SocketsBounded` (TcpSessionManager.kt:110): a session that ends in LAST_ACK, or that
  is reaped while it connects, leaves the table without its socket being closed.

Met while modelling the configuration:

* `HotReloadApplies` (diff.go:10 "can be applied at runtime via the Tor Control Protocol
  (bridges, proxy, verbose)", lifecycle.go:170 "suitable for SetConf"): `SetConf` sends
  values without quotes (control.go:119), so Tor refuses each with a space whose next word
  is no option: every pluggable transport, a bridge with a fingerprint, the port of
  the hidden service. A further word that is the name of an option sets that option,
  although nothing has validated it as one.
* `BlockReachesTor` (relays_tab.go:391 "applies relay exclusion changes to the running
  Tor instance"): the GUI passes the object that `Engine.Config` is, so `Diff` finds
  no change and nothing is sent.
* `NilControl`: `ReloadConfig` tests `TorControl` once and reads it again for each call
  (lifecycle.go:138, 147, 152), while doShutdown sets it to nil: the watcher panics.
* An editor that renames a new file over the old one ends the watch (watcher.go:31), though
  the comment at watcher.go:61 counts on "create (rename-into)" events.
* A change loaded before Running is stored in `Engine.Config` only. The VM boots with the
  object main made, and the next load of the same file is "no changes" (lifecycle.go:156
  logs "changes will apply on next restart").
* Bridges that are turned off stay on: an empty overlay is neither written to the state
  disk nor sent (qemu.go:121, lifecycle.go:145). Of several bridges a reload sends the
  last (lifecycle.go:171), and debugfs does not replace an overlay that is there. A RELOAD
  may discard what SETCONF has just set. `HTTPProxy` is not in torvminit's list.
* The proxy tab stores "HTTP", which `Validate` refuses: a saved configuration of this
  kind is not loaded again (proxy_tab.go:50, config.go:308).

Met while modelling the GUI:

* `VMCanBeStopped` (app.go:185): a Start soon after a Stop lets two Runs move the engine;
  the first to return takes the second one's cancel function with it (app.go:147). With three
  Runs, the shutdown of the first moves the second past its VM to Cleanup through the
  shared state (lifecycle.go:224-272), both return, and a Stop cancels the third only:
  the VM stays.
* `GetCircuits` shows an empty list whenever Tor has more than one circuit, since
  `GetInfo` does not read data lines (circuit.go:20, control.go:86).
* After a Run that ended in order the engine's state stays Cleanup, so the next Start
  returns at once. `fail`, the only code that sets Failed, is called by nothing, so that
  its dialog is never shown.
* "doQuit performs a clean quit" (systray.go:79) does not wait for the Run it cancels.
* In service mode Start and Stop call launchd on every platform, which on Linux is a stub
  that fails. Service mode stays on after an uninstall elsewhere, or a stale poll.
* A stale poll can undo the click on "Start on Boot", since `SetChecked` calls the box's
  handler. `systemd.Uninstall` always reports success.
* Close Circuit acts on the index of the selection in a list that polls replace. A relay
  that could not be located once stays so. The list is kept when Tor has gone.

## 6. Not modelled

* Of the configuration: the regular expressions, addresses and ports that `Validate`
  compares, and the fields of the browser, of retries and of paths, one by one. CPU and
  SOCKS port, which the settings tab edits too, stay in `other`.
* Of the GUI: the Status and Log displays, the geometry of the globe, the
  fetching of active relays, and the tray, which is another way to click. Confirmation
  dialogs of the Service tab are one step with the click. Status queries do not fail.
* `NewIdentity` of the engine: one control command.
* Update checker, route verifier (called by nothing), logging and metrics: no state that
  the rest of the program depends on.
* Encrypted index, FHE, vector index: numeric algorithms over floats and large
  integers; of them only the index structures are within TLC's reach.
* SOCKS client, VPN service, packet parsing and the congestion window of the Android
  app: the read loop is in `TcpSession`, the rest not yet. What the service does after
  `stopVpn` with a packet it has already read is left out.
* `Monitor.Stop` of the browser VM is one step, although it tests `done` and closes it in
  two; so two runs that end together and panic are not found.
* VM images (but for the list of torrc options), secwatchd, iOS: shell, C and Swift
  counterparts; the controller's view of secwatchd is in `BrowserEngine`.
* Installers, build, legacy controller, third-party patches: no logic of this program.

## 7. Plan

Proofs: the safety half of the liveness properties, as far as it can be stated without
fairness: that whoever waits has somebody left to wake it (in `TorControl`, a reader that is
gone has closed `done`; in `BrowserEngine`, a run that waits has a reaper or a result; in
`VMInstance` likewise). Type correctness of `Gui`, whose parts `ServiceTab` and `GuiApp` have
no theorem yet.

Models:

1. The control client as a queue of calls, implemented by `TorControl`.
2. `Socks5Client` and `TorVpnService`: the handshake against a proxy that stops half
   way, start and stop of the service with what they leave.
3. `CongestionController`, `RingWriter`, version comparison and the index's postings as
   operators against reference definitions.
4. secwatchd's reporting and the firewall rules of the VM's init scripts; iOS where it
   differs from Android.
