----------------------------- MODULE CircuitsTab -----------------------------
(***************************************************************************)
(* The Circuits tab of the GUI (circuits_tab.go) over the control          *)
(* connection's circuit and relay queries (tor/circuit.go, tor/relay.go)   *)
(* and the globe.  The list is rebuilt by whoever polls: the window's      *)
(* goroutine (Refresh, Auto-refresh, Close), the goroutines that           *)
(* Auto-refresh starts, and the engine's observer.  A poll asks Tor        *)
(* without the lock, rebuilds the list under it, and then redraws the      *)
(* globe; meanwhile the user selects, closes and blocks by what is shown.  *)
(***************************************************************************)
EXTENDS Naturals, Sequences

CONSTANTS
    Relays,      \* fingerprints
    Circuits,    \* circuit IDs
    Path,        \* the relays of each circuit
    MaxTickers,  \* bound: how often Auto-refresh is turned on
    MaxEvents,   \* bound: the changes of Tor's circuits and what the user does
    NoPoll,      \* a poller that is not polling
    Redraw,      \* a poller that has rebuilt the list and not yet drawn the globe
    NoDialog     \* no dialog is open

Tickers == 1..MaxTickers
Window == 0                   \* the window's goroutine
Observer == MaxTickers + 1    \* the engine's goroutine, in the observer
Pollers == Tickers \cup {Window, Observer}

ASSUME CircuitsAssumption ==
    /\ Path \in [Circuits -> Seq(Relays)]
    /\ MaxTickers \in Nat
    /\ MaxEvents \in Nat
    /\ NoPoll # Redraw

VARIABLES
    built,      \* circuit-status: the circuits Tor has BUILT or EXTENDED, in order
    connected,  \* e.TorControl # nil and the engine is Running
    list,       \* circuits: ID and resolved relays of each entry
    selected,   \* selectedIdx + 1
    cache,      \* relayCache: whether the relay was located, for those it holds
    globe,      \* the paths drawn on the globe and which one is highlighted
    poller,     \* what each poller holds: NoPoll, the circuits it has fetched, Redraw
    auto,       \* autoRefresh
    done,       \* tickerDone: the number of the current channel
    closed,     \* the channels that are closed
    ticker,     \* of each goroutine of Auto-refresh, whether it is "unborn", at the top
                \* of its "loop", in its "select", in a "poll" or "ended", and the
                \* channel its select listens on
    dialog,     \* the relays, as captured, that a Block dialog offers
    excluded,   \* cfg.Relays.ExcludeNodes
    events      \* how much of MaxEvents is used

circuitVars == <<built, connected, list, selected, cache, globe, poller, auto, done, closed,
                 ticker, dialog, excluded, events>>

torVars == <<built, connected>>
tickerVars == <<auto, done, closed, ticker>>
blockVars == <<dialog, excluded>>

Event == events < MaxEvents /\ events' = events + 1

-----------------------------------------------------------------------------
(* Resolving relays *)

relayRole(i, n) == IF i = 1 THEN "guard" ELSE IF i = n THEN "exit" ELSE "middle"

\* ResolveRelay asks for the address and then for the country; either may fail
\* for any relay, and the entry then has no location.  Whatever comes out is
\* cached for good.
Resolutions(cs) ==
    LET asked == UNION {{Path[c][i] : i \in DOMAIN Path[c]} : c \in cs} \ DOMAIN cache
    IN  {[r \in DOMAIN cache \cup asked |-> IF r \in asked THEN answer[r] ELSE cache[r]] :
            answer \in [asked -> BOOLEAN]}

\* resolveCircuit, with the relays it could ask for in the cache ch.
resolveCircuit(c, ch) ==
    [i \in DOMAIN Path[c] |->
        [fp |-> Path[c][i], located |-> ch[Path[c][i]], role |-> relayRole(i, Len(Path[c]))]]

\* updateGlobe: the paths of the list, and the selected one.
Drawn(l, sel) == [i \in DOMAIN l |-> [relays |-> l[i].relays, marked |-> i = sel]]

-----------------------------------------------------------------------------
(* pollCircuits *)

\* GETINFO gives a list of several circuits as data lines, which the client does
\* not read: it finds none then.
GetCircuits(circs) == IF Len(circs) > 1 THEN <<>> ELSE circs

\* GetCircuits, without the lock.  It may fail; what is shown stays then.
fetch(p) ==
    /\ poller[p] = NoPoll
    /\ \/ connected /\ poller' = [poller EXCEPT ![p] = GetCircuits(built)]
       \/ UNCHANGED poller

\* Mutant: a poll that finds as many circuits as are shown changes nothing.
MutRebuild(p) ==
    /\ poller[p] \notin {NoPoll, Redraw}
    /\ LET cs == {poller[p][i] : i \in DOMAIN poller[p]}
       IN  \E ch \in Resolutions(cs) :
             /\ cache' = ch
             /\ ~connected => \A r \in DOMAIN ch \ DOMAIN cache : ~ch[r]
             /\ list' = IF Len(list) = Len(poller[p]) THEN list
                        ELSE [i \in DOMAIN poller[p] |->
                               [id |-> poller[p][i], relays |-> resolveCircuit(poller[p][i], ch)]]
    /\ poller' = [poller EXCEPT ![p] = Redraw]
    /\ UNCHANGED <<torVars, selected, globe, tickerVars, blockVars, events>>

\* The list is rebuilt under the lock, which is held over the queries of
\* resolveCircuit; without a connection by then nothing can be located.
rebuild(p) ==
    /\ poller[p] \notin {NoPoll, Redraw}
    /\ LET cs == {poller[p][i] : i \in DOMAIN poller[p]}
       IN  \E ch \in Resolutions(cs) :
             /\ cache' = ch
             /\ ~connected => \A r \in DOMAIN ch \ DOMAIN cache : ~ch[r]
             /\ list' = [i \in DOMAIN poller[p] |->
                           [id |-> poller[p][i], relays |-> resolveCircuit(poller[p][i], ch)]]
    /\ poller' = [poller EXCEPT ![p] = Redraw]
    /\ UNCHANGED <<torVars, selected, globe, tickerVars, blockVars, events>>

\* updateGlobe reads the list again, under the lock.
redraw(p) ==
    /\ poller[p] = Redraw
    /\ globe' = Drawn(list, selected)
    /\ poller' = [poller EXCEPT ![p] = NoPoll]
    /\ UNCHANGED <<torVars, list, selected, cache, tickerVars, blockVars, events>>

\* The window's goroutine does nothing else while it polls.
WindowFree == poller[Window] = NoPoll

Refresh ==
    /\ Event
    /\ WindowFree
    /\ fetch(Window)
    /\ UNCHANGED <<torVars, list, selected, cache, globe, tickerVars, blockVars>>

\* The engine's observer, on reaching Running.
Reaches ==
    /\ Event
    /\ ~connected
    /\ connected' = TRUE
    /\ \/ auto /\ poller[Observer] = NoPoll /\ poller' = [poller EXCEPT ![Observer] = GetCircuits(built)]
       \/ UNCHANGED poller
    /\ UNCHANGED <<built, list, selected, cache, globe, tickerVars, blockVars>>

-----------------------------------------------------------------------------
(* Auto-refresh *)

\* A new channel and ticker, a goroutine, and a first poll at once.
AutoOn ==
    /\ Event
    /\ WindowFree
    /\ ~auto
    /\ done < MaxTickers
    /\ auto' = TRUE
    /\ done' = done + 1
    /\ ticker' = [ticker EXCEPT ![done + 1].at = "loop"]
    /\ fetch(Window)
    /\ UNCHANGED <<torVars, list, selected, cache, globe, closed, blockVars>>

\* Mutant: the ticker is stopped and the channel left open.
MutAutoOff ==
    /\ Event
    /\ WindowFree
    /\ auto
    /\ auto' = FALSE
    /\ UNCHANGED <<torVars, list, selected, cache, globe, poller, done, closed, ticker, blockVars>>

AutoOff ==
    /\ Event
    /\ WindowFree
    /\ auto
    /\ auto' = FALSE
    /\ closed' = closed \cup {done}
    /\ UNCHANGED <<torVars, list, selected, cache, globe, poller, done, ticker, blockVars>>

\* The select reads ticker and tickerDone anew on each iteration: a goroutine
\* that was polling while the box was turned off and on goes on with the second
\* channel.
tickerSelect(t) ==
    /\ ticker[t].at = "loop"
    /\ ticker' = [ticker EXCEPT ![t] = [at |-> "select", on |-> done]]
    /\ UNCHANGED <<torVars, list, selected, cache, globe, poller, auto, done, closed, blockVars, events>>

\* The ticker whose ticks a goroutine waits for has not been stopped.
Ticking(t) == auto /\ ticker[t].on = done

\* A tick; one may still be buffered after the ticker has been stopped.  Those of
\* a ticker that runs are not bounded.
tickerTick(t) ==
    /\ ticker[t].at = "select"
    /\ Event \/ (Ticking(t) /\ UNCHANGED events)
    /\ fetch(t)
    /\ ticker' = [ticker EXCEPT ![t].at = "poll"]
    /\ UNCHANGED <<torVars, list, selected, cache, globe, auto, done, closed, blockVars>>

tickerPolled(t) ==
    /\ ticker[t].at = "poll"
    /\ poller[t] = NoPoll
    /\ ticker' = [ticker EXCEPT ![t].at = "loop"]
    /\ UNCHANGED <<torVars, list, selected, cache, globe, poller, auto, done, closed, blockVars, events>>

tickerEnds(t) ==
    /\ ticker[t].at = "select"
    /\ ticker[t].on \in closed
    /\ ticker' = [ticker EXCEPT ![t].at = "ended"]
    /\ UNCHANGED <<torVars, list, selected, cache, globe, poller, auto, done, closed, blockVars, events>>

-----------------------------------------------------------------------------
(* Selecting, closing, blocking *)

\* Mutant: the globe is left to the next poll.
MutOnSelected ==
    /\ Event
    /\ WindowFree
    /\ selected' \in DOMAIN list
    /\ UNCHANGED <<torVars, list, cache, globe, poller, tickerVars, blockVars>>

onSelected ==
    /\ Event
    /\ WindowFree
    /\ \E i \in DOMAIN list :
         /\ selected' = i
         /\ globe' = Drawn(list, i)
    /\ UNCHANGED <<torVars, list, cache, poller, tickerVars, blockVars>>

\* The circuit whose entry is at the selected index now, if there is one.
Selection == IF selected \in DOMAIN list THEN {list[selected]} ELSE {}

\* CLOSECIRCUIT for the selected index, and a poll; either may fail, the first
\* also after Tor has closed the circuit.
closeBtn ==
    /\ Event
    /\ WindowFree
    /\ connected
    /\ \E e \in Selection : built' \in {built, SelectSeq(built, LAMBDA c : c # e.id)}
    /\ \/ poller' = [poller EXCEPT ![Window] = GetCircuits(built')]
       \/ UNCHANGED poller
    /\ UNCHANGED <<connected, list, selected, cache, globe, tickerVars, blockVars>>

\* The dialog keeps the relays that were shown when it opened.
blockBtn ==
    /\ Event
    /\ WindowFree
    /\ dialog = NoDialog
    /\ \E e \in Selection : e.relays # <<>> /\ dialog' = e.relays
    /\ UNCHANGED <<torVars, list, selected, cache, globe, poller, tickerVars, excluded>>

\* A tap on the globe hits a relay that is drawn.
onNodeTapped ==
    /\ Event
    /\ dialog = NoDialog
    /\ \E i \in DOMAIN globe : \E k \in DOMAIN globe[i].relays :
         dialog' = <<globe[i].relays[k]>>
    /\ UNCHANGED <<torVars, list, selected, cache, globe, poller, tickerVars, excluded>>

\* The user blocks one of the relays offered, or cancels.  The ReloadConfig
\* that follows is that of Block in ConfigReload.
confirm ==
    /\ dialog # NoDialog
    /\ WindowFree
    /\ dialog' = NoDialog
    /\ \/ \E k \in DOMAIN dialog : excluded' = excluded \cup {dialog[k].fp}
       \/ UNCHANGED excluded
    /\ UNCHANGED <<torVars, list, selected, cache, globe, poller, tickerVars, events>>

-----------------------------------------------------------------------------
(* Tor, and the specification *)

\* Tor builds or drops a circuit, or the engine leaves Running.
TorMoves ==
    /\ Event
    /\ \/ /\ \E c \in Circuits :
               \/ (\A i \in DOMAIN built : built[i] # c) /\ built' = Append(built, c)
               \/ (\E i \in DOMAIN built : built[i] = c) /\ built' = SelectSeq(built, LAMBDA d : d # c)
          /\ UNCHANGED connected
       \/ connected /\ connected' = FALSE /\ UNCHANGED built
    /\ UNCHANGED <<list, selected, cache, globe, poller, tickerVars, blockVars>>

CircuitsInit ==
    /\ built \in {<<>>} \cup {<<c>> : c \in Circuits}
    /\ connected = TRUE
    /\ list = <<>>
    /\ selected = 0
    /\ cache = [r \in {} |-> FALSE]
    /\ globe = <<>>
    /\ poller = [p \in Pollers |-> NoPoll]
    /\ auto = FALSE
    /\ done = 0
    /\ closed = {}
    /\ ticker = [t \in Tickers |-> [at |-> "unborn", on |-> 0]]
    /\ dialog = NoDialog
    /\ excluded = {}
    /\ events = 0

CircuitsUser ==
    \/ Refresh \/ AutoOn \/ AutoOff \/ onSelected \/ closeBtn \/ blockBtn \/ onNodeTapped
    \/ confirm \/ Reaches \/ TorMoves \/ \E t \in Tickers : tickerTick(t)

CircuitsStep(p) == rebuild(p) \/ redraw(p)

tickerStep(t) == tickerSelect(t) \/ tickerPolled(t) \/ tickerEnds(t)

\* Every goroutine that can run does, Tor answers or the connection fails, and a
\* ticker that runs ticks, for whichever goroutine.
CircuitsFairness ==
    /\ WF_circuitVars(\E t \in Tickers : Ticking(t) /\ tickerTick(t))
    /\ \A p \in Pollers : WF_circuitVars(CircuitsStep(p))
    /\ \A t \in Tickers : WF_circuitVars(tickerStep(t))

CircuitsTypeOK ==
    /\ built \in Seq(Circuits)
    /\ \A i \in DOMAIN list : list[i].id \in Circuits
    /\ selected \in Nat
    /\ DOMAIN cache \subseteq Relays
    /\ done \in 0..MaxTickers
    /\ closed \subseteq 1..done
    /\ ticker \in [Tickers -> [at : {"unborn", "loop", "select", "poll", "ended"}, on : 0..MaxTickers]]

-----------------------------------------------------------------------------
(* Properties *)

\* Whoever polls, selects or closes in whatever order, the globe shows the list
\* and its selection as soon as no poll is between the two.
GlobeFresh ==
    (\A p \in Pollers : poller[p] # Redraw) => globe = Drawn(list, selected)

\* A tick whose query fails.
TickFails ==
    \E t \in Tickers : ticker[t].at = "select" /\ ticker'[t].at = "poll" /\ poller'[t] = NoPoll

\* Polls of several goroutines end in any order, so that an old result can
\* replace a newer one (circuits_tab.go:139-159).  With Auto-refresh on, the list
\* nevertheless ends with what GetCircuits finds in the circuits that Tor has,
\* unless queries go on failing.
ListConverges ==
    \/ []<>(~auto \/ ~connected)
    \/ []<><<TickFails>>_circuitVars
    \/ <>[](GetCircuits(built) = [i \in DOMAIN list |-> list[i].id])

\* Turning Auto-refresh off ends its goroutines, also those that were polling
\* when an earlier channel was closed, unless it is turned on again.
AutoRefreshStops ==
    ~auto ~> (auto \/ \A t \in Tickers : ticker[t].at \in {"unborn", "ended"})
=============================================================================
