------------------------------ MODULE GuiProofs ------------------------------
(***************************************************************************)
(* Proofs about the Circuits tab, in the GUI it is a part of: however many *)
(* pollers rebuild the list while the user selects, closes and blocks, the *)
(* globe follows the list.                                                 *)
(*                                                                         *)
(* GlobeFresh says nothing while a poll is between the list and the globe, *)
(* so a step that ends such a poll has to draw.  The one fact it needs     *)
(* besides is that poller is a function on the pollers: a list that is     *)
(* rebuilt then always leaves its poller at Redraw.                        *)
(***************************************************************************)
EXTENDS Gui, TLAPS

FreshInv ==
    /\ DOMAIN poller = Pollers
    /\ poller = [p \in Pollers |-> poller[p]]
    /\ GlobeFresh

\* Steps that leave the list, the selection, the globe and the pollers alone.
LEMMA FreshQuiet ==
    ASSUME FreshInv, UNCHANGED <<list, selected, globe, poller>>
    PROVE  FreshInv'
  BY DEF FreshInv, GlobeFresh, Drawn

\* A poller that is idle fetches, or keeps idle: no redraw is lost by it.
LEMMA FreshFetch ==
    ASSUME FreshInv, UNCHANGED <<list, selected, globe>>,
           NEW p \in Pollers, poller[p] = NoPoll,
           NEW v, poller' \in {poller, [poller EXCEPT ![p] = v]}
    PROVE  FreshInv'
<1>1. CASE poller' = poller
  BY <1>1, FreshQuiet
<1>2. CASE poller' = [poller EXCEPT ![p] = v]
  <2>1. DOMAIN poller' = Pollers /\ poller' = [q \in Pollers |-> poller'[q]]
    BY <1>2 DEF FreshInv
  <2>2. ASSUME \A q \in Pollers : poller'[q] # Redraw
        PROVE  \A q \in Pollers : poller[q] # Redraw
    BY <1>2, <2>2, CircuitsAssumption DEF FreshInv
  <2> QED BY <2>1, <2>2 DEF FreshInv, GlobeFresh, Drawn
<1> QED BY <1>1, <1>2

\* The window's goroutine, the observer and the tickers are pollers.
LEMMA PollersFacts == Window \in Pollers /\ Observer \in Pollers /\ Tickers \subseteq Pollers
  BY DEF Pollers

\* What the user, the engine's observer and Tor do.
LEMMA UserKeepsFresh == ASSUME FreshInv, CircuitsUser PROVE FreshInv'
<1>1. CASE Refresh \/ AutoOn
  <2>1. fetch(Window) /\ UNCHANGED <<list, selected, globe>>
    BY <1>1 DEF Refresh, AutoOn
  <2> QED BY <2>1, FreshFetch, PollersFacts DEF fetch
<1>2. CASE \E t \in Tickers : tickerTick(t)
  <2>1. PICK t \in Tickers : fetch(t) /\ UNCHANGED <<list, selected, globe>>
    BY <1>2 DEF tickerTick
  <2> QED BY <2>1, FreshFetch, PollersFacts DEF fetch
<1>3. CASE Reaches
  <2>1. CASE poller' = poller
    BY <1>3, <2>1, FreshQuiet DEF Reaches
  <2>2. CASE poller' # poller
    <3>1. /\ poller[Observer] = NoPoll /\ UNCHANGED <<list, selected, globe>>
          /\ poller' \in {poller, [poller EXCEPT ![Observer] = GetCircuits(built)]}
      BY <1>3, <2>2 DEF Reaches
    <3> QED BY <3>1, FreshFetch, PollersFacts
  <2> QED BY <2>1, <2>2
<1>4. CASE closeBtn
  <2>1. /\ poller[Window] = NoPoll /\ UNCHANGED <<list, selected, globe>>
        /\ poller' \in {poller, [poller EXCEPT ![Window] = GetCircuits(built')]}
    BY <1>4 DEF closeBtn, WindowFree
  <2>2. PICK v : poller' \in {poller, [poller EXCEPT ![Window] = v]}
    BY <2>1
  <2> QED BY <2>1, <2>2, FreshFetch, PollersFacts
<1>5. CASE onSelected
  <2>1. PICK i \in DOMAIN list :
          selected' = i /\ globe' = Drawn(list, i) /\ UNCHANGED <<list, poller>>
    BY <1>5 DEF onSelected
  <2> QED BY <2>1 DEF FreshInv, GlobeFresh, Drawn
<1>6. CASE AutoOff \/ blockBtn \/ onNodeTapped \/ confirm \/ TorMoves
  <2>1. UNCHANGED <<list, selected, globe, poller>>
    BY <1>6 DEF AutoOff, blockBtn, onNodeTapped, confirm, TorMoves
  <2> QED BY <2>1, FreshQuiet
<1> QED BY <1>1, <1>2, <1>3, <1>4, <1>5, <1>6 DEF CircuitsUser

\* A poll rebuilds the list, and later draws the list as it is by then.
LEMMA PollKeepsFresh == ASSUME FreshInv, NEW p \in Pollers, CircuitsStep(p) PROVE FreshInv'
<1>1. CASE rebuild(p)
  <2>1. poller' = [poller EXCEPT ![p] = Redraw]
    BY <1>1 DEF rebuild
  <2>2. DOMAIN poller' = Pollers /\ poller' = [q \in Pollers |-> poller'[q]] /\ poller'[p] = Redraw
    BY <2>1 DEF FreshInv
  <2> QED BY <2>2 DEF FreshInv, GlobeFresh
<1>2. CASE redraw(p)
  <2>1. /\ globe' = Drawn(list, selected) /\ poller' = [poller EXCEPT ![p] = NoPoll]
        /\ UNCHANGED <<list, selected>>
    BY <1>2 DEF redraw
  <2> QED BY <2>1 DEF FreshInv, GlobeFresh, Drawn
<1> QED BY <1>1, <1>2 DEF CircuitsStep

\* FreshInv holds in every reachable state of the GUI.
LEMMA FreshInvariant == Spec => []FreshInv
<1>1. Init => FreshInv
  <2> SUFFICES ASSUME Init PROVE FreshInv
    OBVIOUS
  <2>1. poller = [p \in Pollers |-> NoPoll] /\ list = <<>> /\ globe = <<>>
    BY DEF Init, CircuitsInit
  <2>2. globe = Drawn(list, selected)
    BY <2>1 DEF Drawn
  <2> QED BY <2>1, <2>2 DEF FreshInv, GlobeFresh
<1>2. FreshInv /\ [Next]_vars => FreshInv'
  <2> SUFFICES ASSUME FreshInv, [Next]_vars PROVE FreshInv'
    OBVIOUS
  <2>1. CASE CircuitsNext
    <3>1. CASE CircuitsUser
      BY <3>1, UserKeepsFresh
    <3>2. CASE \E p \in Pollers : CircuitsStep(p)
      BY <3>2, PollKeepsFresh
    <3>3. CASE \E t \in Tickers : tickerStep(t)
      <4>1. UNCHANGED <<list, selected, globe, poller>>
        BY <3>3 DEF tickerStep, tickerSelect, tickerPolled, tickerEnds
      <4> QED BY <4>1, FreshQuiet
    <3> QED BY <2>1, <3>1, <3>2, <3>3 DEF CircuitsNext
  <2>2. CASE TabPolls \/ StatusPolls \/ ServiceNext \/ AppNext \/ UNCHANGED vars
    <3>1. UNCHANGED <<list, selected, globe, poller>>
      BY <2>2 DEF TabPolls, StatusPolls, Polls, ServiceNext, AppNext, vars, circuitVars
    <3> QED BY <3>1, FreshQuiet
  <2> QED BY <2>1, <2>2 DEF Next
<1> QED BY <1>1, <1>2, PTL DEF Spec

\* Whoever polls and whatever the user does meanwhile, the globe shows the list
\* and its selection as soon as no poll is between the two, for any number of
\* tickers, circuits and relays.
THEOREM GlobeFollowsList == Spec => []GlobeFresh
<1>1. FreshInv => GlobeFresh
  BY DEF FreshInv
<1> QED BY <1>1, FreshInvariant, PTL
=============================================================================
