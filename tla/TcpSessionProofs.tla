--------------------------- MODULE TcpSessionProofs ---------------------------
(***************************************************************************)
(* Proofs about the Android app's TCP stack: its variables keep their      *)
(* types, the read loop meets no session that is half open or half closed, *)
(* the data for an app is numbered without gaps, and what an app is told   *)
(* has arrived has been written upstream.  They hold for any number of     *)
(* apps, sessions, packets and bytes.                                      *)
(***************************************************************************)
EXTENDS TcpSession, SequenceTheorems, TLAPS

-----------------------------------------------------------------------------
(* Type correctness *)

\* The constants, one by one.
LEMMA Bounds ==
    /\ MayPiggyback \in BOOLEAN /\ MayFail \in BOOLEAN
    /\ MaxResend \in Nat /\ MaxSessions \in Nat \ {0} /\ MaxCreated \in Nat \ {0} /\ MaxSyn \in Nat \ {0}
    /\ MaxTun \in Nat \ {0} /\ MaxData \in Nat \ {0} /\ MaxServed \in Nat
  BY TcpAssumption, Zenon

\* One value of a function is replaced.
LEMMA ExceptType ==
    ASSUME NEW S, NEW T, NEW f \in [S -> T], NEW x, NEW v \in T
    PROVE  [f EXCEPT ![x] = v] \in [S -> T]
  OBVIOUS

\* An entry of the table, and its fields.
LEMMA EntryType ==
    ASSUME NEW e \in Entry
    PROVE  /\ e # NoEntry /\ e.s \in Ids /\ e.clientSeq \in Nat /\ e.written \in Seq(1..MaxData)
           /\ e.idle \in BOOLEAN
           /\ Touched(e) \in Entry /\ Touched(e).s = e.s /\ Touched(e).written = e.written
           /\ Touched(e).clientSeq = e.clientSeq
<1>1. e.s \in Ids /\ e.clientSeq \in Nat /\ e.written \in Seq(1..MaxData) /\ e.idle \in BOOLEAN
  BY DEF Entry
<1>2. e # NoEntry
  <2>1. NoEntry.s = 0 /\ e.s # 0
    BY <1>1, Bounds DEF NoEntry, Ids
  <2> QED BY <2>1
<1>3. Touched(e) \in Entry /\ Touched(e).s = e.s /\ Touched(e).written = e.written
      /\ Touched(e).clientSeq = e.clientSeq
  BY DEF Entry, Touched
<1> QED BY <1>1, <1>2, <1>3

\* What the table has for one of its keys.
LEMMA TableEntry ==
    ASSUME TypeOK, NEW k \in Table PROVE k \in Keys /\ sessions[k] \in Entry /\ sessions[k] # NoEntry
  BY DEF TypeOK, Table

\* The entry of a session whose byte or FIN has been acknowledged.
LEMMA AcknowledgedType ==
    ASSUME NEW e \in Entry, NEW n \in Nat
    PROVE  /\ Acknowledged(e, n) \in Entry /\ Acknowledged(e, n).s = e.s
           /\ Acknowledged(e, n).written = e.written /\ Acknowledged(e, n).clientSeq = n
           /\ Acknowledged(e, n).idle = FALSE
  BY DEF Entry, Acknowledged

\* The entry of a session that has written and acknowledged a byte.
LEMMA WrittenType ==
    ASSUME NEW e \in Entry, NEW b \in 1..MaxData
    PROVE  LET f == [Acknowledged(e, e.clientSeq + 1) EXCEPT !.written = Append(@, b)] IN
           /\ f \in Entry /\ f.s = e.s /\ f.written = Append(e.written, b)
           /\ f.clientSeq = e.clientSeq + 1
<1> DEFINE a == Acknowledged(e, e.clientSeq + 1)
<1>1. e.clientSeq + 1 \in Nat
  BY EntryType
<1>2. a \in Entry /\ a.s = e.s /\ a.written = e.written /\ a.clientSeq = e.clientSeq + 1
  BY <1>1, AcknowledgedType
<1> HIDE DEF a
<1>3. a.written \in Seq(1..MaxData)
  BY <1>2 DEF Entry
<1>4. Append(a.written, b) \in Seq(1..MaxData)
  <2> DEFINE D == 1..MaxData
  <2>1. a.written \in Seq(D) /\ b \in D
    BY <1>3
  <2> HIDE DEF D
  <2>2. Append(a.written, b) \in Seq(D)
    BY <2>1, AppendProperties
  <2> QED BY <2>2 DEF D
<1> DEFINE w == Append(a.written, b)
<1>5. w \in Seq(1..MaxData) /\ w = Append(e.written, b)
  BY <1>2, <1>4
<1> HIDE DEF w
<1>6. [a EXCEPT !.written = w] \in Entry /\ [a EXCEPT !.written = w].s = e.s
      /\ [a EXCEPT !.written = w].written = w /\ [a EXCEPT !.written = w].clientSeq = e.clientSeq + 1
  BY <1>2, <1>5 DEF Entry
<1> QED BY <1>5, <1>6 DEF a, w

\* The first packet of the tunnel.
LEMMA HeadType ==
    ASSUME TypeOK, tun # <<>>
    PROVE  /\ Head(tun) \in Segment /\ Tail(tun) \in Seq(Segment) /\ Len(Tail(tun)) = Len(tun) - 1
           /\ Len(tun) \in Nat \ {0} /\ Head(tun) = tun[1]
           /\ \A i \in 1..Len(Tail(tun)) : Tail(tun)[i] = tun[i + 1]
<1>1. tun \in Seq(Segment)
  BY DEF TypeOK
<1> HIDE DEF Segment
<1> QED BY <1>1, HeadTailProperties, EmptySeq

\* close() keeps the types.
LEMMA CloseType ==
    ASSUME TypeOK, NEW S, Close(S)
    PROVE  /\ state' \in [Ids -> TcpState] /\ socket' \in [Ids -> {"none", "open", "closed"}]
           /\ upstream' \in [Ids -> BOOLEAN]
<1>1. state \in [Ids -> TcpState] /\ socket \in [Ids -> {"none", "open", "closed"}]
      /\ "CLOSED" \in TcpState
  BY DEF TypeOK, TcpState
<1>2. state' = [s \in Ids |-> IF s \in S THEN "CLOSED" ELSE state[s]]
      /\ socket' = [s \in Ids |-> IF s \in S /\ upstream[s] THEN "closed" ELSE socket[s]]
      /\ upstream' = [s \in Ids |-> s \notin S /\ upstream[s]]
  BY DEF Close
<1> HIDE DEF TcpState, Ids
<1>3. upstream \in [Ids -> BOOLEAN]
  BY DEF TypeOK
<1>4. state' \in [Ids -> TcpState]
  BY <1>1, <1>2
<1>5. socket' \in [Ids -> {"none", "open", "closed"}]
  BY <1>1, <1>2
<1>6. upstream' \in [Ids -> BOOLEAN]
  BY <1>2
<1> QED BY <1>4, <1>5, <1>6

\* A reset keeps the apps' type.
LEMMA ResetType ==
    ASSUME TypeOK, NEW k, NEW kind, ResetApp(k, kind)
    PROVE  app' \in [Keys -> {"closed", "syn", "open", "fin"}]
  BY DEF TypeOK, ResetApp

\* A packet of a session: its new state and its new entry are of their types.
LEMMA UpdateType ==
    ASSUME TypeOK, NEW p \in Segment, NEW e \in Entry, NEW st \in TcpState, Update(p, st, e)
    PROVE  state' \in [Ids -> TcpState] /\ sessions' \in [Keys -> Entry \cup {NoEntry}]
<1>1. /\ state' = [state EXCEPT ![e.s] = st]
      /\ sessions' = [sessions EXCEPT ![p.key] = IF st = "CLOSED" THEN NoEntry ELSE e]
      /\ state \in [Ids -> TcpState] /\ sessions \in [Keys -> Entry \cup {NoEntry}]
  BY DEF Update, TypeOK
<1> HIDE DEF TcpState, Entry, Ids, NoEntry
<1>2. (IF st = "CLOSED" THEN NoEntry ELSE e) \in Entry \cup {NoEntry}
  OBVIOUS
<1> QED BY <1>1, <1>2, ExceptType

\* What the packet p does to the session with entry e.
SessionStep(p, e) ==
    \/ Ignore(p, e) \/ Abort(p, e) \/ DropData(p, e)
    \/ handleEstablishedData(p, e) \/ handleFin(p, e) \/ LastAck(p, e)
    \/ FinWaitFin(p, e) \/ FinWaitAck(p, e)

\* A data segment carries a byte of the app; only the FIN may be numbered beyond.
DataInRange == \A i \in 1..Len(tun) : tun[i].kind = "DATA" => tun[i].seq \in 1..MaxData

\* Whatever a packet does to its session keeps the types.
LEMMA SessionType ==
    ASSUME TypeOK, NEW p \in Segment, p.kind = "DATA" => p.seq \in 1..MaxData,
           p.key \in Table, SessionStep(p, sessions[p.key])
    PROVE  /\ state' \in [Ids -> TcpState] /\ sessions' \in [Keys -> Entry \cup {NoEntry}]
           /\ socket' \in [Ids -> {"none", "open", "closed"}] /\ upstream' \in [Ids -> BOOLEAN]
           /\ loop' \in [pc : {"connecting", "connected", "fin"}, s : Ids, key : Keys] \cup {Waiting}
           /\ UNCHANGED ourSeq
<1> DEFINE e == sessions[p.key]
<1>1. e \in Entry /\ p.key \in Keys /\ p.seq \in Nat
  BY TableEntry, Bounds DEF Segment
<1>2. /\ e.s \in Ids /\ e.clientSeq \in Nat /\ Touched(e) \in Entry /\ Touched(e).s = e.s
      /\ e.written \in Seq(1..MaxData)
  BY <1>1, EntryType
<1>3. state[e.s] \in TcpState
  BY <1>2 DEF TypeOK
<1>4. /\ socket \in [Ids -> {"none", "open", "closed"}] /\ upstream \in [Ids -> BOOLEAN]
      /\ sessions \in [Keys -> Entry \cup {NoEntry}]
      /\ loop \in [pc : {"connecting", "connected", "fin"}, s : Ids, key : Keys] \cup {Waiting}
  BY DEF TypeOK
<1>5. Acknowledged(e, p.seq + 1) \in Entry
  <2>1. p.seq + 1 \in Nat
    BY <1>1
  <2> HIDE DEF e
  <2> QED BY <1>1, <2>1, AcknowledgedType
<1>6. /\ "CLOSED" \in TcpState /\ "CLOSE_WAIT" \in TcpState /\ "TIME_WAIT" \in TcpState
      /\ "FIN_WAIT_2" \in TcpState /\ "ESTABLISHED" \in TcpState
  BY DEF TcpState
<1> HIDE DEF e, TcpState, Entry, Ids
<1>7. CASE Abort(p, e)
  <2>1. Close({e.s}) /\ sessions' = [sessions EXCEPT ![p.key] = NoEntry] /\ UNCHANGED <<ourSeq, loop>>
    BY <1>7 DEF Abort
  <2> QED BY <1>4, <2>1, CloseType
<1>8. CASE handleFin(p, e)
  <2>1. /\ Update(p, "CLOSE_WAIT", Acknowledged(e, p.seq + 1)) /\ UNCHANGED <<ourSeq, socketVars>>
        /\ loop' = [pc |-> "fin", s |-> e.s, key |-> p.key]
    BY <1>8 DEF handleFin
  <2>2. loop' \in [pc : {"connecting", "connected", "fin"}, s : Ids, key : Keys]
    BY <1>1, <1>2, <2>1
  <2> QED BY <1>4, <1>5, <1>6, <2>1, <2>2, UpdateType DEF socketVars
<1>9. CASE handleEstablishedData(p, e)
  <2> DEFINE f == [Acknowledged(e, e.clientSeq + 1) EXCEPT !.written = Append(@, p.seq)]
  <2>1. Update(p, "ESTABLISHED", f) /\ UNCHANGED <<ourSeq, socketVars, loop>> /\ p.kind = "DATA"
    BY <1>9 DEF handleEstablishedData
  <2>2. f \in Entry
    BY <1>1, <2>1, WrittenType
  <2> HIDE DEF f
  <2> QED BY <1>4, <1>6, <2>1, <2>2, UpdateType DEF socketVars
<1>10. CASE Ignore(p, e) \/ DropData(p, e) \/ LastAck(p, e) \/ FinWaitFin(p, e) \/ FinWaitAck(p, e)
  <2>1. \E st \in TcpState : \E f \in {e, Touched(e), Acknowledged(e, p.seq + 1)} : Update(p, st, f)
    BY <1>3, <1>6, <1>10 DEF Ignore, DropData, LastAck, FinWaitFin, FinWaitAck
  <2>2. UNCHANGED <<ourSeq, socketVars, loop>>
    BY <1>10 DEF Ignore, DropData, LastAck, FinWaitFin, FinWaitAck
  <2>3. PICK st \in TcpState, f \in Entry : Update(p, st, f)
    BY <1>1, <1>2, <1>5, <2>1
  <2> QED BY <1>4, <2>2, <2>3, UpdateType DEF socketVars
<1> QED BY <1>7, <1>8, <1>9, <1>10 DEF SessionStep, e

\* handlePacket keeps the types.
LEMMA PacketType == ASSUME TypeOK, DataInRange, handlePacket PROVE TypeOK'
<1> DEFINE p == Head(tun)
<1>1. /\ tun # <<>> /\ tun' = Tail(tun) /\ UNCHANGED <<sweep, readerVars, sent, syns, resends, stopped>>
      /\ SynRefused(p) \/ Accept(p) \/ Unknown(p) \/ ForSession(p)
  BY DEF handlePacket
<1>2. p \in Segment /\ tun' \in Seq(Segment) /\ Len(tun') <= MaxTun
  <2>1. /\ p \in Segment /\ Tail(tun) \in Seq(Segment) /\ Len(Tail(tun)) = Len(tun) - 1
        /\ Len(tun) \in Nat \ {0} /\ Len(tun) <= MaxTun
    BY <1>1, HeadType DEF TypeOK
  <2> QED BY <1>1, <2>1, Bounds
<1>3. p.key \in Keys /\ (p.kind = "DATA" => p.seq \in 1..MaxData)
  <2>1. p = tun[1] /\ 1 \in 1..Len(tun)
    BY <1>1, HeadType
  <2> QED BY <1>2, <2>1 DEF Segment, DataInRange
<1> HIDE DEF p
<1>4. CASE SynRefused(p) \/ Unknown(p)
  <2>1. (\E kind : ResetApp(p.key, kind)) /\ UNCHANGED <<sessions, state, ourSeq, socketVars, loop, created>>
    BY <1>4 DEF SynRefused, Unknown
  <2>2. app' \in [Keys -> {"closed", "syn", "open", "fin"}]
    BY <2>1, ResetType
  <2> QED BY <1>1, <1>2, <2>1, <2>2 DEF TypeOK, socketVars, readerVars
<1>5. CASE Accept(p)
  <2> DEFINE n == created + 1
             old == sessions[p.key].s
  <2>1. created < MaxCreated /\ created' = n /\ handleSyn(p, n) /\ UNCHANGED ourSeq
        /\ socket' = [s \in Ids |-> IF s = old /\ upstream[s] THEN "closed" ELSE socket[s]]
        /\ upstream' = [s \in Ids |-> s # old /\ upstream[s]]
    BY <1>5 DEF Accept
  <2>2. n \in Ids /\ n \in 0..MaxCreated
    <3>1. created \in 0..MaxCreated /\ MaxCreated \in Nat
      BY Bounds DEF TypeOK
    <3> QED BY <2>1, <3>1 DEF Ids
  <2>3. sessions' \in [Keys -> Entry \cup {NoEntry}]
    <3>1. <<>> \in Seq(1..MaxData)
      OBVIOUS
    <3>2. [NoEntry EXCEPT !.s = n, !.clientSeq = 1] \in Entry
      BY <2>2, <3>1 DEF NoEntry, Entry
    <3>3. sessions' = [sessions EXCEPT ![p.key] = [NoEntry EXCEPT !.s = n, !.clientSeq = 1]]
      BY <2>1 DEF handleSyn
    <3> QED BY <3>2, <3>3, ExceptType DEF TypeOK
  <2>4. loop' \in [pc : {"connecting", "connected", "fin"}, s : Ids, key : Keys]
    BY <1>3, <2>1, <2>2 DEF handleSyn
  <2>5. state' \in [Ids -> TcpState]
    <3>1. state' = [x \in Ids |-> CASE x = n -> "SYN_RECEIVED"
                                    [] x = old -> "CLOSED"
                                    [] OTHER -> state[x]]
      BY <2>1 DEF handleSyn
    <3>2. \A x \in Ids : state[x] \in TcpState
      BY DEF TypeOK
    <3>3. "SYN_RECEIVED" \in TcpState /\ "CLOSED" \in TcpState
      BY DEF TcpState
    <3> HIDE DEF n, old, TcpState, Ids
    <3> QED BY <3>1, <3>2, <3>3
  <2>6. socket' \in [Ids -> {"none", "open", "closed"}] /\ upstream' \in [Ids -> BOOLEAN]
    <3> HIDE DEF old, Ids
    <3>1. socket \in [Ids -> {"none", "open", "closed"}] /\ upstream \in [Ids -> BOOLEAN]
      BY DEF TypeOK
    <3>2. socket' \in [Ids -> {"none", "open", "closed"}]
      BY <2>1, <3>1
    <3>3. upstream' \in [Ids -> BOOLEAN]
      BY <2>1
    <3> QED BY <3>2, <3>3
  <2>7. app' \in [Keys -> {"closed", "syn", "open", "fin"}]
    BY <2>1 DEF handleSyn, TypeOK
  <2> QED BY <1>1, <1>2, <2>1, <2>2, <2>3, <2>4, <2>5, <2>6, <2>7 DEF TypeOK, readerVars
<1>6. CASE ForSession(p)
  <2>1. p.key \in Table /\ SessionStep(p, sessions[p.key]) /\ UNCHANGED <<created, app>>
    BY <1>6 DEF ForSession, SessionStep
  <2>2. /\ state' \in [Ids -> TcpState] /\ sessions' \in [Keys -> Entry \cup {NoEntry}]
        /\ socket' \in [Ids -> {"none", "open", "closed"}] /\ upstream' \in [Ids -> BOOLEAN]
        /\ loop' \in [pc : {"connecting", "connected", "fin"}, s : Ids, key : Keys] \cup {Waiting}
        /\ UNCHANGED ourSeq
    BY <1>2, <1>3, <2>1, SessionType
  <2> QED BY <1>1, <1>2, <2>1, <2>2 DEF TypeOK, readerVars
<1> QED BY <1>1, <1>4, <1>5, <1>6

\* The steps of the read loop behind a blocking call keep the types.
LEMMA LoopType ==
    ASSUME TypeOK, NEW s \in Ids, Connected(s) \/ Promote(s) \/ ConnectFails(s) \/ FinSent(s)
    PROVE  TypeOK'
<1>1. /\ state \in [Ids -> TcpState] /\ ourSeq \in [Ids -> Nat] /\ sessions \in [Keys -> Entry \cup {NoEntry}]
      /\ socket \in [Ids -> {"none", "open", "closed"}] /\ upstream \in [Ids -> BOOLEAN]
      /\ reader \in [Ids -> {"none", "start", "read", "sent", "eof", "fin", "done"}]
      /\ loop \in [pc : {"connecting", "connected", "fin"}, s : Ids, key : Keys] \cup {Waiting}
  BY DEF TypeOK
<1>2. /\ "CLOSED" \in TcpState /\ "ESTABLISHED" \in TcpState /\ "LAST_ACK" \in TcpState
  BY DEF TcpState
<1>3. CASE Connected(s)
  <2>1. /\ loop.pc = "connecting" /\ loop' = [loop EXCEPT !.pc = "connected"]
        /\ socket' = [socket EXCEPT ![s] = "open"] /\ upstream' = [upstream EXCEPT ![s] = TRUE]
        /\ UNCHANGED <<sessions, state, ourSeq, readerVars, created, sweep, tun, appVars, stopped>>
    BY <1>3 DEF Connected, At
  <2>2. loop' \in [pc : {"connecting", "connected", "fin"}, s : Ids, key : Keys]
    BY <1>1, <2>1 DEF Waiting
  <2>3. socket' \in [Ids -> {"none", "open", "closed"}] /\ upstream' \in [Ids -> BOOLEAN]
    <3>1. socket' \in [Ids -> {"none", "open", "closed"}]
      BY <1>1, <2>1
    <3>2. upstream' \in [Ids -> BOOLEAN]
      BY <1>1, <2>1
    <3> QED BY <3>1, <3>2
  <2> QED BY <2>1, <2>2, <2>3 DEF TypeOK, readerVars, appVars
<1>4. CASE Promote(s)
  <2>1. /\ loop' = Waiting
        /\ state' = [state EXCEPT ![s] = IF @ = "SYN_RECEIVED" THEN "ESTABLISHED" ELSE @]
        /\ sessions' = [k \in Keys |-> IF sessions[k].s = s THEN Touched(sessions[k]) ELSE sessions[k]]
        /\ reader' = [reader EXCEPT ![s] = "start"]
        /\ UNCHANGED <<ourSeq, socketVars, relayed, created, sweep, tun, appVars, stopped>>
    BY <1>4 DEF Promote
  <2>2. state' \in [Ids -> TcpState]
    BY <1>1, <1>2, <2>1
  <2>3. sessions' \in [Keys -> Entry \cup {NoEntry}]
    <3>1. \A k \in Keys : sessions[k].s = s => sessions[k] \in Entry
      BY <1>1, Bounds DEF NoEntry, Ids
    <3>2. \A k \in Keys : sessions[k].s = s => Touched(sessions[k]) \in Entry
      BY <3>1, EntryType
    <3> HIDE DEF Entry, NoEntry
    <3> QED BY <1>1, <2>1, <3>2
  <2>4. reader' \in [Ids -> {"none", "start", "read", "sent", "eof", "fin", "done"}]
    BY <1>1, <2>1
  <2> QED BY <2>1, <2>2, <2>3, <2>4 DEF TypeOK, socketVars, appVars
<1>5. CASE ConnectFails(s)
  <2>1. /\ loop' = Waiting /\ state' = [state EXCEPT ![s] = "CLOSED"]
        /\ UNCHANGED socket \/ socket' = [socket EXCEPT ![s] = "open"]
        /\ ResetApp(loop.key, "RST")
        /\ UNCHANGED <<sessions, ourSeq, upstream, readerVars, created, sweep, tun, sent, syns, resends,
                       stopped>>
    BY <1>5 DEF ConnectFails
  <2>2. state' \in [Ids -> TcpState] /\ socket' \in [Ids -> {"none", "open", "closed"}]
    <3>1. state' \in [Ids -> TcpState]
      BY <1>1, <1>2, <2>1
    <3>2. socket' \in [Ids -> {"none", "open", "closed"}]
      BY <1>1, <2>1
    <3> QED BY <3>1, <3>2
  <2>3. app' \in [Keys -> {"closed", "syn", "open", "fin"}]
    BY <2>1, ResetType
  <2> QED BY <2>1, <2>2, <2>3 DEF TypeOK, readerVars
<1>6. CASE FinSent(s)
  <2>1. /\ loop' = Waiting /\ ourSeq' = [ourSeq EXCEPT ![s] = ourSeq[s] + 1]
        /\ state' = [state EXCEPT ![s] = "LAST_ACK"]
        /\ UNCHANGED <<sessions, socketVars, readerVars, created, sweep, tun, appVars, stopped>>
    BY <1>6 DEF FinSent
  <2>2. state' \in [Ids -> TcpState]
    BY <1>1, <1>2, <2>1
  <2>3. ourSeq' \in [Ids -> Nat]
    BY <1>1, <2>1
  <2> QED BY <2>1, <2>2, <2>3 DEF TypeOK, socketVars, readerVars, appVars
<1> QED BY <1>3, <1>4, <1>5, <1>6

\* A reader keeps the types.
LEMMA ReaderType == ASSUME TypeOK, NEW s \in Ids, Reader(s) PROVE TypeOK'
<1>1. /\ state \in [Ids -> TcpState] /\ ourSeq \in [Ids -> Nat] /\ sessions \in [Keys -> Entry \cup {NoEntry}]
      /\ reader \in [Ids -> {"none", "start", "read", "sent", "eof", "fin", "done"}]
      /\ relayed \in [Ids -> 0..MaxServed]
  BY DEF TypeOK
<1>2. reader' \in [Ids -> {"none", "start", "read", "sent", "eof", "fin", "done"}]
  <2>1. \E to \in {"read", "sent", "eof", "fin", "done"} : reader' = [reader EXCEPT ![s] = to]
    BY DEF Reader, ReaderStart, ReaderRelay, ReaderAdvance, ReaderEnd, ReaderCheck, ReaderFinSent, ReaderCancelled, ReaderGoto
  <2> QED BY <1>1, <2>1
<1>3. UNCHANGED readerUnchanged
  BY DEF Reader, ReaderStart, ReaderRelay, ReaderAdvance, ReaderEnd, ReaderCheck, ReaderFinSent, ReaderCancelled
<1>4. CASE ReaderStart(s) \/ ReaderEnd(s) \/ ReaderCheck(s) \/ ReaderCancelled(s)
  <2>1. UNCHANGED <<sessions, state, ourSeq, relayed>>
    BY <1>4 DEF ReaderStart, ReaderEnd, ReaderCheck, ReaderCancelled
  <2> QED BY <1>2, <1>3, <2>1 DEF TypeOK, readerUnchanged, socketVars, appVars
<1>5. CASE ReaderRelay(s)
  <2>1. /\ relayed[s] < MaxServed /\ relayed' = [relayed EXCEPT ![s] = relayed[s] + 1]
        /\ UNCHANGED <<sessions, state, ourSeq>>
    BY <1>5 DEF ReaderRelay
  <2>2. relayed[s] + 1 \in 0..MaxServed
    BY <1>1, <2>1, Bounds
  <2>3. relayed' \in [Ids -> 0..MaxServed]
    BY <1>1, <2>1, <2>2
  <2> QED BY <1>2, <1>3, <2>1, <2>3 DEF TypeOK, readerUnchanged, socketVars, appVars
<1>6. CASE ReaderAdvance(s)
  <2>1. /\ ourSeq' = [ourSeq EXCEPT ![s] = ourSeq[s] + 1]
        /\ sessions' = [k \in Keys |-> IF sessions[k].s = s THEN Touched(sessions[k]) ELSE sessions[k]]
        /\ UNCHANGED <<state, relayed>>
    BY <1>6 DEF ReaderAdvance
  <2>2. ourSeq' \in [Ids -> Nat]
    BY <1>1, <2>1
  <2>3. sessions' \in [Keys -> Entry \cup {NoEntry}]
    <3>1. \A k \in Keys : sessions[k].s = s => sessions[k] \in Entry
      BY <1>1, Bounds DEF NoEntry, Ids
    <3>2. \A k \in Keys : sessions[k].s = s => Touched(sessions[k]) \in Entry
      BY <3>1, EntryType
    <3> HIDE DEF Entry, NoEntry
    <3> QED BY <1>1, <2>1, <3>2
  <2> QED BY <1>2, <1>3, <2>1, <2>2, <2>3 DEF TypeOK, readerUnchanged, socketVars, appVars
<1>7. CASE ReaderFinSent(s)
  <2>1. /\ ourSeq' = [ourSeq EXCEPT ![s] = ourSeq[s] + 1] /\ state' = [state EXCEPT ![s] = "FIN_WAIT_1"]
        /\ UNCHANGED <<sessions, relayed>>
    BY <1>7 DEF ReaderFinSent
  <2>2. ourSeq' \in [Ids -> Nat]
    BY <1>1, <2>1
  <2>3. state' \in [Ids -> TcpState]
    <3>1. "FIN_WAIT_1" \in TcpState
      BY DEF TcpState
    <3> QED BY <1>1, <2>1, <3>1
  <2> QED BY <1>2, <1>3, <2>1, <2>2, <2>3 DEF TypeOK, readerUnchanged, socketVars, appVars
<1> QED BY <1>4, <1>5, <1>6, <1>7 DEF Reader

\* The cleanup job changes one thing about one session at a time.
LEMMA CleanupEffect ==
    ASSUME TypeOK, NEW k \in Keys, Cleanup(k)
    PROVE  /\ UNCHANGED <<managerUnchanged, stopped>>
           /\ \/ /\ sweep = Resting /\ UNCHANGED <<sessions, state, socketVars>> /\ k \in Table
                 /\ sweep' = [pc |-> "close", s |-> sessions[k].s, key |-> k]
              \/ \E x \in Ids :
                   /\ sweep.s = x /\ sweep.key = k
                   /\ \/ /\ sweep.pc = "close" /\ UNCHANGED <<sessions, state, upstream>>
                         /\ sweep' = [pc |-> "streams", s |-> x, key |-> k]
                         /\ socket' = [socket EXCEPT ![x] = IF upstream[x] THEN "closed" ELSE socket[x]]
                      \/ /\ sweep.pc = "streams" /\ UNCHANGED <<sessions, state, socket>>
                         /\ sweep' = [pc |-> "state", s |-> x, key |-> k]
                         /\ upstream' = [upstream EXCEPT ![x] = FALSE]
                      \/ /\ sweep.pc = "state" /\ UNCHANGED <<sessions, socket, upstream>>
                         /\ sweep' = [pc |-> "remove", s |-> x, key |-> k]
                         /\ state' = [state EXCEPT ![x] = "CLOSED"]
                      \/ /\ sweep.pc = "remove" /\ UNCHANGED <<state, socket, upstream>>
                         /\ sweep' = Resting
                         /\ sessions' = [sessions EXCEPT ![k] = NoEntry]
<1>1. sweep \in [pc : {"close", "streams", "state", "remove"}, s : Ids, key : Keys] \cup {Resting}
  BY DEF TypeOK
<1>2. CASE Decide(k)
  BY <1>2 DEF Decide
<1>3. CASE sweep.key = k /\ (CloseSocket \/ DropStreams \/ SetClosed \/ Remove)
  <2>1. sweep \in [pc : {"close", "streams", "state", "remove"}, s : Ids, key : Keys]
    BY <1>1, <1>3 DEF CloseSocket, DropStreams, SetClosed, Remove, SweepGoto, Resting
  <2>2. PICK x \in Ids : x = sweep.s
    BY <2>1
  <2>3. \A to : [sweep EXCEPT !.pc = to] = [pc |-> to, s |-> x, key |-> k]
    BY <1>3, <2>1, <2>2
  <2>4. CASE CloseSocket
    BY <1>3, <2>2, <2>3, <2>4 DEF CloseSocket, SweepGoto
  <2>5. CASE DropStreams
    BY <1>3, <2>2, <2>3, <2>5 DEF DropStreams, SweepGoto
  <2>6. CASE SetClosed
    BY <1>3, <2>2, <2>3, <2>6 DEF SetClosed, SweepGoto, socketVars
  <2>7. CASE Remove
    BY <1>3, <2>2, <2>7 DEF Remove, socketVars
  <2> QED BY <1>3, <2>4, <2>5, <2>6, <2>7
<1> QED BY <1>2, <1>3 DEF Cleanup

\* Cleanup, the clock and stop() keep the types.
LEMMA ManagerType ==
    ASSUME TypeOK, Stop \/ \E k \in Keys : Cleanup(k) \/ Elapse(k) PROVE TypeOK'
<1>1. sessions \in [Keys -> Entry \cup {NoEntry}]
  BY DEF TypeOK
<1>2. UNCHANGED managerUnchanged
  BY CleanupEffect DEF Stop, Elapse
<1>3. CASE Stop
  <2>1. /\ \E S : Close(S)
        /\ sessions' = [k \in Keys |-> NoEntry] /\ stopped' = TRUE /\ UNCHANGED sweep
    BY <1>3 DEF Stop
  <2>2. sessions' \in [Keys -> Entry \cup {NoEntry}]
    <3> HIDE DEF Entry, NoEntry
    <3> QED BY <2>1
  <2> QED BY <1>2, <2>1, <2>2, CloseType DEF TypeOK, managerUnchanged, readerVars, appVars
<1>4. CASE \E k \in Keys : Cleanup(k)
  <2>1. PICK k \in Keys : Cleanup(k)
    BY <1>4
  <2>2. /\ state \in [Ids -> TcpState] /\ socket \in [Ids -> {"none", "open", "closed"}]
        /\ upstream \in [Ids -> BOOLEAN] /\ UNCHANGED stopped
    BY <2>1, CleanupEffect DEF TypeOK
  <2>3. sessions' \in [Keys -> Entry \cup {NoEntry}]
    <3>1. UNCHANGED sessions \/ sessions' = [sessions EXCEPT ![k] = NoEntry]
      BY <2>1, CleanupEffect
    <3> HIDE DEF Entry, NoEntry
    <3> QED BY <1>1, <3>1
  <2>4. state' \in [Ids -> TcpState]
    <3>1. UNCHANGED state \/ \E x \in Ids : state' = [state EXCEPT ![x] = "CLOSED"]
      BY <2>1, CleanupEffect
    <3>2. "CLOSED" \in TcpState
      BY DEF TcpState
    <3> QED BY <2>2, <3>1, <3>2
  <2>5. socket' \in [Ids -> {"none", "open", "closed"}]
    <3>1. UNCHANGED socket \/ \E x \in Ids : socket' = [socket EXCEPT ![x] = IF upstream[x] THEN "closed" ELSE socket[x]]
      BY <2>1, CleanupEffect DEF socketVars
    <3> QED BY <2>2, <3>1
  <2>6. upstream' \in [Ids -> BOOLEAN]
    <3>1. UNCHANGED upstream \/ \E x \in Ids : upstream' = [upstream EXCEPT ![x] = FALSE]
      BY <2>1, CleanupEffect DEF socketVars
    <3> QED BY <2>2, <3>1
  <2>7. sweep' \in [pc : {"close", "streams", "state", "remove"}, s : Ids, key : Keys] \cup {Resting}
    <3>1. \/ sweep' = Resting
          \/ \E pc \in {"close", "streams", "state", "remove"}, x \in Ids : sweep' = [pc |-> pc, s |-> x, key |-> k]
      <4>1. k \in Table => sessions[k].s \in Ids
        BY TableEntry, EntryType
      <4> QED BY <2>1, <4>1, CleanupEffect
    <3> QED BY <2>1, <3>1
  <2> QED BY <1>2, <2>2, <2>3, <2>4, <2>5, <2>6, <2>7 DEF TypeOK, managerUnchanged, readerVars, appVars
<1>5. CASE \E k \in Keys : Elapse(k)
  <2>1. PICK k \in Keys : /\ k \in Table /\ sessions' = [sessions EXCEPT ![k].idle = TRUE]
                          /\ UNCHANGED <<sweep, state, socketVars, stopped>>
    BY <1>5 DEF Elapse
  <2>2. [sessions[k] EXCEPT !.idle = TRUE] \in Entry
    BY <2>1, TableEntry DEF Entry
  <2>3. sessions' = [sessions EXCEPT ![k] = [sessions[k] EXCEPT !.idle = TRUE]]
    BY <2>1
  <2>4. sessions' \in [Keys -> Entry \cup {NoEntry}]
    BY <1>1, <2>2, <2>3, ExceptType
  <2> QED BY <1>2, <2>1, <2>4 DEF TypeOK, managerUnchanged, socketVars, readerVars, appVars
<1> QED BY <1>3, <1>4, <1>5

\* An app puts a segment behind the others.
LEMMA PutStep ==
    ASSUME TypeOK, NEW k \in Keys, NEW kind \in {"SYN", "ACK", "DATA", "FIN", "RST"},
           NEW seq \in 1..(MaxData + 1), Put(k, kind, seq)
    PROVE  LET x == [key |-> k, kind |-> kind, seq |-> seq] IN
           /\ x \in Segment /\ x.key = k /\ x.kind = kind /\ x.seq = seq
           /\ tun' \in Seq(Segment) /\ Len(tun') <= MaxTun /\ Len(tun) \in Nat /\ Len(tun') = Len(tun) + 1
           /\ tun'[Len(tun) + 1] = x /\ \A i \in 1..Len(tun) : tun'[i] = tun[i]
           /\ UNCHANGED <<sessions, state, ourSeq, socketVars, readerVars, created, loop, sweep, stopped>>
<1> DEFINE x == [key |-> k, kind |-> kind, seq |-> seq]
<1>1. x \in Segment /\ x.key = k /\ x.kind = kind /\ x.seq = seq
  BY DEF Segment
<1>2. Len(tun) < MaxTun /\ tun' = Append(tun, x) /\ tun \in Seq(Segment)
      /\ UNCHANGED <<sessions, state, ourSeq, socketVars, readerVars, created, loop, sweep, stopped>>
  BY DEF Put, TypeOK
<1> HIDE DEF x, Segment
<1>3. /\ tun' \in Seq(Segment) /\ Len(tun) \in Nat /\ Len(tun') = Len(tun) + 1
      /\ tun'[Len(tun) + 1] = x /\ \A i \in 1..Len(tun) : tun'[i] = tun[i]
  BY <1>1, <1>2, AppendProperties
<1>4. Len(tun') <= MaxTun
  BY <1>2, <1>3, Bounds
<1> QED BY <1>1, <1>2, <1>3, <1>4 DEF x

\* An app keeps the types, and the tunnel its bound.
LEMMA AppType == ASSUME TypeOK, NEW k \in Keys, App(k) PROVE TypeOK'
<1>1. /\ app \in [Keys -> {"closed", "syn", "open", "fin"}] /\ sent \in [Keys -> 0..MaxData]
      /\ syns \in 0..MaxSyn /\ resends \in 0..MaxResend
  BY DEF TypeOK
<1>2. sent[k] \in 0..MaxData /\ sent[k] + 1 \in 1..(MaxData + 1) /\ 1 \in 1..(MaxData + 1)
      /\ 1..sent[k] \subseteq 1..(MaxData + 1)
  BY <1>1, Bounds
<1>3. /\ tun' \in Seq(Segment) /\ Len(tun') <= MaxTun
      /\ UNCHANGED <<sessions, state, ourSeq, socketVars, readerVars, created, loop, sweep, stopped>>
  <2>1. \E kind \in {"SYN", "ACK", "DATA", "FIN", "RST"}, seq \in 1..(MaxData + 1) : Put(k, kind, seq)
    BY <1>2 DEF App, AppSyn, AppAck, AppData, AppFin, AppResend, AppReset
  <2> QED BY <2>1, PutStep
<1>4. app' \in [Keys -> {"closed", "syn", "open", "fin"}]
  <2>1. app' \in {app, [app EXCEPT ![k] = "syn"], [app EXCEPT ![k] = "fin"], [app EXCEPT ![k] = "closed"]}
    BY DEF App, AppSyn, AppAck, AppData, AppFin, AppResend, AppReset, appVars
  <2> QED BY <1>1, <2>1
<1>5. sent' \in [Keys -> 0..MaxData]
  <2>1. \/ sent' = sent \/ sent' = [sent EXCEPT ![k] = 0]
        \/ sent[k] < MaxData /\ sent' = [sent EXCEPT ![k] = sent[k] + 1]
    BY DEF App, AppSyn, AppAck, AppData, AppFin, AppResend, AppReset, appVars
  <2>2. 0 \in 0..MaxData /\ (sent[k] < MaxData => sent[k] + 1 \in 0..MaxData)
    BY <1>2, Bounds
  <2> QED BY <1>1, <2>1, <2>2
<1>6. syns' \in 0..MaxSyn
  <2>1. syns' = syns \/ (syns < MaxSyn /\ syns' = syns + 1)
    BY DEF App, AppSyn, AppAck, AppData, AppFin, AppResend, AppReset, appVars
  <2> QED BY <1>1, <2>1, Bounds
<1>7. resends' \in 0..MaxResend
  <2>1. resends' = resends \/ (resends < MaxResend /\ resends' = resends + 1)
    BY DEF App, AppSyn, AppAck, AppData, AppFin, AppResend, AppReset, appVars, Resend
  <2> QED BY <1>1, <2>1, Bounds
<1> QED BY <1>3, <1>4, <1>5, <1>6, <1>7 DEF TypeOK, socketVars, readerVars

TypeInv == TypeOK /\ DataInRange

\* The types hold when the VPN starts.
LEMMA InitType == Init => TypeInv
<1> SUFFICES ASSUME Init PROVE TypeInv
  OBVIOUS
<1>1. tun = <<>> /\ Len(tun) = 0 /\ tun \in Seq(Segment)
  BY DEF Init
<1>2. DataInRange /\ Len(tun) <= MaxTun
  BY <1>1, Bounds DEF DataInRange
<1>3. state \in [Ids -> TcpState] /\ ourSeq \in [Ids -> Nat]
  BY DEF Init, TcpState
<1>4. socket \in [Ids -> {"none", "open", "closed"}] /\ upstream \in [Ids -> BOOLEAN]
      /\ reader \in [Ids -> {"none", "start", "read", "sent", "eof", "fin", "done"}]
  BY DEF Init
<1>5. relayed \in [Ids -> 0..MaxServed] /\ sent \in [Keys -> 0..MaxData]
  <2>1. 0 \in 0..MaxServed /\ 0 \in 0..MaxData
    BY Bounds
  <2> QED BY <2>1 DEF Init
<1>6. sessions \in [Keys -> Entry \cup {NoEntry}]
  <2> HIDE DEF Entry, NoEntry
  <2> QED BY DEF Init
<1>7. created \in 0..MaxCreated /\ syns \in 0..MaxSyn /\ resends \in 0..MaxResend
  BY Bounds DEF Init
<1>8. app \in [Keys -> {"closed", "syn", "open", "fin"}]
  BY DEF Init
<1>9. loop = Waiting /\ sweep = Resting /\ stopped \in BOOLEAN
  BY DEF Init
<1> QED BY <1>1, <1>2, <1>3, <1>4, <1>5, <1>6, <1>7, <1>8, <1>9 DEF TypeInv, TypeOK

\* No step puts data beyond the app's last byte into the tunnel.
LEMMA RangeStep == ASSUME TypeInv, Next PROVE DataInRange'
<1>1. TypeOK /\ DataInRange
  BY DEF TypeInv
<1>2. CASE handlePacket
  <2>1. tun # <<>> /\ tun' = Tail(tun)
    BY <1>2 DEF handlePacket
  <2>2. Len(tun') = Len(tun) - 1 /\ Len(tun) \in Nat \ {0} /\ \A i \in 1..Len(tun') : tun'[i] = tun[i + 1]
    BY <1>1, <2>1, HeadType
  <2>3. \A i \in 1..Len(tun') : i + 1 \in 1..Len(tun)
    BY <2>2
  <2> QED BY <1>1, <2>2, <2>3 DEF DataInRange
<1>3. CASE \E k \in Keys : App(k)
  <2>1. PICK k \in Keys : App(k)
    BY <1>3
  <2>2. sent[k] \in 0..MaxData /\ MaxData \in Nat
    BY <1>1, Bounds DEF TypeOK
  <2>3. PICK kind \in {"SYN", "ACK", "DATA", "FIN", "RST"}, seq \in 1..(MaxData + 1) :
          Put(k, kind, seq) /\ (kind = "DATA" => seq \in 1..MaxData)
    <3>1. 1 \in 1..(MaxData + 1) /\ sent[k] + 1 \in 1..(MaxData + 1)
          /\ 1..sent[k] \subseteq 1..(MaxData + 1) /\ 1..sent[k] \subseteq 1..MaxData
          /\ (sent[k] < MaxData => sent[k] + 1 \in 1..MaxData)
      BY <2>2
    <3>2. CASE AppSyn(k) \/ AppAck(k) \/ AppFin(k) \/ AppReset(k)
      BY <3>1, <3>2 DEF AppSyn, AppAck, AppFin, AppReset
    <3>3. CASE AppData(k)
      BY <3>1, <3>3 DEF AppData
    <3>4. CASE AppResend(k)
      BY <3>1, <3>4 DEF AppResend
    <3> QED BY <2>1, <3>2, <3>3, <3>4 DEF App
  <2> DEFINE x == [key |-> k, kind |-> kind, seq |-> seq]
  <2>4. /\ x.kind = kind /\ x.seq = seq /\ Len(tun) \in Nat /\ Len(tun') = Len(tun) + 1
        /\ tun'[Len(tun) + 1] = x /\ \A i \in 1..Len(tun) : tun'[i] = tun[i]
    BY <1>1, <2>3, PutStep
  <2>5. \A i \in 1..Len(tun') : i \in 1..Len(tun) \/ i = Len(tun) + 1
    BY <2>4
  <2> HIDE DEF x
  <2> QED BY <1>1, <2>3, <2>4, <2>5 DEF DataInRange
<1>4. CASE UNCHANGED tun
  BY <1>1, <1>4 DEF DataInRange
<1>5. ASSUME Stop \/ (\E s \in Ids : Connected(s) \/ Promote(s) \/ ConnectFails(s) \/ FinSent(s) \/ Reader(s))
             \/ (\E k \in Keys : Cleanup(k) \/ Elapse(k))
      PROVE  UNCHANGED tun
  BY <1>5 DEF Stop, Connected, Promote, ConnectFails, FinSent, Reader, ReaderStart, ReaderRelay, ReaderAdvance,
     ReaderEnd, ReaderCheck, ReaderFinSent, ReaderCancelled, Cleanup, Decide, CloseSocket, DropStreams, SetClosed,
     Remove, Elapse, managerUnchanged, readerUnchanged
<1> QED BY <1>2, <1>3, <1>4, <1>5 DEF Next, ReadLoop

\* The types always hold.
LEMMA TypeInvariant == Spec => []TypeInv
<1>1. TypeInv /\ [Next]_vars => TypeInv'
  <2> SUFFICES ASSUME TypeInv, [Next]_vars PROVE TypeInv'
    OBVIOUS
  <2>1. CASE UNCHANGED vars
    BY <2>1 DEF vars, TypeInv, TypeOK, DataInRange, socketVars, readerVars, appVars
  <2>2. CASE Next
    <3>1. TypeOK /\ DataInRange
      BY DEF TypeInv
    <3>2. TypeOK'
      BY <2>2, <3>1, PacketType, LoopType, ReaderType, ManagerType, AppType DEF Next, ReadLoop
    <3> QED BY <2>2, <3>2, RangeStep DEF TypeInv
  <2> QED BY <2>1, <2>2
<1> QED BY <1>1, InitType, PTL DEF Spec

\* Every variable of the stack keeps its type, and the tunnel its bound.
THEOREM TypeCorrect == Spec => []TypeOK
<1>1. TypeInv => TypeOK
  BY DEF TypeInv
<1> QED BY <1>1, TypeInvariant, PTL

-----------------------------------------------------------------------------
(* Where a session is when the read loop meets it *)

\* Sessions are numbered as they come, and each is in the table under one key.
TableInv ==
    /\ \A k \in Table : sessions[k].s <= created
    /\ \A j, k \in Table : sessions[j].s = sessions[k].s => j = k

\* A session is half open or half closed only while the read loop works on it, and
\* it has no reader before it is connected.
Tracked(s) ==
    /\ s <= created => state[s] # "LISTEN"
    /\ s > created => state[s] = "LISTEN" /\ reader[s] = "none"
    /\ state[s] = "SYN_RECEIVED" => At("connecting", s) \/ At("connected", s)
    /\ state[s] = "CLOSE_WAIT" => At("fin", s)
    /\ At("connecting", s) \/ At("connected", s) => reader[s] = "none"

LoopInv ==
    /\ TableInv
    /\ loop.pc # "read" => loop.s <= created
    /\ sweep.pc # "rest" => sweep.s <= created
    /\ \A s \in Ids : Tracked(s)

\* What a packet does to the session it is for, and to no other.
LEMMA SessionEffect ==
    ASSUME TypeInv, NEW p \in Segment, p.kind = "DATA" => p.seq \in 1..MaxData,
           p.key \in Table, SessionStep(p, sessions[p.key])
    PROVE  LET e == sessions[p.key] IN
           /\ \A x \in Ids : x # e.s => state'[x] = state[x]
           /\ \/ loop' = loop /\ (state'[e.s] = state[e.s] \/ state'[e.s] \in {"FIN_WAIT_2", "TIME_WAIT", "CLOSED"})
              \/ /\ loop' = [pc |-> "fin", s |-> e.s, key |-> p.key]
                 /\ state'[e.s] = "CLOSE_WAIT" /\ state[e.s] = "ESTABLISHED"
           /\ \A k \in Keys : k # p.key => sessions'[k] = sessions[k]
           /\ sessions'[p.key] = NoEntry \/ (sessions'[p.key] \in Entry /\ sessions'[p.key].s = e.s)
<1> DEFINE e == sessions[p.key]
<1>1. TypeOK
  BY DEF TypeInv
<1>2. e \in Entry /\ p.key \in Keys /\ p.seq \in Nat /\ e.s \in Ids /\ e.clientSeq \in Nat
  BY <1>1, TableEntry, EntryType, Bounds DEF Segment
<1>3. state \in [Ids -> TcpState] /\ sessions \in [Keys -> Entry \cup {NoEntry}]
  BY <1>1 DEF TypeOK
<1>4. Touched(e) \in Entry /\ Touched(e).s = e.s
  BY <1>2, EntryType
<1>5. Acknowledged(e, p.seq + 1) \in Entry /\ Acknowledged(e, p.seq + 1).s = e.s
  <2>1. p.seq + 1 \in Nat
    BY <1>2
  <2> HIDE DEF e
  <2> QED BY <1>2, <2>1, AcknowledgedType
<1> HIDE DEF e, Entry, NoEntry, Ids, TcpState
<1>6. ASSUME NEW st, NEW f \in Entry, f.s = e.s, Update(p, st, f)
      PROVE  /\ \A x \in Ids : x # e.s => state'[x] = state[x]
             /\ state'[e.s] = st
             /\ \A k \in Keys : k # p.key => sessions'[k] = sessions[k]
             /\ sessions'[p.key] = NoEntry \/ (sessions'[p.key] \in Entry /\ sessions'[p.key].s = e.s)
  BY <1>2, <1>3, <1>6 DEF Update
<1>7. CASE Abort(p, e)
  <2>1. /\ state' = [s \in Ids |-> IF s \in {e.s} THEN "CLOSED" ELSE state[s]]
        /\ sessions' = [sessions EXCEPT ![p.key] = NoEntry] /\ loop' = loop
    BY <1>7 DEF Abort, Close
  <2>2. \A x \in Ids : x # e.s => state'[x] = state[x]
    BY <2>1
  <2>3. state'[e.s] = "CLOSED"
    BY <1>2, <2>1
  <2>4. sessions'[p.key] = NoEntry /\ \A k \in Keys : k # p.key => sessions'[k] = sessions[k]
    BY <1>2, <1>3, <2>1
  <2> QED BY <2>1, <2>2, <2>3, <2>4 DEF e
<1>8. CASE handleFin(p, e)
  <2>1. /\ Update(p, "CLOSE_WAIT", Acknowledged(e, p.seq + 1)) /\ state[e.s] = "ESTABLISHED"
        /\ loop' = [pc |-> "fin", s |-> e.s, key |-> p.key]
    BY <1>8 DEF handleFin
  <2> QED BY <1>5, <1>6, <2>1 DEF e
<1>9. CASE handleEstablishedData(p, e)
  <2> DEFINE f == [Acknowledged(e, e.clientSeq + 1) EXCEPT !.written = Append(@, p.seq)]
  <2>1. Update(p, "ESTABLISHED", f) /\ loop' = loop /\ p.kind = "DATA" /\ state[e.s] = "ESTABLISHED"
    BY <1>9 DEF handleEstablishedData
  <2>2. f \in Entry /\ f.s = e.s
    BY <1>2, <2>1, WrittenType
  <2> HIDE DEF f
  <2> QED BY <1>6, <2>1, <2>2 DEF e
<1>10. CASE Ignore(p, e)
  BY <1>4, <1>6, <1>10 DEF Ignore, e
<1>11. CASE LastAck(p, e)
  BY <1>2, <1>6, <1>11 DEF LastAck, e
<1>12. CASE FinWaitFin(p, e)
  BY <1>5, <1>6, <1>12 DEF FinWaitFin, e
<1>13. CASE FinWaitAck(p, e)
  BY <1>4, <1>6, <1>13 DEF FinWaitAck, e
<1>14. CASE DropData(p, e)
  BY <1>4, <1>6, <1>14 DEF DropData, e
<1> QED BY <1>7, <1>8, <1>9, <1>10, <1>11, <1>12, <1>13, <1>14 DEF SessionStep, e

\* The table keeps the sessions it has, or loses some.
KeptIds == \A k \in Table' : k \in Table /\ sessions'[k].s = sessions[k].s

\* A table that loses entries at most keeps its invariant.
LEMMA TableKept == ASSUME TableInv, KeptIds, UNCHANGED created PROVE TableInv'
  BY DEF TableInv, KeptIds

\* Whatever has been in the table, with sessions' entries touched, removed or aged.
LEMMA KeepsIds ==
    ASSUME TypeOK,
           \A k \in Keys : sessions'[k] = NoEntry \/ (sessions[k] # NoEntry /\ sessions'[k].s = sessions[k].s)
    PROVE  KeptIds
  BY DEF KeptIds, Table

\* The entries of a session are touched.
LEMMA TouchedIds ==
    ASSUME TypeOK, NEW s \in Ids,
           sessions' = [k \in Keys |-> IF sessions[k].s = s THEN Touched(sessions[k]) ELSE sessions[k]]
    PROVE  /\ KeptIds
           /\ \A k \in Keys : sessions[k] # NoEntry =>
                /\ sessions'[k].written = sessions[k].written /\ sessions'[k].clientSeq = sessions[k].clientSeq
                /\ sessions'[k].s = sessions[k].s
<1>1. sessions \in [Keys -> Entry \cup {NoEntry}]
  BY DEF TypeOK
<1>2. ASSUME NEW k \in Keys
      PROVE  \/ sessions[k] = NoEntry /\ sessions'[k] = NoEntry
             \/ /\ sessions[k] # NoEntry /\ sessions'[k].s = sessions[k].s
                /\ sessions'[k].written = sessions[k].written /\ sessions'[k].clientSeq = sessions[k].clientSeq
  <2>1. CASE sessions[k] \in Entry
    <3>1. /\ sessions[k] # NoEntry /\ Touched(sessions[k]).s = sessions[k].s
          /\ Touched(sessions[k]).written = sessions[k].written
          /\ Touched(sessions[k]).clientSeq = sessions[k].clientSeq
      BY <2>1, EntryType
    <3>2. sessions'[k] = Touched(sessions[k]) \/ sessions'[k] = sessions[k]
      OBVIOUS
    <3> QED BY <3>1, <3>2
  <2>2. CASE sessions[k] = NoEntry
    <3>1. sessions[k].s # s
      BY <2>2, Bounds DEF NoEntry, Ids
    <3> QED BY <2>2, <3>1
  <2> QED BY <1>1, <2>1, <2>2
<1> QED BY <1>2, KeepsIds

\* handlePacket keeps LoopInv: it leaves half-open and half-closed sessions to the loop.
LEMMA PacketLoop == ASSUME TypeInv, LoopInv, handlePacket PROVE LoopInv'
<1> DEFINE p == Head(tun)
<1>1. /\ loop.pc = "read" /\ tun # <<>> /\ UNCHANGED <<sweep, reader, relayed>>
      /\ SynRefused(p) \/ Accept(p) \/ Unknown(p) \/ ForSession(p)
  BY DEF handlePacket, readerVars
<1>2. TypeOK /\ DataInRange
  BY DEF TypeInv
<1>3. p \in Segment /\ p.key \in Keys /\ (p.kind = "DATA" => p.seq \in 1..MaxData)
  <2>1. p \in Segment /\ p = tun[1] /\ 1 \in 1..Len(tun)
    BY <1>1, <1>2, HeadType
  <2> QED BY <1>2, <2>1 DEF Segment, DataInRange
<1>4. /\ state \in [Ids -> TcpState] /\ sessions \in [Keys -> Entry \cup {NoEntry}] /\ created \in Nat
      /\ \A x \in Ids : x \in Nat
  BY <1>2, Bounds DEF TypeOK, Ids
<1> HIDE DEF p
<1>5. CASE SynRefused(p) \/ Unknown(p)
  <2>1. UNCHANGED <<sessions, state, loop, created>>
    BY <1>5 DEF SynRefused, Unknown
  <2> QED BY <1>1, <2>1 DEF LoopInv, TableInv, Table, Tracked, At
<1>6. CASE Accept(p)
  <2> DEFINE n == created + 1
             old == sessions[p.key].s
             new == [NoEntry EXCEPT !.s = n, !.clientSeq = 1]
  <2>1. created' = n /\ created < MaxCreated
        /\ state' = [x \in Ids |-> CASE x = n -> "SYN_RECEIVED"
                                     [] x = old -> "CLOSED"
                                     [] OTHER -> state[x]]
        /\ sessions' = [sessions EXCEPT ![p.key] = new]
        /\ loop' = [pc |-> "connecting", s |-> n, key |-> p.key]
    BY <1>6 DEF Accept, handleSyn
  <2>2. n \in Ids /\ n \in Nat /\ new.s = n
    <3>1. created \in 0..MaxCreated /\ MaxCreated \in Nat
      BY <1>2, Bounds DEF TypeOK
    <3>2. n \in Ids /\ n \in Nat
      BY <2>1, <3>1 DEF Ids
    <3> QED BY <3>2 DEF NoEntry
  <2>3. n # old /\ old <= created
    <3>1. CASE p.key \in Table
      <4>1. old <= created /\ old \in Ids
        BY <1>2, <3>1, TableEntry, EntryType DEF LoopInv, TableInv
      <4> QED BY <1>4, <4>1
    <3>2. CASE p.key \notin Table
      <4>1. old = 0
        BY <1>3, <3>2 DEF Table, NoEntry
      <4> QED BY <1>4, <4>1
    <3> QED BY <3>1, <3>2
  <2> HIDE DEF n, old, new
  <2>4. /\ state'[n] = "SYN_RECEIVED"
        /\ \A x \in Ids : x # n => state'[x] = state[x] \/ (x = old /\ state'[x] = "CLOSED")
    BY <2>1, <2>2, <2>3
  <2>5. /\ \A k \in Keys : k # p.key => sessions'[k] = sessions[k]
        /\ sessions'[p.key].s = n
    BY <1>3, <1>4, <2>1, <2>2
  <2>6. \A k \in Table' : k \in Keys /\ (k # p.key => k \in Table /\ sessions'[k].s = sessions[k].s)
    BY <2>5 DEF Table
  <2>7. \A k \in Table : sessions[k].s \in Nat /\ sessions[k].s <= created
    BY <1>2, <1>4, TableEntry, EntryType DEF LoopInv, TableInv
  <2>8. \A k \in Table : sessions[k].s < n /\ sessions[k].s <= n
    BY <1>4, <2>7 DEF n
  <2>9. TableInv'
    <3>1. \A k \in Table' : sessions'[k].s <= created'
      <4>1. n <= n
        BY <2>2
      <4> QED BY <2>1, <2>5, <2>6, <2>8, <4>1
    <3>2. \A j, k \in Table' : sessions'[j].s = sessions'[k].s => j = k
      <4>1. \A j, k \in Table : sessions[j].s = sessions[k].s => j = k
        BY DEF LoopInv, TableInv
      <4>2. \A k \in Table : sessions[k].s # n
        BY <2>2, <2>7, <2>8
      <4> QED BY <2>5, <2>6, <4>1, <4>2
    <3> QED BY <3>1, <3>2 DEF TableInv
  <2>10. loop'.pc = "connecting" /\ loop'.s = n
    BY <2>1
  <2>11. ASSUME NEW s \in Ids PROVE Tracked(s)'
    <3>1. Tracked(s)
      BY DEF LoopInv
    <3>2. CASE s = n
      <4>1. n > created /\ ~(n > n)
        BY <1>4, <2>2 DEF n
      <4>2. reader'[n] = "none"
        BY <1>1, <3>1, <3>2, <4>1 DEF Tracked
      <4> QED BY <2>1, <2>4, <2>10, <3>2, <4>1, <4>2 DEF Tracked, At
    <3>3. CASE s # n
      <4>1. s <= n => s <= created
        BY <1>4, <3>3 DEF n
      <4>2. s > n => s > created
        BY <1>4 DEF n
      <4>3. state[s] # "SYN_RECEIVED" /\ state[s] # "CLOSE_WAIT"
        BY <1>1, <3>1 DEF Tracked, At
      <4>4. state'[s] = state[s] \/ (s = old /\ state'[s] = "CLOSED")
        BY <2>4, <3>3
      <4>5. s > n => s # old
        BY <1>4, <2>3, <4>2
      <4> QED BY <1>1, <2>1, <2>10, <3>1, <3>3, <4>1, <4>2, <4>3, <4>4, <4>5 DEF Tracked, At
    <3> QED BY <3>2, <3>3
  <2>12. loop'.s <= created'
    BY <2>1, <2>2, <2>10
  <2>13. sweep'.pc # "rest" => sweep'.s <= created'
    <3>1. sweep.pc # "rest" => sweep.s \in Ids /\ sweep.s <= created
      BY <1>2 DEF LoopInv, TypeOK, Resting
    <3>2. \A x \in Ids : x <= created => x <= n
      BY <1>4 DEF n
    <3> QED BY <1>1, <2>1, <3>1, <3>2
  <2> QED BY <2>9, <2>11, <2>12, <2>13 DEF LoopInv
<1>7. CASE ForSession(p)
  <2> DEFINE e == sessions[p.key]
  <2>1. p.key \in Table /\ SessionStep(p, e) /\ UNCHANGED created
    BY <1>7 DEF ForSession, SessionStep
  <2>2. /\ \A x \in Ids : x # e.s => state'[x] = state[x]
        /\ \/ loop' = loop /\ (state'[e.s] = state[e.s] \/ state'[e.s] \in {"FIN_WAIT_2", "TIME_WAIT", "CLOSED"})
           \/ /\ loop' = [pc |-> "fin", s |-> e.s, key |-> p.key]
              /\ state'[e.s] = "CLOSE_WAIT" /\ state[e.s] = "ESTABLISHED"
        /\ \A k \in Keys : k # p.key => sessions'[k] = sessions[k]
        /\ sessions'[p.key] = NoEntry \/ (sessions'[p.key] \in Entry /\ sessions'[p.key].s = e.s)
    BY <1>3, <2>1, SessionEffect
  <2>3. e \in Entry /\ e # NoEntry /\ e.s \in Ids /\ e.s <= created
    BY <1>2, <2>1, TableEntry, EntryType DEF LoopInv, TableInv
  <2> HIDE DEF e
  <2>4. TableInv'
    <3>1. KeptIds
      <4>1. \A k \in Keys : sessions'[k] = NoEntry \/ (sessions[k] # NoEntry /\ sessions'[k].s = sessions[k].s)
        BY <2>2, <2>3 DEF e
      <4> QED BY <1>2, <4>1, KeepsIds
    <3> QED BY <2>1, <3>1, TableKept DEF LoopInv
  <2>5. ASSUME NEW s \in Ids PROVE Tracked(s)'
    <3>1. Tracked(s)
      BY DEF LoopInv
    <3>2. state[s] # "SYN_RECEIVED" /\ state[s] # "CLOSE_WAIT"
      BY <1>1, <3>1 DEF Tracked, At
    <3>3. CASE s # e.s
      <4>1. state'[s] = state[s] /\ (loop'.pc = "read" \/ loop'.pc = "fin")
        BY <1>1, <2>2, <3>3
      <4> QED BY <1>1, <2>1, <3>1, <3>2, <4>1 DEF Tracked, At
    <3>4. CASE s = e.s
      <4>1. ~(s > created)
        BY <1>4, <2>3, <3>4
      <4>2. \/ loop'.pc = "read" /\ (state'[s] = state[s] \/ state'[s] \in {"FIN_WAIT_2", "TIME_WAIT", "CLOSED"})
            \/ loop'.pc = "fin" /\ loop'.s = s /\ state'[s] = "CLOSE_WAIT"
        BY <1>1, <2>2, <3>4
      <4> QED BY <2>1, <3>1, <3>2, <4>1, <4>2 DEF Tracked, At
    <3> QED BY <3>3, <3>4
  <2>6. loop'.pc # "read" => loop'.s <= created'
    BY <1>1, <2>1, <2>2, <2>3
  <2> QED BY <1>1, <2>1, <2>4, <2>5, <2>6 DEF LoopInv
<1> QED BY <1>1, <1>5, <1>6, <1>7

\* The read loop goes on with the session it works on.
LEMMA RunLoop ==
    ASSUME TypeInv, LoopInv, NEW s \in Ids, Connected(s) \/ Promote(s) \/ ConnectFails(s) \/ FinSent(s)
    PROVE  LoopInv'
<1>1. /\ state \in [Ids -> TcpState] /\ sessions \in [Keys -> Entry \cup {NoEntry}] /\ created \in Nat
      /\ reader \in [Ids -> {"none", "start", "read", "sent", "eof", "fin", "done"}]
      /\ loop \in [pc : {"connecting", "connected", "fin"}, s : Ids, key : Keys] \cup {Waiting}
      /\ (\A x \in Ids : x \in Nat) /\ TypeOK
  BY Bounds DEF TypeInv, TypeOK, Ids
<1>2. loop.s = s /\ loop.pc \in {"connecting", "connected", "fin"} /\ s <= created /\ ~(s > created)
  <2>1. loop.s = s /\ loop.pc \in {"connecting", "connected", "fin"}
    BY DEF Connected, Promote, ConnectFails, FinSent, At
  <2>2. s <= created
    BY <2>1 DEF LoopInv
  <2> QED BY <1>1, <2>1, <2>2
<1>3. UNCHANGED <<created, sweep>>
  BY DEF Connected, Promote, ConnectFails, FinSent
<1>4. ASSUME NEW x \in Ids, x # s PROVE state[x] # "SYN_RECEIVED" /\ state[x] # "CLOSE_WAIT"
  BY <1>2, <1>4 DEF LoopInv, Tracked, At
<1>5. CASE Connected(s)
  <2>1. /\ loop.pc = "connecting" /\ loop' = [loop EXCEPT !.pc = "connected"]
        /\ UNCHANGED <<sessions, state, reader>>
    BY <1>5 DEF Connected, readerVars, At
  <2>2. loop'.pc = "connected" /\ loop'.s = s
    BY <1>1, <1>2, <2>1 DEF Waiting
  <2>3. TableInv'
    BY <1>3, <2>1 DEF LoopInv, TableInv, Table
  <2>4. ASSUME NEW x \in Ids PROVE Tracked(x)'
    <3>1. Tracked(x)
      BY DEF LoopInv
    <3> QED BY <1>2, <1>3, <2>1, <2>2, <3>1 DEF Tracked, At
  <2> QED BY <1>2, <1>3, <2>2, <2>3, <2>4 DEF LoopInv
<1>6. CASE Promote(s)
  <2>1. /\ loop' = Waiting /\ loop.pc = "connected"
        /\ state' = [state EXCEPT ![s] = IF state[s] = "SYN_RECEIVED" THEN "ESTABLISHED" ELSE state[s]]
        /\ sessions' = [k \in Keys |-> IF sessions[k].s = s THEN Touched(sessions[k]) ELSE sessions[k]]
        /\ reader' = [reader EXCEPT ![s] = "start"]
    BY <1>6 DEF Promote, At
  <2>2. TableInv'
    BY <1>1, <1>3, <2>1, TouchedIds, TableKept DEF LoopInv
  <2>3. loop'.pc = "read"
    BY <2>1 DEF Waiting
  <2>4. ASSUME NEW x \in Ids PROVE Tracked(x)'
    <3>1. Tracked(x)
      BY DEF LoopInv
    <3>2. CASE x = s
      <4>1. state'[s] \in {"ESTABLISHED", state[s]} /\ state'[s] # "SYN_RECEIVED"
        BY <1>1, <2>1
      <4>2. state[s] # "CLOSE_WAIT"
        BY <2>1, <3>1, <3>2 DEF Tracked, At
      <4> QED BY <1>2, <1>3, <2>3, <3>1, <3>2, <4>1, <4>2 DEF Tracked, At
    <3>3. CASE x # s
      <4>1. state'[x] = state[x] /\ reader'[x] = reader[x]
        BY <1>1, <2>1, <3>3
      <4> QED BY <1>3, <1>4, <2>3, <3>1, <3>3, <4>1 DEF Tracked, At
    <3> QED BY <3>2, <3>3
  <2> QED BY <1>3, <2>2, <2>3, <2>4 DEF LoopInv
<1>7. CASE ConnectFails(s) \/ FinSent(s)
  <2>1. /\ loop' = Waiting /\ UNCHANGED <<sessions, reader>>
        /\ \E st \in {"CLOSED", "LAST_ACK"} : state' = [state EXCEPT ![s] = st]
    BY <1>7 DEF ConnectFails, FinSent, readerVars
  <2>2. TableInv'
    BY <1>3, <2>1 DEF LoopInv, TableInv, Table
  <2>3. loop'.pc = "read"
    BY <2>1 DEF Waiting
  <2>4. ASSUME NEW x \in Ids PROVE Tracked(x)'
    <3>1. Tracked(x)
      BY DEF LoopInv
    <3>2. CASE x = s
      <4>1. state'[s] \in {"CLOSED", "LAST_ACK"}
        BY <1>1, <2>1
      <4> QED BY <1>2, <1>3, <2>1, <2>3, <3>1, <3>2, <4>1 DEF Tracked, At
    <3>3. CASE x # s
      <4>1. state'[x] = state[x]
        BY <1>1, <2>1, <3>3
      <4> QED BY <1>3, <1>4, <2>1, <2>3, <3>1, <3>3, <4>1 DEF Tracked, At
    <3> QED BY <3>2, <3>3
  <2> QED BY <1>3, <2>2, <2>3, <2>4 DEF LoopInv
<1> QED BY <1>5, <1>6, <1>7

\* A reader leaves the states that the read loop is responsible for.
LEMMA ReaderLoop == ASSUME TypeInv, LoopInv, NEW s \in Ids, Reader(s) PROVE LoopInv'
<1>1. /\ state \in [Ids -> TcpState] /\ sessions \in [Keys -> Entry \cup {NoEntry}] /\ created \in Nat
      /\ reader \in [Ids -> {"none", "start", "read", "sent", "eof", "fin", "done"}]
      /\ (\A x \in Ids : x \in Nat) /\ TypeOK
  BY Bounds DEF TypeInv, TypeOK, Ids
<1>2. UNCHANGED <<created, loop, sweep>>
  BY DEF Reader, ReaderStart, ReaderRelay, ReaderAdvance, ReaderEnd, ReaderCheck, ReaderFinSent, ReaderCancelled, readerUnchanged
<1>3. reader[s] # "none" /\ \E to \in {"read", "sent", "eof", "fin", "done"} : reader' = [reader EXCEPT ![s] = to]
  BY DEF Reader, ReaderStart, ReaderRelay, ReaderAdvance, ReaderEnd, ReaderCheck, ReaderFinSent, ReaderCancelled, ReaderGoto
<1>4. UNCHANGED state \/ state' = [state EXCEPT ![s] = "FIN_WAIT_1"]
  BY DEF Reader, ReaderStart, ReaderRelay, ReaderAdvance, ReaderEnd, ReaderCheck, ReaderFinSent, ReaderCancelled
<1>5. \/ UNCHANGED sessions
      \/ sessions' = [k \in Keys |-> IF sessions[k].s = s THEN Touched(sessions[k]) ELSE sessions[k]]
  BY DEF Reader, ReaderStart, ReaderRelay, ReaderAdvance, ReaderEnd, ReaderCheck, ReaderFinSent, ReaderCancelled
<1>6. TableInv'
  <2>1. CASE UNCHANGED sessions
    BY <1>2, <2>1 DEF LoopInv, TableInv, Table
  <2>2. CASE sessions' = [k \in Keys |-> IF sessions[k].s = s THEN Touched(sessions[k]) ELSE sessions[k]]
    BY <1>1, <1>2, <2>2, TouchedIds, TableKept DEF LoopInv
  <2> QED BY <1>5, <2>1, <2>2
<1>7. ASSUME NEW x \in Ids PROVE Tracked(x)'
  <2>1. Tracked(x)
    BY DEF LoopInv
  <2>2. CASE x = s
    <3>1. ~(s > created) /\ ~(At("connecting", s) \/ At("connected", s))
      BY <1>3, <2>1, <2>2 DEF Tracked
    <3>2. state'[s] = state[s] \/ state'[s] = "FIN_WAIT_1"
      BY <1>1, <1>4
    <3> QED BY <1>2, <2>1, <2>2, <3>1, <3>2 DEF Tracked, At
  <2>3. CASE x # s
    <3>1. state'[x] = state[x] /\ reader'[x] = reader[x]
      BY <1>1, <1>3, <1>4, <2>3
    <3> QED BY <1>2, <2>1, <3>1 DEF Tracked, At
  <2> QED BY <2>2, <2>3
<1> QED BY <1>2, <1>6, <1>7 DEF LoopInv

\* What closing the sessions of the table does to their states.
LEMMA ManagerLoop ==
    ASSUME TypeInv, LoopInv, Stop \/ \E k \in Keys : Cleanup(k) \/ Elapse(k) PROVE LoopInv'
<1>1. /\ state \in [Ids -> TcpState] /\ sessions \in [Keys -> Entry \cup {NoEntry}] /\ created \in Nat
      /\ (\A x \in Ids : x \in Nat) /\ TypeOK
  BY Bounds DEF TypeInv, TypeOK, Ids
<1>2. UNCHANGED <<created, loop, reader>>
  BY CleanupEffect, <1>1 DEF Stop, Elapse, managerUnchanged, readerVars
<1>3. \A x \in Ids : state'[x] = state[x] \/ (state'[x] = "CLOSED" /\ x <= created)
  <2>1. CASE Stop
    <3>1. \A x \in Ids : state'[x] = state[x] \/ (state'[x] = "CLOSED" /\ InTable(x))
      BY <2>1 DEF Stop, Close
    <3> QED BY <3>1 DEF InTable, LoopInv, TableInv
  <2>2. CASE \E k \in Keys : Cleanup(k)
    <3>1. UNCHANGED state \/ \E x \in Ids : sweep.s = x /\ sweep.pc = "state" /\ state' = [state EXCEPT ![x] = "CLOSED"]
      BY <1>1, <2>2, CleanupEffect
    <3> QED BY <1>1, <3>1 DEF LoopInv
  <2>3. CASE \E k \in Keys : Elapse(k)
    BY <2>3 DEF Elapse
  <2> QED BY <2>1, <2>2, <2>3
<1>4. KeptIds
  <2>1. \A k \in Keys : sessions'[k] = NoEntry \/ (sessions[k] # NoEntry /\ sessions'[k].s = sessions[k].s)
    <3>1. CASE Stop
      BY <3>1 DEF Stop
    <3>2. CASE \E k \in Keys : Cleanup(k)
      <4>1. UNCHANGED sessions \/ \E k \in Keys : sessions' = [sessions EXCEPT ![k] = NoEntry]
        BY <1>1, <3>2, CleanupEffect
      <4> QED BY <1>1, <4>1
    <3>3. CASE \E k \in Keys : Elapse(k)
      <4>1. PICK k \in Table : sessions' = [sessions EXCEPT ![k].idle = TRUE]
        BY <3>3 DEF Elapse
      <4>2. k \in Keys /\ sessions[k] \in Entry /\ sessions[k] # NoEntry
        BY <1>1, TableEntry
      <4>3. sessions' = [sessions EXCEPT ![k] = [sessions[k] EXCEPT !.idle = TRUE]]
        BY <4>1
      <4>4. [sessions[k] EXCEPT !.idle = TRUE].s = sessions[k].s
        BY <4>2 DEF Entry
      <4> QED BY <1>1, <4>2, <4>3, <4>4
    <3> QED BY <3>1, <3>2, <3>3
  <2> QED BY <1>1, <2>1, KeepsIds
<1>5. TableInv'
  BY <1>2, <1>4, TableKept DEF LoopInv
<1>6. ASSUME NEW x \in Ids PROVE Tracked(x)'
  <2>1. Tracked(x)
    BY DEF LoopInv
  <2>2. x <= created => ~(x > created)
    BY <1>1
  <2> QED BY <1>2, <1>3, <2>1, <2>2 DEF Tracked, At
<1>7. sweep'.pc # "rest" => sweep'.s <= created
  <2>1. CASE UNCHANGED sweep
    BY <2>1 DEF LoopInv
  <2>2. CASE \E k \in Keys : Cleanup(k)
    <3>1. \/ sweep' = Resting
          \/ \E k \in Table : sweep' = [pc |-> "close", s |-> sessions[k].s, key |-> k]
          \/ sweep.pc # "rest" /\ sweep'.s = sweep.s
      BY <1>1, <2>2, CleanupEffect
    <3> QED BY <3>1 DEF LoopInv, TableInv, Resting
  <2> QED BY <2>1, <2>2 DEF Stop, Elapse
<1> QED BY <1>2, <1>5, <1>6, <1>7 DEF LoopInv

\* LoopInv always holds.
LEMMA LoopInvariant == Spec => []LoopInv
<1>1. Init => LoopInv
  <2> SUFFICES ASSUME Init PROVE LoopInv
    OBVIOUS
  <2>1. Table = {} /\ created = 0 /\ loop.pc = "read" /\ sweep.pc = "rest"
    BY DEF Init, Table, Waiting, Resting
  <2>2. \A s \in Ids : state[s] = "LISTEN" /\ reader[s] = "none" /\ ~(s <= 0)
    BY Bounds DEF Init, Ids
  <2> QED BY <2>1, <2>2 DEF LoopInv, TableInv, Tracked, At
<1>2. TypeInv /\ LoopInv /\ [Next]_vars => LoopInv'
  <2> SUFFICES ASSUME TypeInv, LoopInv, [Next]_vars PROVE LoopInv'
    OBVIOUS
  <2>1. CASE UNCHANGED <<sessions, state, reader, created, loop, sweep>>
    BY <2>1 DEF LoopInv, TableInv, Table, Tracked, At
  <2>2. UNCHANGED vars \/ (\E k \in Keys : App(k)) => UNCHANGED <<sessions, state, reader, created, loop, sweep>>
    BY DEF vars, readerVars, App, AppSyn, AppAck, AppData, AppFin, AppResend, AppReset, Put
  <2> QED BY <2>1, <2>2, PacketLoop, RunLoop, ReaderLoop, ManagerLoop DEF Next, ReadLoop
<1> QED BY <1>1, <1>2, TypeInvariant, PTL DEF Spec

\* When the read loop takes a packet no session is in LISTEN, SYN_RECEIVED or
\* CLOSE_WAIT: the branches of handlePacket for these states are never reached.
THEOREM LoopFindsSettled == Spec => []Settled
<1>1. TypeInv /\ LoopInv => Settled
  <2> SUFFICES ASSUME TypeInv, LoopInv, loop.pc = "read", NEW k \in Table
               PROVE  state[sessions[k].s] \notin {"LISTEN", "SYN_RECEIVED", "CLOSE_WAIT"}
    BY DEF Settled
  <2> DEFINE s == sessions[k].s
  <2>1. s \in Ids /\ s <= created
    BY TableEntry, EntryType DEF TypeInv, LoopInv, TableInv
  <2> HIDE DEF s
  <2>2. Tracked(s)
    BY <2>1 DEF LoopInv
  <2>3. state[s] \notin {"LISTEN", "SYN_RECEIVED", "CLOSE_WAIT"}
    BY <2>1, <2>2 DEF Tracked, At
  <2> QED BY <2>3 DEF s
<1> QED BY <1>1, TypeInvariant, LoopInvariant, PTL

-----------------------------------------------------------------------------
(* The numbers of the data for an app *)

\* The states before either side has sent its FIN.
Early == {"LISTEN", "SYN_RECEIVED", "ESTABLISHED"}

\* In these states the next number to send follows the bytes sent; between a byte
\* and the addition it is the number of that byte.
InStep(s) ==
    /\ reader[s] \in {"none", "start", "read"} => ourSeq[s] = relayed[s] + 1
    /\ reader[s] = "sent" => ourSeq[s] = relayed[s]

SeqInv == \A s \in Ids : state[s] \in Early => InStep(s)

\* No session comes back to one of these states.
LEMMA EarlyOnlyOnce ==
    ASSUME TypeInv, LoopInv, Next, NEW x \in Ids, state'[x] \in Early PROVE state[x] \in Early
<1>1. TypeOK /\ state \in [Ids -> TcpState] /\ created \in Nat /\ x \in Nat /\ Tracked(x)
  BY Bounds DEF TypeInv, TypeOK, Ids, LoopInv
<1>2. CASE handlePacket
  <2> DEFINE p == Head(tun)
  <2>1. SynRefused(p) \/ Accept(p) \/ Unknown(p) \/ ForSession(p)
    BY <1>2 DEF handlePacket
  <2>2. p \in Segment /\ (p.kind = "DATA" => p.seq \in 1..MaxData)
    <3>1. tun # <<>>
      BY <1>2 DEF handlePacket
    <3>2. p \in Segment /\ p = tun[1] /\ 1 \in 1..Len(tun)
      BY <1>1, <3>1, HeadType
    <3> QED BY <3>2 DEF TypeInv, DataInRange
  <2> HIDE DEF p
  <2>3. CASE SynRefused(p) \/ Unknown(p)
    BY <2>3 DEF SynRefused, Unknown
  <2>4. CASE Accept(p)
    <3>1. state' = [y \in Ids |-> CASE y = created + 1 -> "SYN_RECEIVED"
                                    [] y = sessions[p.key].s -> "CLOSED"
                                    [] OTHER -> state[y]]
      BY <2>4 DEF Accept, handleSyn
    <3>2. CASE x = created + 1
      <4>1. x > created
        BY <1>1, <3>2
      <4> QED BY <1>1, <4>1 DEF Tracked, Early
    <3>3. CASE x # created + 1
      <4>1. state'[x] = "CLOSED" \/ state'[x] = state[x]
        BY <3>1, <3>3
      <4> QED BY <4>1 DEF Early
    <3> QED BY <3>2, <3>3
  <2>5. CASE ForSession(p)
    <3>1. p.key \in Table /\ SessionStep(p, sessions[p.key])
      BY <2>5 DEF ForSession, SessionStep
    <3>2. state'[x] = state[x] \/ state'[x] \in {"FIN_WAIT_2", "TIME_WAIT", "CLOSED", "CLOSE_WAIT"}
      BY <2>2, <3>1, SessionEffect
    <3> QED BY <3>2 DEF Early
  <2> QED BY <2>1, <2>3, <2>4, <2>5
<1>3. ASSUME NEW s \in Ids, Connected(s) \/ Promote(s) \/ ConnectFails(s) \/ FinSent(s)
      PROVE  state[x] \in Early
  <2>1. CASE Promote(s)
    <3>1. state' = [state EXCEPT ![s] = IF state[s] = "SYN_RECEIVED" THEN "ESTABLISHED" ELSE state[s]]
      BY <2>1 DEF Promote
    <3> QED BY <1>1, <3>1 DEF Early
  <2>2. CASE UNCHANGED state \/ \E st \in {"CLOSED", "LAST_ACK"} : state' = [state EXCEPT ![s] = st]
    BY <1>1, <2>2 DEF Early
  <2> QED BY <1>3, <2>1, <2>2 DEF Connected, ConnectFails, FinSent
<1>4. ASSUME NEW s \in Ids, Reader(s) PROVE state[x] \in Early
  <2>1. UNCHANGED state \/ state' = [state EXCEPT ![s] = "FIN_WAIT_1"]
    BY <1>4 DEF Reader, ReaderStart, ReaderRelay, ReaderAdvance, ReaderEnd, ReaderCheck, ReaderFinSent, ReaderCancelled
  <2> QED BY <1>1, <2>1 DEF Early
<1>5. CASE Stop \/ \E k \in Keys : Cleanup(k)
  <2>1. state'[x] = state[x] \/ state'[x] = "CLOSED"
    <3>1. CASE Stop
      BY <3>1 DEF Stop, Close
    <3>2. CASE \E k \in Keys : Cleanup(k)
      <4>1. UNCHANGED state \/ \E y \in Ids : state' = [state EXCEPT ![y] = "CLOSED"]
        BY <1>1, <3>2, CleanupEffect
      <4> QED BY <1>1, <4>1
    <3> QED BY <1>5, <3>1, <3>2
  <2> QED BY <2>1 DEF Early
<1>6. CASE \E k \in Keys : Elapse(k) \/ App(k)
  BY <1>6 DEF Elapse, App, AppSyn, AppAck, AppData, AppFin, AppResend, AppReset, Put
<1> QED BY <1>2, <1>3, <1>4, <1>5, <1>6 DEF Next, ReadLoop

\* Every step keeps the numbers in step: only the reader of a session adds to both.
LEMMA SeqStep == ASSUME TypeInv, LoopInv, SeqInv, [Next]_vars PROVE SeqInv'
<1>1. /\ state \in [Ids -> TcpState] /\ ourSeq \in [Ids -> Nat] /\ relayed \in [Ids -> Nat]
      /\ reader \in [Ids -> {"none", "start", "read", "sent", "eof", "fin", "done"}]
  BY Bounds DEF TypeInv, TypeOK
<1>2. CASE UNCHANGED vars
  BY <1>2 DEF vars, readerVars, SeqInv, InStep
<1>3. CASE Next
  <2> SUFFICES ASSUME NEW x \in Ids, state'[x] \in Early PROVE InStep(x)'
    BY DEF SeqInv
  <2>1. state[x] \in Early /\ InStep(x)
    BY <1>3, EarlyOnlyOnce DEF SeqInv
  <2>2. CASE UNCHANGED <<ourSeq, reader, relayed>>
    BY <2>1, <2>2 DEF InStep
  <2>3. ASSUME handlePacket \/ (\E s \in Ids : Connected(s) \/ ConnectFails(s)) \/ Stop
               \/ \E k \in Keys : Cleanup(k) \/ Elapse(k) \/ App(k)
        PROVE  UNCHANGED <<ourSeq, reader, relayed>>
    <3>1. CASE handlePacket
      <4>1. UNCHANGED ourSeq
        BY <3>1 DEF handlePacket, SynRefused, Accept, Unknown, ForSession, Ignore, Abort, DropData,
           handleEstablishedData, handleFin, LastAck, FinWaitFin, FinWaitAck
      <4> QED BY <3>1, <4>1 DEF handlePacket, readerVars
    <3>2. CASE Stop \/ \E k \in Keys : Cleanup(k) \/ Elapse(k)
      BY <3>2, CleanupEffect DEF Stop, Elapse, managerUnchanged, readerVars, TypeInv
    <3>3. CASE (\E s \in Ids : Connected(s) \/ ConnectFails(s)) \/ \E k \in Keys : App(k)
      BY <3>3 DEF Connected, ConnectFails, App, AppSyn, AppAck, AppData, AppFin, AppResend, AppReset, Put,
         readerVars
    <3> QED BY <2>3, <3>1, <3>2, <3>3
  <2>4. ASSUME NEW s \in Ids, Promote(s) PROVE InStep(x)'
    <3>1. reader' = [reader EXCEPT ![s] = "start"] /\ UNCHANGED <<ourSeq, relayed>> /\ At("connected", s)
      BY <2>4 DEF Promote
    <3>2. reader[s] = "none"
      BY <3>1 DEF LoopInv, Tracked
    <3> QED BY <1>1, <2>1, <3>1, <3>2 DEF InStep
  <2>5. ASSUME NEW s \in Ids, FinSent(s) PROVE InStep(x)'
    <3>1. state' = [state EXCEPT ![s] = "LAST_ACK"] /\ ourSeq' = [ourSeq EXCEPT ![s] = ourSeq[s] + 1]
          /\ UNCHANGED <<reader, relayed>>
      BY <2>5 DEF FinSent, readerVars
    <3>2. x # s
      BY <1>1, <3>1 DEF Early
    <3>3. ourSeq'[x] = ourSeq[x]
      BY <1>1, <3>1, <3>2
    <3> QED BY <2>1, <3>1, <3>3 DEF InStep
  <2>6. ASSUME NEW s \in Ids, Reader(s) PROVE InStep(x)'
    <3>1. CASE ReaderStart(s) \/ ReaderEnd(s) \/ ReaderCheck(s) \/ ReaderCancelled(s)
      <4>1. /\ \/ reader[s] = "start" /\ \E to \in {"read", "done"} : reader' = [reader EXCEPT ![s] = to]
               \/ \E to \in {"eof", "fin", "done"} : reader' = [reader EXCEPT ![s] = to]
            /\ UNCHANGED <<ourSeq, relayed>>
        BY <3>1 DEF ReaderStart, ReaderEnd, ReaderCheck, ReaderCancelled, ReaderGoto
      <4> QED BY <1>1, <2>1, <4>1 DEF InStep
    <3>2. CASE ReaderRelay(s)
      <4>1. /\ reader[s] = "read" /\ reader' = [reader EXCEPT ![s] = "sent"] /\ UNCHANGED ourSeq
            /\ relayed' = [relayed EXCEPT ![s] = relayed[s] + 1]
        BY <3>2 DEF ReaderRelay, ReaderGoto
      <4> QED BY <1>1, <2>1, <4>1 DEF InStep
    <3>3. CASE ReaderAdvance(s)
      <4>1. /\ reader[s] = "sent" /\ reader' = [reader EXCEPT ![s] = "read"] /\ UNCHANGED relayed
            /\ ourSeq' = [ourSeq EXCEPT ![s] = ourSeq[s] + 1]
        BY <3>3 DEF ReaderAdvance, ReaderGoto
      <4> QED BY <1>1, <2>1, <4>1 DEF InStep
    <3>4. CASE ReaderFinSent(s)
      <4>1. /\ state' = [state EXCEPT ![s] = "FIN_WAIT_1"] /\ ourSeq' = [ourSeq EXCEPT ![s] = ourSeq[s] + 1]
            /\ reader' = [reader EXCEPT ![s] = "done"] /\ UNCHANGED relayed
        BY <3>4 DEF ReaderFinSent, ReaderGoto
      <4>2. x # s
        BY <1>1, <4>1 DEF Early
      <4>3. ourSeq'[x] = ourSeq[x] /\ reader'[x] = reader[x]
        BY <1>1, <4>1, <4>2
      <4> QED BY <2>1, <4>1, <4>3 DEF InStep
    <3> QED BY <2>6, <3>1, <3>2, <3>3, <3>4 DEF Reader
  <2> QED BY <1>3, <2>2, <2>3, <2>4, <2>5, <2>6 DEF Next, ReadLoop
<1> QED BY <1>2, <1>3

\* Init and every step keep the numbers in step.
LEMMA SeqInvariant == Spec => []SeqInv
<1>1. Init => SeqInv
  BY DEF Init, SeqInv, InStep
<1> QED BY <1>1, SeqStep, TypeInvariant, LoopInvariant, PTL DEF Spec

\* A byte relayed to the app of an ESTABLISHED session has the number that follows
\* the bytes before it, although the reader adds to ourSeq without a lock.
THEOREM RelayedInSequence == Spec => InSequence
<1> DEFINE Sequenced ==
      \A s \in Ids : relayed'[s] # relayed[s] /\ state[s] = "ESTABLISHED" => ourSeq[s] = relayed[s] + 1
<1>1. TypeInv /\ SeqInv /\ [Next]_vars => [Sequenced]_vars
  <2> SUFFICES ASSUME TypeInv, SeqInv, Next, NEW s \in Ids, relayed'[s] # relayed[s], state[s] = "ESTABLISHED"
               PROVE  ourSeq[s] = relayed[s] + 1
    OBVIOUS
  <2>1. ~UNCHANGED relayed
    OBVIOUS
  <2>2. PICK x \in Ids : ReaderRelay(x)
    BY <2>1 DEF Next, ReadLoop, handlePacket, Connected, Promote, ConnectFails, FinSent, Reader, ReaderStart,
       ReaderAdvance, ReaderEnd, ReaderCheck, ReaderFinSent, ReaderCancelled, Cleanup, Decide, CloseSocket, DropStreams,
       SetClosed, Remove, Elapse, Stop, App, AppSyn, AppAck, AppData,
       AppFin, AppResend, AppReset, Put, managerUnchanged, readerVars
  <2>3. reader[x] = "read" /\ relayed' = [relayed EXCEPT ![x] = relayed[x] + 1]
    BY <2>2 DEF ReaderRelay, ReaderGoto
  <2>4. x = s
    BY <2>3 DEF TypeInv, TypeOK
  <2> QED BY <2>3, <2>4 DEF SeqInv, InStep, Early
<1> QED BY <1>1, TypeInvariant, SeqInvariant, PTL DEF Spec, InSequence

-----------------------------------------------------------------------------
(* What cleanup works on *)

\* Session s takes the data of its app, or will do so as soon as it is promoted.
Live(s) == state[s] = "ESTABLISHED" \/ At("connected", s)

\* The session that cleanup closes is in the table under the key it removes, if it
\* is there still, and only there may a session take data without a stream.
SweepInv ==
    \A k \in Table :
      /\ sessions[k].s = sweep.s => k = sweep.key
      /\ Live(sessions[k].s) => upstream[sessions[k].s] \/ Emptied(sessions[k].s)

\* A step that is not cleanup's, and takes no stream from a session of the table.
LEMMA SweepKept ==
    ASSUME SweepInv, KeptIds, UNCHANGED sweep,
           \A k \in Table' : \/ ~Live(sessions[k].s)'
                             \/ upstream'[sessions[k].s]
                             \/ Live(sessions[k].s) /\ upstream'[sessions[k].s] = upstream[sessions[k].s]
    PROVE  SweepInv'
<1> SUFFICES ASSUME NEW k \in Table'
             PROVE  /\ sessions'[k].s = sweep'.s => k = sweep'.key
                    /\ Live(sessions[k].s)' => upstream'[sessions'[k].s] \/ Emptied(sessions[k].s)'
  BY DEF SweepInv
<1>1. k \in Table /\ sessions'[k].s = sessions[k].s
  BY DEF KeptIds
<1>2. /\ sessions[k].s = sweep.s => k = sweep.key
      /\ Live(sessions[k].s) => upstream[sessions[k].s] \/ Emptied(sessions[k].s)
  BY <1>1 DEF SweepInv
<1>3. Emptied(sessions[k].s) => Emptied(sessions[k].s)'
  BY <1>1 DEF Emptied
<1> QED BY <1>1, <1>2, <1>3

\* Packets: a new session has no stream yet and is not what cleanup works on.
LEMMA PacketSweep == ASSUME TypeInv, LoopInv, SweepInv, handlePacket PROVE SweepInv'
<1>1. /\ TypeOK /\ state \in [Ids -> TcpState] /\ sessions \in [Keys -> Entry \cup {NoEntry}]
      /\ upstream \in [Ids -> BOOLEAN] /\ created \in Nat /\ \A x \in Ids : x \in Nat \ {0}
  BY Bounds DEF TypeInv, TypeOK, Ids
<1>2. loop.pc = "read" /\ tun # <<>> /\ UNCHANGED sweep
  BY DEF handlePacket
<1>3. PICK p \in Segment : /\ p = Head(tun) /\ p.key \in Keys /\ (p.kind = "DATA" => p.seq \in 1..MaxData)
                           /\ SynRefused(p) \/ Accept(p) \/ Unknown(p) \/ ForSession(p)
  <2>1. Head(tun) \in Segment /\ Head(tun) = tun[1] /\ 1 \in 1..Len(tun)
    BY <1>1, <1>2, HeadType
  <2> QED BY <2>1 DEF handlePacket, TypeInv, DataInRange, Segment
<1>4. CASE SynRefused(p) \/ Unknown(p)
  <2>1. UNCHANGED <<sessions, state, upstream, loop>>
    BY <1>4 DEF SynRefused, Unknown, socketVars
  <2> QED BY <1>2, <2>1 DEF SweepInv, Live, Emptied, At, Table
<1>5. CASE Accept(p)
  <2> DEFINE n == created + 1
             old == sessions[p.key].s
             new == [NoEntry EXCEPT !.s = n, !.clientSeq = 1]
  <2>1. /\ state' = [x \in Ids |-> CASE x = n -> "SYN_RECEIVED"
                                     [] x = old -> "CLOSED"
                                     [] OTHER -> state[x]]
        /\ sessions' = [sessions EXCEPT ![p.key] = new]
        /\ loop' = [pc |-> "connecting", s |-> n, key |-> p.key]
        /\ upstream' = [x \in Ids |-> x # old /\ upstream[x]]
        /\ created < MaxCreated
    BY <1>5 DEF Accept, handleSyn
  <2>2. new.s = n /\ n \in Ids
    <3>1. n \in Ids
      BY <1>1, <2>1, Bounds DEF Ids
    <3> QED BY <3>1 DEF NoEntry
  <2>3. sessions'[p.key] = new /\ \A k \in Keys : k # p.key => sessions'[k] = sessions[k]
    BY <1>1, <1>3, <2>1
  <2> HIDE DEF n, new
  <2>4. sweep.s # n
    <3>1. sweep.pc = "rest" => sweep.s = 0
      BY <1>1 DEF TypeOK, Resting
    <3>2. sweep.pc # "rest" => sweep.s \in Ids /\ sweep.s <= created
      BY <1>1 DEF TypeOK, Resting, LoopInv
    <3> QED BY <1>1, <3>1, <3>2 DEF n
  <2>5. n # old
    <3>1. p.key \in Table => old \in Ids /\ old <= created
      BY <1>1, TableEntry, EntryType DEF LoopInv, TableInv
    <3>2. p.key \notin Table => old = 0
      BY <1>3 DEF Table, NoEntry
    <3> HIDE DEF old
    <3> QED BY <1>1, <3>1, <3>2 DEF n
  <2>6. ASSUME NEW k \in Table', k # p.key
        PROVE  k \in Table /\ sessions'[k] = sessions[k] /\ sessions[k].s \in Ids /\ sessions[k].s # n /\ sessions[k].s # old
    <3>1. k \in Table /\ k \in Keys /\ sessions'[k] = sessions[k]
      BY <2>3, <2>6 DEF Table
    <3>2. sessions[k].s \in Ids /\ sessions[k].s <= created
      BY <1>1, <3>1, TableEntry, EntryType DEF LoopInv, TableInv
    <3>3. sessions[k].s # n
      BY <1>1, <3>2 DEF n
    <3>4. sessions[k].s # old
      <4>1. CASE p.key \in Table
        BY <2>6, <3>1, <4>1 DEF LoopInv, TableInv
      <4>2. CASE p.key \notin Table
        <5>1. old = 0
          BY <1>3, <4>2 DEF Table, NoEntry
        <5> QED BY <1>1, <3>2, <5>1
      <4> QED BY <4>1, <4>2
    <3> QED BY <3>1, <3>2, <3>3, <3>4
  <2> HIDE DEF old
  <2>7. ASSUME NEW k \in Table'
        PROVE  /\ sessions'[k].s = sweep.s => k = sweep.key
               /\ Live(sessions[k].s)' => upstream'[sessions'[k].s] \/ Emptied(sessions[k].s)'
    <3>1. CASE k = p.key
      <4>1. sessions'[k].s = n
        BY <2>2, <2>3, <3>1
      <4>2. state'[n] = "SYN_RECEIVED" /\ loop'.pc = "connecting"
        BY <2>1, <2>2, <2>5
      <4> QED BY <2>4, <4>1, <4>2 DEF Live, At
    <3>2. CASE k # p.key
      <4>1. k \in Table /\ sessions'[k] = sessions[k] /\ sessions[k].s \in Ids /\ sessions[k].s # n /\ sessions[k].s # old
        BY <2>6, <3>2
      <4>2. state'[sessions[k].s] = state[sessions[k].s] /\ upstream'[sessions[k].s] = upstream[sessions[k].s]
            /\ loop'.pc = "connecting"
        BY <1>1, <2>1, <4>1
      <4> QED BY <1>2, <4>1, <4>2 DEF SweepInv, Live, At, Emptied
    <3> QED BY <3>1, <3>2
  <2> QED BY <1>2, <2>7 DEF SweepInv
<1>6. CASE ForSession(p)
  <2>1. p.key \in Table /\ SessionStep(p, sessions[p.key])
    BY <1>6 DEF ForSession, SessionStep
  <2>2. PICK e \in Entry : e = sessions[p.key] /\ e.s \in Ids
    BY <1>1, <2>1, TableEntry, EntryType
  <2>3. /\ \A x \in Ids : x # e.s => state'[x] = state[x]
        /\ \/ loop' = loop /\ (state'[e.s] = state[e.s] \/ state'[e.s] \in {"FIN_WAIT_2", "TIME_WAIT", "CLOSED"})
           \/ /\ loop' = [pc |-> "fin", s |-> e.s, key |-> p.key]
              /\ state'[e.s] = "CLOSE_WAIT" /\ state[e.s] = "ESTABLISHED"
        /\ \A k \in Keys : k # p.key => sessions'[k] = sessions[k]
        /\ sessions'[p.key] = NoEntry \/ (sessions'[p.key] \in Entry /\ sessions'[p.key].s = e.s)
    BY <1>3, <2>1, <2>2, SessionEffect
  <2>4. KeptIds
    BY <2>1, <2>2, <2>3 DEF KeptIds, Table
  <2>5. loop'.pc # "connected"
    BY <1>2, <2>3
  <2>6. UNCHANGED upstream \/ (sessions'[p.key] = NoEntry /\ \A x \in Ids : x # e.s => upstream'[x] = upstream[x])
    <3>1. CASE Abort(p, e)
      <4>1. upstream' = [x \in Ids |-> x \notin {e.s} /\ upstream[x]] /\ sessions' = [sessions EXCEPT ![p.key] = NoEntry]
        BY <3>1 DEF Abort, Close
      <4>2. \A x \in Ids : x # e.s => upstream'[x] = upstream[x]
        BY <1>1, <4>1
      <4> QED BY <1>1, <1>3, <4>1, <4>2
    <3>2. CASE ~Abort(p, e)
      BY <2>1, <2>2, <3>2 DEF SessionStep, Ignore, DropData, handleEstablishedData, handleFin, LastAck,
         FinWaitFin, FinWaitAck, socketVars
    <3> QED BY <3>1, <3>2
  <2>7. ASSUME NEW k \in Table', Live(sessions[k].s)'
        PROVE  Live(sessions[k].s) /\ upstream'[sessions'[k].s] = upstream[sessions[k].s]
    <3>1. k \in Table /\ k \in Keys /\ sessions'[k].s = sessions[k].s /\ sessions[k].s \in Ids
      BY <1>1, <2>4, TableEntry, EntryType DEF KeptIds
    <3>2. state'[sessions[k].s] = "ESTABLISHED"
      BY <2>5, <2>7, <3>1 DEF Live, At
    <3>3. state[sessions[k].s] = "ESTABLISHED"
      BY <2>3, <3>1, <3>2
    <3>4. CASE UNCHANGED upstream
      BY <3>1, <3>3, <3>4 DEF Live
    <3>5. CASE sessions'[p.key] = NoEntry /\ \A x \in Ids : x # e.s => upstream'[x] = upstream[x]
      <4>1. k # p.key
        BY <3>5 DEF Table
      <4>2. sessions[k].s # e.s
        BY <2>1, <2>2, <3>1, <4>1 DEF LoopInv, TableInv
      <4> QED BY <3>1, <3>3, <3>5, <4>2 DEF Live
    <3> QED BY <2>6, <3>4, <3>5
  <2> QED BY <1>2, <2>4, <2>7, SweepKept DEF KeptIds
<1> QED BY <1>3, <1>4, <1>5, <1>6

\* The read loop sets the streams of a session before it is promoted.
LEMMA RunSweep ==
    ASSUME TypeInv, SweepInv, NEW s \in Ids, Connected(s) \/ Promote(s) \/ ConnectFails(s) \/ FinSent(s)
    PROVE  SweepInv'
<1>1. /\ TypeOK /\ state \in [Ids -> TcpState] /\ upstream \in [Ids -> BOOLEAN]
      /\ loop \in [pc : {"connecting", "connected", "fin"}, s : Ids, key : Keys] \cup {Waiting}
      /\ sessions \in [Keys -> Entry \cup {NoEntry}]
  BY DEF TypeInv, TypeOK
<1>2. UNCHANGED sweep
  BY DEF Connected, Promote, ConnectFails, FinSent
<1>3. KeptIds
  <2>1. CASE UNCHANGED sessions
    BY <2>1 DEF KeptIds, Table
  <2>2. CASE Promote(s)
    BY <1>1, <2>2, TouchedIds DEF Promote
  <2> QED BY <2>1, <2>2 DEF Connected, ConnectFails, FinSent
<1> SUFFICES ASSUME NEW k \in Table', Live(sessions[k].s)'
             PROVE  upstream'[sessions'[k].s] \/ (Live(sessions[k].s) /\ upstream'[sessions'[k].s] = upstream[sessions[k].s])
  BY <1>2, <1>3, SweepKept DEF KeptIds
<1>4. k \in Table /\ sessions'[k].s = sessions[k].s /\ sessions[k].s \in Ids
  BY <1>1, <1>3, TableEntry, EntryType DEF KeptIds
<1>5. PICK x \in Ids : x = sessions[k].s /\ x = sessions'[k].s
  BY <1>4
<1>6. Live(x)'
  BY <1>5 DEF Live, At
<1>7. CASE Connected(s)
  <2>1. UNCHANGED state /\ upstream' = [upstream EXCEPT ![s] = TRUE] /\ loop' = [loop EXCEPT !.pc = "connected"] /\ loop.s = s
        /\ loop.pc = "connecting"
    BY <1>7 DEF Connected, At
  <2>2. loop'.s = s
    BY <1>1, <2>1 DEF Waiting
  <2>3. x = s => upstream'[x]
    BY <1>1, <2>1
  <2>4. x # s => Live(x) /\ upstream'[x] = upstream[x]
    BY <1>1, <1>6, <2>1, <2>2 DEF Live, At
  <2> QED BY <1>5, <2>3, <2>4
<1>8. CASE Promote(s)
  <2>1. UNCHANGED upstream /\ loop' = Waiting /\ At("connected", s)
        /\ state' = [state EXCEPT ![s] = IF state[s] = "SYN_RECEIVED" THEN "ESTABLISHED" ELSE state[s]]
    BY <1>8 DEF Promote, socketVars
  <2>2. loop'.pc # "connected"
    BY <2>1 DEF Waiting
  <2>3. Live(x)
    BY <1>1, <1>6, <2>1, <2>2 DEF Live, At
  <2> QED BY <1>5, <2>1, <2>3
<1>9. CASE ConnectFails(s) \/ FinSent(s)
  <2>1. UNCHANGED upstream /\ loop' = Waiting /\ \E st \in {"CLOSED", "LAST_ACK"} : state' = [state EXCEPT ![s] = st]
    BY <1>9 DEF ConnectFails, FinSent, socketVars
  <2>2. loop'.pc # "connected"
    BY <2>1 DEF Waiting
  <2>3. Live(x)
    BY <1>1, <1>6, <2>1, <2>2 DEF Live, At
  <2> QED BY <1>5, <2>1, <2>3
<1> QED BY <1>7, <1>8, <1>9

\* A reader sets no session to ESTABLISHED.
LEMMA ReaderSweep == ASSUME TypeInv, SweepInv, NEW s \in Ids, Reader(s) PROVE SweepInv'
<1>1. TypeOK /\ state \in [Ids -> TcpState]
  BY DEF TypeInv, TypeOK
<1>2. UNCHANGED <<upstream, loop, sweep>>
  BY DEF Reader, ReaderStart, ReaderRelay, ReaderAdvance, ReaderEnd, ReaderCheck, ReaderFinSent, ReaderCancelled,
     readerUnchanged, socketVars
<1>3. \/ UNCHANGED sessions
      \/ sessions' = [k \in Keys |-> IF sessions[k].s = s THEN Touched(sessions[k]) ELSE sessions[k]]
  BY DEF Reader, ReaderStart, ReaderRelay, ReaderAdvance, ReaderEnd, ReaderCheck, ReaderFinSent, ReaderCancelled
<1>4. UNCHANGED state \/ state' = [state EXCEPT ![s] = "FIN_WAIT_1"]
  BY DEF Reader, ReaderStart, ReaderRelay, ReaderAdvance, ReaderEnd, ReaderCheck, ReaderFinSent, ReaderCancelled
<1>5. KeptIds
  <2>1. CASE UNCHANGED sessions
    BY <2>1 DEF KeptIds, Table
  <2> QED BY <1>1, <1>3, <2>1, TouchedIds
<1> SUFFICES ASSUME NEW k \in Table', Live(sessions[k].s)'
             PROVE  Live(sessions[k].s) /\ upstream'[sessions'[k].s] = upstream[sessions[k].s]
  BY <1>2, <1>5, SweepKept DEF KeptIds
<1>6. sessions'[k].s = sessions[k].s /\ sessions[k].s \in Ids
  BY <1>1, <1>5, TableEntry, EntryType DEF KeptIds
<1>7. state'[sessions[k].s] = state[sessions[k].s] \/ state'[sessions[k].s] = "FIN_WAIT_1"
  BY <1>1, <1>4, <1>6
<1> QED BY <1>2, <1>6, <1>7 DEF Live, At

\* Cleanup itself: the session it empties is the one it then removes.
LEMMA ManagerSweep ==
    ASSUME TypeInv, LoopInv, SweepInv, Stop \/ \E k \in Keys : Cleanup(k) \/ Elapse(k) PROVE SweepInv'
<1>1. /\ TypeOK /\ state \in [Ids -> TcpState] /\ sessions \in [Keys -> Entry \cup {NoEntry}]
      /\ upstream \in [Ids -> BOOLEAN]
  BY DEF TypeInv, TypeOK
<1>2. CASE Stop
  BY <1>2 DEF Stop, SweepInv, Table
<1>3. ASSUME NEW k \in Keys, Elapse(k) PROVE SweepInv'
  <2>1. k \in Table /\ sessions' = [sessions EXCEPT ![k].idle = TRUE] /\ UNCHANGED <<state, upstream, loop, sweep>>
    BY <1>3 DEF Elapse, managerUnchanged, socketVars
  <2>2. sessions[k] \in Entry /\ sessions[k] # NoEntry
    BY <1>1, <2>1, TableEntry
  <2>3. sessions' = [sessions EXCEPT ![k] = [sessions[k] EXCEPT !.idle = TRUE]]
    BY <2>1
  <2>4. [sessions[k] EXCEPT !.idle = TRUE].s = sessions[k].s
    BY <2>2 DEF Entry
  <2>5. KeptIds
    BY <1>1, <2>2, <2>3, <2>4, KeepsIds
  <2> QED BY <2>1, <2>5, SweepKept DEF KeptIds, Live, At
<1>4. ASSUME NEW k \in Keys, Cleanup(k) PROVE SweepInv'
  <2>1. UNCHANGED loop
    BY <1>1, <1>4, CleanupEffect DEF managerUnchanged
  <2>2. CASE /\ sweep = Resting /\ UNCHANGED <<sessions, state, upstream>> /\ k \in Table
             /\ sweep' = [pc |-> "close", s |-> sessions[k].s, key |-> k]
    <3>1. ASSUME NEW j \in Table' PROVE j \in Table /\ (sessions[j].s = sessions[k].s => j = k)
      BY <2>2, <3>1 DEF Table, LoopInv, TableInv
    <3>2. ASSUME NEW j \in Table' PROVE Live(sessions[j].s)' => upstream'[sessions'[j].s]
      BY <2>1, <2>2, <3>1 DEF SweepInv, Live, At, Emptied, Resting
    <3> QED BY <2>2, <3>1, <3>2 DEF SweepInv
  <2>3. ASSUME NEW x \in Ids, sweep.s = x, sweep.key = k, sweep.pc = "close", UNCHANGED <<sessions, state, upstream>>,
               sweep' = [pc |-> "streams", s |-> x, key |-> k]
        PROVE  SweepInv'
    BY <2>1, <2>3 DEF SweepInv, Table, Live, At, Emptied
  <2>4. ASSUME NEW x \in Ids, sweep.s = x, sweep.key = k, sweep.pc = "streams", UNCHANGED <<sessions, state>>,
               sweep' = [pc |-> "state", s |-> x, key |-> k], upstream' = [upstream EXCEPT ![x] = FALSE]
        PROVE  SweepInv'
    <3>1. \A j \in Table : sessions[j].s \in Ids
      BY <1>1, TableEntry, EntryType
    <3>2. \A y \in Ids : y # x => upstream'[y] = upstream[y]
      BY <1>1, <2>4
    <3>3. ASSUME NEW j \in Table' PROVE /\ sessions'[j].s = sweep'.s => j = sweep'.key
                                        /\ Live(sessions[j].s)' => upstream'[sessions'[j].s] \/ Emptied(sessions[j].s)'
      <4>1. j \in Table
        BY <2>4, <3>3 DEF Table
      <4>2. CASE sessions[j].s = x
        BY <2>4, <4>1, <4>2 DEF SweepInv, Emptied
      <4>3. CASE sessions[j].s # x
        BY <2>1, <2>4, <3>1, <3>2, <4>1, <4>3 DEF SweepInv, Live, At, Emptied
      <4> QED BY <4>2, <4>3
    <3> QED BY <3>3 DEF SweepInv
  <2>5. ASSUME NEW x \in Ids, sweep.s = x, sweep.key = k, sweep.pc = "state", UNCHANGED <<sessions, upstream>>,
               sweep' = [pc |-> "remove", s |-> x, key |-> k], state' = [state EXCEPT ![x] = "CLOSED"]
        PROVE  SweepInv'
    <3>1. \A j \in Table : sessions[j].s \in Ids
      BY <1>1, TableEntry, EntryType
    <3>2. \A y \in Ids : state'[y] = "ESTABLISHED" => state[y] = "ESTABLISHED"
      BY <1>1, <2>5
    <3>3. Table' = Table
      BY <2>5 DEF Table
    <3> QED BY <2>1, <2>5, <3>1, <3>2, <3>3 DEF SweepInv, Live, At, Emptied
  <2>6. ASSUME NEW x \in Ids, sweep.s = x, sweep.key = k, sweep.pc = "remove", UNCHANGED <<state, upstream>>,
               sweep' = Resting, sessions' = [sessions EXCEPT ![k] = NoEntry]
        PROVE  SweepInv'
    <3>1. ASSUME NEW j \in Table' PROVE j \in Table /\ j # k /\ sessions'[j] = sessions[j] /\ sessions[j].s \in Ids
      <4>1. j \in Keys /\ sessions'[j] # NoEntry
        BY <3>1 DEF Table
      <4>2. j # k /\ sessions'[j] = sessions[j]
        BY <1>1, <2>6, <4>1
      <4>3. j \in Table
        BY <4>1, <4>2 DEF Table
      <4> QED BY <1>1, <4>2, <4>3, TableEntry, EntryType
    <3>2. \A y \in Ids : y # 0
      BY Bounds DEF Ids
    <3>3. ASSUME NEW j \in Table' PROVE /\ sessions'[j].s # sweep'.s
                                        /\ Live(sessions[j].s)' => upstream'[sessions'[j].s]
      <4>1. j \in Table /\ j # k /\ sessions'[j] = sessions[j] /\ sessions[j].s \in Ids
        BY <3>1
      <4>2. sessions[j].s # x
        BY <2>6, <4>1 DEF SweepInv
      <4> QED BY <2>1, <2>6, <3>2, <4>1, <4>2 DEF SweepInv, Live, At, Emptied, Resting
    <3> QED BY <3>3 DEF SweepInv
  <2> QED BY <1>1, <1>4, <2>2, <2>3, <2>4, <2>5, <2>6, CleanupEffect DEF socketVars
<1> QED BY <1>2, <1>3, <1>4

\* SweepInv always holds.
LEMMA SweepInvariant == Spec => []SweepInv
<1>1. Init => SweepInv
  BY DEF Init, SweepInv, Table
<1>2. TypeInv /\ LoopInv /\ SweepInv /\ [Next]_vars => SweepInv'
  <2> SUFFICES ASSUME TypeInv, LoopInv, SweepInv, [Next]_vars PROVE SweepInv'
    OBVIOUS
  <2>1. CASE UNCHANGED <<sessions, state, upstream, loop, sweep>>
    BY <2>1 DEF SweepInv, Table, Live, At, Emptied
  <2>2. UNCHANGED vars \/ (\E k \in Keys : App(k)) => UNCHANGED <<sessions, state, upstream, loop, sweep>>
    BY DEF vars, socketVars, App, AppSyn, AppAck, AppData, AppFin, AppResend, AppReset, Put
  <2> QED BY <2>1, <2>2, PacketSweep, RunSweep, ReaderSweep, ManagerSweep DEF Next, ReadLoop
<1> QED BY <1>1, <1>2, TypeInvariant, LoopInvariant, PTL DEF Spec

-----------------------------------------------------------------------------
(* What is acknowledged has been written *)

\* Segment i of the packets q is data, or the FIN, of the app of key k.
DataAt(q, k, i) == q[i].key = k /\ q[i].kind = "DATA"
FinAt(q, k, i) == q[i].key = k /\ q[i].kind = "FIN"

\* Of the n bytes that the app of key k has sent, those behind the first m are in q,
\* in order, and nothing else is; a FIN is there only if the app is at its end (st),
\* and behind them.
Ahead(q, k, n, st, m) ==
    /\ \A i \in 1..Len(q) : DataAt(q, k, i) => m < q[i].seq /\ q[i].seq <= n
    /\ \A i, j \in 1..Len(q) : DataAt(q, k, i) /\ DataAt(q, k, j) /\ i < j => q[i].seq < q[j].seq
    /\ \A b \in (m + 1)..n : \E i \in 1..Len(q) : DataAt(q, k, i) /\ q[i].seq = b
    /\ \A i \in 1..Len(q) : FinAt(q, k, i) =>
         st = "fin" /\ \A j \in 1..Len(q) : i < j => ~DataAt(q, k, j)

\* The first packet is taken from q.
LEMMA TailStep ==
    ASSUME NEW q \in Seq(Segment), q # <<>>
    PROVE  /\ Len(q) \in Nat \ {0} /\ 1 \in 1..Len(q) /\ Head(q) = q[1]
           /\ Tail(q) \in Seq(Segment) /\ Len(Tail(q)) \in Nat
           /\ \A i \in 1..Len(Tail(q)) : i \in Nat /\ i + 1 \in 1..Len(q) /\ Tail(q)[i] = q[i + 1]
           /\ \A i \in 1..Len(q) : i # 1 => i - 1 \in 1..Len(Tail(q)) /\ Tail(q)[i - 1] = q[i]
<1> HIDE DEF Segment
<1>1. /\ Len(q) \in Nat \ {0} /\ Tail(q) \in Seq(Segment) /\ Head(q) = q[1] /\ Len(Tail(q)) = Len(q) - 1
      /\ \A i \in 1..Len(Tail(q)) : Tail(q)[i] = q[i + 1]
  BY HeadTailProperties, EmptySeq
<1> DEFINE n == Len(q)
           r == Tail(q)
<1>2. n \in Nat \ {0} /\ Len(r) = n - 1 /\ \A i \in 1..(n - 1) : r[i] = q[i + 1]
  BY <1>1
<1> HIDE DEF n, r
<1>3. \A i \in 1..(n - 1) : i \in Nat /\ i + 1 \in 1..n
  BY <1>2
<1>4. \A i \in 1..n : i # 1 => i - 1 \in 1..(n - 1) /\ (i - 1) + 1 = i
  BY <1>2
<1>5. \A i \in 1..n : i # 1 => r[i - 1] = q[i]
  BY <1>2, <1>4
<1> QED BY <1>1, <1>2, <1>3, <1>4, <1>5 DEF n, r

\* A packet that is no data of k leaves what is ahead of its session as it is.
LEMMA TailAhead ==
    ASSUME NEW q \in Seq(Segment), q # <<>>, NEW k, NEW n \in Nat, NEW m \in Nat, NEW st,
           ~DataAt(q, k, 1), Ahead(q, k, n, st, m)
    PROVE  Ahead(Tail(q), k, n, st, m)
<1> DEFINE r == Tail(q)
<1>1. /\ Len(q) \in Nat \ {0} /\ Len(r) \in Nat
      /\ \A i \in 1..Len(r) : i \in Nat /\ i + 1 \in 1..Len(q) /\ r[i] = q[i + 1]
      /\ \A i \in 1..Len(q) : i # 1 => i - 1 \in 1..Len(r) /\ r[i - 1] = q[i]
  BY TailStep
<1> HIDE DEF r
<1>2. \A i \in 1..Len(r) : /\ DataAt(r, k, i) => DataAt(q, k, i + 1)
                           /\ FinAt(r, k, i) => FinAt(q, k, i + 1)
  BY <1>1 DEF DataAt, FinAt
<1>3. \A i \in 1..Len(r) : DataAt(r, k, i) => m < r[i].seq /\ r[i].seq <= n
  BY <1>1, <1>2 DEF Ahead
<1>4. \A i, j \in 1..Len(r) : DataAt(r, k, i) /\ DataAt(r, k, j) /\ i < j => r[i].seq < r[j].seq
  <2> SUFFICES ASSUME NEW i \in 1..Len(r), NEW j \in 1..Len(r), DataAt(r, k, i), DataAt(r, k, j), i < j
               PROVE  r[i].seq < r[j].seq
    OBVIOUS
  <2>1. i + 1 \in 1..Len(q) /\ j + 1 \in 1..Len(q) /\ i + 1 < j + 1
    BY <1>1
  <2>2. q[i + 1].seq < q[j + 1].seq
    BY <1>2, <2>1 DEF Ahead
  <2> QED BY <1>1, <2>2
<1>5. \A b \in (m + 1)..n : \E i \in 1..Len(r) : DataAt(r, k, i) /\ r[i].seq = b
  <2> TAKE b \in (m + 1)..n
  <2>1. PICK i \in 1..Len(q) : DataAt(q, k, i) /\ q[i].seq = b
    BY DEF Ahead
  <2>2. i - 1 \in 1..Len(r) /\ r[i - 1] = q[i]
    BY <1>1, <2>1
  <2> QED BY <2>1, <2>2 DEF DataAt
<1>6. \A i \in 1..Len(r) : FinAt(r, k, i) =>
        st = "fin" /\ \A j \in 1..Len(r) : i < j => ~DataAt(r, k, j)
  <2> SUFFICES ASSUME NEW i \in 1..Len(r), FinAt(r, k, i)
               PROVE  st = "fin" /\ \A j \in 1..Len(r) : i < j => ~DataAt(r, k, j)
    OBVIOUS
  <2>1. i + 1 \in 1..Len(q) /\ FinAt(q, k, i + 1)
    BY <1>1, <1>2
  <2>2. st = "fin" /\ \A j \in 1..Len(q) : i + 1 < j => ~DataAt(q, k, j)
    BY <2>1 DEF Ahead
  <2>3. \A j \in 1..Len(r) : i < j => j + 1 \in 1..Len(q) /\ i + 1 < j + 1
    BY <1>1
  <2> QED BY <1>2, <2>2, <2>3
<1> QED BY <1>3, <1>4, <1>5, <1>6 DEF Ahead, r

\* The first data segment of k carries the byte that is expected, and the others are
\* ahead then.
LEMMA HeadData ==
    ASSUME NEW q \in Seq(Segment), q # <<>>, NEW k, NEW n \in Nat, NEW m \in Nat, NEW st,
           DataAt(q, k, 1), Ahead(q, k, n, st, m)
    PROVE  q[1].seq = m + 1 /\ m + 1 <= n /\ Ahead(Tail(q), k, n, st, m + 1)
<1> DEFINE r == Tail(q)
<1>1. /\ Len(q) \in Nat \ {0} /\ 1 \in 1..Len(q) /\ Len(r) \in Nat
      /\ \A i \in 1..Len(r) : i \in Nat /\ i + 1 \in 1..Len(q) /\ r[i] = q[i + 1]
      /\ \A i \in 1..Len(q) : i # 1 => i - 1 \in 1..Len(r) /\ r[i - 1] = q[i]
  BY TailStep
<1>2. \A i \in 1..Len(q) : q[i].seq \in Nat
  <2>1. \A i \in 1..Len(q) : q[i] \in Segment
    BY ElementOfSeq
  <2> QED BY <2>1, Bounds DEF Segment
<1> HIDE DEF r
<1>3. m < q[1].seq /\ q[1].seq <= n
  BY <1>1 DEF Ahead
<1>4. q[1].seq = m + 1 /\ m + 1 <= n
  <2>1. m + 1 \in (m + 1)..n
    BY <1>1, <1>2, <1>3
  <2>2. PICK i \in 1..Len(q) : DataAt(q, k, i) /\ q[i].seq = m + 1
    BY <2>1 DEF Ahead
  <2>3. i = 1 \/ 1 < i
    BY <1>1
  <2>4. 1 < i => q[1].seq < q[i].seq
    BY <1>1, <2>2 DEF Ahead
  <2> QED BY <1>1, <1>2, <1>3, <2>2, <2>3, <2>4
<1>5. \A i \in 1..Len(r) : /\ DataAt(r, k, i) => DataAt(q, k, i + 1)
                           /\ FinAt(r, k, i) => FinAt(q, k, i + 1)
                           /\ 1 < i + 1
  BY <1>1 DEF DataAt, FinAt
<1>6. \A i \in 1..Len(r) : DataAt(r, k, i) => m + 1 < r[i].seq /\ r[i].seq <= n
  <2> SUFFICES ASSUME NEW i \in 1..Len(r), DataAt(r, k, i) PROVE m + 1 < r[i].seq /\ r[i].seq <= n
    OBVIOUS
  <2>1. i + 1 \in 1..Len(q) /\ DataAt(q, k, i + 1) /\ 1 < i + 1 /\ r[i] = q[i + 1]
    BY <1>1, <1>5
  <2>2. q[1].seq < q[i + 1].seq /\ q[i + 1].seq <= n
    BY <1>1, <2>1 DEF Ahead
  <2> QED BY <1>4, <2>1, <2>2
<1>7. \A i, j \in 1..Len(r) : DataAt(r, k, i) /\ DataAt(r, k, j) /\ i < j => r[i].seq < r[j].seq
  <2>1. \A i, j \in 1..Len(r) : i < j => i + 1 < j + 1
    BY <1>1
  <2> QED BY <1>1, <1>5, <2>1 DEF Ahead
<1>8. \A b \in ((m + 1) + 1)..n : \E i \in 1..Len(r) : DataAt(r, k, i) /\ r[i].seq = b
  <2> TAKE b \in ((m + 1) + 1)..n
  <2>1. b \in (m + 1)..n /\ b # m + 1
    OBVIOUS
  <2>2. PICK i \in 1..Len(q) : DataAt(q, k, i) /\ q[i].seq = b
    BY <2>1 DEF Ahead
  <2>3. i - 1 \in 1..Len(r) /\ r[i - 1] = q[i]
    BY <1>1, <1>4, <2>1, <2>2
  <2> QED BY <2>2, <2>3 DEF DataAt
<1>9. \A i \in 1..Len(r) : FinAt(r, k, i) =>
        st = "fin" /\ \A j \in 1..Len(r) : i < j => ~DataAt(r, k, j)
  <2> SUFFICES ASSUME NEW i \in 1..Len(r), FinAt(r, k, i)
               PROVE  st = "fin" /\ \A j \in 1..Len(r) : i < j => ~DataAt(r, k, j)
    OBVIOUS
  <2>1. i + 1 \in 1..Len(q) /\ FinAt(q, k, i + 1)
    BY <1>1, <1>5
  <2>2. st = "fin" /\ \A j \in 1..Len(q) : i + 1 < j => ~DataAt(q, k, j)
    BY <2>1 DEF Ahead
  <2>3. \A j \in 1..Len(r) : i < j => j + 1 \in 1..Len(q) /\ i + 1 < j + 1
    BY <1>1
  <2> QED BY <1>5, <2>2, <2>3
<1> QED BY <1>4, <1>6, <1>7, <1>8, <1>9 DEF Ahead, r

\* When the FIN of k is the first packet nothing of k is ahead of its session.
LEMMA HeadFin ==
    ASSUME NEW q \in Seq(Segment), q # <<>>, NEW k, NEW n \in Nat, NEW m \in Nat, NEW st,
           FinAt(q, k, 1), m <= n, Ahead(q, k, n, st, m)
    PROVE  st = "fin" /\ m = n
<1>1. Len(q) \in Nat \ {0} /\ 1 \in 1..Len(q)
  BY TailStep
<1>2. \A i \in 1..Len(q) : ~DataAt(q, k, i)
  <2>1. ~DataAt(q, k, 1)
    BY DEF DataAt, FinAt
  <2>2. \A i \in 1..Len(q) : i = 1 \/ 1 < i
    BY <1>1
  <2> QED BY <1>1, <2>1, <2>2 DEF Ahead
<1>3. m < n => m + 1 \in (m + 1)..n
  OBVIOUS
<1>4. ~(m < n)
  BY <1>2, <1>3 DEF Ahead
<1> QED BY <1>1, <1>4 DEF Ahead

\* A segment is put behind q.
LEMMA AppendStep ==
    ASSUME NEW q \in Seq(Segment), NEW x \in Segment
    PROVE  /\ Len(q) \in Nat /\ Len(Append(q, x)) = Len(q) + 1
           /\ Append(q, x)[Len(q) + 1] = x /\ Len(q) + 1 \in 1..Len(Append(q, x))
           /\ \A i \in 1..Len(q) : i \in 1..Len(Append(q, x)) /\ i < Len(q) + 1 /\ Append(q, x)[i] = q[i]
           /\ \A i \in 1..Len(Append(q, x)) : i \in 1..Len(q) \/ i = Len(q) + 1
           /\ \A i \in 1..Len(Append(q, x)) : ~(Len(q) + 1 < i)
<1> HIDE DEF Segment
<1> DEFINE r == Append(q, x)
           n == Len(q)
<1>1. n \in Nat /\ Len(r) = n + 1 /\ r[n + 1] = x /\ \A i \in 1..n : r[i] = q[i]
  BY AppendProperties
<1> HIDE DEF r, n
<1>2. /\ n + 1 \in 1..(n + 1) /\ \A i \in 1..n : i \in 1..(n + 1) /\ i < n + 1
      /\ \A i \in 1..(n + 1) : i \in 1..n \/ i = n + 1
      /\ \A i \in 1..(n + 1) : ~(n + 1 < i)
  BY <1>1
<1> QED BY <1>1, <1>2 DEF r, n

\* A segment of another app, or neither data nor a FIN, changes nothing of what is
\* ahead; nor does a FIN at the end.
LEMMA AppendAhead ==
    ASSUME NEW q \in Seq(Segment), NEW x \in Segment, NEW k, NEW n \in Nat, NEW m \in Nat, NEW st, NEW end,
           Ahead(q, k, n, st, m), x.key = k => x.kind # "DATA",
           \/ st = end /\ (x.key = k => x.kind # "FIN")
           \/ end = "fin"
    PROVE  Ahead(Append(q, x), k, n, end, m)
<1> DEFINE r == Append(q, x)
           l == Len(q)
<1>1. /\ l \in Nat /\ Len(r) = l + 1 /\ r[l + 1] = x
      /\ \A i \in 1..l : i \in 1..Len(r) /\ i < l + 1 /\ r[i] = q[i]
      /\ \A i \in 1..Len(r) : i \in 1..l \/ i = l + 1
      /\ \A i \in 1..Len(r) : ~(l + 1 < i)
  BY AppendStep
<1>2. /\ \A i \in 1..l : DataAt(q, k, i) => m < q[i].seq /\ q[i].seq <= n
      /\ \A i, j \in 1..l : DataAt(q, k, i) /\ DataAt(q, k, j) /\ i < j => q[i].seq < q[j].seq
      /\ \A b \in (m + 1)..n : \E i \in 1..l : DataAt(q, k, i) /\ q[i].seq = b
      /\ \A i \in 1..l : FinAt(q, k, i) => st = "fin" /\ \A j \in 1..l : i < j => ~DataAt(q, k, j)
  BY DEF Ahead
<1> HIDE DEF r, l
<1>3. \A i \in 1..Len(r) : DataAt(r, k, i) => i \in 1..l /\ DataAt(q, k, i) /\ r[i] = q[i]
  BY <1>1 DEF DataAt
<1>4. \A i \in 1..l : DataAt(q, k, i) => i \in 1..Len(r) /\ DataAt(r, k, i) /\ r[i] = q[i]
  BY <1>1 DEF DataAt
<1>5. ASSUME NEW i \in 1..Len(r), FinAt(r, k, i)
      PROVE  end = "fin" /\ \A j \in 1..Len(r) : i < j => ~DataAt(r, k, j)
  <2>1. CASE i \in 1..l
    <3>1. FinAt(q, k, i)
      BY <1>1, <1>5, <2>1 DEF FinAt
    <3>2. st = "fin" /\ \A j \in 1..l : i < j => ~DataAt(q, k, j)
      BY <1>2, <2>1, <3>1
    <3> QED BY <1>3, <3>2
  <2>2. CASE i = l + 1
    <3>1. end = "fin"
      BY <1>1, <1>5, <2>2 DEF FinAt
    <3> QED BY <1>1, <2>2, <3>1
  <2> QED BY <1>1, <2>1, <2>2
<1>6. \A b \in (m + 1)..n : \E i \in 1..Len(r) : DataAt(r, k, i) /\ r[i].seq = b
  BY <1>2, <1>4
<1>7. \A i \in 1..Len(r) : DataAt(r, k, i) => m < r[i].seq /\ r[i].seq <= n
  BY <1>2, <1>3
<1>8. \A i, j \in 1..Len(r) : DataAt(r, k, i) /\ DataAt(r, k, j) /\ i < j => r[i].seq < r[j].seq
  BY <1>2, <1>3
<1> QED BY <1>5, <1>6, <1>7, <1>8 DEF Ahead, r

\* The next byte of the app is ahead too, as long as there is no FIN before it.
LEMMA AppendData ==
    ASSUME NEW q \in Seq(Segment), NEW x \in Segment, NEW k, NEW n \in Nat, NEW m \in Nat, NEW st,
           Ahead(q, k, n, st, m), st # "fin", m <= n, x.key = k, x.kind = "DATA", x.seq = n + 1
    PROVE  Ahead(Append(q, x), k, n + 1, st, m)
<1> DEFINE r == Append(q, x)
           l == Len(q)
<1>1. /\ l \in Nat /\ Len(r) = l + 1 /\ r[l + 1] = x /\ l + 1 \in 1..Len(r)
      /\ \A i \in 1..l : i \in 1..Len(r) /\ i < l + 1 /\ r[i] = q[i]
      /\ \A i \in 1..Len(r) : i \in 1..l \/ i = l + 1
      /\ \A i \in 1..Len(r) : ~(l + 1 < i)
  BY AppendStep
<1>2. /\ \A i \in 1..l : DataAt(q, k, i) => m < q[i].seq /\ q[i].seq <= n
      /\ \A i, j \in 1..l : DataAt(q, k, i) /\ DataAt(q, k, j) /\ i < j => q[i].seq < q[j].seq
      /\ \A b \in (m + 1)..n : \E i \in 1..l : DataAt(q, k, i) /\ q[i].seq = b
      /\ \A i \in 1..l : ~FinAt(q, k, i)
  BY DEF Ahead
<1>3. \A i \in 1..l : q[i].seq \in Nat
  <2>1. \A i \in 1..Len(q) : q[i] \in Segment
    BY ElementOfSeq
  <2> QED BY <2>1, Bounds DEF Segment
<1> HIDE DEF r, l
<1>4. \A i \in 1..Len(r) : DataAt(r, k, i) => i = l + 1 \/ (i \in 1..l /\ DataAt(q, k, i) /\ r[i] = q[i])
  BY <1>1 DEF DataAt
<1>5. \A i \in 1..l : DataAt(q, k, i) => i \in 1..Len(r) /\ DataAt(r, k, i) /\ r[i] = q[i]
  BY <1>1 DEF DataAt
<1>6. DataAt(r, k, l + 1) /\ r[l + 1].seq = n + 1
  BY <1>1 DEF DataAt
<1>7. ASSUME NEW i \in 1..Len(r), DataAt(r, k, i) PROVE m < r[i].seq /\ r[i].seq <= n + 1
  <2>1. CASE i = l + 1
    BY <1>6, <2>1
  <2>2. CASE i \in 1..l /\ DataAt(q, k, i) /\ r[i] = q[i]
    <3>1. m < q[i].seq /\ q[i].seq <= n /\ q[i].seq \in Nat
      BY <1>2, <1>3, <2>2
    <3> QED BY <2>2, <3>1
  <2> QED BY <1>4, <1>7, <2>1, <2>2
<1>8. ASSUME NEW i \in 1..Len(r), NEW j \in 1..Len(r), DataAt(r, k, i), DataAt(r, k, j), i < j
      PROVE  r[i].seq < r[j].seq
  <2>1. i \in 1..l /\ DataAt(q, k, i) /\ r[i] = q[i]
    BY <1>1, <1>4, <1>8
  <2>2. CASE j = l + 1
    <3>1. q[i].seq <= n /\ q[i].seq \in Nat
      BY <1>2, <1>3, <2>1
    <3> QED BY <1>6, <2>1, <2>2, <3>1
  <2>3. CASE j \in 1..l /\ DataAt(q, k, j) /\ r[j] = q[j]
    BY <1>2, <1>8, <2>1, <2>3
  <2> QED BY <1>4, <1>8, <2>2, <2>3
<1>9. ASSUME NEW b \in (m + 1)..(n + 1) PROVE \E i \in 1..Len(r) : DataAt(r, k, i) /\ r[i].seq = b
  <2>1. b \in (m + 1)..n \/ b = n + 1
    OBVIOUS
  <2>2. CASE b \in (m + 1)..n
    BY <1>2, <1>5, <2>2
  <2>3. CASE b = n + 1
    BY <1>1, <1>6, <2>3
  <2> QED BY <2>1, <2>2, <2>3
<1>10. \A i \in 1..Len(r) : ~FinAt(r, k, i)
  BY <1>1, <1>2 DEF FinAt
<1> QED BY <1>7, <1>8, <1>9, <1>10 DEF Ahead, r

\* A SYN in the tunnel is the last segment of its app, which waits for the answer.
SynLast ==
    \A i \in 1..Len(tun) : tun[i].kind = "SYN" =>
      /\ app[tun[i].key] = "syn" /\ sent[tun[i].key] = 0
      /\ \A j \in 1..Len(tun) : i < j => tun[j].key # tun[i].key

\* The first m bytes of the app, in order and once, have been written upstream.
Holds(e, m) == Len(e.written) = m /\ \A i \in 1..m : e.written[i] = i

\* A session that takes data has written what it has acknowledged, and the rest is
\* ahead of it.
Taking(k) ==
    \E m \in 0..sent[k] : /\ Holds(sessions[k], m) /\ sessions[k].clientSeq = m + 1
                          /\ Ahead(tun, k, sent[k], app[k], m)

\* Once the FIN of the app is acknowledged everything has been written.
Finished(k) == app[k] = "fin" /\ Holds(sessions[k], sent[k])

\* Session s has acknowledged the FIN, although a reader may have changed its state.
Ending(s) == state[s] \in {"CLOSE_WAIT", "LAST_ACK"} \/ At("fin", s)

Open(s) == state[s] \in {"SYN_RECEIVED", "ESTABLISHED"}

Stream(k) ==
    ~Emptied(sessions[k].s) /\ app[k] \in {"open", "fin"} =>
      (Open(sessions[k].s) => Taking(k)) /\ (Ending(sessions[k].s) => Finished(k))

StreamInv == SynLast /\ \A k \in Table : Stream(k)

\* The entry of k keeps what has been written and acknowledged.
SameEntry(k) ==
    /\ sessions'[k].s = sessions[k].s /\ sessions'[k].written = sessions[k].written
    /\ sessions'[k].clientSeq = sessions[k].clientSeq

\* Nobody's session opens or takes a FIN.
SameStates ==
    \A x \in Ids :
      /\ state'[x] \in {"SYN_RECEIVED", "ESTABLISHED"} => Open(x)
      /\ state'[x] \in {"CLOSE_WAIT", "LAST_ACK"} \/ (loop'.pc = "fin" /\ loop'.s = x) => Ending(x)

\* What cleanup has emptied is in the table no more, or empty still.
SameSweep == \A k \in Table' : Emptied(sessions[k].s) => Emptied(sessions[k].s)'

\* Cleanup rests at the entry, and nothing but the read loop takes its session away.
LEMMA RestingSweep == ASSUME UNCHANGED sweep, \A k \in Table' : SameEntry(k) PROVE SameSweep
  BY DEF SameSweep, SameEntry, Emptied

\* The stream of k when its session does nothing about it.
LEMMA SameStream ==
    ASSUME NEW k, Stream(k), sent[k] \in Nat, app'[k] = app[k], sent'[k] = sent[k], SameEntry(k),
           sessions[k].s \in Ids, Emptied(sessions[k].s) => Emptied(sessions[k].s)',
           state'[sessions[k].s] \in {"SYN_RECEIVED", "ESTABLISHED"} => Open(sessions[k].s),
           \/ state'[sessions[k].s] \in {"CLOSE_WAIT", "LAST_ACK"}
           \/ loop'.pc = "fin" /\ loop'.s = sessions[k].s
           => Ending(sessions[k].s),
           \A m \in Nat : Ahead(tun, k, sent[k], app[k], m) => Ahead(tun', k, sent[k], app[k], m)
    PROVE  Stream(k)'
<1> SUFFICES ASSUME ~Emptied(sessions[k].s)', app'[k] \in {"open", "fin"}
             PROVE  (Open(sessions[k].s)' => Taking(k)') /\ (Ending(sessions[k].s)' => Finished(k)')
  BY DEF Stream
<1>1. ASSUME Open(sessions[k].s)' PROVE Taking(k)'
  <2>1. Open(sessions[k].s)
    BY <1>1 DEF Open, SameEntry
  <2>2. PICK m \in 0..sent[k] : /\ Holds(sessions[k], m) /\ sessions[k].clientSeq = m + 1
                                /\ Ahead(tun, k, sent[k], app[k], m)
    BY <2>1 DEF Stream, Taking
  <2>3. Ahead(tun', k, sent[k], app[k], m) /\ m \in 0..sent'[k]
    BY <2>2
  <2>4. Holds(sessions'[k], m) /\ sessions'[k].clientSeq = m + 1
    BY <2>2 DEF Holds, SameEntry
  <2>5. Ahead(tun', k, sent'[k], app'[k], m)
    BY <2>3
  <2> QED BY <2>3, <2>4, <2>5 DEF Taking
<1>2. ASSUME Ending(sessions[k].s)' PROVE Finished(k)'
  <2>1. Ending(sessions[k].s)
    BY <1>2 DEF Ending, At, SameEntry
  <2>2. Finished(k)
    BY <2>1 DEF Stream
  <2> QED BY <2>2 DEF Finished, Holds, SameEntry
<1> QED BY <1>1, <1>2

\* A step that leaves the tunnel alone, and resets an app at most.
LEMMA KeepStream ==
    ASSUME TypeInv, StreamInv, UNCHANGED <<tun, sent>>, KeptIds, SameStates, SameSweep,
           \A k \in Table' : SameEntry(k),
           \A k \in Keys : app'[k] = app[k] \/ (app'[k] = "closed" /\ app[k] # "syn")
    PROVE  StreamInv'
<1>1. sent \in [Keys -> 0..MaxData] /\ TypeOK /\ tun \in Seq(Segment)
  BY DEF TypeInv, TypeOK
<1>2. SynLast'
  <2>1. \A i \in 1..Len(tun) : tun[i].key \in Keys
    <3>1. \A i \in 1..Len(tun) : tun[i] \in Segment
      BY <1>1, ElementOfSeq
    <3> QED BY <3>1 DEF Segment
  <2>2. \A i \in 1..Len(tun) : app[tun[i].key] = "syn" => app'[tun[i].key] = "syn"
    BY <2>1
  <2> QED BY <2>2 DEF StreamInv, SynLast
<1>3. ASSUME NEW k \in Table' PROVE Stream(k)'
  <2>1. k \in Table /\ k \in Keys /\ Stream(k) /\ SameEntry(k)
    BY DEF KeptIds, StreamInv, Table
  <2>2. sessions[k].s \in Ids /\ sent[k] \in Nat /\ sent'[k] = sent[k]
    BY <1>1, <2>1, TableEntry, EntryType, Bounds
  <2>3. CASE app'[k] = app[k]
    <3>1. \A m \in Nat : Ahead(tun, k, sent[k], app[k], m) => Ahead(tun', k, sent[k], app[k], m)
      OBVIOUS
    <3>2. Emptied(sessions[k].s) => Emptied(sessions[k].s)'
      BY DEF SameSweep
    <3> QED BY <2>1, <2>2, <2>3, <3>1, <3>2, SameStream DEF SameStates
  <2>4. CASE app'[k] = "closed"
    BY <2>4 DEF Stream
  <2> QED BY <2>1, <2>3, <2>4
<1> QED BY <1>2, <1>3 DEF StreamInv

\* The read loop goes on with the session it works on.
LEMMA RunStream ==
    ASSUME TypeInv, LoopInv, StreamInv, NEW s \in Ids, Connected(s) \/ Promote(s) \/ ConnectFails(s) \/ FinSent(s)
    PROVE  StreamInv'
<1>1. /\ TypeOK /\ state \in [Ids -> TcpState] /\ app \in [Keys -> {"closed", "syn", "open", "fin"}]
      /\ sessions \in [Keys -> Entry \cup {NoEntry}]
      /\ loop \in [pc : {"connecting", "connected", "fin"}, s : Ids, key : Keys] \cup {Waiting}
  BY DEF TypeInv, TypeOK
<1>2. UNCHANGED <<tun, sent, sweep>>
  BY DEF Connected, Promote, ConnectFails, FinSent, appVars
<1>3. \A k \in Keys : app'[k] = app[k] \/ (app'[k] = "closed" /\ app[k] # "syn")
  <2>1. CASE ConnectFails(s)
    BY <1>1, <2>1 DEF ConnectFails, ResetApp
  <2>2. CASE ~ConnectFails(s)
    BY <2>2 DEF Connected, Promote, FinSent, appVars
  <2> QED BY <2>1, <2>2
<1>4. KeptIds /\ \A k \in Table' : SameEntry(k)
  <2>1. CASE UNCHANGED sessions
    BY <2>1 DEF KeptIds, Table, SameEntry
  <2>2. CASE Promote(s)
    <3>1. sessions' = [k \in Keys |-> IF sessions[k].s = s THEN Touched(sessions[k]) ELSE sessions[k]]
      BY <2>2 DEF Promote
    <3>2. KeptIds /\ \A k \in Keys : sessions[k] # NoEntry => SameEntry(k)
      BY <1>1, <3>1, TouchedIds DEF SameEntry
    <3> QED BY <3>2 DEF KeptIds, Table
  <2> QED BY <2>1, <2>2 DEF Connected, ConnectFails, FinSent
<1>5. SameStates
  <2>1. loop'.pc # "fin"
    BY <1>1 DEF Connected, Promote, ConnectFails, FinSent, Waiting
  <2>2. CASE Connected(s)
    BY <2>1, <2>2 DEF Connected, SameStates, Open, Ending
  <2>3. CASE Promote(s)
    <3>1. state' = [state EXCEPT ![s] = IF state[s] = "SYN_RECEIVED" THEN "ESTABLISHED" ELSE state[s]]
      BY <2>3 DEF Promote
    <3> QED BY <1>1, <2>1, <3>1 DEF SameStates, Open, Ending
  <2>4. CASE ConnectFails(s)
    <3>1. state' = [state EXCEPT ![s] = "CLOSED"]
      BY <2>4 DEF ConnectFails
    <3> QED BY <1>1, <2>1, <3>1 DEF SameStates, Open, Ending
  <2>5. CASE FinSent(s)
    <3>1. state' = [state EXCEPT ![s] = "LAST_ACK"] /\ At("fin", s)
      BY <2>5 DEF FinSent
    <3> QED BY <1>1, <2>1, <3>1 DEF SameStates, Open, Ending
  <2> QED BY <2>2, <2>3, <2>4, <2>5
<1> QED BY <1>2, <1>3, <1>4, <1>5, RestingSweep, KeepStream

\* Readers touch neither what is written nor the apps.
LEMMA ReaderStream == ASSUME TypeInv, StreamInv, NEW s \in Ids, Reader(s) PROVE StreamInv'
<1>1. TypeOK /\ state \in [Ids -> TcpState]
  BY DEF TypeInv, TypeOK
<1>2. UNCHANGED <<tun, sent, app, loop, sweep>>
  BY DEF Reader, ReaderStart, ReaderRelay, ReaderAdvance, ReaderEnd, ReaderCheck, ReaderFinSent, ReaderCancelled, readerUnchanged,
     appVars
<1>3. \/ UNCHANGED sessions
      \/ sessions' = [k \in Keys |-> IF sessions[k].s = s THEN Touched(sessions[k]) ELSE sessions[k]]
  BY DEF Reader, ReaderStart, ReaderRelay, ReaderAdvance, ReaderEnd, ReaderCheck, ReaderFinSent, ReaderCancelled
<1>4. UNCHANGED state \/ state' = [state EXCEPT ![s] = "FIN_WAIT_1"]
  BY DEF Reader, ReaderStart, ReaderRelay, ReaderAdvance, ReaderEnd, ReaderCheck, ReaderFinSent, ReaderCancelled
<1>5. KeptIds /\ \A k \in Table' : SameEntry(k)
  <2>1. CASE UNCHANGED sessions
    BY <2>1 DEF KeptIds, Table, SameEntry
  <2>2. CASE sessions' = [k \in Keys |-> IF sessions[k].s = s THEN Touched(sessions[k]) ELSE sessions[k]]
    <3>1. KeptIds /\ \A k \in Keys : sessions[k] # NoEntry => SameEntry(k)
      BY <1>1, <2>2, TouchedIds DEF SameEntry
    <3> QED BY <3>1 DEF KeptIds, Table
  <2> QED BY <1>3, <2>1, <2>2
<1>6. SameStates
  <2>1. \A x \in Ids : state'[x] = state[x] \/ state'[x] = "FIN_WAIT_1"
    BY <1>1, <1>4
  <2> QED BY <1>2, <2>1 DEF SameStates, Open, Ending, At
<1> QED BY <1>2, <1>5, <1>6, RestingSweep, KeepStream

\* Cleanup, the clock and the end of the VPN.
LEMMA ManagerStream ==
    ASSUME TypeInv, SweepInv, StreamInv, Stop \/ \E k \in Keys : Cleanup(k) \/ Elapse(k) PROVE StreamInv'
<1>1. TypeOK /\ state \in [Ids -> TcpState] /\ sessions \in [Keys -> Entry \cup {NoEntry}]
  BY DEF TypeInv, TypeOK
<1>2. UNCHANGED <<tun, sent, app, loop>>
  BY <1>1, CleanupEffect DEF Stop, Elapse, managerUnchanged, appVars
<1>3. SameStates
  <2>1. \A x \in Ids : state'[x] = state[x] \/ state'[x] = "CLOSED"
    <3>1. CASE \E k \in Keys : Cleanup(k)
      <4>1. UNCHANGED state \/ \E y \in Ids : state' = [state EXCEPT ![y] = "CLOSED"]
        BY <1>1, <3>1, CleanupEffect
      <4> QED BY <1>1, <4>1
    <3> QED BY <3>1 DEF Stop, Elapse, Close
  <2> QED BY <1>2, <2>1 DEF SameStates, Open, Ending, At
<1>4. \A k \in Keys : sessions'[k] = NoEntry \/ (sessions[k] # NoEntry /\ SameEntry(k))
  <2>1. CASE Stop
    BY <2>1 DEF Stop
  <2>2. CASE \E k \in Keys : Cleanup(k)
    <3>1. UNCHANGED sessions \/ \E k \in Keys : sessions' = [sessions EXCEPT ![k] = NoEntry]
      BY <1>1, <2>2, CleanupEffect
    <3> QED BY <1>1, <3>1 DEF SameEntry
  <2>3. CASE \E k \in Keys : Elapse(k)
    <3>1. PICK k \in Table : sessions' = [sessions EXCEPT ![k].idle = TRUE]
      BY <2>3 DEF Elapse
    <3> DEFINE f == [sessions[k] EXCEPT !.idle = TRUE]
    <3>2. k \in Keys /\ sessions[k] \in Entry /\ sessions[k] # NoEntry
      BY <1>1, TableEntry
    <3>3. sessions' = [sessions EXCEPT ![k] = f]
      BY <3>1
    <3>4. /\ f.s = sessions[k].s /\ f.written = sessions[k].written
          /\ f.clientSeq = sessions[k].clientSeq
      BY <3>2 DEF Entry
    <3> HIDE DEF f
    <3> QED BY <1>1, <3>2, <3>3, <3>4 DEF SameEntry
  <2> QED BY <2>1, <2>2, <2>3
<1>5. KeptIds
  BY <1>1, <1>4, KeepsIds DEF SameEntry
<1>6. \A k \in Table' : SameEntry(k)
  BY <1>4 DEF Table
<1>7. SameSweep
  <2>1. CASE UNCHANGED sweep
    BY <1>6, <2>1, RestingSweep
  <2>2. ASSUME NEW k \in Keys, Cleanup(k) PROVE SameSweep
    <3> SUFFICES ASSUME NEW j \in Table', Emptied(sessions[j].s) PROVE Emptied(sessions[j].s)'
      BY DEF SameSweep
    <3>1. j \in Table /\ sessions'[j].s = sessions[j].s /\ sweep.s = sessions[j].s
          /\ sweep.pc \in {"state", "remove"}
      BY <1>5 DEF KeptIds, Emptied
    <3>2. j = sweep.key
      BY <3>1 DEF SweepInv
    <3>3. sweep # Resting
      BY <3>1 DEF Resting
    <3>4. sweep.pc # "remove"
      <4>1. sweep.pc = "remove" => sweep.key = k /\ sessions' = [sessions EXCEPT ![k] = NoEntry]
        BY <1>1, <2>2, <3>3, CleanupEffect
      <4>2. sweep.pc = "remove" => sessions'[j] = NoEntry
        BY <1>1, <3>2, <4>1
      <4> QED BY <4>2 DEF Table
    <3>5. sweep'.pc = "remove" /\ sweep'.s = sweep.s
      BY <1>1, <2>2, <3>1, <3>3, <3>4, CleanupEffect
    <3> QED BY <3>1, <3>5 DEF Emptied
  <2> QED BY <2>1, <2>2 DEF Stop, Elapse
<1> QED BY <1>2, <1>3, <1>5, <1>6, <1>7, KeepStream

\* What the app of key k sends, and it alone changes; it does not wait for the answer
\* to a SYN.
AppSends(k, x) ==
    /\ x \in Segment /\ x.key = k /\ tun' = Append(tun, x) /\ app[k] # "syn"
    /\ \A j \in Keys : j # k => app'[j] = app[j] /\ sent'[j] = sent[j]
    /\ x.kind = "SYN" => app'[k] = "syn" /\ sent'[k] = 0
    /\ UNCHANGED <<sessions, state, loop, sweep>>

\* Whatever it is, the streams of the other apps and the SYNs stay as they are.
LEMMA SendsAlone ==
    ASSUME TypeInv, StreamInv, NEW k \in Keys, NEW x, AppSends(k, x)
    PROVE  SynLast' /\ \A j \in Table' : j # k => Stream(j)'
<1>1. TypeOK /\ tun \in Seq(Segment) /\ sent \in [Keys -> 0..MaxData]
      /\ x \in Segment /\ x.key = k /\ tun' = Append(tun, x)
  BY DEF TypeInv, TypeOK, AppSends
<1>2. SynLast'
  <2> DEFINE l == Len(tun)
  <2>1. /\ l \in Nat /\ Len(tun') = l + 1 /\ tun'[l + 1] = x
        /\ \A i \in 1..l : i \in 1..Len(tun') /\ i < l + 1 /\ tun'[i] = tun[i]
        /\ \A i \in 1..Len(tun') : i \in 1..l \/ i = l + 1
        /\ \A i \in 1..Len(tun') : ~(l + 1 < i)
    BY <1>1, AppendStep
  <2>2. \A i \in 1..l : tun[i].key \in Keys
    <3>1. \A i \in 1..Len(tun) : tun[i] \in Segment
      BY <1>1, ElementOfSeq
    <3> QED BY <3>1 DEF Segment
  <2>3. \A i \in 1..l : tun[i].kind = "SYN" =>
          /\ app[tun[i].key] = "syn" /\ sent[tun[i].key] = 0
          /\ \A j \in 1..l : i < j => tun[j].key # tun[i].key
    BY DEF StreamInv, SynLast
  <2> HIDE DEF l
  <2> SUFFICES ASSUME NEW i \in 1..Len(tun'), tun'[i].kind = "SYN"
               PROVE  /\ app'[tun'[i].key] = "syn" /\ sent'[tun'[i].key] = 0
                      /\ \A j \in 1..Len(tun') : i < j => tun'[j].key # tun'[i].key
    BY DEF SynLast
  <2>4. CASE i = l + 1
    BY <1>1, <2>1, <2>4 DEF AppSends
  <2>5. CASE i \in 1..l
    <3>1. tun'[i] = tun[i] /\ tun[i].kind = "SYN" /\ tun[i].key \in Keys
      BY <2>1, <2>2, <2>5
    <3>2. tun[i].key # k /\ app[tun[i].key] = "syn" /\ sent[tun[i].key] = 0
      BY <2>3, <2>5, <3>1 DEF AppSends
    <3>3. app'[tun[i].key] = "syn" /\ sent'[tun[i].key] = 0
      BY <3>1, <3>2 DEF AppSends
    <3>4. ASSUME NEW j \in 1..Len(tun'), i < j PROVE tun'[j].key # tun[i].key
      <4>1. CASE j = l + 1
        BY <1>1, <2>1, <3>2, <4>1
      <4>2. CASE j \in 1..l
        BY <2>1, <2>3, <2>5, <3>1, <3>4, <4>2
      <4> QED BY <2>1, <4>1, <4>2
    <3> QED BY <3>1, <3>3, <3>4
  <2> QED BY <2>1, <2>4, <2>5
<1>3. ASSUME NEW j \in Table', j # k PROVE Stream(j)'
  <2>1. j \in Table /\ j \in Keys /\ Stream(j)
    BY DEF Table, AppSends, StreamInv
  <2>2. app'[j] = app[j] /\ sent'[j] = sent[j] /\ SameEntry(j) /\ sent[j] \in Nat /\ sessions[j].s \in Ids
    BY <1>1, <1>3, <2>1, TableEntry, EntryType, Bounds DEF AppSends, SameEntry
  <2>3. \A m \in Nat : Ahead(tun, j, sent[j], app[j], m) => Ahead(tun', j, sent[j], app[j], m)
    BY <1>1, <1>3, <2>2, AppendAhead
  <2>4. state' = state /\ loop' = loop /\ (Emptied(sessions[j].s) => Emptied(sessions[j].s)')
    BY DEF AppSends, Emptied
  <2> QED BY <2>1, <2>2, <2>3, <2>4, SameStream DEF Open, Ending, At
<1> QED BY <1>2, <1>3

\* The app of k sends nothing, the next byte, or its FIN.
LEMMA SendsInOrder ==
    ASSUME TypeInv, StreamInv, NEW k \in Keys, NEW x, AppSends(k, x), k \in Table,
           app'[k] \in {"open", "fin"} =>
             /\ app[k] \in {"open", "fin"}
             /\ \/ x.kind \notin {"DATA", "FIN"} /\ app'[k] = app[k] /\ sent'[k] = sent[k]
                \/ x.kind = "DATA" /\ x.seq = sent[k] + 1 /\ app[k] = "open" /\ app'[k] = "open"
                   /\ sent'[k] = sent[k] + 1
                \/ x.kind = "FIN" /\ app[k] = "open" /\ app'[k] = "fin" /\ sent'[k] = sent[k]
    PROVE  Stream(k)'
<1>1. TypeOK /\ tun \in Seq(Segment) /\ sent[k] \in Nat
      /\ x \in Segment /\ x.key = k /\ tun' = Append(tun, x)
  BY Bounds DEF TypeInv, TypeOK, AppSends
<1> SUFFICES ASSUME ~Emptied(sessions[k].s)', app'[k] \in {"open", "fin"}
             PROVE  (Open(sessions[k].s)' => Taking(k)') /\ (Ending(sessions[k].s)' => Finished(k)')
  BY DEF Stream
<1>2. Stream(k) /\ app[k] \in {"open", "fin"} /\ sessions'[k] = sessions[k] /\ state' = state /\ loop' = loop
      /\ ~Emptied(sessions[k].s)
  BY DEF StreamInv, AppSends, Emptied
<1>3. ASSUME Ending(sessions[k].s)' PROVE Finished(k)'
  <2>1. Finished(k)
    BY <1>2, <1>3 DEF Ending, At, Stream
  <2>2. app'[k] = app[k] /\ sent'[k] = sent[k]
    BY <2>1 DEF Finished
  <2> QED BY <1>2, <2>1, <2>2 DEF Finished, Holds
<1>4. ASSUME Open(sessions[k].s)' PROVE Taking(k)'
  <2>1. Open(sessions[k].s)
    BY <1>2, <1>4 DEF Open
  <2>2. PICK m \in 0..sent[k] : /\ Holds(sessions[k], m) /\ sessions[k].clientSeq = m + 1
                                /\ Ahead(tun, k, sent[k], app[k], m)
    BY <1>2, <2>1 DEF Stream, Taking
  <2>3. m \in Nat /\ m <= sent[k]
    BY <1>1
  <2>4. m \in 0..sent'[k]
    BY <1>1, <2>3
  <2>5. Ahead(tun', k, sent'[k], app'[k], m)
    <3>1. CASE x.kind = "DATA"
      <4>1. x.seq = sent[k] + 1 /\ app[k] = "open" /\ app'[k] = "open" /\ sent'[k] = sent[k] + 1
        BY <3>1
      <4>2. Ahead(Append(tun, x), k, sent[k] + 1, app[k], m)
        BY <1>1, <2>2, <2>3, <3>1, <4>1, AppendData
      <4> QED BY <1>1, <4>1, <4>2
    <3>2. CASE x.kind # "DATA"
      <4>1. sent'[k] = sent[k] /\ (app'[k] = "fin" \/ (app'[k] = app[k] /\ x.kind # "FIN"))
        BY <3>2
      <4>2. Ahead(Append(tun, x), k, sent[k], app'[k], m)
        BY <1>1, <2>2, <2>3, <3>2, <4>1, AppendAhead
      <4> QED BY <1>1, <4>1, <4>2
    <3> QED BY <3>1, <3>2
  <2>6. Holds(sessions'[k], m) /\ sessions'[k].clientSeq = m + 1
    BY <1>2, <2>2
  <2> QED BY <2>4, <2>5, <2>6 DEF Taking
<1> QED BY <1>3, <1>4

\* Whatever an app sends keeps the streams.
LEMMA AppStream ==
    ASSUME TypeInv, StreamInv, ~MayPiggyback, MaxResend = 0, NEW k \in Keys, App(k) PROVE StreamInv'
<1>1. /\ TypeOK /\ app \in [Keys -> {"closed", "syn", "open", "fin"}] /\ sent \in [Keys -> 0..MaxData]
      /\ sent[k] \in 0..MaxData
  BY DEF TypeInv, TypeOK
<1>2. ~Resend
  <2>1. resends \in 0..0
    BY <1>1 DEF TypeOK
  <2>2. ~(resends < MaxResend)
    BY <2>1
  <2> QED BY <2>2 DEF Resend
<1>3. \E kind \in {"SYN", "ACK", "DATA", "FIN", "RST"}, seq \in 1..(MaxData + 1) :
        LET x == [key |-> k, kind |-> kind, seq |-> seq] IN
        /\ AppSends(k, x)
        /\ app'[k] \in {"open", "fin"} =>
             /\ app[k] \in {"open", "fin"}
             /\ \/ x.kind \notin {"DATA", "FIN"} /\ app'[k] = app[k] /\ sent'[k] = sent[k]
                \/ x.kind = "DATA" /\ x.seq = sent[k] + 1 /\ app[k] = "open" /\ app'[k] = "open"
                   /\ sent'[k] = sent[k] + 1
                \/ x.kind = "FIN" /\ app[k] = "open" /\ app'[k] = "fin" /\ sent'[k] = sent[k]
  <2>1. 1 \in 1..(MaxData + 1) /\ sent[k] + 1 \in 1..(MaxData + 1)
    BY <1>1, Bounds
  <2>2. ASSUME NEW kind \in {"SYN", "ACK", "DATA", "FIN", "RST"}, NEW seq \in 1..(MaxData + 1), Put(k, kind, seq),
               app[k] # "syn", \A j \in Keys : j # k => app'[j] = app[j] /\ sent'[j] = sent[j],
               kind = "SYN" => app'[k] = "syn" /\ sent'[k] = 0
        PROVE  AppSends(k, [key |-> k, kind |-> kind, seq |-> seq])
    <3> DEFINE x == [key |-> k, kind |-> kind, seq |-> seq]
    <3>1. x \in Segment /\ x.key = k /\ x.kind = kind
      BY DEF Segment
    <3>2. tun' = Append(tun, x) /\ UNCHANGED <<sessions, state, loop, sweep>>
      BY <2>2 DEF Put
    <3> HIDE DEF x
    <3>3. AppSends(k, x)
      BY <2>2, <3>1, <3>2 DEF AppSends
    <3> QED BY <3>3 DEF x
  <2>3. CASE AppSyn(k)
    <3>1. app[k] \in {"closed", "fin"} /\ Put(k, "SYN", 1) /\ app' = [app EXCEPT ![k] = "syn"]
          /\ sent' = [sent EXCEPT ![k] = 0]
      BY <1>2, <2>3 DEF AppSyn
    <3>2. app'[k] = "syn" /\ sent'[k] = 0 /\ \A j \in Keys : j # k => app'[j] = app[j] /\ sent'[j] = sent[j]
      BY <1>1, <3>1
    <3>3. AppSends(k, [key |-> k, kind |-> "SYN", seq |-> 1])
      BY <2>1, <2>2, <3>1, <3>2
    <3> QED BY <2>1, <3>2, <3>3
  <2>4. CASE AppReset(k)
    <3>1. app[k] \in {"open", "fin"} /\ Put(k, "RST", sent[k] + 1) /\ app' = [app EXCEPT ![k] = "closed"]
          /\ sent' = sent
      BY <2>4 DEF AppReset
    <3>2. app'[k] = "closed" /\ \A j \in Keys : j # k => app'[j] = app[j] /\ sent'[j] = sent[j]
      BY <1>1, <3>1
    <3>3. AppSends(k, [key |-> k, kind |-> "RST", seq |-> sent[k] + 1])
      BY <2>1, <2>2, <3>1, <3>2
    <3> QED BY <2>1, <3>2, <3>3
  <2>5. CASE AppAck(k)
    <3>1. app[k] \in {"open", "fin"} /\ Put(k, "ACK", sent[k] + 1) /\ app' = app /\ sent' = sent
      BY <2>5 DEF AppAck, appVars
    <3>2. AppSends(k, [key |-> k, kind |-> "ACK", seq |-> sent[k] + 1])
      BY <2>1, <2>2, <3>1
    <3> QED BY <2>1, <3>1, <3>2
  <2>6. CASE AppData(k)
    <3>1. app[k] = "open" /\ Put(k, "DATA", sent[k] + 1) /\ app' = app
          /\ sent' = [sent EXCEPT ![k] = sent[k] + 1]
      BY <2>6 DEF AppData
    <3>2. sent'[k] = sent[k] + 1 /\ \A j \in Keys : j # k => app'[j] = app[j] /\ sent'[j] = sent[j]
      BY <1>1, <3>1
    <3>3. AppSends(k, [key |-> k, kind |-> "DATA", seq |-> sent[k] + 1])
      BY <2>1, <2>2, <3>1, <3>2
    <3> QED BY <2>1, <3>1, <3>2, <3>3
  <2>7. CASE AppFin(k)
    <3>1. app[k] = "open" /\ Put(k, "FIN", sent[k] + 1) /\ app' = [app EXCEPT ![k] = "fin"] /\ sent' = sent
      BY <2>7 DEF AppFin
    <3>2. app'[k] = "fin" /\ \A j \in Keys : j # k => app'[j] = app[j] /\ sent'[j] = sent[j]
      BY <1>1, <3>1
    <3>3. AppSends(k, [key |-> k, kind |-> "FIN", seq |-> sent[k] + 1])
      BY <2>1, <2>2, <3>1, <3>2
    <3> QED BY <2>1, <3>1, <3>2, <3>3
  <2>8. ~AppResend(k)
    BY <1>2 DEF AppResend
  <2> QED BY <2>3, <2>4, <2>5, <2>6, <2>7, <2>8 DEF App
<1>4. PICK x : /\ AppSends(k, x)
               /\ app'[k] \in {"open", "fin"} =>
                    /\ app[k] \in {"open", "fin"}
                    /\ \/ x.kind \notin {"DATA", "FIN"} /\ app'[k] = app[k] /\ sent'[k] = sent[k]
                       \/ x.kind = "DATA" /\ x.seq = sent[k] + 1 /\ app[k] = "open" /\ app'[k] = "open"
                          /\ sent'[k] = sent[k] + 1
                       \/ x.kind = "FIN" /\ app[k] = "open" /\ app'[k] = "fin" /\ sent'[k] = sent[k]
  BY <1>3
<1>5. SynLast' /\ \A j \in Table' : j # k => Stream(j)'
  BY <1>4, SendsAlone
<1>6. k \in Table' => Stream(k)'
  <2>1. Table' = Table
    BY <1>4 DEF AppSends, Table
  <2> QED BY <1>4, <2>1, SendsInOrder
<1> QED BY <1>5, <1>6 DEF StreamInv

\* The read loop takes packet p from the tunnel.
Takes(p) ==
    /\ tun # <<>> /\ p = tun[1] /\ tun' = Tail(tun) /\ UNCHANGED <<sent, sweep>>
    /\ \A k \in Keys : k # p.key => app'[k] = app[k]

\* The SYNs behind it stay the last segments of their apps.
LEMMA TakesSyn ==
    ASSUME TypeInv, StreamInv, NEW p \in Segment, Takes(p),
           app'[p.key] = app[p.key] \/ p.kind = "SYN" \/ app[p.key] # "syn"
    PROVE  SynLast'
<1>1. tun \in Seq(Segment) /\ tun # <<>> /\ tun' = Tail(tun) /\ p = tun[1]
  BY DEF TypeInv, TypeOK, Takes
<1>2. /\ 1 \in 1..Len(tun) /\ Len(tun) \in Nat
      /\ \A i \in 1..Len(tun') : i \in Nat /\ i + 1 \in 1..Len(tun) /\ tun'[i] = tun[i + 1]
  BY <1>1, TailStep
<1>3. \A i \in 1..Len(tun) : tun[i].key \in Keys
  <2>1. \A i \in 1..Len(tun) : tun[i] \in Segment
    BY <1>1, ElementOfSeq
  <2> QED BY <2>1 DEF Segment
<1>4. \A i \in 1..Len(tun) : tun[i].kind = "SYN" =>
        /\ app[tun[i].key] = "syn" /\ sent[tun[i].key] = 0
        /\ \A j \in 1..Len(tun) : i < j => tun[j].key # tun[i].key
  BY DEF StreamInv, SynLast
<1> SUFFICES ASSUME NEW i \in 1..Len(tun'), tun'[i].kind = "SYN"
             PROVE  /\ app'[tun'[i].key] = "syn" /\ sent'[tun'[i].key] = 0
                    /\ \A j \in 1..Len(tun') : i < j => tun'[j].key # tun'[i].key
  BY DEF SynLast
<1>5. PICK k \in Keys : k = tun'[i].key /\ k = tun[i + 1].key /\ i + 1 \in 1..Len(tun) /\ tun[i + 1].kind = "SYN"
  BY <1>2, <1>3
<1>6. /\ app[k] = "syn" /\ sent[k] = 0
      /\ \A j \in 1..Len(tun) : i + 1 < j => tun[j].key # k
  BY <1>4, <1>5
<1>7. k = p.key => p.kind # "SYN"
  <2>1. 1 < i + 1
    BY <1>2
  <2> QED BY <1>1, <1>2, <1>4, <1>5, <2>1
<1>8. app'[k] = "syn" /\ sent'[k] = 0
  BY <1>6, <1>7 DEF Takes
<1>9. \A j \in 1..Len(tun') : i < j => j + 1 \in 1..Len(tun) /\ i + 1 < j + 1
  BY <1>2
<1>10. \A j \in 1..Len(tun') : i < j => tun'[j].key # k
  BY <1>2, <1>6, <1>9
<1> QED BY <1>5, <1>8, <1>10

\* The stream of k, when p is no data of k or is passed over.
LEMMA TakesOther ==
    ASSUME TypeInv, StreamInv, NEW p \in Segment, Takes(p), NEW k \in Table, ~DataAt(tun, k, 1),
           app'[k] = app[k], SameEntry(k),
           state'[sessions[k].s] \in {"SYN_RECEIVED", "ESTABLISHED"} => Open(sessions[k].s),
           \/ state'[sessions[k].s] \in {"CLOSE_WAIT", "LAST_ACK"}
           \/ loop'.pc = "fin" /\ loop'.s = sessions[k].s
           => Ending(sessions[k].s)
    PROVE  Stream(k)'
<1>1. TypeOK /\ tun \in Seq(Segment) /\ tun # <<>> /\ tun' = Tail(tun) /\ sent' = sent
      /\ (Emptied(sessions[k].s) => Emptied(sessions[k].s)')
  BY DEF TypeInv, TypeOK, Takes, SameEntry, Emptied
<1>2. sessions[k].s \in Ids /\ sent[k] \in Nat /\ Stream(k)
  BY <1>1, TableEntry, EntryType, Bounds DEF TypeOK, StreamInv
<1>3. \A m \in Nat : Ahead(tun, k, sent[k], app[k], m) => Ahead(tun', k, sent[k], app[k], m)
  BY <1>1, <1>2, TailAhead
<1> QED BY <1>1, <1>2, <1>3, SameStream

\* A packet that no session takes: the app gets a reset.
LEMMA RefusedStream ==
    ASSUME TypeInv, LoopInv, StreamInv, NEW p \in Segment, Takes(p), SynRefused(p) \/ Unknown(p)
    PROVE  StreamInv'
<1>1. /\ UNCHANGED <<sessions, state, loop>>
      /\ app \in [Keys -> {"closed", "syn", "open", "fin"}] /\ p.key \in Keys
  BY DEF SynRefused, Unknown, TypeInv, TypeOK, Segment
<1>2. app'[p.key] = "closed" \/ app'[p.key] = app[p.key]
  BY <1>1 DEF SynRefused, Unknown, ResetApp
<1>3. p.kind = "SYN" => app'[p.key] = "closed"
  BY <1>1 DEF SynRefused, Unknown, ResetApp
<1>4. app'[p.key] = app[p.key] \/ p.kind = "SYN" \/ app[p.key] # "syn"
  BY <1>1 DEF SynRefused, Unknown, ResetApp
<1>5. SynLast'
  BY <1>4, TakesSyn
<1>6. ASSUME NEW k \in Table' PROVE Stream(k)'
  <2>1. k \in Table /\ k \in Keys
    BY <1>1 DEF Table
  <2>2. CASE k = p.key
    <3>1. app'[k] = "closed"
      BY <1>3, <2>1, <2>2 DEF SynRefused, Unknown
    <3> QED BY <3>1 DEF Stream
  <2>3. CASE k # p.key
    <3>1. ~DataAt(tun, k, 1) /\ app'[k] = app[k] /\ SameEntry(k)
      BY <1>1, <2>1, <2>3 DEF DataAt, Takes, SameEntry
    <3> QED BY <1>1, <2>1, <3>1, TakesOther DEF Open, Ending, At
  <2> QED BY <2>2, <2>3
<1> QED BY <1>5, <1>6 DEF StreamInv

\* A SYN: nothing of its app is in the tunnel any more.
LEMMA AcceptStream ==
    ASSUME TypeInv, LoopInv, StreamInv, NEW p \in Segment, Takes(p), loop.pc = "read", Accept(p)
    PROVE  StreamInv'
<1> DEFINE n == created + 1
           old == sessions[p.key].s
           new == [NoEntry EXCEPT !.s = n, !.clientSeq = 1]
<1>1. /\ p.kind = "SYN" /\ created < MaxCreated
      /\ state' = [x \in Ids |-> CASE x = n -> "SYN_RECEIVED"
                                   [] x = old -> "CLOSED"
                                   [] OTHER -> state[x]]
      /\ sessions' = [sessions EXCEPT ![p.key] = new]
      /\ loop' = [pc |-> "connecting", s |-> n, key |-> p.key]
      /\ app' = [app EXCEPT ![p.key] = IF app[p.key] = "syn" THEN "open" ELSE app[p.key]]
  BY DEF Accept, handleSyn
<1>2. /\ TypeOK /\ tun \in Seq(Segment) /\ sessions \in [Keys -> Entry \cup {NoEntry}]
      /\ app \in [Keys -> {"closed", "syn", "open", "fin"}] /\ sent \in [Keys -> 0..MaxData]
      /\ p.key \in Keys /\ created \in Nat /\ tun # <<>> /\ tun' = Tail(tun) /\ sent' = sent /\ p = tun[1]
  <2>1. /\ TypeOK /\ tun \in Seq(Segment) /\ sessions \in [Keys -> Entry \cup {NoEntry}]
        /\ app \in [Keys -> {"closed", "syn", "open", "fin"}] /\ sent \in [Keys -> 0..MaxData]
        /\ created \in 0..MaxCreated
    BY DEF TypeInv, TypeOK
  <2>2. created \in Nat
    BY <2>1, Bounds
  <2>3. p.key \in Keys
    BY DEF Segment
  <2>4. tun # <<>> /\ tun' = Tail(tun) /\ sent' = sent /\ p = tun[1]
    BY DEF Takes
  <2> QED BY <2>1, <2>2, <2>3, <2>4
<1>3. new.s = n /\ new.clientSeq = 1 /\ new.written = <<>>
  BY DEF NoEntry
<1>4. /\ 1 \in 1..Len(tun) /\ Len(tun) \in Nat /\ Len(tun') \in Nat
      /\ \A i \in 1..Len(tun') : i \in Nat /\ i + 1 \in 1..Len(tun) /\ tun'[i] = tun[i + 1]
  BY <1>2, TailStep
<1>5. SynLast'
  BY <1>1, TakesSyn
<1>6. app[p.key] = "syn" /\ sent[p.key] = 0 /\ \A j \in 1..Len(tun) : 1 < j => tun[j].key # p.key
  BY <1>1, <1>2, <1>4 DEF StreamInv, SynLast
<1>7. \A i \in 1..Len(tun') : tun'[i].key # p.key
  <2>1. \A i \in 1..Len(tun') : 1 < i + 1
    BY <1>4
  <2> QED BY <1>4, <1>6, <2>1
<1>8. app'[p.key] = "open" /\ sent'[p.key] = 0 /\ \A k \in Keys : k # p.key => app'[k] = app[k]
  BY <1>1, <1>2, <1>6
<1>9. sessions'[p.key] = new /\ \A k \in Keys : k # p.key => sessions'[k] = sessions[k]
  BY <1>1, <1>2
<1> HIDE DEF n, old, new
<1>10. n \in Nat /\ \A k \in Table : k \in Keys /\ sessions[k].s \in Ids /\ sessions[k].s # n
  <2>1. \A k \in Table : k \in Keys /\ sessions[k].s \in Ids /\ sessions[k].s <= created
    BY <1>2, TableEntry, EntryType DEF LoopInv, TableInv
  <2>2. \A x \in Ids : x \in Nat
    BY Bounds DEF Ids
  <2> QED BY <1>2, <2>1, <2>2 DEF n
<1>11. Stream(p.key)'
  <2>1. PICK k \in Keys : k = p.key
    BY <1>2
  <2>2. Holds(sessions'[k], 0) /\ sessions'[k].clientSeq = 0 + 1
    BY <1>3, <1>9, <2>1 DEF Holds
  <2>3. Ahead(tun', k, 0, app'[k], 0)
    BY <1>7, <2>1 DEF Ahead, DataAt, FinAt
  <2>4. Taking(k)'
    <3>1. 0 \in 0..sent'[k] /\ sent'[k] = 0
      BY <1>8, <2>1
    <3> QED BY <2>2, <2>3, <3>1 DEF Taking
  <2>5. ~Ending(sessions[k].s)'
    <3>1. sessions'[k].s = n /\ n \in Ids
      <4>1. n \in Ids
        BY <1>1, <1>2, Bounds DEF n, Ids
      <4> QED BY <1>3, <1>9, <2>1, <4>1
    <3>2. n # old
      <4>1. p.key \in Table => old # n
        BY <1>10 DEF old
      <4>2. p.key \notin Table => old = 0
        BY <1>2 DEF old, Table, NoEntry
      <4>3. n # 0
        BY <1>2 DEF n
      <4> QED BY <4>1, <4>2, <4>3
    <3>3. state'[n] = "SYN_RECEIVED" /\ loop'.pc # "fin"
      BY <1>1, <3>1, <3>2
    <3> QED BY <3>1, <3>3 DEF Ending, At
  <2> QED BY <2>1, <2>4, <2>5 DEF Stream
<1>12. ASSUME NEW k \in Table', k # p.key PROVE Stream(k)'
  <2>1. k \in Table /\ k \in Keys /\ sessions'[k] = sessions[k] /\ app'[k] = app[k]
    BY <1>8, <1>9, <1>12 DEF Table
  <2>2. sessions[k].s # n /\ sessions[k].s # old
    <3>1. CASE p.key \in Table
      BY <1>10, <1>12, <2>1, <3>1 DEF old, LoopInv, TableInv
    <3>2. CASE p.key \notin Table
      <4>1. old = 0
        BY <1>2, <3>2 DEF old, Table, NoEntry
      <4>2. sessions[k].s # 0
        BY <1>10, <2>1, Bounds DEF Ids
      <4> QED BY <1>10, <2>1, <4>1, <4>2
    <3> QED BY <3>1, <3>2
  <2>3. state'[sessions[k].s] = state[sessions[k].s] /\ loop'.pc # "fin"
    BY <1>1, <1>10, <2>1, <2>2
  <2>4. ~DataAt(tun, k, 1) /\ SameEntry(k)
    BY <1>2, <1>12, <2>1 DEF DataAt, SameEntry
  <2> QED BY <2>1, <2>3, <2>4, TakesOther DEF Open, Ending
<1> QED BY <1>5, <1>11, <1>12 DEF StreamInv

\* A packet of a session: data is the next byte, and a FIN comes when all has been
\* written.
LEMMA SessionStream ==
    ASSUME TypeInv, LoopInv, SweepInv, StreamInv, NEW p \in Segment, Takes(p), loop.pc = "read", UNCHANGED app,
           p.key \in Table, SessionStep(p, sessions[p.key])
    PROVE  StreamInv'
<1>1. /\ TypeOK /\ tun \in Seq(Segment) /\ sessions \in [Keys -> Entry \cup {NoEntry}]
      /\ state \in [Ids -> TcpState] /\ p.key \in Keys
      /\ tun # <<>> /\ tun' = Tail(tun) /\ sent' = sent /\ app' = app /\ p = tun[1]
  BY DEF TypeInv, TypeOK, Takes, Segment
<1>2. PICK k \in Keys, e \in Entry : k = p.key /\ e = sessions[k]
  BY <1>1, TableEntry
<1>3. e.s \in Ids /\ e.clientSeq \in Nat /\ e.written \in Seq(1..MaxData) /\ p.seq \in Nat /\ sent[k] \in Nat
  BY <1>1, EntryType, Bounds DEF Segment, TypeOK
<1>4. p.kind = "DATA" => p.seq \in 1..MaxData
  <2>1. 1 \in 1..Len(tun)
    BY <1>1, TailStep
  <2> QED BY <1>1, <2>1 DEF TypeInv, DataInRange
<1>5. /\ \A x \in Ids : x # e.s => state'[x] = state[x]
      /\ \/ loop' = loop /\ (state'[e.s] = state[e.s] \/ state'[e.s] \in {"FIN_WAIT_2", "TIME_WAIT", "CLOSED"})
         \/ /\ loop' = [pc |-> "fin", s |-> e.s, key |-> p.key]
            /\ state'[e.s] = "CLOSE_WAIT" /\ state[e.s] = "ESTABLISHED"
      /\ \A j \in Keys : j # k => sessions'[j] = sessions[j]
  BY <1>2, <1>4, SessionEffect
<1>6. SynLast'
  BY <1>1, TakesSyn
<1>7. ASSUME NEW j \in Table', j # k PROVE Stream(j)'
  <2>1. j \in Table /\ j \in Keys /\ sessions'[j] = sessions[j]
    BY <1>5, <1>7 DEF Table
  <2>2. sessions[j].s \in Ids /\ sessions[j].s # e.s
    BY <1>1, <1>2, <1>7, <2>1, TableEntry, EntryType DEF LoopInv, TableInv
  <2>3. state'[sessions[j].s] = state[sessions[j].s] /\ ~(loop'.pc = "fin" /\ loop'.s = sessions[j].s)
    BY <1>5, <2>2
  <2>4. ~DataAt(tun, j, 1) /\ SameEntry(j) /\ app'[j] = app[j]
    BY <1>1, <1>2, <1>7, <2>1 DEF DataAt, SameEntry
  <2> QED BY <2>1, <2>3, <2>4, TakesOther DEF Open, Ending
<1>8. ASSUME k \in Table', app[k] \in {"open", "fin"}, ~Emptied(e.s) PROVE Stream(k)'
  <2>1. ASSUME NEW st, NEW f \in Entry, f.s = e.s, Update(p, st, f)
        PROVE  state'[e.s] = st /\ sessions'[k] = f
    <3>1. /\ state' = [state EXCEPT ![e.s] = st]
          /\ sessions' = [sessions EXCEPT ![k] = IF st = "CLOSED" THEN NoEntry ELSE f]
      BY <1>2, <2>1 DEF Update
    <3>2. sessions'[k] # NoEntry
      BY <1>8 DEF Table
    <3> HIDE DEF Entry, NoEntry, Ids
    <3> QED BY <1>1, <1>3, <3>1, <3>2
  <2>2. Stream(k) /\ k \in Table
    BY <1>2 DEF StreamInv
  <2>3. CASE handleEstablishedData(p, e)
    <3> DEFINE f == [Acknowledged(e, e.clientSeq + 1) EXCEPT !.written = Append(@, p.seq)]
    <3>1. Update(p, "ESTABLISHED", f) /\ p.kind = "DATA" /\ state[e.s] = "ESTABLISHED" /\ loop' = loop
      BY <2>3 DEF handleEstablishedData
    <3>2. f \in Entry /\ f.s = e.s /\ f.written = Append(e.written, p.seq) /\ f.clientSeq = e.clientSeq + 1
      BY <1>4, <3>1, WrittenType
    <3> HIDE DEF f
    <3>3. state'[e.s] = "ESTABLISHED" /\ sessions'[k] = f
      BY <2>1, <3>1, <3>2
    <3>4. PICK m \in 0..sent[k] : /\ Holds(e, m) /\ e.clientSeq = m + 1
                                  /\ Ahead(tun, k, sent[k], app[k], m)
      BY <1>2, <1>8, <2>2, <3>1 DEF Stream, Taking, Open
    <3>5. m \in Nat /\ DataAt(tun, k, 1)
      BY <1>1, <1>2, <1>3, <3>1 DEF DataAt
    <3>6. p.seq = m + 1 /\ m + 1 <= sent[k] /\ Ahead(tun', k, sent[k], app[k], m + 1)
      BY <1>1, <1>3, <3>4, <3>5, HeadData
    <3>7. Holds(f, m + 1)
      <4> DEFINE D == 1..MaxData
                 w == e.written
      <4>1. w \in Seq(D) /\ p.seq \in D /\ Len(w) = m /\ \A i \in 1..m : w[i] = i
        BY <1>3, <1>4, <3>1, <3>4 DEF Holds
      <4> HIDE DEF D, w
      <4>2. Len(Append(w, p.seq)) = m + 1 /\ Append(w, p.seq)[m + 1] = m + 1
            /\ \A i \in 1..m : Append(w, p.seq)[i] = i
        BY <3>6, <4>1, AppendProperties
      <4>3. \A i \in 1..(m + 1) : i \in 1..m \/ i = m + 1
        BY <3>5
      <4>4. f.written = Append(w, p.seq)
        BY <3>2 DEF w
      <4> QED BY <4>2, <4>3, <4>4 DEF Holds
    <3>8. Taking(k)'
      <4>1. m + 1 \in 0..sent'[k] /\ f.clientSeq = (m + 1) + 1
        BY <1>1, <1>3, <3>2, <3>4, <3>5, <3>6
      <4>2. Holds(sessions'[k], m + 1) /\ sessions'[k].clientSeq = (m + 1) + 1
            /\ Ahead(tun', k, sent'[k], app'[k], m + 1)
        BY <1>1, <3>3, <3>6, <3>7, <4>1
      <4> QED BY <4>1, <4>2 DEF Taking
    <3>9. ~Ending(sessions[k].s)'
      <4>1. sessions'[k].s = e.s /\ loop'.pc # "fin"
        BY <3>1, <3>2, <3>3
      <4> QED BY <3>3, <4>1 DEF Ending, At
    <3> QED BY <3>8, <3>9 DEF Stream
  <2>4. CASE handleFin(p, e)
    <3> DEFINE f == Acknowledged(e, p.seq + 1)
    <3>1. Update(p, "CLOSE_WAIT", f) /\ p.kind = "FIN" /\ state[e.s] = "ESTABLISHED"
      BY <2>4 DEF handleFin
    <3>2. f \in Entry /\ f.s = e.s /\ f.written = e.written
      <4>1. p.seq + 1 \in Nat
        BY <1>3
      <4> QED BY <4>1, AcknowledgedType
    <3> HIDE DEF f
    <3>3. state'[e.s] = "CLOSE_WAIT" /\ sessions'[k] = f
      BY <2>1, <3>1, <3>2
    <3>4. PICK m \in 0..sent[k] : Holds(e, m) /\ Ahead(tun, k, sent[k], app[k], m)
      BY <1>2, <1>8, <2>2, <3>1 DEF Stream, Taking, Open
    <3>5. m \in Nat /\ m <= sent[k] /\ FinAt(tun, k, 1)
      BY <1>1, <1>2, <1>3, <3>1 DEF FinAt
    <3>6. app[k] = "fin" /\ m = sent[k]
      BY <1>1, <1>3, <3>4, <3>5, HeadFin
    <3>7. Holds(f, sent[k])
      BY <3>2, <3>4, <3>6 DEF Holds
    <3>8. Finished(k)'
      BY <1>1, <3>3, <3>6, <3>7 DEF Finished
    <3>9. ~Open(sessions[k].s)'
      BY <3>2, <3>3 DEF Open
    <3> QED BY <3>8, <3>9 DEF Stream
  <2>5. CASE Ignore(p, e) /\ state[e.s] = "ESTABLISHED"
    <3>1. Update(p, "ESTABLISHED", Touched(e)) /\ p.kind = "ACK" /\ loop' = loop
      BY <2>5 DEF Ignore
    <3>2. /\ Touched(e) \in Entry /\ Touched(e).s = e.s /\ Touched(e).written = e.written
          /\ Touched(e).clientSeq = e.clientSeq
      BY EntryType
    <3>3. state'[e.s] = "ESTABLISHED" /\ sessions'[k] = Touched(e)
      BY <2>1, <3>1, <3>2
    <3>4. SameEntry(k) /\ ~DataAt(tun, k, 1) /\ app'[k] = app[k]
      BY <1>1, <1>2, <3>1, <3>2, <3>3 DEF SameEntry, DataAt
    <3>5. Open(e.s) /\ loop'.pc # "fin"
      BY <2>5, <3>1 DEF Open
    <3> QED BY <1>2, <2>2, <3>3, <3>4, <3>5, TakesOther
  <2>6. CASE \/ Ignore(p, e) /\ state[e.s] # "ESTABLISHED"
             \/ LastAck(p, e) \/ FinWaitFin(p, e) \/ FinWaitAck(p, e)
    <3>1. /\ \E st \in {"TIME_WAIT", "CLOSED", "FIN_WAIT_2"} :
               \E f \in {e, Touched(e), Acknowledged(e, p.seq + 1)} : Update(p, st, f)
          /\ loop' = loop
      BY <2>6 DEF Ignore, LastAck, FinWaitFin, FinWaitAck
    <3>2. /\ Touched(e) \in Entry /\ Touched(e).s = e.s
          /\ Acknowledged(e, p.seq + 1) \in Entry /\ Acknowledged(e, p.seq + 1).s = e.s
      <4>1. p.seq + 1 \in Nat
        BY <1>3
      <4> QED BY <4>1, EntryType, AcknowledgedType
    <3>3. PICK st \in {"TIME_WAIT", "CLOSED", "FIN_WAIT_2"}, f \in Entry : Update(p, st, f) /\ f.s = e.s
      BY <3>1, <3>2
    <3>4. state'[e.s] = st /\ sessions'[k].s = e.s
      BY <2>1, <3>3
    <3>5. ~Open(sessions[k].s)' /\ ~Ending(sessions[k].s)'
      BY <3>1, <3>3, <3>4 DEF Open, Ending, At
    <3> QED BY <3>5 DEF Stream
  <2>7. ~Abort(p, e)
    <3>1. ASSUME Abort(p, e) PROVE FALSE
      <4>1. sessions' = [sessions EXCEPT ![k] = NoEntry]
        BY <1>2, <3>1 DEF Abort
      <4>2. sessions'[k] = NoEntry
        BY <1>1, <4>1
      <4> QED BY <1>8, <4>2 DEF Table
    <3> QED BY <3>1
  <2>8. ~DropData(p, e)
    <3>1. state[e.s] = "ESTABLISHED" => upstream[e.s]
      BY <1>2, <1>8 DEF SweepInv, Live
    <3> QED BY <3>1 DEF DropData
  <2>9. SessionStep(p, e)
    BY <1>2
  <2> QED BY <2>3, <2>4, <2>5, <2>6, <2>7, <2>8, <2>9 DEF SessionStep
<1>9. ASSUME k \in Table', app[k] \notin {"open", "fin"} PROVE Stream(k)'
  BY <1>1, <1>9 DEF Stream
<1>10. ASSUME k \in Table', Emptied(e.s) PROVE Stream(k)'
  <2>1. sessions'[k].s = e.s
    BY <1>2, <1>4, <1>10, SessionEffect DEF Table
  <2>2. Emptied(sessions[k].s)'
    BY <1>10, <2>1 DEF Emptied, Takes
  <2> QED BY <2>2 DEF Stream
<1> QED BY <1>6, <1>7, <1>8, <1>9, <1>10 DEF StreamInv

\* handlePacket keeps the streams.
LEMMA PacketStream == ASSUME TypeInv, LoopInv, SweepInv, StreamInv, handlePacket PROVE StreamInv'
<1>1. /\ TypeOK /\ tun \in Seq(Segment) /\ app \in [Keys -> {"closed", "syn", "open", "fin"}]
      /\ loop.pc = "read" /\ tun # <<>> /\ tun' = Tail(tun) /\ UNCHANGED <<sent, sweep>>
  BY DEF handlePacket, TypeInv, TypeOK
<1>2. PICK p \in Segment : p = tun[1] /\ p = Head(tun)
  BY <1>1, HeadType
<1>3. SynRefused(p) \/ Accept(p) \/ Unknown(p) \/ ForSession(p)
  BY <1>2 DEF handlePacket
<1>4. Takes(p)
  <2>1. \A k \in Keys : k # p.key => app'[k] = app[k]
    BY <1>1, <1>3 DEF SynRefused, Accept, Unknown, ForSession, ResetApp, handleSyn
  <2> QED BY <1>1, <1>2, <2>1 DEF Takes
<1>5. CASE ForSession(p)
  <2>1. p.key \in Table /\ SessionStep(p, sessions[p.key]) /\ UNCHANGED app
    BY <1>5 DEF ForSession, SessionStep
  <2> QED BY <1>1, <1>4, <2>1, SessionStream
<1> QED BY <1>1, <1>3, <1>4, <1>5, RefusedStream, AcceptStream

\* Without retransmissions, and with the FIN in a segment of its own, every byte that
\* an app is told has arrived has been written upstream, in order and once, up to and
\* including the acknowledgement of its FIN, unless cleanup has just dropped the
\* streams of the session.  Both hypotheses are needed: data is written whatever its
\* number, and a byte in the FIN is acknowledged unwritten.
THEOREM AckedWasWritten == ~MayPiggyback /\ MaxResend = 0 => (Spec => []AckedUntilFin)
<1> SUFFICES ASSUME ~MayPiggyback, MaxResend = 0 PROVE Spec => []AckedUntilFin
  OBVIOUS
<1>1. Init => StreamInv
  <2> SUFFICES ASSUME Init PROVE StreamInv
    OBVIOUS
  <2>1. Table = {} /\ Len(tun) = 0
    BY DEF Init, Table
  <2> QED BY <2>1 DEF StreamInv, SynLast
<1>2. TypeInv /\ LoopInv /\ SweepInv /\ StreamInv /\ [Next]_vars => StreamInv'
  <2> SUFFICES ASSUME TypeInv, LoopInv, SweepInv, StreamInv, [Next]_vars PROVE StreamInv'
    OBVIOUS
  <2>1. CASE UNCHANGED vars
    <3>1. UNCHANGED <<sessions, state, loop, sweep, tun, app, sent>>
      BY <2>1 DEF vars, appVars
    <3>2. KeptIds /\ SameStates /\ \A k \in Table' : SameEntry(k)
      BY <3>1 DEF KeptIds, SameStates, SameEntry, Table, Open, Ending, At
    <3> QED BY <3>1, <3>2, RestingSweep, KeepStream
  <2>2. CASE Next
    BY <2>2, PacketStream, RunStream, ReaderStream, ManagerStream, AppStream DEF Next, ReadLoop
  <2> QED BY <2>1, <2>2
<1>3. TypeInv /\ StreamInv => AckedUntilFin
  <2> SUFFICES ASSUME TypeInv, StreamInv, NEW k \in Table, ~Emptied(sessions[k].s), app[k] \in {"open", "fin"},
                      state[sessions[k].s] \in {"ESTABLISHED", "CLOSE_WAIT", "LAST_ACK"}
               PROVE  Faithful(k)
    BY DEF AckedUntilFin
  <2>1. Taking(k) \/ Finished(k)
    BY DEF StreamInv, Stream, Open, Ending
  <2>2. sent[k] \in Nat /\ k \in Keys
    BY Bounds DEF TypeInv, TypeOK, Table
  <2>3. CASE Taking(k)
    <3>1. PICK m \in 0..sent[k] : Holds(sessions[k], m) /\ sessions[k].clientSeq = m + 1
      BY <2>3 DEF Taking
    <3>2. \A b \in 1..sent[k] : b < m + 1 => b <= m
      BY <2>2
    <3> QED BY <3>1, <3>2 DEF Faithful, Holds
  <2>4. CASE Finished(k)
    <3>1. \A b \in 1..sent[k] : b <= sent[k]
      BY <2>2
    <3> QED BY <2>4, <3>1 DEF Faithful, Finished, Holds
  <2> QED BY <2>1, <2>3, <2>4
<1> QED BY <1>1, <1>2, <1>3, TypeInvariant, LoopInvariant, SweepInvariant, PTL DEF Spec

=============================================================================
