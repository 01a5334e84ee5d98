----------------------------- MODULE TcpSession ------------------------------
(***************************************************************************)
(* The Android app's TCP stack (tcp/TcpSession.kt, TcpSessionManager.kt):  *)
(* the table of sessions, a session's state machine, and the coroutines    *)
(* that work on it without a common lock:                                  *)
(*   - the read loop of the VPN service, which takes one packet at a time  *)
(*     from the tunnel and is blocked while a session connects upstream;   *)
(*   - for every session a reader that relays upstream data to the app;    *)
(*   - the cleanup job.                                                    *)
(* The apps (the phone's own TCP) and the servers are the environment.     *)
(*                                                                         *)
(* A segment carries at most one byte; bytes are numbered from 1 on each   *)
(* side, and sequence numbers count from the initial one.  Every segment   *)
(* of an app but its SYN has the ACK flag, a reset included.  Time is      *)
(* whether lastActivity is older than the timeout of the session's state.  *)
(* The cleanup job takes no lock: its decision about an entry, what close() *)
(* does to the session and the removal are steps of their own, and the     *)
(* read loop runs between them.  Where the read loop itself calls close()  *)
(* it is a single step: what readers and cleanup do between its effects    *)
(* they can also do before the first.  Additions to ourSeq are single      *)
(* steps: an update lost between the two FINs is not seen by any property  *)
(* here.                                                                   *)
(* Stopping the VPN is a single step too, after which the tunnel gives and *)
(* takes no more packets: a packet that the read loop has taken by then is *)
(* handled before, except for the two places where it blocks.              *)
(***************************************************************************)
EXTENDS Integers, Sequences, FiniteSets

CONSTANTS
    Keys,          \* the 4-tuples
    MaxSessions,   \* MAX_SESSIONS (1024 in the code)
    MayPiggyback,  \* whether an app's FIN may carry its last byte
    MayFail,       \* whether a write upstream may fail
    MaxCreated,    \* bound: sessions
    MaxSyn,        \* bound: SYNs sent
    MaxTun,        \* bound: packets waiting in the tunnel
    MaxData,       \* bound: bytes sent by an app, per connection
    MaxResend,     \* bound: how often the apps' TCP sends a byte or a SYN again
    MaxServed      \* bound: bytes sent by a server, per connection

ASSUME TcpAssumption ==
    /\ {MayPiggyback, MayFail} \subseteq BOOLEAN
    /\ MaxResend \in Nat
    /\ MaxServed \in Nat
    /\ {MaxSessions, MaxCreated, MaxSyn, MaxTun, MaxData} \subseteq Nat \ {0}

Ids == 1 .. MaxCreated

TcpState == {"LISTEN", "SYN_RECEIVED", "ESTABLISHED", "CLOSE_WAIT", "LAST_ACK",
             "FIN_WAIT_1", "FIN_WAIT_2", "TIME_WAIT", "CLOSED"}

\* A session in the table, with the fields that nobody uses once it has left:
\* the next byte expected of the app, whether lastActivity is too old, and the
\* bytes written upstream (history).
Entry == [s : Ids, clientSeq : Nat, idle : BOOLEAN, written : Seq(1 .. MaxData)]
NoEntry == [s |-> 0, clientSeq |-> 0, idle |-> FALSE, written |-> <<>>]

\* The read loop waits for a packet.
Waiting == [pc |-> "read", s |-> 0, key |-> "none"]

\* The cleanup job is not at an entry.
Resting == [pc |-> "rest", s |-> 0, key |-> "none"]

Segment == [key : Keys, kind : {"SYN", "ACK", "DATA", "FIN", "RST"}, seq : 1 .. MaxData + 1]

VARIABLES
    sessions,  \* per key: the entry of the table
    state,     \* per session: its TcpState
    ourSeq,    \* per session: the next sequence number to send
    socket,    \* per session: the upstream socket, "none", "open", "closed"
    upstream,  \* per session: whether upstreamSocket and its streams are set
    reader,    \* per session: where the reader is
    relayed,   \* history, per session: how many bytes have been sent to the app
    created,   \* how many sessions there have been
    loop,      \* where the read loop is, and the session and key it works on
    sweep,     \* where the cleanup job is, and the session and key it removes
    tun,       \* packets of the apps that wait in the tunnel
    app,       \* per key: "closed", "syn", "open", "fin"
    sent,      \* per key: how many bytes the app has sent
    syns,      \* how many SYNs have been sent
    resends,   \* how often a byte or a SYN has been sent again
    stopped    \* the VPN has been stopped

socketVars == <<socket, upstream>>
readerVars == <<reader, relayed>>
appVars    == <<app, sent, syns, resends>>
vars == <<sessions, state, ourSeq, socketVars, readerVars, created, loop, sweep, tun, appVars, stopped>>

TypeOK ==
    /\ sessions \in [Keys -> Entry \cup {NoEntry}]
    /\ state \in [Ids -> TcpState]
    /\ ourSeq \in [Ids -> Nat]
    /\ socket \in [Ids -> {"none", "open", "closed"}]
    /\ upstream \in [Ids -> BOOLEAN]
    /\ reader \in [Ids -> {"none", "start", "read", "sent", "eof", "fin", "done"}]
    /\ relayed \in [Ids -> 0 .. MaxServed]
    /\ created \in 0 .. MaxCreated
    /\ loop \in [pc : {"connecting", "connected", "fin"}, s : Ids, key : Keys] \cup {Waiting}
    /\ sweep \in [pc : {"close", "streams", "state", "remove"}, s : Ids, key : Keys] \cup {Resting}
    /\ tun \in Seq(Segment) /\ Len(tun) <= MaxTun
    /\ app \in [Keys -> {"closed", "syn", "open", "fin"}]
    /\ sent \in [Keys -> 0 .. MaxData]
    /\ syns \in 0 .. MaxSyn
    /\ resends \in 0 .. MaxResend
    /\ stopped \in BOOLEAN

Init ==
    /\ sessions = [k \in Keys |-> NoEntry]
    /\ state = [s \in Ids |-> "LISTEN"]
    /\ ourSeq = [s \in Ids |-> 1]
    /\ socket = [s \in Ids |-> "none"]
    /\ upstream = [s \in Ids |-> FALSE]
    /\ reader = [s \in Ids |-> "none"]
    /\ relayed = [s \in Ids |-> 0]
    /\ created = 0
    /\ loop = Waiting
    /\ sweep = Resting
    /\ tun = <<>>
    /\ app = [k \in Keys |-> "closed"]
    /\ sent = [k \in Keys |-> 0]
    /\ syns = 0
    /\ resends = 0
    /\ stopped = FALSE

-----------------------------------------------------------------------------
(* The read loop: TcpSessionManager.handlePacket and TcpSession.handlePacket. *)

Table == {k \in Keys : sessions[k] # NoEntry}
InTable(s) == \E k \in Table : sessions[k].s = s

\* The read loop works on session s.
At(pc, s) == loop.pc = pc /\ loop.s = s

\* close() of the sessions in S, by the read loop or by stop(): the socket is
\* closed if it is set, which it is not while the session connects.
Close(S) ==
    /\ state' = [s \in Ids |-> IF s \in S THEN "CLOSED" ELSE state[s]]
    /\ socket' = [s \in Ids |-> IF s \in S /\ upstream[s] THEN "closed" ELSE socket[s]]
    /\ upstream' = [s \in Ids |-> s \notin S /\ upstream[s]]

\* A reset ends the app's connection, unless it is for an older one.
ResetApp(k, kind) ==
    app' = [app EXCEPT ![k] = IF kind = "SYN" \/ @ # "syn" THEN "closed" ELSE @]

\* A SYN while the table is full, even one for a key of the table.
SynRefused(p) ==
    /\ p.kind = "SYN"
    /\ Cardinality(Table) >= MaxSessions
    /\ ResetApp(p.key, "SYN")
    /\ UNCHANGED <<sessions, state, ourSeq, socketVars, loop, created>>

\* handleSyn: session s is answered for, and connects to the SOCKS proxy in the
\* read loop.
handleSyn(p, s) ==
    /\ state' = [x \in Ids |-> CASE x = s -> "SYN_RECEIVED"
                                 [] x = sessions[p.key].s -> "CLOSED"
                                 [] OTHER -> state[x]]
    /\ sessions' = [sessions EXCEPT ![p.key] = [NoEntry EXCEPT !.s = s, !.clientSeq = 1]]
    /\ loop' = [pc |-> "connecting", s |-> s, key |-> p.key]
    /\ app' = [app EXCEPT ![p.key] = IF @ = "syn" THEN "open" ELSE @]

\* A SYN closes the session of its key and replaces it by a new one.
Accept(p) ==
    /\ p.kind = "SYN"
    /\ created < MaxCreated
    /\ Cardinality(Table) < MaxSessions
    /\ created' = created + 1
    /\ handleSyn(p, created + 1)
    /\ LET old == sessions[p.key].s IN
         /\ socket' = [s \in Ids |-> IF s = old /\ upstream[s] THEN "closed" ELSE socket[s]]
         /\ upstream' = [s \in Ids |-> s # old /\ upstream[s]]
    /\ UNCHANGED ourSeq

\* A packet of no session is answered with a reset.
Unknown(p) ==
    /\ p.kind # "SYN"
    /\ p.key \notin Table
    /\ ResetApp(p.key, p.kind)
    /\ UNCHANGED <<sessions, state, ourSeq, socketVars, loop, created>>

\* The entry of a session after a packet.
Acknowledged(e, n) == [e EXCEPT !.clientSeq = n, !.idle = FALSE]
Touched(e) == [e EXCEPT !.idle = FALSE]

\* The session of p.key goes on in state st, with entry e; a session that is
\* CLOSED is removed from the table.
Update(p, st, e) ==
    /\ state' = [state EXCEPT ![e.s] = st]
    /\ sessions' = [sessions EXCEPT ![p.key] = IF st = "CLOSED" THEN NoEntry ELSE e]

Ignore(p, e) ==
    /\ \/ state[e.s] \in {"TIME_WAIT", "CLOSED"}
       \/ state[e.s] = "FIN_WAIT_2" /\ p.kind # "FIN"
       \/ state[e.s] = "ESTABLISHED" /\ p.kind = "ACK"
    /\ Update(p, state[e.s], Touched(e))
    /\ UNCHANGED <<ourSeq, socketVars, loop>>

\* close(), for a reset or a write that fails, as it does once cleanup has
\* closed the socket.
Abort(p, e) ==
    /\ state[e.s] = "ESTABLISHED"
    /\ \/ p.kind = "RST"
       \/ p.kind = "DATA" /\ upstream[e.s] /\ (MayFail \/ socket[e.s] # "open")
    /\ Close({e.s})
    /\ sessions' = [sessions EXCEPT ![p.key] = NoEntry]
    /\ UNCHANGED <<ourSeq, loop>>

\* A byte finds upstreamOutput null, which cleanup has dropped: it is neither
\* written nor acknowledged.
DropData(p, e) ==
    /\ state[e.s] = "ESTABLISHED" /\ p.kind = "DATA"
    /\ ~upstream[e.s]
    /\ Update(p, "ESTABLISHED", Touched(e))
    /\ UNCHANGED <<ourSeq, socketVars, loop>>

\* Mutant: a byte that cannot be written is acknowledged all the same.
MutHandleEstablishedData(p, e) ==
    /\ state[e.s] = "ESTABLISHED" /\ p.kind = "DATA"
    /\ upstream[e.s]
    /\ \E w \in {e.written, Append(e.written, p.seq)} :
         Update(p, "ESTABLISHED", [Acknowledged(e, e.clientSeq + 1) EXCEPT !.written = w])
    /\ UNCHANGED <<ourSeq, socketVars, loop>>

\* Mutant: the ACK takes a sequence number of ours.
MutAckCounts(p, e) ==
    /\ state[e.s] = "ESTABLISHED" /\ p.kind = "DATA"
    /\ upstream[e.s] /\ socket[e.s] = "open"
    /\ Update(p, "ESTABLISHED",
              [Acknowledged(e, e.clientSeq + 1) EXCEPT !.written = Append(@, p.seq)])
    /\ ourSeq' = [ourSeq EXCEPT ![e.s] = @ + 1]
    /\ UNCHANGED <<socketVars, loop>>

\* Written first, acknowledged then, whatever its number.
handleEstablishedData(p, e) ==
    /\ state[e.s] = "ESTABLISHED" /\ p.kind = "DATA"
    /\ upstream[e.s] /\ socket[e.s] = "open"
    /\ Update(p, "ESTABLISHED",
              [Acknowledged(e, e.clientSeq + 1) EXCEPT !.written = Append(@, p.seq)])
    /\ UNCHANGED <<ourSeq, socketVars, loop>>

\* handleFin, first part: the FIN is acknowledged, and any byte it carries.
handleFin(p, e) ==
    /\ state[e.s] = "ESTABLISHED" /\ p.kind = "FIN"
    /\ Update(p, "CLOSE_WAIT", Acknowledged(e, p.seq + 1))
    /\ loop' = [pc |-> "fin", s |-> e.s, key |-> p.key]
    /\ UNCHANGED <<ourSeq, socketVars>>

\* Any packet counts as the ACK of our FIN; close() is not called.
LastAck(p, e) ==
    /\ state[e.s] = "LAST_ACK"
    /\ Update(p, "CLOSED", e)
    /\ UNCHANGED <<ourSeq, socketVars, loop>>

FinWaitFin(p, e) ==
    /\ state[e.s] \in {"FIN_WAIT_1", "FIN_WAIT_2"} /\ p.kind = "FIN"
    /\ Update(p, "TIME_WAIT", Acknowledged(e, p.seq + 1))
    /\ UNCHANGED <<ourSeq, socketVars, loop>>

\* Any other packet, data and resets included, counts as the ACK of our FIN.
FinWaitAck(p, e) ==
    /\ state[e.s] = "FIN_WAIT_1" /\ p.kind # "FIN"
    /\ Update(p, "FIN_WAIT_2", Touched(e))
    /\ UNCHANGED <<ourSeq, socketVars, loop>>

\* A packet of a session.  LISTEN, SYN_RECEIVED and CLOSE_WAIT have branches in
\* the code that the read loop never reaches: see Settled.
ForSession(p) ==
    /\ p.kind # "SYN"
    /\ p.key \in Table
    /\ LET e == sessions[p.key] IN
         \/ Ignore(p, e) \/ Abort(p, e) \/ DropData(p, e)
         \/ handleEstablishedData(p, e) \/ handleFin(p, e) \/ LastAck(p, e)
         \/ FinWaitFin(p, e) \/ FinWaitAck(p, e)
    /\ UNCHANGED <<created, app>>

handlePacket ==
    /\ ~stopped
    /\ loop.pc = "read"
    /\ tun # <<>>
    /\ tun' = Tail(tun)
    /\ LET p == Head(tun) IN SynRefused(p) \/ Accept(p) \/ Unknown(p) \/ ForSession(p)
    /\ UNCHANGED <<sweep, readerVars, sent, syns, resends, stopped>>

\* connectUpstream: the SOCKS proxy has connected, the streams are set.
Connected(s) ==
    /\ ~stopped
    /\ At("connecting", s)
    /\ loop' = [loop EXCEPT !.pc = "connected"]
    /\ socket' = [socket EXCEPT ![s] = "open"]
    /\ upstream' = [upstream EXCEPT ![s] = TRUE]
    /\ UNCHANGED <<sessions, state, ourSeq, readerVars, created, sweep, tun, appVars, stopped>>

\* Mutant: the state waits for the ACK of the handshake.
MutPromote(s) ==
    /\ At("connected", s)
    /\ loop' = Waiting
    /\ reader' = [reader EXCEPT ![s] = "start"]
    /\ UNCHANGED <<sessions, state, ourSeq, socketVars, relayed, created, sweep, tun, appVars, stopped>>

\* The session is ESTABLISHED, unless cleanup has closed it meanwhile, and its
\* reader is started in any case.  Connecting may have taken longer than the
\* timeout of SYN_RECEIVED, never longer than that of ESTABLISHED.
Promote(s) ==
    /\ At("connected", s)
    /\ loop' = Waiting
    /\ state' = [state EXCEPT ![s] = IF @ = "SYN_RECEIVED" THEN "ESTABLISHED" ELSE @]
    /\ sessions' = [k \in Keys |-> IF sessions[k].s = s THEN Touched(sessions[k]) ELSE sessions[k]]
    /\ reader' = [reader EXCEPT ![s] = "start"]
    /\ UNCHANGED <<ourSeq, socketVars, relayed, created, sweep, tun, appVars, stopped>>

\* The proxy refuses or times out: the app gets a reset, and the session stays
\* in the table, CLOSED.  When the VPN is stopped the connection, even if it is
\* made, is not returned to the cancelled read loop.
ConnectFails(s) ==
    /\ At("connecting", s)
    /\ loop' = Waiting
    /\ state' = [state EXCEPT ![s] = "CLOSED"]
    /\ \/ UNCHANGED socket
       \/ stopped /\ socket' = [socket EXCEPT ![s] = "open"]
    /\ ResetApp(loop.key, "RST")
    /\ UNCHANGED <<sessions, ourSeq, upstream, readerVars, created, sweep, tun, sent, syns, resends,
                   stopped>>

\* handleFin, second part: shutdownOutput, our FIN and its number.
FinSent(s) ==
    /\ At("fin", s)
    /\ loop' = Waiting
    /\ ourSeq' = [ourSeq EXCEPT ![s] = @ + 1]
    /\ state' = [state EXCEPT ![s] = "LAST_ACK"]
    /\ UNCHANGED <<sessions, socketVars, readerVars, created, sweep, tun, appVars, stopped>>

ReadLoop ==
    \/ handlePacket
    \/ \E s \in Ids : Connected(s) \/ Promote(s) \/ ConnectFails(s) \/ FinSent(s)

-----------------------------------------------------------------------------
(* startUpstreamReader. *)

readerUnchanged == <<socketVars, created, loop, sweep, tun, appVars, stopped>>

ReaderGoto(s, from, to) ==
    /\ reader[s] = from
    /\ reader' = [reader EXCEPT ![s] = to]

\* A session closed before the reader starts has no stream.
ReaderStart(s) ==
    /\ ReaderGoto(s, "start", IF upstream[s] THEN "read" ELSE "done")
    /\ UNCHANGED <<readerUnchanged, sessions, state, ourSeq, relayed>>

\* A byte is read and sent to the app with number ourSeq, in whatever state the
\* session is.
ReaderRelay(s) ==
    /\ socket[s] = "open" /\ relayed[s] < MaxServed
    /\ ReaderGoto(s, "read", "sent")
    /\ relayed' = [relayed EXCEPT ![s] = @ + 1]
    /\ UNCHANGED <<readerUnchanged, sessions, state, ourSeq>>

ReaderAdvance(s) ==
    /\ ReaderGoto(s, "sent", "read")
    /\ ourSeq' = [ourSeq EXCEPT ![s] = @ + 1]
    /\ sessions' = [k \in Keys |-> IF sessions[k].s = s THEN Touched(sessions[k]) ELSE sessions[k]]
    /\ UNCHANGED <<readerUnchanged, state, relayed>>

\* The end of the stream, or an exception: the socket is closed, or the server
\* has been silent for SO_TIMEOUT_MS.
ReaderEnd(s) ==
    /\ ReaderGoto(s, "read", "eof")
    /\ UNCHANGED <<readerUnchanged, sessions, state, ourSeq, relayed>>

ReaderCheck(s) ==
    /\ ReaderGoto(s, "eof", IF state[s] = "ESTABLISHED" THEN "fin" ELSE "done")
    /\ UNCHANGED <<readerUnchanged, sessions, state, ourSeq, relayed>>

\* Our FIN is sent, and whatever the state has become, it is FIN_WAIT_1 now.
ReaderFinSent(s) ==
    /\ ReaderGoto(s, "fin", "done")
    /\ ourSeq' = [ourSeq EXCEPT ![s] = @ + 1]
    /\ state' = [state EXCEPT ![s] = "FIN_WAIT_1"]
    /\ UNCHANGED <<readerUnchanged, sessions, relayed>>

\* close() has cancelled the job: the FIN waits for the tunnel's lock and is
\* never sent.
ReaderCancelled(s) ==
    /\ socket[s] = "closed"
    /\ ReaderGoto(s, "fin", "done")
    /\ UNCHANGED <<readerUnchanged, sessions, state, ourSeq, relayed>>

Reader(s) ==
    \/ ReaderStart(s) \/ ReaderRelay(s) \/ ReaderAdvance(s) \/ ReaderEnd(s)
    \/ ReaderCheck(s) \/ ReaderFinSent(s) \/ ReaderCancelled(s)

-----------------------------------------------------------------------------
(* TcpSessionManager.cleanup and stop. *)

managerUnchanged == <<ourSeq, readerVars, created, loop, tun, appVars>>

\* Mutant: of the states with a timeout only TIME_WAIT is looked at.
MutShouldRemove(e) == state[e.s] = "CLOSED" \/ (state[e.s] = "TIME_WAIT" /\ e.idle)

\* CLOSED at once, any other state after its timeout.
ShouldRemove(e) == state[e.s] = "CLOSED" \/ e.idle

\* One entry of the sweep, in the steps that the read loop can come between.
\* The session's lock is not taken.
SweepGoto(from, to) ==
    /\ sweep.pc = from
    /\ sweep' = [sweep EXCEPT !.pc = to]

\* The entry is due.
Decide(k) ==
    /\ ~stopped
    /\ sweep = Resting
    /\ k \in Table
    /\ ShouldRemove(sessions[k])
    /\ sweep' = [pc |-> "close", s |-> sessions[k].s, key |-> k]
    /\ UNCHANGED <<managerUnchanged, sessions, state, socketVars, stopped>>

\* close(): the reader is cancelled and the socket closed, if they are set.
CloseSocket ==
    /\ SweepGoto("close", "streams")
    /\ socket' = [socket EXCEPT ![sweep.s] = IF upstream[sweep.s] THEN "closed" ELSE @]
    /\ UNCHANGED <<managerUnchanged, sessions, state, upstream, stopped>>

\* close(): the socket and the streams become null, also those that
\* connectUpstream has set meanwhile.
DropStreams ==
    /\ SweepGoto("streams", "state")
    /\ upstream' = [upstream EXCEPT ![sweep.s] = FALSE]
    /\ UNCHANGED <<managerUnchanged, sessions, state, socket, stopped>>

SetClosed ==
    /\ SweepGoto("state", "remove")
    /\ state' = [state EXCEPT ![sweep.s] = "CLOSED"]
    /\ UNCHANGED <<managerUnchanged, sessions, socketVars, stopped>>

\* The iterator removes whatever the key has now, even a newer session.
Remove ==
    /\ sweep.pc = "remove"
    /\ sweep' = Resting
    /\ sessions' = [sessions EXCEPT ![sweep.key] = NoEntry]
    /\ UNCHANGED <<managerUnchanged, state, socketVars, stopped>>

Cleanup(k) ==
    \/ Decide(k)
    \/ sweep.key = k /\ (CloseSocket \/ DropStreams \/ SetClosed \/ Remove)

\* The timeout of the session's state passes, which is far longer than handleFin
\* takes.
Elapse(k) ==
    /\ k \in Table
    /\ ~sessions[k].idle
    /\ ~At("fin", sessions[k].s)
    /\ sessions' = [sessions EXCEPT ![k].idle = TRUE]
    /\ UNCHANGED <<managerUnchanged, sweep, state, socketVars, stopped>>

\* stopVpn cancels the read loop and calls stop().
Stop ==
    /\ ~stopped
    /\ stopped' = TRUE
    /\ Close({s \in Ids : InTable(s)})
    /\ sessions' = [k \in Keys |-> NoEntry]
    /\ UNCHANGED <<managerUnchanged, sweep>>

-----------------------------------------------------------------------------
(* The apps. *)

\* The TCP of key k puts a segment into the tunnel.
Put(k, kind, seq) ==
    /\ ~stopped
    /\ Len(tun) < MaxTun
    /\ tun' = Append(tun, [key |-> k, kind |-> kind, seq |-> seq])
    /\ UNCHANGED <<sessions, state, ourSeq, socketVars, readerVars, created, loop, sweep, stopped>>

\* The retransmission timer of an app's TCP fires.
Resend == resends < MaxResend /\ resends' = resends + 1

AppSyn(k) ==
    /\ syns < MaxSyn
    /\ \/ app[k] \in {"closed", "fin"} /\ UNCHANGED resends
       \/ app[k] = "syn" /\ Resend
    /\ Put(k, "SYN", 1)
    /\ app' = [app EXCEPT ![k] = "syn"]
    /\ sent' = [sent EXCEPT ![k] = 0]
    /\ syns' = syns + 1

AppAck(k) ==
    /\ app[k] \in {"open", "fin"}
    /\ Put(k, "ACK", sent[k] + 1)
    /\ UNCHANGED appVars

AppData(k) ==
    /\ app[k] = "open" /\ sent[k] < MaxData
    /\ Put(k, "DATA", sent[k] + 1)
    /\ sent' = [sent EXCEPT ![k] = @ + 1]
    /\ UNCHANGED <<app, syns, resends>>

\* The FIN alone, or with the last byte.
AppFin(k) ==
    /\ app[k] = "open"
    /\ Put(k, "FIN", sent[k] + 1)
    /\ app' = [app EXCEPT ![k] = "fin"]
    /\ \/ UNCHANGED sent
       \/ MayPiggyback /\ sent[k] < MaxData /\ sent' = [sent EXCEPT ![k] = @ + 1]
    /\ UNCHANGED <<syns, resends>>

AppResend(k) ==
    /\ Resend
    /\ app[k] \in {"open", "fin"}
    /\ \E b \in 1 .. sent[k] : Put(k, "DATA", b)
    /\ UNCHANGED <<app, sent, syns>>

AppReset(k) ==
    /\ app[k] \in {"open", "fin"}
    /\ Put(k, "RST", sent[k] + 1)
    /\ app' = [app EXCEPT ![k] = "closed"]
    /\ UNCHANGED <<sent, syns, resends>>

App(k) ==
    \/ AppSyn(k) \/ AppAck(k) \/ AppData(k) \/ AppFin(k) \/ AppResend(k) \/ AppReset(k)

-----------------------------------------------------------------------------

Next ==
    \/ ReadLoop
    \/ \E s \in Ids : Reader(s)
    \/ \E k \in Keys : Cleanup(k) \/ Elapse(k) \/ App(k)
    \/ Stop

Spec == Init /\ [][Next]_vars

\* The read loop and the cleanup job run, the SOCKS proxy answers or times out,
\* and time passes; nothing is asked of apps and servers.
FairSpec ==
    /\ Spec
    /\ WF_vars(ReadLoop)
    /\ \A k \in Keys : WF_vars(Cleanup(k)) /\ WF_vars(Elapse(k))

-----------------------------------------------------------------------------
(* Properties. *)

\* The read loop never holds a packet for a session in LISTEN, SYN_RECEIVED or
\* CLOSE_WAIT, whatever readers and cleanup do: handleSyn and handleFin leave
\* these states before they return (TcpSession.kt:122-159).  The comments there
\* expect an ACK in SYN_RECEIVED (lines 135-138) and a connection made
\* asynchronously (line 214): neither happens, connectUpstream() is awaited.
Settled ==
    loop.pc = "read" =>
        \A k \in Table : state[sessions[k].s] \notin {"LISTEN", "SYN_RECEIVED", "CLOSE_WAIT"}

\* Cleanup has dropped the streams of s and has yet to remove it.
Emptied(s) == sweep.s = s /\ sweep.pc \in {"state", "remove"}

\* What the app is told has arrived has been written upstream, in order and
\* once.
Faithful(k) ==
    LET e == sessions[k] IN
    /\ \A i \in 1 .. Len(e.written) : e.written[i] = i
    /\ \A b \in 1 .. sent[k] : b < e.clientSeq => b <= Len(e.written)

\* Up to and including the end of a connection that the app closes, every byte
\* acknowledged to it has been written upstream, in order and once, although
\* writes fail, readers change the state, and cleanup closes and removes sessions
\* without the lock that the read loop holds (TcpSession.kt:222-264).  Excepted
\* is a session whose streams cleanup has dropped before it sets CLOSED and
\* removes it: a byte is not written then, and a FIN acknowledges it
\* (TcpSession.kt:232, 250, 376-385).
AckedUntilFin ==
    \A k \in Table :
        /\ ~Emptied(sessions[k].s)
        /\ app[k] \in {"open", "fin"}
        /\ state[sessions[k].s] \in {"ESTABLISHED", "CLOSE_WAIT", "LAST_ACK"}
        => Faithful(k)

\* While a session is ESTABLISHED the reader numbers the data for the app
\* without gaps or overlaps, although it holds no lock on ourSeq
\* (TcpSession.kt:349-353).
InSequence ==
    [][\A s \in Ids :
         relayed'[s] # relayed[s] /\ state[s] = "ESTABLISHED" => ourSeq[s] = relayed[s] + 1]_vars

\* A session that is over or idle leaves the table, by a packet or by the
\* cleanup, in whatever state readers and the read loop have left it, one whose
\* connection failed included (TcpSessionManager.kt:169-189).
Reaped ==
    \A k \in Keys :
        []<>(k \in Table => state[sessions[k].s] # "CLOSED" /\ ~sessions[k].idle)

-----------------------------------------------------------------------------
(* Claims of the code that TLC refutes. *)

\* "Relays data bidirectionally until the connection closes"
\* (TcpSession.kt:55): what an app is told has arrived has been written
\* upstream, in every state.
AckedIsWritten == \A k \in Table : app[k] \in {"open", "fin"} => Faithful(k)

\* "Enforce session limit to prevent SYN flood exhaustion"
\* (TcpSessionManager.kt:110): a session that ends in LAST_ACK, or that is
\* reaped while it connects, leaves the table but keeps its socket.
SocketsBounded == Cardinality({s \in Ids : socket[s] = "open"}) <= MaxSessions
=============================================================================
