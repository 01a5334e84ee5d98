----------------------------- MODULE TorControl ------------------------------
(***************************************************************************)
(* tor.ControlClient (controller/internal/tor/control.go): goroutines that *)
(* call its command methods, the readLoop goroutine that sorts the lines   *)
(* of the connection into replies and events, the engine that calls Close, *)
(* and Tor at the other end.                                               *)
(*                                                                         *)
(* A command is its number, and a line is the command it answers together  *)
(* with what the client looks at: the status code and the character after  *)
(* it.  "mid250" is "250-"; "data250" is "250+", which announces data      *)
(* lines that "dot" ends; "end250" and "end552" are the codes with a space *)
(* after them and "event650" is "650 ", an event.  A data line is "data",  *)
(* or "id3" if its first word has three characters (the status of a        *)
(* circuit with an ID from 100 to 399, say).                               *)
(***************************************************************************)
EXTENDS Integers, Sequences

CONSTANTS
    Callers,      \* goroutines that use the client: the engine, the GUI's tabs, ReloadConfig
    Replies,      \* the replies Tor may give to a command, as sequences of kinds
    SyncCap,      \* capacity of syncResp (128 in the code)
    EventCap,     \* capacity of events (256 in the code)
    MayTimeout,   \* whether Tor may take longer than CommandTimeout
    MayFail,      \* whether the connection may break
    MayClose,     \* whether the engine may shut down
    MaxCommands,  \* bound: commands sent
    MaxEvents     \* bound: events sent by Tor

NoCaller == "nobody"
Kinds == {"mid250", "data250", "data", "id3", "dot", "end250", "end552", "event650"}

ASSUME ControlAssumption ==
    /\ NoCaller \notin Callers
    /\ Replies \subseteq Seq(Kinds \ {"event650"})
    /\ SyncCap \in Nat \ {0} /\ EventCap \in Nat \ {0}
    /\ {MayTimeout, MayFail, MayClose} \subseteq BOOLEAN
    /\ MaxCommands \in Nat /\ MaxEvents \in Nat

VARIABLES
    pc,        \* per caller: "idle", "collect", "ok", "err"
    cmd,       \* per caller: the command it sent last
    got,       \* per caller: the lines collectResponse has taken for it
    mu,        \* who holds c.mu
    sent,      \* how many commands have been sent
    conn,      \* c.conn on this side: "open" or "closed"
    done,      \* c.done: "open" or "closed"
    syncResp,  \* the channel of reply lines
    events,    \* the channel of events, nobody receives from it
    reader,    \* readLoop: "check", "read", "dispatch", "failed", "failing", "exited"
    line,      \* the line readLoop holds
    closer,    \* Close: "idle", "checked", "closed", "returned"
    torIn,     \* commands Tor has not answered
    wire,      \* lines on their way to the client
    peer,      \* Tor's side of the connection: "up" or "gone"
    answered,  \* history: the reply of Tor to every command
    emitted,   \* how many events Tor has sent
    abandoned, \* history: some command has returned before its final line
    panicked   \* a closed channel has been closed

callVars   == <<pc, cmd, got, mu, sent, abandoned>>
readerVars == <<reader, line, events>>
torVars    == <<torIn, peer, answered, emitted>>
vars == <<callVars, readerVars, torVars, conn, done, syncResp, closer, wire, panicked>>

Line(of, kind) == [of |-> of, kind |-> kind]
NoLine == Line(0, "end250")

-----------------------------------------------------------------------------
(* What the client makes of a line *)

isAsyncEvent(l) == l.kind = "event650"

\* Mutant: any line of status 250 ends a reply.
MutIsFinal(l) == l.kind \in {"mid250", "data250", "end250", "end552", "id3"}

\* line[3] == ' '
IsFinal(l) == l.kind \in {"end250", "end552", "id3"}

\* line[0] is 4 or 5
IsError(l) == l.kind = "end552"

-----------------------------------------------------------------------------
(* sendCommand and collectResponse *)

\* Mutant: the command is sent without the mutex.
MutSendUnlocked(c) ==
    /\ pc[c] # "collect"
    /\ sent < MaxCommands
    /\ sent' = sent + 1
    /\ cmd' = [cmd EXCEPT ![c] = sent + 1]
    /\ got' = [got EXCEPT ![c] = <<>>]
    /\ \/ /\ conn = "open"
          /\ pc' = [pc EXCEPT ![c] = "collect"]
          /\ torIn' = Append(torIn, sent + 1)
       \/ /\ conn = "closed" \/ peer = "gone"
          /\ pc' = [pc EXCEPT ![c] = "err"]
          /\ UNCHANGED torIn
    /\ UNCHANGED <<mu, abandoned, readerVars, peer, answered, emitted, conn, done, syncResp, closer,
                   wire, panicked>>

\* The lock, which a caller waits for, and the two writes.  A write to a
\* connection the peer has left may fail or seem to succeed.
Send(c) ==
    /\ pc[c] # "collect"
    /\ mu = NoCaller
    /\ sent < MaxCommands
    /\ sent' = sent + 1
    /\ cmd' = [cmd EXCEPT ![c] = sent + 1]
    /\ got' = [got EXCEPT ![c] = <<>>]
    /\ \/ /\ conn = "open"
          /\ mu' = c
          /\ pc' = [pc EXCEPT ![c] = "collect"]
          /\ torIn' = Append(torIn, sent + 1)
       \/ /\ conn = "closed" \/ peer = "gone"
          /\ pc' = [pc EXCEPT ![c] = "err"]
          /\ UNCHANGED <<mu, torIn>>
    /\ UNCHANGED <<abandoned, readerVars, peer, answered, emitted, conn, done, syncResp, closer,
                   wire, panicked>>

Return(c, how) ==
    /\ pc' = [pc EXCEPT ![c] = how]
    /\ mu' = NoCaller

\* A line from syncResp; the final one ends the command.
CollectLine(c) ==
    /\ pc[c] = "collect"
    /\ syncResp # <<>>
    /\ syncResp' = Tail(syncResp)
    /\ got' = [got EXCEPT ![c] = Append(@, Head(syncResp))]
    /\ IF IsFinal(Head(syncResp))
         THEN Return(c, IF IsError(Head(syncResp)) THEN "err" ELSE "ok")
         ELSE UNCHANGED <<pc, mu>>
    /\ UNCHANGED <<cmd, sent, abandoned, readerVars, torVars, conn, done, closer, wire, panicked>>

\* The connection is closed: syncResp is closed and empty, or done is closed.
CollectClosed(c) ==
    /\ pc[c] = "collect"
    /\ done = "closed" \/ (reader = "exited" /\ syncResp = <<>>)
    /\ abandoned' = TRUE
    /\ Return(c, "err")
    /\ UNCHANGED <<cmd, got, sent, readerVars, torVars, conn, done, syncResp, closer,
                   wire, panicked>>

CollectTimeout(c) ==
    /\ MayTimeout
    /\ pc[c] = "collect"
    /\ abandoned' = TRUE
    /\ Return(c, "err")
    /\ UNCHANGED <<cmd, got, sent, readerVars, torVars, conn, done, syncResp, closer,
                   wire, panicked>>

Collect(c) == CollectLine(c) \/ CollectClosed(c) \/ CollectTimeout(c)

-----------------------------------------------------------------------------
(* readLoop *)

ReaderCheck ==
    /\ reader = "check"
    /\ reader' = IF done = "closed" THEN "exited" ELSE "read"
    /\ UNCHANGED <<line, events, callVars, torVars, conn, done, syncResp, closer, wire, panicked>>

\* ReadString fails once this side is closed, unless the line is in the reader's
\* buffer already, and when Tor is gone and everything it sent has been read.
ReaderRead ==
    /\ reader = "read"
    /\ \/ /\ wire # <<>>
          /\ line' = Head(wire)
          /\ wire' = Tail(wire)
          /\ reader' = "dispatch"
       \/ /\ conn = "closed" \/ (wire = <<>> /\ peer = "gone")
          /\ reader' = "failed"
          /\ UNCHANGED <<line, wire>>
    /\ UNCHANGED <<events, callVars, torVars, conn, done, syncResp, closer, panicked>>

\* The select on done after a read error...
ReaderFailed ==
    /\ reader = "failed"
    /\ \/ done = "closed" /\ reader' = "exited" /\ UNCHANGED conn
       \/ done = "open" /\ reader' = "failing" /\ conn' = "closed"
    /\ UNCHANGED <<line, events, callVars, torVars, done, syncResp, closer, wire, panicked>>

\* ... and close(c.done), which is not in one step with it.
ReaderFailing ==
    /\ reader = "failing"
    /\ reader' = "exited"
    /\ panicked' = (panicked \/ done = "closed")
    /\ done' = "closed"
    /\ UNCHANGED <<line, events, callVars, torVars, conn, syncResp, closer, wire>>

\* Mutant: the send of an event waits for room.
MutDispatchEventBlocks ==
    /\ reader = "dispatch"
    /\ isAsyncEvent(line)
    /\ Len(events) < EventCap
    /\ events' = Append(events, line)
    /\ reader' = "check"
    /\ UNCHANGED <<line, callVars, torVars, conn, done, syncResp, closer, wire, panicked>>

\* An event that finds the channel full is dropped.
dispatchEvent ==
    /\ reader = "dispatch"
    /\ isAsyncEvent(line)
    /\ events' = IF Len(events) < EventCap THEN Append(events, line) ELSE events
    /\ reader' = "check"
    /\ UNCHANGED <<line, callVars, torVars, conn, done, syncResp, closer, wire, panicked>>

\* Mutant: one line more than the channel holds.
MutDispatchReplyOver ==
    /\ reader = "dispatch"
    /\ ~isAsyncEvent(line)
    /\ Len(syncResp) <= SyncCap
    /\ syncResp' = Append(syncResp, line)
    /\ reader' = "check"
    /\ UNCHANGED <<line, events, callVars, torVars, conn, done, closer, wire, panicked>>

\* The send of a reply line waits for room in syncResp, or for the end.
DispatchReply ==
    /\ reader = "dispatch"
    /\ ~isAsyncEvent(line)
    /\ \/ /\ Len(syncResp) < SyncCap
          /\ syncResp' = Append(syncResp, line)
          /\ reader' = "check"
       \/ /\ done = "closed"
          /\ reader' = "exited"
          /\ UNCHANGED syncResp
    /\ UNCHANGED <<line, events, callVars, torVars, conn, done, closer, wire, panicked>>

readLoop ==
    \/ ReaderCheck \/ ReaderRead \/ ReaderFailed \/ ReaderFailing
    \/ dispatchEvent \/ DispatchReply

-----------------------------------------------------------------------------
(* Close, called once, by doShutdown *)

CloseCheck ==
    /\ MayClose
    /\ closer = "idle"
    /\ closer' = IF done = "closed" THEN "returned" ELSE "checked"
    /\ UNCHANGED <<callVars, readerVars, torVars, conn, done, syncResp, wire, panicked>>

CloseDone ==
    /\ closer = "checked"
    /\ closer' = "closed"
    /\ panicked' = (panicked \/ done = "closed")
    /\ done' = "closed"
    /\ UNCHANGED <<callVars, readerVars, torVars, conn, syncResp, wire>>

\* Mutant: Close leaves the connection to the reader.
MutCloseConnNot ==
    /\ closer = "closed"
    /\ closer' = "returned"
    /\ UNCHANGED <<callVars, readerVars, torVars, conn, done, syncResp, wire, panicked>>

CloseConn ==
    /\ closer = "closed"
    /\ closer' = "returned"
    /\ conn' = "closed"
    /\ UNCHANGED <<callVars, readerVars, torVars, done, syncResp, wire, panicked>>

Close == CloseCheck \/ CloseDone \/ CloseConn

-----------------------------------------------------------------------------
(* Tor (external): answers the commands in order, sends events in between *)

TorReplies ==
    /\ peer = "up"
    /\ torIn # <<>>
    /\ \E reply \in Replies :
         /\ wire' = wire \o [i \in DOMAIN reply |-> Line(Head(torIn), reply[i])]
         /\ answered' = [answered EXCEPT ![Head(torIn)] = reply]
    /\ torIn' = Tail(torIn)
    /\ UNCHANGED <<callVars, readerVars, peer, emitted, conn, done, syncResp, closer, panicked>>

TorEvent ==
    /\ peer = "up"
    /\ emitted < MaxEvents
    /\ emitted' = emitted + 1
    /\ wire' = Append(wire, Line(0, "event650"))
    /\ UNCHANGED <<callVars, readerVars, torIn, peer, answered, conn, done, syncResp, closer,
                   panicked>>

TorGone ==
    /\ MayFail
    /\ peer = "up"
    /\ peer' = "gone"
    /\ UNCHANGED <<callVars, readerVars, torIn, answered, emitted, conn, done, syncResp, closer,
                   wire, panicked>>

-----------------------------------------------------------------------------

Init ==
    /\ pc = [c \in Callers |-> "idle"]
    /\ cmd = [c \in Callers |-> 0]
    /\ got = [c \in Callers |-> <<>>]
    /\ mu = NoCaller
    /\ sent = 0
    /\ abandoned = FALSE
    /\ conn = "open"
    /\ done = "open"
    /\ syncResp = <<>>
    /\ events = <<>>
    /\ reader = "check"
    /\ line = NoLine
    /\ closer = "idle"
    /\ torIn = <<>>
    /\ wire = <<>>
    /\ peer = "up"
    /\ answered = [i \in 1..MaxCommands |-> <<>>]
    /\ emitted = 0
    /\ panicked = FALSE

\* A panic ends the process.
Next ==
    /\ ~panicked
    /\ \/ \E c \in Callers : Send(c) \/ Collect(c)
       \/ readLoop
       \/ Close
       \/ TorReplies \/ TorEvent \/ TorGone

Spec == Init /\ [][Next]_vars

\* Goroutines that can run do run; while its connection holds, Tor answers what
\* it has received.  Nothing depends on the timer, which may fire or not.
Fairness ==
    /\ \A c \in Callers : WF_vars(~panicked /\ (CollectLine(c) \/ CollectClosed(c)))
    /\ WF_vars(~panicked /\ readLoop)
    /\ WF_vars(~panicked /\ closer # "idle" /\ Close)
    /\ WF_vars(~panicked /\ TorReplies)

FairSpec == Spec /\ Fairness

-----------------------------------------------------------------------------
(* Properties *)

LineType == [of : 0..MaxCommands, kind : Kinds]

\* Every variable stays in its range; the two channels never hold more than
\* their capacity.
TypeOK ==
    /\ pc \in [Callers -> {"idle", "collect", "ok", "err"}]
    /\ cmd \in [Callers -> 0..MaxCommands]
    /\ got \in [Callers -> Seq(LineType)]
    /\ mu \in Callers \cup {NoCaller}
    /\ sent \in 0..MaxCommands
    /\ conn \in {"open", "closed"} /\ done \in {"open", "closed"} /\ peer \in {"up", "gone"}
    /\ syncResp \in Seq(LineType) /\ Len(syncResp) <= SyncCap
    /\ events \in Seq(LineType) /\ Len(events) <= EventCap
    /\ reader \in {"check", "read", "dispatch", "failed", "failing", "exited"}
    /\ closer \in {"idle", "checked", "closed", "returned"}
    /\ abandoned \in BOOLEAN /\ panicked \in BOOLEAN

\* As long as no command was given up (on a timeout or a close), a command that
\* returns without an error returns exactly the lines Tor sent in reply to it,
\* however many goroutines share the client and whatever events come between.
OwnReply ==
    \A c \in Callers :
      pc[c] = "ok" /\ ~abandoned =>
        /\ \A i \in DOMAIN got[c] : got[c][i].of = cmd[c]
        /\ [i \in DOMAIN got[c] |-> got[c][i].kind] = answered[cmd[c]]

\* Even after that no command gets a line that answers a later command,
\* and it gets the lines in the order Tor sent them: what goes wrong is
\* that replies are stale, never that they are swapped.
ReplyOrder ==
    \A c \in Callers :
      /\ \A i \in DOMAIN got[c] : got[c][i].of <= cmd[c]
      /\ \A i, j \in DOMAIN got[c] : i < j => got[c][i].of <= got[c][j].of

\* Every call of a command method returns without the help of its timer, as long
\* as Tor answers: events nobody receives do not hold up the replies behind them,
\* late replies to earlier commands do not, and a connection that breaks or is
\* closed in the middle of a reply wakes whoever waits for the rest.
CallsReturn ==
    \A c \in Callers : pc[c] = "collect" ~> (pc[c] # "collect" \/ panicked)

\* Once done is closed readLoop ends and the connection is closed on this side:
\* a reader that waits for input or for room in syncResp is woken
\* (unless the two closings of done have met, and the process has panicked).
ReaderStops ==
    done = "closed" ~> ((reader = "exited" /\ conn = "closed") \/ panicked)

-----------------------------------------------------------------------------
(* What comments in the code say of the client, and TLC refutes *)

\* "sends a command string and collects all response lines" (control.go:161).
\* Refuted by a late reply (MayTimeout), and by OldCircuitReplies without one.
CollectsItsReply ==
    \A c \in Callers :
      pc[c] = "ok" => \A i \in DOMAIN got[c] : got[c][i].of = cmd[c]

\* "Close closes the connection and stops the reader goroutine." (control.go:149)
\* Refuted if the connection breaks while Close runs (MayFail and MayClose).
NoPanic ==
    ~panicked
=============================================================================
