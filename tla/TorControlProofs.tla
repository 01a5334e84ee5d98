--------------------------- MODULE TorControlProofs ---------------------------
(***************************************************************************)
(* Proofs about the client of Tor's control port: its variables keep their *)
(* types and its channels their capacity, no command gets a line that      *)
(* answers a later one, and as long as none is given up each gets exactly  *)
(* its own reply.  They hold for any number of goroutines, commands and    *)
(* events and for channels of any capacity.                                *)
(***************************************************************************)
EXTENDS TorControl, SequenceTheorems, TLAPS

-----------------------------------------------------------------------------
(* Type correctness *)

\* TypeOK leaves out what is on its way: the line readLoop holds, the wire, and
\* the commands Tor has not answered.
TypeInv ==
    /\ TypeOK
    /\ line \in LineType
    /\ torIn \in Seq(1..MaxCommands)
    /\ wire \in Seq(LineType)
    /\ answered \in [1..MaxCommands -> Seq(Kinds)]

\* The constants, one by one.
LEMMA Bounds ==
    /\ MaxCommands \in Nat /\ MaxEvents \in Nat
    /\ SyncCap \in Nat /\ SyncCap > 0 /\ EventCap \in Nat /\ EventCap > 0
<1>1. MaxCommands \in Nat /\ MaxEvents \in Nat /\ SyncCap \in Nat \ {0} /\ EventCap \in Nat \ {0}
  BY ControlAssumption
<1> QED BY <1>1

\* A command that is sent keeps the types.
LEMMA SendType == ASSUME TypeInv, NEW c \in Callers, Send(c) PROVE TypeInv'
<1>1. /\ sent < MaxCommands /\ sent' = sent + 1
      /\ cmd' = [cmd EXCEPT ![c] = sent + 1] /\ got' = [got EXCEPT ![c] = <<>>]
      /\ UNCHANGED <<abandoned, readerVars, peer, answered, conn, done, syncResp, closer, wire, panicked>>
  BY DEF Send
<1>2. sent + 1 \in 0..MaxCommands /\ sent + 1 \in 1..MaxCommands
  BY <1>1, Bounds DEF TypeInv, TypeOK
<1>3. sent' \in 0..MaxCommands /\ cmd' \in [Callers -> 0..MaxCommands]
      /\ got' \in [Callers -> Seq(LineType)]
  BY <1>1, <1>2 DEF TypeInv, TypeOK
<1>4. pc' \in [Callers -> {"idle", "collect", "ok", "err"}] /\ mu' \in Callers \cup {NoCaller}
  BY DEF Send, TypeInv, TypeOK
<1>5. torIn' \in Seq(1..MaxCommands)
  <2>1. torIn \in Seq(1..MaxCommands) /\ torIn' \in {torIn, Append(torIn, sent + 1)}
    BY DEF Send, TypeInv
  <2>2. sent + 1 \in 1..MaxCommands
    BY <1>2
  <2>3. Append(torIn, sent + 1) \in Seq(1..MaxCommands)
    BY <2>1, <2>2, AppendProperties
  <2> QED BY <2>1, <2>3
<1> QED BY <1>1, <1>3, <1>4, <1>5 DEF TypeInv, TypeOK, readerVars

\* collectResponse keeps the types.
LEMMA CollectType == ASSUME TypeInv, NEW c \in Callers, Collect(c) PROVE TypeInv'
<1>1. CASE CollectLine(c)
  <2>1. /\ syncResp # <<>> /\ syncResp' = Tail(syncResp)
        /\ got' = [got EXCEPT ![c] = Append(got[c], Head(syncResp))]
        /\ UNCHANGED <<cmd, sent, abandoned, readerVars, torVars, conn, done, closer, wire, panicked>>
    BY <1>1 DEF CollectLine
  <2>2. syncResp \in Seq(LineType) /\ Len(syncResp) <= SyncCap /\ got \in [Callers -> Seq(LineType)]
    BY DEF TypeInv, TypeOK
  <2>3. Head(syncResp) \in LineType /\ Tail(syncResp) \in Seq(LineType) /\ Len(Tail(syncResp)) <= SyncCap
    BY <2>1, <2>2, HeadTailProperties, Bounds
  <2>4. got' \in [Callers -> Seq(LineType)]
    BY <2>1, <2>2, <2>3
  <2>5. pc' \in [Callers -> {"idle", "collect", "ok", "err"}] /\ mu' \in Callers \cup {NoCaller}
    BY <1>1 DEF CollectLine, Return, TypeInv, TypeOK
  <2> QED BY <2>1, <2>3, <2>4, <2>5 DEF TypeInv, TypeOK, readerVars, torVars
<1>2. CASE CollectClosed(c) \/ CollectTimeout(c)
  <2>1. /\ pc' = [pc EXCEPT ![c] = "err"] /\ mu' = NoCaller /\ abandoned' = TRUE
        /\ UNCHANGED <<cmd, got, sent, readerVars, torVars, conn, done, syncResp, closer, wire, panicked>>
    BY <1>2 DEF CollectClosed, CollectTimeout, Return
  <2> QED BY <2>1 DEF TypeInv, TypeOK, readerVars, torVars
<1> QED BY <1>1, <1>2 DEF Collect

\* readLoop keeps the types, and the channels their capacity.
LEMMA ReaderType == ASSUME TypeInv, readLoop PROVE TypeInv'
<1>1. CASE ReaderCheck
  BY <1>1 DEF ReaderCheck, TypeInv, TypeOK, callVars, torVars
<1>2. CASE ReaderRead
  <2>1. line' \in LineType /\ wire' \in Seq(LineType)
    <3>1. CASE wire # <<>> /\ line' = Head(wire) /\ wire' = Tail(wire)
      BY <3>1, HeadTailProperties DEF TypeInv
    <3>2. CASE UNCHANGED <<line, wire>>
      BY <3>2 DEF TypeInv
    <3> QED BY <1>2, <3>1, <3>2 DEF ReaderRead
  <2>2. reader' \in {"dispatch", "failed"}
        /\ UNCHANGED <<events, callVars, torVars, conn, done, syncResp, closer, panicked>>
    BY <1>2 DEF ReaderRead
  <2> QED BY <2>1, <2>2 DEF TypeInv, TypeOK, callVars, torVars
<1>3. CASE ReaderFailed \/ ReaderFailing
  BY <1>3 DEF ReaderFailed, ReaderFailing, TypeInv, TypeOK, callVars, torVars
<1>4. CASE dispatchEvent
  <2>1. events \in Seq(LineType) /\ Len(events) \in Nat /\ Len(events) <= EventCap
    BY DEF TypeInv, TypeOK
  <2>2. events' = IF Len(events) < EventCap THEN Append(events, line) ELSE events
    BY <1>4 DEF dispatchEvent
  <2>3. events' \in Seq(LineType) /\ Len(events') <= EventCap
    BY <2>1, <2>2, Bounds DEF TypeInv
  <2>4. reader' = "check" /\ UNCHANGED <<line, callVars, torVars, conn, done, syncResp, closer, wire, panicked>>
    BY <1>4 DEF dispatchEvent
  <2> QED BY <2>3, <2>4 DEF TypeInv, TypeOK, callVars, torVars
<1>5. CASE DispatchReply
  <2>1. syncResp \in Seq(LineType) /\ Len(syncResp) \in Nat /\ Len(syncResp) <= SyncCap
    BY DEF TypeInv, TypeOK
  <2>2. \/ Len(syncResp) < SyncCap /\ syncResp' = Append(syncResp, line)
        \/ UNCHANGED syncResp
    BY <1>5 DEF DispatchReply
  <2>3. syncResp' \in Seq(LineType) /\ Len(syncResp') <= SyncCap
    <3>1. CASE Len(syncResp) < SyncCap /\ syncResp' = Append(syncResp, line)
      <4>1. line \in LineType
        BY DEF TypeInv
      <4> HIDE DEF LineType
      <4>2. Append(syncResp, line) \in Seq(LineType) /\ Len(Append(syncResp, line)) = Len(syncResp) + 1
        BY <2>1, <4>1, AppendProperties
      <4> QED BY <2>1, <3>1, <4>2, Bounds
    <3>2. CASE UNCHANGED syncResp
      BY <2>1, <3>2
    <3> QED BY <2>2, <3>1, <3>2
  <2>4. reader' \in {"check", "exited"}
        /\ UNCHANGED <<line, events, callVars, torVars, conn, done, closer, wire, panicked>>
    BY <1>5 DEF DispatchReply
  <2> QED BY <2>3, <2>4 DEF TypeInv, TypeOK, callVars, torVars
<1> QED BY <1>1, <1>2, <1>3, <1>4, <1>5 DEF readLoop

\* Close keeps the types.
LEMMA CloseType == ASSUME TypeInv, Close PROVE TypeInv'
  BY DEF Close, CloseCheck, CloseDone, CloseConn, TypeInv, TypeOK, callVars, readerVars, torVars

\* The lines of a reply, as they go on the wire.
ReplyLines(n, reply) == [i \in DOMAIN reply |-> Line(n, reply[i])]

\* The lines of a reply, as they are put on the wire.
LEMMA ReplyLinesType ==
    ASSUME NEW n \in 0..MaxCommands, NEW reply \in Replies
    PROVE  /\ reply \in Seq(Kinds) /\ ReplyLines(n, reply) \in Seq(LineType)
           /\ Len(ReplyLines(n, reply)) = Len(reply) /\ Len(reply) \in Nat
           /\ \A i \in 1..Len(reply) : ReplyLines(n, reply)[i] = Line(n, reply[i])
           /\ \A i \in 1..Len(reply) : reply[i] \in Kinds \ {"event650"}
<1> DEFINE K == Kinds \ {"event650"}
<1>1. reply \in Seq(K) /\ K \subseteq Kinds
  BY ControlAssumption
<1> HIDE DEF K
<1>2. Len(reply) \in Nat /\ DOMAIN reply = 1..Len(reply)
      /\ \A i \in 1..Len(reply) : reply[i] \in K
  BY <1>1
<1>3. reply \in Seq(Kinds)
  BY <1>1, SeqMonotonic
<1>4. \A i \in 1..Len(reply) : Line(n, reply[i]) \in LineType
  BY <1>1, <1>2 DEF Line, LineType
<1>5. ReplyLines(n, reply) = [i \in 1..Len(reply) |-> Line(n, reply[i])]
  BY <1>2 DEF ReplyLines
<1> HIDE DEF LineType, Line
<1>6. ReplyLines(n, reply) \in Seq(LineType) /\ Len(ReplyLines(n, reply)) = Len(reply)
  BY <1>2, <1>4, <1>5
<1> QED BY <1>2, <1>3, <1>5, <1>6 DEF K

\* What Tor sends is made of lines.
LEMMA TorType == ASSUME TypeInv, TorReplies \/ TorEvent \/ TorGone PROVE TypeInv'
<1>1. CASE TorReplies
  <2>1. PICK reply \in Replies :
          /\ wire' = wire \o ReplyLines(Head(torIn), reply)
          /\ answered' = [answered EXCEPT ![Head(torIn)] = reply]
    BY <1>1 DEF TorReplies, ReplyLines
  <2>2. torIn # <<>> /\ torIn' = Tail(torIn)
        /\ UNCHANGED <<callVars, readerVars, peer, emitted, conn, done, syncResp, closer, panicked>>
    BY <1>1 DEF TorReplies
  <2>3. Head(torIn) \in 1..MaxCommands /\ torIn' \in Seq(1..MaxCommands)
    BY <2>2, HeadTailProperties DEF TypeInv
  <2>4. Head(torIn) \in 0..MaxCommands
    BY <2>3
  <2>5. reply \in Seq(Kinds) /\ ReplyLines(Head(torIn), reply) \in Seq(LineType)
    BY <2>4, ReplyLinesType
  <2>6. wire' \in Seq(LineType)
    BY <2>1, <2>5, ConcatProperties DEF TypeInv
  <2>7. answered' \in [1..MaxCommands -> Seq(Kinds)]
    BY <2>1, <2>5 DEF TypeInv
  <2> QED BY <2>2, <2>3, <2>6, <2>7 DEF TypeInv, TypeOK, callVars, readerVars
<1>2. CASE TorEvent
  <2>1. Line(0, "event650") \in LineType
    BY Bounds DEF Line, LineType, Kinds
  <2>2. wire' \in Seq(LineType)
    <3> HIDE DEF LineType
    <3> QED BY <1>2, <2>1 DEF TorEvent, TypeInv
  <2> QED BY <1>2, <2>2 DEF TorEvent, TypeInv, TypeOK, callVars, readerVars
<1>3. CASE TorGone
  BY <1>3 DEF TorGone, TypeInv, TypeOK, callVars, readerVars
<1> QED BY <1>1, <1>2, <1>3

\* The types hold before the first command.
LEMMA InitType == Init => TypeInv
<1> SUFFICES ASSUME Init PROVE TypeInv
  OBVIOUS
<1>1. 0 \in 0..MaxCommands /\ <<>> \in Seq(LineType) /\ Len(<<>>) = 0
  BY Bounds
<1>2. line \in LineType
  BY <1>1 DEF Init, NoLine, Line, LineType, Kinds
<1> HIDE DEF LineType
<1>3. 0 <= SyncCap /\ 0 <= EventCap
  BY Bounds
<1>4. got \in [Callers -> Seq(LineType)] /\ cmd \in [Callers -> 0..MaxCommands]
      /\ answered \in [1..MaxCommands -> Seq(Kinds)]
  BY <1>1 DEF Init
<1>5. torIn \in Seq(1..MaxCommands) /\ wire \in Seq(LineType)
      /\ syncResp \in Seq(LineType) /\ Len(syncResp) <= SyncCap
      /\ events \in Seq(LineType) /\ Len(events) <= EventCap
  BY <1>1, <1>3 DEF Init
<1>6. pc \in [Callers -> {"idle", "collect", "ok", "err"}]
  BY DEF Init
<1> QED BY <1>1, <1>2, <1>4, <1>5, <1>6 DEF Init, TypeInv, TypeOK

\* The types always hold.
LEMMA TypeInvariant == Spec => []TypeInv
<1>1. TypeInv /\ [Next]_vars => TypeInv'
  <2> SUFFICES ASSUME TypeInv, [Next]_vars PROVE TypeInv'
    OBVIOUS
  <2>1. CASE UNCHANGED vars
    BY <2>1 DEF vars, TypeInv, TypeOK, callVars, readerVars, torVars
  <2> QED BY <2>1, SendType, CollectType, ReaderType, CloseType, TorType DEF Next
<1> QED BY <1>1, InitType, PTL DEF Spec

\* Every variable of the client keeps its type; syncResp and events never hold
\* more than their capacity.
THEOREM TypeCorrect == Spec => []TypeOK
<1>1. TypeInv => TypeOK
  BY DEF TypeInv
<1> QED BY <1>1, TypeInvariant, PTL

-----------------------------------------------------------------------------
(* Replies in order *)

\* The commands that the reply lines of a sequence answer.
CommandsOf(s) == {s[i].of : i \in {k \in 1..Len(s) : ~isAsyncEvent(s[k])}}

\* Reply lines stand in the order of the commands they answer, ...
InOrder(s) ==
    \A i, j \in 1..Len(s) :
      i < j /\ ~isAsyncEvent(s[i]) /\ ~isAsyncEvent(s[j]) => s[i].of <= s[j].of

\* ... a sequence holds reply lines only, ...
OnlyReplies(s) == \A i \in 1..Len(s) : ~isAsyncEvent(s[i])

\* ... and no command of one set is later than one of another.
NotAfter(A, B) == \A x \in A, y \in B : x <= y

\* The number a line carries.
LEMMA OfType == \A l \in LineType : l.of \in Nat /\ l.of \in 0..MaxCommands
  BY Bounds DEF LineType

\* A sequence of lines answers commands, and none if it is empty.
LEMMA CommandsOfType ==
    /\ CommandsOf(<<>>) = {} /\ InOrder(<<>>) /\ OnlyReplies(<<>>)
    /\ \A s \in Seq(LineType) : CommandsOf(s) \subseteq Nat
<1>1. Len(<<>>) = 0
  OBVIOUS
<1>2. ASSUME NEW s \in Seq(LineType) PROVE CommandsOf(s) \subseteq Nat
  <2>1. Len(s) \in Nat /\ \A i \in 1..Len(s) : s[i] \in LineType
    <3> HIDE DEF LineType
    <3> QED OBVIOUS
  <2> QED BY <2>1, OfType DEF CommandsOf
<1> QED BY <1>1, <1>2 DEF CommandsOf, InOrder, OnlyReplies

\* What is left when the first line of a sequence is taken.
LEMMA TakeFirst ==
    ASSUME NEW s \in Seq(LineType), s # <<>>, InOrder(s)
    PROVE  /\ CommandsOf(Tail(s)) \subseteq CommandsOf(s) /\ InOrder(Tail(s))
           /\ OnlyReplies(s) => OnlyReplies(Tail(s)) /\ ~isAsyncEvent(Head(s))
           /\ ~isAsyncEvent(Head(s)) =>
                Head(s).of \in CommandsOf(s) /\ NotAfter({Head(s).of}, CommandsOf(Tail(s)))
<1> HIDE DEF LineType
<1>1. /\ Len(s) \in Nat \ {0} /\ Head(s) = s[1] /\ Len(Tail(s)) = Len(s) - 1
      /\ \A i \in 1..Len(Tail(s)) : Tail(s)[i] = s[i+1]
  BY HeadTailProperties, EmptySeq
<1>2. \A i \in 1..Len(Tail(s)) : i + 1 \in 1..Len(s) /\ 1 < i + 1
  BY <1>1
<1>3. CommandsOf(Tail(s)) \subseteq CommandsOf(s)
  BY <1>1, <1>2 DEF CommandsOf
<1>4. InOrder(Tail(s))
  BY <1>1, <1>2 DEF InOrder
<1>5. 1 \in 1..Len(s)
  BY <1>1
<1>6. OnlyReplies(s) => OnlyReplies(Tail(s)) /\ ~isAsyncEvent(Head(s))
  BY <1>1, <1>2, <1>5 DEF OnlyReplies
<1>7. ASSUME ~isAsyncEvent(Head(s))
      PROVE  Head(s).of \in CommandsOf(s) /\ NotAfter({Head(s).of}, CommandsOf(Tail(s)))
  BY <1>1, <1>2, <1>5, <1>7 DEF CommandsOf, NotAfter, InOrder
<1> QED BY <1>3, <1>4, <1>6, <1>7

\* Lines are added behind others that answer no later command.
LEMMA AddLast ==
    ASSUME NEW s \in Seq(LineType), NEW t \in Seq(LineType), InOrder(s), InOrder(t),
           NotAfter(CommandsOf(s), CommandsOf(t))
    PROVE  /\ CommandsOf(s \o t) \subseteq CommandsOf(s) \cup CommandsOf(t) /\ InOrder(s \o t)
           /\ OnlyReplies(s) /\ OnlyReplies(t) => OnlyReplies(s \o t)
<1> HIDE DEF LineType
<1> DEFINE u == s \o t
<1>1. /\ Len(s) \in Nat /\ Len(t) \in Nat /\ Len(u) = Len(s) + Len(t)
      /\ \A i \in 1..Len(u) : u[i] = IF i <= Len(s) THEN s[i] ELSE t[i - Len(s)]
  BY ConcatProperties
<1> HIDE DEF u
<1>2. \A i \in 1..Len(u) : \/ i \in 1..Len(s) /\ u[i] = s[i]
                           \/ i > Len(s) /\ i - Len(s) \in 1..Len(t) /\ u[i] = t[i - Len(s)]
  BY <1>1
<1>3. CommandsOf(u) \subseteq CommandsOf(s) \cup CommandsOf(t)
  BY <1>2 DEF CommandsOf
<1>4. ASSUME NEW i \in 1..Len(u), NEW j \in 1..Len(u), i < j,
             ~isAsyncEvent(u[i]), ~isAsyncEvent(u[j])
      PROVE  u[i].of <= u[j].of
  <2>1. CASE j \in 1..Len(s) /\ u[j] = s[j]
    <3>1. i \in 1..Len(s) /\ u[i] = s[i]
      BY <1>1, <1>4, <2>1
    <3> QED BY <1>4, <2>1, <3>1 DEF InOrder
  <2>2. CASE /\ j > Len(s) /\ j - Len(s) \in 1..Len(t) /\ u[j] = t[j - Len(s)]
             /\ i \in 1..Len(s) /\ u[i] = s[i]
    <3>1. u[i].of \in CommandsOf(s) /\ u[j].of \in CommandsOf(t)
      BY <1>4, <2>2 DEF CommandsOf
    <3> QED BY <3>1 DEF NotAfter
  <2>3. CASE /\ j > Len(s) /\ j - Len(s) \in 1..Len(t) /\ u[j] = t[j - Len(s)]
             /\ i > Len(s) /\ i - Len(s) \in 1..Len(t) /\ u[i] = t[i - Len(s)]
    <3>1. i - Len(s) < j - Len(s)
      BY <1>1, <1>4
    <3> QED BY <1>4, <2>3, <3>1 DEF InOrder
  <2> QED BY <1>2, <2>1, <2>2, <2>3
<1>5. OnlyReplies(s) /\ OnlyReplies(t) => OnlyReplies(u)
  BY <1>2 DEF OnlyReplies
<1> QED BY <1>3, <1>4, <1>5 DEF InOrder, u

\* The same for one line.
LEMMA AddLine ==
    ASSUME NEW s \in Seq(LineType), NEW l \in LineType, InOrder(s),
           ~isAsyncEvent(l) => NotAfter(CommandsOf(s), {l.of})
    PROVE  /\ CommandsOf(Append(s, l)) \subseteq CommandsOf(s) \cup {l.of} /\ InOrder(Append(s, l))
           /\ isAsyncEvent(l) => CommandsOf(Append(s, l)) \subseteq CommandsOf(s)
           /\ OnlyReplies(s) /\ ~isAsyncEvent(l) => OnlyReplies(Append(s, l))
<1> HIDE DEF LineType
<1>1. <<l>> \in Seq(LineType) /\ Len(<<l>>) = 1 /\ <<l>>[1] = l
  OBVIOUS
<1>2. /\ CommandsOf(<<l>>) \subseteq {l.of} /\ InOrder(<<l>>)
      /\ isAsyncEvent(l) => CommandsOf(<<l>>) = {}
      /\ ~isAsyncEvent(l) => OnlyReplies(<<l>>)
  BY <1>1 DEF CommandsOf, InOrder, OnlyReplies
<1>3. NotAfter(CommandsOf(s), CommandsOf(<<l>>))
  BY <1>2 DEF NotAfter
<1>4. Append(s, l) = s \o <<l>>
  BY AppendIsConcat
<1>5. /\ CommandsOf(s \o <<l>>) \subseteq CommandsOf(s) \cup CommandsOf(<<l>>)
      /\ InOrder(s \o <<l>>)
      /\ OnlyReplies(s) /\ OnlyReplies(<<l>>) => OnlyReplies(s \o <<l>>)
  <2> DEFINE t == <<l>>
  <2>1. t \in Seq(LineType) /\ InOrder(t) /\ NotAfter(CommandsOf(s), CommandsOf(t))
    BY <1>1, <1>2, <1>3
  <2> HIDE DEF t
  <2>2. CommandsOf(s \o t) \subseteq CommandsOf(s) \cup CommandsOf(t) /\ InOrder(s \o t)
        /\ (OnlyReplies(s) /\ OnlyReplies(t) => OnlyReplies(s \o t))
    BY <2>1, AddLast
  <2> QED BY <2>2 DEF t
<1> QED BY <1>2, <1>4, <1>5

\* The command of the reply line that readLoop holds, and those Tor has to answer.
Held == IF reader = "dispatch" /\ ~isAsyncEvent(line) THEN {line.of} ELSE {}
Asked == {torIn[i] : i \in 1..Len(torIn)}

\* Whoever collects holds the mutex, and its command was the last to be sent.
LockInv == \A c \in Callers : pc[c] = "collect" => mu = c /\ cmd[c] = sent

\* What a caller has collected, what is in syncResp, with readLoop, on the wire
\* and with Tor answers commands in this order, none of them yet to be sent.
OrderInv ==
    /\ \A c \in Callers :
         OnlyReplies(got[c]) /\ InOrder(got[c]) /\ NotAfter(CommandsOf(got[c]), {cmd[c]})
    /\ OnlyReplies(syncResp) /\ InOrder(syncResp) /\ InOrder(wire)
    /\ \A i, j \in 1..Len(torIn) : i < j => torIn[i] <= torIn[j]
    /\ NotAfter(CommandsOf(wire), Asked)
    /\ NotAfter(Held, CommandsOf(wire) \cup Asked)
    /\ NotAfter(CommandsOf(syncResp), Held \cup CommandsOf(wire) \cup Asked)
    /\ \A c \in Callers : pc[c] = "collect" =>
         NotAfter(CommandsOf(got[c]), CommandsOf(syncResp) \cup Held \cup CommandsOf(wire) \cup Asked)
    /\ NotAfter(CommandsOf(syncResp) \cup Held \cup CommandsOf(wire) \cup Asked, {sent})

\* The mutex is taken by Send only, when nobody collects, and let go by whoever returns.
LEMMA LockStep == ASSUME TypeInv, LockInv, Next PROVE LockInv'
<1>1. CASE \E c \in Callers : Send(c)
  <2>1. PICK c \in Callers : Send(c)
    BY <1>1
  <2>2. /\ mu = NoCaller /\ sent' = sent + 1 /\ cmd' = [cmd EXCEPT ![c] = sent + 1]
        /\ \/ mu' = c /\ pc' = [pc EXCEPT ![c] = "collect"]
           \/ mu' = mu /\ pc' = [pc EXCEPT ![c] = "err"]
    BY <2>1 DEF Send
  <2>3. \A d \in Callers : pc[d] # "collect"
    BY <2>2, ControlAssumption DEF LockInv
  <2>4. pc \in [Callers -> {"idle", "collect", "ok", "err"}] /\ cmd \in [Callers -> 0..MaxCommands]
    BY DEF TypeInv, TypeOK
  <2> QED BY <2>2, <2>3, <2>4 DEF LockInv
<1>2. CASE \E c \in Callers : Collect(c)
  <2>1. PICK c \in Callers : Collect(c)
    BY <1>2
  <2>2. /\ pc[c] = "collect" /\ UNCHANGED <<sent, cmd>>
        /\ \/ UNCHANGED <<pc, mu>>
           \/ \E how \in {"ok", "err"} : pc' = [pc EXCEPT ![c] = how]
    BY <2>1 DEF Collect, CollectLine, CollectClosed, CollectTimeout, Return
  <2>3. \A d \in Callers : d # c => pc[d] # "collect"
    BY <2>2 DEF LockInv
  <2>4. pc \in [Callers -> {"idle", "collect", "ok", "err"}]
    BY DEF TypeInv, TypeOK
  <2> QED BY <2>2, <2>3, <2>4 DEF LockInv
<1>3. CASE UNCHANGED callVars
  BY <1>3 DEF callVars, LockInv
<1>4. readLoop \/ Close \/ TorReplies \/ TorEvent \/ TorGone => UNCHANGED callVars
  BY DEF readLoop, ReaderCheck, ReaderRead, ReaderFailed, ReaderFailing, dispatchEvent, DispatchReply,
         Close, CloseCheck, CloseDone, CloseConn, TorReplies, TorEvent, TorGone
<1> QED BY <1>1, <1>2, <1>3, <1>4 DEF Next

\* What is on its way answers commands.
LEMMA OnTheWayType ==
    ASSUME TypeInv
    PROVE  /\ CommandsOf(syncResp) \subseteq Nat /\ Held \subseteq Nat /\ CommandsOf(wire) \subseteq Nat
           /\ \A i \in 1..Len(torIn) : torIn[i] \in 1..MaxCommands /\ torIn[i] \in Asked
           /\ Asked \subseteq Nat /\ Len(torIn) \in Nat
<1>1. CommandsOf(syncResp) \subseteq Nat /\ CommandsOf(wire) \subseteq Nat
  BY CommandsOfType DEF TypeInv, TypeOK
<1>2. Held \subseteq Nat
  BY OfType DEF TypeInv, Held
<1>3. torIn \in Seq(1..MaxCommands)
  BY DEF TypeInv
<1>4. Len(torIn) \in Nat /\ \A i \in 1..Len(torIn) : torIn[i] \in 1..MaxCommands
  BY <1>3, ElementOfSeq, LenProperties
<1>5. 1..MaxCommands \subseteq Nat
  OBVIOUS
<1>6. \A i \in 1..Len(torIn) : torIn[i] \in Nat
  BY <1>4, <1>5
<1> QED BY <1>1, <1>2, <1>4, <1>6 DEF Asked

\* A new command is newer than everything on its way.
LEMMA SendOrder ==
    ASSUME TypeInv, LockInv, OrderInv, NEW c \in Callers, Send(c) PROVE OrderInv'
<1>1. /\ mu = NoCaller /\ sent' = sent + 1
      /\ cmd' = [cmd EXCEPT ![c] = sent + 1] /\ got' = [got EXCEPT ![c] = <<>>]
      /\ UNCHANGED <<readerVars, syncResp, wire>>
  BY DEF Send
<1>2. /\ cmd \in [Callers -> 0..MaxCommands] /\ got \in [Callers -> Seq(LineType)] /\ sent \in Nat
      /\ torIn \in Seq(1..MaxCommands) /\ pc \in [Callers -> {"idle", "collect", "ok", "err"}]
  BY Bounds DEF TypeInv, TypeOK
<1>3. \A d \in Callers : pc'[d] = "collect" => d = c
  <2>1. \A d \in Callers : pc[d] # "collect"
    BY <1>1, ControlAssumption DEF LockInv
  <2>2. \E how \in {"collect", "err"} : pc' = [pc EXCEPT ![c] = how]
    BY DEF Send
  <2> QED BY <1>2, <2>1, <2>2
<1>4. /\ \A i, j \in 1..Len(torIn') : i < j => torIn'[i] <= torIn'[j]
      /\ Asked' \subseteq Asked \cup {sent + 1}
  <2>1. CASE torIn' = torIn
    BY <2>1 DEF OrderInv, Asked
  <2>2. CASE torIn' = Append(torIn, sent + 1)
    <3>1. /\ Len(torIn) \in Nat /\ Len(torIn') = Len(torIn) + 1
          /\ \A i \in 1..Len(torIn') : \/ i \in 1..Len(torIn) /\ torIn'[i] = torIn[i]
                                       \/ i = Len(torIn) + 1 /\ torIn'[i] = sent + 1
      BY <1>2, <2>2
    <3>2. \A i \in 1..Len(torIn) : torIn[i] \in Asked /\ torIn[i] \in Nat
      BY OnTheWayType
    <3>3. \A i \in 1..Len(torIn) : torIn[i] <= sent + 1
      BY <1>2, <3>2 DEF OrderInv, NotAfter
    <3>4. Asked' \subseteq Asked \cup {sent + 1}
      BY <3>1 DEF Asked
    <3>5. ASSUME NEW i \in 1..Len(torIn'), NEW j \in 1..Len(torIn'), i < j
          PROVE  torIn'[i] <= torIn'[j]
      <4>1. i \in 1..Len(torIn)
        BY <3>1, <3>5
      <4>2. torIn'[i] = torIn[i]
        BY <3>1, <4>1
      <4>3. CASE j \in 1..Len(torIn) /\ torIn'[j] = torIn[j]
        <5>1. torIn[i] <= torIn[j]
          BY <3>5, <4>1, <4>3 DEF OrderInv
        <5> QED BY <4>2, <4>3, <5>1
      <4>4. CASE torIn'[j] = sent + 1
        BY <3>3, <4>1, <4>2, <4>4
      <4> QED BY <3>1, <4>3, <4>4
    <3> QED BY <3>4, <3>5
  <2> QED BY <2>1, <2>2 DEF Send
<1>5. Held' = Held /\ syncResp' = syncResp /\ wire' = wire
  BY <1>1 DEF Held, readerVars, isAsyncEvent
<1>6. CommandsOf(syncResp) \subseteq Nat /\ CommandsOf(wire) \subseteq Nat /\ Held \subseteq Nat /\ Asked \subseteq Nat
  BY OnTheWayType
<1>7. NotAfter(CommandsOf(syncResp) \cup Held \cup CommandsOf(wire) \cup Asked, {sent + 1})
  <2> DEFINE All == CommandsOf(syncResp) \cup Held \cup CommandsOf(wire) \cup Asked
  <2>1. NotAfter(All, {sent}) /\ All \subseteq Nat
    BY <1>6 DEF OrderInv
  <2> HIDE DEF All
  <2>2. NotAfter(All, {sent + 1})
    BY <1>2, <2>1 DEF NotAfter
  <2> QED BY <2>2 DEF All
<1>8. NotAfter({sent + 1}, {sent + 1})
  BY <1>2 DEF NotAfter
<1>9. \A d \in Callers : got'[d] = (IF d = c THEN <<>> ELSE got[d]) /\ cmd'[d] = IF d = c THEN sent + 1 ELSE cmd[d]
  BY <1>1, <1>2
<1>10. \A d \in Callers :
         OnlyReplies(got'[d]) /\ InOrder(got'[d]) /\ NotAfter(CommandsOf(got'[d]), {cmd'[d]})
  BY <1>9, CommandsOfType DEF OrderInv, NotAfter
<1>11. \A d \in Callers : pc'[d] = "collect" =>
         NotAfter(CommandsOf(got'[d]), CommandsOf(syncResp) \cup Held \cup CommandsOf(wire) \cup Asked')
  BY <1>3, <1>9, CommandsOfType DEF NotAfter
<1>12. /\ NotAfter(CommandsOf(wire), Asked')
       /\ NotAfter(Held, CommandsOf(wire) \cup Asked')
       /\ NotAfter(CommandsOf(syncResp), Held \cup CommandsOf(wire) \cup Asked')
       /\ NotAfter(CommandsOf(syncResp) \cup Held \cup CommandsOf(wire) \cup Asked', {sent + 1})
  <2> DEFINE S == CommandsOf(syncResp)
  <2> DEFINE W == CommandsOf(wire)
  <2>1. NotAfter(W, Asked) /\ NotAfter(Held, W \cup Asked) /\ NotAfter(S, Held \cup W \cup Asked)
    BY DEF OrderInv
  <2>2. NotAfter(S \cup Held \cup W \cup Asked, {sent + 1}) /\ Asked' \subseteq Asked \cup {sent + 1}
    BY <1>4, <1>7
  <2> HIDE DEF S, W
  <2>3. /\ NotAfter(W, Asked') /\ NotAfter(Held, W \cup Asked') /\ NotAfter(S, Held \cup W \cup Asked')
        /\ NotAfter(S \cup Held \cup W \cup Asked', {sent + 1})
    BY <1>8, <2>1, <2>2 DEF NotAfter
  <2> QED BY <2>3 DEF S, W
<1> QED
  <2>1. OnlyReplies(syncResp) /\ InOrder(syncResp) /\ InOrder(wire)
    BY DEF OrderInv
  <2> QED BY <1>1, <1>4, <1>5, <1>10, <1>11, <1>12, <2>1 DEF OrderInv

\* Whatever a caller collects, or gives up, keeps the order.
LEMMA CollectOrder ==
    ASSUME TypeInv, LockInv, OrderInv, NEW c \in Callers, Collect(c) PROVE OrderInv'
<1> DEFINE S == CommandsOf(syncResp)
           W == CommandsOf(wire)
           Rest == Held \cup W \cup Asked
<1>1. CASE CollectLine(c)
  <2>1. /\ pc[c] = "collect" /\ syncResp # <<>> /\ syncResp' = Tail(syncResp)
        /\ got' = [got EXCEPT ![c] = Append(got[c], Head(syncResp))]
        /\ UNCHANGED <<cmd, sent, readerVars, torVars, wire>>
    BY <1>1 DEF CollectLine
  <2>2. syncResp \in Seq(LineType) /\ got \in [Callers -> Seq(LineType)] /\ got[c] \in Seq(LineType)
        /\ cmd[c] = sent
    BY <2>1 DEF TypeInv, TypeOK, LockInv
  <2> DEFINE l == Head(syncResp)
             S2 == CommandsOf(Tail(syncResp))
             G == CommandsOf(got[c])
             G2 == CommandsOf(Append(got[c], l))
  <2>3. l \in LineType
    BY <2>1, <2>2, HeadTailProperties
  <2>4. OnlyReplies(got[c]) /\ InOrder(got[c]) /\ OnlyReplies(syncResp) /\ InOrder(syncResp)
    BY DEF OrderInv
  <2>5. /\ S2 \subseteq S /\ InOrder(Tail(syncResp)) /\ OnlyReplies(Tail(syncResp))
        /\ ~isAsyncEvent(l) /\ l.of \in S /\ NotAfter({l.of}, S2)
    BY <2>1, <2>2, <2>4, TakeFirst
  <2>6. NotAfter(G, S \cup Rest) /\ NotAfter(G, {sent}) /\ NotAfter(S, Rest) /\ NotAfter(S \cup Rest, {sent})
    <3>1. NotAfter(G, {cmd[c]})
      BY DEF OrderInv
    <3>2. NotAfter(G, S \cup Held \cup W \cup Asked) /\ NotAfter(S, Held \cup W \cup Asked)
          /\ NotAfter(S \cup Held \cup W \cup Asked, {sent})
      BY <2>1 DEF OrderInv
    <3>3. S \cup Rest = S \cup Held \cup W \cup Asked
      OBVIOUS
    <3> QED BY <2>2, <3>1, <3>2, <3>3
  <2>7. NotAfter(G, {l.of})
    BY <2>5, <2>6 DEF NotAfter
  <2>8. G2 \subseteq G \cup {l.of} /\ InOrder(Append(got[c], l)) /\ OnlyReplies(Append(got[c], l))
    BY <2>2, <2>3, <2>4, <2>5, <2>7, AddLine
  <2>9. NotAfter(G2, {sent}) /\ NotAfter(G2, S2 \cup Rest) /\ NotAfter(S2, Rest) /\ NotAfter(S2 \cup Rest, {sent})
    <3> HIDE DEF S, S2, G, G2, Rest, l
    <3> QED BY <2>5, <2>6, <2>8 DEF NotAfter
  <2>10. Held' = Held /\ wire' = wire /\ torIn' = torIn /\ Asked' = Asked
    BY <2>1 DEF Held, Asked, readerVars, torVars, isAsyncEvent
  <2>11. \A d \in Callers : got'[d] = IF d = c THEN Append(got[c], l) ELSE got[d]
    BY <2>1, <2>2
  <2>12. \A d \in Callers : pc'[d] = "collect" => d = c
    <3>1. \A d \in Callers : d # c => pc[d] # "collect"
      BY <2>1 DEF LockInv
    <3>2. pc' = pc \/ \E how \in {"ok", "err"} : pc' = [pc EXCEPT ![c] = how]
      BY <1>1 DEF CollectLine, Return
    <3>3. pc \in [Callers -> {"idle", "collect", "ok", "err"}]
      BY DEF TypeInv, TypeOK
    <3> QED BY <3>1, <3>2, <3>3
  <2> HIDE DEF l
  <2>13. \A d \in Callers :
           OnlyReplies(got'[d]) /\ InOrder(got'[d]) /\ NotAfter(CommandsOf(got'[d]), {cmd'[d]})
    BY <2>1, <2>2, <2>8, <2>9, <2>11 DEF OrderInv
  <2>14. \A d \in Callers : pc'[d] = "collect" =>
           NotAfter(CommandsOf(got'[d]), CommandsOf(syncResp') \cup Held' \cup CommandsOf(wire') \cup Asked')
    <3>1. S2 \cup Rest = CommandsOf(syncResp') \cup Held' \cup CommandsOf(wire') \cup Asked'
      BY <2>1, <2>10
    <3> QED BY <2>9, <2>11, <2>12, <3>1
  <2>15. /\ NotAfter(CommandsOf(syncResp'), Held' \cup CommandsOf(wire') \cup Asked')
         /\ NotAfter(CommandsOf(syncResp') \cup Held' \cup CommandsOf(wire') \cup Asked', {sent'})
    <3>1. S2 \cup Rest = CommandsOf(syncResp') \cup Held' \cup CommandsOf(wire') \cup Asked'
      BY <2>1, <2>10
    <3>2. Rest = Held' \cup CommandsOf(wire') \cup Asked' /\ S2 = CommandsOf(syncResp') /\ sent' = sent
      BY <2>1, <2>10
    <3> QED BY <2>9, <3>1, <3>2
  <2>16. /\ \A i, j \in 1..Len(torIn') : i < j => torIn'[i] <= torIn'[j]
         /\ NotAfter(CommandsOf(wire'), Asked') /\ InOrder(wire')
         /\ NotAfter(Held', CommandsOf(wire') \cup Asked')
    BY <2>10 DEF OrderInv
  <2>17. OnlyReplies(syncResp') /\ InOrder(syncResp')
    BY <2>1, <2>5
  <2> QED BY <2>13, <2>14, <2>15, <2>16, <2>17 DEF OrderInv
<1>2. CASE CollectClosed(c) \/ CollectTimeout(c)
  <2>1. /\ pc' = [pc EXCEPT ![c] = "err"]
        /\ UNCHANGED <<cmd, got, sent, readerVars, torVars, syncResp, wire>>
    BY <1>2 DEF CollectClosed, CollectTimeout, Return
  <2>2. Held' = Held /\ Asked' = Asked /\ UNCHANGED torIn
    BY <2>1 DEF Held, Asked, readerVars, torVars, isAsyncEvent
  <2>3. \A d \in Callers : pc'[d] = "collect" => pc[d] = "collect"
    BY <2>1 DEF TypeInv, TypeOK
  <2> QED BY <2>1, <2>2, <2>3 DEF OrderInv
<1> QED BY <1>1, <1>2 DEF Collect

\* A step that touches neither the callers nor what is on its way.
LEMMA SameOrder ==
    ASSUME OrderInv, UNCHANGED <<callVars, syncResp, wire, torIn>>, Held' = Held PROVE OrderInv'
  BY DEF OrderInv, callVars, Asked

\* The step of a line that readLoop takes from the wire, delivers or drops: what
\* it moves it leaves in order.
LEMMA ReaderOrder == ASSUME TypeInv, OrderInv, readLoop PROVE OrderInv'
<1> DEFINE S == CommandsOf(syncResp)
           W == CommandsOf(wire)
<1>1. /\ syncResp \in Seq(LineType) /\ wire \in Seq(LineType) /\ line \in LineType
      /\ UNCHANGED <<callVars, torIn>> /\ Asked' = Asked /\ UNCHANGED <<pc, cmd, got, sent>>
  BY DEF TypeInv, TypeOK, readLoop, ReaderCheck, ReaderRead, ReaderFailed, ReaderFailing,
         dispatchEvent, DispatchReply, torVars, callVars, Asked
<1>2. /\ OnlyReplies(syncResp) /\ InOrder(syncResp) /\ InOrder(wire)
      /\ NotAfter(W, Asked) /\ NotAfter(Held, W \cup Asked) /\ NotAfter(S, Held \cup W \cup Asked)
      /\ NotAfter(S \cup Held \cup W \cup Asked, {sent})
      /\ \A c \in Callers : pc[c] = "collect" =>
           NotAfter(CommandsOf(got[c]), S \cup Held \cup W \cup Asked)
  BY DEF OrderInv
<1>3. SUFFICES /\ OnlyReplies(syncResp') /\ InOrder(syncResp') /\ InOrder(wire')
               /\ NotAfter(CommandsOf(wire'), Asked) /\ NotAfter(Held', CommandsOf(wire') \cup Asked)
               /\ NotAfter(CommandsOf(syncResp'), Held' \cup CommandsOf(wire') \cup Asked)
               /\ CommandsOf(syncResp') \cup Held' \cup CommandsOf(wire') \cup Asked
                    \subseteq S \cup Held \cup W \cup Asked
  <2>1. NotAfter(CommandsOf(syncResp') \cup Held' \cup CommandsOf(wire') \cup Asked, {sent})
    BY <1>2, <1>3 DEF NotAfter
  <2>2. \A c \in Callers : pc[c] = "collect" =>
          NotAfter(CommandsOf(got[c]), CommandsOf(syncResp') \cup Held' \cup CommandsOf(wire') \cup Asked)
    BY <1>2, <1>3 DEF NotAfter
  <2> QED BY <1>1, <1>3, <2>1, <2>2 DEF OrderInv
<1>4. CASE ReaderCheck \/ ReaderFailed \/ ReaderFailing
  <2>1. Held = {} /\ Held' = {} /\ UNCHANGED <<syncResp, wire>>
    BY <1>4 DEF ReaderCheck, ReaderFailed, ReaderFailing, Held
  <2> QED BY <1>2, <2>1
<1>5. CASE ReaderRead
  <2>1. Held = {} /\ syncResp' = syncResp
    BY <1>5 DEF ReaderRead, Held
  <2>2. CASE wire # <<>> /\ line' = Head(wire) /\ wire' = Tail(wire)
    <3> DEFINE l == Head(wire)
               W2 == CommandsOf(Tail(wire))
    <3>1. W2 \subseteq W /\ InOrder(Tail(wire))
          /\ (~isAsyncEvent(l) => l.of \in W /\ NotAfter({l.of}, W2))
      BY <1>1, <1>2, <2>2, TakeFirst
    <3>2. Held' = IF reader' = "dispatch" /\ ~isAsyncEvent(l) THEN {l.of} ELSE {}
      BY <2>2 DEF Held, isAsyncEvent
    <3>3. NotAfter(W2, Asked) /\ NotAfter(Held', W2 \cup Asked) /\ NotAfter(S, Held' \cup W2 \cup Asked)
          /\ S \cup Held' \cup W2 \cup Asked \subseteq S \cup W \cup Asked
      <4> HIDE DEF S, W, W2, l
      <4> QED BY <1>2, <2>1, <3>1, <3>2 DEF NotAfter
    <3> QED BY <1>2, <2>1, <2>2, <3>1, <3>3
  <2>3. CASE reader' = "failed" /\ UNCHANGED <<line, wire>>
    <3>1. Held' = {}
      BY <2>3 DEF Held
    <3> QED BY <1>2, <2>1, <2>3, <3>1
  <2> QED BY <1>5, <2>2, <2>3 DEF ReaderRead
<1>6. CASE dispatchEvent
  <2>1. Held = {} /\ Held' = {} /\ UNCHANGED <<syncResp, wire>>
    BY <1>6 DEF dispatchEvent, Held
  <2> QED BY <1>2, <2>1
<1>7. CASE DispatchReply
  <2>1. Held = {line.of} /\ Held' = {} /\ wire' = wire /\ ~isAsyncEvent(line)
    BY <1>7 DEF DispatchReply, Held
  <2>2. CASE syncResp' = Append(syncResp, line)
    <3> DEFINE S2 == CommandsOf(Append(syncResp, line))
    <3>1. NotAfter(S, {line.of})
      BY <1>2, <2>1 DEF NotAfter
    <3>2. S2 \subseteq S \cup {line.of} /\ InOrder(Append(syncResp, line))
          /\ OnlyReplies(Append(syncResp, line))
      BY <1>1, <1>2, <2>1, <3>1, AddLine
    <3>3. NotAfter(S2, W \cup Asked) /\ S2 \cup W \cup Asked \subseteq S \cup Held \cup W \cup Asked
      <4> HIDE DEF S, W, S2
      <4> QED BY <1>2, <2>1, <3>2 DEF NotAfter
    <3>4. Held' \cup W \cup Asked = W \cup Asked /\ S2 \cup Held' \cup W \cup Asked = S2 \cup W \cup Asked
      BY <2>1
    <3>5. NotAfter(Held', W \cup Asked)
      BY <2>1 DEF NotAfter
    <3> QED BY <1>2, <2>1, <2>2, <3>2, <3>3, <3>4, <3>5
  <2>3. CASE UNCHANGED syncResp
    <3> HIDE DEF S, W
    <3>1. NotAfter(Held', W \cup Asked) /\ NotAfter(S, Held' \cup W \cup Asked)
          /\ S \cup Held' \cup W \cup Asked \subseteq S \cup Held \cup W \cup Asked
      BY <1>2, <2>1 DEF NotAfter
    <3> QED BY <1>2, <2>1, <2>3, <3>1 DEF S, W
  <2> QED BY <1>7, <2>2, <2>3 DEF DispatchReply
<1> QED BY <1>4, <1>5, <1>6, <1>7 DEF readLoop

\* Tor answers in the order of the commands, behind what it has sent.
LEMMA TorOrder == ASSUME TypeInv, OrderInv, TorReplies \/ TorEvent \/ TorGone PROVE OrderInv'
<1> DEFINE S == CommandsOf(syncResp)
           W == CommandsOf(wire)
<1>1. /\ wire \in Seq(LineType) /\ UNCHANGED callVars /\ syncResp' = syncResp /\ Held' = Held
  BY DEF TypeInv, TorReplies, TorEvent, TorGone, readerVars, Held, isAsyncEvent
<1>2. CASE TorReplies
  <2>1. PICK reply \in Replies : wire' = wire \o ReplyLines(Head(torIn), reply)
    BY <1>2 DEF TorReplies, ReplyLines
  <2>2. torIn # <<>> /\ torIn' = Tail(torIn) /\ torIn \in Seq(1..MaxCommands)
    BY <1>2 DEF TorReplies, TypeInv
  <2> DEFINE n == Head(torIn)
             r == ReplyLines(n, reply)
  <2>3. /\ Len(torIn) \in Nat \ {0} /\ n = torIn[1] /\ Len(torIn') = Len(torIn) - 1
        /\ \A i \in 1..Len(torIn') : torIn'[i] = torIn[i+1] /\ i + 1 \in 1..Len(torIn)
        /\ n \in 0..MaxCommands
    <3>1. Len(torIn) \in Nat \ {0} /\ n = torIn[1] /\ n \in 1..MaxCommands /\ Len(torIn') = Len(torIn) - 1
          /\ \A i \in 1..Len(torIn') : torIn'[i] = torIn[i+1]
      <4> DEFINE N == 1..MaxCommands
      <4>1. torIn \in Seq(N)
        BY <2>2
      <4> HIDE DEF N
      <4>2. Len(torIn) \in Nat \ {0} /\ n = torIn[1] /\ n \in N /\ Len(torIn') = Len(torIn) - 1
            /\ \A i \in 1..Len(torIn') : torIn'[i] = torIn[i+1]
        BY <2>2, <4>1, HeadTailProperties, EmptySeq
      <4> QED BY <4>2 DEF N
    <3> QED BY <3>1
  <2>4. /\ r \in Seq(LineType) /\ Len(r) \in Nat
        /\ \A i \in 1..Len(r) : r[i] = Line(n, reply[i]) /\ r[i].of = n
    <3>1. /\ r \in Seq(LineType) /\ Len(r) \in Nat
          /\ \A i \in 1..Len(r) : r[i] = Line(n, reply[i])
      BY <2>3, ReplyLinesType
    <3> QED BY <3>1 DEF Line
  <2>5. InOrder(r) /\ CommandsOf(r) \subseteq {n}
    <3>1. n <= n
      BY <2>3
    <3> HIDE DEF r, n
    <3> QED BY <2>4, <3>1 DEF InOrder, CommandsOf
  <2>6. n \in Asked /\ Asked' \subseteq Asked /\ NotAfter({n}, Asked')
    <3>1. 1 \in 1..Len(torIn) /\ \A i \in 1..Len(torIn') : 1 < i + 1
      BY <2>3
    <3>2. \A i \in 1..Len(torIn') : torIn[1] <= torIn'[i]
      BY <2>3, <3>1 DEF OrderInv
    <3> QED BY <2>3, <3>1, <3>2 DEF Asked, NotAfter
  <2> HIDE DEF r, n
  <2>7. /\ InOrder(wire) /\ NotAfter(W, Asked) /\ NotAfter(Held, W \cup Asked) /\ NotAfter(S, Held \cup W \cup Asked)
        /\ NotAfter(S \cup Held \cup W \cup Asked, {sent})
    BY DEF OrderInv
  <2>8. NotAfter(W, CommandsOf(r))
    BY <2>5, <2>6, <2>7 DEF NotAfter
  <2> DEFINE W2 == CommandsOf(wire \o r)
  <2>9. W2 \subseteq W \cup CommandsOf(r) /\ InOrder(wire \o r)
    BY <1>1, <2>4, <2>5, <2>7, <2>8, AddLast
  <2>10. W2 \subseteq W \cup {n}
    BY <2>5, <2>9
  <2>11. wire' = wire \o r
    BY <2>1 DEF r, n
  <2>12. /\ NotAfter(W2, Asked') /\ NotAfter(Held, W2 \cup Asked') /\ NotAfter(S, Held \cup W2 \cup Asked')
         /\ NotAfter(S \cup Held \cup W2 \cup Asked', {sent})
         /\ S \cup Held \cup W2 \cup Asked' \subseteq S \cup Held \cup W \cup Asked
    <3> HIDE DEF S, W, W2
    <3> QED BY <2>6, <2>7, <2>10 DEF NotAfter
  <2>13. \A i, j \in 1..Len(torIn') : i < j => torIn'[i] <= torIn'[j]
    <3>1. \A i, j \in 1..Len(torIn') : i < j => i + 1 < j + 1
      BY <2>3
    <3> QED BY <2>3, <3>1 DEF OrderInv
  <2>14. \A c \in Callers : pc[c] = "collect" =>
           NotAfter(CommandsOf(got[c]), S \cup Held \cup W2 \cup Asked')
    <3>1. \A c \in Callers : pc[c] = "collect" =>
            NotAfter(CommandsOf(got[c]), S \cup Held \cup W \cup Asked)
      BY DEF OrderInv
    <3> HIDE DEF S, W, W2
    <3> QED BY <2>12, <3>1 DEF NotAfter
  <2> QED BY <1>1, <2>9, <2>11, <2>12, <2>13, <2>14 DEF OrderInv, callVars
<1>3. CASE TorEvent
  <2> DEFINE l == Line(0, "event650")
  <2>1. l \in LineType /\ isAsyncEvent(l)
    BY Bounds DEF Line, LineType, Kinds, isAsyncEvent
  <2>2. wire' = Append(wire, l) /\ torIn' = torIn /\ Asked' = Asked
    BY <1>3 DEF TorEvent, Asked
  <2> HIDE DEF l
  <2> DEFINE W2 == CommandsOf(wire')
  <2>3. W2 \subseteq W /\ InOrder(wire')
    BY <1>1, <2>1, <2>2, AddLine DEF OrderInv
  <2>4. /\ NotAfter(W, Asked) /\ NotAfter(Held, W \cup Asked) /\ NotAfter(S, Held \cup W \cup Asked)
        /\ NotAfter(S \cup Held \cup W \cup Asked, {sent})
        /\ \A c \in Callers : pc[c] = "collect" =>
             NotAfter(CommandsOf(got[c]), S \cup Held \cup W \cup Asked)
    BY DEF OrderInv
  <2>5. /\ NotAfter(W2, Asked) /\ NotAfter(Held, W2 \cup Asked) /\ NotAfter(S, Held \cup W2 \cup Asked)
        /\ NotAfter(S \cup Held \cup W2 \cup Asked, {sent})
        /\ \A c \in Callers : pc[c] = "collect" =>
             NotAfter(CommandsOf(got[c]), S \cup Held \cup W2 \cup Asked)
    <3> HIDE DEF S, W, W2
    <3> QED BY <2>3, <2>4 DEF NotAfter
  <2> QED BY <1>1, <2>2, <2>3, <2>5 DEF OrderInv, callVars
<1>4. CASE TorGone
  BY <1>1, <1>4, SameOrder DEF TorGone
<1> QED BY <1>2, <1>3, <1>4

\* The mutex and the order of replies are always as they say.
LEMMA OrderInvariant == Spec => [](LockInv /\ OrderInv)
<1>1. Init => LockInv /\ OrderInv
  <2> SUFFICES ASSUME Init PROVE LockInv /\ OrderInv
    OBVIOUS
  <2>1. Held = {} /\ Asked = {}
    BY DEF Init, Held, Asked
  <2>2. CommandsOf(wire) = {} /\ CommandsOf(syncResp) = {} /\ \A c \in Callers : CommandsOf(got[c]) = {}
    BY CommandsOfType DEF Init
  <2>3. \A A, B : A = {} => NotAfter(A, B)
    BY DEF NotAfter
  <2>4. Len(torIn) = 0
    BY DEF Init
  <2>5. OnlyReplies(syncResp) /\ InOrder(syncResp) /\ InOrder(wire)
        /\ \A c \in Callers : OnlyReplies(got[c]) /\ InOrder(got[c])
    BY CommandsOfType DEF Init
  <2>6. CommandsOf(syncResp) \cup Held \cup CommandsOf(wire) \cup Asked = {}
    BY <2>1, <2>2
  <2>7. LockInv
    BY DEF Init, LockInv
  <2>8. \A c \in Callers :
          OnlyReplies(got[c]) /\ InOrder(got[c]) /\ NotAfter(CommandsOf(got[c]), {cmd[c]})
    BY <2>2, <2>3, <2>5
  <2>9. \A c \in Callers : pc[c] # "collect"
    BY DEF Init
  <2>10. /\ NotAfter(CommandsOf(wire), Asked) /\ NotAfter(Held, CommandsOf(wire) \cup Asked)
         /\ NotAfter(CommandsOf(syncResp), Held \cup CommandsOf(wire) \cup Asked)
         /\ NotAfter(CommandsOf(syncResp) \cup Held \cup CommandsOf(wire) \cup Asked, {sent})
    BY <2>1, <2>2, <2>6 DEF NotAfter
  <2>11. \A i, j \in 1..Len(torIn) : i < j => torIn[i] <= torIn[j]
    BY <2>4
  <2> QED BY <2>5, <2>7, <2>8, <2>9, <2>10, <2>11 DEF OrderInv
<1>2. TypeInv /\ LockInv /\ OrderInv /\ [Next]_vars => (LockInv /\ OrderInv)'
  <2> SUFFICES ASSUME TypeInv, LockInv, OrderInv, [Next]_vars PROVE (LockInv /\ OrderInv)'
    OBVIOUS
  <2>1. CASE UNCHANGED vars
    <3>1. Held' = Held /\ UNCHANGED <<callVars, syncResp, wire, torIn>>
      BY <2>1 DEF vars, readerVars, torVars, Held, isAsyncEvent
    <3> QED BY <3>1, SameOrder DEF LockInv, callVars
  <2>2. CASE Close
    <3>1. Held' = Held /\ UNCHANGED <<callVars, syncResp, wire, torIn>>
      BY <2>2 DEF Close, CloseCheck, CloseDone, CloseConn, readerVars, torVars, Held, isAsyncEvent
    <3> QED BY <3>1, SameOrder DEF LockInv, callVars
  <2> QED BY <2>1, <2>2, LockStep, SendOrder, CollectOrder, ReaderOrder, TorOrder DEF Next
<1> QED BY <1>1, <1>2, TypeInvariant, PTL DEF Spec

\* However often commands time out and whatever breaks, a command gets no line that
\* answers a later command, and its lines in the order in which Tor sent them.
THEOREM RepliesInOrder == Spec => []ReplyOrder
<1>1. TypeInv /\ OrderInv => ReplyOrder
  <2> SUFFICES ASSUME TypeInv, OrderInv, NEW c \in Callers
               PROVE  /\ \A i \in DOMAIN got[c] : got[c][i].of <= cmd[c]
                      /\ \A i, j \in DOMAIN got[c] : i < j => got[c][i].of <= got[c][j].of
    BY DEF ReplyOrder
  <2>1. got[c] \in Seq(LineType)
    BY DEF TypeInv, TypeOK
  <2>2. DOMAIN got[c] = 1..Len(got[c])
    BY <2>1, LenProperties
  <2>3. OnlyReplies(got[c]) /\ InOrder(got[c]) /\ NotAfter(CommandsOf(got[c]), {cmd[c]})
    BY DEF OrderInv
  <2>4. \A i \in 1..Len(got[c]) : got[c][i].of \in CommandsOf(got[c])
    BY <2>3 DEF CommandsOf, OnlyReplies
  <2> QED BY <2>2, <2>3, <2>4 DEF InOrder, OnlyReplies, NotAfter
<1> QED BY <1>1, TypeInvariant, OrderInvariant, PTL

-----------------------------------------------------------------------------
(* Each command gets its own reply *)

\* Every reply Tor gives ends with the line the client takes for its end, and no
\* line before it looks like one (no data line starts with a word of three
\* characters).
WellFramed ==
    \A reply \in Replies :
      /\ Len(reply) > 0
      /\ \A n \in Nat : \A i \in 1..Len(reply) : IsFinal(Line(n, reply[i])) <=> i = Len(reply)

\* A reply line is with readLoop.
Holding == reader = "dispatch" /\ ~isAsyncEvent(line)

\* No reply line is on its way to anybody.
Quiet ==
    /\ syncResp = <<>> /\ ~Holding
    /\ reader # "exited" => \A j \in 1..Len(wire) : isAsyncEvent(wire[j])

\* Of the reply r to command n the lines w hold, in one piece, what comes behind
\* its first p lines, with events before it and after it.
OnWire(w, n, r, p) ==
    \E a \in Nat :
      /\ a + (Len(r) - p) <= Len(w)
      /\ \A j \in 1..Len(w) :
           IF a < j /\ j <= a + (Len(r) - p) THEN w[j] = Line(n, r[p + (j - a)])
                                             ELSE isAsyncEvent(w[j])

\* How much of the reply to the command of c has left the wire.
Passed(c) == Len(got[c]) + Len(syncResp) + (IF Holding THEN 1 ELSE 0)

\* The reply r to the command of c, in pieces: what c has collected, what syncResp
\* holds, what readLoop holds, and what is on the wire.
Pieces(c, r) ==
    /\ Len(got[c]) < Len(r) /\ Passed(c) <= Len(r)
    /\ \A i \in 1..Len(got[c]) : got[c][i] = Line(sent, r[i])
    /\ \A i \in 1..Len(syncResp) : syncResp[i] = Line(sent, r[Len(got[c]) + i])
    /\ Holding => line = Line(sent, r[Passed(c)])
    /\ reader # "exited" => OnWire(wire, sent, r, Passed(c))

\* Tor has answered the command of c.
Replying(c) == answered[sent] \in Replies /\ Pieces(c, answered[sent])

\* Command numbers are used once: only the caller that holds the mutex has the last.
NumbersInv ==
    /\ \A c \in Callers : cmd[c] <= sent
    /\ \A c \in Callers : pc[c] = "collect" => \A d \in Callers \ {c} : cmd[d] < sent

\* Between commands everything is quiet; a command waits for Tor, or gets its reply.
Served ==
    /\ (\A c \in Callers : pc[c] # "collect") => torIn = <<>> /\ Quiet
    /\ \A c \in Callers : pc[c] = "collect" =>
         \/ torIn = <<sent>> /\ Quiet /\ got[c] = <<>>
         \/ torIn = <<>> /\ Replying(c)

\* So it is until a command is given up.
OwnInv == ~abandoned => OwnReply /\ Served

\* A command number is given out once.
LEMMA NumbersStep == ASSUME TypeInv, LockInv, NumbersInv, Next PROVE NumbersInv'
<1>1. CASE \E c \in Callers : Send(c)
  <2>1. PICK c \in Callers : Send(c)
    BY <1>1
  <2>2. /\ mu = NoCaller /\ sent' = sent + 1 /\ cmd' = [cmd EXCEPT ![c] = sent + 1]
        /\ \E how \in {"collect", "err"} : pc' = [pc EXCEPT ![c] = how]
    BY <2>1 DEF Send
  <2>3. \A d \in Callers : pc[d] # "collect"
    BY <2>2, ControlAssumption DEF LockInv
  <2>4. /\ pc \in [Callers -> {"idle", "collect", "ok", "err"}]
        /\ cmd \in [Callers -> 0..MaxCommands] /\ sent \in Nat
    BY Bounds DEF TypeInv, TypeOK
  <2>5. \A d \in Callers : cmd[d] <= sent /\ cmd[d] \in Nat
    BY <2>4, Bounds DEF NumbersInv
  <2>6. \A d \in Callers : /\ cmd'[d] <= sent' /\ (d # c => cmd'[d] < sent')
                           /\ (pc'[d] = "collect" => d = c)
    BY <2>2, <2>3, <2>4, <2>5
  <2> QED BY <2>6 DEF NumbersInv
<1>2. CASE \E c \in Callers : Collect(c)
  <2>1. PICK c \in Callers : Collect(c)
    BY <1>2
  <2>2. /\ UNCHANGED <<sent, cmd>>
        /\ \/ UNCHANGED <<pc, mu>>
           \/ \E how \in {"ok", "err"} : pc' = [pc EXCEPT ![c] = how]
    BY <2>1 DEF Collect, CollectLine, CollectClosed, CollectTimeout, Return
  <2>3. pc \in [Callers -> {"idle", "collect", "ok", "err"}]
    BY DEF TypeInv, TypeOK
  <2>4. \A d \in Callers : pc'[d] = "collect" => pc[d] = "collect"
    BY <2>2, <2>3
  <2> QED BY <2>2, <2>4 DEF NumbersInv
<1>3. CASE UNCHANGED callVars
  BY <1>3 DEF callVars, NumbersInv
<1>4. readLoop \/ Close \/ TorReplies \/ TorEvent \/ TorGone => UNCHANGED callVars
  BY DEF readLoop, ReaderCheck, ReaderRead, ReaderFailed, ReaderFailing, dispatchEvent, DispatchReply,
         Close, CloseCheck, CloseDone, CloseConn, TorReplies, TorEvent, TorGone
<1> QED BY <1>1, <1>2, <1>3, <1>4 DEF Next

\* The first line of the wire is an event, or the next line of the reply.
LEMMA WireHead ==
    ASSUME NEW w \in Seq(LineType), w # <<>>, NEW n, NEW r, Len(r) \in Nat, NEW p \in 0..Len(r),
           OnWire(w, n, r, p)
    PROVE  \/ isAsyncEvent(Head(w)) /\ OnWire(Tail(w), n, r, p)
           \/ p < Len(r) /\ Head(w) = Line(n, r[p + 1]) /\ OnWire(Tail(w), n, r, p + 1)
<1> HIDE DEF LineType
<1> DEFINE t == Tail(w)
<1>1. /\ Len(w) \in Nat \ {0} /\ Head(w) = w[1] /\ Len(t) = Len(w) - 1
      /\ \A i \in 1..Len(t) : t[i] = w[i + 1]
  BY HeadTailProperties, EmptySeq
<1>2. PICK a \in Nat :
        /\ a + (Len(r) - p) <= Len(w)
        /\ \A j \in 1..Len(w) :
             IF a < j /\ j <= a + (Len(r) - p) THEN w[j] = Line(n, r[p + (j - a)])
                                               ELSE isAsyncEvent(w[j])
  BY DEF OnWire
<1> HIDE DEF t
<1>3. 1 \in 1..Len(w) /\ \A j \in 1..Len(t) : j + 1 \in 1..Len(w)
  BY <1>1
<1>4. CASE a > 0
  <2>1. isAsyncEvent(Head(w))
    BY <1>1, <1>2, <1>3, <1>4
  <2>2. a - 1 \in Nat /\ (a - 1) + (Len(r) - p) <= Len(t)
    BY <1>1, <1>2, <1>4
  <2>3. ASSUME NEW j \in 1..Len(t)
        PROVE  IF a - 1 < j /\ j <= (a - 1) + (Len(r) - p) THEN t[j] = Line(n, r[p + (j - (a - 1))])
                                                           ELSE isAsyncEvent(t[j])
    <3>1. t[j] = w[j + 1] /\ j + 1 \in 1..Len(w) /\ p + ((j + 1) - a) = p + (j - (a - 1))
      BY <1>1, <1>3
    <3>2. (a - 1 < j /\ j <= (a - 1) + (Len(r) - p)) <=> (a < j + 1 /\ j + 1 <= a + (Len(r) - p))
      BY <1>2
    <3> QED BY <1>2, <3>1, <3>2
  <2>4. OnWire(t, n, r, p)
    BY <2>2, <2>3 DEF OnWire
  <2> QED BY <2>1, <2>4 DEF t
<1>5. CASE a = 0 /\ p = Len(r)
  <2>1. \A j \in 1..Len(w) : isAsyncEvent(w[j])
    BY <1>2, <1>5
  <2>2. 0 + (Len(r) - p) <= Len(t) /\ \A j \in 1..Len(t) : isAsyncEvent(t[j]) /\ ~(0 < j /\ j <= 0 + (Len(r) - p))
    BY <1>1, <1>3, <1>5, <2>1
  <2>3. OnWire(t, n, r, p)
    BY <2>2 DEF OnWire
  <2> QED BY <1>1, <1>3, <2>1, <2>3 DEF t
<1>6. CASE a = 0 /\ p < Len(r)
  <2>1. Head(w) = Line(n, r[p + 1])
    <3>1. 0 < 1 /\ 1 <= 0 + (Len(r) - p) /\ p + (1 - 0) = p + 1
      BY <1>6
    <3> QED BY <1>1, <1>2, <1>3, <1>6, <3>1
  <2>2. 0 + (Len(r) - (p + 1)) <= Len(t)
    BY <1>1, <1>2, <1>6
  <2>3. ASSUME NEW j \in 1..Len(t)
        PROVE  IF 0 < j /\ j <= 0 + (Len(r) - (p + 1)) THEN t[j] = Line(n, r[(p + 1) + (j - 0)])
                                                       ELSE isAsyncEvent(t[j])
    <3>1. t[j] = w[j + 1] /\ j + 1 \in 1..Len(w) /\ p + ((j + 1) - 0) = (p + 1) + (j - 0)
      BY <1>1, <1>3
    <3>2. (0 < j /\ j <= 0 + (Len(r) - (p + 1))) <=> (0 < j + 1 /\ j + 1 <= 0 + (Len(r) - p))
      BY <1>2
    <3> QED BY <1>2, <1>6, <3>1, <3>2
  <2>4. OnWire(t, n, r, p + 1)
    BY <2>2, <2>3 DEF OnWire
  <2> QED BY <1>6, <2>1, <2>4 DEF t
<1> QED BY <1>2, <1>4, <1>5, <1>6

\* An event sent behind the reply.
LEMMA WireEvent ==
    ASSUME NEW w \in Seq(LineType), NEW l \in LineType, isAsyncEvent(l), NEW n, NEW r,
           Len(r) \in Nat, NEW p \in 0..Len(r), OnWire(w, n, r, p)
    PROVE  OnWire(Append(w, l), n, r, p)
<1> HIDE DEF LineType
<1>1. PICK a \in Nat :
        /\ a + (Len(r) - p) <= Len(w)
        /\ \A j \in 1..Len(w) :
             IF a < j /\ j <= a + (Len(r) - p) THEN w[j] = Line(n, r[p + (j - a)])
                                               ELSE isAsyncEvent(w[j])
  BY DEF OnWire
<1> DEFINE u == Append(w, l)
<1>2. Len(w) \in Nat /\ Len(u) = Len(w) + 1 /\ u[Len(w) + 1] = l /\ \A j \in 1..Len(w) : u[j] = w[j]
  BY AppendProperties
<1> HIDE DEF u
<1>3. a + (Len(r) - p) <= Len(u)
  BY <1>1, <1>2
<1>4. ASSUME NEW j \in 1..Len(u)
      PROVE  IF a < j /\ j <= a + (Len(r) - p) THEN u[j] = Line(n, r[p + (j - a)])
                                               ELSE isAsyncEvent(u[j])
  <2>1. CASE j \in 1..Len(w)
    BY <1>1, <1>2, <2>1
  <2>2. CASE j = Len(w) + 1
    <3>1. ~(j <= a + (Len(r) - p))
      BY <1>1, <1>2, <2>2
    <3> QED BY <1>2, <2>2, <3>1
  <2> QED BY <1>2, <2>1, <2>2
<1> QED BY <1>3, <1>4 DEF OnWire, u

\* A reply sent when the wire holds events only.
LEMMA WireReply ==
    ASSUME NEW w \in Seq(LineType), \A j \in 1..Len(w) : isAsyncEvent(w[j]),
           NEW n \in 0..MaxCommands, NEW r \in Replies
    PROVE  OnWire(w \o ReplyLines(n, r), n, r, 0)
<1> HIDE DEF LineType
<1> DEFINE x == ReplyLines(n, r)
           u == w \o x
           a == Len(w)
<1>1. x \in Seq(LineType) /\ Len(x) = Len(r) /\ Len(r) \in Nat
      /\ \A i \in 1..Len(r) : x[i] = Line(n, r[i])
  BY ReplyLinesType
<1>2. /\ Len(w) \in Nat /\ Len(u) = Len(w) + Len(r)
      /\ \A i \in 1..Len(u) : u[i] = IF i <= Len(w) THEN w[i] ELSE x[i - Len(w)]
  <2> HIDE DEF x
  <2>1. /\ Len(w) \in Nat /\ Len(u) = Len(w) + Len(x)
        /\ \A i \in 1..Len(w) + Len(x) : u[i] = IF i <= Len(w) THEN w[i] ELSE x[i - Len(w)]
    <3>1. \A s1 \in Seq(LineType), s2 \in Seq(LineType) :
             /\ Len(s1 \o s2) = Len(s1) + Len(s2)
             /\ \A i \in 1..Len(s1) + Len(s2) : (s1 \o s2)[i] =
                  IF i <= Len(s1) THEN s1[i] ELSE s2[i - Len(s1)]
      BY ConcatProperties, Zenon
    <3> QED BY <1>1, <3>1, LenProperties
  <2> QED BY <1>1, <2>1
<1> HIDE DEF u, x
<1>3. a + (Len(r) - 0) <= Len(u)
  BY <1>1, <1>2
<1>4. ASSUME NEW j \in 1..Len(u)
      PROVE  IF a < j /\ j <= a + (Len(r) - 0) THEN u[j] = Line(n, r[0 + (j - a)])
                                               ELSE isAsyncEvent(u[j])
  <2>1. CASE j <= Len(w)
    <3>1. j \in 1..Len(w) /\ ~(a < j) /\ u[j] = w[j]
      BY <1>2, <2>1
    <3> QED BY <3>1
  <2>2. CASE j > Len(w)
    <3>1. u[j] = x[j - Len(w)] /\ j - Len(w) \in 1..Len(r) /\ 0 + (j - a) = j - Len(w)
      BY <1>1, <1>2, <2>2
    <3>2. a < j /\ j <= a + (Len(r) - 0)
      BY <1>1, <1>2, <2>2
    <3> QED BY <1>1, <3>1, <3>2
  <2> QED BY <1>2, <2>1, <2>2
<1>5. OnWire(u, n, r, 0)
  <2>1. a \in Nat
    BY <1>2
  <2> HIDE DEF a
  <2> QED BY <1>3, <1>4, <2>1 DEF OnWire
<1> QED BY <1>5 DEF u, x

\* Behind the end of a reply there are events only.
LEMMA WireDone ==
    ASSUME NEW w \in Seq(LineType), NEW n, NEW r, Len(r) \in Nat, OnWire(w, n, r, Len(r))
    PROVE  \A j \in 1..Len(w) : isAsyncEvent(w[j])
<1>1. PICK a \in Nat :
        \A j \in 1..Len(w) :
          IF a < j /\ j <= a + (Len(r) - Len(r)) THEN w[j] = Line(n, r[Len(r) + (j - a)])
                                                 ELSE isAsyncEvent(w[j])
  BY DEF OnWire
<1>2. \A j \in 1..Len(w) : ~(a < j /\ j <= a + (Len(r) - Len(r)))
  OBVIOUS
<1> QED BY <1>1, <1>2

\* What the client can tell of the lines of a reply.
LEMMA ReplyLine ==
    ASSUME WellFramed, NEW r \in Replies, NEW n \in 0..MaxCommands
    PROVE  /\ Len(r) \in Nat /\ Len(r) > 0 /\ DOMAIN r = 1..Len(r)
           /\ \A i \in 1..Len(r) : /\ ~isAsyncEvent(Line(n, r[i]))
                                   /\ IsFinal(Line(n, r[i])) <=> i = Len(r)
                                   /\ Line(n, r[i]).of = n /\ Line(n, r[i]).kind = r[i]
<1>1. Len(r) \in Nat /\ r \in Seq(Kinds) /\ \A i \in 1..Len(r) : r[i] \in Kinds \ {"event650"}
  BY ReplyLinesType
<1>2. DOMAIN r = 1..Len(r)
  <2> HIDE DEF Kinds
  <2> QED BY <1>1, LenProperties
<1>3. n \in Nat
  BY Bounds
<1>4. \A i \in 1..Len(r) : Line(n, r[i]).of = n /\ Line(n, r[i]).kind = r[i] /\ ~isAsyncEvent(Line(n, r[i]))
  BY <1>1 DEF Line, isAsyncEvent
<1> QED BY <1>1, <1>2, <1>3, <1>4 DEF WellFramed

\* The replies that callers have returned stay what they were.
LEMMA KeepsReply ==
    ASSUME OwnReply, ~abandoned,
           \A d \in Callers : pc'[d] = "ok" => /\ pc[d] = "ok" /\ got'[d] = got[d] /\ cmd'[d] = cmd[d]
                                              /\ answered'[cmd[d]] = answered[cmd[d]]
    PROVE  OwnReply'
<1> SUFFICES ASSUME NEW d \in Callers, pc'[d] = "ok"
             PROVE  /\ \A i \in DOMAIN got'[d] : got'[d][i].of = cmd'[d]
                    /\ [i \in DOMAIN got'[d] |-> got'[d][i].kind] = answered'[cmd'[d]]
  BY DEF OwnReply
<1>1. pc[d] = "ok" /\ got'[d] = got[d] /\ cmd'[d] = cmd[d] /\ answered'[cmd'[d]] = answered[cmd[d]]
  OBVIOUS
<1>2. /\ \A i \in DOMAIN got[d] : got[d][i].of = cmd[d]
      /\ [i \in DOMAIN got[d] |-> got[d][i].kind] = answered[cmd[d]]
  BY <1>1 DEF OwnReply
<1> QED BY <1>1, <1>2

\* Steps that leave the callers and Tor alone: it is enough to follow the lines.
LEMMA SameServed ==
    ASSUME OwnInv, UNCHANGED <<callVars, torIn, answered>>, Quiet => Quiet',
           \A c \in Callers : pc[c] = "collect" /\ Replying(c) => Replying(c)'
    PROVE  OwnInv'
<1>1. UNCHANGED <<pc, cmd, got, mu, sent, abandoned>>
  BY DEF callVars
<1>2. OwnReply => OwnReply'
  BY <1>1 DEF OwnReply
<1>3. Served => Served'
  BY <1>1 DEF Served
<1> QED BY <1>1, <1>2, <1>3 DEF OwnInv

\* A command is sent when the connection is quiet, so what follows is its reply.
LEMMA SendOwn ==
    ASSUME TypeInv, LockInv, OwnInv, NEW c \in Callers, Send(c) PROVE OwnInv'
<1> SUFFICES ASSUME ~abandoned PROVE OwnReply' /\ Served'
  BY DEF OwnInv, Send
<1>1. /\ mu = NoCaller /\ sent' = sent + 1 /\ cmd' = [cmd EXCEPT ![c] = sent + 1]
      /\ got' = [got EXCEPT ![c] = <<>>] /\ UNCHANGED <<abandoned, answered, readerVars, syncResp, wire>>
      /\ \/ pc' = [pc EXCEPT ![c] = "collect"] /\ torIn' = Append(torIn, sent + 1)
         \/ pc' = [pc EXCEPT ![c] = "err"] /\ torIn' = torIn
  BY DEF Send
<1>2. pc \in [Callers -> {"idle", "collect", "ok", "err"}] /\ cmd \in [Callers -> 0..MaxCommands]
      /\ got \in [Callers -> Seq(LineType)]
  BY DEF TypeInv, TypeOK
<1>3. \A d \in Callers : pc[d] # "collect"
  BY <1>1, ControlAssumption DEF LockInv
<1>4. torIn = <<>> /\ Quiet /\ OwnReply
  BY <1>3 DEF OwnInv, Served
<1>5. Quiet'
  BY <1>1, <1>4 DEF Quiet, Holding, isAsyncEvent, readerVars
<1>6. \A d \in Callers : d # c => pc'[d] = pc[d] /\ cmd'[d] = cmd[d] /\ got'[d] = got[d]
  BY <1>1, <1>2
<1>7. pc'[c] # "ok" /\ got'[c] = <<>>
  BY <1>1, <1>2
<1>8. OwnReply'
  <2>1. \A d \in Callers : pc'[d] = "ok" => /\ pc[d] = "ok" /\ got'[d] = got[d] /\ cmd'[d] = cmd[d]
                                             /\ answered'[cmd[d]] = answered[cmd[d]]
    BY <1>1, <1>6, <1>7
  <2> QED BY <1>4, <2>1, KeepsReply
<1>9. CASE pc' = [pc EXCEPT ![c] = "collect"] /\ torIn' = Append(torIn, sent + 1)
  <2>1. torIn' = <<sent'>>
    BY <1>1, <1>4, <1>9
  <2>2. pc'[c] = "collect" /\ \A d \in Callers : pc'[d] = "collect" => d = c
    BY <1>2, <1>3, <1>9
  <2> QED BY <1>5, <1>7, <1>8, <2>1, <2>2 DEF Served
<1>10. CASE pc' = [pc EXCEPT ![c] = "err"] /\ torIn' = torIn
  <2>1. \A d \in Callers : pc'[d] # "collect"
    BY <1>2, <1>3, <1>10
  <2> QED BY <1>4, <1>5, <1>8, <1>10, <2>1 DEF Served
<1> QED BY <1>1, <1>9, <1>10

\* A line that is not the last moves from syncResp to its caller; the last one
\* completes the reply, and nothing is left behind.
LEMMA CollectOwn ==
    ASSUME WellFramed, TypeInv, LockInv, OwnInv, NEW c \in Callers, Collect(c) PROVE OwnInv'
<1>1. CASE CollectClosed(c) \/ CollectTimeout(c)
  BY <1>1 DEF CollectClosed, CollectTimeout, OwnInv
<1>2. CASE CollectLine(c)
  <2> SUFFICES ASSUME ~abandoned PROVE OwnReply' /\ Served'
    BY <1>2 DEF OwnInv, CollectLine
  <2>1. /\ pc[c] = "collect" /\ syncResp # <<>> /\ syncResp' = Tail(syncResp)
        /\ got' = [got EXCEPT ![c] = Append(got[c], Head(syncResp))]
        /\ UNCHANGED <<cmd, sent, abandoned, reader, line, wire, torIn, answered>>
    BY <1>2 DEF CollectLine, readerVars, torVars
  <2>2. /\ syncResp \in Seq(LineType) /\ got \in [Callers -> Seq(LineType)] /\ got[c] \in Seq(LineType)
        /\ pc \in [Callers -> {"idle", "collect", "ok", "err"}] /\ sent \in 0..MaxCommands
        /\ wire \in Seq(LineType)
    BY DEF TypeInv, TypeOK
  <2>3. cmd[c] = sent /\ \A d \in Callers : d # c => pc[d] # "collect"
    BY <2>1 DEF LockInv
  <2>4. OwnReply /\ torIn = <<>> /\ Replying(c)
    BY <2>1 DEF OwnInv, Served, Quiet
  <2> DEFINE r == answered[sent]
             g == Len(got[c])
             s == Len(syncResp)
             h == IF Holding THEN 1 ELSE 0
             l == Head(syncResp)
             G == Append(got[c], l)
             T == Tail(syncResp)
  <2>5. r \in Replies /\ Pieces(c, r)
    BY <2>4 DEF Replying
  <2>6. /\ Len(r) \in Nat /\ DOMAIN r = 1..Len(r)
        /\ \A i \in 1..Len(r) : /\ IsFinal(Line(sent, r[i])) <=> i = Len(r)
                                /\ Line(sent, r[i]).of = sent /\ Line(sent, r[i]).kind = r[i]
    BY <2>2, <2>5, ReplyLine
  <2>7. /\ g \in Nat /\ s \in Nat \ {0} /\ l \in LineType /\ l = syncResp[1]
        /\ Len(T) = s - 1 /\ \A i \in 1..Len(T) : T[i] = syncResp[i + 1]
        /\ G \in Seq(LineType) /\ Len(G) = g + 1 /\ G[g + 1] = l /\ \A i \in 1..g : G[i] = got[c][i]
    <3> HIDE DEF LineType
    <3>1. g \in Nat /\ s \in Nat \ {0} /\ l \in LineType /\ l = syncResp[1]
      BY <2>1, <2>2, HeadTailProperties, EmptySeq
    <3>2. Len(T) = s - 1 /\ \A i \in 1..Len(T) : T[i] = syncResp[i + 1]
      BY <2>1, <2>2, HeadTailProperties
    <3> HIDE DEF l
    <3>3. G \in Seq(LineType) /\ Len(G) = g + 1 /\ G[g + 1] = l /\ \A i \in 1..g : G[i] = got[c][i]
      BY <2>2, <3>1, AppendProperties
    <3> QED BY <3>1, <3>2, <3>3
  <2>8. h \in {0, 1} /\ Passed(c) = g + s + h
    BY DEF Passed
  <2>9. /\ g + s + h <= Len(r) /\ g + 1 <= Len(r)
        /\ \A i \in 1..g : got[c][i] = Line(sent, r[i])
        /\ \A i \in 1..s : syncResp[i] = Line(sent, r[g + i])
        /\ Holding => line = Line(sent, r[g + s + h])
        /\ reader # "exited" => OnWire(wire, sent, r, g + s + h)
    <3>1. g < Len(r) /\ Passed(c) <= Len(r)
      BY <2>5 DEF Pieces
    <3>2. g + 1 <= Len(r)
      BY <2>6, <2>7, <3>1
    <3>3. /\ \A i \in 1..g : got[c][i] = Line(sent, r[i])
          /\ \A i \in 1..s : syncResp[i] = Line(sent, r[g + i])
          /\ Holding => line = Line(sent, r[Passed(c)])
          /\ reader # "exited" => OnWire(wire, sent, r, Passed(c))
      BY <2>5 DEF Pieces
    <3> QED BY <2>8, <3>1, <3>2, <3>3
  <2>10. Holding' = Holding /\ got'[c] = G /\ syncResp' = T
         /\ \A d \in Callers : d # c => got'[d] = got[d]
    BY <2>1, <2>2 DEF Holding, isAsyncEvent
  <2> HIDE DEF r, g, s, h, l, G, T
  <2>11. /\ g \in Nat /\ s \in Nat /\ s > 0 /\ h \in Nat /\ Len(r) \in Nat
         /\ Len(T) = s - 1 /\ Len(G) = g + 1 /\ g + s + h <= Len(r) /\ g + 1 <= Len(r)
    <3>1. g \in Nat /\ s \in Nat \ {0} /\ Len(T) = s - 1 /\ Len(G) = g + 1
      BY <2>7
    <3>2. h \in {0, 1}
      BY <2>8
    <3>3. Len(r) \in Nat
      BY <2>6
    <3>4. g + s + h <= Len(r) /\ g + 1 <= Len(r)
      BY <2>9
    <3> QED BY <3>1, <3>2, <3>3, <3>4
  <2>12. l = Line(sent, r[g + 1]) /\ g + 1 \in 1..Len(r)
    <3>1. 1 \in 1..s /\ g + 1 \in 1..Len(r)
      BY <2>11
    <3> QED BY <2>7, <2>9, <3>1
  <2>13. \A i \in 1..Len(G) : G[i] = Line(sent, r[i])
    BY <2>7, <2>9, <2>12
  <2>14. IsFinal(l) <=> g + 1 = Len(r)
    BY <2>6, <2>12
  <2>15. CASE ~IsFinal(l)
    <3>1. UNCHANGED pc
      BY <1>2, <2>15 DEF CollectLine, l
    <3>2. OwnReply'
      <4>1. \A d \in Callers : pc'[d] = "ok" => /\ pc[d] = "ok" /\ got'[d] = got[d] /\ cmd'[d] = cmd[d]
                                                 /\ answered'[cmd[d]] = answered[cmd[d]]
        BY <2>1, <2>10, <3>1
      <4> QED BY <2>4, <4>1, KeepsReply
    <3>3. Passed(c)' = Len(G) + Len(T) + h
      BY <2>10 DEF Passed, h
    <3>4. Passed(c)' = g + s + h /\ Len(G) < Len(r)
      BY <2>14, <2>15, <2>11, <3>3
    <3>5. \A i \in 1..Len(T) : T[i] = Line(sent, r[Len(G) + i])
      <4>1. \A i \in 1..Len(T) : i + 1 \in 1..s /\ g + (i + 1) = Len(G) + i
        BY <2>11
      <4> QED BY <2>7, <2>9, <4>1
    <3>6. Replying(c)'
      <4>1. r' = r /\ answered'[sent'] = r
        BY <2>1 DEF r
      <4>2. Pieces(c, r)'
        BY <2>1, <2>9, <2>10, <2>13, <3>4, <3>5, <4>1 DEF Pieces
      <4> QED BY <2>5, <4>1, <4>2 DEF Replying, r
    <3> QED BY <2>1, <2>3, <2>4, <3>1, <3>2, <3>6 DEF Served
  <2>16. CASE IsFinal(l)
    <3>1. pc' = [pc EXCEPT ![c] = IF IsError(l) THEN "err" ELSE "ok"]
      BY <1>2, <2>16 DEF CollectLine, Return, l
    <3>2. pc'[c] # "collect" /\ \A d \in Callers : d # c => pc'[d] = pc[d]
      BY <2>2, <3>1
    <3>3. Len(G) = Len(r) /\ s = 1 /\ h = 0 /\ g + s + h = Len(r)
      BY <2>14, <2>16, <2>11
    <3>4. Quiet'
      <4>1. ~Holding
        BY <3>3 DEF h
      <4>2. T = <<>>
        <5> HIDE DEF LineType
        <5>1. T \in Seq(LineType) /\ Len(T) = 0
          BY <2>1, <2>2, <2>7, <3>3, HeadTailProperties DEF T
        <5> QED BY <5>1, EmptySeq
      <4>3. reader # "exited" => \A j \in 1..Len(wire) : isAsyncEvent(wire[j])
        <5>1. reader # "exited" => OnWire(wire, sent, r, Len(r))
          BY <2>9, <3>3
        <5> HIDE DEF LineType
        <5> QED BY <2>2, <2>11, <5>1, WireDone
      <4> QED BY <2>1, <2>10, <4>1, <4>2, <4>3 DEF Quiet
    <3>5. DOMAIN G = 1..Len(G) /\ \A i \in DOMAIN G : G[i].of = sent /\ G[i].kind = r[i]
      <4>1. DOMAIN G = 1..Len(G)
        <5> HIDE DEF LineType
        <5> QED BY <2>7, LenProperties
      <4> QED BY <2>6, <2>13, <3>3, <4>1
    <3>6. [i \in DOMAIN G |-> G[i].kind] = r
      <4>1. r = [i \in 1..Len(r) |-> r[i]]
        <5>1. r \in Seq(Kinds)
          BY <2>2, <2>5, ReplyLinesType
        <5> HIDE DEF Kinds
        <5> QED BY <2>6, <5>1, LenProperties
      <4> QED BY <3>3, <3>5, <4>1
    <3>7. OwnReply'
      <4> SUFFICES ASSUME NEW d \in Callers, pc'[d] = "ok"
                   PROVE  /\ \A i \in DOMAIN got'[d] : got'[d][i].of = cmd'[d]
                          /\ [i \in DOMAIN got'[d] |-> got'[d][i].kind] = answered'[cmd'[d]]
        BY DEF OwnReply
      <4>1. CASE d = c
        <5>1. got'[d] = G /\ cmd'[d] = sent /\ answered'[cmd'[d]] = r
          BY <2>1, <2>3, <2>10, <4>1 DEF r
        <5> QED BY <3>5, <3>6, <5>1
      <4>2. CASE d # c
        <5>1. pc[d] = "ok" /\ got'[d] = got[d] /\ cmd'[d] = cmd[d] /\ answered' = answered
          BY <2>1, <2>10, <3>2, <4>2
        <5> QED BY <2>4, <5>1 DEF OwnReply
      <4> QED BY <4>1, <4>2
    <3> QED BY <2>1, <2>3, <2>4, <3>2, <3>4, <3>7 DEF Served
  <2> QED BY <2>15, <2>16
<1> QED BY <1>1, <1>2 DEF Collect

\* A line goes from the wire through readLoop to syncResp; events fall out.
LEMMA ReaderOwn ==
    ASSUME WellFramed, TypeInv, OwnInv, readLoop PROVE OwnInv'
<1>1. /\ syncResp \in Seq(LineType) /\ wire \in Seq(LineType) /\ got \in [Callers -> Seq(LineType)]
      /\ sent \in 0..MaxCommands
  BY DEF TypeInv, TypeOK
<1>2. UNCHANGED <<callVars, torIn, answered>> /\ UNCHANGED <<got, sent>>
  BY DEF readLoop, ReaderCheck, ReaderRead, ReaderFailed, ReaderFailing,
         dispatchEvent, DispatchReply, torVars, callVars
<1>3. CASE ReaderCheck \/ ReaderFailed \/ ReaderFailing \/ dispatchEvent
  <2>1. ~Holding /\ ~Holding' /\ reader # "exited" /\ UNCHANGED <<syncResp, wire>>
    BY <1>3 DEF ReaderCheck, ReaderFailed, ReaderFailing, dispatchEvent, Holding
  <2>2. Quiet => Quiet'
    BY <2>1 DEF Quiet
  <2>3. ASSUME NEW c \in Callers, Replying(c) PROVE Replying(c)'
    <3>1. Passed(c)' = Passed(c)
      BY <1>2, <2>1 DEF Passed
    <3> QED BY <1>2, <2>1, <2>3, <3>1 DEF Replying, Pieces
  <2> QED BY <1>2, <2>2, <2>3, SameServed
<1>4. CASE ReaderRead
  <2>1. ~Holding /\ reader = "read" /\ syncResp' = syncResp
    BY <1>4 DEF ReaderRead, Holding
  <2>2. CASE reader' = "failed" /\ UNCHANGED <<line, wire>>
    <3>1. ~Holding'
      BY <2>2 DEF Holding
    <3>2. Quiet => Quiet'
      BY <2>1, <2>2, <3>1 DEF Quiet
    <3>3. ASSUME NEW c \in Callers, Replying(c) PROVE Replying(c)'
      <4>1. Passed(c)' = Passed(c)
        BY <1>2, <2>1, <3>1 DEF Passed
      <4> QED BY <1>2, <2>1, <2>2, <3>1, <3>3, <4>1 DEF Replying, Pieces
    <3> QED BY <1>2, <3>2, <3>3, SameServed
  <2>3. CASE wire # <<>> /\ line' = Head(wire) /\ wire' = Tail(wire) /\ reader' = "dispatch"
    <3>1. Holding' <=> ~isAsyncEvent(Head(wire))
      BY <2>3 DEF Holding, isAsyncEvent
    <3>2. ASSUME Quiet PROVE Quiet'
      <4>1. \A j \in 1..Len(wire) : isAsyncEvent(wire[j])
        BY <2>1, <3>2 DEF Quiet
      <4>2. /\ Len(wire) \in Nat \ {0} /\ Head(wire) = wire[1] /\ Len(wire') = Len(wire) - 1
            /\ \A i \in 1..Len(wire') : wire'[i] = wire[i + 1]
        <5> HIDE DEF LineType
        <5> QED BY <1>1, <2>3, HeadTailProperties, EmptySeq
      <4>3. 1 \in 1..Len(wire) /\ \A i \in 1..Len(wire') : i + 1 \in 1..Len(wire)
        BY <4>2
      <4> QED BY <2>1, <3>1, <3>2, <4>1, <4>2, <4>3 DEF Quiet
    <3>3. ASSUME NEW c \in Callers, Replying(c) PROVE Replying(c)'
      <4> DEFINE r == answered[sent]
                 p == Len(got[c]) + Len(syncResp)
      <4>1. r \in Replies /\ Pieces(c, r) /\ Passed(c) = p
        BY <2>1, <3>3 DEF Replying, Passed
      <4>2. /\ Len(r) \in Nat
            /\ \A i \in 1..Len(r) : ~isAsyncEvent(Line(sent, r[i]))
        BY <1>1, <4>1, ReplyLine
      <4>3. p \in Nat
        <5> HIDE DEF LineType
        <5> QED BY <1>1
      <4>4. /\ Len(got[c]) < Len(r) /\ p <= Len(r)
            /\ \A i \in 1..Len(got[c]) : got[c][i] = Line(sent, r[i])
            /\ \A i \in 1..Len(syncResp) : syncResp[i] = Line(sent, r[Len(got[c]) + i])
            /\ OnWire(wire, sent, r, p)
        BY <2>1, <4>1 DEF Pieces
      <4>5. answered'[sent'] = r /\ got'[c] = got[c] /\ sent' = sent
        BY <1>2
      <4> HIDE DEF r
      <4>6. p \in 0..Len(r)
        <5>1. Len(r) \in Nat /\ p <= Len(r)
          BY <4>2, <4>4
        <5> HIDE DEF p
        <5> QED BY <4>3, <5>1
      <4>7. CASE isAsyncEvent(Head(wire)) /\ OnWire(Tail(wire), sent, r, p)
        <5>1. Passed(c)' = p /\ ~Holding'
          <6>1. ~Holding'
            BY <3>1, <4>7
          <6>2. Passed(c)' = Len(got'[c]) + Len(syncResp') + 0
            BY <6>1 DEF Passed
          <6>3. Len(got'[c]) + Len(syncResp') = p
            BY <2>1, <4>5
          <6> QED BY <4>3, <6>1, <6>2, <6>3
        <5>2. Pieces(c, r)'
          <6>1. r' = r
            BY <1>2 DEF r
          <6> QED BY <2>1, <2>3, <4>4, <4>5, <4>7, <5>1, <6>1 DEF Pieces
        <5> QED BY <4>1, <4>5, <5>2 DEF Replying, r
      <4>8. CASE p < Len(r) /\ Head(wire) = Line(sent, r[p + 1]) /\ OnWire(Tail(wire), sent, r, p + 1)
        <5>1. p + 1 \in 1..Len(r)
          <6> HIDE DEF p
          <6>1. Len(r) \in Nat
            BY <4>2
          <6> QED BY <4>3, <4>8, <6>1
        <5>2. Holding'
          BY <3>1, <4>2, <4>8, <5>1
        <5>3. Passed(c)' = p + 1
          BY <1>2, <2>1, <5>2 DEF Passed
        <5>4. Pieces(c, r)'
          <6>1. r' = r
            BY <1>2 DEF r
          <6>2. p + 1 <= Len(r)
            BY <5>1
          <6> HIDE DEF p
          <6> QED BY <2>1, <2>3, <4>4, <4>5, <4>8, <5>2, <5>3, <6>1, <6>2 DEF Pieces
        <5> QED BY <4>1, <4>5, <5>4 DEF Replying, r
      <4>9. \/ isAsyncEvent(Head(wire)) /\ OnWire(Tail(wire), sent, r, p)
            \/ p < Len(r) /\ Head(wire) = Line(sent, r[p + 1]) /\ OnWire(Tail(wire), sent, r, p + 1)
        <5> HIDE DEF p, LineType
        <5> QED BY <1>1, <2>3, <4>2, <4>4, <4>6, WireHead
      <4> QED BY <4>7, <4>8, <4>9
    <3> QED BY <1>2, <3>2, <3>3, SameServed
  <2> QED BY <1>4, <2>2, <2>3 DEF ReaderRead
<1>5. CASE DispatchReply
  <2>1. Holding /\ reader = "dispatch" /\ ~Holding' /\ wire' = wire /\ line' = line
    BY <1>5 DEF DispatchReply, Holding
  <2>2. ~Quiet
    BY <2>1 DEF Quiet
  <2>3. ASSUME NEW c \in Callers, Replying(c) PROVE Replying(c)'
    <3> DEFINE r == answered[sent]
               g == Len(got[c])
               s == Len(syncResp)
    <3>1. r \in Replies /\ Pieces(c, r) /\ Passed(c) = g + s + 1
      BY <2>1, <2>3 DEF Replying, Passed
    <3>2. g \in Nat /\ s \in Nat
      <4> HIDE DEF LineType
      <4> QED BY <1>1
    <3>3. /\ g < Len(r) /\ g + s + 1 <= Len(r) /\ Len(r) \in Nat
          /\ \A i \in 1..g : got[c][i] = Line(sent, r[i])
          /\ \A i \in 1..s : syncResp[i] = Line(sent, r[g + i])
          /\ line = Line(sent, r[g + s + 1]) /\ OnWire(wire, sent, r, g + s + 1)
      BY <1>1, <2>1, <3>1, ReplyLine DEF Pieces
    <3>4. answered'[sent'] = r /\ r' = r /\ got'[c] = got[c] /\ sent' = sent
      BY <1>2
    <3>5. CASE syncResp' = Append(syncResp, line) /\ reader' = "check"
      <4>1. /\ Len(syncResp') = s + 1 /\ syncResp'[s + 1] = line
            /\ \A i \in 1..s : syncResp'[i] = syncResp[i]
        <5>1. line \in LineType
          BY DEF TypeInv
        <5> HIDE DEF LineType
        <5> QED BY <1>1, <3>5, <5>1, AppendProperties
      <4>2. Passed(c)' = g + s + 1
        <5>1. Passed(c)' = Len(got'[c]) + Len(syncResp') + 0
          BY <2>1 DEF Passed
        <5>2. Len(got'[c]) = g /\ Len(syncResp') = s + 1
          BY <3>4, <4>1
        <5> HIDE DEF g, s
        <5> QED BY <3>2, <5>1, <5>2
      <4> HIDE DEF r, g, s
      <4>3. ASSUME NEW i \in 1..(s + 1) PROVE syncResp'[i] = Line(sent, r[g + i])
        <5>1. CASE i \in 1..s
          BY <3>3, <4>1, <5>1
        <5>2. CASE i = s + 1
          <6>1. g + i = g + s + 1
            BY <3>2, <5>2
          <6> QED BY <3>3, <4>1, <5>2, <6>1
        <5> QED BY <3>2, <5>1, <5>2
      <4>4. Pieces(c, r)'
        BY <2>1, <3>3, <3>4, <3>5, <4>1, <4>2, <4>3 DEF Pieces, g
      <4> QED BY <3>1, <3>4, <4>4 DEF Replying, r
    <3>6. CASE UNCHANGED syncResp /\ reader' = "exited"
      <4>1. Passed(c)' = g + s
        <5>1. Passed(c)' = Len(got'[c]) + Len(syncResp') + 0
          BY <2>1 DEF Passed
        <5> QED BY <3>2, <3>4, <3>6, <5>1
      <4>2. g + s <= Len(r)
        <5>1. g + s + 1 <= Len(r) /\ Len(r) \in Nat
          BY <3>3
        <5> QED BY <3>2, <5>1
      <4> HIDE DEF r
      <4>3. Pieces(c, r)'
        BY <2>1, <3>3, <3>4, <3>6, <4>1, <4>2 DEF Pieces
      <4> QED BY <3>1, <3>4, <4>3 DEF Replying, r
    <3> QED BY <1>5, <3>5, <3>6 DEF DispatchReply
  <2> QED BY <1>2, <2>2, <2>3, SameServed
<1> QED BY <1>3, <1>4, <1>5 DEF readLoop

\* Tor answers the one command that is out, when nothing else is on its way.
LEMMA TorOwn ==
    ASSUME WellFramed, TypeInv, LockInv, NumbersInv, OwnInv, TorReplies \/ TorEvent \/ TorGone
    PROVE  OwnInv'
<1>1. /\ syncResp \in Seq(LineType) /\ wire \in Seq(LineType) /\ got \in [Callers -> Seq(LineType)]
      /\ sent \in 0..MaxCommands /\ torIn \in Seq(1..MaxCommands) /\ cmd \in [Callers -> 0..MaxCommands]
      /\ answered \in [1..MaxCommands -> Seq(Kinds)]
  BY DEF TypeInv, TypeOK
<1>2. UNCHANGED <<callVars, reader, line, syncResp>> /\ UNCHANGED <<pc, cmd, got, sent, abandoned>>
      /\ Holding' = Holding
  BY DEF TorReplies, TorEvent, TorGone, readerVars, callVars, Holding, isAsyncEvent
<1>3. CASE TorReplies
  <2> SUFFICES ASSUME ~abandoned PROVE OwnReply' /\ Served'
    BY <1>2 DEF OwnInv
  <2>1. torIn # <<>> /\ torIn' = Tail(torIn)
    BY <1>3 DEF TorReplies
  <2>2. PICK c \in Callers : pc[c] = "collect"
    BY <2>1 DEF OwnInv, Served
  <2>3. torIn = <<sent>> /\ Quiet /\ got[c] = <<>> /\ OwnReply
    BY <2>1, <2>2 DEF OwnInv, Served
  <2>4. Head(torIn) = sent /\ torIn' = <<>> /\ sent \in 1..MaxCommands
    <3>1. Head(torIn) = sent /\ torIn' = <<>> /\ Len(torIn) = 1 /\ torIn[1] = sent
      BY <2>1, <2>3
    <3>2. torIn[1] \in 1..MaxCommands
      BY <3>1, OnTheWayType
    <3> QED BY <3>1, <3>2
  <2>5. PICK reply \in Replies :
          wire' = wire \o ReplyLines(sent, reply) /\ answered' = [answered EXCEPT ![sent] = reply]
    BY <1>3, <2>4 DEF TorReplies, ReplyLines
  <2>6. answered'[sent'] = reply /\ \A n \in 1..MaxCommands : n # sent => answered'[n] = answered[n]
    BY <1>1, <1>2, <2>4, <2>5
  <2>7. \A d \in Callers : pc[d] = "collect" => d = c
    BY <2>2 DEF LockInv
  <2>8. OwnReply'
    <3>1. ASSUME NEW d \in Callers, pc'[d] = "ok"
          PROVE  pc[d] = "ok" /\ got'[d] = got[d] /\ cmd'[d] = cmd[d] /\ answered'[cmd[d]] = answered[cmd[d]]
      <4>1. pc[d] = "ok" /\ d # c
        BY <1>2, <2>2, <3>1
      <4>2. cmd[d] < sent
        BY <2>2, <4>1 DEF NumbersInv
      <4>3. cmd[d] # sent
        BY <1>1, <4>2
      <4>4. answered'[cmd[d]] = answered[cmd[d]]
        <5>1. CASE cmd[d] \in 1..MaxCommands
          BY <2>6, <4>3, <5>1
        <5>2. CASE cmd[d] \notin 1..MaxCommands
          BY <1>1, <2>5, <4>3, <5>2
        <5> QED BY <5>1, <5>2
      <4> QED BY <1>2, <4>1, <4>4
    <3> QED BY <2>3, <3>1, KeepsReply
  <2>9. Replying(c)'
    <3>1. Len(reply) \in Nat /\ Len(reply) > 0
      BY <1>1, ReplyLine
    <3>2. syncResp = <<>> /\ ~Holding /\ (reader # "exited" => \A j \in 1..Len(wire) : isAsyncEvent(wire[j]))
      BY <2>3 DEF Quiet
    <3>3. reader # "exited" => OnWire(wire', sent, reply, 0)
      <4> HIDE DEF LineType
      <4> QED BY <1>1, <2>5, <3>2, WireReply
    <3>4. Len(got'[c]) = 0 /\ Len(syncResp') = 0 /\ ~Holding' /\ sent' = sent /\ reader' = reader
      BY <1>2, <2>3, <3>2
    <3>5. Passed(c)' = 0
      <4>1. Passed(c)' = Len(got'[c]) + Len(syncResp') + 0
        BY <3>4 DEF Passed
      <4> QED BY <3>4, <4>1
    <3> DEFINE r == answered[sent]
    <3>6. r' = reply
      BY <2>6
    <3>7. /\ Len(got'[c]) < Len(reply) /\ Passed(c)' <= Len(reply)
          /\ \A i \in 1..Len(got'[c]) : got'[c][i] = Line(sent', reply[i])
          /\ \A i \in 1..Len(syncResp') : syncResp'[i] = Line(sent', reply[Len(got'[c]) + i])
          /\ Holding' => line' = Line(sent', reply[Passed(c)'])
          /\ reader' # "exited" => OnWire(wire', sent', reply, Passed(c)')
      BY <3>1, <3>3, <3>4, <3>5
    <3>8. Pieces(c, r)'
      <4> HIDE DEF r
      <4> QED BY <3>6, <3>7 DEF Pieces
    <3> QED BY <2>5, <3>6, <3>8 DEF Replying
  <2> QED BY <1>2, <2>2, <2>4, <2>7, <2>8, <2>9 DEF Served
<1>4. CASE TorEvent
  <2> DEFINE l == Line(0, "event650")
  <2>1. l \in LineType /\ isAsyncEvent(l)
    BY Bounds DEF Line, LineType, Kinds, isAsyncEvent
  <2>2. wire' = Append(wire, l) /\ UNCHANGED <<torIn, answered>>
    BY <1>4 DEF TorEvent
  <2> HIDE DEF l, LineType
  <2>3. Quiet => Quiet'
    <3>1. /\ Len(wire) \in Nat /\ Len(wire') = Len(wire) + 1 /\ wire'[Len(wire) + 1] = l
          /\ \A j \in 1..Len(wire) : wire'[j] = wire[j]
      BY <1>1, <2>1, <2>2, AppendProperties
    <3>2. \A j \in 1..Len(wire') : j \in 1..Len(wire) \/ j = Len(wire) + 1
      BY <3>1
    <3> QED BY <1>2, <2>1, <3>1, <3>2 DEF Quiet
  <2>4. ASSUME NEW c \in Callers, Replying(c) PROVE Replying(c)'
    <3> DEFINE r == answered[sent]
    <3>1. r \in Replies /\ Pieces(c, r) /\ Len(r) \in Nat
      BY <1>1, <2>4, ReplyLine DEF Replying
    <3>2. Passed(c)' = Passed(c)
      BY <1>2 DEF Passed
    <3>3. Passed(c) \in 0..Len(r)
      <4>1. Passed(c) <= Len(r)
        BY <3>1 DEF Pieces
      <4>2. Len(got[c]) \in Nat /\ Len(syncResp) \in Nat
        BY <1>1
      <4>3. Passed(c) \in Nat
        <5>1. Passed(c) = Len(got[c]) + Len(syncResp) + 1 \/ Passed(c) = Len(got[c]) + Len(syncResp) + 0
          BY DEF Passed
        <5> QED BY <4>2, <5>1
      <4> QED BY <3>1, <4>1, <4>3
    <3>4. OnWire(wire, sent, r, Passed(c)) => OnWire(wire', sent, r, Passed(c))
      <4> HIDE DEF r
      <4> QED BY <1>1, <2>1, <2>2, <3>1, <3>3, WireEvent
    <3>5. answered'[sent'] = r /\ r' = r /\ got'[c] = got[c] /\ sent' = sent
          /\ UNCHANGED <<reader, line, syncResp>>
      BY <1>2, <2>2
    <3>6. Pieces(c, r)'
      <4> HIDE DEF r
      <4> QED BY <1>2, <3>1, <3>2, <3>4, <3>5 DEF Pieces
    <3> QED BY <3>1, <3>5, <3>6 DEF Replying
  <2> QED BY <1>2, <2>2, <2>3, <2>4, SameServed
<1>5. CASE TorGone
  <2>1. UNCHANGED <<wire, torIn, answered>>
    BY <1>5 DEF TorGone
  <2>2. Quiet => Quiet'
    BY <1>2, <2>1 DEF Quiet
  <2>3. \A c \in Callers : Replying(c) => Replying(c)'
    BY <1>2, <2>1 DEF Replying, Pieces, Passed
  <2> QED BY <1>2, <2>1, <2>2, <2>3, SameServed
<1> QED BY <1>3, <1>4, <1>5

\* If every reply ends where the client takes it to end, then as long as no command
\* is given up each one that succeeds gets exactly the reply Tor gave to it, with any
\* number of goroutines and of events, and whatever the capacity of the channels.
THEOREM OwnReplyOnly == WellFramed => (Spec => []OwnReply)
<1> SUFFICES ASSUME WellFramed PROVE Spec => []OwnReply
  OBVIOUS
<1>1. Init => NumbersInv /\ OwnInv
  <2> SUFFICES ASSUME Init PROVE NumbersInv /\ OwnInv
    OBVIOUS
  <2>1. \A c \in Callers : pc[c] = "idle" /\ cmd[c] <= sent
    <3>1. pc = [c \in Callers |-> "idle"] /\ cmd = [c \in Callers |-> 0] /\ sent = 0
      BY DEF Init
    <3>2. 0 <= 0
      OBVIOUS
    <3> QED BY <3>1, <3>2, Zenon
  <2>2. Quiet
    BY DEF Init, Quiet, Holding
  <2>3. torIn = <<>>
    BY DEF Init
  <2> QED BY <2>1, <2>2, <2>3 DEF NumbersInv, OwnInv, OwnReply, Served
<1>2. TypeInv /\ LockInv /\ NumbersInv /\ OwnInv /\ [Next]_vars => (NumbersInv /\ OwnInv)'
  <2> SUFFICES ASSUME TypeInv, LockInv, NumbersInv, OwnInv, [Next]_vars PROVE (NumbersInv /\ OwnInv)'
    OBVIOUS
  <2>1. CASE UNCHANGED <<callVars, readerVars, torVars, syncResp, wire>>
    <3>1. /\ UNCHANGED <<callVars, torIn, answered>> /\ UNCHANGED <<got, sent, reader, line, syncResp, wire>>
          /\ Holding' = Holding
      BY <2>1 DEF callVars, readerVars, torVars, Holding, isAsyncEvent
    <3>2. Quiet => Quiet'
      BY <3>1 DEF Quiet
    <3>3. \A c \in Callers : Replying(c) => Replying(c)'
      BY <3>1 DEF Replying, Pieces, Passed
    <3> QED BY <3>1, <3>2, <3>3, SameServed DEF callVars, NumbersInv
  <2>2. UNCHANGED vars \/ Close => UNCHANGED <<callVars, readerVars, torVars, syncResp, wire>>
    BY DEF vars, Close, CloseCheck, CloseDone, CloseConn
  <2> QED BY <2>1, <2>2, NumbersStep, SendOwn, CollectOwn, ReaderOwn, TorOwn DEF Next
<1>3. NumbersInv /\ OwnInv => OwnReply
  BY DEF OwnInv, OwnReply
<1> QED BY <1>1, <1>2, <1>3, TypeInvariant, OrderInvariant, PTL DEF Spec

=============================================================================
