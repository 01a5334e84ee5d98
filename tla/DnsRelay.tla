------------------------------ MODULE DnsRelay -------------------------------
(***************************************************************************)
(* The Android app's DnsRelay (dns/DnsRelay.kt): a coroutine for every DNS *)
(* query read from the tunnel, at most MAX_CONCURRENT_QUERIES of which are *)
(* at work, and one datagram socket to Tor's DNSPort that they all share.  *)
(* The coroutines block in send and receive; nothing cancels a blocked     *)
(* one.                                                                    *)
(*                                                                         *)
(* A query stands for its packet and its coroutine, a response for the     *)
(* query it answers, and a socket for the coroutine that created it (a     *)
(* coroutine calls getOrCreateSocket once).                                *)
(***************************************************************************)
EXTENDS Integers, Sequences, FiniteSets

CONSTANTS
    Queries,        \* the DNS packets of the apps
    TxId,           \* the transaction ID of a query, chosen by its app
    Short,          \* the queries of less than two bytes
    MaxConcurrent,  \* MAX_CONCURRENT_QUERIES (32 in the code)
    MayFail         \* whether the system calls may fail

None == "none"

ASSUME DnsAssumption ==
    /\ None \notin Queries
    /\ IsFiniteSet(Queries)
    /\ Short \subseteq Queries
    /\ MaxConcurrent \in Nat \ {0}
    /\ MayFail \in BOOLEAN

VARIABLES
    pc,        \* per query: where its coroutine is
    answer,    \* per query: the response written to the tunnel, or to be written
    outcome,   \* history, per query: how it ended
    permits,   \* concurrencyLimit
    sock,      \* persistentSocket
    opened,    \* the sockets ever created
    closed,    \* the sockets that have been closed
    mine,      \* per query: the socket its coroutine uses
    inbox,     \* per socket: the datagrams it has received
    resolver,  \* the queries on their way to the resolver or back
    stop       \* stop(): "no", "cancelled" (the scope is), "done"

vars == <<pc, answer, outcome, permits, sock, opened, closed, mine, inbox, resolver, stop>>
socketVars == <<sock, opened, closed>>

Working == {"acquired", "send", "receive", "write"}
Outcomes == {None, "answered", "mismatch", "failed"}

\* The coroutines that hold a permit of concurrencyLimit.
Holders == {q \in Queries : pc[q] \in Working}

TypeOK ==
    /\ pc \in [Queries -> {"new", "launched", "done"} \cup Working]
    /\ answer \in [Queries -> Queries \cup {None}]
    /\ outcome \in [Queries -> Outcomes]
    /\ permits \in 0 .. MaxConcurrent
    /\ sock \in Queries \cup {None}
    /\ opened \subseteq Queries
    /\ closed \subseteq opened
    /\ mine \in [Queries -> Queries \cup {None}]
    /\ inbox \in [Queries -> Seq(Queries)]
    /\ resolver \subseteq Queries
    /\ stop \in {"no", "cancelled", "done"}

Init ==
    /\ pc = [q \in Queries |-> "new"]
    /\ answer = [q \in Queries |-> None]
    /\ outcome = [q \in Queries |-> None]
    /\ permits = MaxConcurrent
    /\ sock = None
    /\ opened = {}
    /\ closed = {}
    /\ mine = [q \in Queries |-> None]
    /\ inbox = [q \in Queries |-> <<>>]
    /\ resolver = {}
    /\ stop = "no"

-----------------------------------------------------------------------------
\* The coroutine of q moves on.
Goto(q, from, to) ==
    /\ pc[q] = from
    /\ pc' = [pc EXCEPT ![q] = to]

\* It ends without a permit.
End(q, from, how) ==
    /\ Goto(q, from, "done")
    /\ outcome' = [outcome EXCEPT ![q] = how]
    /\ UNCHANGED permits

\* It ends, and its finally block returns the permit.
Release(q, from, how) ==
    /\ Goto(q, from, "done")
    /\ outcome' = [outcome EXCEPT ![q] = how]
    /\ permits' = permits + 1

\* Mutant: the socket is forgotten but not closed.
MutInvalidateSocket ==
    /\ sock' = None
    /\ UNCHANGED <<opened, closed>>

\* invalidateSocket: whichever socket is the current one, it is closed.
invalidateSocket ==
    /\ closed' = closed \cup (opened \cap {sock})
    /\ sock' = None
    /\ UNCHANGED opened

\* handlePacket: on a cancelled scope launch starts nothing.
HandlePacket(q) ==
    /\ IF stop = "no" THEN Goto(q, "new", "launched") /\ UNCHANGED <<outcome, permits>>
                      ELSE End(q, "new", "failed")
    /\ UNCHANGED <<answer, socketVars, mine, inbox, resolver, stop>>

\* The coroutine starts, and gives up at once if there is no permit.
Acquire(q) ==
    /\ stop = "no"
    /\ \/ /\ permits > 0
          /\ Goto(q, "launched", "acquired")
          /\ permits' = permits - 1
          /\ UNCHANGED outcome
       \/ /\ permits = 0
          /\ End(q, "launched", "failed")
    /\ UNCHANGED <<answer, socketVars, mine, inbox, resolver, stop>>

\* Mutant: a coroutine that has not started returns a permit.
MutCancelled(q) ==
    /\ stop # "no"
    /\ Release(q, "launched", "failed")
    /\ UNCHANGED <<answer, socketVars, mine, inbox, resolver, stop>>

\* A coroutine that has not started is cancelled with its scope.
Cancelled(q) ==
    /\ stop # "no"
    /\ End(q, "launched", "failed")
    /\ UNCHANGED <<answer, socketVars, mine, inbox, resolver, stop>>

\* The query is too short to contain a transaction ID.
TooShort(q) ==
    /\ q \in Short
    /\ Release(q, "acquired", "failed")
    /\ UNCHANGED <<answer, socketVars, mine, inbox, resolver, stop>>

\* getOrCreateSocket, called whether or not the relay has been stopped.
getOrCreateSocket(q) ==
    /\ q \notin Short
    /\ Goto(q, "acquired", "send")
    /\ IF sock = None \/ sock \in closed
         THEN /\ opened' = opened \cup {q}
              /\ sock' = q
         ELSE UNCHANGED <<opened, sock>>
    /\ mine' = [mine EXCEPT ![q] = sock']
    /\ UNCHANGED <<answer, outcome, permits, closed, inbox, resolver, stop>>

\* The socket cannot be created.
CreateFails(q) ==
    /\ MayFail /\ q \notin Short
    /\ sock = None \/ sock \in closed
    /\ Release(q, "acquired", "failed")
    /\ invalidateSocket
    /\ UNCHANGED <<answer, mine, inbox, resolver, stop>>

Send(q) ==
    /\ Goto(q, "send", "receive")
    /\ mine[q] \notin closed
    /\ resolver' = resolver \cup {q}
    /\ UNCHANGED <<answer, outcome, permits, socketVars, mine, inbox, stop>>

\* The resolver's address is unknown: no SocketException, the socket stays.
SendFails(q) ==
    /\ MayFail
    /\ Release(q, "send", "failed")
    /\ UNCHANGED <<answer, socketVars, mine, inbox, resolver, stop>>

\* The network is unreachable: SocketException, for everybody's socket.
Unreachable(q) ==
    /\ MayFail
    /\ mine[q] \notin closed
    /\ Release(q, "send", "failed")
    /\ invalidateSocket
    /\ UNCHANGED <<answer, mine, inbox, resolver, stop>>

\* Somebody has closed the socket under send or receive: SocketException.
SocketClosed(q) ==
    /\ mine[q] \in closed
    /\ \E from \in {"send", "receive"} : Release(q, from, "failed")
    /\ invalidateSocket
    /\ UNCHANGED <<answer, mine, inbox, resolver, stop>>

\* Mutant: receive is called on persistentSocket, whichever it is by now.
MutReceive(q) ==
    /\ sock # None /\ sock \notin closed
    /\ pc[q] = "receive"
    /\ inbox[sock] # <<>>
    /\ LET r == Head(inbox[sock]) IN
         IF TxId[r] = TxId[q]
           THEN /\ Goto(q, "receive", "write")
                /\ answer' = [answer EXCEPT ![q] = r]
                /\ UNCHANGED <<outcome, permits>>
           ELSE /\ Release(q, "receive", "mismatch")
                /\ UNCHANGED answer
    /\ inbox' = [inbox EXCEPT ![sock] = Tail(@)]
    /\ UNCHANGED <<socketVars, mine, resolver, stop>>

\* receive takes the oldest datagram, whichever coroutine it is for, and the
\* transaction ID decides.
Receive(q) ==
    /\ mine[q] \notin closed
    /\ pc[q] = "receive"
    /\ inbox[mine[q]] # <<>>
    /\ LET r == Head(inbox[mine[q]]) IN
         IF TxId[r] = TxId[q]
           THEN /\ Goto(q, "receive", "write")
                /\ answer' = [answer EXCEPT ![q] = r]
                /\ UNCHANGED <<outcome, permits>>
           ELSE /\ Release(q, "receive", "mismatch")
                /\ UNCHANGED answer
    /\ inbox' = [inbox EXCEPT ![mine[q]] = Tail(@)]
    /\ UNCHANGED <<socketVars, mine, resolver, stop>>

\* Mutant: a timeout returns before the finally block.
MutTimeout(q) ==
    /\ mine[q] \notin closed
    /\ pc[q] = "receive"
    /\ inbox[mine[q]] = <<>>
    /\ End(q, "receive", "failed")
    /\ UNCHANGED <<answer, socketVars, mine, inbox, resolver, stop>>

\* Mutant: the socket has no timeout.
MutTimeoutNever(q) == FALSE /\ UNCHANGED vars

\* The socket's timeout: nothing has arrived for DNS_TIMEOUT_MS.
Timeout(q) ==
    /\ mine[q] \notin closed
    /\ pc[q] = "receive"
    /\ inbox[mine[q]] = <<>>
    /\ Release(q, "receive", "failed")
    /\ UNCHANGED <<answer, socketVars, mine, inbox, resolver, stop>>

Write(q) ==
    /\ Release(q, "write", "answered")
    /\ UNCHANGED <<answer, socketVars, mine, inbox, resolver, stop>>

\* The tunnel is closed, or the wait for its mutex is cancelled.
WriteFails(q) ==
    /\ stop # "no"
    /\ Release(q, "write", "failed")
    /\ UNCHANGED <<answer, socketVars, mine, inbox, resolver, stop>>

forwardDnsQuery(q) ==
    \/ TooShort(q) \/ getOrCreateSocket(q) \/ CreateFails(q)
    \/ Send(q) \/ SendFails(q) \/ Unreachable(q) \/ SocketClosed(q)
    \/ Receive(q) \/ Timeout(q)

Coroutine(q) ==
    \/ Acquire(q) \/ Cancelled(q)
    \/ forwardDnsQuery(q)
    \/ Write(q) \/ WriteFails(q)

\* The resolver answers, in any order; a closed socket receives nothing.
Resolver(q) ==
    /\ q \in resolver
    /\ resolver' = resolver \ {q}
    /\ inbox' = IF mine[q] \in closed THEN inbox
                ELSE [inbox EXCEPT ![mine[q]] = Append(@, q)]
    /\ UNCHANGED <<pc, answer, outcome, permits, socketVars, mine, stop>>

\* The query or its response is lost.
Lost(q) ==
    /\ q \in resolver
    /\ resolver' = resolver \ {q}
    /\ UNCHANGED <<pc, answer, outcome, permits, socketVars, mine, inbox, stop>>

\* stop(): first the scope is cancelled, then the socket is closed.
StopScope ==
    /\ stop = "no"
    /\ stop' = "cancelled"
    /\ UNCHANGED <<pc, answer, outcome, permits, socketVars, mine, inbox, resolver>>

StopSocket ==
    /\ stop = "cancelled"
    /\ stop' = "done"
    /\ invalidateSocket
    /\ UNCHANGED <<pc, answer, outcome, permits, mine, inbox, resolver>>

Next ==
    \/ \E q \in Queries : HandlePacket(q) \/ Coroutine(q) \/ Resolver(q) \/ Lost(q)
    \/ StopScope \/ StopSocket

Spec == Init /\ [][Next]_vars

\* Coroutines run and the socket's timer fires; neither an app nor the
\* resolver is relied on.
FairSpec == Spec /\ \A q \in Queries : WF_vars(Coroutine(q))

-----------------------------------------------------------------------------
(* Properties. *)

\* Any coroutine may take any datagram from the socket they share, so a query
\* fails on a foreign response or is given that of a query with its ID
\* (DnsRelay.kt:155-164). But the harm stays within the socket and is done once
\* per response: for each query so spoiled, another that used the same socket
\* goes without its own response, and none is spoiled by what a discarded
\* socket received or by a response that has also reached its own query.
CrossTalk ==
    \A q \in Queries :
        outcome[q] = "mismatch" \/ answer[q] \notin {None, q} =>
            \E r \in Queries \ {q} : mine[r] = mine[q] /\ answer[r] # r

\* No way out of a coroutine, timeouts, exceptions and cancellation included,
\* loses a permit of concurrencyLimit or returns it twice (DnsRelay.kt:87-105).
PermitsConserved == permits + Cardinality(Holders) = MaxConcurrent

\* Only the current socket is open, whatever coroutines create, invalidate and
\* stop at the same time: those that were replaced are not leaked
\* (DnsRelay.kt:114-135).
OneOpenSocket == opened \ closed \subseteq {sock}

\* A coroutine that has started ends, even if the resolver never answers or
\* another coroutine takes its response (DnsRelay.kt:120).
QueriesEnd == \A q \in Queries : pc[q] \in Working ~> pc[q] = "done"

-----------------------------------------------------------------------------
(* Claims of the code that TLC refutes. *)

\* "Timeout does not invalidate the socket -- it can still be reused"
\* (DnsRelay.kt:183): no query is failed by the late response to another when
\* its own reaches the socket as well.
ReusableAfterTimeout ==
    \A q \in Queries :
        outcome[q] = "mismatch" =>
            \A i \in 1 .. Len(inbox[mine[q]]) : inbox[mine[q]][i] # q

\* "Cancel all in-flight DNS queries and close the persistent socket"
\* (DnsRelay.kt:63): a coroutine that holds a permit creates another socket
\* after stop().
StopClosesSocket == stop = "done" => opened \subseteq closed
=============================================================================
