--------------------------- MODULE DnsRelayProofs ----------------------------
(***************************************************************************)
(* Theorems about DnsRelay, for every finite set of queries, assignment of *)
(* transaction IDs and number of permits.                                  *)
(***************************************************************************)
EXTENDS DnsRelay, FiniteSetTheorems, TLAPS

-----------------------------------------------------------------------------
(* The inductive invariant *)

\* What the coroutines and the resolver know of the sockets: a coroutine has
\* created none before getOrCreateSocket, and uses one that exists after it.
SocketInv ==
    /\ sock # None => sock \in opened
    /\ \A q \in Queries :
        /\ pc[q] \in {"new", "launched", "acquired"} => q \notin opened
        /\ pc[q] \in {"send", "receive"} \/ q \in resolver => mine[q] \in opened

IInv == TypeOK /\ PermitsConserved /\ OneOpenSocket /\ SocketInv

-----------------------------------------------------------------------------
(* Permits *)

\* A sub-collection of the queries has a cardinality.
LEMMA HoldersFinite == IsFiniteSet(Holders) /\ Cardinality(Holders) \in Nat
<1>1. Holders \subseteq Queries
  BY DEF Holders
<1> QED BY <1>1, DnsAssumption, FS_Subset, FS_CardinalityType

\* A coroutine that neither gets nor returns a permit does not change the count.
LEMMA MoveKeepsPermits ==
    ASSUME TypeOK, PermitsConserved, NEW q \in Queries, NEW from, NEW to,
           Goto(q, from, to), UNCHANGED permits, from \in Working <=> to \in Working
    PROVE  PermitsConserved'
<1>1. Holders' = Holders
  BY DEF Holders, Goto, TypeOK
<1> QED BY <1>1 DEF PermitsConserved

\* The finally block returns exactly the permit its coroutine holds.
LEMMA ReleaseConserves ==
    ASSUME TypeOK, PermitsConserved, NEW q \in Queries, NEW from \in Working,
           NEW how \in Outcomes, Release(q, from, how)
    PROVE  /\ PermitsConserved'
           /\ permits' \in 0 .. MaxConcurrent
           /\ pc' = [pc EXCEPT ![q] = "done"]
           /\ outcome' \in [Queries -> Outcomes]
<1>1. q \in Holders /\ Holders' = Holders \ {q}
  BY DEF Holders, Release, Goto, TypeOK, Working
<1>2. Cardinality(Holders') = Cardinality(Holders) - 1
  BY <1>1, HoldersFinite, FS_RemoveElement
<1>3. Cardinality(Holders') \in Nat
  BY <1>1, HoldersFinite, FS_RemoveElement, FS_CardinalityType
<1>4. permits' = permits + 1
  BY DEF Release
<1> QED BY <1>2, <1>3, <1>4, HoldersFinite, DnsAssumption DEF PermitsConserved, TypeOK, Release, Goto

\* A coroutine that gets a permit takes it from the count.
LEMMA AcquireConserves ==
    ASSUME TypeOK, PermitsConserved, NEW q \in Queries, permits > 0,
           Goto(q, "launched", "acquired"), permits' = permits - 1
    PROVE  PermitsConserved' /\ permits' \in 0 .. MaxConcurrent
<1>1. q \notin Holders /\ Holders' = Holders \cup {q}
  BY DEF Holders, Goto, TypeOK, Working
<1>2. Cardinality(Holders') = Cardinality(Holders) + 1
  BY <1>1, HoldersFinite, FS_AddElement
<1> QED BY <1>2, HoldersFinite, DnsAssumption DEF PermitsConserved, TypeOK

-----------------------------------------------------------------------------
(* Sockets *)

\* invalidateSocket leaves no socket open.
LEMMA InvalidateFacts ==
    ASSUME IInv, invalidateSocket
    PROVE  /\ opened' = opened /\ closed' \subseteq opened /\ closed \subseteq closed'
           /\ sock' = None
           /\ OneOpenSocket'
  BY DEF IInv, TypeOK, OneOpenSocket, SocketInv, invalidateSocket

-----------------------------------------------------------------------------
(* Steps *)

\* The steps that end a coroutine which holds a permit, and touch no socket.
Ends(q) == TooShort(q) \/ SendFails(q) \/ Timeout(q) \/ Write(q) \/ WriteFails(q)

\* The steps that end it and discard the socket.
Breaks(q) == CreateFails(q) \/ Unreachable(q) \/ SocketClosed(q)

\* Whichever way a coroutine ends with the socket left alone (DnsRelay.kt:99-105,
\* 142, 152, 182), IInv is kept.
LEMMA EndsStep == ASSUME IInv, NEW q \in Queries, Ends(q) PROVE IInv'
<1>1. \E from \in Working, how \in Outcomes : Release(q, from, how)
  BY DEF Ends, TooShort, SendFails, Timeout, Write, WriteFails, Working, Outcomes
<1>2. UNCHANGED <<answer, sock, opened, closed, mine, inbox, resolver, stop>>
  BY DEF Ends, TooShort, SendFails, Timeout, Write, WriteFails, socketVars
<1>3. PermitsConserved' /\ permits' \in 0 .. MaxConcurrent
      /\ pc' = [pc EXCEPT ![q] = "done"] /\ outcome' \in [Queries -> Outcomes]
  BY <1>1, ReleaseConserves DEF IInv
<1>4. TypeOK'
  BY <1>2, <1>3 DEF IInv, TypeOK
<1>5. OneOpenSocket' /\ SocketInv'
  BY <1>2, <1>3 DEF IInv, TypeOK, OneOpenSocket, SocketInv
<1> QED BY <1>3, <1>4, <1>5 DEF IInv

\* So it is by a coroutine that ends with invalidateSocket (DnsRelay.kt:144-149,
\* 179-181).
LEMMA BreaksStep == ASSUME IInv, NEW q \in Queries, Breaks(q) PROVE IInv'
<1>1. \E from \in Working, how \in Outcomes : Release(q, from, how)
  BY DEF Breaks, CreateFails, Unreachable, SocketClosed, Working, Outcomes
<1>2. UNCHANGED <<answer, mine, inbox, resolver, stop>> /\ invalidateSocket
  BY DEF Breaks, CreateFails, Unreachable, SocketClosed
<1>3. PermitsConserved' /\ permits' \in 0 .. MaxConcurrent
      /\ pc' = [pc EXCEPT ![q] = "done"] /\ outcome' \in [Queries -> Outcomes]
  BY <1>1, ReleaseConserves DEF IInv
<1>4. /\ opened' = opened /\ closed' \subseteq opened
      /\ sock' = None /\ OneOpenSocket'
  BY <1>2, InvalidateFacts
<1>5. TypeOK'
  BY <1>2, <1>3, <1>4 DEF IInv, TypeOK
<1>6. SocketInv'
  BY <1>2, <1>3, <1>4 DEF IInv, TypeOK, SocketInv
<1> QED BY <1>3, <1>4, <1>5, <1>6 DEF IInv

\* A packet from the tunnel keeps IInv (DnsRelay.kt:86).
LEMMA HandlePacketStep == ASSUME IInv, NEW q \in Queries, HandlePacket(q) PROVE IInv'
<1>1. UNCHANGED <<answer, sock, opened, closed, mine, inbox, resolver, stop, permits>>
  BY DEF HandlePacket, End, socketVars
<1>2. \E to \in {"launched", "done"} : Goto(q, "new", to)
  BY DEF HandlePacket, End
<1>3. outcome' \in [Queries -> Outcomes]
  BY DEF HandlePacket, End, IInv, TypeOK, Outcomes
<1>4. PermitsConserved'
  BY <1>1, <1>2, MoveKeepsPermits DEF IInv, Working
<1>5. TypeOK'
  BY <1>1, <1>2, <1>3 DEF IInv, TypeOK, Goto
<1>6. OneOpenSocket' /\ SocketInv'
  BY <1>1, <1>2 DEF IInv, TypeOK, OneOpenSocket, SocketInv, Goto
<1> QED BY <1>4, <1>5, <1>6 DEF IInv

\* tryAcquire, or the cancellation before it, keeps IInv (DnsRelay.kt:87).
LEMMA StartStep ==
    ASSUME IInv, NEW q \in Queries, Acquire(q) \/ Cancelled(q)
    PROVE  IInv'
<1>1. UNCHANGED <<answer, sock, opened, closed, mine, inbox, resolver, stop>>
  BY DEF Acquire, Cancelled, socketVars
<1>2. CASE End(q, "launched", "failed")
  <2>1. PermitsConserved' /\ permits' = permits
    BY <1>2, MoveKeepsPermits DEF IInv, Working, End
  <2>2. TypeOK'
    BY <1>1, <1>2, <2>1 DEF IInv, TypeOK, End, Goto, Outcomes
  <2> QED BY <1>1, <1>2, <2>1, <2>2
          DEF IInv, TypeOK, OneOpenSocket, SocketInv, End, Goto
<1>3. CASE /\ permits > 0 /\ permits' = permits - 1
           /\ Goto(q, "launched", "acquired") /\ UNCHANGED outcome
  <2>1. PermitsConserved' /\ permits' \in 0 .. MaxConcurrent
    BY <1>3, AcquireConserves DEF IInv
  <2>2. TypeOK'
    BY <1>1, <1>3, <2>1 DEF IInv, TypeOK, Goto, Working
  <2> QED BY <1>1, <1>3, <2>1, <2>2
          DEF IInv, TypeOK, OneOpenSocket, SocketInv, Goto
<1> QED BY <1>2, <1>3 DEF Acquire, Cancelled

\* getOrCreateSocket replaces only a socket that is closed (DnsRelay.kt:114-125).
LEMMA SocketStep == ASSUME IInv, NEW q \in Queries, getOrCreateSocket(q) PROVE IInv'
<1>1. /\ UNCHANGED <<answer, outcome, permits, closed, inbox, resolver, stop>>
      /\ Goto(q, "acquired", "send")
      /\ mine' = [mine EXCEPT ![q] = sock']
  BY DEF getOrCreateSocket
<1>2. PermitsConserved'
  BY <1>1, MoveKeepsPermits DEF IInv, Working
<1>3. CASE (sock = None \/ sock \in closed) /\ opened' = opened \cup {q} /\ sock' = q
  <2>1. TypeOK'
    BY <1>1, <1>3 DEF IInv, TypeOK, Goto, Working
  <2>2. OneOpenSocket'
    BY <1>1, <1>3, DnsAssumption DEF IInv, TypeOK, OneOpenSocket
  <2>3. SocketInv'
    BY <1>1, <1>3 DEF IInv, TypeOK, SocketInv, Goto
  <2> QED BY <1>2, <2>1, <2>2, <2>3 DEF IInv
<1>4. CASE sock # None /\ UNCHANGED <<opened, sock>>
  <2>1. TypeOK'
    BY <1>1, <1>4 DEF IInv, TypeOK, Goto, Working
  <2>2. OneOpenSocket' /\ SocketInv'
    BY <1>1, <1>4 DEF IInv, TypeOK, OneOpenSocket, SocketInv, Goto
  <2> QED BY <1>2, <2>1, <2>2 DEF IInv
<1> QED BY <1>3, <1>4 DEF getOrCreateSocket

\* A query is sent from a socket that exists (DnsRelay.kt:153).
LEMMA SendStep == ASSUME IInv, NEW q \in Queries, Send(q) PROVE IInv'
<1>1. /\ UNCHANGED <<answer, outcome, permits, sock, opened, closed, mine, inbox, stop>>
      /\ Goto(q, "send", "receive")
      /\ resolver' = resolver \cup {q}
  BY DEF Send, socketVars
<1>2. PermitsConserved'
  BY <1>1, MoveKeepsPermits DEF IInv, Working
<1>3. TypeOK'
  BY <1>1 DEF IInv, TypeOK, Goto, Working
<1>4. OneOpenSocket' /\ SocketInv'
  BY <1>1 DEF IInv, TypeOK, OneOpenSocket, SocketInv, Goto
<1> QED BY <1>2, <1>3, <1>4 DEF IInv

\* Whichever way the comparison of the IDs goes, IInv is kept (DnsRelay.kt:155-164).
LEMMA ReceiveStep == ASSUME IInv, NEW q \in Queries, Receive(q) PROVE IInv'
<1> DEFINE s == mine[q]
           r == Head(inbox[s])
<1>1. /\ UNCHANGED <<sock, opened, closed, mine, resolver, stop>>
      /\ pc[q] = "receive"
      /\ inbox[s] # <<>>
      /\ inbox' = [inbox EXCEPT ![s] = Tail(inbox[s])]
  BY DEF Receive, socketVars
<1>2. s \in Queries /\ inbox[s] \in Seq(Queries)
  BY <1>1 DEF IInv, TypeOK, SocketInv
<1>3. r \in Queries /\ inbox' \in [Queries -> Seq(Queries)]
  <2>1. r \in Queries /\ Tail(inbox[s]) \in Seq(Queries)
    BY <1>1, <1>2
  <2> QED BY <1>1, <2>1 DEF IInv, TypeOK
<1>4. CASE /\ TxId[r] = TxId[q]
           /\ Goto(q, "receive", "write")
           /\ answer' = [answer EXCEPT ![q] = r]
           /\ UNCHANGED <<outcome, permits>>
  <2>1. PermitsConserved'
    BY <1>4, MoveKeepsPermits DEF IInv, Working
  <2>2. TypeOK'
    BY <1>1, <1>3, <1>4 DEF IInv, TypeOK, Goto, Working
  <2>3. OneOpenSocket' /\ SocketInv'
    BY <1>1, <1>4 DEF IInv, TypeOK, OneOpenSocket, SocketInv, Goto
  <2> QED BY <2>1, <2>2, <2>3 DEF IInv
<1>5. CASE Release(q, "receive", "mismatch") /\ UNCHANGED answer
  <2>1. PermitsConserved' /\ permits' \in 0 .. MaxConcurrent
        /\ pc' = [pc EXCEPT ![q] = "done"] /\ outcome' \in [Queries -> Outcomes]
    BY <1>5, ReleaseConserves DEF IInv, Working, Outcomes
  <2>2. TypeOK'
    BY <1>1, <1>3, <1>5, <2>1 DEF IInv, TypeOK
  <2>3. OneOpenSocket' /\ SocketInv'
    BY <1>1, <1>5, <2>1 DEF IInv, TypeOK, OneOpenSocket, SocketInv
  <2> QED BY <2>1, <2>2, <2>3 DEF IInv
<1> QED BY <1>4, <1>5 DEF Receive

\* The resolver and the network only move datagrams.
LEMMA DatagramStep ==
    ASSUME IInv, NEW q \in Queries, Resolver(q) \/ Lost(q)
    PROVE  IInv'
<1>1. UNCHANGED <<pc, answer, outcome, permits, sock, opened, closed, mine, stop>>
  BY DEF Resolver, Lost, socketVars
<1>2. resolver' \subseteq Queries /\ inbox' \in [Queries -> Seq(Queries)]
  <2>1. mine[q] \in Queries /\ inbox[mine[q]] \in Seq(Queries)
    BY DEF IInv, TypeOK, SocketInv, Resolver, Lost
  <2>2. Append(inbox[mine[q]], q) \in Seq(Queries)
    BY <2>1
  <2> QED BY <2>1, <2>2 DEF IInv, TypeOK, Resolver, Lost
<1>3. TypeOK' /\ Holders' = Holders
  BY <1>1, <1>2 DEF IInv, TypeOK, Holders
<1>4. resolver' \subseteq resolver
  BY DEF Resolver, Lost
<1> QED BY <1>1, <1>3, <1>4
        DEF IInv, PermitsConserved, OneOpenSocket, SocketInv

\* Both parts of stop() keep IInv (DnsRelay.kt:65-71).
LEMMA StopStep == ASSUME IInv, StopScope \/ StopSocket PROVE IInv'
<1>1. /\ UNCHANGED <<pc, answer, outcome, permits, mine, inbox, resolver>>
      /\ stop' \in {"no", "cancelled", "done"}
  BY DEF StopScope, StopSocket
<1>2. Holders' = Holders
  BY <1>1 DEF Holders
<1>3. CASE StopScope
  BY <1>1, <1>2, <1>3 DEF StopScope, socketVars, IInv, TypeOK, PermitsConserved,
     OneOpenSocket, SocketInv
<1>4. CASE StopSocket
  <2>1. /\ opened' = opened /\ closed' \subseteq opened
        /\ sock' = None /\ OneOpenSocket'
    BY <1>4, InvalidateFacts DEF StopSocket
  <2> QED BY <1>1, <1>2, <2>1 DEF IInv, TypeOK, PermitsConserved, SocketInv
<1> QED BY <1>3, <1>4

-----------------------------------------------------------------------------
(* Datagrams *)

\* The coroutine of q has sent its query, or has ended.
Past(q) == pc[q] \in {"receive", "write", "done"}

\* The response to r waits in a socket.
Waiting(r) == \E s \in Queries : \E i \in DOMAIN inbox[s] : inbox[s][i] = r

\* Nobody will receive the response to r any more.
Spent(r) == Past(r) /\ r \notin resolver /\ ~Waiting(r)

\* A response is on its way once, and to the socket its query was sent from.
InFlight ==
    /\ \A r \in Queries : r \in resolver \/ Waiting(r) => Past(r)
    /\ \A s \in Queries : \A i \in DOMAIN inbox[s] :
        /\ inbox[s][i] \notin resolver
        /\ mine[inbox[s][i]] = s
        /\ \A j \in DOMAIN inbox[s] : inbox[s][i] = inbox[s][j] => i = j

\* A response that has been given to an app was received from the socket of its
\* own query, and by one coroutine.
Given ==
    \A q \in Queries :
        answer[q] # None =>
            /\ pc[q] \in {"write", "done"}
            /\ mine[answer[q]] = mine[q]
            /\ Spent(answer[q])
            /\ \A p \in Queries : answer[p] = answer[q] => p = q

\* The response on which q has failed was somebody else's, who lost it.
Victim(q, r) == r # q /\ mine[r] = mine[q] /\ answer[r] # r /\ Spent(r)

Spoiled ==
    \A q \in Queries :
        outcome[q] = "mismatch" =>
            pc[q] = "done" /\ \E r \in Queries : Victim(q, r)

TakenInv == InFlight /\ Given /\ Spoiled

\* Steps that move a coroutine on and leave the datagrams alone keep TakenInv.
LEMMA QuietStep ==
    ASSUME IInv, TakenInv, NEW q \in Queries, NEW to,
           UNCHANGED <<answer, mine, inbox, resolver>>,
           pc' = [pc EXCEPT ![q] = to],
           Past(q) => to = "done",
           outcome' = outcome \/ \E how : how # "mismatch" /\ outcome' = [outcome EXCEPT ![q] = how]
    PROVE  TakenInv'
<1>1. \A r \in Queries : Waiting(r)' <=> Waiting(r)
  BY DEF Waiting
<1>2. \A r \in Queries : (Past(r) => Past(r)') /\ (Spent(r) => Spent(r)')
  BY <1>1 DEF Past, Spent, IInv, TypeOK
<1>3. InFlight'
  BY <1>1, <1>2 DEF TakenInv, InFlight
<1>4. \A r \in Queries : answer[r] # None => answer[r] \in Queries
  BY DEF IInv, TypeOK
<1>5. Given'
  BY <1>2, <1>4 DEF TakenInv, Given, Past, IInv, TypeOK
<1>6. \A p, r \in Queries : Victim(p, r) => Victim(p, r)'
  BY <1>2 DEF Victim
<1>7. \A p \in Queries : outcome'[p] = "mismatch" => outcome[p] = "mismatch"
  BY DEF IInv, TypeOK
<1>8. Spoiled'
  BY <1>6, <1>7 DEF TakenInv, Spoiled, Past, IInv, TypeOK
<1> QED BY <1>3, <1>5, <1>8 DEF TakenInv

\* A coroutine gets its socket before it has sent anything, so no response is
\* affected (DnsRelay.kt:145).
LEMMA SocketTaken ==
    ASSUME IInv, TakenInv, NEW q \in Queries, getOrCreateSocket(q)
    PROVE  TakenInv'
<1>1. /\ UNCHANGED <<answer, outcome, inbox, resolver>>
      /\ pc[q] = "acquired" /\ pc' = [pc EXCEPT ![q] = "send"]
      /\ \A r \in Queries \ {q} : mine'[r] = mine[r]
  BY DEF getOrCreateSocket, Goto, IInv, TypeOK
<1>2. \A r \in Queries : (Waiting(r)' <=> Waiting(r)) /\ (Past(r)' <=> Past(r)) /\ (Spent(r)' <=> Spent(r))
  BY <1>1 DEF Waiting, Past, Spent, IInv, TypeOK
<1>3. ~Past(q)
  BY <1>1 DEF Past
<1>4. \A s \in Queries : \A i \in DOMAIN inbox[s] : inbox[s][i] \in Queries /\ inbox[s][i] # q
  <2> TAKE s \in Queries
  <2> TAKE i \in DOMAIN inbox[s]
  <2>1. inbox[s] \in Seq(Queries)
    BY DEF IInv, TypeOK
  <2>2. inbox[s][i] \in Queries
    BY <2>1
  <2> QED BY <2>2, <1>3 DEF TakenInv, InFlight, Waiting
<1>5. InFlight'
  BY <1>1, <1>2, <1>4 DEF TakenInv, InFlight
<1>6. \A p \in Queries : answer[p] # None => answer[p] \in Queries /\ answer[p] # q /\ p # q
  BY <1>1, <1>3 DEF TakenInv, Given, Spent, IInv, TypeOK
<1>7. Given'
  BY <1>1, <1>2, <1>6 DEF TakenInv, Given, IInv, TypeOK
<1>8. \A p, r \in Queries : p # q /\ Victim(p, r) => Victim(p, r)'
  BY <1>1, <1>2, <1>3 DEF Victim, Spent
<1>9. Spoiled'
  BY <1>1, <1>8 DEF TakenInv, Spoiled, IInv, TypeOK
<1> QED BY <1>5, <1>7, <1>9 DEF TakenInv

\* A query is sent once (DnsRelay.kt:153).
LEMMA SendTaken ==
    ASSUME IInv, TakenInv, NEW q \in Queries, Send(q)
    PROVE  TakenInv'
<1>1. /\ UNCHANGED <<answer, outcome, mine, inbox>>
      /\ pc[q] = "send" /\ pc' = [pc EXCEPT ![q] = "receive"]
      /\ resolver' = resolver \cup {q}
  BY DEF Send, Goto
<1>2. ~Past(q) /\ ~Waiting(q)
  BY <1>1 DEF TakenInv, InFlight, Past
<1>3. \A r \in Queries : /\ Waiting(r)' <=> Waiting(r)
                         /\ r = q \/ (Past(r)' <=> Past(r))
                         /\ Spent(r) => r # q /\ Spent(r)'
  BY <1>1, <1>2 DEF Waiting, Past, Spent, IInv, TypeOK
<1>4. Past(q)'
  BY <1>1 DEF Past, IInv, TypeOK
<1>5. \A s \in Queries : \A i \in DOMAIN inbox[s] : inbox[s][i] # q
  BY <1>2 DEF Waiting
<1>6. InFlight'
  BY <1>1, <1>3, <1>4, <1>5 DEF TakenInv, InFlight
<1>7. \A p \in Queries : answer[p] # None => answer[p] \in Queries
  BY DEF IInv, TypeOK
<1>8. Given'
  BY <1>1, <1>3, <1>7 DEF TakenInv, Given, IInv, TypeOK
<1>9. \A p, r \in Queries : Victim(p, r) => Victim(p, r)'
  BY <1>1, <1>3 DEF Victim
<1>10. Spoiled'
  BY <1>1, <1>9 DEF TakenInv, Spoiled, IInv, TypeOK
<1> QED BY <1>6, <1>8, <1>10 DEF TakenInv

\* A response reaches the socket once, and only if that is still open.
LEMMA ResolverTaken ==
    ASSUME IInv, TakenInv, NEW q \in Queries, Resolver(q) \/ Lost(q)
    PROVE  TakenInv'
<1> DEFINE s == mine[q]
<1>1. /\ UNCHANGED <<pc, answer, outcome, mine>>
      /\ q \in resolver /\ resolver' = resolver \ {q}
      /\ inbox' = inbox \/ inbox' = [inbox EXCEPT ![s] = Append(inbox[s], q)]
  BY DEF Resolver, Lost
<1>2. s \in Queries /\ inbox[s] \in Seq(Queries) /\ Past(q)
  BY <1>1 DEF IInv, TypeOK, SocketInv, TakenInv, InFlight
<1>3. \A t \in Queries : \A i \in DOMAIN inbox'[t] :
        \/ i \in DOMAIN inbox[t] /\ inbox'[t][i] = inbox[t][i]
        \/ t = s /\ i = Len(inbox[s]) + 1 /\ inbox'[t][i] = q
  <2>1. CASE inbox' = inbox
    BY <2>1
  <2>2. CASE inbox' = [inbox EXCEPT ![s] = Append(inbox[s], q)]
    <3>1. inbox'[s] = Append(inbox[s], q) /\ \A t \in Queries \ {s} : inbox'[t] = inbox[t]
      BY <1>2, <2>2 DEF IInv, TypeOK
    <3>2. \A i \in DOMAIN Append(inbox[s], q) :
            \/ i \in DOMAIN inbox[s] /\ Append(inbox[s], q)[i] = inbox[s][i]
            \/ i = Len(inbox[s]) + 1 /\ Append(inbox[s], q)[i] = q
      BY <1>2
    <3> QED BY <3>1, <3>2
  <2> QED BY <1>1, <2>1, <2>2
<1>4. \A t \in Queries : \A i \in DOMAIN inbox[t] : inbox[t][i] \in Queries /\ inbox[t][i] # q
  <2> TAKE t \in Queries
  <2> TAKE i \in DOMAIN inbox[t]
  <2>1. inbox[t] \in Seq(Queries)
    BY DEF IInv, TypeOK
  <2>2. inbox[t][i] \in Queries
    BY <2>1
  <2> QED BY <1>1, <2>2 DEF TakenInv, InFlight
<1>5. \A r \in Queries : (Waiting(r)' => Waiting(r) \/ r = q) /\ (Past(r)' <=> Past(r))
  BY <1>1, <1>3 DEF Waiting, Past
<1>6. \A r \in Queries : Spent(r) => Spent(r)'
  BY <1>1, <1>5 DEF Spent
<1>7. InFlight'
  <2>1. \A r \in Queries : r \in resolver' \/ Waiting(r)' => Past(r)'
    BY <1>1, <1>2, <1>5 DEF TakenInv, InFlight
  <2>2. ASSUME NEW t \in Queries, NEW i \in DOMAIN inbox'[t]
        PROVE  inbox'[t][i] \notin resolver' /\ mine'[inbox'[t][i]] = t
    BY <1>1, <1>3, <2>2 DEF TakenInv, InFlight
  <2>3. ASSUME NEW t \in Queries, NEW i \in DOMAIN inbox'[t], NEW j \in DOMAIN inbox'[t],
               inbox'[t][i] = inbox'[t][j]
        PROVE  i = j
    BY <1>3, <1>4, <2>3 DEF TakenInv, InFlight
  <2> QED BY <2>1, <2>2, <2>3 DEF InFlight
<1>8. \A p \in Queries : answer[p] # None => answer[p] \in Queries
  BY DEF IInv, TypeOK
<1>9. Given'
  BY <1>1, <1>6, <1>8 DEF TakenInv, Given
<1>10. \A p, r \in Queries : Victim(p, r) => Victim(p, r)'
  BY <1>1, <1>6 DEF Victim
<1>11. Spoiled'
  BY <1>1, <1>10 DEF TakenInv, Spoiled
<1> QED BY <1>7, <1>9, <1>11 DEF TakenInv

\* Whoever receives a response, it is then spent: its own query either has it
\* or goes without (DnsRelay.kt:157-164).
LEMMA ReceiveTaken ==
    ASSUME IInv, TakenInv, NEW q \in Queries, Receive(q)
    PROVE  TakenInv'
<1>0. PICK s, r : s = mine[q] /\ r = Head(inbox[s])
  OBVIOUS
<1>1. /\ UNCHANGED <<mine, resolver>>
      /\ pc[q] = "receive"
      /\ inbox[s] # <<>>
      /\ inbox' = [inbox EXCEPT ![s] = Tail(inbox[s])]
  BY <1>0 DEF Receive
<1>2. s \in Queries /\ inbox[s] \in Seq(Queries)
  BY <1>0, <1>1 DEF IInv, TypeOK, SocketInv
<1>3. 1 \in DOMAIN inbox[s] /\ inbox[s][1] = r /\ r \in Queries
  BY <1>0, <1>1, <1>2
<1>4. \A i \in DOMAIN Tail(inbox[s]) :
        i + 1 \in DOMAIN inbox[s] /\ i + 1 # 1 /\ Tail(inbox[s])[i] = inbox[s][i + 1]
  BY <1>1, <1>2
<1>5. inbox'[s] = Tail(inbox[s]) /\ \A t \in Queries \ {s} : inbox'[t] = inbox[t]
  BY <1>1, <1>2 DEF IInv, TypeOK
<1>6. /\ pc'[q] \in {"write", "done"}
      /\ \A p \in Queries \ {q} : pc'[p] = pc[p] /\ outcome'[p] = outcome[p] /\ answer'[p] = answer[p]
  BY DEF Receive, Release, Goto, IInv, TypeOK
<1>7. \A p \in Queries : (Past(p)' <=> Past(p)) /\ (Waiting(p)' => Waiting(p))
  <2>1. \A p \in Queries : Past(p)' <=> Past(p)
    BY <1>1, <1>6 DEF Past
  <2>2. \A p \in Queries : Waiting(p)' => Waiting(p)
    <3> SUFFICES ASSUME NEW p \in Queries, NEW t \in Queries, NEW i \in DOMAIN inbox'[t],
                        inbox'[t][i] = p
                 PROVE  Waiting(p)
      BY DEF Waiting
    <3>1. CASE t = s
      BY <1>2, <1>4, <1>5, <3>1 DEF Waiting
    <3>2. CASE t # s
      BY <1>5, <3>2 DEF Waiting
    <3> QED BY <3>1, <3>2
  <2> QED BY <2>1, <2>2
<1>8. \A p \in Queries : Spent(p) => Spent(p)' /\ p # r
  BY <1>1, <1>2, <1>3, <1>7 DEF Spent, Waiting
<1>9. mine[r] = s /\ r \notin resolver /\ Past(r)
  BY <1>2, <1>3 DEF TakenInv, InFlight, Waiting
<1>10. Spent(r)'
  <2>1. SUFFICES ASSUME NEW t \in Queries, NEW i \in DOMAIN inbox'[t], inbox'[t][i] = r
                 PROVE  FALSE
    BY <1>1, <1>3, <1>7, <1>9 DEF Spent, Waiting
  <2>2. CASE t = s
    <3>1. i \in DOMAIN Tail(inbox[s]) /\ Tail(inbox[s])[i] = r
      BY <1>5, <2>1, <2>2
    <3>2. i + 1 \in DOMAIN inbox[s] /\ inbox[s][i + 1] = inbox[s][1] /\ i + 1 # 1
      BY <1>3, <1>4, <3>1
    <3> QED BY <1>2, <1>3, <3>2 DEF TakenInv, InFlight
  <2>3. CASE t # s
    BY <1>5, <1>9, <2>1, <2>3 DEF TakenInv, InFlight
  <2> QED BY <2>2, <2>3
<1>11. InFlight'
  <2>1. \A p \in Queries : p \in resolver' \/ Waiting(p)' => Past(p)'
    BY <1>1, <1>7 DEF TakenInv, InFlight
  <2>2. ASSUME NEW t \in Queries
        PROVE  \A i \in DOMAIN inbox'[t] :
                   /\ inbox'[t][i] \notin resolver'
                   /\ mine'[inbox'[t][i]] = t
                   /\ \A j \in DOMAIN inbox'[t] : inbox'[t][i] = inbox'[t][j] => i = j
    <3>1. CASE t # s
      BY <1>1, <1>5, <3>1 DEF TakenInv, InFlight
    <3>2. CASE t = s
      <4>1. inbox'[t] = Tail(inbox[s]) /\ mine' = mine /\ resolver' = resolver
        BY <1>1, <1>5, <3>2
      <4>2. \A j \in DOMAIN Tail(inbox[s]) : j \in Int
        BY <1>1, <1>2
      <4>3. \A i \in DOMAIN Tail(inbox[s]) :
              /\ Tail(inbox[s])[i] \notin resolver
              /\ mine[Tail(inbox[s])[i]] = s
              /\ \A j \in DOMAIN Tail(inbox[s]) : Tail(inbox[s])[i] = Tail(inbox[s])[j] => i = j
        BY <1>2, <1>4, <4>2 DEF TakenInv, InFlight
      <4> QED BY <3>2, <4>1, <4>3, Zenon
    <3> QED BY <3>1, <3>2
  <2> QED BY <2>1, <2>2 DEF InFlight
<1>12. \A p \in Queries : answer[p] # None => answer[p] \in Queries /\ answer[p] # r
  BY <1>8 DEF TakenInv, Given, IInv, TypeOK
<1>13. answer[q] = None
  BY <1>1 DEF TakenInv, Given
<1>14. \A p, v \in Queries : p # q /\ Victim(p, v) => Victim(p, v)'
  <2> SUFFICES ASSUME NEW p \in Queries, NEW v \in Queries, p # q, Victim(p, v)
               PROVE  Victim(p, v)'
    OBVIOUS
  <2>1. v # r /\ Spent(v)'
    BY <1>8 DEF Victim
  <2>2. answer'[v] = answer[v] \/ answer'[v] = r
    BY <1>0, <1>6 DEF Receive, IInv, TypeOK
  <2> QED BY <1>1, <2>1, <2>2 DEF Victim
<1>15. CASE /\ pc' = [pc EXCEPT ![q] = "write"]
            /\ answer' = [answer EXCEPT ![q] = r]
            /\ UNCHANGED outcome
  <2>1. answer'[q] = r
    BY <1>15 DEF IInv, TypeOK
  <2>2. Given'
    BY <1>0, <1>1, <1>3, <1>6, <1>8, <1>9, <1>10, <1>12, <1>15, <2>1 DEF TakenInv, Given
  <2>3. outcome[q] # "mismatch"
    BY <1>1 DEF TakenInv, Spoiled
  <2>4. Spoiled'
    BY <1>6, <1>14, <1>15, <2>3 DEF TakenInv, Spoiled
  <2> QED BY <1>11, <2>2, <2>4 DEF TakenInv
<1>16. CASE TxId[r] # TxId[q] /\ Release(q, "receive", "mismatch") /\ UNCHANGED answer
  <2>1. Given'
    BY <1>1, <1>6, <1>8, <1>12, <1>13, <1>16 DEF TakenInv, Given
  <2>2. answer[r] # r
    BY <1>3, <1>12, DnsAssumption
  <2>3. Victim(q, r)'
    BY <1>0, <1>1, <1>9, <1>10, <1>16, <2>2 DEF Victim
  <2>4. pc'[q] = "done"
    BY <1>16 DEF Release, Goto, IInv, TypeOK
  <2>5. Spoiled'
    BY <1>3, <1>6, <1>14, <2>3, <2>4 DEF TakenInv, Spoiled
  <2> QED BY <1>11, <2>1, <2>5 DEF TakenInv
<1> QED BY <1>0, <1>15, <1>16 DEF Receive, Goto

\* Every step keeps what is known of the datagrams.
LEMMA TakenInductive ==
    ASSUME IInv, TakenInv, [Next]_vars
    PROVE  TakenInv'
<1>1. ASSUME NEW q \in Queries, HandlePacket(q) \/ Acquire(q) \/ Cancelled(q)
      PROVE  TakenInv'
  <2>1. /\ UNCHANGED <<answer, mine, inbox, resolver>>
        /\ ~Past(q)
        /\ outcome' = outcome \/ \E how : how # "mismatch" /\ outcome' = [outcome EXCEPT ![q] = how]
    BY <1>1 DEF HandlePacket, Acquire, Cancelled, End, Goto, Past
  <2>2. \E to : pc' = [pc EXCEPT ![q] = to]
    BY <1>1 DEF HandlePacket, Acquire, Cancelled, End, Goto
  <2> QED BY <2>1, <2>2, QuietStep
<1>2. ASSUME NEW q \in Queries, Ends(q) \/ Breaks(q)
      PROVE  TakenInv'
  <2>1. /\ UNCHANGED <<answer, mine, inbox, resolver>>
        /\ pc' = [pc EXCEPT ![q] = "done"]
        /\ \E how : how # "mismatch" /\ outcome' = [outcome EXCEPT ![q] = how]
    BY <1>2 DEF Ends, Breaks, TooShort, SendFails, Timeout, Write, WriteFails,
       CreateFails, Unreachable, SocketClosed, Release, Goto
  <2> QED BY <2>1, QuietStep
<1>3. ASSUME NEW q \in Queries, getOrCreateSocket(q) \/ Send(q) \/ Receive(q)
      PROVE  TakenInv'
  BY <1>3, SocketTaken, SendTaken, ReceiveTaken
<1>4. ASSUME NEW q \in Queries, Resolver(q) \/ Lost(q) PROVE TakenInv'
  BY <1>4, ResolverTaken
<1>5. CASE StopScope \/ StopSocket \/ UNCHANGED vars
  <2>1. UNCHANGED <<pc, answer, outcome, mine, inbox, resolver>>
    BY <1>5 DEF StopScope, StopSocket, vars
  <2>2. \A r \in Queries : (Waiting(r)' <=> Waiting(r)) /\ (Past(r)' <=> Past(r))
    BY <2>1 DEF Waiting, Past
  <2>3. \A r \in Queries : Spent(r) => Spent(r)'
    BY <2>1, <2>2 DEF Spent
  <2>4. InFlight'
    BY <2>1, <2>2 DEF TakenInv, InFlight
  <2>5. Given'
    BY <2>1, <2>3 DEF TakenInv, Given, IInv, TypeOK
  <2>6. Spoiled'
    BY <2>1, <2>3 DEF TakenInv, Spoiled, Victim
  <2> QED BY <2>4, <2>5, <2>6 DEF TakenInv
<1> QED BY <1>1, <1>2, <1>3, <1>4, <1>5
        DEF Next, Coroutine, forwardDnsQuery, Ends, Breaks

-----------------------------------------------------------------------------

\* A new relay satisfies IInv (DnsRelay.kt:26-50).
LEMMA Initially == Init => IInv
<1> SUFFICES ASSUME Init PROVE IInv
  OBVIOUS
<1>1. Holders = {}
  BY DEF Init, Holders, Working
<1>2. PermitsConserved
  BY <1>1, FS_EmptySet, DnsAssumption DEF Init, PermitsConserved
<1>3. \A q \in Queries : inbox[q] \in Seq(Queries)
  BY DEF Init
<1>4. TypeOK
  BY <1>3, DnsAssumption DEF Init, TypeOK, Outcomes
<1>5. OneOpenSocket /\ SocketInv
  BY DEF Init, OneOpenSocket, SocketInv
<1> QED BY <1>2, <1>4, <1>5 DEF IInv

\* Every step of relay, resolver and stop() keeps IInv.
LEMMA Inductive == IInv /\ [Next]_vars => IInv'
<1> SUFFICES ASSUME IInv, [Next]_vars PROVE IInv'
  OBVIOUS
<1>1. ASSUME NEW q \in Queries, HandlePacket(q) PROVE IInv'
  BY <1>1, HandlePacketStep
<1>2. ASSUME NEW q \in Queries, Coroutine(q) PROVE IInv'
  <2>1. CASE Acquire(q) \/ Cancelled(q)
    BY <2>1, StartStep
  <2>2. CASE Ends(q)
    BY <2>2, EndsStep
  <2>3. CASE Breaks(q)
    BY <2>3, BreaksStep
  <2>4. CASE getOrCreateSocket(q)
    BY <2>4, SocketStep
  <2>5. CASE Send(q)
    BY <2>5, SendStep
  <2>6. CASE Receive(q)
    BY <2>6, ReceiveStep
  <2> QED BY <1>2, <2>1, <2>2, <2>3, <2>4, <2>5, <2>6
          DEF Coroutine, forwardDnsQuery, Ends, Breaks
<1>3. ASSUME NEW q \in Queries, Resolver(q) \/ Lost(q) PROVE IInv'
  BY <1>3, DatagramStep
<1>4. CASE StopScope \/ StopSocket
  BY <1>4, StopStep
<1>5. CASE UNCHANGED vars
  <2>1. Holders' = Holders
    BY <1>5 DEF vars, Holders
  <2> QED BY <1>5, <2>1 DEF vars, IInv, TypeOK, PermitsConserved,
             OneOpenSocket, SocketInv
<1> QED BY <1>1, <1>2, <1>3, <1>4, <1>5 DEF Next

\* So IInv holds in every reachable state.
LEMMA Invariance == Spec => []IInv
  BY Initially, Inductive, PTL DEF Spec

\* Every way out of a coroutine of the DNS relay returns exactly the permit it
\* took, for any number of queries and permits.
THEOREM NoPermitLost == Spec => [](TypeOK /\ PermitsConserved)
<1>1. IInv => TypeOK /\ PermitsConserved
  BY DEF IInv
<1> QED BY <1>1, Invariance, PTL

\* Cross-talk between coroutines is confined, for any number of queries, permits
\* and assignment of IDs: a query that fails on a foreign response, or is given
\* one, shares its socket with another that goes without its own.
THEOREM SpoiledWithinSocket == Spec => []CrossTalk
<1>1. Init => TakenInv
  <2> SUFFICES ASSUME Init PROVE TakenInv
    OBVIOUS
  <2>1. \A s \in Queries : DOMAIN inbox[s] = {}
    BY DEF Init
  <2>2. InFlight
    BY <2>1 DEF Init, InFlight, Waiting
  <2>3. Given
    BY DEF Init, Given
  <2>4. Spoiled
    BY DEF Init, Spoiled, None
  <2> QED BY <2>2, <2>3, <2>4 DEF TakenInv
<1>2. IInv /\ TakenInv /\ [Next]_vars => TakenInv'
  BY TakenInductive
<1>3. IInv /\ TakenInv => CrossTalk
  <2> SUFFICES ASSUME IInv, TakenInv, NEW q \in Queries,
                      outcome[q] = "mismatch" \/ answer[q] \notin {None, q}
               PROVE  \E r \in Queries \ {q} : mine[r] = mine[q] /\ answer[r] # r
    BY DEF CrossTalk
  <2>1. CASE outcome[q] = "mismatch"
    BY <2>1 DEF TakenInv, Spoiled, Victim
  <2>2. CASE answer[q] \notin {None, q}
    <3>1. answer[q] \in Queries \ {q}
      BY <2>2 DEF IInv, TypeOK
    <3>2. mine[answer[q]] = mine[q] /\ answer[answer[q]] # answer[q]
      BY <2>2, <3>1 DEF TakenInv, Given
    <3> QED BY <3>1, <3>2
  <2> QED BY <2>1, <2>2
<1> QED BY <1>1, <1>2, <1>3, Invariance, PTL DEF Spec

\* However coroutines and stop() race to create and discard the socket, at
\* most the current one is open.
THEOREM SocketsNotLeaked == Spec => []OneOpenSocket
<1>1. IInv => OneOpenSocket
  BY DEF IInv
<1> QED BY <1>1, Invariance, PTL

\* Every variable of the relay stays in its range: in particular the semaphore
\* never holds more than its permits, for any number of queries.
THEOREM TypeCorrect == Spec => []TypeOK
<1>1. IInv => TypeOK
  BY DEF IInv
<1> QED BY <1>1, Invariance, PTL

=============================================================================
