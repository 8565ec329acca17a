---------------------------- MODULE RealtimeProofs ----------------------------
(***************************************************************************)
(* Proofs about Realtime: its types, how often a notification is pushed,   *)
(* and that what is due to a socket is on its way to it or lost.           *)
(***************************************************************************)
EXTENDS Realtime, FiniteSetTheorems, TLAPS

LEMMA OffOK == Off \in Connection
<1> [n \in Notifications |-> 0] \in [Notifications -> Nat]
  OBVIOUS
<1> QED
  BY DEF Off, Connection

\* What a push does to the types.
LEMMA PushType ==
  ASSUME TypeOK, NEW p \in Replicas, NEW n \in Notifications
  PROVE  /\ EmitToRoom(p, n) => client' \in [Clients -> Connection]
         /\ PushNotification(p, n) =>
              broadcast' \subseteq BroadcastMessage /\ lost' \subseteq Notifications
<1>1. ASSUME EmitToRoom(p, n)
      PROVE  client' \in [Clients -> Connection]
  <2>1. ASSUME NEW c \in Clients
        PROVE  [client[c] EXCEPT !.pushed[n] = @ + 1] \in Connection
    <3>1. client[c] \in Connection /\ client[c].pushed \in [Notifications -> Nat]
      BY DEF TypeOK, Connection
    <3>2. [client[c].pushed EXCEPT ![n] = @ + 1] \in [Notifications -> Nat]
      BY <3>1
    <3> QED
      BY <3>1, <3>2 DEF Connection
  <2> QED
    BY <1>1, <2>1 DEF EmitToRoom, TypeOK
<1>2. ASSUME PushNotification(p, n)
      PROVE  broadcast' \subseteq BroadcastMessage /\ lost' \subseteq Notifications
  BY <1>2 DEF PushNotification, AdapterReaches, BroadcastMessage, TypeOK
<1> QED
  BY <1>1, <1>2

LEMMA TypeStep == TypeOK /\ [Next]_vars => TypeOK'
<1> SUFFICES ASSUME TypeOK, [Next]_vars PROVE TypeOK'
  OBVIOUS
<1> USE ConstantsAssumption
<1>1. ASSUME NEW n \in Notifications, EmitInApi(n)
      PROVE  TypeOK'
  <2>1. row[n].at \in Replicas
    BY <1>1 DEF EmitInApi, TypeOK, Row, Processes
  <2>2. row' \in [Notifications -> Row]
    BY <1>1 DEF EmitInApi, TypeOK, Row
  <2>3. EmitToRoom(row[n].at, n)
    BY <1>1 DEF EmitInApi, PushNotification
  <2> QED
    BY <1>1, <2>1, <2>2, <2>3, PushType DEF EmitInApi, TypeOK, Static
<1>2. ASSUME NEW n \in Notifications, EmitInWorker(n)
      PROVE  TypeOK'
  <2>1. row' \in [Notifications -> Row]
    BY <1>2 DEF EmitInWorker, TypeOK, Row
  <2> QED
    BY <1>2, <2>1 DEF EmitInWorker, TypeOK, Static
<1>3. ASSUME NEW n \in Notifications, Publish(n)
      PROVE  TypeOK'
  <2>1. row' \in [Notifications -> Row]
    BY <1>3 DEF Publish, TypeOK, Row
  <2>2. channel' \subseteq ChannelMessage /\ lost' \subseteq Notifications
    BY <1>3 DEF Publish, TypeOK, ChannelMessage
  <2> QED
    BY <1>3, <2>1, <2>2 DEF Publish, TypeOK, Static
<1>4. ASSUME NEW n \in Notifications, NEW u \in Users, NEW p \in Processes, Create(n, u, p)
      PROVE  TypeOK'
  <2>1. row' \in [Notifications -> Row]
    BY <1>4 DEF Create, TypeOK, Row, Processes
  <2>2. client' \in [Clients -> Connection]
    BY <1>4 DEF Create, TypeOK, Connection
  <2> QED
    BY <1>4, <2>1, <2>2 DEF Create, TypeOK, Static
<1>5. ASSUME NEW m \in channel, HandleMessage(m)
      PROVE  TypeOK'
  <2>1. m.to \in Replicas /\ m.n \in Notifications
    BY DEF TypeOK, ChannelMessage
  <2>2. EmitToRoom(m.to, m.n)
    BY <1>5 DEF HandleMessage, PushNotification
  <2> QED
    BY <1>5, <2>1, <2>2, PushType DEF HandleMessage, TypeOK, Static
<1>6. ASSUME NEW m \in broadcast, AdapterDelivers(m)
      PROVE  TypeOK'
  <2>1. m.to \in Replicas /\ m.n \in Notifications
    BY DEF TypeOK, BroadcastMessage
  <2> QED
    BY <1>6, <2>1, PushType DEF AdapterDelivers, TypeOK, Static
<1>7. ASSUME NEW c \in Clients, HandleConnection(c)
      PROVE  TypeOK'
  <2>1. client' \in [Clients -> Connection]
    <3>1. client[c] \in Connection /\ client[c].pc = "verifying"
      BY <1>7 DEF HandleConnection, TypeOK
    <3>2. client[c].user # None => [client[c] EXCEPT !.pc = "joined"] \in Connection
      BY <3>1 DEF Connection
    <3> QED
      BY <1>7, <3>1, <3>2, OffOK DEF HandleConnection, TypeOK
  <2> QED
    BY <1>7, <2>1 DEF HandleConnection, TypeOK, Static
<1>8. ASSUME NEW c \in Clients, Disconnect(c)
      PROVE  TypeOK'
  BY <1>8, OffOK DEF Disconnect, TypeOK, Static
<1>9. ASSUME NEW c \in Clients, NEW p \in Replicas, NEW user \in Users \cup {None},
             Connect(c, p, user)
      PROVE  TypeOK'
  <2>1. client' \in [Clients -> Connection]
    <3>1. [Off EXCEPT !.pc = "verifying", !.at = p, !.user = user] \in Connection
      BY OffOK DEF Connection, Off
    <3> QED
      BY <1>9, <3>1 DEF Connect, TypeOK
  <2> QED
    BY <1>9, <2>1 DEF Connect, TypeOK, Static
<1>10. ASSUME NEW p \in Replicas, NEW l \in Link, LoseConnection(p, l)
       PROVE  TypeOK'
  <2>1. lost' \subseteq Notifications
    BY <1>10 DEF LoseConnection, TypeOK, ChannelMessage, BroadcastMessage
  <2> QED
    BY <1>10, <2>1 DEF LoseConnection, TypeOK, Static
<1>11. ASSUME NEW p \in Replicas, NEW l \in Link, Resubscribe(p, l)
       PROVE  TypeOK'
  BY <1>11 DEF Resubscribe, TypeOK, Static
<1>12. ASSUME NEW p \in Processes, Restart(p)
       PROVE  TypeOK'
  <2>1. row' \in [Notifications -> Row]
    BY <1>12 DEF Restart, TypeOK, Row
  <2>2. lost' \subseteq Notifications
    BY <1>12 DEF Restart, TypeOK, ChannelMessage, BroadcastMessage
  <2>3. client' \in [Clients -> Connection]
    BY <1>12, OffOK DEF Restart, TypeOK
  <2> QED
    BY <1>12, <2>1, <2>2, <2>3 DEF Restart, TypeOK, Static
<1>13. CASE UNCHANGED vars
  BY <1>13 DEF vars, TypeOK
<1> QED
  BY <1>1, <1>2, <1>3, <1>4, <1>5, <1>6, <1>7, <1>8, <1>9, <1>10, <1>11, <1>12, <1>13
  DEF Next, Emit, Deliver

\* The rows, the messages on both channels and the connections keep their
\* shape; a socket in a room has been authenticated (handleConnection).
THEOREM TypeCorrect == Spec => []TypeOK
<1>1. Init => TypeOK
  <2> SUFFICES ASSUME Init PROVE TypeOK
    OBVIOUS
  <2>1. NoRow \in Row
    BY DEF NoRow, Row
  <2> QED
    BY <2>1, OffOK, ConstantsAssumption DEF Init, TypeOK
<1> QED
  BY <1>1, TypeStep, PTL DEF Spec

-----------------------------------------------------------------------------
(* How often a notification is pushed.                                     *)

\* The replicas that may still push n to the sockets of replica p: their
\* message is on the channel, or their push is on its way to p.
Ahead(p, n) ==
  {q \in Replicas : \/ (q = p \/ adapter) /\ [n |-> n, to |-> q] \in channel
                    \/ [n |-> n, from |-> q, to |-> p] \in broadcast}

\* Nothing is on its way before the notification is emitted; only the worker
\* creates with the queue, and only then is anything published.
RowInv ==
  \A n \in Notifications :
    /\ row[n].at \in Replicas => ~queueEnabled
    /\ row[n].pc = "publishing" => queueEnabled
    /\ row[n].pc # "done" =>
         /\ \A m \in channel \cup broadcast : m.n # n
         /\ \A c \in Clients : client[c].pushed[n] = 0

\* A replica that has a message of the channel still to handle has not pushed.
MessageInv ==
  /\ \A m \in channel :
       queueEnabled /\ \A b \in broadcast : b.n = m.n => b.from # m.to
  /\ \A b \in broadcast :
       b.from # b.to /\ adapter /\ (~queueEnabled => b.from = row[b.n].at)

CountInv ==
  \A c \in Clients, n \in Notifications :
    /\ client[c].at = None => client[c].pushed[n] = 0
    /\ \A p \in Replicas : client[c].at = p =>
         client[c].pushed[n] + Cardinality(Ahead(p, n)) <= Copies

PushInv == RowInv /\ MessageInv /\ CountInv

\* Sets of replicas.
LEMMA Shrinks ==
  ASSUME NEW S, S \subseteq Replicas, NEW T, T \subseteq S
  PROVE  /\ Cardinality(S) \in Nat /\ Cardinality(T) \in Nat
         /\ Cardinality(T) <= Cardinality(S)
         /\ \A q \in S \ T : Cardinality(T) + 1 <= Cardinality(S)
<1>1. IsFiniteSet(S) /\ IsFiniteSet(T)
  BY FS_Subset, ConstantsAssumption
<1>2. Cardinality(S) \in Nat /\ Cardinality(T) \in Nat
  BY <1>1, FS_CardinalityType
<1>3. Cardinality(T) <= Cardinality(S)
  BY <1>1, FS_Subset
<1>4. ASSUME NEW q \in S \ T
      PROVE  Cardinality(T) + 1 <= Cardinality(S)
  <2>1. IsFiniteSet(S \ {q}) /\ Cardinality(S \ {q}) = Cardinality(S) - 1
    BY <1>1, FS_RemoveElement
  <2>2. T \in SUBSET (S \ {q})
    BY <1>4
  <2>3. Cardinality(T) <= Cardinality(S \ {q})
    BY <2>1, <2>2, FS_Subset
  <2> QED
    BY <1>2, <2>1, <2>3
<1> QED
  BY <1>2, <1>3, <1>4

\* What may still be pushed never exceeds the bound.
AheadBounded ==
  \A p \in Replicas, n \in Notifications : Cardinality(Ahead(p, n)) <= Copies

LEMMA AheadBound == TypeOK /\ MessageInv => AheadBounded
<1> SUFFICES ASSUME TypeOK, MessageInv, NEW p \in Replicas, NEW n \in Notifications
             PROVE  Cardinality(Ahead(p, n)) <= Copies
  BY DEF AheadBounded
<1>1. Ahead(p, n) \subseteq Replicas
  BY DEF Ahead
<1>2. Cardinality(Ahead(p, n)) \in Nat
  BY <1>1, Shrinks
<1>3. CASE queueEnabled /\ adapter
  BY <1>1, <1>2, <1>3, Shrinks DEF Copies
<1>4. CASE ~(queueEnabled /\ adapter)
  <2>1. PICK x : Ahead(p, n) \subseteq {x}
    <3>1. CASE queueEnabled
      <4>1. Ahead(p, n) \subseteq {p}
        BY <1>4, <3>1 DEF Ahead, MessageInv
      <4> QED
        BY <4>1
    <3>2. CASE ~queueEnabled
      <4>1. Ahead(p, n) \subseteq {row[n].at}
        BY <3>2 DEF Ahead, MessageInv
      <4> QED
        BY <4>1
    <3> QED
      BY <3>1, <3>2
  <2>2. Cardinality(Ahead(p, n)) <= 1
    <3>1. IsFiniteSet({x}) /\ Cardinality({x}) = 1
      BY FS_Singleton
    <3>2. Ahead(p, n) \in SUBSET {x}
      BY <2>1
    <3>3. Cardinality(Ahead(p, n)) <= Cardinality({x})
      BY <3>1, <3>2, FS_Subset
    <3> QED
      BY <3>1, <3>3
  <2> QED
    BY <1>2, <1>4, <2>2 DEF Copies
<1> QED
  BY <1>3, <1>4

\* What EmitToRoom does to the connections.
LEMMA RoomCount ==
  ASSUME TypeOK, NEW p \in Replicas, NEW n \in Notifications, EmitToRoom(p, n),
         NEW c \in Clients, NEW k \in Notifications
  PROVE  /\ client'[c].at = client[c].at
         /\ client[c].pushed[k] \in Nat
         /\ client'[c].pushed[k] \in {client[c].pushed[k], client[c].pushed[k] + 1}
         /\ k # n \/ client[c].at # p => client'[c].pushed[k] = client[c].pushed[k]
<1>1. client[c] \in Connection /\ client[c].pushed \in [Notifications -> Nat]
  BY DEF TypeOK, Connection
<1>2. client'[c] = IF InRoom(c, p, row[n].to) THEN [client[c] EXCEPT !.pushed[n] = @ + 1]
                   ELSE client[c]
  BY DEF EmitToRoom
<1>3. CASE InRoom(c, p, row[n].to)
  <2>1. client'[c] = [client[c] EXCEPT !.pushed[n] = @ + 1] /\ client[c].at = p
    BY <1>2, <1>3 DEF InRoom
  <2>2. /\ client'[c].at = client[c].at
        /\ client'[c].pushed = [client[c].pushed EXCEPT ![n] = @ + 1]
    BY <1>1, <2>1 DEF Connection
  <2> QED
    BY <1>1, <2>1, <2>2
<1>4. CASE ~InRoom(c, p, row[n].to)
  BY <1>1, <1>2, <1>4
<1> QED
  BY <1>3, <1>4

\* Steps that push nothing: each socket has been pushed nothing yet, or no new
\* push gets on its way to it.
LEMMA QuietStep ==
  ASSUME TypeOK, PushInv, TypeOK', MessageInv', Static,
         \A c \in Clients, n \in Notifications :
           \/ client'[c].pushed[n] = 0
           \/ /\ client'[c].at = client[c].at
              /\ client'[c].pushed[n] = client[c].pushed[n]
              /\ \A p \in Replicas : Ahead(p, n)' \subseteq Ahead(p, n)
  PROVE  CountInv'
<1> SUFFICES ASSUME NEW c \in Clients, NEW n \in Notifications
             PROVE  /\ client'[c].at = None => client'[c].pushed[n] = 0
                    /\ \A p \in Replicas : client'[c].at = p =>
                         client'[c].pushed[n] + Cardinality(Ahead(p, n)') <= Copies'
  BY DEF CountInv
<1>1. \A p \in Replicas : Ahead(p, n)' \subseteq Replicas /\ Ahead(p, n) \subseteq Replicas
  BY DEF Ahead
<1>2. CASE client'[c].pushed[n] = 0
  <2>1. AheadBounded'
    BY AheadBound, PTL
  <2>2. ASSUME NEW p \in Replicas
        PROVE  0 + Cardinality(Ahead(p, n)') <= Copies'
    <3>1. Cardinality(Ahead(p, n)') \in Nat
      BY <1>1, Shrinks
    <3>2. Cardinality(Ahead(p, n)') <= Copies'
      BY <2>1 DEF AheadBounded
    <3> QED
      BY <3>1, <3>2
  <2> QED
    BY <1>2, <2>2
<1>3. CASE /\ client'[c].at = client[c].at
           /\ client'[c].pushed[n] = client[c].pushed[n]
           /\ \A p \in Replicas : Ahead(p, n)' \subseteq Ahead(p, n)
  <2>1. client[c].pushed[n] \in Nat
    BY DEF TypeOK, Connection
  <2>2. Copies' = Copies /\ Copies \in Int
    BY FS_CardinalityType, ConstantsAssumption DEF Copies, Static
  <2>3. ASSUME NEW p \in Replicas, client[c].at = p
        PROVE  client[c].pushed[n] + Cardinality(Ahead(p, n)') <= Copies
    <3>1. client[c].pushed[n] + Cardinality(Ahead(p, n)) <= Copies
      BY <2>3 DEF PushInv, CountInv
    <3> QED
      BY <1>1, <1>3, <2>1, <2>2, <3>1, Shrinks
  <2>4. client[c].at = None => client[c].pushed[n] = 0
    BY DEF PushInv, CountInv
  <2> QED
    BY <1>3, <2>2, <2>3, <2>4
<1> QED
  BY <1>2, <1>3

\* A replica handles a message: its push goes to its own sockets now and to
\* the others later.
LEMMA HandleStep ==
  ASSUME TypeOK, PushInv, TypeOK', NEW m \in channel, HandleMessage(m)
  PROVE  PushInv'
<1> DEFINE q == m.to
           n == m.n
<1>1. /\ q \in Replicas /\ n \in Notifications /\ m = [n |-> n, to |-> q]
      /\ queueEnabled /\ Static /\ row' = row
      /\ channel' = channel \ {m} /\ EmitToRoom(q, n)
      /\ broadcast' = broadcast \cup {[n |-> n, from |-> q, to |-> r] : r \in AdapterReaches(q)}
  BY DEF HandleMessage, PushNotification, TypeOK, ChannelMessage, PushInv, MessageInv
<1>2. \A b \in broadcast : b.n = n => b.from # q
  BY DEF PushInv, MessageInv
<1>3. \A r \in AdapterReaches(q) : r \in Replicas \ {q} /\ adapter
  BY DEF AdapterReaches
<1>4. RowInv'
  <2>1. row[n].pc = "done"
    BY <1>1 DEF PushInv, RowInv
  <2> SUFFICES ASSUME NEW k \in Notifications
               PROVE  /\ row[k].at \in Replicas => ~queueEnabled
                      /\ row[k].pc = "publishing" => queueEnabled
                      /\ row[k].pc # "done" =>
                           /\ \A i \in channel' \cup broadcast' : i.n # k
                           /\ \A c \in Clients : client'[c].pushed[k] = 0
    BY <1>1 DEF RowInv, Static
  <2>2. ASSUME row[k].pc # "done", NEW c \in Clients
        PROVE  client'[c].pushed[k] = 0
    BY <1>1, <2>1, <2>2, RoomCount DEF PushInv, RowInv
  <2>3. ASSUME row[k].pc # "done", NEW i \in channel' \cup broadcast'
        PROVE  i.n # k
    BY <1>1, <2>1, <2>3 DEF PushInv, RowInv
  <2> QED
    BY <2>2, <2>3 DEF PushInv, RowInv
<1>5. MessageInv'
  <2>1. ASSUME NEW i \in channel'
        PROVE  queueEnabled' /\ \A b \in broadcast' : b.n = i.n => b.from # i.to
    <3>1. i \in channel /\ i # m /\ i = [n |-> i.n, to |-> i.to]
      BY <1>1 DEF TypeOK, ChannelMessage
    <3>2. i.n # n \/ i.to # q
      BY <1>1, <3>1
    <3> QED
      BY <1>1, <3>1, <3>2 DEF PushInv, MessageInv, Static
  <2>2. ASSUME NEW b \in broadcast'
        PROVE  b.from # b.to /\ adapter' /\ (~queueEnabled' => b.from = row'[b.n].at)
    BY <1>1, <1>3 DEF PushInv, MessageInv, Static
  <2> QED
    BY <2>1, <2>2 DEF MessageInv
<1>6. CountInv'
  <2> SUFFICES ASSUME NEW c \in Clients, NEW k \in Notifications
               PROVE  /\ client'[c].at = None => client'[c].pushed[k] = 0
                      /\ \A p \in Replicas : client'[c].at = p =>
                           client'[c].pushed[k] + Cardinality(Ahead(p, k)') <= Copies'
    BY DEF CountInv
  <2>1. /\ client'[c].at = client[c].at
        /\ client[c].pushed[k] \in Nat
        /\ client'[c].pushed[k] \in {client[c].pushed[k], client[c].pushed[k] + 1}
        /\ k # n \/ client[c].at # q => client'[c].pushed[k] = client[c].pushed[k]
    BY <1>1, RoomCount
  <2>2. Copies' = Copies /\ Copies \in Int
    BY <1>1, FS_CardinalityType, ConstantsAssumption DEF Copies, Static
  <2>3. ASSUME client'[c].at = None
        PROVE  client'[c].pushed[k] = 0
    BY <1>1, <2>1, <2>3, ConstantsAssumption DEF PushInv, CountInv
  <2>4. ASSUME NEW p \in Replicas, client'[c].at = p
        PROVE  client'[c].pushed[k] + Cardinality(Ahead(p, k)') <= Copies
    <3>1. client[c].pushed[k] + Cardinality(Ahead(p, k)) <= Copies
      BY <2>1, <2>4 DEF PushInv, CountInv
    <3>2. Ahead(p, k)' \subseteq Ahead(p, k) /\ Ahead(p, k) \subseteq Replicas
      BY <1>1, <1>3 DEF Ahead, Static
    <3>3. CASE k = n /\ p = q
      <4>1. q \in Ahead(p, k) \ Ahead(p, k)'
        BY <1>1, <1>2, <1>3, <3>3 DEF Ahead
      <4> QED
        BY <2>1, <2>2, <3>1, <3>2, <4>1, Shrinks
    <3>4. CASE ~(k = n /\ p = q)
      BY <2>1, <2>2, <2>4, <3>1, <3>2, <3>4, Shrinks
    <3> QED
      BY <3>3, <3>4
  <2> QED
    BY <2>2, <2>3, <2>4
<1> QED
  BY <1>4, <1>5, <1>6 DEF PushInv

\* The adapter hands a push to the sockets of one replica.
LEMMA AdapterStep ==
  ASSUME TypeOK, PushInv, TypeOK', NEW m \in broadcast, AdapterDelivers(m)
  PROVE  PushInv'
<1> DEFINE q == m.to
           n == m.n
<1>1. /\ q \in Replicas /\ n \in Notifications /\ m.from \in Replicas
      /\ m = [n |-> n, from |-> m.from, to |-> q]
      /\ Static /\ row' = row /\ channel' = channel
      /\ broadcast' = broadcast \ {m} /\ EmitToRoom(q, n)
  BY DEF AdapterDelivers, TypeOK, BroadcastMessage
<1>2. \A i \in channel : ~(i.n = n /\ i.to = m.from)
  BY DEF PushInv, MessageInv
<1>3. RowInv'
  <2>1. row[n].pc = "done"
    BY <1>1 DEF PushInv, RowInv
  <2>2. ASSUME NEW k \in Notifications, row[k].pc # "done", NEW c \in Clients
        PROVE  client'[c].pushed[k] = 0
    BY <1>1, <2>1, <2>2, RoomCount DEF PushInv, RowInv
  <2> QED
    BY <1>1, <2>2 DEF PushInv, RowInv, Static
<1>4. MessageInv'
  BY <1>1 DEF PushInv, MessageInv, Static
<1>5. CountInv'
  <2> SUFFICES ASSUME NEW c \in Clients, NEW k \in Notifications
               PROVE  /\ client'[c].at = None => client'[c].pushed[k] = 0
                      /\ \A p \in Replicas : client'[c].at = p =>
                           client'[c].pushed[k] + Cardinality(Ahead(p, k)') <= Copies'
    BY DEF CountInv
  <2>1. /\ client'[c].at = client[c].at
        /\ client[c].pushed[k] \in Nat
        /\ client'[c].pushed[k] \in {client[c].pushed[k], client[c].pushed[k] + 1}
        /\ k # n \/ client[c].at # q => client'[c].pushed[k] = client[c].pushed[k]
    BY <1>1, RoomCount
  <2>2. Copies' = Copies /\ Copies \in Int
    BY <1>1, FS_CardinalityType, ConstantsAssumption DEF Copies, Static
  <2>3. ASSUME client'[c].at = None
        PROVE  client'[c].pushed[k] = 0
    BY <1>1, <2>1, <2>3, ConstantsAssumption DEF PushInv, CountInv
  <2>4. ASSUME NEW p \in Replicas, client'[c].at = p
        PROVE  client'[c].pushed[k] + Cardinality(Ahead(p, k)') <= Copies
    <3>1. client[c].pushed[k] + Cardinality(Ahead(p, k)) <= Copies
      BY <2>1, <2>4 DEF PushInv, CountInv
    <3>2. Ahead(p, k)' \subseteq Ahead(p, k) /\ Ahead(p, k) \subseteq Replicas
      BY <1>1 DEF Ahead, Static
    <3>3. CASE k = n /\ p = q
      <4>1. m.from \in Ahead(p, k) \ Ahead(p, k)'
        BY <1>1, <1>2, <3>3 DEF Ahead
      <4> QED
        BY <2>1, <2>2, <3>1, <3>2, <4>1, Shrinks
    <3>4. CASE ~(k = n /\ p = q)
      BY <2>1, <2>2, <2>4, <3>1, <3>2, <3>4, Shrinks
    <3> QED
      BY <3>3, <3>4
  <2> QED
    BY <2>2, <2>3, <2>4
<1> QED
  BY <1>3, <1>4, <1>5 DEF PushInv

\* A replica emits what it has created: there is no queue, so that push is the
\* first one and no other replica starts another.
LEMMA EmitInApiStep ==
  ASSUME TypeOK, PushInv, TypeOK', NEW n \in Notifications, EmitInApi(n)
  PROVE  PushInv'
<1> DEFINE q == row[n].at
<1>1. /\ q \in Replicas /\ ~queueEnabled /\ Static
      /\ row' = [row EXCEPT ![n].pc = "done"] /\ channel' = channel /\ EmitToRoom(q, n)
      /\ broadcast' = broadcast \cup {[n |-> n, from |-> q, to |-> r] : r \in AdapterReaches(q)}
  BY ConstantsAssumption
  DEF EmitInApi, PushNotification, TypeOK, Row, Processes, PushInv, RowInv
<1>2. /\ channel = {} /\ \A b \in broadcast : b.n # n
      /\ \A c \in Clients : client[c].pushed[n] = 0
  BY <1>1 DEF EmitInApi, PushInv, RowInv, MessageInv
<1>3. \A r \in AdapterReaches(q) : r \in Replicas \ {q} /\ adapter
  BY DEF AdapterReaches
<1>4. /\ row'[n].pc = "done" /\ \A k \in Notifications : row'[k].at = row[k].at
      /\ \A k \in Notifications \ {n} : row'[k] = row[k]
  BY <1>1 DEF TypeOK, Row
<1>5. RowInv'
  <2> SUFFICES ASSUME NEW k \in Notifications
               PROVE  /\ row'[k].at \in Replicas => ~queueEnabled
                      /\ row'[k].pc = "publishing" => queueEnabled
                      /\ row'[k].pc # "done" =>
                           /\ \A i \in channel' \cup broadcast' : i.n # k
                           /\ \A c \in Clients : client'[c].pushed[k] = 0
    BY <1>1 DEF RowInv, Static
  <2>1. CASE k = n
    BY <1>1, <1>4, <2>1
  <2>2. CASE k # n
    <3>1. ASSUME NEW c \in Clients
          PROVE  client'[c].pushed[k] = client[c].pushed[k]
      BY <1>1, <2>2, RoomCount
    <3>2. ASSUME NEW i \in channel' \cup broadcast', i.n = k
          PROVE  i \in channel \cup broadcast
      BY <1>1, <2>2, <3>2
    <3> QED
      BY <1>4, <2>2, <3>1, <3>2 DEF PushInv, RowInv
  <2> QED
    BY <2>1, <2>2
<1>6. MessageInv'
  <2>1. ASSUME NEW b \in broadcast'
        PROVE  b.from # b.to /\ adapter' /\ (~queueEnabled' => b.from = row'[b.n].at)
    <3>1. CASE b \in broadcast
      BY <1>1, <1>4, <3>1 DEF PushInv, MessageInv, Static, TypeOK, BroadcastMessage
    <3>2. CASE b \notin broadcast
      BY <1>1, <1>3, <1>4, <3>2 DEF Static
    <3> QED
      BY <3>1, <3>2
  <2> QED
    BY <1>1, <1>2, <2>1 DEF MessageInv
<1>7. CountInv'
  <2> SUFFICES ASSUME NEW c \in Clients, NEW k \in Notifications
               PROVE  /\ client'[c].at = None => client'[c].pushed[k] = 0
                      /\ \A p \in Replicas : client'[c].at = p =>
                           client'[c].pushed[k] + Cardinality(Ahead(p, k)') <= Copies'
    BY DEF CountInv
  <2>1. /\ client'[c].at = client[c].at
        /\ client[c].pushed[k] \in Nat
        /\ client'[c].pushed[k] \in {client[c].pushed[k], client[c].pushed[k] + 1}
        /\ k # n \/ client[c].at # q => client'[c].pushed[k] = client[c].pushed[k]
    BY <1>1, RoomCount
  <2>2. Copies = 1 /\ Copies' = 1
    BY <1>1 DEF Copies, Static
  <2>3. ASSUME client'[c].at = None
        PROVE  client'[c].pushed[k] = 0
    BY <1>1, <2>1, <2>3, ConstantsAssumption DEF PushInv, CountInv
  <2>4. ASSUME NEW p \in Replicas, client'[c].at = p
        PROVE  client'[c].pushed[k] + Cardinality(Ahead(p, k)') <= 1
    <3>1. client[c].pushed[k] + Cardinality(Ahead(p, k)) <= 1
      BY <2>1, <2>2, <2>4 DEF PushInv, CountInv
    <3>2. CASE k # n
      <4>1. Ahead(p, k)' \subseteq Ahead(p, k) /\ Ahead(p, k) \subseteq Replicas
        BY <1>1, <3>2 DEF Ahead, Static
      <4> QED
        BY <2>1, <3>1, <3>2, <4>1, Shrinks
    <3>3. CASE k = n /\ p = q
      <4>1. Ahead(p, k)' = {}
        BY <1>1, <1>2, <1>3, <3>3 DEF Ahead
      <4>2. Cardinality(Ahead(p, k)') = 0
        BY <4>1, FS_EmptySet
      <4> QED
        BY <1>2, <2>1, <3>3, <4>2
    <3>4. CASE k = n /\ p # q
      <4>1. AheadBounded'
        BY <1>6, AheadBound, PTL
      <4>2. Cardinality(Ahead(p, k)') <= 1
        BY <2>2, <4>1 DEF AheadBounded
      <4>3. client'[c].pushed[k] = 0
        BY <1>2, <2>1, <2>4, <3>4
      <4>4. Cardinality(Ahead(p, k)') \in Nat
        <5>1. Ahead(p, k)' \subseteq Replicas
          BY DEF Ahead
        <5> QED
          BY <5>1, Shrinks
      <4> QED
        BY <4>2, <4>3, <4>4
    <3> QED
      BY <3>2, <3>3, <3>4
  <2> QED
    BY <2>2, <2>3, <2>4
<1> QED
  BY <1>5, <1>6, <1>7 DEF PushInv

\* The steps of a notification before its first push.
LEMMA WorkerStep ==
  ASSUME TypeOK, PushInv, TypeOK', NEW n \in Notifications, EmitInWorker(n) \/ Publish(n)
  PROVE  PushInv'
<1>1. /\ Static /\ client' = client /\ broadcast' = broadcast
      /\ channel \subseteq channel'
      /\ \A m \in channel' \ channel : m.n = n /\ queueEnabled /\ row'[n].pc = "done"
  <2>1. CASE EmitInWorker(n)
    BY <2>1 DEF EmitInWorker
  <2>2. CASE Publish(n)
    <3>1. row[n].pc = "publishing" /\ row'[n].pc = "done"
      BY <2>2 DEF Publish, TypeOK, Row
    <3>2. queueEnabled
      BY <3>1 DEF PushInv, RowInv
    <3> QED
      BY <2>2, <3>1, <3>2 DEF Publish
  <2> QED
    BY <2>1, <2>2
<1>2. /\ \A m \in channel \cup broadcast : m.n # n
      /\ \A c \in Clients : client[c].pushed[n] = 0
  BY DEF EmitInWorker, Publish, PushInv, RowInv
<1>3. /\ \A k \in Notifications : row'[k].at = row[k].at
      /\ \A k \in Notifications \ {n} : row'[k] = row[k]
      /\ row'[n].pc = "publishing" => queueEnabled
  <2>1. CASE EmitInWorker(n)
    BY <2>1 DEF EmitInWorker, TypeOK, Row
  <2>2. CASE Publish(n)
    BY <2>2 DEF Publish, TypeOK, Row
  <2> QED
    BY <2>1, <2>2
<1>4. RowInv'
  <2> SUFFICES ASSUME NEW k \in Notifications
               PROVE  /\ row'[k].at \in Replicas => ~queueEnabled
                      /\ row'[k].pc = "publishing" => queueEnabled
                      /\ row'[k].pc # "done" =>
                           /\ \A i \in channel' \cup broadcast' : i.n # k
                           /\ \A c \in Clients : client'[c].pushed[k] = 0
    BY <1>1 DEF RowInv, Static
  <2>1. CASE k = n
    BY <1>1, <1>2, <1>3, <2>1 DEF PushInv, RowInv
  <2>2. CASE k # n
    BY <1>1, <1>3, <2>2 DEF PushInv, RowInv
  <2> QED
    BY <2>1, <2>2
<1>5. MessageInv'
  <2>1. \A b \in broadcast : b.n \in Notifications
    BY DEF TypeOK, BroadcastMessage
  <2> QED
    BY <1>1, <1>2, <1>3, <2>1 DEF PushInv, MessageInv, Static
<1>6. ASSUME NEW k \in Notifications, k # n, NEW p \in Replicas
      PROVE  Ahead(p, k)' \subseteq Ahead(p, k)
  <2>1. \A q : [n |-> k, to |-> q] \in channel' => [n |-> k, to |-> q] \in channel
    BY <1>1, <1>6
  <2> QED
    BY <1>1, <2>1 DEF Ahead, Static
<1>7. CountInv'
  BY <1>1, <1>2, <1>5, <1>6, QuietStep
<1> QED
  BY <1>4, <1>5, <1>7 DEF PushInv

LEMMA CreateStep ==
  ASSUME TypeOK, PushInv, TypeOK', NEW n \in Notifications, NEW u \in Users,
         NEW p \in Processes, Create(n, u, p)
  PROVE  PushInv'
<1>1. /\ Static /\ channel' = channel /\ broadcast' = broadcast
      /\ row' = [row EXCEPT ![n] = [pc |-> "saved", to |-> u, at |-> p]]
      /\ p \in Replicas => ~queueEnabled
  BY ConstantsAssumption DEF Create, Creators
<1>2. \A c \in Clients : client'[c].at = client[c].at /\ client'[c].pushed = client[c].pushed
  BY DEF Create, TypeOK, Connection
<1>3. /\ \A m \in channel \cup broadcast : m.n # n
      /\ \A c \in Clients : client[c].pushed[n] = 0
  BY DEF Create, PushInv, RowInv
<1>4. /\ row'[n] = [pc |-> "saved", to |-> u, at |-> p]
      /\ \A k \in Notifications \ {n} : row'[k] = row[k]
  BY <1>1 DEF TypeOK
<1>5. RowInv'
  BY <1>1, <1>2, <1>3, <1>4 DEF PushInv, RowInv, Static
<1>6. MessageInv'
  <2>1. \A b \in broadcast : b.n \in Notifications
    BY DEF TypeOK, BroadcastMessage
  <2> QED
    BY <1>1, <1>3, <1>4, <2>1 DEF PushInv, MessageInv, Static
<1>7. \A q \in Replicas, k \in Notifications : Ahead(q, k)' \subseteq Ahead(q, k)
  BY <1>1 DEF Ahead, Static
<1>8. CountInv'
  BY <1>1, <1>2, <1>6, <1>7, QuietStep
<1> QED
  BY <1>5, <1>6, <1>8 DEF PushInv

\* Connections come and go, subscriptions too, and messages and processes are
\* lost.
LEMMA OutsideStep ==
  ASSUME TypeOK, PushInv, TypeOK', Static,
         channel' \subseteq channel, broadcast' \subseteq broadcast,
         \A n \in Notifications : /\ row'[n].at = row[n].at
                                  /\ row'[n].pc \in {row[n].pc, "done"},
         \A c \in Clients, n \in Notifications :
           \/ client'[c].pushed[n] = 0
           \/ client'[c].at = client[c].at /\ client'[c].pushed[n] = client[c].pushed[n]
  PROVE  PushInv'
<1>1. RowInv'
  BY DEF PushInv, RowInv, Static
<1>2. MessageInv'
  <2>1. \A b \in broadcast : b.n \in Notifications
    BY DEF TypeOK, BroadcastMessage
  <2> QED
    BY <2>1 DEF PushInv, MessageInv, Static
<1>3. \A p \in Replicas, n \in Notifications : Ahead(p, n)' \subseteq Ahead(p, n)
  BY DEF Ahead, Static
<1>4. CountInv'
  BY <1>2, <1>3, QuietStep
<1> QED
  BY <1>1, <1>2, <1>4 DEF PushInv

LEMMA PushStep == TypeOK /\ PushInv /\ TypeOK' /\ [Next]_vars => PushInv'
<1> SUFFICES ASSUME TypeOK, PushInv, TypeOK', [Next]_vars PROVE PushInv'
  OBVIOUS
<1>1. ASSUME NEW n \in Notifications, Emit(n)
      PROVE  PushInv'
  BY <1>1, EmitInApiStep, WorkerStep DEF Emit
<1>2. ASSUME NEW n \in Notifications, NEW u \in Users, NEW p \in Processes, Create(n, u, p)
      PROVE  PushInv'
  BY <1>2, CreateStep
<1>3. CASE Deliver
  BY <1>3, HandleStep, AdapterStep DEF Deliver
<1>4. ASSUME NEW c \in Clients,
             \/ HandleConnection(c) \/ Disconnect(c)
             \/ \E p \in Replicas, user \in Users \cup {None} : Connect(c, p, user)
      PROVE  PushInv'
  <2>1. Static /\ row' = row /\ channel' = channel /\ broadcast' = broadcast
    BY <1>4 DEF HandleConnection, Disconnect, Connect
  <2>2. ASSUME NEW d \in Clients, NEW n \in Notifications
        PROVE  \/ client'[d].pushed[n] = 0
               \/ client'[d].at = client[d].at /\ client'[d].pushed[n] = client[d].pushed[n]
    <3>1. CASE HandleConnection(c)
      <4>1. client'[d] \in {client[d], [client[d] EXCEPT !.pc = "joined"], Off}
        BY <3>1 DEF HandleConnection, TypeOK
      <4>2. client[d] \in [pc : {"off", "verifying", "joined"}, at : Replicas \cup {None},
                           user : Users \cup {None}, pushed : [Notifications -> Nat],
                           due : SUBSET Notifications]
        BY DEF TypeOK, Connection
      <4>3. CASE client'[d] = [client[d] EXCEPT !.pc = "joined"]
        BY <4>2, <4>3
      <4>4. CASE client'[d] = Off
        BY <4>4 DEF Off
      <4> QED
        BY <4>1, <4>3, <4>4
    <3>2. CASE Disconnect(c)
      BY <3>2 DEF Disconnect, Off, TypeOK
    <3>3. ASSUME NEW p \in Replicas, NEW user \in Users \cup {None}, Connect(c, p, user)
          PROVE  \/ client'[d].pushed[n] = 0
                 \/ client'[d].at = client[d].at /\ client'[d].pushed[n] = client[d].pushed[n]
      <4>1. client'[d] = client[d] \/ client'[d].pushed = Off.pushed
        BY <3>3 DEF Connect, Off, TypeOK
      <4> QED
        BY <4>1 DEF Off
    <3> QED
      BY <1>4, <3>1, <3>2, <3>3
  <2> QED
    BY <2>1, <2>2, OutsideStep
<1>5. ASSUME NEW p \in Replicas, NEW l \in Link, LoseConnection(p, l) \/ Resubscribe(p, l)
      PROVE  PushInv'
  BY <1>5, OutsideStep DEF LoseConnection, Resubscribe
<1>6. ASSUME NEW p \in Processes, Restart(p)
      PROVE  PushInv'
  <2>1. /\ Static /\ channel' \subseteq channel /\ broadcast' \subseteq broadcast
        /\ \A c \in Clients : client'[c] \in {client[c], Off}
    BY <1>6 DEF Restart
  <2>2. \A n \in Notifications : row'[n].at = row[n].at /\ row'[n].pc \in {row[n].pc, "done"}
    BY <1>6 DEF Restart, TypeOK, Row
  <2> QED
    BY <2>1, <2>2, OutsideStep DEF Off
<1>7. CASE UNCHANGED vars
  BY <1>7, OutsideStep DEF vars, Static
<1> QED
  BY <1>1, <1>2, <1>3, <1>4, <1>5, <1>6, <1>7 DEF Next

LEMMA PushInit == Init => PushInv
<1> SUFFICES ASSUME Init PROVE PushInv
  OBVIOUS
<1>1. RowInv /\ MessageInv
  BY ConstantsAssumption DEF Init, RowInv, MessageInv, NoRow, Off
<1>2. CountInv
  BY ConstantsAssumption DEF Init, CountInv, Off
<1> QED
  BY <1>1, <1>2 DEF PushInv

\* However many replicas, clients, reconnections and restarts: a connection is
\* pushed a notification once, or once per replica with both the queue and the
\* Redis adapter (handleMessage, pushNotification, RedisIoAdapter).
THEOREM PushesAreBoundedCorrect == Spec => []PushesAreBounded
<1>1. Init => PushInv
  BY PushInit
<1>2. TypeOK /\ PushInv => PushesAreBounded
  <2> SUFFICES ASSUME TypeOK, PushInv, NEW c \in Clients, NEW n \in Notifications
               PROVE  client[c].pushed[n] <= Copies
    BY DEF PushesAreBounded
  <2>1. client[c].pushed[n] \in Nat /\ client[c].at \in Replicas \cup {None}
    BY DEF TypeOK, Connection
  <2>2. Copies \in Nat
    BY FS_CardinalityType, ConstantsAssumption DEF Copies
  <2>3. CASE client[c].at = None
    BY <2>2, <2>3 DEF PushInv, CountInv
  <2>4. CASE client[c].at \in Replicas
    <3>1. Ahead(client[c].at, n) \subseteq Replicas
      BY DEF Ahead
    <3>2. Cardinality(Ahead(client[c].at, n)) \in Nat
      BY <3>1, Shrinks
    <3> QED
      BY <2>1, <2>2, <2>4, <3>2 DEF PushInv, CountInv
  <2> QED
    BY <2>1, <2>3, <2>4
<1> QED
  BY <1>1, <1>2, PushStep, TypeCorrect, PTL DEF Spec

-----------------------------------------------------------------------------
(* Where a notification is that a socket is still to get.                   *)

\* A notification a socket is to get is one of its user, inserted while the
\* socket was in the room, and has been pushed or is on its way.
DueOK(c, n) ==
  n \in client[c].due =>
    /\ client[c].pc = "joined" /\ client[c].user = row[n].to
    /\ row[n].pc # "none"
    /\ HasPath(n, client[c].at) /\ n \notin lost
         => client[c].pushed[n] > 0 \/ OnItsWay(n, client[c].at)

DueInv == \A c \in Clients, n \in Notifications : DueOK(c, n)

\* A step that leaves the connection, where the notification was created and
\* what is lost has only to leave it on its way, or to push it.
LEMMA DueKept ==
  ASSUME NEW c \in Clients, NEW n \in Notifications, DueOK(c, n), Static,
         client'[c].due = client[c].due, client'[c].pc = client[c].pc,
         client'[c].user = client[c].user, client'[c].at = client[c].at,
         row'[n].to = row[n].to, row'[n].at = row[n].at,
         row[n].pc # "none" => row'[n].pc # "none",
         lost \subseteq lost',
         client[c].pushed[n] > 0 => client'[c].pushed[n] > 0,
         n \in client[c].due /\ HasPath(n, client[c].at) /\ OnItsWay(n, client[c].at)
           => client'[c].pushed[n] > 0 \/ n \in lost' \/ OnItsWay(n, client[c].at)'
  PROVE  DueOK(c, n)'
<1> SUFFICES ASSUME n \in client'[c].due
             PROVE  /\ client'[c].pc = "joined" /\ client'[c].user = row'[n].to
                    /\ row'[n].pc # "none"
                    /\ HasPath(n, client[c].at)' /\ n \notin lost'
                         => client'[c].pushed[n] > 0 \/ OnItsWay(n, client[c].at)'
  BY DEF DueOK, OnItsWay, HasPath
<1>1. HasPath(n, client[c].at)' => HasPath(n, client[c].at)
  BY DEF HasPath, Static
<1> QED
  BY <1>1 DEF DueOK

\* A push leaves the connections, and reaches a socket of the replica for which
\* the notification is due.
LEMMA PushReaches ==
  ASSUME TypeOK, DueInv, NEW p \in Replicas, NEW k \in Notifications, EmitToRoom(p, k),
         NEW c \in Clients, NEW n \in Notifications
  PROVE  /\ client'[c].due = client[c].due /\ client'[c].pc = client[c].pc
         /\ client'[c].user = client[c].user /\ client'[c].at = client[c].at
         /\ client[c].pushed[n] > 0 => client'[c].pushed[n] > 0
         /\ n = k /\ n \in client[c].due /\ client[c].at = p => client'[c].pushed[n] > 0
<1>1. client[c] \in Connection /\ client[c].pushed \in [Notifications -> Nat]
  BY DEF TypeOK, Connection
<1>2. client'[c] = IF InRoom(c, p, row[k].to) THEN [client[c] EXCEPT !.pushed[k] = @ + 1]
                   ELSE client[c]
  BY DEF EmitToRoom
<1>3. n \in client[c].due => client[c].pc = "joined" /\ client[c].user = row[n].to
  BY DEF DueInv, DueOK
<1>4. CASE InRoom(c, p, row[k].to)
  <2>1. client'[c] = [client[c] EXCEPT !.pushed[k] = @ + 1]
    BY <1>2, <1>4
  <2>2. /\ client'[c].due = client[c].due /\ client'[c].pc = client[c].pc
        /\ client'[c].user = client[c].user /\ client'[c].at = client[c].at
        /\ client'[c].pushed = [client[c].pushed EXCEPT ![k] = @ + 1]
    BY <1>1, <2>1 DEF Connection
  <2> QED
    BY <1>1, <2>2
<1>5. CASE ~InRoom(c, p, row[k].to)
  BY <1>2, <1>3, <1>5 DEF InRoom
<1> QED
  BY <1>4, <1>5

\* A replica pushes: to its own sockets now, and to those of another replica
\* through the adapter, or not at all where it misses one.
LEMMA ReplicaPushes ==
  ASSUME TypeOK, DueInv, Static, NEW p \in Replicas, NEW k \in Notifications,
         PushNotification(p, k), NEW c \in Clients, k \in client[c].due
  PROVE  \/ client'[c].pushed[k] > 0
         \/ client[c].at # p /\ ~adapter
         \/ k \in lost'
         \/ [n |-> k, from |-> p, to |-> client[c].at] \in broadcast'
<1>1. client[c].at \in Replicas
  BY DEF TypeOK, Connection, DueInv, DueOK
<1>2. CASE client[c].at = p
  BY <1>2, PushReaches DEF PushNotification
<1>3. CASE client[c].at # p /\ adapter
  BY <1>1, <1>3 DEF PushNotification, AdapterMisses, AdapterReaches
<1> QED
  BY <1>2, <1>3

LEMMA DueEmitInApi ==
  ASSUME TypeOK, PushInv, DueInv, NEW k \in Notifications, EmitInApi(k)
  PROVE  DueInv'
<1> DEFINE p == row[k].at
<1>1. p \in Replicas /\ ~queueEnabled
  BY DEF EmitInApi, TypeOK, Row, Processes, PushInv, RowInv
<1>2. /\ Static /\ PushNotification(p, k) /\ EmitToRoom(p, k) /\ channel' = channel
      /\ row' = [row EXCEPT ![k].pc = "done"]
      /\ broadcast \subseteq broadcast' /\ lost \subseteq lost'
  BY DEF EmitInApi, PushNotification
<1> SUFFICES ASSUME NEW c \in Clients, NEW n \in Notifications PROVE DueOK(c, n)'
  BY DEF DueInv
<1>3. /\ DueOK(c, n) /\ row'[n].to = row[n].to /\ row'[n].at = row[n].at
      /\ row[n].pc # "none" => row'[n].pc # "none"
      /\ n # k => row'[n] = row[n]
  BY <1>2 DEF DueInv, TypeOK, Row
<1>4. ASSUME n \in client[c].due, HasPath(n, client[c].at), OnItsWay(n, client[c].at)
      PROVE  client'[c].pushed[n] > 0 \/ n \in lost' \/ OnItsWay(n, client[c].at)'
  <2>1. /\ client'[c].at = client[c].at /\ client[c].at \in Replicas
    BY <1>1, <1>2, <1>4, PushReaches DEF TypeOK, Connection, DueInv, DueOK
  <2>2. CASE n = k
    <3>1. client[c].at = p \/ adapter
      BY <1>1, <1>4, <2>2 DEF HasPath
    <3> QED
      BY <1>1, <1>2, <1>4, <2>1, <2>2, <3>1, ReplicaPushes DEF OnItsWay
  <2>3. CASE n # k
    BY <1>2, <1>3, <1>4, <2>1, <2>3 DEF OnItsWay
  <2> QED
    BY <2>2, <2>3
<1> QED
  BY <1>1, <1>2, <1>3, <1>4, PushReaches, DueKept

LEMMA DueWorker ==
  ASSUME TypeOK, PushInv, DueInv, NEW k \in Notifications, EmitInWorker(k) \/ Publish(k)
  PROVE  DueInv'
<1>1. /\ Static /\ client' = client /\ broadcast' = broadcast
      /\ channel \subseteq channel' /\ lost \subseteq lost'
      /\ \A n \in Notifications : /\ row'[n].to = row[n].to /\ row'[n].at = row[n].at
                                  /\ row[n].pc # "none" => row'[n].pc # "none"
                                  /\ n # k => row'[n] = row[n]
  BY DEF EmitInWorker, Publish, TypeOK, Row
<1> SUFFICES ASSUME NEW c \in Clients, NEW n \in Notifications PROVE DueOK(c, n)'
  BY DEF DueInv
<1>2. DueOK(c, n)
  BY DEF DueInv
<1>3. ASSUME n \in client[c].due, HasPath(n, client[c].at), OnItsWay(n, client[c].at)
      PROVE  n \in lost' \/ OnItsWay(n, client[c].at)'
  <2>1. client[c].at \in Replicas
    BY <1>3 DEF TypeOK, Connection, DueInv, DueOK
  <2>2. CASE n = k /\ EmitInWorker(k)
    <3>1. queueEnabled
      BY <1>3, <2>1, <2>2, ConstantsAssumption DEF EmitInWorker, HasPath, ConstantsAssumption
    <3>2. row'[n].pc = "publishing"
      BY <2>2, <3>1 DEF EmitInWorker, TypeOK, Row
    <3> QED
      BY <3>2 DEF OnItsWay
  <2>3. CASE n = k /\ Publish(k)
    <3>1. k \in lost' \/ [n |-> k, to |-> client[c].at] \in channel'
      BY <2>1, <2>3 DEF Publish
    <3> QED
      BY <1>1, <2>3, <3>1 DEF OnItsWay
  <2>4. CASE n # k
    BY <1>1, <1>3, <2>4 DEF OnItsWay
  <2> QED
    BY <2>2, <2>3, <2>4
<1> QED
  BY <1>1, <1>2, <1>3, DueKept

\* A notification is due from its insertion, to be emitted then.
LEMMA DueCreate ==
  ASSUME TypeOK, DueInv, NEW k \in Notifications, NEW u \in Users, NEW p \in Processes,
         Create(k, u, p)
  PROVE  DueInv'
<1>1. /\ Static /\ channel' = channel /\ broadcast' = broadcast /\ lost' = lost
      /\ row[k].pc = "none" /\ row'[k] = [pc |-> "saved", to |-> u, at |-> p]
      /\ \A n \in Notifications \ {k} : row'[n] = row[n]
  BY DEF Create, TypeOK
<1> SUFFICES ASSUME NEW c \in Clients, NEW n \in Notifications PROVE DueOK(c, n)'
  BY DEF DueInv
<1>2. /\ client'[c].pc = client[c].pc /\ client'[c].user = client[c].user
      /\ client'[c].at = client[c].at /\ client'[c].pushed = client[c].pushed
      /\ n # k => (n \in client'[c].due <=> n \in client[c].due)
      /\ k \in client'[c].due \ client[c].due =>
           client[c].pc = "joined" /\ client[c].user = u
  BY DEF Create, TypeOK, Connection
<1>3. DueOK(c, n)
  BY DEF DueInv
<1>4. CASE n = k
  BY <1>1, <1>2, <1>3, <1>4 DEF DueOK, OnItsWay
<1>5. CASE n # k
  <2>1. row'[n] = row[n] /\ (OnItsWay(n, client[c].at) => OnItsWay(n, client[c].at)')
    BY <1>1, <1>2, <1>5 DEF OnItsWay
  <2>2. HasPath(n, client[c].at)' <=> HasPath(n, client[c].at)
    BY <1>1, <1>2, <2>1 DEF HasPath, Static
  <2> QED
    BY <1>1, <1>2, <1>3, <1>5, <2>1, <2>2 DEF DueOK
<1> QED
  BY <1>4, <1>5

LEMMA DueHandle ==
  ASSUME TypeOK, DueInv, NEW m \in channel, HandleMessage(m)
  PROVE  DueInv'
<1>1. m.to \in Replicas /\ m.n \in Notifications /\ m = [n |-> m.n, to |-> m.to]
  BY DEF TypeOK, ChannelMessage
<1>2. /\ Static /\ EmitToRoom(m.to, m.n) /\ row' = row /\ channel' = channel \ {m}
      /\ broadcast \subseteq broadcast' /\ lost \subseteq lost'
  BY DEF HandleMessage, PushNotification
<1> SUFFICES ASSUME NEW c \in Clients, NEW n \in Notifications PROVE DueOK(c, n)'
  BY DEF DueInv
<1>3. DueOK(c, n)
  BY DEF DueInv
<1>4. ASSUME n \in client[c].due, OnItsWay(n, client[c].at)
      PROVE  client'[c].pushed[n] > 0 \/ OnItsWay(n, client[c].at)'
  <2>1. client'[c].at = client[c].at
    BY <1>1, <1>2, PushReaches
  <2>2. CASE n = m.n /\ client[c].at = m.to
    BY <1>1, <1>2, <1>4, <2>2, PushReaches
  <2>3. CASE ~(n = m.n /\ client[c].at = m.to)
    <3>1. [n |-> n, to |-> client[c].at] \in channel => [n |-> n, to |-> client[c].at] \in channel'
      BY <1>2, <2>3
    <3> QED
      BY <1>2, <1>4, <2>1, <3>1 DEF OnItsWay
  <2> QED
    BY <2>2, <2>3
<1> QED
  BY <1>1, <1>2, <1>3, <1>4, PushReaches, DueKept

LEMMA DueAdapter ==
  ASSUME TypeOK, DueInv, NEW m \in broadcast, AdapterDelivers(m)
  PROVE  DueInv'
<1>1. m.to \in Replicas /\ m.n \in Notifications
  BY DEF TypeOK, BroadcastMessage
<1>2. /\ Static /\ EmitToRoom(m.to, m.n) /\ row' = row /\ channel' = channel
      /\ broadcast' = broadcast \ {m} /\ lost' = lost
  BY DEF AdapterDelivers
<1> SUFFICES ASSUME NEW c \in Clients, NEW n \in Notifications PROVE DueOK(c, n)'
  BY DEF DueInv
<1>3. DueOK(c, n)
  BY DEF DueInv
<1>4. ASSUME n \in client[c].due, OnItsWay(n, client[c].at)
      PROVE  client'[c].pushed[n] > 0 \/ OnItsWay(n, client[c].at)'
  <2>1. client'[c].at = client[c].at
    BY <1>1, <1>2, PushReaches
  <2>2. CASE n = m.n /\ client[c].at = m.to
    BY <1>1, <1>2, <1>4, <2>2, PushReaches
  <2>3. CASE ~(n = m.n /\ client[c].at = m.to)
    <3>1. ASSUME NEW q \in Replicas, [n |-> n, from |-> q, to |-> client[c].at] \in broadcast
          PROVE  [n |-> n, from |-> q, to |-> client[c].at] \in broadcast'
      BY <1>2, <2>3, <3>1
    <3> QED
      BY <1>2, <1>4, <2>1, <3>1 DEF OnItsWay
  <2> QED
    BY <2>2, <2>3
<1> QED
  BY <1>1, <1>2, <1>3, <1>4, PushReaches, DueKept

\* A connection that is opened, authenticated or closed has nothing due yet.
LEMMA DueConnection ==
  ASSUME TypeOK, DueInv, NEW d \in Clients,
         \/ HandleConnection(d) \/ Disconnect(d)
         \/ \E p \in Replicas, user \in Users \cup {None} : Connect(d, p, user)
  PROVE  DueInv'
<1>1. /\ Static /\ UNCHANGED <<row, channel, broadcast, lost>>
      /\ \A c \in Clients \ {d} : client'[c] = client[c]
  BY DEF HandleConnection, Disconnect, Connect, TypeOK
<1>2. \A n \in Notifications : n \notin client'[d].due
  <2>1. CASE HandleConnection(d)
    <3>1. \A n \in Notifications : n \notin client[d].due
      BY <2>1 DEF HandleConnection, DueInv, DueOK
    <3>2. client'[d] \in {[client[d] EXCEPT !.pc = "joined"], Off}
      BY <2>1 DEF HandleConnection, TypeOK
    <3>3. [client[d] EXCEPT !.pc = "joined"].due = client[d].due /\ Off.due = {}
      BY DEF TypeOK, Connection, Off
    <3> QED
      BY <3>1, <3>2, <3>3
  <2>2. CASE Disconnect(d)
    BY <2>2 DEF Disconnect, TypeOK, Off
  <2>3. ASSUME NEW p \in Replicas, NEW user \in Users \cup {None}, Connect(d, p, user)
        PROVE  client'[d].due = {}
    BY <2>3 DEF Connect, TypeOK, Off
  <2> QED
    BY <2>1, <2>2, <2>3
<1> SUFFICES ASSUME NEW c \in Clients, NEW n \in Notifications PROVE DueOK(c, n)'
  BY DEF DueInv
<1>3. CASE c = d
  BY <1>2, <1>3 DEF DueOK
<1>4. CASE c # d
  <2>1. DueOK(c, n) /\ client'[c] = client[c]
    BY <1>1, <1>4 DEF DueInv
  <2>2. OnItsWay(n, client[c].at) => OnItsWay(n, client[c].at)'
    BY <1>1, <2>1 DEF OnItsWay
  <2> QED
    BY <1>1, <2>1, <2>2, DueKept
<1> QED
  BY <1>3, <1>4

\* What a fault drops on its way to a replica is lost.
LEMMA DueFault ==
  ASSUME TypeOK, DueInv, Static, lost \subseteq lost',
         \A c \in Clients : client'[c] = client[c] \/ client'[c] = Off,
         \A n \in Notifications :
           /\ row'[n].to = row[n].to /\ row'[n].at = row[n].at
           /\ row[n].pc # "none" => row'[n].pc # "none"
           /\ row'[n].pc = row[n].pc \/ n \in lost',
         \A m \in channel : m \in channel' \/ m.n \in lost',
         \A m \in broadcast : m \in broadcast' \/ m.n \in lost'
  PROVE  DueInv'
<1> SUFFICES ASSUME NEW c \in Clients, NEW n \in Notifications PROVE DueOK(c, n)'
  BY DEF DueInv
<1>1. CASE client'[c] = Off
  BY <1>1 DEF DueOK, Off
<1>2. CASE client'[c] = client[c]
  <2>1. DueOK(c, n)
    BY DEF DueInv
  <2>2. [n |-> n, to |-> client[c].at] \in channel =>
          [n |-> n, to |-> client[c].at] \in channel' \/ n \in lost'
    OBVIOUS
  <2>3. \A q \in Replicas : [n |-> n, from |-> q, to |-> client[c].at] \in broadcast =>
          [n |-> n, from |-> q, to |-> client[c].at] \in broadcast' \/ n \in lost'
    OBVIOUS
  <2>4. OnItsWay(n, client[c].at) => n \in lost' \/ OnItsWay(n, client[c].at)'
    BY <1>2, <2>2, <2>3 DEF OnItsWay
  <2> QED
    BY <1>2, <2>1, <2>4, DueKept
<1> QED
  BY <1>1, <1>2

LEMMA DueStep == TypeOK /\ PushInv /\ DueInv /\ [Next]_vars => DueInv'
<1> SUFFICES ASSUME TypeOK, PushInv, DueInv, [Next]_vars PROVE DueInv'
  OBVIOUS
<1>1. ASSUME NEW p \in Replicas, NEW l \in Link, LoseConnection(p, l) \/ Resubscribe(p, l)
      PROVE  DueInv'
  <2>1. /\ Static /\ UNCHANGED <<row, client>> /\ lost \subseteq lost'
        /\ \A m \in channel : m \in channel' \/ m.n \in lost'
        /\ \A m \in broadcast : m \in broadcast' \/ m.n \in lost'
    BY <1>1 DEF LoseConnection, Resubscribe
  <2> QED
    BY <2>1, DueFault
<1>2. ASSUME NEW p \in Processes, Restart(p)
      PROVE  DueInv'
  <2>1. /\ Static /\ lost \subseteq lost'
        /\ \A c \in Clients : client'[c] = client[c] \/ client'[c] = Off
        /\ \A m \in channel : m \in channel' \/ m.n \in lost'
        /\ \A m \in broadcast : m \in broadcast' \/ m.n \in lost'
    BY <1>2 DEF Restart
  <2>2. \A n \in Notifications :
          /\ row'[n].to = row[n].to /\ row'[n].at = row[n].at
          /\ row[n].pc # "none" => row'[n].pc # "none"
          /\ row'[n].pc = row[n].pc \/ n \in lost'
    BY <1>2 DEF Restart, TypeOK, Row
  <2> QED
    BY <2>1, <2>2, DueFault
<1>3. CASE UNCHANGED vars
  BY <1>3, DueFault DEF vars, Static
<1> QED
  BY <1>1, <1>2, <1>3, DueEmitInApi, DueWorker, DueCreate, DueHandle, DueAdapter, DueConnection
     DEF Next, Emit, Deliver

\* A notification that a socket in the room is still to get is never dropped
\* silently: it is about to be emitted or published, or on its way to the very
\* replica that holds the socket, unless a fault has lost it (create, publish,
\* handleMessage, pushNotification).
THEOREM DueIsOnItsWayCorrect == Spec => []DueIsOnItsWay
<1>1. Init => DueInv
  BY DEF Init, DueInv, DueOK, Off
<1>2. DueInv => DueIsOnItsWay
  BY DEF DueInv, DueOK, DueIsOnItsWay
<1> QED
  BY <1>1, <1>2, PushInit, PushStep, DueStep, TypeCorrect, PTL DEF Spec
===============================================================================
