------------------------------- MODULE Realtime -------------------------------
(***************************************************************************)
(* From an inserted notification to the sockets of its recipient:          *)
(* NotificationsService.create emits notification.created in its process;  *)
(* in the worker RealtimePublisher publishes it on a Redis channel, in an  *)
(* API replica NotificationsGateway pushes it to the recipient's room, and *)
(* RealtimeSubscriber re-emits in each replica what the channel carries.   *)
(* With REDIS_URL the rooms are shared by Socket.IO's Redis adapter, which *)
(* repeats every push in the other replicas.                               *)
(*                                                                         *)
(* A message of Redis reaches the replicas subscribed when it is published *)
(* and no others.  Each await of the code is a boundary between actions.   *)
(***************************************************************************)
EXTENDS Integers, FiniteSets

CONSTANTS
  Notifications,  \* notification uuids
  Users,
  Replicas,       \* API processes (RUN_MODE=api)
  Worker,         \* the worker process (RUN_MODE=worker)
  Clients,        \* browsers
  Queues,         \* the values QUEUE_ENABLED may have
  Adapters,       \* whether REDIS_URL may be set
  MaxFaults,      \* bound on the faults: crashes and lost connections
  None

ASSUME ConstantsAssumption ==
  /\ IsFiniteSet(Replicas) /\ Worker \notin Replicas
  /\ Queues \subseteq BOOLEAN /\ Adapters \subseteq BOOLEAN
  /\ MaxFaults \in Nat
  /\ None \notin Users \cup Replicas \cup {Worker}

VARIABLES
  queueEnabled,  \* QUEUE_ENABLED of this deployment
  adapter,       \* whether main.ts has installed the RedisIoAdapter
  row,           \* the notifications: recipient, creating process and its progress
  channel,       \* realtime:notifications: messages on their way to a subscriber
  broadcast,     \* the adapter's channel: pushes on their way to another replica
  subscribed,    \* which of its two subscriptions each replica has
  client,        \* the connection each browser has
  lost,          \* notifications of which some message or process was lost
  faults         \* faults so far

vars == <<queueEnabled, adapter, row, channel, broadcast, subscribed, client, lost, faults>>

Link == {"channel", "adapter"}

Processes == Replicas \cup {Worker}

\* saved: inserted, notification.created not yet emitted; publishing: the
\* command PUBLISH is on its way to Redis.
Row ==
  {r \in [pc : {"none", "saved", "publishing", "done"}, to : Users \cup {None},
          at : Processes \cup {None}] : r.pc # "none" => r.at # None}

NoRow == [pc |-> "none", to |-> None, at |-> None]

\* A connection: its replica, the user of its token, and, for this
\* connection, how often each notification was pushed to it and which ones
\* were inserted while it was in its room.
Connection ==
  {k \in [pc : {"off", "verifying", "joined"}, at : Replicas \cup {None},
          user : Users \cup {None}, pushed : [Notifications -> Nat], due : SUBSET Notifications] :
     (k.pc = "off") = (k.at = None) /\ (k.pc = "joined" => k.user # None)}

Off == [pc |-> "off", at |-> None, user |-> None,
        pushed |-> [n \in Notifications |-> 0], due |-> {}]

Init ==
  /\ queueEnabled \in Queues /\ adapter \in Adapters
  /\ row = [n \in Notifications |-> NoRow]
  /\ channel = {} /\ broadcast = {}
  /\ subscribed = [p \in Replicas |-> Link]
  /\ client = [c \in Clients |-> Off]
  /\ lost = {}
  /\ faults = 0

Static == UNCHANGED <<queueEnabled, adapter>>

-----------------------------------------------------------------------------
(* The gateway.                                                            *)

InRoom(c, p, u) == client[c].pc = "joined" /\ client[c].at = p /\ client[c].user = u

\* The sockets of the recipient's room that replica p holds get the packet.
EmitToRoom(p, n) ==
  client' = [c \in Clients |-> IF InRoom(c, p, row[n].to)
                                 THEN [client[c] EXCEPT !.pushed[n] = @ + 1]
                                 ELSE client[c]]

\* The replicas other than p that receive what p publishes for the adapter.
AdapterReaches(p) ==
  IF adapter THEN {q \in Replicas \ {p} : "adapter" \in subscribed[q]} ELSE {}

AdapterMisses(p) == adapter /\ AdapterReaches(p) # Replicas \ {p}

\* The push with server.local: the adapter repeats nothing.
PushNotificationLocally(p, n) ==
  EmitToRoom(p, n) /\ UNCHANGED <<broadcast, lost>>

\* pushNotification in replica p.
PushNotification(p, n) ==
  /\ EmitToRoom(p, n)
  /\ broadcast' = broadcast \cup {[n |-> n, from |-> p, to |-> q] : q \in AdapterReaches(p)}
  /\ lost' = IF AdapterMisses(p) THEN lost \cup {n} ELSE lost

\* The adapter of another replica hands a push to its own sockets.
AdapterDelivers(m) ==
  /\ m \in broadcast
  /\ broadcast' = broadcast \ {m}
  /\ EmitToRoom(m.to, m.n)
  /\ UNCHANGED <<row, channel, subscribed, lost, faults>> /\ Static

\* A browser opens a socket; the load balancer chooses the replica.  user is
\* the one its access token will verify as, None for an expired token.
Connect(c, p, user) ==
  /\ client[c].pc = "off"
  /\ client' = [client EXCEPT ![c] = [Off EXCEPT !.pc = "verifying", !.at = p, !.user = user]]
  /\ UNCHANGED <<row, channel, broadcast, subscribed, lost, faults>> /\ Static

HandleConnectionUnchecked(c) ==
  /\ client[c].pc = "verifying"
  /\ client' = [client EXCEPT ![c].pc = "joined"]
  /\ UNCHANGED <<row, channel, broadcast, subscribed, lost, faults>> /\ Static

\* handleConnection, the token verified: the socket joins the user's room, or
\* is disconnected.
HandleConnection(c) ==
  /\ client[c].pc = "verifying"
  /\ client' = [client EXCEPT ![c] = IF @.user # None THEN [@ EXCEPT !.pc = "joined"] ELSE Off]
  /\ UNCHANGED <<row, channel, broadcast, subscribed, lost, faults>> /\ Static

\* The browser leaves, or its connection breaks.
Disconnect(c) ==
  /\ client[c].pc # "off"
  /\ client' = [client EXCEPT ![c] = Off]
  /\ UNCHANGED <<row, channel, broadcast, subscribed, lost, faults>> /\ Static

-----------------------------------------------------------------------------
(* The notification and the bridge.                                        *)

\* Where a notification is created: with the queue, by the processors of the
\* worker; without it, by the listeners and the manual scan of a replica or by
\* the cron of the worker.
Creators == IF queueEnabled THEN {Worker} ELSE Processes

\* NotificationsService.create: the row is committed.
Create(n, u, p) ==
  /\ row[n].pc = "none"
  /\ p \in Creators
  /\ row' = [row EXCEPT ![n] = [pc |-> "saved", to |-> u, at |-> p]]
  /\ client' = [c \in Clients |-> IF client[c].pc = "joined" /\ client[c].user = u
                                    THEN [client[c] EXCEPT !.due = @ \cup {n}]
                                    ELSE client[c]]
  /\ UNCHANGED <<channel, broadcast, subscribed, lost, faults>> /\ Static

\* create emits notification.created in the API: the gateway listens.
EmitInApi(n) ==
  /\ row[n].pc = "saved" /\ row[n].at # Worker
  /\ row' = [row EXCEPT ![n].pc = "done"]
  /\ PushNotification(row[n].at, n)
  /\ UNCHANGED <<channel, subscribed, faults>> /\ Static

\* A worker without the publisher.
EmitInWorkerUnpublished(n) ==
  /\ row[n].pc = "saved" /\ row[n].at = Worker
  /\ row' = [row EXCEPT ![n].pc = "done"]
  /\ UNCHANGED <<channel, broadcast, subscribed, client, lost, faults>> /\ Static

\* create emits it in the worker: its gateway has no server, and the publisher
\* is registered only with the queue.
EmitInWorker(n) ==
  /\ row[n].pc = "saved" /\ row[n].at = Worker
  /\ row' = [row EXCEPT ![n].pc = IF queueEnabled THEN "publishing" ELSE "done"]
  /\ UNCHANGED <<channel, broadcast, subscribed, client, lost, faults>> /\ Static

\* Redis executes PUBLISH.
Publish(n) ==
  LET reached == {p \in Replicas : "channel" \in subscribed[p]} IN
  /\ row[n].pc = "publishing"
  /\ row' = [row EXCEPT ![n].pc = "done"]
  /\ channel' = channel \cup {[n |-> n, to |-> p] : p \in reached}
  /\ lost' = IF reached # Replicas THEN lost \cup {n} ELSE lost
  /\ UNCHANGED <<broadcast, subscribed, client, faults>> /\ Static

\* A replica in which the publisher is registered too publishes what it
\* re-emits.
HandleMessageAndPublish(m) ==
  /\ m \in channel
  /\ channel' = (channel \ {m}) \cup {[n |-> m.n, to |-> p] : p \in Replicas}
  /\ PushNotification(m.to, m.n)
  /\ UNCHANGED <<row, subscribed, faults>> /\ Static

\* RealtimeSubscriber.handleMessage: notification.created is emitted again,
\* here, for the gateway.
HandleMessage(m) ==
  /\ m \in channel
  /\ channel' = channel \ {m}
  /\ PushNotification(m.to, m.n)
  /\ UNCHANGED <<row, subscribed, faults>> /\ Static

-----------------------------------------------------------------------------
(* Faults.                                                                 *)

\* A replica loses a connection to Redis, and what was on its way over it.
LoseConnection(p, l) ==
  LET onChannel   == {m \in channel : l = "channel" /\ m.to = p}
      onBroadcast == {m \in broadcast : l = "adapter" /\ m.to = p}
  IN
  /\ l \in subscribed[p]
  /\ faults < MaxFaults
  /\ subscribed' = [subscribed EXCEPT ![p] = @ \ {l}]
  /\ channel' = channel \ onChannel
  /\ broadcast' = broadcast \ onBroadcast
  /\ lost' = lost \cup {m.n : m \in onChannel \cup onBroadcast}
  /\ faults' = faults + 1
  /\ UNCHANGED <<row, client>> /\ Static

\* ioredis reconnects and subscribes again.
Resubscribe(p, l) ==
  /\ l \notin subscribed[p]
  /\ subscribed' = [subscribed EXCEPT ![p] = @ \cup {l}]
  /\ UNCHANGED <<row, channel, broadcast, client, lost, faults>> /\ Static

\* A process restarts: its sockets are closed, what it had to emit, to publish
\* or to receive is gone; it listens once it has subscribed.
Restart(p) ==
  LET unsent      == {n \in Notifications : row[n].at = p /\ row[n].pc \in {"saved", "publishing"}}
      onChannel   == {m \in channel : m.to = p}
      onBroadcast == {m \in broadcast : m.to = p}
  IN
  /\ faults < MaxFaults
  /\ row' = [n \in Notifications |-> IF n \in unsent THEN [row[n] EXCEPT !.pc = "done"] ELSE row[n]]
  /\ channel' = channel \ onChannel
  /\ broadcast' = broadcast \ onBroadcast
  /\ client' = [c \in Clients |-> IF client[c].at = p THEN Off ELSE client[c]]
  /\ subscribed' = [q \in Replicas |-> IF q = p THEN Link ELSE subscribed[q]]
  /\ lost' = lost \cup unsent \cup {m.n : m \in onChannel \cup onBroadcast}
  /\ faults' = faults + 1
  /\ Static

-----------------------------------------------------------------------------

Emit(n) == EmitInApi(n) \/ EmitInWorker(n) \/ Publish(n)

Deliver ==
  \/ \E m \in channel : HandleMessage(m)
  \/ \E m \in broadcast : AdapterDelivers(m)

Next ==
  \/ \E n \in Notifications : Emit(n) \/ \E u \in Users, p \in Processes : Create(n, u, p)
  \/ Deliver
  \/ \E c \in Clients :
       \/ HandleConnection(c) \/ Disconnect(c)
       \/ \E p \in Replicas, user \in Users \cup {None} : Connect(c, p, user)
  \/ \E p \in Replicas, l \in Link : LoseConnection(p, l) \/ Resubscribe(p, l)
  \/ \E p \in Processes : Restart(p)

Spec == Init /\ [][Next]_vars

\* A process goes on with what it has begun, and Redis delivers to those that
\* stay subscribed.  Nobody has to connect, no connection has to come back.
FairSpec ==
  /\ Spec
  /\ \A n \in Notifications : WF_vars(Emit(n))
  /\ WF_vars(Deliver)

-----------------------------------------------------------------------------
(* Properties.                                                             *)

ChannelMessage == [n : Notifications, to : Replicas]

BroadcastMessage == [n : Notifications, from : Replicas, to : Replicas]

TypeOK ==
  /\ queueEnabled \in BOOLEAN /\ adapter \in BOOLEAN
  /\ row \in [Notifications -> Row]
  /\ channel \subseteq ChannelMessage /\ broadcast \subseteq BroadcastMessage
  /\ subscribed \in [Replicas -> SUBSET Link]
  /\ client \in [Clients -> Connection]
  /\ lost \subseteq Notifications
  /\ faults \in Nat

\* How often one connection gets one notification: once, unless the channel
\* reaches every replica and the adapter repeats what each of them pushes
\* (handleMessage, pushNotification, RedisIoAdapter); then once per replica.
Copies == IF queueEnabled /\ adapter THEN Cardinality(Replicas) ELSE 1

PushesAreBounded ==
  \A c \in Clients, n \in Notifications : client[c].pushed[n] <= Copies

\* Whether the deployment has a path from the process that created n to the
\* sockets of replica p.
HasPath(n, p) == queueEnabled \/ row[n].at = p \/ (adapter /\ row[n].at # Worker)

\* At every moment, a notification that a socket in its recipient's room is
\* still to get is about to be emitted or published, or is a message on its way
\* to the replica that holds the socket -- unless some message or process was
\* lost with it (create, publish, handleMessage, pushNotification).
OnItsWay(n, p) ==
  \/ row[n].pc \in {"saved", "publishing"}
  \/ [n |-> n, to |-> p] \in channel
  \/ \E q \in Replicas : [n |-> n, from |-> q, to |-> p] \in broadcast

DueIsOnItsWay ==
  \A c \in Clients, n \in Notifications :
    n \in client[c].due /\ HasPath(n, client[c].at) /\ n \notin lost
      => client[c].pushed[n] > 0 \/ OnItsWay(n, client[c].at)

\* A socket that was in its recipient's room when a notification was inserted
\* is pushed it, unless it leaves or a message or process is lost, whichever
\* replica it is connected to -- where the deployment has a path at all
\* (create, publish, handleMessage, pushNotification).
DueIsPushed ==
  \A c \in Clients, n \in Notifications :
    n \in client[c].due /\ HasPath(n, client[c].at) ~>
      client[c].pushed[n] > 0 \/ n \notin client[c].due \/ n \in lost

\* realtime.subscriber.ts: each replica re-emits "so this instance's gateway
\* pushes it to the sockets it holds", so a socket gets a notification once.
PushedOnce ==
  \A c \in Clients, n \in Notifications : client[c].pushed[n] <= 1
===============================================================================
