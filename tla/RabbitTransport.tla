-------------------------- MODULE RabbitTransport ---------------------------
(***************************************************************************)
(* The transports of one RabbitMQClient (infra/rabbitmq/client.py): its     *)
(* connection, the shared channel that publishes, and a channel for every   *)
(* queue it consumes, under the three locks the client keeps.  Concurrent   *)
(* calls publish and receive; the scheduler's cleanup then deletes queues   *)
(* one after the other.  A client that a slot owns (Recovery.tla) is        *)
(* connected first, and may be closed while calls are under way, as when    *)
(* the slot replaces it; one used by itself connects on first use and is    *)
(* closed when its calls are over.  What a pop does with a delivery is in   *)
(* Leases.tla.  The broker and aio_pika are external.                       *)
(***************************************************************************)
EXTENDS Naturals, FiniteSets

CONSTANTS
    MqPushes, MqPops, MqDeletes, \* calls of rpush, dequeue_request, delete_queue
    QueueOf,    \* QueueOf[c]: the queue of call c
    MaxConns    \* bound: connections opened

MqCalls == MqPushes \cup MqPops \cup MqDeletes
MqQueues == {QueueOf[c] : c \in MqCalls}
None == "none"
Closer == "closer"

ASSUME RabbitAssumption ==
    /\ {None, Closer} \cap MqCalls = {} /\ MqDeletes \cap (MqPushes \cup MqPops) = {}
    /\ MaxConns \in Nat \ {0}

VARIABLES
    owned,     \* a ResourceSlot owns the client
    client,    \* the client's fields: conn, channel, exchange, queues, consumers
    broker,    \* open connections, open consumer channels, queues that are bound
    held,      \* holders of _connect_lock, _lock and _consumer_lock
    stage,     \* stage[c]: how far call c is
    mqCloser,  \* close()
    overwritten, \* connections replaced while they were open
    unrouted   \* a message was published that no queue was bound for

rabbitVars == <<owned, client, broker, held, stage, mqCloser, overwritten, unrouted>>

NoClient == [conn |-> 0, channel |-> "none", exchange |-> FALSE, queues |-> {},
             consumers |-> [q \in MqQueues |-> None]]
FreshClient(n) == [NoClient EXCEPT !.conn = n, !.channel = "open", !.exchange = TRUE]

RabbitInit ==
    /\ owned \in BOOLEAN
    /\ client = IF owned THEN FreshClient(1) ELSE NoClient
    /\ broker = [opened |-> IF owned THEN 1 ELSE 0, conns |-> IF owned THEN {1} ELSE {},
                 channels |-> {}, bound |-> {}]
    /\ held = [connect |-> None, declare |-> None, consumer |-> None]
    /\ stage = [c \in MqCalls |-> "idle"]
    /\ mqCloser = "idle"
    /\ overwritten = {}
    /\ unrouted = FALSE

OnStage(c, from, to) == stage[c] = from /\ stage' = [stage EXCEPT ![c] = to]
TakeMq(l, c) == held[l] = None /\ held' = [held EXCEPT ![l] = c]
\* A call that raises leaves every async with it is in.
Freed(c) == [l \in DOMAIN held |-> IF held[l] = c THEN None ELSE held[l]]
Raise(c, from) == OnStage(c, from, "failed") /\ held' = Freed(c)

ConnectionOpen == client.conn \in broker.conns
ChannelOpen == ConnectionOpen /\ client.channel = "open"
ClosingKept == UNCHANGED <<owned, mqCloser, overwritten, unrouted>>

---------------------------------------------------------------------------
(* Entering a call.                                                        *)

\* rpush and dequeue_request connect only when there is no exchange.
EnterCall(c) ==
    /\ c \notin MqDeletes
    /\ OnStage(c, "idle", IF client.exchange THEN "ready" ELSE "connect")
    /\ UNCHANGED <<client, broker, held>> /\ ClosingKept

\* delete_queue connects again when the shared channel is closed.  cleanup
\* deletes one queue at a time, after the engines have stopped.
EnterDelete(c) ==
    /\ c \in MqDeletes
    /\ \A d \in MqCalls : IF d \in MqDeletes THEN stage[d] \in {"idle", "done"}
                         ELSE stage[d] \in {"done", "failed"}
    /\ OnStage(c, "idle", IF ChannelOpen THEN "ready" ELSE "connect")
    /\ UNCHANGED <<client, broker, held>> /\ ClosingKept

---------------------------------------------------------------------------
(* _connect_transport, under _connect_lock.                                *)

TakeConnectLock(c) ==
    /\ TakeMq("connect", c)
    /\ OnStage(c, "connect", "opening")
    /\ UNCHANGED <<client, broker>> /\ ClosingKept

AlreadyConnected(c) ==
    /\ ChannelOpen /\ client.exchange
    /\ OnStage(c, "opening", "ready")
    /\ held' = Freed(c)
    /\ UNCHANGED <<client, broker>> /\ ClosingKept

\* The new connection takes the place of the old one, open or not.
OpenConnection(c) ==
    /\ ~(ChannelOpen /\ client.exchange)
    /\ broker.opened < MaxConns
    /\ OnStage(c, "opening", "channel")
    /\ broker' = [broker EXCEPT !.opened = @ + 1, !.conns = @ \cup {broker.opened + 1}]
    /\ overwritten' = overwritten \cup ({client.conn} \cap broker.conns)
    /\ client' = [client EXCEPT !.conn = broker.opened + 1]
    /\ UNCHANGED <<owned, held, mqCloser, unrouted>>

\* The channel, its QoS and the exchange; what was declared is forgotten.
OpenChannel(c) ==
    /\ ConnectionOpen
    /\ OnStage(c, "channel", "ready")
    /\ client' = FreshClient(client.conn)
    /\ held' = Freed(c)
    /\ UNCHANGED broker /\ ClosingKept

\* Any RPC of connect fails: what is open so far stays in the fields.
ConnectRaises(c) ==
    /\ \/ Raise(c, "opening") /\ UNCHANGED client
       \/ /\ Raise(c, "channel")
          /\ client' \in {client, [client EXCEPT !.channel = "open"]}
    /\ UNCHANGED broker /\ ClosingKept

---------------------------------------------------------------------------
(* rpush: declare, bind and publish, under _lock.                          *)

TakeDeclareLock(c) ==
    /\ c \in MqPushes
    /\ TakeMq("declare", c)
    /\ OnStage(c, "ready", "declaring")
    /\ UNCHANGED <<client, broker>> /\ ClosingKept

\* A queue declared before is not declared again.
DeclareQueue(c) ==
    /\ \/ /\ QueueOf[c] \in client.queues
          /\ UNCHANGED <<client, broker>>
       \/ /\ QueueOf[c] \notin client.queues /\ ChannelOpen
          /\ client' = [client EXCEPT !.queues = @ \cup {QueueOf[c]}]
          /\ broker' = [broker EXCEPT !.bound = @ \cup {QueueOf[c]}]
    /\ OnStage(c, "declaring", "publishing")
    /\ UNCHANGED held /\ ClosingKept

Publish(c) ==
    /\ ChannelOpen /\ client.exchange
    /\ OnStage(c, "publishing", "done")
    /\ unrouted' = (unrouted \/ QueueOf[c] \notin broker.bound)
    /\ held' = Freed(c)
    /\ UNCHANGED <<owned, client, broker, mqCloser, overwritten>>

---------------------------------------------------------------------------
(* dequeue_request: the consumer queue, looked for again under its lock.   *)

FindConsumer(c) ==
    /\ c \in MqPops
    /\ OnStage(c, "ready", IF client.consumers[QueueOf[c]] # None
                           THEN "getting" ELSE "missing")
    /\ UNCHANGED <<client, broker, held>> /\ ClosingKept

TakeConsumerLock(c) ==
    /\ TakeMq("consumer", c)
    /\ OnStage(c, "missing", "looking")
    /\ UNCHANGED <<client, broker>> /\ ClosingKept

\* Defect: the queue is not looked for again.
OpenConsumerAnyway(c) ==
    /\ ConnectionOpen
    /\ OnStage(c, "looking", "binding")
    /\ broker' = [broker EXCEPT !.channels = @ \cup {c}]
    /\ UNCHANGED <<client, held>> /\ ClosingKept

OpenConsumer(c) ==
    /\ \/ /\ client.consumers[QueueOf[c]] # None
          /\ OnStage(c, "looking", "getting")
          /\ held' = Freed(c)
          /\ UNCHANGED broker
       \/ /\ client.consumers[QueueOf[c]] = None /\ ConnectionOpen
          /\ OnStage(c, "looking", "binding")
          /\ broker' = [broker EXCEPT !.channels = @ \cup {c}]
          /\ UNCHANGED held
    /\ UNCHANGED client /\ ClosingKept

\* QoS, exchange, queue and binding; the channel is kept for the queue.
KeepConsumerQueue(c) ==
    /\ OnStage(c, "binding", "getting")
    /\ broker' = [broker EXCEPT !.bound = @ \cup {QueueOf[c]}]
    /\ client' = [client EXCEPT !.consumers[QueueOf[c]] = c]
    /\ held' = Freed(c)
    /\ ClosingKept

GetMessage(c) ==
    /\ OnStage(c, "getting", "done")
    /\ UNCHANGED <<client, broker, held>> /\ ClosingKept

\* An RPC of a call fails, on a closed or missing transport or on its own.
CallRaises(c) ==
    /\ \E s \in {"declaring", "publishing", "looking", "binding", "getting"} : Raise(c, s)
    /\ UNCHANGED <<client, broker>> /\ ClosingKept

---------------------------------------------------------------------------
(* delete_queue.                                                           *)

\* The entries are dropped and the consumer's channel is closed.
ForgetQueue(c) ==
    /\ c \in MqDeletes
    /\ OnStage(c, "ready", "deleting")
    /\ broker' = [broker EXCEPT !.channels = @ \ {client.consumers[QueueOf[c]]}]
    /\ client' = [client EXCEPT !.queues = @ \ {QueueOf[c]},
                                !.consumers[QueueOf[c]] = None]
    /\ UNCHANGED held /\ ClosingKept

\* The queue is deleted, or the broker knows none and closes the channel.
DeleteQueue(c) ==
    /\ ChannelOpen /\ held.declare = None
    /\ OnStage(c, "deleting", "done")
    /\ \/ /\ broker' = [broker EXCEPT !.bound = @ \ {QueueOf[c]}]
          /\ UNCHANGED client
       \/ /\ QueueOf[c] \notin broker.bound
          /\ client' = [client EXCEPT !.channel = "closed"]
          /\ UNCHANGED broker
    /\ UNCHANGED held /\ ClosingKept

DeleteRaises(c) ==
    /\ Raise(c, "deleting")
    /\ UNCHANGED <<client, broker>> /\ ClosingKept

---------------------------------------------------------------------------
(* close(), under _connect_lock; nobody begins a call on a client that is  *)
(* being closed.                                                           *)

MqTurn(from, to) == mqCloser = from /\ mqCloser' = to

MqOver(c) == stage[c] \in {"idle", "done", "failed"}

\* The consumer channels are closed together, whatever each of them raises.
\* No queue is being deleted: a delete that waits to connect would connect the
\* closed client again.
CloseConsumers ==
    /\ \A c \in MqCalls : MqOver(c) \/ (owned /\ c \notin MqDeletes)
    /\ MqTurn("idle", "channel")
    /\ TakeMq("connect", Closer)
    /\ broker' = [broker EXCEPT !.channels = @ \ {client.consumers[q] : q \in MqQueues}]
    /\ client' = [client EXCEPT !.consumers = NoClient.consumers]
    /\ stage' = [c \in MqCalls |-> IF stage[c] = "idle" THEN "failed" ELSE stage[c]]
    /\ UNCHANGED <<owned, overwritten, unrouted>>

\* ChannelClosed is swallowed.
CloseChannel ==
    /\ MqTurn("channel", "connection")
    /\ client' = [client EXCEPT !.channel = IF @ = "open" THEN "closed" ELSE @]
    /\ UNCHANGED <<owned, broker, held, stage, overwritten, unrouted>>

\* Closing the connection closes every channel on it.
CloseConnection ==
    /\ MqTurn("connection", "closed")
    /\ broker' = [broker EXCEPT !.conns = @ \ {client.conn},
                                !.channels = IF ConnectionOpen THEN {} ELSE @]
    /\ client' = NoClient
    /\ held' = Freed(Closer)
    /\ UNCHANGED <<owned, stage, overwritten, unrouted>>

\* The broker, or the network, ends the connection and every channel on it.
ConnectionLost ==
    /\ ConnectionOpen
    /\ broker' = [broker EXCEPT !.conns = @ \ {client.conn}, !.channels = {}]
    /\ UNCHANGED <<client, held, stage>> /\ ClosingKept

---------------------------------------------------------------------------
RabbitStep(c) ==
    \/ TakeConnectLock(c) \/ AlreadyConnected(c) \/ OpenConnection(c) \/ OpenChannel(c)
    \/ TakeDeclareLock(c) \/ DeclareQueue(c) \/ Publish(c)
    \/ FindConsumer(c) \/ TakeConsumerLock(c) \/ OpenConsumer(c) \/ KeepConsumerQueue(c)
    \/ GetMessage(c) \/ ForgetQueue(c) \/ DeleteQueue(c)
    \/ ConnectRaises(c) \/ CallRaises(c) \/ DeleteRaises(c)

RabbitCloserStep == CloseConsumers \/ CloseChannel \/ CloseConnection

RabbitNext ==
    \/ \E c \in MqCalls : EnterCall(c) \/ EnterDelete(c) \/ RabbitStep(c)
    \/ RabbitCloserStep \/ ConnectionLost

\* Every RPC returns or raises, and a lock that is free is handed to a waiter.
RabbitFairness ==
    /\ \A c \in MqCalls : WF_rabbitVars(RabbitStep(c))
    /\ WF_rabbitVars(RabbitCloserStep)

RabbitSpec == RabbitInit /\ [][RabbitNext]_rabbitVars /\ RabbitFairness

---------------------------------------------------------------------------
(* What is checked.                                                        *)

\* A queue has one consumer channel, however many calls ask for it, until the
\* client connects again (which forgets channels opened meanwhile); nothing is
\* published that no queue is bound for; and a closed client has left nothing
\* open but connections it had overwritten itself, on the way to a new channel.
RabbitInv ==
    /\ broker.opened <= 1 => \A q \in MqQueues :
          Cardinality({c \in broker.channels : QueueOf[c] = q /\ stage[c] # "failed"}) <= 1
    /\ ~unrouted
    /\ broker.conns \subseteq {client.conn} \cup overwritten
    /\ mqCloser = "closed" /\ overwritten = {} => broker.channels = {}

\* No call and no close waits for ever on one of the locks: calls are made
\* once, and again and again none is under way.
RabbitEnds == []<>(/\ \A c \in MqCalls : MqOver(c)
                   /\ mqCloser \in {"idle", "closed"})
=============================================================================
