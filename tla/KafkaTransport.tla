--------------------------- MODULE KafkaTransport ---------------------------
(***************************************************************************)
(* The connections of one KafkaClient (infra/kafka/client.py): its          *)
(* producer, the topic it creates on first use, the manual-commit consumer  *)
(* and the callback consumers, under the four locks the client keeps.       *)
(* Concurrent calls publish a record, lease one, or register a callback;    *)
(* then cleanup deletes the topic and the client is closed.  A client used  *)
(* by itself connects on first use; one that a ResourceSlot owns            *)
(* (Recovery.tla) is connected before anyone can reach it.                  *)
(*                                                                         *)
(* One topic and one consumer group; the broker and the vendor's clients    *)
(* are external.                                                            *)
(***************************************************************************)
EXTENDS Integers, Sequences, FiniteSets

CONSTANTS
  Pushes,      \* calls of produce
  Pops,        \* calls of dequeue_request
  Registers,   \* calls of register_consumer, all for one topic and group
  MaxPolls,    \* bound: describe_topics calls until the deadline
  CloseEarly   \* the client is closed while calls are under way, as when its
               \* slot replaces it (ResourceSlot.replace)

TransportCalls == Pushes \cup Pops \cup Registers

Nobody == 0

ASSUME TransportAssumption ==
  /\ MaxPolls \in Nat \ {0} /\ CloseEarly \in BOOLEAN
  /\ {Nobody, -1} \cap TransportCalls = {}
  /\ Pushes \cap Pops = {} /\ Registers \cap (Pushes \cup Pops) = {}

VARIABLES
  producer,    \* _producer: none | set (visible before it has started)
  producers,   \* producers not stopped, by the call that made them
  connectLock, \* holder of _connect_lock
  topicLock,   \* holder of _topic_lock
  createLock,  \* holder of _consumer_create_lock
  ensured,     \* the topic is in _ensured_topics
  topic,       \* the broker: absent | created | ready
  live,        \* consumers started and not stopped, by the call that made them
  consumers,   \* _consumers: the manual and the callback consumer, or Nobody
  loops,       \* calls whose _consume_loop task runs
  polls,       \* per call: describe_topics calls made
  progress,    \* per call: how far it got
  closer,      \* cleanup and close
  sentTo       \* the states the topic had when a record was sent

transportVars == <<producer, producers, connectLock, topicLock, createLock, ensured, topic,
                   live, consumers, loops, polls, progress, closer, sentTo>>

TransportInit ==
  /\ producer = "none" /\ producers = {} /\ connectLock = Nobody
  /\ topicLock = Nobody /\ createLock = Nobody
  /\ ensured = FALSE /\ topic \in {"absent", "ready"}
  /\ live = {} /\ loops = {} /\ sentTo = {}
  /\ consumers = [manual |-> Nobody, callback |-> Nobody]
  /\ polls = [c \in TransportCalls |-> 0]
  /\ progress = [c \in TransportCalls |-> "idle"]
  /\ closer = "idle"

At(c, from, to) == progress[c] = from /\ progress' = [progress EXCEPT ![c] = to]

LocksKept == UNCHANGED <<connectLock, topicLock, createLock>>
BrokerKept == UNCHANGED <<ensured, topic, polls>>
ConsumersKept == UNCHANGED <<live, consumers, loops>>

----------------------------------------------------------------------------
(* Entering a call *)

Pop(c) ==
  /\ c \in Pops /\ createLock = Nobody
  /\ IF consumers.manual # Nobody
     THEN At(c, "idle", "done") /\ UNCHANGED createLock
     ELSE At(c, "idle", "connect") /\ createLock' = c
  /\ UNCHANGED <<producer, producers, closer, sentTo, connectLock, topicLock>>
  /\ BrokerKept /\ ConsumersKept

Produce(c) ==
  /\ c \in Pushes /\ At(c, "idle", "connect")
  /\ UNCHANGED <<producer, producers, closer, sentTo>> /\ LocksKept /\ BrokerKept /\ ConsumersKept

Register(c) ==
  /\ c \in Registers
  /\ At(c, "idle", IF consumers.callback # Nobody THEN "done" ELSE "connect")
  /\ UNCHANGED <<producer, producers, closer, sentTo>> /\ LocksKept /\ BrokerKept /\ ConsumersKept

(* connect: the producer is looked for again once the lock is held. *)
Connect(c) ==
  /\ At(c, "connect", IF producer = "set" THEN "connected" ELSE "joining")
  /\ UNCHANGED <<producer, producers, closer, sentTo>>
  /\ LocksKept /\ BrokerKept /\ ConsumersKept

TakeConnect(c) ==
  /\ connectLock = Nobody /\ connectLock' = c /\ At(c, "joining", "locked")
  /\ UNCHANGED <<producer, producers, closer, sentTo, topicLock, createLock>>
  /\ BrokerKept /\ ConsumersKept

ConnectTransport(c) ==
  /\ IF producer = "set"
     THEN /\ At(c, "locked", "connected") /\ connectLock' = Nobody
          /\ UNCHANGED <<producer, producers>>
     ELSE /\ At(c, "locked", "starting") /\ UNCHANGED connectLock
          /\ producer' = "set" /\ producers' = producers \cup {c}
  /\ UNCHANGED <<closer, sentTo, topicLock, createLock>> /\ BrokerKept /\ ConsumersKept

Connected(c) ==
  /\ At(c, "starting", "connected") /\ connectLock' = Nobody
  /\ UNCHANGED <<producer, producers, closer, sentTo, topicLock, createLock>>
  /\ BrokerKept /\ ConsumersKept

(* start() raises: the producer is forgotten, the call fails. *)
ConnectFails(c) ==
  /\ At(c, "starting", "failed") /\ connectLock' = Nobody
  /\ producer' = "none" /\ producers' = producers \ {c}
  /\ createLock' = IF createLock = c THEN Nobody ELSE createLock
  /\ UNCHANGED <<closer, sentTo, topicLock>> /\ BrokerKept /\ ConsumersKept

----------------------------------------------------------------------------
(* ensure_topic, under _topic_lock *)

NeedTopic(c) ==
  /\ c \notin Registers
  /\ At(c, "connected", IF ensured THEN "usable" ELSE "waiting")
  /\ UNCHANGED <<producer, producers, closer, sentTo>>
  /\ LocksKept /\ BrokerKept /\ ConsumersKept

TakeTopic(c) ==
  /\ topicLock = Nobody /\ topicLock' = c /\ At(c, "waiting", "list")
  /\ UNCHANGED <<producer, producers, closer, sentTo, connectLock, createLock>>
  /\ BrokerKept /\ ConsumersKept

(* The topic was ensured while the call waited for the lock. *)
TopicKnown(c) ==
  /\ ensured /\ At(c, "list", "usable") /\ topicLock' = Nobody
  /\ UNCHANGED <<producer, producers, closer, sentTo, connectLock, createLock>>
  /\ BrokerKept /\ ConsumersKept

ListTopics(c) ==
  /\ ~ensured /\ At(c, "list", IF topic = "absent" THEN "create" ELSE "poll")
  /\ polls' = [polls EXCEPT ![c] = 0]
  /\ UNCHANGED <<producer, producers, closer, sentTo, ensured, topic>> /\ LocksKept /\ ConsumersKept

(* create_topics; another worker may have been first, which is no error. *)
CreateTopic(c) ==
  /\ At(c, "create", "poll")
  /\ topic' = IF topic = "absent" THEN "created" ELSE topic
  /\ UNCHANGED <<producer, producers, closer, sentTo, ensured, polls>> /\ LocksKept /\ ConsumersKept

PollTopic(c) ==
  /\ polls[c] < MaxPolls
  /\ polls' = [polls EXCEPT ![c] = @ + 1]
  /\ IF topic = "ready"
     THEN /\ At(c, "poll", "usable") /\ ensured' = TRUE
          /\ topicLock' = Nobody /\ UNCHANGED topic
     ELSE At(c, "poll", "poll") /\ UNCHANGED <<ensured, topic, topicLock>>
  /\ UNCHANGED <<producer, producers, closer, sentTo, connectLock, createLock>> /\ ConsumersKept

(* Mutant: the deadline leaves the lock taken. *)
TopicNotReadyLocked(c) ==
  /\ polls[c] = MaxPolls /\ At(c, "poll", "failed")
  /\ UNCHANGED <<producer, producers, closer, sentTo>>
  /\ LocksKept /\ BrokerKept /\ ConsumersKept

(* The topic's deadline: every lock the call holds is released. *)
TopicNotReady(c) ==
  /\ polls[c] = MaxPolls /\ At(c, "poll", "failed")
  /\ topicLock' = Nobody
  /\ createLock' = IF createLock = c THEN Nobody ELSE createLock
  /\ UNCHANGED <<producer, producers, closer, sentTo, connectLock>> /\ BrokerKept /\ ConsumersKept

----------------------------------------------------------------------------
(* Using the topic *)

Send(c) ==
  /\ c \in Pushes /\ At(c, "usable", "done")
  /\ sentTo' = sentTo \cup {topic}
  /\ UNCHANGED <<producer, producers, closer>> /\ LocksKept /\ BrokerKept /\ ConsumersKept

StartConsumer(c) ==
  /\ IF c \in Registers THEN At(c, "connected", "consuming")
     ELSE c \in Pops /\ At(c, "usable", "consuming")
  /\ live' = live \cup {c}
  /\ UNCHANGED <<producer, producers, closer, sentTo, consumers, loops>> /\ LocksKept /\ BrokerKept

(* start() fails: the call raises, the lock of a pop is released. *)
ConsumerFails(c) ==
  /\ At(c, "consuming", "failed") /\ live' = live \ {c}
  /\ createLock' = IF createLock = c THEN Nobody ELSE createLock
  /\ UNCHANGED <<producer, producers, closer, sentTo, consumers, loops, connectLock, topicLock>>
  /\ BrokerKept

KeepConsumer(c) ==
  /\ At(c, "consuming", "done")
  /\ IF c \in Pops
     THEN consumers' = [consumers EXCEPT !.manual = c] /\ UNCHANGED loops
     ELSE consumers' = [consumers EXCEPT !.callback = c] /\ loops' = loops \cup {c}
  /\ createLock' = IF createLock = c THEN Nobody ELSE createLock
  /\ UNCHANGED <<producer, producers, closer, sentTo, live, connectLock, topicLock>> /\ BrokerKept

(* _consume_loop ends by itself when the connection is lost or the callback
   raises; nothing starts it again. *)
LoopEnds(c) ==
  /\ c \in loops /\ loops' = loops \ {c}
  /\ UNCHANGED <<producer, producers, closer, sentTo, progress, live, consumers>> /\ LocksKept /\ BrokerKept

(* The broker, and another worker of the same group. *)
TopicBecomesReady ==
  /\ topic = "created" /\ topic' = "ready"
  /\ UNCHANGED <<producer, producers, closer, sentTo, progress, ensured, polls>> /\ LocksKept /\ ConsumersKept

OtherWorkerCreates ==
  /\ topic = "absent" /\ topic' = "created" /\ closer = "idle"
  /\ UNCHANGED <<producer, producers, closer, sentTo, progress, ensured, polls>> /\ LocksKept /\ ConsumersKept

----------------------------------------------------------------------------
(* Shutdown *)

CallsOver == \A c \in TransportCalls : progress[c] \in {"idle", "done", "failed"}

ClosersTurn(from, to) == closer = from /\ closer' = to

(* Calls not begun are never made once the client is being closed. *)
NoNewCalls == progress' = [c \in TransportCalls |-> IF progress[c] = "idle" THEN "failed" ELSE progress[c]]

(* delete_topics of the scheduler's cleanup: consumers of the topic are
   stopped and forgotten first. *)
DeleteTopics ==
  /\ CallsOver /\ producer = "set" /\ ClosersTurn("idle", "deleted")
  /\ live' = live \ {consumers.manual, consumers.callback}
  /\ consumers' = [manual |-> Nobody, callback |-> Nobody]
  /\ topic' = "absent" /\ ensured' = FALSE /\ NoNewCalls
  /\ UNCHANGED <<producer, producers, sentTo, loops, polls>> /\ LocksKept

(* close: the lock, then the loops are cancelled and awaited. *)
CloseTransport ==
  /\ CloseEarly \/ CallsOver
  /\ closer \in {"idle", "deleted"} /\ closer' = "loops"
  /\ connectLock = Nobody /\ connectLock' = -1
  /\ loops' = {} /\ NoNewCalls
  /\ UNCHANGED <<producer, producers, sentTo, topicLock, createLock, live, consumers>> /\ BrokerKept

StopConsumers ==
  /\ ClosersTurn("loops", "consumers")
  /\ live' = live \ {consumers.manual, consumers.callback}
  /\ consumers' = [manual |-> Nobody, callback |-> Nobody]
  /\ UNCHANGED <<producer, producers, sentTo, progress, loops>> /\ LocksKept /\ BrokerKept

StopProducer ==
  /\ ClosersTurn("consumers", "closed")
  /\ producer' = "none" /\ producers' = {} /\ connectLock' = Nobody
  /\ UNCHANGED <<sentTo, progress, topicLock, createLock>> /\ BrokerKept /\ ConsumersKept

TransportStep(c) ==
  \/ Pop(c) \/ Produce(c) \/ Register(c) \/ Connect(c) \/ TakeConnect(c)
  \/ ConnectTransport(c) \/ Connected(c)
  \/ NeedTopic(c) \/ TakeTopic(c) \/ TopicKnown(c) \/ ListTopics(c) \/ CreateTopic(c)
  \/ PollTopic(c) \/ TopicNotReady(c)
  \/ Send(c) \/ StartConsumer(c) \/ KeepConsumer(c)

CloserStep == CloseTransport \/ StopConsumers \/ StopProducer

TransportNext ==
  \/ \E c \in TransportCalls : TransportStep(c) \/ ConnectFails(c) \/ ConsumerFails(c) \/ LoopEnds(c)
  \/ TopicBecomesReady \/ OtherWorkerCreates
  \/ DeleteTopics \/ CloserStep

TransportFairness ==
  /\ \A c \in TransportCalls : WF_transportVars(TransportStep(c) /\ progress[c] # "idle")
  /\ WF_transportVars(CloserStep)

TransportSpec == TransportInit /\ [][TransportNext]_transportVars /\ TransportFairness

----------------------------------------------------------------------------
(* Properties *)

(* A record only goes to a topic whose partitions are ready; there is one
   producer and one manual consumer, however many calls ask for them; a
   started consumer can be found by close, or its call is still about to
   enter it; and a closed client has nothing left open. *)
TransportInv ==
  /\ sentTo \subseteq {"ready"}
  /\ Cardinality(producers) <= 1
  /\ \A c \in live : progress[c] = "consuming" \/ c \in {consumers.manual, consumers.callback}
  /\ Cardinality(live \cap Pops) <= 1
  /\ closer = "closed" => live = {} /\ loops = {} /\ producers = {}

(* No call and no close waits for ever on one of the locks: calls are made
   once, and again and again none is under way. *)
TransportEnds == []<>(CallsOver /\ closer \in {"idle", "deleted", "closed"})
=============================================================================
