--------------------------- MODULE KafkaHandover ----------------------------
(***************************************************************************)
(* Work that crosses two Kafka topics: KafkaSpider.start leases messages   *)
(* of the start topic, KafkaScheduler.put stores the requests made from    *)
(* them in the work topic and only then acknowledges the message, get      *)
(* leases a request of the work topic, and complete_request acknowledges   *)
(* it after its callback, and what the callback yielded, is done.          *)
(*                                                                         *)
(* The scheduler records what it owes under id(request), in                *)
(* _start_messages and _inflight_messages.  Neither keeps the request      *)
(* alive: with RecycleCells the id of a dead request may be given to       *)
(* another.  One partition per topic, whose commits are atomic here        *)
(* (KafkaOffsets takes them apart); offsets count from 1.                  *)
(***************************************************************************)
EXTENDS Naturals, Sequences, FiniteSets

CONSTANTS
    StartMessages,  \* messages of the start topic
    Fruitful,       \* messages whose request's callback yields another request
    Cells,          \* id(request) values
    StartLimit,     \* start_request_limit
    RecycleCells,   \* a recorded id may be given to a new request
    MaxOutages,     \* bound: failing calls and replaced clients
    MaxReruns       \* bound: restarts

ASSUME HandoverAssumption ==
    /\ IsFiniteSet(Cells) /\ StartMessages \in Nat /\ Fruitful \subseteq 1 .. StartMessages
    /\ StartLimit \in Nat /\ RecycleCells \in BOOLEAN
    /\ MaxOutages \in Nat /\ MaxReruns \in Nat

VARIABLES
    topicLog,         \* per topic: the item of each record
    fetchFrom,        \* per topic: the next offset the consumer delivers
    leasedOf,         \* per topic: _pending_offsets of its group
    committedTo,      \* per topic: the last offset committed
    taken,            \* the message get_start_req returned, or 0
    yieldedStarts,    \* accepted_count of the running start()
    cell,             \* the request under each id
    startMessages,    \* _start_messages: an offset of the start topic, or 0
    inflightMessages, \* _inflight_messages: an offset of the work topic, or 0
    processed,        \* offsets of the work topic whose request was completed
    refused,          \* items that made no request, or whose request was dropped
    life,             \* "running", "down" or, with its topics, "deleted"
    outages, reruns

logs == <<topicLog, fetchFrom, leasedOf, committedTo>>
producer == <<taken, yieldedStarts>>
records == <<cell, startMessages, inflightMessages>>
outcomes == <<processed, refused>>
handoverVars == <<logs, producer, records, outcomes, life, outages, reruns>>

Topics == {"start", "work"}
Child(m) == m + StartMessages
WorkItems == 1 .. 2 * StartMessages
Holding(item, stage) == [item |-> item, stage |-> stage, yielded |-> FALSE]
Vacant == Holding(0, "free")

\* made: not stored yet; stored: push returned; leased: get returned it.
CellStages == {"free", "made", "stored", "leased"}

HandoverTypeOK ==
    /\ \A t \in Topics :
          /\ topicLog[t] \in Seq(WorkItems)
          /\ fetchFrom[t] \in 1 .. Len(topicLog[t]) + 1
          /\ committedTo[t] \in 0 .. Len(topicLog[t])
          /\ leasedOf[t] \in Seq([offset : 1 .. Len(topicLog[t]), acked : BOOLEAN])
    /\ taken \in 0 .. StartMessages /\ yieldedStarts \in 0 .. StartLimit
    /\ cell \in [Cells -> [item : WorkItems \cup {0}, stage : CellStages,
                           yielded : BOOLEAN]]
    /\ startMessages \in [Cells -> 0 .. StartMessages]
    /\ inflightMessages \in [Cells -> 0 .. Len(topicLog["work"])]
    /\ processed \subseteq 1 .. Len(topicLog["work"])
    /\ refused \subseteq WorkItems
    /\ life \in {"running", "down", "deleted"}
    /\ outages \in 0 .. MaxOutages /\ reruns \in 0 .. MaxReruns

HandoverInit ==
    /\ topicLog = [t \in Topics |-> IF t = "start" THEN [m \in 1 .. StartMessages |-> m] ELSE <<>>]
    /\ fetchFrom = [t \in Topics |-> 1]
    /\ leasedOf = [t \in Topics |-> <<>>]
    /\ committedTo = [t \in Topics |-> 0]
    /\ taken = 0 /\ yieldedStarts = 0
    /\ cell = [c \in Cells |-> Vacant]
    /\ startMessages = [c \in Cells |-> 0]
    /\ inflightMessages = [c \in Cells |-> 0]
    /\ processed = {} /\ refused = {}
    /\ life = "running"
    /\ outages = 0 /\ reruns = 0

---------------------------------------------------------------------------
(* KafkaQueueRepository.                                                   *)

\* pop: the next record is leased, not committed.
Pop(t) ==
    /\ fetchFrom[t] <= Len(topicLog[t])
    /\ fetchFrom' = [fetchFrom EXCEPT ![t] = @ + 1]
    /\ leasedOf' = [leasedOf EXCEPT ![t] =
                       Append(@, [offset |-> fetchFrom[t], acked |-> FALSE])]
    /\ UNCHANGED <<topicLog, committedTo>>

\* ack: the contiguous prefix of acknowledged leases is committed.  A lease
\* the active client does not have is left alone.
Ack(t, o) ==
    LET marked == [k \in DOMAIN leasedOf[t] |->
                      IF leasedOf[t][k].offset = o
                      THEN [offset |-> o, acked |-> TRUE] ELSE leasedOf[t][k]]
        n == Cardinality({k \in DOMAIN marked : \A j \in 1 .. k : marked[j].acked})
    IN /\ leasedOf' = [leasedOf EXCEPT ![t] = SubSeq(marked, n + 1, Len(marked))]
       /\ committedTo' = [committedTo EXCEPT ![t] =
                             IF n = 0 THEN @ ELSE marked[n].offset]
       /\ UNCHANGED <<topicLog, fetchFrom>>

Store(item) ==
    /\ topicLog' = [topicLog EXCEPT !["work"] = Append(@, item)]
    /\ UNCHANGED <<fetchFrom, leasedOf, committedTo>>

Outage == outages < MaxOutages /\ outages' = outages + 1

\* A call failed and _run replaced the client: the leases are gone and the
\* consumers of the new one start at the committed offsets.
Refetch == /\ fetchFrom' = [t \in Topics |-> committedTo[t] + 1]
           /\ leasedOf' = [t \in Topics |-> <<>>]
           /\ UNCHANGED <<topicLog, committedTo>>

ReplaceClient ==
    /\ life = "running" /\ Outage /\ Refetch
    /\ UNCHANGED <<producer, records, outcomes, life, reruns>>

---------------------------------------------------------------------------
(* KafkaSpider.start.                                                      *)

Usable(c) == /\ cell[c].stage = "free"
             /\ RecycleCells \/ (startMessages[c] = 0 /\ inflightMessages[c] = 0)

GetStartReq ==
    /\ life = "running"
    /\ taken = 0 /\ yieldedStarts < StartLimit
    /\ Pop("start")
    /\ taken' = fetchFrom["start"]
    /\ UNCHANGED <<yieldedStarts, records, outcomes, life, outages, reruns>>

\* attach_start_req, and the request is yielded to the engine.
AttachStartReq(c) ==
    /\ life = "running"
    /\ taken # 0 /\ Usable(c)
    /\ cell' = [cell EXCEPT ![c] = Holding(taken, "made")]
    /\ startMessages' = [startMessages EXCEPT ![c] = taken]
    /\ taken' = 0 /\ yieldedStarts' = yieldedStarts + 1
    /\ UNCHANGED <<logs, inflightMessages, outcomes, life, outages, reruns>>

\* make_request_from_data returned nothing.
AckStartReq ==
    /\ life = "running"
    /\ taken # 0
    /\ Ack("start", taken)
    /\ refused' = refused \cup {taken}
    /\ taken' = 0
    /\ UNCHANGED <<yieldedStarts, records, processed, life, outages, reruns>>

---------------------------------------------------------------------------
(* KafkaScheduler.put.                                                     *)

\* The request was seen before, dropped on its way, or not stored by a push
\* that did not raise: the message it came from stays recorded, unacknowledged.
PutRefused(c) ==
    /\ life = "running"
    /\ cell[c].stage = "made"
    /\ cell' = [cell EXCEPT ![c] = Vacant]
    /\ refused' = refused \cup {cell[c].item}
    /\ UNCHANGED <<logs, producer, startMessages, inflightMessages, processed,
                   life, outages, reruns>>

PutPush(c) ==
    /\ life = "running"
    /\ cell[c].stage = "made"
    /\ Store(cell[c].item)
    /\ cell' = [cell EXCEPT ![c].stage = "stored"]
    /\ UNCHANGED <<producer, startMessages, inflightMessages, outcomes, life,
                   outages, reruns>>

\* The push raises, whether or not the record was stored; so does the callback
\* that yielded the request, whose own request is not completed.
PutFails(c) ==
    /\ life = "running"
    /\ cell[c].stage = "made"
    /\ Outage
    /\ Store(cell[c].item) \/ UNCHANGED logs
    /\ cell' = [d \in Cells |->
                  IF \/ d = c
                     \/ cell[d].stage = "leased" /\ Child(cell[d].item) = cell[c].item
                  THEN Vacant ELSE cell[d]]
    /\ UNCHANGED <<producer, startMessages, inflightMessages, outcomes, life, reruns>>

\* The message recorded under the id of the request is acknowledged.
PutAck(c) ==
    /\ life = "running"
    /\ cell[c].stage = "stored"
    /\ Ack("start", startMessages[c])
    /\ startMessages' = [startMessages EXCEPT ![c] = 0]
    /\ cell' = [cell EXCEPT ![c] = Vacant]
    /\ UNCHANGED <<producer, inflightMessages, outcomes, life, outages, reruns>>

---------------------------------------------------------------------------
(* KafkaScheduler.get and complete_request.                                *)

GetRequest(c) ==
    /\ life = "running"
    /\ Usable(c)
    /\ Pop("work")
    /\ LET o == fetchFrom["work"] IN
       /\ cell' = [cell EXCEPT ![c] = Holding(topicLog["work"][o], "leased")]
       /\ inflightMessages' = [inflightMessages EXCEPT ![c] = o]
    /\ UNCHANGED <<producer, startMessages, outcomes, life, outages, reruns>>

\* _restore_request_session raises: the lease has no request.
GetFails ==
    /\ life = "running"
    /\ Outage
    /\ Pop("work")
    /\ UNCHANGED <<producer, records, outcomes, life, reruns>>

\* The callback yields a request.
YieldChild(c, d) ==
    /\ life = "running"
    /\ cell[c].stage = "leased" /\ cell[c].item \in Fruitful /\ ~cell[c].yielded
    /\ Usable(d)
    /\ cell' = [cell EXCEPT ![c].yielded = TRUE,
                            ![d] = Holding(Child(cell[c].item), "made")]
    /\ UNCHANGED <<logs, producer, startMessages, inflightMessages, outcomes,
                   life, outages, reruns>>

\* complete_request, once the callback and the puts it awaits have ended.
CompleteRequest(c) ==
    /\ life = "running"
    /\ cell[c].stage = "leased" /\ (cell[c].item \in Fruitful => cell[c].yielded)
    /\ \A d \in Cells : cell[d].stage \in {"made", "stored"}
                            => cell[d].item # Child(cell[c].item)
    /\ Ack("work", inflightMessages[c])
    /\ processed' = processed \cup {inflightMessages[c]}
    /\ inflightMessages' = [inflightMessages EXCEPT ![c] = 0]
    /\ cell' = [cell EXCEPT ![c] = Vacant]
    /\ UNCHANGED <<producer, startMessages, refused, life, outages, reruns>>

---------------------------------------------------------------------------
(* The end of the process, and the next one.                               *)

\* A crash, or a shutdown: requeue_inflight returns nothing to the broker, and
\* cleanup deletes both topics unless SCHEDULER_PERSIST keeps them.
StopCrawler ==
    /\ life = "running"
    /\ life' \in {"down", "deleted"}
    /\ taken' = 0 /\ yieldedStarts' = 0
    /\ cell' = [c \in Cells |-> Vacant]
    /\ startMessages' = [c \in Cells |-> 0]
    /\ inflightMessages' = [c \in Cells |-> 0]
    /\ UNCHANGED <<logs, outcomes, outages, reruns>>

Rerun ==
    /\ life = "down"
    /\ reruns < MaxReruns
    /\ reruns' = reruns + 1
    /\ life' = "running"
    /\ Refetch
    /\ UNCHANGED <<producer, records, outcomes, outages>>

HandoverNext ==
    \/ ReplaceClient \/ GetStartReq \/ AckStartReq \/ GetFails \/ StopCrawler \/ Rerun
    \/ \E c \in Cells :
          \/ AttachStartReq(c) \/ PutRefused(c) \/ PutPush(c) \/ PutFails(c)
          \/ PutAck(c) \/ GetRequest(c) \/ CompleteRequest(c)
          \/ \E d \in Cells : YieldChild(c, d)

HandoverSpec == HandoverInit /\ [][HandoverNext]_handoverVars

---------------------------------------------------------------------------
(* What is checked.                                                        *)

Copies(item) == {o \in 1 .. Len(topicLog["work"]) : topicLog["work"][o] = item}

\* What the start topic has committed was refused or is in the work topic.
StartCarriedOver ==
    \A m \in 1 .. committedTo["start"] : m \in refused \/ Copies(m) # {}

\* What the work topic has committed was processed, and what a processed
\* request yielded was refused or is in the work topic itself.
WorkCarriedOut ==
    /\ 1 .. committedTo["work"] \subseteq processed
    /\ \A o \in processed :
          topicLog["work"][o] \in Fruitful =>
              LET k == Child(topicLog["work"][o])
              IN k \in refused \/ Copies(k) # {}

\* At least once, but bounded: each failure and each restart repeats a message
\* at most once, and a child at most once for every copy of its parent.
RepeatedByFailuresOnly ==
    LET attempts == 1 + outages + reruns IN
    \A m \in 1 .. StartMessages :
        /\ Cardinality(Copies(m)) <= attempts
        /\ Cardinality(Copies(Child(m))) <= attempts * attempts

HandoverKept == /\ HandoverTypeOK
                /\ StartCarriedOver
                /\ WorkCarriedOut
                /\ RepeatedByFailuresOnly
=============================================================================
