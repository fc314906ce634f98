------------------------------- MODULE Leases -------------------------------
(***************************************************************************)
(* Delivery of work through Redis and RabbitMQ: the start queue a producer *)
(* (spiders/redis.py, spiders/rabbitmq.py) reads, the request queue of     *)
(* core/scheduler/redis.py and rabbitmq.py, and the return of unfinished   *)
(* work in Crawler._prepare_shutdown.                                      *)
(*                                                                         *)
(* Both brokers forget an entry when it is popped (a Redis Stream entry    *)
(* stays pending until XACK), so the process itself keeps what it owes:    *)
(* _inflight_requests and _start_requests, keyed by id(request).  A slot   *)
(* of `object` is the memory of one Request; _inflight_requests keeps its  *)
(* objects alive, _start_requests does not, so with RecycleIds the id of a *)
(* dead start request may belong to another request later.                 *)
(*                                                                         *)
(* A message is the entry of the start queue and the request made from it. *)
(***************************************************************************)
EXTENDS Naturals, FiniteSets

CONSTANTS
    Messages,    \* entries of the start queue
    Children,    \* requests the callbacks yield
    ParentOf,    \* the message whose callback yields a child
    Ids,         \* id(request) values
    NoItem,
    RecycleIds,  \* a stale id may be given to a new request
    MaxFaults    \* bound: broker calls, and gets, that fail

ASSUME LeasesAssumption ==
    /\ Messages \cap Children = {}
    /\ NoItem \notin Messages \cup Children
    /\ ParentOf \in [Children -> Messages]
    /\ RecycleIds \in BOOLEAN
    /\ MaxFaults \in Nat

Items == Messages \cup Children

VARIABLES
    backend,        \* which broker, how the start queue is read, SCHEDULER_PERSIST
    queue,          \* copies of each request in the request queue
    ingress,        \* copies of each message in the start queue
    pending,        \* stream entries delivered and not acknowledged
    hand,           \* the entry get_start_req popped and start() has not handled
    object,         \* the request in each slot of memory
    inflight,       \* _inflight_requests
    startRequests,  \* _start_requests
    spawned,        \* the children callbacks have yielded
    done,           \* requests completed
    dropped,        \* requests an interceptor or the duplicate filter rejected
    lost,           \* what a cancellation, a failing broker or a get took
    crawl,          \* phase of the crawl
    faults          \* failed broker calls so far

memory == <<object, inflight, startRequests>>
ledger == <<spawned, done, dropped, lost>>
leasesVars == <<backend, queue, ingress, pending, hand, memory, ledger, crawl,
                faults>>

Backends == [broker : {"redis", "rabbitmq"}, stream : {FALSE},
             autoAck : {TRUE}, persist : BOOLEAN]
            \cup [broker : {"redis"}, stream : {TRUE}, autoAck : BOOLEAN,
                  persist : BOOLEAN]

Free == [item |-> NoItem, stage |-> "free"]
Stages == {"free", "start", "child", "pushed", "popped", "leased", "failed"}

LeasesTypeOK ==
    /\ backend \in Backends
    /\ queue \in [Items -> 0 .. 1]
    /\ ingress \in [Messages -> 0 .. 1]
    /\ pending \subseteq Messages
    /\ hand \in Messages \cup {NoItem}
    /\ object \in [Ids -> [item : Items \cup {NoItem}, stage : Stages]]
    /\ inflight = {i \in Ids : object[i].stage \in {"leased", "failed"}}
    /\ startRequests \in [Ids -> Messages \cup {NoItem}]
    /\ spawned \subseteq Children
    /\ done \subseteq Items /\ dropped \subseteq Items /\ lost \subseteq Items
    /\ crawl \in {"running", "requeueing", "again", "closed"}
    /\ faults \in 0 .. MaxFaults

LeasesInit ==
    /\ backend \in Backends
    /\ queue = [r \in Items |-> 0]
    /\ ingress = [m \in Messages |-> 1]
    /\ pending = {}
    /\ hand = NoItem
    /\ object = [i \in Ids |-> Free]
    /\ inflight = {}
    /\ startRequests = [i \in Ids |-> NoItem]
    /\ spawned = {} /\ done = {} /\ dropped = {} /\ lost = {}
    /\ crawl = "running"
    /\ faults = 0

Forget(i) == object' = [object EXCEPT ![i] = Free]
Stage(i, s) == object' = [object EXCEPT ![i].stage = s]
Add(counts, r) == [counts EXCEPT ![r] = @ + 1]
Take(counts, r) == [counts EXCEPT ![r] = @ - 1]

\* One more broker call fails, after its retries.
Fault == faults < MaxFaults /\ faults' = faults + 1

\* A new Request is given a slot that is free.
Allocatable(i) == /\ object[i].stage = "free"
                  /\ RecycleIds \/ startRequests[i] = NoItem

---------------------------------------------------------------------------
(* The producer: RedisSpider.start, RabbitMQSpider.start.                  *)

PopStart(m) ==
    /\ crawl = "running"
    /\ hand = NoItem
    /\ ingress[m] > 0
    /\ ingress' = Take(ingress, m)
    /\ hand' = m
    /\ pending' = IF backend.stream THEN pending \cup {m} ELSE pending
    /\ UNCHANGED <<backend, queue, memory, ledger, crawl, faults>>

\* Mutant: the entry is acknowledged when its request is made, not when it
\* is stored.
MakeRequestAcked(i) ==
    /\ crawl = "running"
    /\ hand # NoItem
    /\ Allocatable(i)
    /\ object' = [object EXCEPT ![i] = [item |-> hand, stage |-> "start"]]
    /\ pending' = pending \ {hand}
    /\ hand' = NoItem
    /\ UNCHANGED <<backend, queue, ingress, inflight, startRequests, ledger,
                   crawl, faults>>

\* attach_start_req: not for stream entries the user acknowledges.
MakeRequest(i) ==
    /\ crawl = "running"
    /\ hand # NoItem
    /\ Allocatable(i)
    /\ object' = [object EXCEPT ![i] = [item |-> hand, stage |-> "start"]]
    /\ startRequests' = IF backend.stream /\ ~backend.autoAck
                        THEN startRequests
                        ELSE [startRequests EXCEPT ![i] = hand]
    /\ hand' = NoItem
    /\ UNCHANGED <<backend, queue, ingress, pending, inflight, ledger, crawl,
                   faults>>

\* make_request_from_data returned nothing: the entry is acknowledged.
DiscardStart ==
    /\ crawl = "running"
    /\ hand # NoItem
    /\ pending' = IF backend.autoAck THEN pending \ {hand} ELSE pending
    /\ dropped' = dropped \cup {hand}
    /\ hand' = NoItem
    /\ UNCHANGED <<backend, queue, ingress, memory, spawned, done, lost, crawl,
                   faults>>

\* The reply of the pop is lost, or make_request_from_data raises: nobody has
\* the entry any more, though one of a stream is still pending.
StartFails ==
    /\ crawl = "running"
    /\ hand # NoItem
    /\ Fault
    /\ lost' = lost \cup {hand}
    /\ hand' = NoItem
    /\ UNCHANGED <<backend, queue, ingress, pending, memory, spawned, done,
                   dropped, crawl>>

---------------------------------------------------------------------------
(* The scheduler: put, get and complete_request.                           *)

\* An interceptor drops the request, or put finds it seen: nothing is done
\* about the entry it came from.
Reject(i) ==
    /\ object[i].stage \in {"start", "child"}
    /\ Forget(i)
    /\ dropped' = dropped \cup {object[i].item}
    /\ UNCHANGED <<backend, queue, ingress, pending, hand, inflight,
                   startRequests, spawned, done, lost, crawl, faults>>

Push(i) ==
    /\ object[i].stage \in {"start", "child"}
    /\ queue' = Add(queue, object[i].item)
    /\ Stage(i, "pushed")
    /\ UNCHANGED <<backend, ingress, pending, hand, inflight, startRequests,
                   ledger, crawl, faults>>

\* The push raises, whether or not the broker stored the request.  The task
\* ends; the callback a child came from ends too, uncompleted.
PushFails(i) ==
    /\ object[i].stage \in {"start", "child"}
    /\ Fault
    /\ queue' \in {queue, Add(queue, object[i].item)}
    /\ object' = [j \in Ids |->
                    IF j = i THEN Free
                    ELSE IF /\ object[i].stage = "child"
                            /\ object[j].stage = "leased"
                            /\ object[j].item = ParentOf[object[i].item]
                         THEN [object[j] EXCEPT !.stage = "failed"]
                         ELSE object[j]]
    /\ UNCHANGED <<backend, ingress, pending, hand, inflight, startRequests,
                   ledger, crawl>>

\* _complete_start_request, which every put calls: what is recorded under the
\* id of the request is forgotten, and acknowledged if it is a stream entry.
\* The acknowledgement may fail.
CompleteStart(i) ==
    /\ object[i].stage = "pushed"
    /\ Forget(i)
    /\ startRequests' = [startRequests EXCEPT ![i] = NoItem]
    /\ \/ pending' = pending \ {startRequests[i]} /\ UNCHANGED faults
       \/ startRequests[i] \in pending /\ Fault /\ UNCHANGED pending
    /\ UNCHANGED <<backend, queue, ingress, hand, inflight, ledger, crawl>>

\* get: the request leaves the broker; its session is restored before it is
\* leased.
Get(i, r) ==
    /\ crawl = "running"
    /\ Allocatable(i)
    /\ queue[r] > 0
    /\ queue' = Take(queue, r)
    /\ object' = [object EXCEPT ![i] = [item |-> r, stage |-> "popped"]]
    /\ UNCHANGED <<backend, ingress, pending, hand, inflight, startRequests,
                   ledger, crawl, faults>>

\* The reply of the pop is lost, or get raises after it, in from_bytes or in
\* the restore of the session: the request is gone.
GetRaises(i) ==
    /\ crawl = "running"
    /\ object[i].stage = "popped"
    /\ Fault
    /\ Forget(i)
    /\ lost' = lost \cup {object[i].item}
    /\ UNCHANGED <<backend, queue, ingress, pending, hand, inflight,
                   startRequests, spawned, done, dropped, crawl>>

LeaseRequest(i) ==
    /\ crawl = "running"
    /\ object[i].stage = "popped"
    /\ Stage(i, "leased")
    /\ inflight' = inflight \cup {i}
    /\ UNCHANGED <<backend, queue, ingress, pending, hand, startRequests,
                   ledger, crawl, faults>>

\* The callback of a leased request yields a child.
Yield(i, j, c) ==
    /\ crawl = "running"
    /\ object[i] = [item |-> ParentOf[c], stage |-> "leased"]
    /\ c \notin spawned
    /\ Allocatable(j)
    /\ object' = [object EXCEPT ![j] = [item |-> c, stage |-> "child"]]
    /\ spawned' = spawned \cup {c}
    /\ UNCHANGED <<backend, queue, ingress, pending, hand, inflight,
                   startRequests, done, dropped, lost, crawl, faults>>

\* A callback completes its request only after its children crossed the
\* broker boundary (Engine.get_spider_output with wait_for_boundary).
BoundaryCrossed(i) ==
    \A j \in Ids : object[j].stage \in {"child", "pushed"}
        /\ object[j].item \in Children => ParentOf[object[j].item] # object[i].item

Complete(i) ==
    /\ crawl = "running"
    /\ object[i].stage = "leased"
    /\ BoundaryCrossed(i)
    /\ inflight' = inflight \ {i}
    /\ Forget(i)
    /\ done' = done \cup {object[i].item}
    /\ UNCHANGED <<backend, queue, ingress, pending, hand, startRequests,
                   spawned, dropped, lost, crawl, faults>>

---------------------------------------------------------------------------
(* Shutdown: cancel_all, requeue_inflight, cleanup.                        *)

\* Every task is cancelled.  Requests that were popped and not leased are
\* gone, and so is an entry the producer had not handled: a stream entry
\* stays pending, RabbitMQ takes back what the cancelled Basic.Get delivered
\* unless its result was already on the way.
CancelTasks ==
    /\ crawl = "running"
    /\ crawl' = "requeueing"
    /\ object' = [i \in Ids |-> IF i \in inflight THEN object[i] ELSE Free]
    /\ hand' = NoItem
    /\ LET popped == {object[i].item : i \in
                        {j \in Ids : object[j].stage = "popped"}}
           held == {hand} \ {NoItem}
       IN \/ /\ backend.broker = "rabbitmq" /\ hand # NoItem
             /\ ingress' = Add(ingress, hand)
             /\ lost' = lost \cup popped
          \/ /\ lost' = lost \cup popped \cup held
             /\ UNCHANGED ingress
    /\ UNCHANGED <<backend, queue, pending, inflight, startRequests, spawned,
                   done, dropped, faults>>

Requeueing == crawl \in {"requeueing", "again"}

\* requeue_inflight returns leased requests one by one, ...
RequeueRequest(i) ==
    /\ Requeueing
    /\ i \in inflight
    /\ queue' = Add(queue, object[i].item)
    /\ inflight' = inflight \ {i}
    /\ Forget(i)
    /\ UNCHANGED <<backend, ingress, pending, hand, startRequests, ledger,
                   crawl, faults>>

\* ... then the entries whose requests were never stored.
RequeueStart(i) ==
    /\ Requeueing
    /\ inflight = {}
    /\ startRequests[i] # NoItem
    /\ ingress' = Add(ingress, startRequests[i])
    /\ pending' = pending \ {startRequests[i]}
    /\ startRequests' = [startRequests EXCEPT ![i] = NoItem]
    /\ UNCHANGED <<backend, queue, hand, object, inflight, ledger, crawl,
                   faults>>

Owed == {object[i].item : i \in inflight}
        \cup ({startRequests[i] : i \in Ids} \ {NoItem})

\* A push raises out of _prepare_shutdown of start_engines; the shutdown of
\* the runner tries once more, and when that raises too the rest is gone.
RequeueFails ==
    /\ Requeueing
    /\ Owed # {}
    /\ Fault
    /\ IF crawl = "requeueing"
       THEN crawl' = "again" /\ UNCHANGED <<object, inflight, startRequests, lost>>
       ELSE /\ crawl' = "closed"
            /\ lost' = lost \cup Owed
            /\ object' = [i \in Ids |-> Free]
            /\ inflight' = {}
            /\ startRequests' = [i \in Ids |-> NoItem]
    /\ UNCHANGED <<backend, queue, ingress, pending, hand, spawned, done, dropped>>

\* Without SCHEDULER_PERSIST the queues are deleted.
Cleanup ==
    /\ Requeueing
    /\ Owed = {}
    /\ crawl' = "closed"
    /\ IF backend.persist
       THEN UNCHANGED <<queue, ingress, pending>>
       ELSE /\ queue' = [r \in Items |-> 0]
            /\ ingress' = [m \in Messages |-> 0]
            /\ pending' = {}
    /\ UNCHANGED <<backend, hand, memory, ledger, faults>>

---------------------------------------------------------------------------
ShutdownStep == \/ RequeueFails \/ Cleanup
                \/ \E i \in Ids : RequeueRequest(i) \/ RequeueStart(i)

LeasesNext ==
    \/ \E m \in Messages : PopStart(m)
    \/ DiscardStart \/ StartFails \/ CancelTasks \/ ShutdownStep
    \/ \E i \in Ids :
          \/ MakeRequest(i) \/ Reject(i) \/ Push(i) \/ PushFails(i)
          \/ CompleteStart(i) \/ GetRaises(i) \/ LeaseRequest(i) \/ Complete(i)
          \/ \E r \in Items : Get(i, r)
          \/ \E j \in Ids, c \in Children : Yield(i, j, c)

LeasesSpec == LeasesInit /\ [][LeasesNext]_leasesVars

---------------------------------------------------------------------------
(* What is checked.                                                        *)

Stored(r) == \/ queue[r] > 0
             \/ r \in Messages /\ (ingress[r] > 0 \/ r \in pending)

Settled == done \cup dropped \cup lost

\* While the crawl runs, work that entered it is settled, stored by a broker
\* or recorded by the process; a child may also be made again by its parent.
\* A failed push, an acknowledgement or a rejected request loses nothing else;
\* what was popped and not leased yet is lost if the pop's reply is, if get
\* raises or if it is cancelled (lost).
KeptWhileRunning ==
    crawl # "closed" =>
        \A r \in Messages \cup spawned :
            \/ r \in Settled
            \/ Stored(r)
            \/ r = hand \/ r \in Owed
            \/ \E i \in Ids : object[i].item = r
            \/ r \in spawned /\ ParentOf[r] \in Owed \cup lost
            \/ r \in spawned /\ Stored(ParentOf[r])

\* After the shutdown of a persistent crawl everything that was not settled
\* is back in a queue: requeue_inflight is run once more when a push fails.
ReturnedAtShutdown ==
    crawl = "closed" /\ backend.persist =>
        \A r \in Messages \cup spawned :
            \/ r \in Settled
            \/ Stored(r)
            \/ r \in spawned /\ (Stored(ParentOf[r]) \/ ParentOf[r] \in lost)

\* The types, and no work lost from its first pop to the end of a shutdown.
WorkKept == LeasesTypeOK /\ KeptWhileRunning /\ ReturnedAtShutdown
=============================================================================
