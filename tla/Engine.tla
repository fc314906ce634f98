------------------------------- MODULE Engine -------------------------------
(***************************************************************************)
(* One Engine of the crawler: how requests move between the producer       *)
(* (Spider.start), the scheduler, the interceptor chains, the downloader   *)
(* and the callbacks, which of them the Engine owns (_pending_work_ids),   *)
(* and how _wait_for_explicit_completion decides that a finite crawl is    *)
(* over.  A request is carried by a task of the TaskManager, except while  *)
(* it waits in the scheduler or is in the hands of a scheduler loop: there *)
(* only the ownership record protects it.                                  *)
(*                                                                         *)
(* Items, WebSocket requests and sessions are not part of this module.     *)
(* The order of the scheduler's queue is not relied upon.                  *)
(***************************************************************************)
EXTENDS Integers, FiniteSets

CONSTANTS
    Requests,       \* request objects the spider and the interceptors may create
    Fp,             \* fingerprint of each request
    DontFilter,     \* requests with dont_filter = True
    MaxStart,       \* bound: requests yielded by Spider.start
    LoopNum,        \* MAX_SCHEDULER_LOOP_NUM
    SharedMeta,     \* new requests may be built with the meta of the one at hand
    MaxRetries,     \* bound: interceptors returning the request they were given
    MaxReplacements \* bound: interceptors returning a new Request object

ASSUME EngineAssumption ==
    /\ DontFilter \subseteq Requests
    /\ MaxStart \in Nat /\ MaxRetries \in Nat /\ MaxReplacements \in Nat
    /\ LoopNum \in Nat
    /\ SharedMeta \in BOOLEAN

NoId == 0     \* request.meta holds no work id

VARIABLES
    producer,    \* the run_spider_start task: "running", "done" or "failed"
    started,     \* requests it yielded so far
    stage,       \* where each request is (Stages)
    meta,        \* request.meta[_WORK_ID_META_KEY]
    workSeq,     \* _work_sequence
    pendingIds,  \* _pending_work_ids
    idle,        \* _work_idle_event
    newSeen,     \* MemoryDupeFilter.new_seen
    sentSeen,    \* MemoryDupeFilter.sent_seen
    waiter,      \* how far _wait_for_explicit_completion got
    phase,       \* of Engine.start: "running", "stopping", "closed"
    error,       \* TaskManager.error_event
    reschedules  \* [retries, replacements] performed by interceptors

spiderVars == <<producer, started>>
ownership == <<meta, workSeq, pendingIds, idle>>
seen == <<newSeen, sentSeen>>
lifecycle == <<waiter, phase, error>>
vars == <<spiderVars, stage, ownership, seen, lifecycle, reschedules>>

\* output: a get_spider_output or manager_spiderinterceptors_result task has it;
\* enqueue: an enqueue_request task has it; queued: in the scheduler; held: a
\* scheduler loop received it and has not created its task yet; intercept,
\* download, callback: process_downloadInterceptor_chain, process_downloader and
\* get_spider_output(source_request) tasks.  dropped: filtered; replaced: an
\* interceptor returned another request for it; lost: its task or loop ended.
Carried == {"output", "enqueue", "intercept", "download", "callback"}
Waiting == {"queued", "held"}
Ended == {"done", "dropped", "replaced", "lost"}
Stages == {"fresh"} \cup Carried \cup Waiting \cup Ended

Init ==
    /\ producer = "running" /\ started = 0
    /\ stage = [r \in Requests |-> "fresh"]
    /\ meta = [r \in Requests |-> NoId]
    /\ workSeq = 0 /\ pendingIds = {} /\ idle = TRUE
    /\ newSeen = {} /\ sentSeen = {}
    /\ waiter = "producer" /\ phase = "running" /\ error = FALSE
    /\ reschedules = [retries |-> 0, replacements |-> 0]

-----------------------------------------------------------------------------
\* run_spider_start: the spider yields a request, a task carries it on.
ProducerYield(r) ==
    /\ producer = "running"
    /\ started < MaxStart
    /\ stage[r] = "fresh"
    /\ started' = started + 1
    /\ stage' = [stage EXCEPT ![r] = "output"]
    /\ UNCHANGED <<producer, ownership, seen, lifecycle, reschedules>>

ProducerReturn ==
    /\ producer = "running"
    /\ producer' = "done"
    /\ UNCHANGED <<started, stage, ownership, seen, lifecycle, reschedules>>

\* Spider.start raises: the task publishes error_event and never counts as done.
ProducerFails ==
    /\ producer = "running"
    /\ producer' = "failed"
    /\ error' = TRUE
    /\ UNCHANGED <<started, stage, ownership, seen, waiter, phase, reschedules>>

\* get_spider_output without a source request: the spider interceptors drop the
\* request, or a task is created that enqueues it.
SpiderOutput(r) ==
    /\ stage[r] = "output"
    /\ \E next \in {"dropped", "enqueue"} : stage' = [stage EXCEPT ![r] = next]
    /\ UNCHANGED <<spiderVars, ownership, seen, lifecycle, reschedules>>

\* Mutants of Release: idle is published by every release; all ids are dropped;
\* idle is never published again.
ReleaseAlwaysIdle(id, owned, idleNow) ==
    pendingIds' = owned \ {id} /\ idle' = TRUE
ReleaseEverything(id, owned, idleNow) ==
    pendingIds' = {} /\ idle' = TRUE
ReleaseSilently(id, owned, idleNow) ==
    pendingIds' = owned \ {id} /\ idle' = idleNow

\* _release_request: discard the id, publish idle when nothing is owned.
Release(id, owned, idleNow) ==
    /\ pendingIds' = owned \ {id}
    /\ idle' = (idleNow \/ owned \ {id} = {})

\* Mutant: only requests that were answered already count as seen.
DuplicateOfSent(r) == r \notin DontFilter /\ Fp[r] \in sentSeen

\* MemoryDupeFilter.request_seen, not asked for dont_filter requests.
Duplicate(r) == r \notin DontFilter /\ Fp[r] \in newSeen \cup sentSeen

\* _track_request: a request is owned under the id its meta carries, or under a
\* new one.
WorkId(carried) == IF carried = NoId THEN workSeq + 1 ELSE carried

\* enqueue_request: the request is tracked before it is put; a rejected or
\* failed put gives the ownership up.
EnqueueRequest(r, carried) ==
    LET id == WorkId(carried)
        tracked == pendingIds \cup {id}
        stillIdle == idle /\ id \in pendingIds
    IN  /\ workSeq' = IF carried = NoId THEN workSeq + 1 ELSE workSeq
        /\ meta' = [meta EXCEPT ![r] = id]
        /\ \/ /\ ~Duplicate(r)
              /\ stage' = [stage EXCEPT ![r] = "queued"]
              /\ pendingIds' = tracked /\ idle' = stillIdle
              /\ UNCHANGED error
           \/ /\ Duplicate(r)
              /\ stage' = [stage EXCEPT ![r] = "dropped"]
              /\ Release(id, tracked, stillIdle)
              /\ UNCHANGED error
           \/ /\ stage' = [stage EXCEPT ![r] = "lost"]
              /\ Release(id, tracked, stillIdle)
              /\ error' = TRUE
        /\ newSeen' = IF r \in DontFilter THEN newSeen ELSE newSeen \cup {Fp[r]}
        /\ UNCHANGED <<spiderVars, sentSeen, waiter, phase, reschedules>>

Enqueue(r) == stage[r] = "enqueue" /\ EnqueueRequest(r, meta[r])

\* A scheduler loop receives a request from scheduler.get ...
Get(r) ==
    /\ phase = "running"
    /\ Cardinality({q \in Requests : stage[q] = "held"}) < LoopNum
    /\ stage[r] = "queued"
    /\ stage' = [stage EXCEPT ![r] = "held"]
    /\ UNCHANGED <<spiderVars, ownership, seen, lifecycle, reschedules>>

\* ... and creates the task that takes it through the download interceptors.
Dispatch(r) ==
    /\ stage[r] = "held"
    /\ stage' = [stage EXCEPT ![r] = "intercept"]
    /\ UNCHANGED <<spiderVars, ownership, seen, lifecycle, reschedules>>

ToDownloader(r) ==
    /\ stage[r] = "intercept"
    /\ stage' = [stage EXCEPT ![r] = "download"]
    /\ UNCHANGED <<spiderVars, ownership, seen, lifecycle, reschedules>>

\* manager_downloadinterceptors_result RESCHEDULE with the same request object.
RescheduleSame(r) ==
    /\ stage[r] \in {"intercept", "download"}
    /\ reschedules.retries < MaxRetries
    /\ stage' = [stage EXCEPT ![r] = "enqueue"]
    /\ reschedules' = [reschedules EXCEPT !.retries = @ + 1]
    /\ UNCHANGED <<spiderVars, ownership, seen, lifecycle>>

\* The work id a request built while handling r brings along in its meta.
InheritedIds(r) == {NoId} \cup (IF SharedMeta THEN {meta[r]} ELSE {})

\* RESCHEDULE with a new Request: the request it replaces goes no further.
RescheduleNew(r, n) ==
    /\ stage[r] \in {"intercept", "download"}
    /\ reschedules.replacements < MaxReplacements
    /\ stage[n] = "fresh"
    /\ stage' = [stage EXCEPT ![r] = "replaced", ![n] = "enqueue"]
    /\ \E carried \in InheritedIds(r) : meta' = [meta EXCEPT ![n] = carried]
    /\ reschedules' = [reschedules EXCEPT !.replacements = @ + 1]
    /\ UNCHANGED <<spiderVars, workSeq, pendingIds, idle, seen, lifecycle>>

\* process_response with a response: the fingerprint is marked as sent and the
\* callback's output gets a task of its own.
ProcessResponse(r) ==
    /\ stage[r] \in {"intercept", "download"}
    /\ sentSeen' = IF r \in DontFilter THEN sentSeen ELSE sentSeen \cup {Fp[r]}
    /\ stage' = [stage EXCEPT ![r] = "callback"]
    /\ UNCHANGED <<spiderVars, ownership, newSeen, lifecycle, reschedules>>

\* process_response with an exception: its errback has an output ...
ProcessError(r) ==
    /\ stage[r] \in {"intercept", "download"}
    /\ stage' = [stage EXCEPT ![r] = "callback"]
    /\ UNCHANGED <<spiderVars, ownership, seen, lifecycle, reschedules>>

\* _complete_request: the callback was exhausted, or there was no errback.
CompleteRequest(r) ==
    /\ stage[r] \in {"intercept", "download", "callback"}
    /\ Release(meta[r], pendingIds, idle)
    /\ stage' = [stage EXCEPT ![r] = "done"]
    /\ UNCHANGED <<spiderVars, meta, workSeq, seen, lifecycle, reschedules>>

\* get_spider_output with a source request: the callback yields a child, which is
\* enqueued in the same task before the callback goes on, or is filtered.
CallbackYield(r, c) ==
    /\ stage[r] = "callback"
    /\ stage[c] = "fresh"
    /\ \/ \E carried \in InheritedIds(r) : EnqueueRequest(c, carried)
       \/ /\ stage' = [stage EXCEPT ![c] = "dropped"]
          /\ UNCHANGED <<spiderVars, ownership, seen, lifecycle, reschedules>>

\* An interceptor, the downloader or a callback raises: TaskManager.create's
\* wrapper publishes error_event, the request keeps its ownership.
TaskFails(r) ==
    /\ stage[r] \in {"output", "intercept", "download", "callback"}
    /\ stage' = [stage EXCEPT ![r] = "lost"]
    /\ error' = TRUE
    /\ UNCHANGED <<spiderVars, ownership, seen, waiter, phase, reschedules>>

-----------------------------------------------------------------------------
\* _wait_for_explicit_completion: the producer returned ...
AwaitProducer ==
    /\ phase = "running" /\ waiter = "producer"
    /\ producer = "done"
    /\ waiter' = "idle"
    /\ UNCHANGED <<spiderVars, stage, ownership, seen, phase, error, reschedules>>

\* ... the idle event is set ...
AwaitIdle ==
    /\ phase = "running" /\ waiter = "idle"
    /\ idle
    /\ waiter' = "quiescent"
    /\ UNCHANGED <<spiderVars, stage, ownership, seen, phase, error, reschedules>>

\* ... no task carries a request (wait_for_object_quiescent), and the event is
\* still set; otherwise it starts over.
AwaitQuiescent ==
    /\ phase = "running" /\ waiter = "quiescent"
    /\ \A r \in Requests : stage[r] \notin Carried
    /\ waiter' = IF idle THEN "sent" ELSE "idle"
    /\ UNCHANGED <<spiderVars, stage, ownership, seen, phase, error, reschedules>>

\* Engine.start: completion or an error cancels the scheduler loops and the
\* producer; a request a loop was about to dispatch is lost with it.
Stop ==
    /\ phase = "running"
    /\ error \/ waiter = "sent"
    /\ phase' = "stopping"
    /\ producer' = "done"
    /\ stage' = [r \in Requests |-> IF stage[r] = "held" THEN "lost" ELSE stage[r]]
    /\ UNCHANGED <<started, ownership, seen, waiter, error, reschedules>>

\* wait_for_object_idle, then spider_closed and engine_stopped are sent.
Close ==
    /\ phase = "stopping"
    /\ \A r \in Requests : stage[r] \notin Carried
    /\ phase' = "closed"
    /\ UNCHANGED <<spiderVars, stage, ownership, seen, waiter, error, reschedules>>

\* A closed engine stays closed.
Terminated == phase = "closed" /\ UNCHANGED vars

RequestStep(r) ==
    \/ SpiderOutput(r) \/ Enqueue(r) \/ Get(r) \/ Dispatch(r) \/ ToDownloader(r)
    \/ ProcessResponse(r) \/ ProcessError(r) \/ CompleteRequest(r)

Next ==
    \/ \E r \in Requests : ProducerYield(r) \/ RequestStep(r) \/ RescheduleSame(r)
                             \/ TaskFails(r)
    \/ \E r, q \in Requests : RescheduleNew(r, q) \/ CallbackYield(r, q)
    \/ ProducerReturn \/ ProducerFails
    \/ AwaitProducer \/ AwaitIdle \/ AwaitQuiescent \/ Stop \/ Close
    \/ Terminated

Spec == Init /\ [][Next]_vars

\* Every task and loop is run by the event loop, callbacks end (their children
\* are bounded), and Spider.start returns or raises: the producer of a finite crawl.
Fairness ==
    /\ WF_vars(ProducerReturn \/ ProducerFails)
    /\ \A r \in Requests : WF_vars(RequestStep(r)) /\ WF_vars(CompleteRequest(r))
    /\ WF_vars(AwaitProducer) /\ WF_vars(AwaitIdle) /\ WF_vars(AwaitQuiescent)
    /\ WF_vars(Stop) /\ WF_vars(Close)

FairSpec == Spec /\ Fairness

-----------------------------------------------------------------------------
\* Types of all variables.
TypeOK ==
    /\ producer \in {"running", "done", "failed"} /\ started \in 0 .. MaxStart
    /\ stage \in [Requests -> Stages]
    /\ meta \in [Requests -> Nat] /\ workSeq \in Nat
    /\ pendingIds \in SUBSET Nat /\ idle \in BOOLEAN
    /\ newSeen \in SUBSET {Fp[r] : r \in Requests}
    /\ sentSeen \in SUBSET {Fp[r] : r \in Requests}
    /\ waiter \in {"producer", "idle", "quiescent", "sent"}
    /\ phase \in {"running", "stopping", "closed"} /\ error \in BOOLEAN
    /\ reschedules \in [retries : 0 .. MaxRetries, replacements : 0 .. MaxReplacements]

\* "After producer completion, the Engine waits for its owned requests,
\* callbacks ... to complete before emitting scheduler_empty": once the signal
\* is out, no request is queued, held, downloading or in a callback.
CompletionSound ==
    waiter = "sent" => \A r \in Requests : stage[r] \notin Carried \cup Waiting

\* The types hold, and a fingerprint is fetched once: of the requests that obey
\* the filter, no two with the same fingerprint pass the scheduler.
Passed == Waiting \cup {"intercept", "download", "callback", "done"}
FetchedOnce ==
    /\ TypeOK
    /\ \A r, q \in Requests \ DontFilter :
        r # q /\ Fp[r] = Fp[q] /\ stage[r] \in Passed => stage[q] \notin Passed

\* Why CompletionSound holds when requests do not share meta.  The idle event
\* says exactly that nothing is owned.
IdleExact == idle <=> pendingIds = {}

\* Work ids are numbered from 1, and an unaccepted request has none.
IdBounds ==
    /\ \A r \in Requests : meta[r] <= workSeq
    /\ \A r \in Requests : stage[r] \in {"fresh", "output"} => meta[r] = NoId

\* No two requests carry the same work id.
UniqueIds ==
    \A r, q \in Requests : meta[r] = meta[q] /\ meta[r] # NoId => r = q

\* "Own one accepted request until its complete callback boundary": while it
\* waits in the scheduler no task carries it, and its work id alone protects it.
OwnedUntilBoundary ==
    \A r \in Requests : stage[r] \in Passed \ {"done"} =>
        meta[r] # NoId /\ meta[r] \in pendingIds

\* Completion is only considered after the producer returned.
ProducerFirst == waiter # "producer" => producer = "done"

\* The inductive invariant of the proofs.
IndInv ==
    /\ TypeOK /\ IdleExact /\ IdBounds /\ UniqueIds /\ OwnedUntilBoundary
    /\ ProducerFirst /\ CompletionSound

\* A finite crawl ends: the engine closes once its producer has returned.
FiniteCrawlCloses == <>(phase = "closed")
=============================================================================
