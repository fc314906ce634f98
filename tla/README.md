# A formal model of scrapy_cffi

TLA+ specifications of the parts of `scrapy_cffi` that decide whether a crawl loses
work, announces its end too early, never ends, leaks what it opened, or hands a spider
something other than what the server sent; the TLC configurations that check them on
small instances; and TLAPS proofs of the safety properties that matter most.
`PROJECT.json` maps every definition to the lines it models. Paths below are relative to
`src/scrapy_cffi/`.

## 1. The system

A `Crawler` runs one asyncio event loop with one `Engine` per spider. Concurrency is
cooperative: coroutines interleave at `await`, and several things that look like one step
in the source are not. Threads and processes appear only at the edges (`utils/`). Durable
state sits in brokers (Redis, RabbitMQ, Kafka).

| Component | State it keeps | Talks to | Hard because | Module |
|---|---|---|---|---|
| Engine (`core/engine.py`), in-memory scheduler | `_work_sequence`, `_pending_work_ids`, idle event, phase of `start`, seen and sent sets | all below | the end of a crawl is inferred from ids, an event and a task count that change at different moments | `Engine` |
| TaskManager (`core/tasks.py`) | counts per name and object, events, global semaphore | Engine, Crawler | counters are raised outside and lowered inside the semaphore; loops hold slots | `Tasks` |
| Kafka queue (`infra/kafka/client.py`, `repo/queue.py`, `core/scheduler/kafka.py`) | `_pending_offsets`, `_offset_lock`, leases | broker, slot | requests finish out of order, commits fail, clients are replaced, the group rebalances; work crosses from the start topic to the work topic | `KafkaOffsets`, `KafkaHandover` |
| Kafka connections (`infra/kafka/client.py`) | producer, consumers, four locks, ensured topics | broker | first use races with close and with other first uses | `KafkaTransport` |
| RabbitMQ connections (`infra/rabbitmq/client.py`) | connection, channels, declared queues, three locks | broker | reconnects while others publish, receive or delete | `RabbitTransport` |
| Redis, RabbitMQ schedulers (`core/scheduler/`, `spiders/`) | in-flight and start-request tables | broker, Engine | a popped request exists in memory only | `Leases` |
| ResourceSlot, RetryPolicy (`service/resilience.py`) | resource, generation, lock | every adapter | many callers see one failed generation | `Recovery`, `AbstractSlot` |
| Duplicate filters (`dupefilter/`, `repo/redis.py`) | shared sets and bitmaps | scheduler | several workers, lost replies, expiry | `Dedup` |
| SessionManager (`core/sessions.py`) | sessions, counts, end flags, groups, close queue, frozen flag | interceptors, Downloader, Engine, Crawler | five parties change the counts | `Sessions` |
| Session state | cookie jar, Client Hints, snapshot in Redis | scheduler, interceptors | restored by every scheduler loop and saved by every put, without a lock; worker may crash | `SessionState` |
| WebSocket pool (`core/sessions.py`, `fetch.py`) | entries, counts, events, listener and ping tasks | Engine | three parties close one connection | `WebSockets` |
| Chains and streams (`interceptors/chains.py`, `fetch.py`) | stream permits, live streams | Engine | user code may return or raise anything at every node | `Chains` |
| Transfers of a session (`core/sessions.py`, `fetch.py`) | limiter lock and `_next_start`, media parts | HTTP library | retries, deadlines, cancelled sleepers, servers that answer ranges as they like | `Transfers` |
| Signals (`extensions/signal_manager.py`) | bounded queue, put tasks, consumer | everyone | overload, and stop while puts wait | `Signals` |
| Monitor extension, Hub (`extensions/monitoring.py`, `monitoring/`) | sequence, heartbeat; bounded store of runs and workers | Signals | callbacks run concurrently, posts are lost or late, the store evicts | `Monitoring`, `HubStore` |
| Crawler, runner, resources (`crawler.py`, `runner.py`, `runtime/`, `composition.py`) | resources, shutdown phases and lock | all | two actors run shutdown; every step may fail; several crawlers share a loop | `Lifecycle`, `Fleet` |
| FFmpeg processes (`utils/ffmpeg.py`) | handles, permits, pipes | OS | stop, kill, timeout and close meet on one process | `Processes` |
| Threads and pool (`utils/concurrency.py`, `process.py`) | futures, callbacks, executor | threads | real preemption | `Offload` |
| Robots and domains (`utils/robot.py`, `domain.py`, `interceptors/`) | rules cache | sites | parsing, precedence, concurrent loading | `Politeness` |
| Protobuf codec (`utils/blackboxprotobuf`, `platform/protobuf.py`) | none | spiders | schema-less guessing must not change the message | `Protobuf` |
| Server-sent events (`internet/response.py`) | the event under construction | server | what ends an event, what outlives it | `EventStream` |

What makes each of them correct is stated by the properties of section 3; the places
where they can go wrong are listed, line by line, under `PROJECT.json` "hazards". Parts
with no behaviour over time are listed in section 7.

## 2. The modules

Conventions shared by all modules: a step is what runs between two awaits (in `Offload`,
what the interpreter lock cannot split); libraries, brokers, servers and user code are
nondeterministic; every await that the code may be cancelled in has a cancelled outcome
(but for the two closes of a WebSocket named in section 7);
every bound is a constant that occurs in a guard and whose comment says "bound". The
operators marked "mutant" are plausible slips in one definition each (a dropped guard, a
missing reset, an off-by-one). Exchanged for the original they must break the property
they are listed with, which shows that the property says something about the code.

### Core

**KafkaOffsets** — one manual-commit partition. State: the broker's committed offset; per
client generation the fetch position, the `_pending_offsets` deque and the lock's holder;
per delivery of a record how far it got, its client and the offset it asks to commit.
`Getone` and `RecordLease` are the two halves of `dequeue_request`; `AckUnknown` and
`AckMark` are `ack_request` up to `commit()`; `CommitSucceeds`, `CommitFails`,
`RetryAck`, `ReplaceClient`, `ClosePrevious` are `RetryPolicy.run` with
`ResourceSlot.replace`; `CancelLoops`, `CancelOwner` the shutdown; `Rebalance` and
`Restart` are external. The request topic and the start topic are two instances of it.

**Engine** — from `Spider.start` to `engine_stopped`. State: where each request is, the
work id in its meta, `_work_sequence`, `_pending_work_ids`, the idle event, both sets of
the duplicate filter, how far completion waiter and `start` got. A stage in `Carried` is a
task the TaskManager counts; `queued` and `held` are not, which is why ownership exists.
`SharedMeta` says whether a request may be built from another's meta.

**Tasks** — TaskManager for several engines: free slots and who waits for one, the
counters and events, each loop's capacity wait, the idle wait. The lock of the manager is
never held across a suspension, so what it protects is atomic.

**Sessions** — wrappers per id, the registered one, groups, `_ref_counts`, end flags, close
queue, reaper (two steps, because a close awaits), freeze, snapshot and `close_all`. The
members of a group are a set: `mark_end` queues them in any order (`Orders`).

### Lifetimes: what is opened is closed

**Recovery** — `ResourceSlot.start/get/replace/close` and `RetryPolicy.run` for several
callers and an owner. `AbstractSlot` is what the slot promises: an atomic cell that is
filled once, advances with every replacement and is emptied once. The refinement mapping
takes the resource for the cell's content and the generation for its count; its phase is
"ready" exactly while there is a resource. `SlotImplemented == Slot!SlotSpec`.

**KafkaTransport**, **RabbitTransport** — first use, declaration, publishing, receiving,
deletion and close of one client under its locks. The client is used by itself (it
connects on first use) or through a slot.

**Lifecycle** — registration with the names a user list may replace, start of resources in
order with unwinding, initialization, the two phases of `Crawler.shutdown`, `run_sync` and
`CrawlerRunHandle`. Two actors, the task of `start_engines` and the stopper, run the same
shutdown code; any step may raise and may be cancelled, `MaxFailures` times.

**Fleet** — `run_spiders_sync`: crawlers started one after the other, one wait for all
engines, one for all shutdowns, Ctrl+C with its own shutdowns, and `cleanup_loop`, which
cancels the tasks it found one by one while the rest of the loop goes on. A crawler is an
engine task, a shutdown and its resources. Ctrl+C while crawlers are still being started
is excepted from the properties: `main()` starts further crawlers while `cleanup_loop`
awaits a task, and nobody shuts those down.

**Processes** — `_execute` of each handle against up to three operations on it.
**Offload** — `ThreadFuture` with its callbacks, the two coroutine helpers, and the pool.

### Exchange: what a worker gives to and gets from others

**Leases** — start ingress from Redis lists, Redis streams and RabbitMQ queues, push, pop,
lease, completion, `requeue_inflight`, cleanup, with failing calls and a crash. Objects
have an id that dies with them.
**KafkaHandover** — from a message of the start topic to the acknowledged request of the
work topic: `KafkaSpider.start`, `put`, `get` and `complete_request` of `KafkaScheduler`
over the leases and commits of both topics, with replaced clients, failing calls, stops
and restarts. Commits are atomic here; `KafkaOffsets` takes them apart.
**Dedup** — the set and the bitmap script as one: a fingerprint is the set of positions it
occupies. A request starts at the output of a spider, where `RobotSpiderInterceptor` pops the
flag of start URLs (`Intercept`) before `put` asks for it (`Bypass`, `Check`).
**SessionState** — the cookies and hints of one session through pushes, pops and restarts.
Every put saves a snapshot and each of `Loops` scheduler loops restores one; export and
`hset`, look-up, `hget` and import are steps of their own, because no lock joins them.
**Signals**, extended by **Monitoring** — one run from the signals of engines and crawler to
the Hub. **HubStore** — the Hub's store for many runs.
**Politeness** — robots.txt as sequences of lines, host names as sequences of labels,
`allowed_domains` any set of sites, the empty one included; the result of the code's parser
and matcher, a set of rules with their places, is compared with `Permitted`, a definition of
what a file permits that works on its lines directly.
**Protobuf** — decoder and encoder as operators with the code's error paths; numbers are
scaled, their shape is kept. It is the only module with recursion over data.
**EventStream** — `aiter_sse` line by line. `SseExact` relates what was yielded to the
lines received, without building it: the ends of blocks (`Ends`), the event of each
(`EventOf`), values in the order of their lines (`InOrder`).

### Traffic: between an engine and a server

**WebSockets** — entry, listener, owner, sends by id, end signals, pings, the reaper, and
connect requests that meet an entry of their URL: such a one is a send that gives back a
reference it never took (`Reuse`).
**Chains** — request, response, exception and output chains with streams; `task` says which
task runs a request, because that decides who closes its stream when something raises.
**Transfers** — spaced starts, retries, deadlines, and media assembled from ranges. Time is
relative: ticks until the next permitted start.

### Instances

`MCKafkaOffsets`, `MCEngine` and `MCSessions` give the constants of their runs.
`MCScheduling`, `MCLifetimes`, `MCExchange` and `MCTraffic` each hold the components of one
group: `MCScheduling` the tasks, the disciplined sessions and a small engine (an instance of
`Engine` with variables of its own). These do
not share state, so their product would only multiply states: the variable `focus` is
chosen in the initial state, one component moves and the others stay in their initial
state. Each property of such a run is that of one component (or names a pair, as
`BrokersInv`, `RunsInv` or `DeliveryKept`); checked over the behaviours of its component it says exactly what it would
say in a run of its own. Where a component may come to rest, the next-state relation has an
explicit stuttering disjunct; `Lifecycle` and `Monitoring` say themselves where they may
rest, so that deadlock is checked in them.

Composition where state is shared: `KafkaOffsets` contains the slot's generations, `Engine`
the scheduler and duplicate filter, `Tasks` several engines, `Sessions` its users, the
reaper and the shutdown, `Leases` and `KafkaHandover` producer, scheduler and shutdown, `Monitoring` signals,
extension and Hub, `WebSockets` pool, downloader and engine, `Chains` interceptors,
downloader and engine, `Lifecycle` composition, resources, crawler and runner.

## 3. The runs

| Run | Properties | Shows |
|---|---|---|
| `kafka` | `TypeOK`, `AtLeastOnce`, `CommittedWithoutRebalance` | no commit passes an unprocessed record; without a rebalance or a cancelled task all records are committed in the end, failed commits and replaced clients included |
| `engine_safety` | `CompletionSound`, `OwnedUntilBoundary`, `FetchedOnce` | completion is announced over an empty crawl only; an accepted request is owned until its callback ended; a fingerprint passes once |
| `scheduling` | `TasksInv`, `EveryTaskStarts`, `StoppedEngineCloses` | counters and slots are exact, no scheduler loop sleeps below the limit, every task starts, a stopping engine closes; each up to tasks cancelled in the semaphore's queue |
| | `NotClosedInUse`, `EndedUnusedCloses` | single sessions, not used after their end, are never closed under a fetch and are closed once unused |
| | `FiniteCrawlCloses` | the engine closes, with duplicates, retries, failures and shared meta, when no request is replaced |
| `sessions_bookkeeping` | `SessionsInv`, `WrappersOwned`, `FrozenKeepsSessions` | counts, close queue, table and shutdown agree; no wrapper is open without an owner, none that is registered is closed |
| `lifetimes` | `RecoveryInv`, `RetriesOnFresh`, `CallsEnd`, `SlotImplemented` | no replacement, failed or cancelled, forgets a connected client, a retry runs on a newer client, every call ends, the slot implements the atomic one |
| | `BrokersInv`, `BrokersEnd` | nothing is published to a topic or queue that is not ready; one producer, one manual consumer, one channel per queue; after close nothing is left; no call waits for ever on a lock |
| | `RunsInv`, `RunsEnd` | resources are open for the engines and the broker-writable phase, that phase is not run again once it succeeded, sessions close after it and resources after the extensions; when a shutdown returns no resource and no pool is left; a stop ends whatever fails; in a fleet no crawler that fails, and no Ctrl+C, keeps another from closing, nothing is pending when the loop is closed, and the thread leaves the loop |
| | `HelpersInv`, `HelpersReturn` | live processes keep the limit, a published result is final, none is left after close (but one whose stdin broke under its input); callbacks are called once, an answer is the coroutine's own, no pool call outlives close; who stops or awaits gets an answer |
| `exchange` | `DeliveryKept` | while the crawl runs, work that entered it is settled, stored by a broker or recorded by the process; after the shutdown of a persistent crawl what was not settled is back in a queue, also when a push fails once. Over Kafka: what the start topic has committed is in the work topic or was refused, what the work topic has committed was processed and its children stored, and a request is repeated by failures and restarts only, within a bound |
| | `DedupInv` | two workers never both schedule a fingerprint its shard remembers, and each position of a dropped request was recorded for a request of its shard that was let in or lost its own verdict; so nobody fetches a fingerprint only if that request's push failed, or its reply |
| | `CarriedKnown` | a request is sent with every cookie the session had when it was put, but those that a snapshot without them has replaced since |
| | `ObservationInv` | the signals a stop owes its callbacks are dispatched, no heartbeat follows the close of a run; the Hub's store is bounded, its engine counts have an owner, and a run shown as ended reported so itself |
| | `RobotsObeyed` | what passes the interceptor and is no start URL goes to an entry of `allowed_domains` whose own file permits it, or that gave none (one that could not be asked is not crawled); or to a host that is no entry, and then below one or with nothing listed |
| | `SseExact` | at every moment the spider has got one event for each block of lines that has data and has ended, with its data, name and retry and the last id of the stream |
| `traffic` | `WebSocketsInv`, `HeldSendServed`, `EndHonoured` | reference counts are exact, every open socket has an entry or a close under way; a send that holds its entry is served before an end signal stops the listener; an ended connection completes its request; counts and signals up to entries that a connect request used or a holder lost (`skewed`) |
| | `ChainsInv`, `FetchesEnd` | stream permits are exact, an open stream has a task that closes it; every request leaves the chains (`RequestsEnd`) and every transfer ends but media without a `max_media_size` (`TransfersEnd`) |
| | `MediaWhole`, `SpacedStarts` | a finished media body is complete and within the limit it has; a start keeps the interval that was in force at the one before, however the rate changes |
| | `CodecExact` | decoding and encoding a message gives the message back; gRPC frames come out whole |
| `kafka_rebalance_stall`, `engine_replaced_request`, `chains_outputs`, `session_late_restore`, `dedup_start_urls` (violations) | `EventuallyCommitted`, `FiniteCrawlCloses`, `OutputsKept`, `NeverForgets`, `StartUrlsBypass` | findings, section 4 |

### Bounds, and why they are enough

- `kafka`: two records are the least that can be acknowledged out of order; four deliveries
  let both be delivered twice, which is what one replacement, restart or rebalance needs.
- `engine_*`: four requests (three in the violation), two with one fingerprint, one that
  bypasses the filter, from producer, callbacks and interceptors. More scheduler loops only
  hold more requests in the same stage.
- `scheduling` (about 136 000 states): two engines with a loop each and three slots, one more
  than the loops, the least that starves nobody; five tasks, so that the engines compete. Two
  ids besides the default and three users, so that one keeps a session alive while another
  ends it. Three requests, two of them with one fingerprint, one yielded by `Spider.start`
  and the others by callbacks, so that the duplicates may be put at once.
- `sessions_bookkeeping`: two ids besides the default, a group of both, two users re-scheduled
  once and two wrappers per id, so that an id is closed and made again.
- `lifetimes` (about 320 000 states): two callers, one of which may call during shutdown,
  and three attempts: the second failure of one caller meets the replacement by the other.
  Kafka: a push, two pops, a registration, one poll of the topic; RabbitMQ: a push, two
  pops and a delete of one queue, a delete of another, two connections. One built-in
  resource and a user class that has its own or the built-in name; two failures. A fleet of
  two and two mishaps (three crawlers also pass, in a larger instance). Two
  processes for one permit, one with input, a kill by a caller. Two callbacks, two pool
  calls for one worker.
- `exchange` (about 3 million states): two messages and a child, three object ids, two
  faults; two Kafka messages, one with a child, two ids, an outage and a restart; four requests with three fingerprints, of which two pairs overlap in the bitmap,
  so that a false positive occurs, a start URL with a fingerprint of its own and one that is
  a duplicate of a link; three visits, two scheduler loops, a cookie, a hint, a restart; two
  engines and a signal queue of one, so that every put can block, and no outage of the Hub; three runs of two
  workers with room for two runs and one worker, a lost or late post; two sites, one a
  subdomain of the other, any of them listed, and all files of two rules under one or two agent lines; all
  streams of up to four lines over nine lines.
- `traffic` (about 215 000 states): all strings of up to four bytes over nine bytes of every
  wire type and all sequences of up to three of fourteen fields; two connects and a send; two streaming requests for one
  permit through two download interceptors and one spider interceptor; two transfers, one
  of media with a limit or without, two attempts, sizes up to one above the limit, intervals
  of none, one and two ticks changed at any time.

**Deadlock** is checked except where the system really may stop: the bounded Kafka log is
consumed, `EngineSafety` allows replaced requests whose leaked ownership leaves the engine
waiting, and the traffic of a session ends.

**Fairness** is weak fairness of what the event loop or a thread runs by itself: coroutines
that are ready, the reaper, scheduler loops, waiters for a lock (asyncio locks are FIFO).
Callbacks, `Spider.start`, interceptors and offloaded functions end (a finite crawl); a
fetch ends because it has a deadline. A commit the coordinator keeps refusing must be
answered in the end, so `CommitFails` is fair only for a fenced client. A killed process
exits; one asked to quit or terminated need not. In `Fleet` the thread goes on once it is
inside `run_until_complete` of something that was told to end. `Transfers` assumes strong fairness of the
limiter's lock and of the timer of a sleeper: both are re-enabled in turn by other
transfers, and FIFO locks and the event loop's timer heap pass nobody over for ever.
Failures, cancellations, rebalances, restarts, end signals and shutdown are never forced.

## 4. Findings

1. `kafka_rebalance_stall`: `ack_request` marks only the first entry of an offset. After a
   rebalance a deque may hold an offset twice; the second entry is never acknowledged and
   blocks the prefix (`infra/kafka/client.py:372`).
2. `engine_replaced_request`: a download interceptor that returns a *new* request leaves
   the old one's work id owned: a finite crawl never closes (`core/engine.py:349`).
3. `chains_outputs`: a spider interceptor that yields several results from one output keeps
   only the last (`interceptors/chains.py:298`).
4. `session_late_restore`: an engine has ten scheduler loops by default, and each restores the
   session of the request it took. Two that look before either has marked the field both
   load the snapshot; the later import replaces the jar and takes back a cookie that a
   response set meanwhile (`core/sessions.py:963`). The run has two loops, one restart, and
   no request of the restarted spider's own.
5. `dedup_start_urls`: start URLs meet the filter, because an interceptor pops the flag that
   lets them bypass it (`interceptors/spiders.py:218`).

The documentation they disagree with is quoted in `PROJECT.json`.

### Outside the assumptions of the passing runs

The passing runs state their assumptions as constants or as hypotheses of a property.
Each of these was found to be needed; with the other value, or without the exception, TLC
finds a counterexample. Only unlimited media cannot show one: the sizes a server speaks of
are bounded in the model (`MaxSize`), so that exception is read off the code.

| Assumption | Without it | Source |
|---|---|---|
| `SharedMeta = FALSE` (`engine_safety`) | a child with a copy of its parent's meta shares its work id; the parent's completion disowns it and completion is announced while it is queued | `core/engine.py:163` |
| no task cancelled in the semaphore's queue (`Tasks`) | it stays counted for ever: `IdleWaitEnds` fails | `core/tasks.py:65` |
| no use after the end (`scheduling`: `ReuseEnded = FALSE`) | a fetch takes the session while the reaper, which does not look at the counts again, closes it | `core/sessions.py:877` |
| no re-scheduling (`MaxRefetch = 0`) | the count is released without a new acquire, and the session is closed under the next fetch | `core/downloader/fetch.py:151` |
| no groups (`scheduling`) | a group member is closed under a fetch counted for the group | `core/sessions.py:853` |
| `OwnerWaits` (`Recovery`) | a call that starts after the close fills the slot again | `service/resilience.py:77` |
| `RecycleIds = FALSE` (`Leases`) | a new request with the id of a dead start request acknowledges its entry | `core/scheduler/redis.py:94` |
| `RecycleCells = FALSE` (`KafkaHandover`) | a new request with the id of a collected one acknowledges a start message whose push failed | `core/scheduler/kafka.py:93` |
| entries no connect request has used (`skewed`, in `RefsExact`, `HeldSendServed`, `EndHonoured`) | the count is one too low: an end signal stops the listener under a send, or is kept for ever | `core/engine.py:449` |
| media with a `max_media_size` (`TransfersEnd`) | a server that never tells the total is asked for one part more for ever: the default has no limit, and no deadline spans the parts | `core/downloader/fetch.py:79` |
| the interval in force at the earlier start (`SpacedStarts`) | after the rate is lowered the next start still comes when the old interval says; `configure` speaks of future admissions | `core/sessions.py:323` |
| hosts that are entries of `allowed_domains` (`RobotsObeyed`) | a subdomain of an entry, and any host when nothing is listed (the default), has no file in the cache and is crawled unchecked | `utils/robot.py:138` |
| no push, pop reply or `get` that fails in between (`WorkKept`, `DroppedForCause`: `lost`) | a request popped and not leased, or recorded and not pushed, is gone | `core/scheduler/redis.py:209` |
| `CloseEarly = FALSE` (`KafkaTransport`) | a consumer started on a client that is closed meanwhile is never stopped | `infra/kafka/client.py:318` |
| one registration per topic and group | the second consumer replaces the first, which is left running | `infra/kafka/client.py:412` |
| one host name per allowed site (`Politeness`) | sites on two ports share a cache entry; the later file decides for both | `utils/robot.py:99` |
| one user-agent line per group of rules | grouped lines keep the rules of the last one only | `utils/robot.py:45` |
| standard input not full (`Processes`) | the quit command is written without a timeout: `StopAlwaysReturns` fails | `utils/ffmpeg.py:541` |
| no Ctrl+C during the start (`Fleet`: `flaws`) | `main()` starts further crawlers while `cleanup_loop` awaits a task; they are not shut down | `runner.py:103` |
| no `BaseException` escapes (`Offload`) | the future of `run_coroutine_in_thread` stays pending; `ThreadFuture.result()` answers `None` | `utils/concurrency.py:59` |

Statements of comments and documents that do not hold are kept, unchecked, with the
reason beside them: `Lifecycle.ClosedAfterEngines` (the stopper closes resources
while `close_spider` runs), `Monitoring.TerminalStateShown` (a stop event dispatched after
the terminal event overwrites it), `Protobuf.DefinitionReusable` (a returned definition used
as a base raises `KeyError`), `Processes.StopAlwaysReturns` and `Tasks.IdleWaitEnds`, above.

Met while modelling, and visible in the actions: a callback added after a `ThreadFuture`
ended is never called (`concurrency.py:283`); a failing input pump publishes FAILED and
untracks a live process (`ffmpeg.py`); a reconnect after the broker closed the channel
overwrites an open RabbitMQ connection and drops the consumer channels
(`infra/rabbitmq/client.py:102`, `:117`), and `_queues` is stale after another worker's
delete (`:127`); a Kafka producer is visible before `start()` returned
(`infra/kafka/client.py:147`), and a consume loop ends for good on an exception (`:391`);
the Hub rejects an event of an evicted worker with a
`KeyError` (`monitoring/store.py:42`), shows a worker as stopped while another of its runs
goes on (`:99`) and is resurrected by late events; `max_event_size` counts the bytes of
values only (`response.py:163`); a negative length prefix moves the Protobuf cursor back.

## 5. The proofs

The theorems hold for every value of the constants that meets the named assumption of the
module (`TasksAssumption`, `SessionsAssumption`, ...: sets are finite and bounds are
naturals where the proof needs it) and the hypothesis in the table; TLC checks the same
properties on the instances of section 3. Each invariant is proved from an inductive one
with a lemma per action; TLC checked the inductive invariants before they were proved.

| module | theorem | states | hypothesis |
|---|---|---|---|
| `KafkaOffsetsProofs` | `TypeCorrect`, `AtLeastOnceHolds` | `TypeOK`, `AtLeastOnce` | |
| `EngineProofs` | `CompletionIsSound`, `OwnershipHolds` | `CompletionSound`, `OwnedUntilBoundary` | `~SharedMeta` |
| `EngineProofs` | `FetchedOnceHolds` | `FetchedOnce` | |
| `TasksProofs` | `TasksHold` | `TasksInv` | |
| `SessionsProofs` | `CountsHold`, `WrappersHold`, `FrozenHolds` | `SessionsInv`, `WrappersOwned`, `FrozenKeepsSessions` | |
| `SessionsProofs` | `InUseHolds` | `NotClosedInUse` | `Disciplined` |
| `LifetimesProofs` | `RecoveryHolds`, `RetriesAreFresh` | `RecoveryInv`, `RetriesOnFresh` | |
| `LifetimesProofs` | `SlotImplements` | `SlotImplemented` (refinement) | `OwnerWaits` |
| `LifetimesProofs` | `BrokersHold` | `BrokersInv` | `Orderly` |
| `LifetimesProofs` | `RunsHold`, `HelpersHold` | `RunsInv`, `HelpersInv` | |
| `TrafficProofs` | `SocketsOwned`, `RefsAreExact`, `HeldSendsAreServed` | `WebSocketsInv`, `RefsExact`, `HeldSendServed` | |
| `TrafficProofs` | `MediaIsWhole`, `StartsAreSpaced`, `StreamsKept` | `MediaWhole`, `SpacedStarts`, `ChainsInv` | |
| `ExchangeProofs` | `DedupHolds` | `DedupInv` | |
| `ExchangeProofs` | `CookiesCarried` | `CarriedKnown` | |
| `ExchangeProofs` | `DeliveryHolds` | `DeliveryKept` | `~RecycleIds`, `~RecycleCells` |
| `ExchangeProofs` | `StreamsExact` | `SseExact` | |
| `ExchangeProofs` | `SitesRespected` | `RobotsObeyed` | `OneSitePerHost`, `OneAgentPerGroup` |
| `ObservationProofs` | `ObservationHolds` | `ObservationInv` | |

A hypothesis is what the passing run of the property has as constants, and no more: what
the code does without it is described in section 4. `~SharedMeta`: no request is built
from another's meta. `Disciplined`: a session is not used after its end, there are no
groups and no interceptor re-schedules. `OwnerWaits`: the owner closes the slot after its
callers. `Orderly`: the Kafka client is closed after its calls, and one callback is
registered for the topic and group. `~RecycleIds`, `~RecycleCells`: the id of a request that is
still recorded is not given to another one. `OneSitePerHost`: no two allowed sites share a
host name, and with it a cache entry. `OneAgentPerGroup`: no robots.txt names several
agents for one group of rules.

**KafkaOffsets.** `AtLeastOnce` is not inductive: a commit carries an offset chosen
earlier, from a deque filled earlier still. `IndInv` adds why each is right:
`AckedProcessed` (an acknowledged entry is processed), `OrderedLeases` (below a leased
offset everything is processed or leased before it), `NothingSkipped` (below the fetch
position nothing is forgotten), `CommitsProcessed` (a commit under way covers processed
records only), `AckingProcessed` and `ClientOrder` (generations are used in order). The
popped prefix therefore ends at an offset below which all is processed.

**Engine.** `IndInv` has `IdleExact` (the event says exactly that nothing is owned),
`IdBounds` and `UniqueIds` (a release disowns one request), `OwnedUntilBoundary` and
`ProducerFirst`. The completion step then sees the event set, hence nothing queued or
held, and no carrying task, hence nothing else. `FetchedOnce` does not need ownership: a
request that passed the scheduler is in the filter's sets (`PassedSeen`), shared meta or
not.

**Tasks.** A counter is the cardinality of a set of live tasks. `create` adds as many
tasks as it counts because numbers beyond `created` are unused (`Unused`); an end takes a
task out of each set it is counted in. No loop sleeps below the limit because the count of
downloads falls only with a task of the engine, whose end wakes the engine's loops, and a
task that has no slot yet is not asleep (`AsleepRan`).

**Sessions.** The counts: every path of a user moves it into or out of the holders of its
name together with the count, and a re-scheduling, which releases without a new acquire,
adds to the overdrawn releases. The dedup set: it holds as many ids as the queue has
places, so by a counting argument no id is queued twice, and the head the reaper takes is
queued nowhere else. `Owned`: every wrapper made under an id is the registered one or
closed. `UseInv`: while the crawl runs, a queued id has ended and has no holder
(`QueuedUnused`), and a fetch works with the wrapper registered under its name (`InUse`);
so the reaper never takes what a fetch works with, although it does not look at the
counts again.

**Recovery.** Who awaits a connect or a close holds the lock (`LockHeld`), the client it
handles was never in use or is in the slot (`Handling`), and a generation stands for one
client that is never reused (`Freshness`). With these every step of the slot is a step of
`AbstractSlot` or leaves it alone.

**KafkaTransport and RabbitTransport.** A record goes to a ready topic because an ensured
topic stays ready until the client is closed (`TopicReady`). That there is one producer and
one manual consumer follows from who holds which lock at which stage of a call
(`OneProducer`, `ConsumersFound`), and nothing is left because close comes after the calls
and takes each step once (`ClosedInOrder`). For RabbitMQ, a channel that was opened under
`_consumer_lock` ends in the table (`ChannelsKept`); what is published is routed because a
queue counts as declared only while it is bound (`Routed`), and deletes come after the last
push (`DeletesLast`).

**Lifecycle and Fleet.** What is active is what was started, in order, until the runtime is
closed (`StartedInOrder`), and that happens after the broker-writable phase whoever runs the
shutdown (`PhasesInOrder`, `NothingEarly`); so the resources are open for both. Nothing is
left because what leaves the active set is in the hands of the one lock holder
(`ResourcesLast`, `LockHolders`). In a fleet every task is on the list of `cleanup_loop`, or
is `main()`, which ends the rest (`AllListed`), and how far `main()` and the handler are
says which crawlers are shut down (`FleetStages`, `ShutDown`).

**Processes and Offload.** The place of a runner tells what became of its handle and its
process (`RunnerKnows`); some of these places hold a permit (`PermitsKept`), and close asks
every handle without a result (`CloseAsksAll`). A callback is called once because the
thread's position in the list says which have been called (`ListedOnce`), after the outcome
because that is stored first (`SettledFirst`); the calls that run have workers (`PoolKept`).

**WebSockets.** Every holder has an entry (`Named`), which makes the reference counts
exact. A connected socket is owned because a listener nobody cancelled has an open entry
(`Running`) that the pool still holds (`StillOpen`), and a close that begins does not
overwrite another (`ClosersBusy`).

**Transfers and Chains.** Every body under way is a prefix of the resource within its
known size (`Bodies`); the ticks to wait and the ticks since the last start make up at least
the interval that was in force at that start (`Spacing`). An open stream has one of few places (`StreamPlaces`), so a chain
that replaces, raises or delivers without closing holds none.

**Dedup and SessionState.** An admitted request's positions stay recorded until its shard
forgets (`AdmittedRecorded`), nothing in front of the filter has its flag any more
(`FlagsPopped`), and each recorded position is one of a request that answers for it
(`Vouched`): one the script recorded and that was let in, or whose reply was lost. A request
that answers does so for ever, because an admitted one stays admitted. The cookies a leased
request needs are in the stored snapshot from its `hset` to its callback (`StoredHolds`), and
before that in the snapshot under way (`SavingHolds`). They are in the jar as soon as the
session of the process is as new as the stored one (`AfterReady`): when the field is marked,
or a snapshot of this process has just been stored. Until then every reply under way is the
stored snapshot itself (`BeforeReady`), so whichever loop imports it first brings them all;
whatever a later import takes away was missing in a snapshot that replaced one with it.

**Leases and KafkaHandover.** `LeasesIInv` says where work may be: a request has one copy,
in the queue or in one slot of the crawler (`OneSlot`, `CopiesApart`); what is recorded
under an id is its own message (`OwnRecorded`); a start message goes on through its request
(`PushedStored`, `ParentWaits`); a message that is neither settled nor in a queue has a
producer or a slot that will put it there (`WorkFound`). For Kafka the leases of a topic
are the run of offsets between commit and fetch position (`LeasesRun`, within `Logs`), so a
commit moves over acknowledged leases only, and an acknowledged message was carried on
before. Repetition is bounded by counting: copies of a start message by the attempts, those
of its child by their square, where an attempt is a failure or a restart.

**EventStream and Politeness.** While a stream is read, the parser holds the event of the
block since the last empty line, its values in the order of their lines; a position is
added at the end, so the order of those before it stays. For robots.txt, the entry of a
host is what the fetch of its one site brought (`CacheTold`), and the engines start when
all have ended (`AllLoaded`). That the parsed rules allow only what the file permits
(`ParserExact`) holds for files of any length: a rule is in a block exactly if it governs
the block's agent, and among the longest rules that match there is a first one, because a
set of natural numbers that is not empty has a least element (`LeastNatural`).

**Signals, Monitoring and HubStore.** What a `stop()` owes is followed by saying where a
signal may be: with a put task, with a sender that waits for room, in the queue,
dispatched, or lost to overload, and in one of these only (`InOnePlace`). Unless a stop was
cancelled, the signals emitted before it that are still ahead are in put tasks it gathers,
then in the queue before the sentinel (`SignalsAhead`). Who waits for the lock of the
extension is a callback that `stop()` awaits, or the one heartbeat (`LineKept`), and the
stage of the run says how far `stop()` is (`StopInRun`); so nothing publishes when the
extensions are closed. For the Hub, every start a run has sent is counted, under way or
lost (`StartsCounted`), which keeps the engines of a run within those it began. The engines
of a worker are bounded by a set of pairs, a run and a number up to its engines: an event
changes the pairs of one run only, and an eviction moves that run's engines to the orphans.
That a run is shown as ended needs that a late post tells what its run has reported
(`EventTold`).

## 6. What is only model-checked

Liveness (`CallsEnd`, `RunsEnd`, `FetchesEnd` and the other properties with fairness) is
out of the prover's reach. So is what the codec computes (`CodecExact`): decoder and encoder
are recursive on byte strings, and the prover loses its SMT backend in a module that reaches
such a definition. TLC checks it over the bounded inputs of section 3; it is part of
`MCTraffic`, about whose other components `TrafficProofs` proves its theorems one by one.
Every other invariant and safety action property of the passing runs is a theorem of section 5.

## 7. What is not modelled

- Settings, models and configuration: static data and validation.
- Command line and templates: code generation, argument parsing, calls of docker.
- Request and item objects: value objects; serialisation and hashing are done by libraries,
  a fingerprint is a constant.
- HTTP platform code, SQL, MongoDB and e-mail adapters: thin layers over client libraries;
  their retries and replacement are those of `Recovery`.
- JSON, logging and environment helpers: string handling without shared state.
- In modelled parts: the pipelines' work on an item; `LegacyProcessTaskManager` and
  `ProcessManager`, which nothing in the package uses; the media functions of
  `utils/media.py` around the process manager; the statistics extension, which only counts;
  the HTTP layer of the Hub; SSL options and aliases of the broker clients.
- Known gaps: an initialization that fails after the
  resources started (`crawler.py:127`), a cancelled `ResourceService.close`
  (`runtime/resources.py:375`), the reaper's bounded wait cancelled when the item has just
  been taken (`utils/common.py:259`, which depends on the Python version), resources after
  `handle.wait()` without a stop, and earlier crawlers of `run_spiders` when a later one
  fails to initialise; a close of a WebSocket that is cancelled while it awaits the socket
  (`core/sessions.py:205`), as when `close_all` cancels the reaper (`:990`); a connect request
  with an explicitly empty `send_message` list that meets a live entry of its URL, which then
  overwrites the entry's listener (`core/engine.py:441`).
