------------------------------- MODULE Tasks -------------------------------
(***************************************************************************)
(* TaskManager, shared by the engines of one Crawler: managed tasks, the   *)
(* global semaphore each of them needs before it runs, the counters that   *)
(* create raises and the task's finally clause lowers, and the events the  *)
(* engines wait for.  A task created by an engine waits in the semaphore's *)
(* queue; if it is cancelled there, its try statement was never entered    *)
(* and nothing lowers the counters again.                                  *)
(*                                                                         *)
(* TaskManager.lock is never held across a suspension, so its sections are *)
(* atomic here.  Which requests the tasks carry is the business of Engine. *)
(***************************************************************************)
EXTENDS Integers, Sequences, FiniteSets

CONSTANTS
    Engines,   \* engines that share the TaskManager
    Slots,     \* MAX_GLOBAL_CONCURRENT_TASKS
    LoopNum,   \* MAX_SCHEDULER_LOOP_NUM
    Limit,     \* max_inflight_downloader_tasks
    IsDistributed, \* is_distributed: active_tasks starts at 1
    MaxTasks   \* bound: tasks ever created

ASSUME TasksAssumption ==
    /\ Engines # {} /\ IsFiniteSet(Engines) /\ IsDistributed \in BOOLEAN
    /\ Slots \in Nat \ {0} /\ LoopNum \in Nat /\ Limit \in Nat /\ MaxTasks \in Nat

Tasks == 1 .. MaxTasks
Resident == IF IsDistributed THEN 1 ELSE 0

\* The functions the tasks run: run_spider_start, a scheduler loop,
\* process_downloadInterceptor_chain, process_downloader, and those that handle
\* what a spider yields (get_spider_output, enqueue_request ...).
Work == {"chain", "download", "output"}
Roles == {"producer", "loop"} \cup Work

VARIABLES
    created,   \* tasks created so far, in this order
    state,     \* per task: "none", "waiting" for a slot, "running", "ended", "cut"
    role,      \* per task: the function it runs
    owner,     \* per task: the engine it is bound to (obj_id)
    at,        \* per scheduler loop: "check", "blocked" on capacity, "get"
    free,      \* free slots of the semaphore
    active,    \* active_tasks
    names,     \* active_task_names, per engine and function
    objects,   \* active_object_tasks, per engine
    objectIdle,\* object_idle_events, per engine
    allDone,   \* tasks_done_event
    error,     \* error_event
    engineState, \* per engine: "init", "running", "stopping", "closed"
    crawl      \* the crawler: "running", "cancelled" (cancel_all), "stopped" (stop_event)

tasks == <<created, state, role, owner>>
counters == <<active, names, objects, objectIdle, allDone>>
tasksVars == <<tasks, at, free, counters, error, engineState, crawl>>

TasksInit ==
    /\ created = 0
    /\ state = [t \in Tasks |-> "none"]
    /\ role = [t \in Tasks |-> "output"] /\ owner \in [Tasks -> {CHOOSE e \in Engines : TRUE}]
    /\ at = [t \in Tasks |-> "check"]
    /\ free = Slots
    /\ active = Resident /\ names = [e \in Engines |-> [r \in Roles |-> 0]]
    /\ objects = [e \in Engines |-> 0] /\ objectIdle = [e \in Engines |-> FALSE]
    /\ allDone = TRUE /\ error = FALSE   \* tasks_done_event starts set
    /\ engineState = [e \in Engines |-> "init"] /\ crawl = "running"

LiveTasks == {t \in Tasks : state[t] \in {"waiting", "running"}}
Of(e, r, S) == {t \in S : owner[t] = e /\ role[t] = r}

-----------------------------------------------------------------------------
\* object_activity_events[obj_id].set() for the engines of E: every loop that
\* waits for capacity counts again.
Woken(E) ==
    [t \in Tasks |-> IF owner[t] \in E /\ at[t] = "blocked" THEN "check" ELSE at[t]]

\* create, for each function of rs in turn: the counters are raised before the
\* task exists, and the task queues for a slot.
Create(e, rs) ==
    LET new(t) == t > created /\ t <= created + Len(rs)
    IN  /\ crawl # "stopped"
        /\ created + Len(rs) <= MaxTasks
        /\ created' = created + Len(rs)
        /\ state' = [t \in Tasks |-> IF new(t) THEN "waiting" ELSE state[t]]
        /\ role' = [t \in Tasks |-> IF new(t) THEN rs[t - created] ELSE role[t]]
        /\ owner' = [t \in Tasks |-> IF new(t) THEN e ELSE owner[t]]
        /\ active' = active + Len(rs)
        /\ names' = [names EXCEPT ![e] =
              [r \in Roles |-> @[r] + Cardinality({i \in 1 .. Len(rs) : rs[i] = r})]]
        /\ objects' = [objects EXCEPT ![e] = @ + Len(rs)]
        /\ objectIdle' = [objectIdle EXCEPT ![e] = FALSE]
        /\ allDone' = FALSE
        /\ UNCHANGED free

\* Mutant: the finally clause lowers the counts of names only.
LoweredByName(S) ==
    /\ active' = active - Cardinality(S)
    /\ names' = [e \in Engines |-> [r \in Roles |->
          names[e][r] - Cardinality(Of(e, r, S))]]
    /\ allDone' = (allDone \/ (S # {} /\ active' <= 0))
    /\ UNCHANGED <<objects, objectIdle>>

\* The finally clauses of the running tasks S: every counter is lowered, and the
\* events of those that reach zero are set.
Lowered(S) ==
    /\ active' = active - Cardinality(S)
    /\ names' = [e \in Engines |-> [r \in Roles |->
          names[e][r] - Cardinality(Of(e, r, S))]]
    /\ objects' = [e \in Engines |-> objects[e] - Cardinality({t \in S : owner[t] = e})]
    /\ objectIdle' = [e \in Engines |->
          objectIdle[e] \/ ((\E t \in S : owner[t] = e) /\ objects'[e] <= 0)]
    /\ allDone' = (allDone \/ (S # {} /\ active' <= 0))

\* Mutant: a slot is not given back.
SlotsKept(S) == free

\* Leaving global_lock() gives the slot back.
SlotsAfter(S) == free + Cardinality(S)

\* The tasks of S are over, on their own or cancelled.  One that holds a slot
\* runs its finally clause; one that still waits for a slot just disappears.
Over(S) ==
    LET ran == {t \in S : state[t] = "running"}
    IN  /\ state' = [t \in Tasks |-> CASE t \in ran -> "ended"
                                       [] t \in S \ ran -> "cut"
                                       [] OTHER -> state[t]]
        /\ free' = SlotsAfter(ran)
        /\ Lowered(ran)
        /\ at' = Woken({owner[t] : t \in ran})
        /\ UNCHANGED <<created, role, owner>>

-----------------------------------------------------------------------------
\* Engine.start creates the producer and the scheduler loops.
StartEngine(e) ==
    /\ engineState[e] = "init"
    /\ Create(e, <<"producer">> \o [i \in 1 .. LoopNum |-> "loop"])
    /\ engineState' = [engineState EXCEPT ![e] = "running"]
    /\ at' = Woken({e})
    /\ UNCHANGED <<error, crawl>>

\* The semaphore's queue, first come first served: tasks ask for a slot in the
\* order of their creation, which is the order of their numbers.
Waiters == {t \in Tasks : state[t] = "waiting"}

\* The first waiter of the semaphore gets a free slot and starts.
Start ==
    /\ free > 0
    /\ \E t \in Waiters :
          /\ \A w \in Waiters : t <= w
          /\ state' = [state EXCEPT ![t] = "running"]
    /\ free' = free - 1
    /\ UNCHANGED <<created, role, owner, at, counters, error, engineState, crawl>>

\* What a running task of each function creates.
Child(r) == CASE r = "producer" -> {"output"}
              [] r = "chain" -> {"download", "chain", "output"}
              [] r = "download" -> {"output"}
              [] r = "output" -> {"output"}
              [] OTHER -> {}

\* A running task creates another of its engine and goes on.
Spawn(t) ==
    /\ state[t] = "running"
    /\ \E r \in Child(role[t]) : Create(owner[t], <<r>>)
    /\ at' = Woken({owner[t]})
    /\ UNCHANGED <<error, engineState, crawl>>

\* A task other than a loop returns; a loop does when it sees stop_event.
Finish(t) ==
    /\ state[t] = "running"
    /\ role[t] = "loop" => at[t] # "blocked" /\ crawl = "stopped"
    /\ Over({t})
    /\ UNCHANGED <<error, engineState, crawl>>

\* A task raises: error_event, which every engine of the crawler waits for.
Fail(t) ==
    /\ state[t] = "running" /\ at[t] # "blocked"
    /\ Over({t})
    /\ error' = TRUE
    /\ UNCHANGED <<engineState, crawl>>

\* A loop in _wait_for_downloader_capacity: it goes on below the limit, and
\* otherwise clears the activity event and waits for it.
LoopCheck(t) ==
    /\ state[t] = "running" /\ role[t] = "loop" /\ at[t] = "check"
    /\ at' = [at EXCEPT ![t] =
          IF names[owner[t]]["download"] < Limit THEN "get" ELSE "blocked"]
    /\ UNCHANGED <<tasks, free, counters, error, engineState, crawl>>

\* The scheduler had a request, or none.
LoopGet(t) ==
    /\ state[t] = "running" /\ role[t] = "loop" /\ at[t] = "get"
    /\ at' = [Woken({owner[t]}) EXCEPT ![t] = "check"]
    /\ \/ Create(owner[t], <<"chain">>)
       \/ UNCHANGED <<tasks, free, counters>>
    /\ UNCHANGED <<error, engineState, crawl>>

-----------------------------------------------------------------------------
\* wait_for_object_quiescent with the prefixes Engine excludes, after the
\* producer: completion, as far as the TaskManager decides it.
Quiescent(e) ==
    /\ \A t \in Of(e, "producer", Tasks) : state[t] = "ended"
    /\ \A r \in Work : names[e][r] <= 0

\* Engine.start wakes up: error, completion, or a loop that is over.  It cancels
\* its loops and its producer.
Stop(e) ==
    /\ engineState[e] = "running"
    /\ \/ error
       \/ Quiescent(e)
       \/ \E t \in Of(e, "loop", Tasks) : state[t] \in {"ended", "cut"}
    /\ Over(Of(e, "loop", LiveTasks) \cup Of(e, "producer", LiveTasks))
    /\ engineState' = [engineState EXCEPT ![e] = "stopping"]
    /\ UNCHANGED <<error, crawl>>

\* wait_for_object_idle returns.
Close(e) ==
    /\ engineState[e] = "stopping"
    /\ objects[e] <= 0 \/ objectIdle[e]
    /\ engineState' = [engineState EXCEPT ![e] = "closed"]
    /\ UNCHANGED <<tasks, at, free, counters, error, crawl>>

\* Crawler._prepare_shutdown, at the end of the run or from outside: cancel_all ...
CancelAll ==
    /\ crawl = "running"
    /\ crawl' = "cancelled"
    /\ Over(LiveTasks)
    /\ UNCHANGED <<error, engineState>>

\* ... then stop_event; Crawler.shutdown also sets error_event and
\* tasks_done_event.
StopCrawl ==
    /\ crawl = "cancelled"
    /\ crawl' = "stopped"
    /\ error' = TRUE /\ allDone' = TRUE
    /\ UNCHANGED <<tasks, at, free, active, names, objects, objectIdle, engineState>>

\* Nothing needs to happen once the crawler has stopped.
CrawlOver == crawl = "stopped" /\ UNCHANGED tasksVars

TaskStep(t) == Spawn(t) \/ Finish(t) \/ Fail(t) \/ LoopCheck(t) \/ LoopGet(t)

TasksNext ==
    \/ \E e \in Engines : StartEngine(e) \/ Stop(e) \/ Close(e)
    \/ Start \/ CancelAll \/ StopCrawl
    \/ \E t \in Tasks : TaskStep(t)
    \/ CrawlOver

TasksSpec == TasksInit /\ [][TasksNext]_tasksVars

\* The event loop runs what is ready, and every task but a loop ends.  Nobody is
\* forced to fail, to create tasks or to shut the crawler down.
TasksFairness ==
    /\ WF_tasksVars(Start)
    /\ \A t \in Tasks : WF_tasksVars(Finish(t) \/ LoopCheck(t) \/ LoopGet(t))
    /\ \A e \in Engines : WF_tasksVars(Stop(e) \/ Close(e))

TasksFairSpec == TasksSpec /\ TasksFairness

-----------------------------------------------------------------------------
\* Types of all variables.
TasksTypeOK ==
    /\ created \in 0 .. MaxTasks
    /\ state \in [Tasks -> {"none", "waiting", "running", "ended", "cut"}]
    /\ role \in [Tasks -> Roles] /\ owner \in [Tasks -> Engines]
    /\ at \in [Tasks -> {"check", "blocked", "get"}]
    /\ free \in 0 .. Slots
    /\ active \in Nat /\ names \in [Engines -> [Roles -> Nat]]
    /\ objects \in [Engines -> Nat] /\ objectIdle \in [Engines -> BOOLEAN]
    /\ allDone \in BOOLEAN /\ error \in BOOLEAN
    /\ engineState \in [Engines -> {"init", "running", "stopping", "closed"}]
    /\ crawl \in {"running", "cancelled", "stopped"}

\* The tasks the counters stand for: those that live, and those that were
\* cancelled before they held a slot.
CountedTasks == {t \in Tasks : state[t] \in {"waiting", "running", "cut"}}

\* Over every way a task can end, each counter is the number of tasks it stands
\* for, the slots are shared out exactly, and an idle event is never set for an
\* engine that still has tasks.
CountersExact ==
    /\ active = Resident + Cardinality(CountedTasks)
    /\ \A e \in Engines :
          /\ \A r \in Roles : names[e][r] = Cardinality(Of(e, r, CountedTasks))
          /\ objects[e] = Cardinality({t \in CountedTasks : owner[t] = e})
          /\ objectIdle[e] => objects[e] = 0
    /\ free + Cardinality({t \in Tasks : state[t] = "running"}) = Slots

\* "Wait for a task-completion event instead of polling capacity": a loop sleeps
\* only while the downloader is at its limit; no wake-up is lost.
NoLostWakeup ==
    \A t \in Tasks : state[t] = "running" /\ at[t] = "blocked" =>
        names[owner[t]]["download"] >= Limit

\* The bookkeeping: types, counters and wake-ups.
TasksInv == TasksTypeOK /\ CountersExact /\ NoLostWakeup

\* The loops of all engines leave a slot for the others.
Roomy == Slots > LoopNum * Cardinality(Engines)

\* The global semaphore starves nobody: every created task starts or is cancelled.
EveryTaskStarts ==
    Roomy => \A t \in Tasks : (state[t] = "waiting") ~> (state[t] # "waiting")

\* An engine that stops closes: wait_for_object_idle returns unless one of its
\* tasks was cancelled in the semaphore's queue.
StoppedEngineCloses ==
    Roomy => \A e \in Engines :
        (engineState[e] = "stopping") ~>
           (\/ engineState[e] = "closed"
            \/ \E t \in Tasks : owner[t] = e /\ state[t] = "cut")

\* "Wait until one Engine has no managed task capable of producing work": once no
\* task of a stopping engine is left, the wait is over, whatever ended them.
\* A task cancelled in the queue of the semaphore refutes it, so no run checks it.
IdleWaitEnds ==
    \A e \in Engines :
        (engineState[e] = "stopping" /\ \A t \in LiveTasks : owner[t] # e)
            ~> (engineState[e] = "closed")
=============================================================================
