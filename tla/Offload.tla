------------------------------ MODULE Offload -------------------------------
(***************************************************************************)
(* Work that leaves the event loop: ThreadFuture, run_coroutine_in_thread  *)
(* and run_coroutine_in_new_loop (utils/concurrency.py), each a thread     *)
(* beside the caller's, and the process pool of run_in_process             *)
(* (utils/process.py).  A step of a thread is what the interpreter lock    *)
(* cannot split, or what the other side cannot see split.                  *)
(***************************************************************************)
EXTENDS Naturals, Sequences, FiniteSets

CONSTANTS
    Hooks,      \* callbacks given to add_done_callback
    PoolCalls,  \* calls of ProcessTaskManager.run
    MaxWorkers  \* max_workers

ASSUME OffloadAssumption == MaxWorkers \in Nat \ {0}

VARIABLES
    helper,    \* which of the three threads
    worker,    \* where the thread is
    yield,     \* how the function or coroutine ended
    settled,   \* what the future holds; of a ThreadFuture, once its event is set
    posted,    \* what call_soon_threadsafe put on the caller's loop
    loopOpen,  \* the caller's loop
    leftovers, \* tasks the coroutine left on its own loop
    asking,    \* the caller of result(), or awaiting the future
    hook,      \* where each add_done_callback is
    hooks,     \* _callbacks
    notified,  \* how many of them the thread has called
    calls,     \* how often each callback was called
    executor,  \* _executor: "none", "open", "closing", "shut"
    job        \* where each call of the pool is

threadVars == <<helper, worker, yield, settled, posted, loopOpen, leftovers, asking, hook,
                hooks, notified, calls>>
offloadVars == <<threadVars, executor, job>>

\* "escaped" is no Exception: SystemExit, KeyboardInterrupt, CancelledError.
Yields == {"value", "error", "escaped"}

OffloadInit ==
    /\ helper \in {"future", "thread", "loop"}
    /\ worker = "run" /\ yield = "none" /\ settled = "none" /\ posted = "none"
    /\ loopOpen = TRUE /\ leftovers = FALSE
    /\ asking = "asks"
    /\ hook = [h \in Hooks |-> "idle"]
    /\ hooks = <<>> /\ notified = 0
    /\ calls = [h \in Hooks |-> 0]
    /\ executor = "none"
    /\ job = [c \in PoolCalls |-> "idle"]

---------------------------------------------------------------------------
(* ThreadFuture                                                            *)

\* _run: what escapes is kept neither as result nor as exception, so result()
\* answers None.
SetEvent ==
    /\ helper = "future" /\ worker = "run"
    /\ \E y \in Yields : yield' = y
    /\ settled' = IF yield' = "escaped" THEN "value" ELSE yield'
    /\ worker' = "notify"
    /\ UNCHANGED <<helper, posted, loopOpen, leftovers, asking, hook, hooks, notified, calls>>

\* The loop over _callbacks sees what is appended while it runs.
Notify ==
    /\ helper = "future" /\ worker = "notify"
    /\ IF notified < Len(hooks)
       THEN /\ notified' = notified + 1
            /\ calls' = [calls EXCEPT ![hooks[notified + 1]] = @ + 1]
            /\ UNCHANGED worker
       ELSE worker' = "end" /\ UNCHANGED <<notified, calls>>
    /\ UNCHANGED <<helper, yield, settled, posted, loopOpen, leftovers, asking, hook, hooks>>

\* add_done_callback looks at the event first and appends afterwards.
AddDoneCallback(h) ==
    /\ helper = "future"
    /\ \/ /\ hook[h] = "idle" /\ settled # "none"
          /\ hook' = [hook EXCEPT ![h] = "called"]
          /\ calls' = [calls EXCEPT ![h] = @ + 1]
          /\ UNCHANGED hooks
       \/ /\ hook[h] = "idle" /\ settled = "none"
          /\ hook' = [hook EXCEPT ![h] = "checked"]
          /\ UNCHANGED <<hooks, calls>>
       \/ /\ hook[h] = "checked"
          /\ hook' = [hook EXCEPT ![h] = IF worker = "end" THEN "late" ELSE "added"]
          /\ hooks' = Append(hooks, h)
          /\ UNCHANGED calls
    /\ UNCHANGED <<helper, worker, yield, settled, posted, loopOpen, leftovers, asking,
                   notified>>

---------------------------------------------------------------------------
(* run_coroutine_in_thread and run_coroutine_in_new_loop                   *)

\* The coroutine ends.  The thread of run_coroutine_in_thread posts the result
\* before it cleans up, and posts nothing for what escapes `except Exception`
\* or for a loop that is closed.
CoroutineEnds ==
    /\ helper # "future" /\ worker = "run"
    /\ \E y \in Yields : yield' = y
    /\ leftovers' \in BOOLEAN
    /\ posted' = IF helper = "thread" /\ loopOpen /\ yield' # "escaped" THEN yield' ELSE "none"
    /\ worker' = "cleanup"
    /\ UNCHANGED <<helper, settled, loopOpen, asking, hook, hooks, notified, calls>>

\* finally: what is left on the loop is cancelled and awaited.  Only then does
\* the thread of run_coroutine_in_new_loop return, and whatever it raises with it.
CancelLeftovers ==
    /\ worker = "cleanup"
    /\ leftovers' = FALSE
    /\ worker' = "end"
    /\ posted' = IF helper = "loop" /\ loopOpen THEN yield ELSE posted
    /\ UNCHANGED <<helper, yield, settled, loopOpen, asking, hook, hooks, notified, calls>>

\* The loop runs what was posted; a future already cancelled keeps its state.
Deliver ==
    /\ posted # "none" /\ loopOpen
    /\ settled' = IF settled = "none" THEN posted ELSE settled
    /\ posted' = "none"
    /\ UNCHANGED <<helper, worker, yield, loopOpen, leftovers, asking, hook, hooks, notified,
                   calls>>

CancelAwait ==
    /\ helper # "future" /\ asking = "asks" /\ settled = "none"
    /\ settled' = "cancelled" /\ asking' = "cancelled"
    /\ UNCHANGED <<helper, worker, yield, posted, loopOpen, leftovers, hook, hooks, notified,
                   calls>>

\* asyncio.run ends: it does not wait for the daemon thread.
CloseLoop ==
    /\ helper = "thread" /\ loopOpen /\ asking # "asks"
    /\ loopOpen' = FALSE
    /\ UNCHANGED <<helper, worker, yield, settled, posted, leftovers, asking, hook, hooks,
                   notified, calls>>

\* result() and await: the answer, or TimeoutError and perhaps another try.
AwaitAnswer ==
    /\ \/ asking = "asks" /\ settled # "none" /\ asking' = settled
       \/ helper = "future" /\ asking = "asks" /\ settled = "none" /\ asking' = "timeout"
       \/ asking = "timeout" /\ asking' = "asks"
    /\ UNCHANGED <<helper, worker, yield, settled, posted, loopOpen, leftovers, hook, hooks,
                   notified, calls>>

---------------------------------------------------------------------------
(* ProcessTaskManager                                                      *)

RunningCalls == {c \in PoolCalls : job[c] \in {"running", "abandoned"}}

\* run: the first submission makes the executor; a closed manager raises.
Submit(c) ==
    /\ job[c] = "idle"
    /\ IF executor \in {"none", "open"}
       THEN executor' = "open" /\ job' = [job EXCEPT ![c] = "queued"]
       ELSE job' = [job EXCEPT ![c] = "refused"] /\ UNCHANGED executor
    /\ UNCHANGED threadVars

StartJob(c) ==
    /\ job[c] = "queued" /\ executor = "open" /\ Cardinality(RunningCalls) < MaxWorkers
    /\ job' = [job EXCEPT ![c] = "running"]
    /\ UNCHANGED <<threadVars, executor>>

\* A worker process answers; nobody waits for a call that was abandoned.
FinishJob(c) ==
    /\ job[c] \in {"running", "abandoned"}
    /\ job' = [job EXCEPT ![c] = IF @ = "running" THEN "answered" ELSE "cancelled"]
    /\ UNCHANGED <<threadVars, executor>>

\* The caller is cancelled: a queued call goes, a running one goes on.
CancelJob(c) ==
    /\ job[c] \in {"queued", "running"}
    /\ job' = [job EXCEPT ![c] = IF @ = "queued" THEN "cancelled" ELSE "abandoned"]
    /\ UNCHANGED <<threadVars, executor>>

\* close: no more submissions, the queued calls are cancelled, and the running
\* ones are awaited in a thread.
ClosePool ==
    /\ executor \in {"none", "open"}
    /\ executor' = IF executor = "none" THEN "shut" ELSE "closing"
    /\ job' = [c \in PoolCalls |-> IF job[c] = "queued" THEN "cancelled" ELSE job[c]]
    /\ UNCHANGED threadVars

PoolClosed ==
    /\ executor = "closing" /\ RunningCalls = {}
    /\ executor' = "shut"
    /\ UNCHANGED <<threadVars, job>>

ThreadStep == SetEvent \/ Notify \/ CoroutineEnds \/ CancelLeftovers \/ Deliver

ThreadNext ==
    /\ ThreadStep \/ CancelAwait \/ CloseLoop \/ AwaitAnswer \/ \E h \in Hooks : AddDoneCallback(h)
    /\ UNCHANGED <<executor, job>>

PoolStep == PoolClosed \/ \E c \in PoolCalls : FinishJob(c)

PoolNext ==
    \/ ClosePool \/ PoolStep
    \/ \E c \in PoolCalls : Submit(c) \/ StartJob(c) \/ CancelJob(c)

OffloadNext == ThreadNext \/ PoolNext

\* Threads run, the loop runs its callbacks, short calls end, and a caller that
\* was told of a timeout asks again.
OffloadFairness ==
    /\ WF_offloadVars(ThreadStep /\ UNCHANGED <<executor, job>>)
    /\ WF_offloadVars(AwaitAnswer /\ UNCHANGED <<executor, job>>)
    /\ WF_offloadVars(PoolStep)

OffloadSpec == OffloadInit /\ [][OffloadNext]_offloadVars /\ OffloadFairness

---------------------------------------------------------------------------
OffloadTypeOK ==
    /\ helper \in {"future", "thread", "loop"}
    /\ worker \in {"run", "notify", "cleanup", "end"}
    /\ yield \in Yields \cup {"none"}
    /\ settled \in Yields \cup {"none", "cancelled"}
    /\ posted \in Yields \cup {"none"}
    /\ loopOpen \in BOOLEAN /\ leftovers \in BOOLEAN
    /\ asking \in Yields \cup {"asks", "timeout", "cancelled"}
    /\ hook \in [Hooks -> {"idle", "checked", "added", "late", "called"}]
    /\ hooks \in Seq(Hooks) /\ notified \in 0 .. Len(hooks)
    /\ calls \in [Hooks -> Nat]
    /\ executor \in {"none", "open", "closing", "shut"}
    /\ job \in [PoolCalls -> {"idle", "queued", "running", "abandoned", "answered",
                               "cancelled", "refused"}]

\* A callback is called once, after the outcome is known, whichever thread calls
\* it; the one that may be missed was checked before the event was set and added
\* after the thread had gone through the list (ThreadFuture.add_done_callback).
CallbacksOnce ==
    \A h \in Hooks :
       /\ calls[h] <= 1
       /\ calls[h] = 1 => settled # "none"
       /\ worker = "end" /\ hook[h] \in {"added", "called"} => calls[h] = 1

\* An awaited coroutine's answer is its own, and run_coroutine_in_new_loop
\* answers when nothing is left on the loop it made.
AnswerIsOwn ==
    helper # "future" /\ asking \in Yields
       => asking = yield /\ (helper = "loop" => worker = "end" /\ ~leftovers)

\* At most max_workers calls run, and none once close has returned: also the
\* calls whose callers were cancelled have ended, and nobody still waits.
PoolOwned ==
    /\ Cardinality(RunningCalls) <= MaxWorkers
    /\ executor = "shut" => \A c \in PoolCalls : job[c] \notin {"queued", "running", "abandoned"}

OffloadInv == OffloadTypeOK /\ CallbacksOnce /\ AnswerIsOwn /\ PoolOwned

\* Whoever waits for a helper gets an answer, unless the coroutine of
\* run_coroutine_in_thread let escape what is no Exception: its future is then
\* never set.
ThreadsAnswer ==
    []<>(asking \notin {"asks", "timeout"}) \/ <>(helper = "thread" /\ yield = "escaped")

\* ProcessTaskManager.close returns, and with it every call is answered.
PoolCloses == (executor = "closing") ~> (executor = "shut")
=============================================================================
