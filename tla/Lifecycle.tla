----------------------------- MODULE Lifecycle ------------------------------
(***************************************************************************)
(* One run from its composition to its end: the resources it registers and *)
(* starts (composition.py, runtime/resources.py), the initialization and   *)
(* the two-phase shutdown of the Crawler (crawler.py), and the runner that *)
(* drives both (runner.py), synchronously or through a CrawlerRunHandle.   *)
(*                                                                         *)
(* Two actors run shutdown code on one event loop: "main", the task of     *)
(* start_engines, and "stopper", the shutdown() after Ctrl+C or in the     *)
(* stop() of a handle.  A step is what runs between two awaits.            *)
(***************************************************************************)
EXTENDS Naturals, Sequences, FiniteSets

CONSTANTS
    Builtins,    \* built-in resources in the order of build_resource_service
    UserLists,   \* possible RESOURCES_PATH settings, as lists of names
    MaxFailures  \* bound: steps that raise, and cancellations from outside

Actors == {"main", "stopper"}
NoActor == "nobody"
Names == {Builtins[k] : k \in 1 .. Len(Builtins)}
         \cup UNION {{list[k] : k \in 1 .. Len(list)} : list \in UserLists}

ASSUME LifecycleAssumption ==
    /\ \A list \in UserLists \cup {Builtins} : list \in Seq(Names)
    /\ MaxFailures \in Nat

VARIABLES
    mode,           \* "sync" (run_sync_base) or "handle" (start_spider_run)
    entries,        \* _entries, in order of registration
    resourceState,  \* what became of each resource
    active,         \* _active_names
    resourceLock,   \* _lifecycle_lock
    closingNow,     \* the resources the lock holder closes
    at,             \* where each actor is
    step,           \* the step it takes in the phase it is in
    inShutdown,     \* it is in Crawler.shutdown, not in start_engines
    shutdownLock, prepared,    \* _shutdown_lock, _shutdown_prepared
    closeLock, runtimeClosed,  \* _runtime_close_lock, _runtime_closed
    done,           \* the shutdown steps that have been carried out
    pool,           \* the process pool
    verdict,        \* how start_engines ended
    stopRequested, waiting, waitLock, outcome,  \* the CrawlerRunHandle
    faults          \* failures and cancellations so far

resourceVars == <<entries, resourceState, active, resourceLock, closingNow>>
phaseVars == <<shutdownLock, prepared, closeLock, runtimeClosed, done, pool>>
handleVars == <<stopRequested, waiting, waitLock, outcome>>
lifecycleVars == <<mode, resourceVars, at, step, inShutdown, phaseVars, verdict,
                   handleVars, faults>>

\* _prepare_shutdown and _close_runtime_state, await by await.
PrepareSteps == <<"cancel", "requeue", "persist", "clean">>
CloseSteps == <<"pool", "sessions", "signals", "extensions">>
CanRaise == {"requeue", "persist", "sessions", "signals"}
StepNames == {PrepareSteps[k] : k \in 1 .. 4} \cup {CloseSteps[k] : k \in 1 .. 4}
             \cup {"freeze"}

Places == {"new", "idle", "starting", "building", "engines", "flushing", "toPrepare",
           "preparing", "toClose", "closing", "cleaning", "toResources",
           "resources", "awaiting", "ended", "raised", "aborted"}
Over == {"ended", "raised", "aborted"}  \* aborted: there never was a run
Verdicts == {"none", "completed", "failed", "cancelled"}

LifecycleTypeOK ==
    /\ mode \in {"sync", "handle"}
    /\ entries \in Seq(Names)
    /\ resourceState \in [Names -> {"new", "open", "closed", "left"}]
    /\ active \subseteq {n \in Names : resourceState[n] = "open"}
    /\ resourceLock \in Actors \cup {NoActor}
    /\ closingNow \subseteq Names
    /\ at \in [Actors -> Places]
    /\ step \in [Actors -> 1 .. 4]
    /\ inShutdown \in [Actors -> BOOLEAN]
    /\ \A a \in Actors : /\ shutdownLock = a <=> at[a] = "preparing"
                         /\ closeLock = a <=> at[a] = "closing"
    /\ prepared \in BOOLEAN /\ runtimeClosed \in BOOLEAN
    /\ done \subseteq StepNames
    /\ pool \in {"none", "started", "closed", "late"}
    /\ verdict \in Verdicts /\ outcome \in Verdicts
    /\ stopRequested \in BOOLEAN
    /\ waiting \in {"no", "queued", "waiting", "answered", "cancelled"}
    /\ waitLock \in {"waiter", "stopper", NoActor}
    /\ faults \in 0 .. MaxFailures

LifecycleInit ==
    /\ mode \in {"sync", "handle"}
    /\ entries = <<>>
    /\ resourceState = [n \in Names |-> "new"]
    /\ active = {}
    /\ resourceLock = NoActor
    /\ closingNow = {}
    /\ at = [a \in Actors |-> IF a = "main" THEN "new" ELSE "idle"]
    /\ step = [a \in Actors |-> 1]
    /\ inShutdown = [a \in Actors |-> a = "stopper"]
    /\ shutdownLock = NoActor /\ prepared = FALSE
    /\ closeLock = NoActor /\ runtimeClosed = FALSE
    /\ done = {}
    /\ pool = "none"
    /\ verdict = "none"
    /\ stopRequested = FALSE /\ waiting = "no" /\ waitLock = NoActor
    /\ outcome = "none"
    /\ faults = 0

Goto(a, place) == at' = [at EXCEPT ![a] = place]
Failure == faults < MaxFailures /\ faults' = faults + 1

---------------------------------------------------------------------------
(* Composition and start.                                                  *)

\* _validate_registration: a name is registered once, and not as something
\* the registry itself defines.
Acceptable(list) == \A j, k \in 1 .. Len(list) : j # k => list[j] # list[k]

\* The built-in resources a configuration asks for, as their positions in
\* Builtins: the order of registration is the same for every configuration.
Configurations ==
    {p \in UNION {[1 .. n -> 1 .. Len(Builtins)] : n \in 0 .. Len(Builtins)} :
        \A j, k \in DOMAIN p : j < k => p[j] < p[k]}

\* register, register_factory, register_classes: one entry after the other.
Registered(configured, user) ==
    [k \in DOMAIN configured |-> Builtins[configured[k]]] \o user

\* build_resource_service: the configured built-in resources, then the
\* classes of RESOURCES_PATH.  A duplicate ends the run before it starts.
Compose ==
    /\ at["main"] = "new"
    /\ \E configured \in Configurations, user \in UserLists :
          LET list == Registered(configured, user)
          IN IF Acceptable(list)
             THEN entries' = list /\ Goto("main", "starting")
             ELSE Goto("main", "aborted") /\ UNCHANGED entries
    /\ UNCHANGED <<mode, resourceState, active, resourceLock, closingNow, step,
                   inShutdown, phaseVars, verdict, handleVars, faults>>

Opened == {n \in Names : resourceState[n] = "open"}

\* ResourceService.start, one resource after the other.
StartResource ==
    /\ at["main"] = "starting"
    /\ IF Cardinality(active) < Len(entries)
       THEN LET n == entries[Cardinality(active) + 1]
            IN /\ resourceState' = [resourceState EXCEPT ![n] = "open"]
               /\ active' = active \cup {n}
               /\ UNCHANGED at
       ELSE Goto("main", "building") /\ UNCHANGED <<resourceState, active>>
    /\ UNCHANGED <<mode, entries, resourceLock, closingNow, step, inShutdown,
                   phaseVars, verdict, handleVars, faults>>

\* What _close_entries makes of a set of resources: a close that raises is
\* logged, and its resource is left.
CloseEntries(set) ==
    \E left \in SUBSET set :
        resourceState' = [n \in Names |-> IF n \in left THEN "left"
                                     ELSE IF n \in set THEN "closed"
                                     ELSE resourceState[n]]

\* A resource does not start, or the start is cancelled: what was started is
\* closed again.
StartFails ==
    /\ at["main"] = "starting"
    /\ Cardinality(active) < Len(entries)
    /\ Failure
    /\ CloseEntries(active)
    /\ active' = {}
    /\ Goto("main", "aborted")
    /\ UNCHANGED <<mode, entries, resourceLock, closingNow, step, inShutdown,
                   phaseVars, verdict, handleVars>>

\* The rest of do_initialization runs without an await.  When a component
\* cannot be built nobody closes the resources.
Build ==
    /\ at["main"] = "building"
    /\ Goto("main", "engines")
    /\ UNCHANGED <<mode, resourceVars, step, inShutdown, phaseVars, verdict,
                   handleVars, faults>>

BuildFails ==
    /\ at["main"] = "building"
    /\ Failure
    /\ Goto("main", "aborted")
    /\ UNCHANGED <<mode, resourceVars, step, inShutdown, phaseVars, verdict,
                   handleVars>>

---------------------------------------------------------------------------
(* The engines.                                                            *)

\* spider.run_in_process: the pool is made by the first call; a closed one
\* raises.  A pool nobody had made is not closed by a shutdown that is past
\* it ("late").
UsePool ==
    /\ \/ at["main"] = "engines" /\ "cancel" \notin done
       \/ at["main"] = "flushing"
    /\ pool = "none"
    /\ pool' = IF "pool" \in done THEN "late" ELSE "started"
    /\ UNCHANGED <<mode, resourceVars, at, step, inShutdown, shutdownLock,
                   prepared, closeLock, runtimeClosed, done, verdict,
                   handleVars, faults>>

\* Engine.start reaches close_spider of the pipelines, which is no task of
\* the TaskManager.
EnginesComplete ==
    /\ at["main"] = "engines"
    /\ "cancel" \notin done
    /\ Goto("main", "flushing")
    /\ UNCHANGED <<mode, resourceVars, step, inShutdown, phaseVars, verdict,
                   handleVars, faults>>

EnginesFlushed ==
    /\ at["main"] = "flushing"
    /\ Goto("main", "toPrepare")
    /\ verdict' = "completed"
    /\ UNCHANGED <<mode, resourceVars, step, inShutdown, phaseVars, handleVars,
                   faults>>

EnginesFail ==
    /\ at["main"] \in {"engines", "flushing"}
    /\ Failure
    /\ Goto("main", "toPrepare")
    /\ verdict' \in {"failed", "cancelled"}
    /\ UNCHANGED <<mode, resourceVars, step, inShutdown, phaseVars, handleVars>>

\* The cancelled scheduler loops raise out of Engine.start.
EnginesCancelled ==
    /\ at["main"] = "engines"
    /\ "cancel" \in done
    /\ Goto("main", "toPrepare")
    /\ verdict' = "cancelled"
    /\ UNCHANGED <<mode, resourceVars, step, inShutdown, phaseVars, handleVars,
                   faults>>

---------------------------------------------------------------------------
(* _prepare_shutdown and _close_runtime_state.                             *)

\* Mutant: the flag is read before the lock is taken.
EnterPrepareUnlocked(a) ==
    /\ at[a] = "toPrepare"
    /\ IF prepared
       THEN Goto(a, "toClose") /\ UNCHANGED <<shutdownLock, done, step>>
       ELSE /\ shutdownLock' = a
            /\ done' = done \cup {"freeze"}
            /\ step' = [step EXCEPT ![a] = 1]
            /\ Goto(a, "preparing")
    /\ UNCHANGED <<mode, resourceVars, inShutdown, prepared, closeLock,
                   runtimeClosed, pool, verdict, handleVars, faults>>

EnterPrepare(a) ==
    /\ at[a] = "toPrepare"
    /\ shutdownLock = NoActor
    /\ IF prepared
       THEN Goto(a, "toClose") /\ UNCHANGED <<shutdownLock, done, step>>
       ELSE /\ shutdownLock' = a
            /\ done' = done \cup {"freeze"}
            /\ step' = [step EXCEPT ![a] = 1]
            /\ Goto(a, "preparing")
    /\ UNCHANGED <<mode, resourceVars, inShutdown, prepared, closeLock,
                   runtimeClosed, pool, verdict, handleVars, faults>>

\* The stop event and the flag are set after the last step.
PrepareStep(a) ==
    /\ at[a] = "preparing"
    /\ done' = done \cup {PrepareSteps[step[a]]}
    /\ IF step[a] = Len(PrepareSteps)
       THEN /\ prepared' = TRUE
            /\ shutdownLock' = NoActor
            /\ Goto(a, "toClose")
            /\ UNCHANGED step
       ELSE /\ step' = [step EXCEPT ![a] = @ + 1]
            /\ UNCHANGED <<prepared, shutdownLock, at>>
    /\ UNCHANGED <<mode, resourceVars, inShutdown, closeLock, runtimeClosed,
                   pool, verdict, handleVars, faults>>

\* Where a finished or failed phase leads: run_sync_base calls shutdown after
\* start_engines in any case.
AfterEngines(failed) ==
    IF mode = "sync" THEN "toPrepare" ELSE IF failed THEN "raised" ELSE "ended"

EnterClose(a) ==
    /\ at[a] = "toClose"
    /\ closeLock = NoActor
    /\ IF runtimeClosed
       THEN /\ Goto(a, IF inShutdown[a] THEN "cleaning" ELSE AfterEngines(FALSE))
            /\ inShutdown' = [inShutdown EXCEPT ![a] = @ \/ mode = "sync"]
            /\ UNCHANGED <<closeLock, step>>
       ELSE /\ closeLock' = a
            /\ step' = [step EXCEPT ![a] = 1]
            /\ Goto(a, "closing")
            /\ UNCHANGED inShutdown
    /\ UNCHANGED <<mode, resourceVars, shutdownLock, prepared, runtimeClosed,
                   done, pool, verdict, handleVars, faults>>

\* ProcessTaskManager.close waits for the calls that run.
PoolAfter(name) == IF name = "pool" /\ pool = "started" THEN "closed" ELSE pool

CloseStep(a) ==
    /\ at[a] = "closing"
    /\ done' = done \cup {CloseSteps[step[a]]}
    /\ pool' = PoolAfter(CloseSteps[step[a]])
    /\ IF step[a] = Len(CloseSteps)
       THEN /\ runtimeClosed' = TRUE
            /\ closeLock' = NoActor
            /\ Goto(a, IF inShutdown[a] THEN "cleaning" ELSE AfterEngines(FALSE))
            /\ inShutdown' = [inShutdown EXCEPT ![a] = @ \/ mode = "sync"]
            /\ UNCHANGED step
       ELSE /\ step' = [step EXCEPT ![a] = @ + 1]
            /\ UNCHANGED <<runtimeClosed, closeLock, at, inShutdown>>
    /\ UNCHANGED <<mode, resourceVars, shutdownLock, prepared, verdict,
                   handleVars, faults>>

\* Mutant: the lock is not given up by an exception.
LeaveLocked(a, ending) ==
    /\ UNCHANGED <<shutdownLock, closeLock>>
    /\ Goto(a, IF inShutdown[a] THEN "raised" ELSE AfterEngines(TRUE))
    /\ inShutdown' = [inShutdown EXCEPT ![a] = @ \/ mode = "sync"]
    /\ verdict' = IF a = "main" /\ verdict = "completed" THEN ending ELSE verdict

\* An exception leaves a phase and gives up its lock.  The error of the
\* cleanup replaces the end of a run that had completed.
Leave(a, ending) ==
    /\ shutdownLock' = IF shutdownLock = a THEN NoActor ELSE shutdownLock
    /\ closeLock' = IF closeLock = a THEN NoActor ELSE closeLock
    /\ Goto(a, IF inShutdown[a] THEN "raised" ELSE AfterEngines(TRUE))
    /\ inShutdown' = [inShutdown EXCEPT ![a] = @ \/ mode = "sync"]
    /\ verdict' = IF a = "main" /\ verdict = "completed" THEN ending ELSE verdict

StepRaises(a) ==
    /\ \/ at[a] = "preparing" /\ PrepareSteps[step[a]] \in CanRaise
       \/ at[a] = "closing" /\ CloseSteps[step[a]] \in CanRaise
    /\ Failure
    /\ Leave(a, "failed")
    /\ UNCHANGED <<mode, resourceVars, step, prepared, runtimeClosed, done,
                   pool, handleVars>>

---------------------------------------------------------------------------
(* The end of shutdown: cleanup again, and the resources.                  *)

CleanAgain(a) ==
    /\ at[a] = "cleaning"
    /\ Goto(a, "toResources")
    /\ UNCHANGED <<mode, resourceVars, step, inShutdown, phaseVars, verdict,
                   handleVars, faults>>

\* ResourceService.close: nothing is active any more before the first close.
CloseResources(a) ==
    /\ at[a] = "toResources"
    /\ resourceLock = NoActor
    /\ resourceLock' = a
    /\ closingNow' = active
    /\ active' = {}
    /\ Goto(a, "resources")
    /\ UNCHANGED <<mode, entries, resourceState, step, inShutdown, phaseVars,
                   verdict, handleVars, faults>>

\* After shutdown the stop() of a handle cancels the task and waits for it.
AfterShutdown(a) == IF a = "stopper" THEN "awaiting" ELSE "ended"

ResourcesClosed(a) ==
    /\ at[a] = "resources"
    /\ CloseEntries(closingNow)
    /\ closingNow' = {}
    /\ resourceLock' = NoActor
    /\ Goto(a, AfterShutdown(a))
    /\ UNCHANGED <<mode, entries, active, step, inShutdown, phaseVars, verdict,
                   handleVars, faults>>

---------------------------------------------------------------------------
(* The runner.                                                             *)

\* Ctrl+C, or stop() of the handle.  Ctrl+C while the resources start meets a
\* crawler without sessions: shutdown raises at once.
RequestStop ==
    /\ at["stopper"] = "idle"
    /\ stopRequested' = TRUE
    /\ \/ /\ mode = "sync" /\ at["main"] = "starting"
          /\ Goto("stopper", "raised")
       \/ /\ at["main"] \notin {"new", "starting", "building", "aborted"}
          /\ mode = "sync" => at["main"] \notin Over
          /\ Goto("stopper", "toPrepare")
    /\ UNCHANGED <<mode, resourceVars, step, inShutdown, phaseVars, verdict,
                   waiting, waitLock, outcome, faults>>

\* A cancelled main goes on with the cleanup when the engines ran, and stops
\* where it is in the cleanup.
CancelledMain ==
    \/ /\ at["main"] \in {"engines", "flushing"}
       /\ Goto("main", "toPrepare")
       /\ verdict' = "cancelled"
       /\ UNCHANGED <<resourceState, active, resourceLock, closingNow, shutdownLock,
                      closeLock, inShutdown>>
    \/ /\ at["main"] \in {"toPrepare", "preparing", "toClose", "closing"}
       /\ Leave("main", "cancelled")
       /\ UNCHANGED <<resourceState, active, resourceLock, closingNow>>
    \/ /\ at["main"] \in {"cleaning", "toResources", "resources"}
       /\ CloseEntries(IF resourceLock = "main" THEN closingNow ELSE {})
       /\ closingNow' = IF resourceLock = "main" THEN {} ELSE closingNow
       /\ resourceLock' = IF resourceLock = "main" THEN NoActor ELSE resourceLock
       /\ Goto("main", "raised")
       /\ UNCHANGED <<active, shutdownLock, closeLock, inShutdown, verdict>>
    \/ /\ at["main"] = "starting"
       /\ CloseEntries(active)
       /\ active' = {}
       /\ Goto("main", "aborted")
       /\ UNCHANGED <<resourceLock, closingNow, shutdownLock, closeLock,
                      inShutdown, verdict>>

\* cleanup_loop after Ctrl+C, task.cancel() in stop(); an application may
\* cancel the task of a handle at any time.
CancelMain ==
    /\ \/ at["stopper"] = "awaiting" /\ UNCHANGED faults
       \/ mode = "sync" /\ at["stopper"] = "raised" /\ UNCHANGED faults
       \/ mode = "handle" /\ at["main"] # "starting" /\ Failure
    /\ CancelledMain
    /\ UNCHANGED <<mode, entries, step, prepared, runtimeClosed, done, pool,
                   handleVars>>

MainOver == at["main"] \in Over

\* The shutdown after Ctrl+C is over when main is; stop() waits for its task.
SyncStopped ==
    /\ mode = "sync"
    /\ at["stopper"] = "awaiting"
    /\ MainOver
    /\ Goto("stopper", "ended")
    /\ UNCHANGED <<mode, resourceVars, step, inShutdown, phaseVars, verdict,
                   handleVars, faults>>

\* CrawlerRunHandle.wait, by stop() and by another waiter: one at a time.
StartWaiting ==
    /\ mode = "handle"
    /\ at["main"] \notin {"new", "starting", "building", "aborted"}
    /\ waiting = "no"
    /\ waiting' = "queued"
    /\ UNCHANGED <<mode, resourceVars, at, step, inShutdown, phaseVars, verdict,
                   stopRequested, waitLock, outcome, faults>>

Wait(who) ==
    /\ mode = "handle"
    /\ waitLock = NoActor
    /\ waitLock' = who
    /\ \/ who = "waiter" /\ waiting = "queued" /\ waiting' = "waiting"
       \/ who = "stopper" /\ at["stopper"] = "awaiting" /\ UNCHANGED waiting
    /\ UNCHANGED <<mode, resourceVars, at, step, inShutdown, phaseVars, verdict,
                   stopRequested, outcome, faults>>

\* The task returned, was cancelled or raised.
Outcome == IF verdict = "completed" /\ stopRequested THEN "cancelled"
           ELSE verdict

Answer(who) ==
    /\ waitLock = who
    /\ MainOver \/ outcome # "none"
    /\ outcome' = IF outcome # "none" THEN outcome ELSE Outcome
    /\ waitLock' = NoActor
    /\ IF who = "waiter"
       THEN waiting' = "answered" /\ UNCHANGED at
       ELSE Goto("stopper", "ended") /\ UNCHANGED waiting
    /\ UNCHANGED <<mode, resourceVars, step, inShutdown, phaseVars, verdict,
                   stopRequested, faults>>

\* A waiter is cancelled; the shield keeps the task.
CancelWaiter ==
    /\ waiting \in {"queued", "waiting"}
    /\ Failure
    /\ waiting' = "cancelled"
    /\ waitLock' = IF waitLock = "waiter" THEN NoActor ELSE waitLock
    /\ UNCHANGED <<mode, resourceVars, at, step, inShutdown, phaseVars, verdict,
                   stopRequested, outcome>>

---------------------------------------------------------------------------
ActorStep(a) ==
    \/ EnterPrepare(a) \/ PrepareStep(a) \/ EnterClose(a) \/ CloseStep(a)
    \/ CleanAgain(a) \/ CloseResources(a) \/ ResourcesClosed(a)
EnginesEnd == EnginesFlushed \/ EnginesCancelled
WaitStep == \E who \in {"waiter", "stopper"} : Wait(who) \/ Answer(who)
StopsMain == at["stopper"] \in {"awaiting", "raised"} /\ CancelMain

\* The process may end once nobody has anything left to do.
Terminated == MainOver /\ at["stopper"] \in Over \cup {"idle"}
              /\ UNCHANGED lifecycleVars

LifecycleNext ==
    \/ Compose \/ StartResource \/ StartFails \/ Build \/ BuildFails
    \/ UsePool \/ EnginesComplete \/ EnginesFail \/ EnginesEnd
    \/ \E a \in Actors : ActorStep(a) \/ StepRaises(a)
    \/ RequestStop \/ CancelMain \/ SyncStopped
    \/ StartWaiting \/ WaitStep \/ CancelWaiter \/ Terminated

\* Awaits of the shutdown end: pipelines, brokers and pools answer or time
\* out.  Nobody has to stop a run, and engines need not complete.
LifecycleFairness ==
    /\ \A a \in Actors : WF_lifecycleVars(ActorStep(a))
    /\ WF_lifecycleVars(EnginesEnd) /\ WF_lifecycleVars(WaitStep)
    /\ WF_lifecycleVars(SyncStopped) /\ WF_lifecycleVars(StopsMain)

LifecycleSpec == LifecycleInit /\ [][LifecycleNext]_lifecycleVars
                 /\ LifecycleFairness

---------------------------------------------------------------------------
(* What is checked.                                                        *)

Mounted == {entries[k] : k \in 1 .. Len(entries)}

\* ResourceService.require and get: what a component is given under a name.
Require(n) == CASE n \notin Mounted -> "KeyError"
                [] n \in Mounted /\ resourceState[n] = "new" -> "RuntimeError"
                [] OTHER -> resourceState[n]

\* Whoever shuts the run down, and however often: resources are open for the
\* tasks of the engines and for the broker-writable phase, that phase is not
\* run again once it succeeded, sessions are closed after it, and resources
\* after the extensions.
ShutdownOrder ==
    /\ \/ at["main"] = "engines" /\ "cancel" \notin done
       \/ \E a \in Actors : at[a] = "preparing"
       => \A n \in Mounted : Require(n) = "open"
    /\ prepared => \A a \in Actors : at[a] # "preparing"
    /\ "sessions" \in done => prepared
    /\ "freeze" \in done /\ (\E n \in Mounted : resourceState[n] # "open")
       => runtimeClosed

\* Once a shutdown has returned, no resource is open and no pool is left that
\* existed when the shutdown came to it: a shutdown that finds its work
\* begun by the other one does not return before it is done.
NothingLeft ==
    at["stopper"] = "awaiting" \/ (mode = "sync" /\ at["main"] = "ended")
        => Opened = {} /\ pool # "started"

\* The types, and the order and completeness of a shutdown.
LifecycleInv == LifecycleTypeOK /\ ShutdownOrder /\ NothingLeft

\* stop() and the shutdown after Ctrl+C end, whatever raises or is cancelled
\* meanwhile: nobody keeps a lock.
StopEnds == stopRequested ~> at["stopper"] \in Over

\* "Shared infrastructure is closed centrally after all engines stop"
\* (docs/en/usage/5-pipelines.md): no resource is closed under close_spider
\* of a pipeline.  The code does not promise it: stop() may close them while the
\* cancelled main task still flushes, so no run checks it.
ClosedAfterEngines ==
    at["main"] = "flushing" => \A n \in Mounted : Require(n) = "open"
=============================================================================
