------------------------------- MODULE Fleet --------------------------------
(***************************************************************************)
(* Several crawlers on one event loop: run_spiders_sync starts them one    *)
(* after the other, awaits all their engines, shuts all of them down, and  *)
(* leaves the loop to cleanup_loop, which cancels what is still pending.   *)
(* Ctrl+C may end the wait anywhere; the shutdowns after it run while      *)
(* main() goes on.  It is pressed once, while the loop waits.  Lifecycle   *)
(* takes one crawler's shutdown apart.                                     *)
(***************************************************************************)
EXTENDS Naturals, FiniteSets

CONSTANTS
    FleetSize,     \* configurations given to run_spiders_sync
    MaxMishaps     \* bound: engines and shutdowns that fail, and Ctrl+C

ASSUME FleetAssumption == FleetSize \in Nat \ {0} /\ MaxMishaps \in Nat

Members == 1 .. FleetSize
Main == <<"main", 0>>
EngineOf(k) == <<"engine", k>>
CloserOf(k) == <<"closer", k>>
NoTask == <<"none", 0>>
FleetTasks == {Main} \cup {EngineOf(k) : k \in Members}
              \cup {CloserOf(k) : k \in Members}

VARIABLES
    driver,      \* what the thread runs: main(), the Ctrl+C handler, cleanup_loop
    mainAt,      \* how far the task of main() is
    cause,       \* how its wait for the engines ended
    begun,       \* crawlers initialized
    engineTask,  \* per crawler: its start_engines
    shutdownTask, \* per crawler: its shutdown() in the gather of main()
    resourcesOf, \* per crawler: its resources
    turn,        \* the crawler the handler shuts down; 0 before Ctrl+C
    toCancel,    \* the pending tasks cleanup_loop found and has not cancelled
    awaited,     \* the one it cancelled last and runs the loop for
    flaws,       \* "early": Ctrl+C during the start; "stop": a shutdown raised
    mishaps

mainVars == <<mainAt, cause, begun>>
crawlVars == <<engineTask, shutdownTask, resourcesOf>>
driverVars == <<driver, turn, toCancel, awaited>>
fleetVars == <<mainVars, crawlVars, driverVars, flaws, mishaps>>

Endings == {"returned", "raised", "cancelled"}
FleetMainOver == mainAt \in Endings
Known == begun = FleetSize   \* run_spiders returned: crawlers is not empty

FleetTypeOK ==
    /\ driver \in {"main", "handler", "cleanup", "closed", "escaped"}
    /\ mainAt \in {"starting", "gathering", "stopping"} \cup Endings
    /\ cause \in Endings
    /\ begun \in 0 .. FleetSize
    /\ engineTask \in [Members -> {"none", "running"} \cup Endings]
    /\ shutdownTask \in [Members -> {"none", "running"} \cup Endings]
    /\ resourcesOf \in [Members -> {"none", "open", "closed"}]
    /\ turn \in 0 .. FleetSize + 1
    /\ toCancel \subseteq FleetTasks
    /\ awaited \in FleetTasks \cup {NoTask}
    /\ flaws \subseteq {"early", "stop"}
    /\ mishaps \in 0 .. MaxMishaps

FleetInit ==
    /\ driver = "main" /\ mainAt = "starting" /\ cause = "returned"
    /\ begun = 0
    /\ engineTask = [k \in Members |-> "none"]
    /\ shutdownTask = [k \in Members |-> "none"]
    /\ resourcesOf = [k \in Members |-> "none"]
    /\ turn = 0
    /\ toCancel = {} /\ awaited = NoTask
    /\ flaws = {}
    /\ mishaps = 0

Mishap == mishaps < MaxMishaps /\ mishaps' = mishaps + 1

\* The loop runs inside run_until_complete only.
LoopRuns == \/ driver = "main" /\ ~FleetMainOver
            \/ driver = "handler" /\ turn \in Members
            \/ driver = "cleanup" /\ awaited # NoTask

---------------------------------------------------------------------------
(* run_spiders.                                                            *)

Initialize ==
    /\ LoopRuns /\ mainAt = "starting"
    /\ begun' = begun + 1
    /\ resourcesOf' = [resourcesOf EXCEPT ![begun'] = "open"]
    /\ engineTask' = [engineTask EXCEPT ![begun'] = "running"]
    /\ mainAt' = IF begun' = FleetSize THEN "gathering" ELSE "starting"
    /\ UNCHANGED <<cause, shutdownTask, driverVars, flaws, mishaps>>

\* do_initialization raises: a resource did not start, or a component could
\* not be built and the resources stay open.
InitializeFails ==
    /\ LoopRuns /\ mainAt = "starting"
    /\ Mishap
    /\ \E left \in {"open", "closed"} :
          resourcesOf' = [resourcesOf EXCEPT ![begun + 1] = left]
    /\ mainAt' = "raised"
    /\ UNCHANGED <<cause, begun, engineTask, shutdownTask, driverVars, flaws>>

---------------------------------------------------------------------------
(* start_engines and shutdown of one crawler.                              *)

\* Its shutdown cancels the tasks of the engines, cleanup_loop its own task.
Stopped(k) == shutdownTask[k] # "none" \/ turn >= k \/ awaited = EngineOf(k)

EngineEnds(k) ==
    /\ LoopRuns /\ engineTask[k] = "running"
    /\ \E ending \in Endings :
          /\ engineTask' = [engineTask EXCEPT ![k] = ending]
          /\ ending = "cancelled" => Stopped(k)
          /\ IF ending = "raised" THEN Mishap ELSE UNCHANGED mishaps
    /\ UNCHANGED <<mainVars, shutdownTask, resourcesOf, driverVars, flaws>>

ShutdownEnds(k) ==
    /\ LoopRuns /\ shutdownTask[k] = "running"
    /\ \/ /\ shutdownTask' = [shutdownTask EXCEPT ![k] = "returned"]
          /\ resourcesOf' = [resourcesOf EXCEPT ![k] = "closed"]
          /\ UNCHANGED <<flaws, mishaps>>
       \/ /\ shutdownTask' = [shutdownTask EXCEPT ![k] = "raised"]
          /\ flaws' = flaws \cup {"stop"}
          /\ Mishap
          /\ UNCHANGED resourcesOf
       \/ /\ awaited = CloserOf(k)
          /\ shutdownTask' = [shutdownTask EXCEPT ![k] = "cancelled"]
          /\ UNCHANGED <<resourcesOf, flaws, mishaps>>
    /\ UNCHANGED <<mainVars, engineTask, driverVars>>

---------------------------------------------------------------------------
(* main().                                                                 *)

\* The finally of main(): all shutdowns at once.
StopFleet(how) ==
    /\ mainAt' = "stopping"
    /\ cause' = how
    /\ shutdownTask' = [k \in Members |-> "running"]

\* gather ends with the last engine, or with the first that raises.
GatherEnds ==
    /\ LoopRuns /\ mainAt = "gathering"
    /\ \E how \in Endings :
          /\ IF how = "returned" THEN \A k \in Members : engineTask[k] = how
                                 ELSE \E k \in Members : engineTask[k] = how
          /\ StopFleet(how)
    /\ UNCHANGED <<begun, engineTask, resourcesOf, driverVars, flaws, mishaps>>

\* The second gather: the first shutdown that does not return leaves the
\* others behind.
MainEnds ==
    /\ LoopRuns /\ mainAt = "stopping"
    /\ \/ /\ \A k \in Members : shutdownTask[k] = "returned"
          /\ mainAt' = cause
       \/ \E k \in Members : /\ shutdownTask[k] \in {"raised", "cancelled"}
                             /\ mainAt' = shutdownTask[k]
    /\ UNCHANGED <<cause, begun, crawlVars, driverVars, flaws, mishaps>>

---------------------------------------------------------------------------
(* The thread: Ctrl+C and cleanup_loop.                                    *)

\* asyncio.all_tasks.
Pending ==
    {EngineOf(k) : k \in {j \in Members : engineTask[j] = "running"}}
    \cup {CloserOf(k) : k \in {j \in Members : shutdownTask[j] = "running"}}
    \cup (IF FleetMainOver THEN {} ELSE {Main})

BeginCleanup == driver' = "cleanup" /\ toCancel' = Pending

\* KeyboardInterrupt leaves run_until_complete; the task of main() stays.
\* Before run_spiders returned the handler knows no crawler.
Interrupt ==
    /\ driver = "main" /\ ~FleetMainOver
    /\ Mishap
    /\ IF Known
       THEN driver' = "handler" /\ turn' = 1 /\ UNCHANGED <<toCancel, flaws>>
       ELSE /\ BeginCleanup
            /\ flaws' = flaws \cup {"early"}
            /\ UNCHANGED turn
    /\ UNCHANGED <<mainVars, crawlVars, awaited>>

\* One crawler after the other; one that raises ends the handler.
HandlerShutdown ==
    /\ driver = "handler"
    /\ IF turn \in Members
       THEN \/ /\ resourcesOf' = [resourcesOf EXCEPT ![turn] = "closed"]
               /\ turn' = turn + 1
               /\ UNCHANGED <<driver, toCancel, flaws, mishaps>>
            \/ /\ Mishap
               /\ flaws' = flaws \cup {"stop"}
               /\ BeginCleanup
               /\ UNCHANGED <<resourcesOf, turn>>
       ELSE BeginCleanup /\ UNCHANGED <<resourcesOf, turn, flaws, mishaps>>
    /\ UNCHANGED <<mainVars, engineTask, shutdownTask, awaited>>

MainReturns ==
    /\ driver = "main" /\ FleetMainOver
    /\ BeginCleanup
    /\ UNCHANGED <<mainVars, crawlVars, turn, awaited, flaws, mishaps>>

\* What a cancellation does to main(): it runs its finally, or leaves it.
CancelFleet ==
    CASE mainAt = "starting" ->
            /\ mainAt' = "cancelled"
            /\ UNCHANGED <<cause, shutdownTask>>
      [] mainAt = "gathering" -> StopFleet("cancelled")
      [] mainAt = "stopping" ->
            /\ mainAt' = "cancelled"
            /\ shutdownTask' = [k \in Members |->
                  IF shutdownTask[k] = "running" THEN "cancelled" ELSE shutdownTask[k]]
            /\ UNCHANGED cause
      [] FleetMainOver -> UNCHANGED <<mainAt, cause, shutdownTask>>

CancelTask(task) ==
    /\ driver = "cleanup" /\ awaited = NoTask
    /\ task \in toCancel
    /\ toCancel' = toCancel \ {task}
    /\ awaited' = task
    /\ IF task = Main THEN CancelFleet
                      ELSE UNCHANGED <<mainAt, cause, shutdownTask>>
    /\ UNCHANGED <<begun, engineTask, resourcesOf, driver, turn, flaws, mishaps>>

\* run_until_complete returns; an error other than CancelledError leaves
\* cleanup_loop, and the loop open.
TaskAwaited ==
    /\ driver = "cleanup" /\ awaited \notin Pending \cup {NoTask}
    /\ LET ending == CASE awaited = Main -> mainAt
                       [] awaited[1] = "engine" -> engineTask[awaited[2]]
                       [] awaited[1] = "closer" -> shutdownTask[awaited[2]]
       IN driver' = IF ending = "raised" THEN "escaped" ELSE driver
    /\ awaited' = NoTask
    /\ UNCHANGED <<mainVars, crawlVars, turn, toCancel, flaws, mishaps>>

CloseFleetLoop ==
    /\ driver = "cleanup" /\ toCancel = {} /\ awaited = NoTask
    /\ driver' = "closed"
    /\ UNCHANGED <<mainVars, crawlVars, turn, toCancel, awaited, flaws, mishaps>>

FleetNext ==
    \/ Initialize \/ InitializeFails \/ GatherEnds \/ MainEnds \/ Interrupt
    \/ HandlerShutdown \/ MainReturns \/ TaskAwaited \/ CloseFleetLoop
    \/ \E k \in Members : EngineEnds(k) \/ ShutdownEnds(k)
    \/ \E task \in FleetTasks : CancelTask(task)

\* The thread is in run_until_complete of something that was told to end.
FleetFairness == WF_fleetVars(driver # "main" /\ FleetNext)

FleetSpec == FleetInit /\ [][FleetNext]_fleetVars /\ FleetFairness

---------------------------------------------------------------------------
(* What is checked.                                                        *)

\* When the loop is closed nothing is pending on it: no engine still crawls
\* and no shutdown was left half-way, tasks made during the cleanup included.
\* Ctrl+C during the start is excepted: main() goes on starting crawlers while
\* cleanup_loop awaits the tasks of others.
NothingPending == driver = "closed" /\ "early" \notin flaws => Pending = {}

\* Once all crawlers are started, one that fails, or Ctrl+C, keeps none of the
\* others from closing its resources; only a shutdown that raises does.
FleetClosed ==
    driver = "closed" /\ Known /\ flaws = {} =>
        \A k \in Members : resourcesOf[k] = "closed"

\* After Ctrl+C, or the end of main(), the thread gets out of the loop.
FleetEnds == driver # "main" ~> driver \in {"closed", "escaped"}

FleetInv == FleetTypeOK /\ NothingPending /\ FleetClosed
=============================================================================
