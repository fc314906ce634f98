---------------------------- MODULE MCScheduling ----------------------------
(***************************************************************************)
(* Small instances of what the event loop schedules for one crawl: the     *)
(* managed tasks of two engines, the sessions under the discipline that    *)
(* single sessions are ended once and not used afterwards, and one engine  *)
(* over a finite crawl whose new requests may share meta.                  *)
(* A behaviour is one of one component: focus says of which, and the       *)
(* others stay in their initial state.                                     *)
(***************************************************************************)
EXTENDS Tasks, Sessions

CONSTANTS
    default, a, b,   \* the default session and two others
    e1, e2           \* engines that share the TaskManager

MCEngines == {e1, e2}
MCIds == {default, a, b}
MCNoGroups == {}
MCNoMembers == [x \in {} |-> {}]
MCUsers == 1 .. 3

\* Requests 1 and 2 are duplicates, 3 is not filtered.  Spider.start yields one,
\* callbacks the others.
MCRequests == 1 .. 3
MCFp == [r \in MCRequests |-> IF r = 2 THEN 1 ELSE r]

VARIABLES
    focus,
    producer, started, stage, meta, workSeq, pendingIds, idle, newSeen, sentSeen,
    waiter, crawlPhase, failed, reschedules   \* of Engine

E == INSTANCE Engine WITH
        Requests <- MCRequests, Fp <- MCFp, DontFilter <- {3}, MaxStart <- 1,
        SharedMeta <- TRUE, MaxRetries <- 1, MaxReplacements <- 0,
        phase <- crawlPhase, error <- failed

engineVars == <<producer, started, stage, meta, workSeq, pendingIds, idle, newSeen,
                sentSeen, waiter, crawlPhase, failed, reschedules>>

MCInit ==
    /\ focus \in {"tasks", "sessions", "engine"}
    /\ TasksInit /\ Init /\ E!Init

MCNext ==
    /\ UNCHANGED focus
    /\ \/ focus = "tasks" /\ TasksNext /\ UNCHANGED <<vars, engineVars>>
       \/ focus = "sessions" /\ Next /\ UNCHANGED <<tasksVars, engineVars>>
       \/ focus = "engine" /\ E!Next /\ UNCHANGED <<tasksVars, vars>>

\* The fairness of the component in focus (TasksFairness, Fairness of Sessions
\* and of Engine).
MCFairness ==
    /\ WF_tasksVars(focus = "tasks" /\ Start)
    /\ \A t \in Tasks :
          WF_tasksVars(focus = "tasks" /\ (Finish(t) \/ LoopCheck(t) \/ LoopGet(t)))
    /\ \A e \in Engines : WF_tasksVars(focus = "tasks" /\ (Stop(e) \/ Close(e)))
    /\ \A u \in Users :
          /\ WF_vars(focus = "sessions" /\ UserStep(u))
          /\ WF_vars(focus = "sessions" /\ FinishFetch(u))
    /\ WF_vars(focus = "sessions" /\ ReaperTake)
    /\ WF_vars(focus = "sessions" /\ ReaperDone)
    /\ WF_vars(focus = "sessions" /\ Persist)
    /\ WF_vars(focus = "sessions" /\ CloseAll)
    /\ WF_engineVars(focus = "engine" /\ (E!ProducerReturn \/ E!ProducerFails))
    /\ \A r \in MCRequests :
          /\ WF_engineVars(focus = "engine" /\ E!RequestStep(r))
          /\ WF_engineVars(focus = "engine" /\ E!CompleteRequest(r))
    /\ WF_engineVars(focus = "engine" /\ E!AwaitProducer)
    /\ WF_engineVars(focus = "engine" /\ E!AwaitIdle)
    /\ WF_engineVars(focus = "engine" /\ E!AwaitQuiescent)
    /\ WF_engineVars(focus = "engine" /\ E!Stop)
    /\ WF_engineVars(focus = "engine" /\ E!Close)

MCSpec == MCInit /\ [][MCNext]_<<focus, tasksVars, vars, engineVars>> /\ MCFairness

---------------------------------------------------------------------------
\* A finite crawl ends although its new requests share the meta of the one they
\* came from (Engine.FiniteCrawlCloses): the engine closes.
FiniteCrawlCloses == focus = "engine" => E!FiniteCrawlCloses
=============================================================================
