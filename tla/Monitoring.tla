----------------------------- MODULE Monitoring -----------------------------
(***************************************************************************)
(* Observation of one run: the engines and Crawler.start_engines emit      *)
(* signals, CrawlerMonitorExtension (extensions/monitoring.py) publishes   *)
(* them to the Hub through one lock, and MonitorStore (monitoring/store.py)*)
(* merges what arrives.                                                    *)
(*                                                                         *)
(* The tasks of callbacks start in the order of their dispatch, so the     *)
(* first segment of a callback is part of the dispatch.  Left out are the  *)
(* signals that carry no state (counters, errors, spiders): for the store  *)
(* they are posts that only raise the sequence, like a post that is lost.  *)
(***************************************************************************)
EXTENDS Signals

CONSTANTS
    EngineNum, \* mounted engines
    MaxBeats,  \* bound: heartbeats of a run
    Outages    \* posts may fail (HubStore.tla has what the Hub makes of that)

Engines == 1 .. EngineNum

Started(e) == <<"engine_started", e>>
Stopped(e) == <<"engine_stopped", e>>
Terminal == <<"run", "terminal">>
RunEmissions == {Started(e) : e \in Engines} \cup {Stopped(e) : e \in Engines}
                \cup {Terminal}
Heartbeat == <<"heartbeat", "beat">>

ASSUME MonitoringAssumption ==
    /\ EngineNum \in Nat /\ MaxBeats \in Nat /\ Outages \in BOOLEAN
    /\ Emissions = RunEmissions

VARIABLES
    engine,     \* what each Engine.start does
    run,        \* how far the crawler is
    runOutcome, \* what the run ended with
    activeEngines, \* _active_engines of the extension
    heartbeat,  \* _heartbeat_task
    beats,      \* heartbeats so far
    parked,     \* callbacks awaiting the cancelled heartbeat task
    line,       \* publishers at _publish_lock; the first one holds it
    sequence,   \* _sequence of the extension
    wire,       \* posts whose task was cancelled while their thread goes on
    hub         \* the snapshot of the run in the store

crawlVars == <<engine, run, runOutcome>>
extensionVars == <<activeEngines, heartbeat, beats, parked, line, sequence, wire, hub>>
monitoringVars == <<signalVars, crawlVars, extensionVars>>

RunStates == {"accepted", "running", "completed", "failed", "cancelled"}

MonitoringTypeOK ==
    /\ SignalsTypeOK
    /\ engine \in [Engines -> {"new", "running", "over", "failed"}]
    /\ run \in {"running", "ending", "shutdown", "stopping", "closed",
               "aborted"}
    /\ runOutcome \in RunStates
    /\ activeEngines \in 0 .. Cardinality(Engines)
    /\ heartbeat \in {"none", "sleeping", "publishing"}
    /\ beats \in 0 .. MaxBeats
    /\ parked \subseteq RunEmissions
    /\ \A k \in 1 .. Len(line) :
          line[k] \in [by : RunEmissions \cup {Heartbeat},
                       state : RunStates]
    /\ sequence \in Nat
    /\ hub \in [seq : 0 .. sequence, state : RunStates]
    /\ \A post \in wire : post.seq \in 1 .. sequence

MonitoringInit ==
    /\ SignalsInit
    /\ engine = [e \in Engines |-> "new"]
    /\ run = "running"
    /\ runOutcome = "running"
    /\ activeEngines = 0
    /\ heartbeat = "none"
    /\ beats = 0
    /\ parked = {}
    /\ line = <<>>
    /\ sequence = 0
    /\ wire = {}
    /\ hub = [seq |-> 0, state |-> "accepted"]

---------------------------------------------------------------------------
(* The run: Engine.start and Crawler.start_engines.                        *)

\* What these actions leave alone in the signal manager.
ManagerIdle == UNCHANGED <<consumer, callbacks, stopping, interrupted, gathered, dispatched>>

\* gather starts the engines in their order.
EngineStarts(e) ==
    /\ run = "running"
    /\ engine[e] = "new"
    /\ \A f \in 1 .. e - 1 : engine[f] # "new"
    /\ engine' = [engine EXCEPT ![e] = "running"]
    /\ Send(Started(e))
    /\ ManagerIdle
    /\ UNCHANGED <<stopEvent, run, runOutcome, extensionVars>>

\* The end of Engine.start, many turns of the loop after its beginning.  An
\* engine outlives the run when another one failed.
EngineStops(e) ==
    /\ engine[e] = "running"
    /\ Started(e) \notin InReady
    /\ run \notin {"closed", "aborted"}
    /\ engine' = [engine EXCEPT ![e] = "over"]
    /\ SafePut(Stopped(e))
    /\ ManagerIdle
    /\ UNCHANGED <<stopEvent, run, runOutcome, extensionVars>>

\* An exception out of Engine.start, open_spider of a pipeline for one:
\* engine_stopped is not sent.
EngineFails(e) ==
    /\ run = "running"
    /\ engine[e] = "running"
    /\ engine' = [engine EXCEPT ![e] = "failed"]
    /\ UNCHANGED <<signalVars, run, runOutcome, extensionVars>>

\* gather returned, raised the first failure, or was cancelled; then the
\* terminal signal is put.
RunEnds ==
    /\ run = "running"
    /\ \/ /\ \A e \in Engines : engine[e] = "over" /\ Stopped(e) \notin blocked
          /\ runOutcome' = "completed"
          /\ UNCHANGED engine
       \/ /\ \E e \in Engines : engine[e] = "failed"
          /\ runOutcome' = "failed"
          /\ UNCHANGED engine
       \/ /\ runOutcome' = "cancelled"
          /\ engine' = [e \in Engines |->
                          IF engine[e] = "over" THEN "over" ELSE "failed"]
    /\ run' = "ending"
    /\ SafePut(Terminal)
    /\ ManagerIdle
    /\ UNCHANGED <<stopEvent, extensionVars>>

\* _prepare_shutdown sets the stop event last.
PrepareShutdown ==
    /\ run = "ending"
    /\ Terminal \notin blocked
    /\ run' = "shutdown"
    /\ stopEvent' = TRUE
    /\ UNCHANGED <<putState, beforeStop, consumer, callbacks, stopping,
                   interrupted, gathered, dispatched, engine, runOutcome, extensionVars>>

\* _close_runtime_state: the signal manager is stopped, ...
CloseSignals ==
    /\ run = "shutdown"
    /\ run' = "stopping"
    /\ Stop
    /\ UNCHANGED <<engine, runOutcome, extensionVars>>

---------------------------------------------------------------------------
(* CrawlerMonitorExtension.                                                *)

\* _stop_heartbeat cancels the task: it leaves the line, or its thread goes
\* on posting while the lock is free again.
CancelledPost == [seq |-> sequence + 1, state |-> "running"]
BeatHolds == line # <<>> /\ Head(line).by = Heartbeat
StopHeartbeat ==
    /\ heartbeat' = "none"
    /\ IF BeatHolds
       THEN /\ sequence' = sequence + 1
            /\ wire' \in {wire, wire \cup {CancelledPost}}
       ELSE UNCHANGED <<sequence, wire>>

\* The heartbeat task is in the line at most once.
IsBeat(k) == line[k].by = Heartbeat
NoBeat == \A k \in 1 .. Len(line) : ~IsBeat(k)

\* The cancelled heartbeat leaves the line, wherever it is.
BeatLeaves ==
    \/ NoBeat /\ line' = line
    \/ \E k \in 1 .. Len(line) :
          IsBeat(k) /\ line' = SubSeq(line, 1, k - 1) \o SubSeq(line, k + 1, Len(line))

\* The callbacks that stop() awaited are cancelled with it, and leave the line.
OthersLeave ==
    \/ NoBeat /\ line' = <<>>
    \/ \E k \in 1 .. Len(line) : IsBeat(k) /\ line' = <<line[k]>>

KeepHeartbeat == UNCHANGED <<heartbeat, sequence, wire>>

\* engine_stopped reports what its own count says once it may publish.
StoppedState(n) == IF n > 0 THEN "running" ELSE "completed"
Publisher(s, state) == [by |-> s, state |-> state]
PublishedState(s, n) == CASE s = Terminal -> runOutcome
                          [] s[1] = "engine_started" -> "running"
                          [] s[1] = "engine_stopped" -> StoppedState(n)

\* The first segment of a callback: the engines are counted, the heartbeat
\* stopped, and the publisher joins the line unless it awaits the heartbeat.
Observe(s) ==
    LET n == CASE s[1] = "engine_started" -> activeEngines + 1
               [] s[1] = "engine_stopped" /\ activeEngines > 0 -> activeEngines - 1
               [] OTHER -> activeEngines
        quiet == s = Terminal \/ (s[1] = "engine_stopped" /\ n = 0)
    IN /\ activeEngines' = n
       /\ IF quiet /\ heartbeat # "none"
          THEN /\ StopHeartbeat
               /\ parked' = parked \cup {s}
               /\ BeatLeaves
          ELSE /\ KeepHeartbeat
               /\ line' = Append(line, Publisher(s, PublishedState(s, n)))
               /\ UNCHANGED parked
       /\ UNCHANGED <<beats, hub>>

DispatchObserved(s) == /\ Dispatch(s)
                       /\ Observe(s)
                       /\ UNCHANGED crawlVars

\* The cancelled heartbeat task is over: the callback publishes.
Unpark(s) ==
    /\ s \in parked
    /\ parked' = parked \ {s}
    /\ line' = Append(line, Publisher(s, PublishedState(s, activeEngines)))
    /\ UNCHANGED <<signalVars, crawlVars, activeEngines, heartbeat, beats, sequence,
                   wire, hub>>

\* MonitorStore.record of a run event: duplicate and stale sequences are
\* rejected, a state in the event replaces the recorded one.
Merged(post) ==
    IF post.seq <= hub.seq THEN hub ELSE post

\* The post of the lock holder ends; an outage of the Hub is swallowed.
\* engine_started then starts the heartbeat.
Publish ==
    /\ line # <<>>
    /\ LET p == Head(line)
           s == p.by
           post == [seq |-> sequence + 1, state |-> p.state]
       IN /\ hub' \in {Merged(post)} \cup (IF Outages THEN {hub} ELSE {})
          /\ heartbeat' = IF \/ s = Heartbeat
                             \/ s[1] = "engine_started" /\ heartbeat = "none"
                          THEN "sleeping" ELSE heartbeat
          /\ CallbackEnds(s)
    /\ sequence' = sequence + 1
    /\ line' = Tail(line)
    /\ UNCHANGED <<putState, consumer, stopping, interrupted, gathered, stopEvent, beforeStop,
                   dispatched, crawlVars, activeEngines, beats, parked, wire>>

\* A post whose task was cancelled reaches the Hub late.
LatePost(post) ==
    /\ post \in wire
    /\ wire' = wire \ {post}
    /\ hub' = Merged(post)
    /\ UNCHANGED <<signalVars, crawlVars, activeEngines, heartbeat, beats, parked, line,
                   sequence>>

\* The heartbeat interval is over.
Beat ==
    /\ heartbeat = "sleeping"
    /\ beats < MaxBeats
    /\ heartbeat' = "publishing"
    /\ beats' = beats + 1
    /\ line' = Append(line, Publisher(Heartbeat, "running"))
    /\ UNCHANGED <<signalVars, crawlVars, activeEngines, parked, sequence, wire, hub>>

\* stop() is cancelled with start_engines; the runner calls shutdown() then.
ShutdownInterrupted ==
    /\ StopCancelled
    /\ run' = "shutdown"
    /\ IF stopping = "puts"
       THEN UNCHANGED <<parked, line>>
       ELSE parked' = {} /\ OthersLeave
    /\ UNCHANGED <<engine, runOutcome, activeEngines, heartbeat, beats, sequence, wire,
                   hub>>

\* The second stop() raises the cancellation of the consumer task again: the
\* extensions are not closed, and shutdown() ends here.
ShutdownRaises ==
    /\ run = "stopping"
    /\ stopping = "raised"
    /\ run' = "aborted"
    /\ UNCHANGED <<signalVars, engine, runOutcome, extensionVars>>

\* ... and then the extensions are closed.
CloseExtensions ==
    /\ run = "stopping"
    /\ stopping = "stopped"
    /\ run' = "closed"
    /\ StopHeartbeat
    /\ BeatLeaves
    /\ UNCHANGED <<signalVars, engine, runOutcome, activeEngines, beats, parked, hub>>

---------------------------------------------------------------------------
ManagerStep == /\ PutStep \/ ConsumeSentinel \/ StopStep
               /\ UNCHANGED <<crawlVars, extensionVars>>
ExtensionStep == Publish \/ \E s \in RunEmissions : Unpark(s)
DispatchStep == \E s \in RunEmissions : DispatchObserved(s)
ClosingStep == PrepareShutdown \/ CloseSignals \/ CloseExtensions \/ ShutdownRaises

\* The process may end here; a shutdown stuck anywhere else is a deadlock.
RunSettled == run \in {"closed", "aborted"} /\ UNCHANGED monitoringVars

MonitoringNext ==
    \/ \E e \in Engines : EngineStarts(e) \/ EngineStops(e) \/ EngineFails(e)
    \/ \E post \in wire : LatePost(post)
    \/ RunEnds \/ ClosingStep \/ ManagerStep \/ DispatchStep \/ ExtensionStep
    \/ Beat \/ ShutdownInterrupted \/ RunSettled

MonitoringSpec == MonitoringInit /\ [][MonitoringNext]_monitoringVars

---------------------------------------------------------------------------
(* What is checked.                                                        *)

\* No heartbeat outlives the run: a callback that starts one has ended before
\* the extensions are closed.
NoHeartbeatLeft == run = "closed" => heartbeat = "none" /\ parked = {}

\* The types, the signals a stop() owes its callbacks, and no heartbeat left.
MonitoringInv == MonitoringTypeOK /\ DrainedAtStop /\ NoHeartbeatLeft

\* The terminal event of a run decides what the Hub shows of it in the end
\* (Crawler.start_engines: "emit one explicit terminal run event").  A stop event
\* dispatched after it overwrites it, so no run checks this.
TerminalStateShown ==
    run = "closed" /\ Terminal \notin overflowed /\ hub.state # "accepted"
        /\ hub.seq = sequence
        => hub.state = runOutcome
=============================================================================
