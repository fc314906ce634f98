------------------------------ MODULE HubStore ------------------------------
(***************************************************************************)
(* MonitorStore (monitoring/store.py): the Hub's bounded view of many      *)
(* worker processes and their runs, built from the posts of the monitor    *)
(* extensions.  A post may be lost (the Hub is down), or late: the client  *)
(* gives up after its timeout and goes on with the next one, while the Hub *)
(* still handles the first (monitoring/client.py).                         *)
(*                                                                         *)
(* The record `store` holds the snapshots and the engine counters of the   *)
(* runs and workers retained, and the order of their last observation      *)
(* (observed_at); what is not retained has the values of Nothing.  Each    *)
(* function of the store is an operator on it; record() runs under a lock. *)
(***************************************************************************)
EXTENDS Naturals, Sequences, FiniteSets, SequencesExt

CONSTANTS
    Runs, Workers,
    WorkerOf,        \* WorkerOf[r]: worker_id and instance_id of run r
    RunEngines,      \* engines of a run
    MaxRuns, MaxWorkers, \* retention limits
    MaxNotes,        \* bound: posts without a state of their own
    MaxPostFaults    \* bound: lost and late posts

ASSUME HubStoreAssumption ==
    /\ IsFiniteSet(Runs) /\ WorkerOf \in [Runs -> Workers]
    /\ RunEngines \in Nat \ {0} /\ MaxRuns \in Nat \ {0} /\ MaxWorkers \in Nat \ {0}
    /\ MaxPostFaults \in Nat

VARIABLES
    store,      \* what the Hub retains
    posts,      \* posts[r]: _sequence of the extension of run r
    notes,      \* posts without a state so far
    begun,      \* begun[r]: engines of r reported as started
    halted,     \* halted[r]: engines of r reported as stopped
    outcome,    \* outcome[r]: the terminal state reported, or "none"
    late,       \* posts the Hub has not handled yet
    postFaults, \* lost and late posts so far
    orphans     \* orphans[w]: engines of runs of w evicted with engines counted

senderVars == <<posts, notes, begun, halted, outcome>>
hubStoreVars == <<store, senderVars, late, postFaults, orphans>>

\* The terminal states; the store treats failed, cancelled and killed alike.
Ended == {"completed", "failed"}

---------------------------------------------------------------------------
(* The store.                                                              *)

NoRun == [state |-> "accepted", seq |-> 0, engines |-> 0]
NoWorker == [state |-> "registered", runs |-> 0, engines |-> 0]
EmptyStore == [run |-> [r \in Runs |-> NoRun], runAt |-> <<>>,
               worker |-> [w \in Workers |-> NoWorker], workerAt |-> <<>>]

Less(n, k) == IF n > k THEN n - k ELSE 0

\* An order has each run or worker once: it is left, or observed anew.
PlaceOf(order, x) == CHOOSE k \in 1 .. Len(order) : order[k] = x
Without(order, x) == IF x \in ToSet(order) THEN RemoveAt(order, PlaceOf(order, x)) ELSE order
Newest(order, x) == Append(Without(order, x), x)

\* _accept_run_event; an evicted run has no sequence to compare with.
AcceptRunEvent(s, e) == e.run \notin ToSet(s.runAt) \/ e.seq > s.run[e.run].seq

ReleaseTerminalEngines(s, e) ==
    IF e.state \in Ended
    THEN [s EXCEPT !.worker[WorkerOf[e.run]].engines = Less(@, s.run[e.run].engines),
                   !.run[e.run].engines = 0]
    ELSE s

CountEngines(n, e) == CASE e.event = "engine_started" -> n + 1
                        [] e.event = "engine_stopped" -> Less(n, 1)
                        [] OTHER -> n

\* The posts of the extension name the worker's state or leave it, except
\* spider_opened, which means a running worker.
RecordWorker(s, e) ==
    LET w == WorkerOf[e.run]
    IN [s EXCEPT !.worker[w] =
                     [state |-> CASE e.state \in Ended -> "stopped"
                                  [] e.state = "running" \/ e.event = "spider_opened"
                                       -> "running"
                                  [] OTHER -> @.state,
                      runs |-> @.runs,
                      engines |-> CountEngines(@.engines, e)],
                 !.workerAt = Newest(@, w)]

RecordRun(s, e) ==
    [s EXCEPT !.run[e.run] =
                  [state |-> CASE e.state # "none" -> e.state
                               [] e.event = "spider_opened" -> "running"
                               [] OTHER -> @.state,
                   seq |-> e.seq,
                   engines |-> CountEngines(@.engines, e)],
              !.runAt = Newest(@, e.run)]

CountActiveRuns(s, w) ==
    Cardinality({r \in ToSet(s.runAt) : WorkerOf[r] = w /\ s.run[r].state \notin Ended})

RecordActiveRuns(s, e) ==
    [s EXCEPT !.worker[WorkerOf[e.run]].runs = CountActiveRuns(s, WorkerOf[e.run])]

\* The oldest of those that may go first, else the oldest of all.
Victim(order, goFirst) ==
    LET places == {k \in 1 .. Len(order) : order[k] \in goFirst}
    IN order[IF places # {} THEN Min(places) ELSE 1]

RunVictim(s) == Victim(s.runAt, {r \in Runs : s.run[r].state \in Ended})
WorkerVictim(s) == Victim(s.workerAt, {w \in Workers : s.worker[w].state = "stopped"})

\* One event adds at most one run and one worker: each loop runs at most once.
EvictRun(s) ==
    IF Len(s.runAt) <= MaxRuns THEN s
    ELSE LET r == RunVictim(s)
         IN [s EXCEPT !.run[r] = NoRun, !.runAt = Without(@, r)]

EvictWorker(s) ==
    IF Len(s.workerAt) <= MaxWorkers THEN s
    ELSE LET w == WorkerVictim(s)
         IN [s EXCEPT !.worker[w] = NoWorker, !.workerAt = Without(@, w)]

Merge(s, e) ==
    RecordActiveRuns(RecordRun(RecordWorker(ReleaseTerminalEngines(s, e), e), e), e)

\* The engines counted for the run of w that t no longer retains.
EvictedEngines(s, t, w) ==
    LET gone == {r \in ToSet(s.runAt) \ ToSet(t.runAt) : WorkerOf[r] = w}
    IN IF gone = {} THEN 0 ELSE s.run[CHOOSE r \in gone : TRUE].engines

\* record: a rejected event changes nothing.
Record(e) ==
    IF AcceptRunEvent(store, e)
    THEN LET merged == Merge(store, e)
             after == EvictRun(merged)
         IN /\ store' = EvictWorker(after)
            /\ orphans' = [w \in Workers |-> orphans[w] + EvictedEngines(merged, after, w)]
    ELSE UNCHANGED <<store, orphans>>

---------------------------------------------------------------------------
(* The posts: one at a time for each run, numbered under _publish_lock.    *)

HubStoreInit ==
    /\ store = EmptyStore
    /\ posts = [r \in Runs |-> 0] /\ notes = 0
    /\ begun = [r \in Runs |-> 0] /\ halted = [r \in Runs |-> 0]
    /\ outcome = [r \in Runs |-> "none"]
    /\ late = {} /\ postFaults = 0
    /\ orphans = [w \in Workers |-> 0]

\* The Hub records the post, records it later, or never.
Post(r, event, state) ==
    LET e == [run |-> r, seq |-> posts[r] + 1, event |-> event, state |-> state]
    IN /\ posts' = [posts EXCEPT ![r] = @ + 1]
       /\ \/ Record(e) /\ UNCHANGED <<late, postFaults>>
          \/ /\ postFaults < MaxPostFaults
             /\ postFaults' = postFaults + 1
             /\ late' \in {late, late \cup {e}}
             /\ UNCHANGED <<store, orphans>>

PostStarted(r) ==
    /\ begun[r] < RunEngines /\ outcome[r] = "none"
    /\ begun' = [begun EXCEPT ![r] = @ + 1]
    /\ Post(r, "engine_started", "running")
    /\ UNCHANGED <<notes, halted, outcome>>

\* An engine may stop after the run has failed.
PostStopped(r) ==
    /\ halted[r] < begun[r]
    /\ halted' = [halted EXCEPT ![r] = @ + 1]
    /\ Post(r, "engine_stopped",
            IF halted[r] + 1 < begun[r] THEN "running" ELSE "completed")
    /\ UNCHANGED <<notes, begun, outcome>>

PostOutcome(r) ==
    /\ begun[r] > 0 /\ outcome[r] = "none"
    /\ \E o \in Ended : /\ o = "completed" => halted[r] = RunEngines
                       /\ outcome' = [outcome EXCEPT ![r] = o]
                       /\ Post(r, "run_ended", o)
    /\ UNCHANGED <<notes, begun, halted>>

\* Spiders, counters and errors: posts that name no state.
PostNote(r, event) ==
    /\ notes < MaxNotes /\ begun[r] > halted[r]
    /\ notes' = notes + 1
    /\ Post(r, event, "none")
    /\ UNCHANGED <<begun, halted, outcome>>

HandleLate(e) ==
    /\ e \in late
    /\ late' = late \ {e}
    /\ Record(e)
    /\ UNCHANGED <<senderVars, postFaults>>

HubStoreNext ==
    \/ \E r \in Runs : \/ PostStarted(r) \/ PostStopped(r) \/ PostOutcome(r)
                       \/ \E event \in {"spider_opened", "counters"} : PostNote(r, event)
    \/ \E e \in late : HandleLate(e)

HubStoreSpec == HubStoreInit /\ [][HubStoreNext]_hubStoreVars

---------------------------------------------------------------------------
(* What is checked.                                                        *)

HubStoreTypeOK ==
    /\ store.run \in [Runs -> [state : Ended \cup {"accepted", "running"},
                               seq : Nat, engines : 0 .. RunEngines]]
    /\ store.worker \in [Workers -> [state : {"registered", "running", "stopped"},
                                     runs : 0 .. Cardinality(Runs), engines : Nat]]
    /\ posts \in [Runs -> Nat] /\ postFaults \in 0 .. MaxPostFaults
    /\ \A e \in late : e.seq \in 1 .. posts[e.run]

\* The retention limits hold, and an evicted run or worker leaves nothing behind
\* that a late event of it would find again.
Bounded ==
    /\ Len(store.runAt) <= MaxRuns /\ Len(store.workerAt) <= MaxWorkers
    /\ \A r \in Runs \ ToSet(store.runAt) : store.run[r] = NoRun
    /\ \A w \in Workers \ ToSet(store.workerAt) : store.worker[w] = NoWorker

\* The engines that the runs of a worker have.
EnginesOf(s, w) ==
    {x \in Runs \X (1 .. RunEngines) : WorkerOf[x[1]] = w /\ x[2] <= s.run[x[1]].engines}

\* Whatever posts are lost or late, a worker has no engines that none of its
\* runs has, except those of runs evicted under the limits, and a run shown as
\* ended has none: a terminal event takes the engines whose end was lost with it.
EnginesOwned ==
    /\ \A w \in Workers :
          store.worker[w].engines <= orphans[w] + Cardinality(EnginesOf(store, w))
    /\ \A r \in Runs : store.run[r].state \in Ended => store.run[r].engines = 0

\* A run is shown as ended only when it reported so itself: a process that
\* died, or posts that are lost, never complete a run.
EndsReported ==
    \A r \in Runs :
        LET state == store.run[r].state
        IN state \in Ended =>
              \/ state = outcome[r]
              \/ state = "completed" /\ halted[r] > 0

HubStoreInv == HubStoreTypeOK /\ Bounded /\ EnginesOwned /\ EndsReported
=============================================================================
