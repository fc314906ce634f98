---------------------------- MODULE MCLifetimes -----------------------------
(***************************************************************************)
(* Small instances of what is opened and must be closed: infrastructure    *)
(* clients in their slots, Kafka and RabbitMQ connections, the resources   *)
(* and phases of a crawl, several crawlers on one loop, FFmpeg processes,  *)
(* and work in other threads.                                              *)
(* A behaviour is one of one component: focus says of which, and the       *)
(* others stay in an initial state.                                        *)
(***************************************************************************)
EXTENDS Recovery, KafkaTransport, RabbitTransport, Lifecycle, Fleet, Processes,
        Offload

VARIABLE focus

\* One built-in resource and one class of the user, which may take its name.
MCBuiltins == <<"redis">>
MCUserLists == {<<>>, <<"own">>, <<"redis">>}

MCQueueOf == [c \in {"p1", "g1", "g2", "d1", "d2"} |->
                 IF c = "d2" THEN "start" ELSE "work"]

MCAsked == {<<1, "kill">>}

Init ==
    /\ focus \in {"recovery", "transport", "rabbit", "lifecycle", "fleet",
                 "processes", "threads", "pool"}
    /\ IF focus = "transport" THEN TRUE ELSE topic = "absent"
    /\ IF focus = "rabbit" THEN TRUE ELSE owned = TRUE
    /\ IF focus = "lifecycle" THEN TRUE ELSE mode = "handle"
    /\ IF focus = "threads" THEN TRUE ELSE helper = "future"
    /\ RecoveryInit /\ TransportInit /\ RabbitInit /\ LifecycleInit /\ FleetInit
    /\ ProcessesInit /\ OffloadInit

Next ==
    /\ UNCHANGED focus
    /\ \/ /\ focus = "recovery" /\ RecoveryNext
          /\ UNCHANGED <<transportVars, rabbitVars, lifecycleVars, fleetVars,
                         processVars, offloadVars>>
       \/ /\ focus = "transport" /\ TransportNext
          /\ UNCHANGED <<recoveryVars, rabbitVars, lifecycleVars, fleetVars,
                         processVars, offloadVars>>
       \/ /\ focus = "rabbit" /\ RabbitNext
          /\ UNCHANGED <<recoveryVars, transportVars, lifecycleVars, fleetVars,
                         processVars, offloadVars>>
       \/ /\ focus = "lifecycle" /\ LifecycleNext
          /\ UNCHANGED <<recoveryVars, transportVars, rabbitVars, fleetVars,
                         processVars, offloadVars>>
       \/ /\ focus = "fleet" /\ FleetNext
          /\ UNCHANGED <<recoveryVars, transportVars, rabbitVars, lifecycleVars,
                         processVars, offloadVars>>
       \/ /\ focus = "processes" /\ ProcessesNext
          /\ UNCHANGED <<recoveryVars, transportVars, rabbitVars, lifecycleVars,
                         fleetVars, offloadVars>>
       \/ /\ \/ focus = "threads" /\ ThreadNext
             \/ focus = "pool" /\ PoolNext
          /\ UNCHANGED <<recoveryVars, transportVars, rabbitVars, lifecycleVars,
                         fleetVars, processVars>>
       \* All but a crawl may stop anywhere; Lifecycle says itself where a
       \* crawl may.
       \/ /\ focus # "lifecycle"
          /\ UNCHANGED <<recoveryVars, transportVars, rabbitVars, lifecycleVars,
                         fleetVars, processVars, offloadVars>>

\* The fairness of the component in focus (RecoveryFairness,
\* TransportFairness, RabbitFairness, LifecycleFairness, FleetFairness,
\* ProcessesSpec, OffloadFairness).
Fairness ==
    /\ WF_recoveryVars(focus = "recovery" /\ OwnerStep)
    /\ \A c \in Callers : WF_recoveryVars(focus = "recovery" /\ CallerStep(c))
    /\ \A c \in TransportCalls :
          WF_transportVars(focus = "transport" /\ TransportStep(c) /\ progress[c] # "idle")
    /\ WF_transportVars(focus = "transport" /\ CloserStep)
    /\ \A c \in MqCalls : WF_rabbitVars(focus = "rabbit" /\ RabbitStep(c))
    /\ WF_rabbitVars(focus = "rabbit" /\ RabbitCloserStep)
    /\ \A a \in Actors : WF_lifecycleVars(focus = "lifecycle" /\ ActorStep(a))
    /\ WF_lifecycleVars(focus = "lifecycle" /\ EnginesEnd)
    /\ WF_lifecycleVars(focus = "lifecycle" /\ WaitStep)
    /\ WF_lifecycleVars(focus = "lifecycle" /\ SyncStopped)
    /\ WF_lifecycleVars(focus = "lifecycle" /\ StopsMain)
    /\ WF_fleetVars(focus = "fleet" /\ driver # "main" /\ FleetNext)
    /\ \A h \in Handles :
          /\ WF_processVars(focus = "processes" /\ RunnerStep(h))
          /\ WF_processVars(focus = "processes" /\ Killed(h))
          /\ \A k \in Operations :
                WF_processVars(focus = "processes" /\ OperationStep(h, k))
    /\ WF_offloadVars(focus = "threads" /\ ThreadStep /\ UNCHANGED <<executor, job>>)
    /\ WF_offloadVars(focus = "threads" /\ AwaitAnswer /\ UNCHANGED <<executor, job>>)
    /\ WF_offloadVars(focus = "pool" /\ PoolStep)

Spec == Init /\ [][Next]_<<focus, recoveryVars, transportVars, rabbitVars,
                           lifecycleVars, fleetVars, processVars, offloadVars>>
        /\ Fairness

---------------------------------------------------------------------------
\* Brokers: what the Kafka and the RabbitMQ client keep open, and that no call
\* of either waits for ever.
BrokersInv == TransportInv /\ RabbitInv
BrokersEnd == TransportEnds /\ RabbitEnds

\* Runs: what one crawler, and several on one loop, leave open, and that the
\* stop of either ends.
RunsInv == LifecycleInv /\ FleetInv
RunsEnd == StopEnds /\ FleetEnds

\* Helpers outside the event loop: what FFmpeg processes, threads and pool
\* workers are left, and that whoever stops or awaits them gets an answer.
HelpersInv == ProcessesInv /\ OffloadInv
HelpersReturn == StopsReturn /\ (focus = "threads" => ThreadsAnswer) /\ PoolCloses
=============================================================================
