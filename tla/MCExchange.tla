----------------------------- MODULE MCExchange -----------------------------
(***************************************************************************)
(* Small instances of what a crawler exchanges with others: leased work,   *)
(* Kafka messages, duplicate filters and session snapshots in brokers,     *)
(* signals, monitor events and the Hub, robots.txt files, event streams.   *)
(* A behaviour is one of one component: focus says of which, and the       *)
(* others stay in an initial state.                                        *)
(***************************************************************************)
EXTENDS Leases, KafkaHandover, Dedup, SessionState, Monitoring, HubStore, Politeness,
        EventStream

CONSTANT Focuses   \* the components an instance looks at

VARIABLE focus

MCParentOf == [c \in {"k"} |-> "m1"]

MCFingerprint == <<"a", "a", "b", "c">>
MCPositions == [f \in {"a", "b", "c"} |->
                   CASE f = "a" -> {1, 2} [] f = "b" -> {2, 3} [] f = "c" -> {1, 3}]
MCShardOf == [f \in {"a", "b", "c"} |-> "s1"]

MCEmissions == RunEmissions
MCSentinel == <<"stop", "sentinel">>

MCWorkerOf == [r \in {"r1", "r2", "r3"} |-> IF r = "r3" THEN "w2" ELSE "w1"]

MCHostOf == [s \in {"x", "y"} |->
                IF s = "x" THEN <<"shop", "org">> ELSE <<"img", "shop", "org">>]
MCElsewhere == <<"bookshop", "org">>
MCRobotPaths == {<<>>, <<"a">>, <<"a", "b">>}
Agent(a) == [key |-> "user-agent", value |-> a]
Rules == [key : {"allow", "disallow"}, value : MCRobotPaths]
MCTexts ==
    [s \in {"x", "y"} |->
        IF s = "x"
        THEN {<<>>} \cup UNION {{<<Agent("*"), r, q>>,
                                 <<Agent("bot"), r, Agent("*"), q>>,
                                 <<Agent("*"), r, Agent("bot")>>,
                                 <<r, Agent("other"), q>>} : r \in Rules, q \in Rules}
        ELSE {<<>>, <<Agent("*"), [key |-> "disallow", value |-> <<"a">>]>>}]

MCSseLines == {[field |-> f, value |-> ""] : f \in {"blank", "comment", "data", "event"}}
              \cup [field : {"data", "event", "id"}, value : {"x"}]
              \cup {[field |-> "id", value |-> "nul"]}
              \cup [field : {"retry"}, value : {"digits", "x"}]
MCSizeOf(l) == IF l.value = "" THEN 0 ELSE 1

Init ==
    /\ focus \in Focuses
    /\ IF focus = "politeness" THEN TRUE
       ELSE text = [s \in Sites |-> <<>>] /\ allowed = {}
    /\ IF focus = "leases" THEN TRUE ELSE backend = CHOOSE b \in Backends : TRUE
    /\ LeasesInit /\ HandoverInit /\ DedupInit /\ SessionStateInit
    /\ MonitoringInit /\ HubStoreInit /\ PolitenessInit /\ EventStreamInit

Next ==
    /\ UNCHANGED focus
    /\ \/ /\ focus = "leases" /\ LeasesNext
          /\ UNCHANGED <<handoverVars, dedupVars, sessionStateVars,
                         monitoringVars, hubStoreVars, politenessVars, eventStreamVars>>
       \/ /\ focus = "handover" /\ HandoverNext
          /\ UNCHANGED <<leasesVars, dedupVars, sessionStateVars,
                         monitoringVars, hubStoreVars, politenessVars,
                         eventStreamVars>>
       \/ /\ focus = "dedup" /\ DedupNext
          /\ UNCHANGED <<leasesVars, handoverVars, sessionStateVars, monitoringVars,
                         hubStoreVars, politenessVars, eventStreamVars>>
       \/ /\ focus = "state" /\ SessionStateNext
          /\ UNCHANGED <<leasesVars, handoverVars, dedupVars, monitoringVars,
                         hubStoreVars, politenessVars, eventStreamVars>>
       \/ /\ focus = "monitoring" /\ MonitoringNext
          /\ UNCHANGED <<leasesVars, handoverVars, dedupVars, sessionStateVars,
                         hubStoreVars, politenessVars, eventStreamVars>>
       \/ /\ focus = "hub" /\ HubStoreNext
          /\ UNCHANGED <<leasesVars, handoverVars, dedupVars, sessionStateVars,
                         monitoringVars, politenessVars, eventStreamVars>>
       \/ /\ focus = "politeness" /\ PolitenessNext
          /\ UNCHANGED <<leasesVars, handoverVars, dedupVars, sessionStateVars,
                         monitoringVars, hubStoreVars, eventStreamVars>>
       \/ /\ focus = "sse" /\ EventStreamNext
          /\ UNCHANGED <<leasesVars, handoverVars, dedupVars, sessionStateVars,
                         monitoringVars, hubStoreVars, politenessVars>>
       \* All but a run under observation may stop anywhere; Monitoring says
       \* itself where a run may.
       \/ /\ focus # "monitoring"
          /\ UNCHANGED <<leasesVars, handoverVars, dedupVars, sessionStateVars,
                         monitoringVars, hubStoreVars, politenessVars,
                         eventStreamVars>>

Spec == Init /\ [][Next]_<<focus, leasesVars, handoverVars, dedupVars, sessionStateVars,
                           monitoringVars, hubStoreVars, politenessVars,
                           eventStreamVars>>

---------------------------------------------------------------------------
\* Delivery: work that left a queue is done, stored or recorded, whichever
\* broker holds it.
DeliveryKept == /\ focus = "leases" => WorkKept
                /\ focus = "handover" => HandoverKept

\* Observation: what the signals and the extension of a run owe it, and what
\* the Hub shows of many runs.
ObservationInv == /\ focus = "monitoring" => MonitoringInv
                  /\ focus = "hub" => HubStoreInv
=============================================================================
