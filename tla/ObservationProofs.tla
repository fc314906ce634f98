-------------------------- MODULE ObservationProofs --------------------------
(***************************************************************************)
(* Proofs about what is observed of a run, for any values of the           *)
(* constants: its signals and its monitoring extension (Signals,           *)
(* Monitoring), and what the Hub shows of many runs (HubStore).            *)
(*                                                                         *)
(* For a stop() that drains the signals the invariant says where each one  *)
(* may be: with a put task, with a waiting sender, in the queue before the *)
(* sentinel, dispatched or overflowed; once the put tasks are gathered the *)
(* sentinel is behind all that was sent before.  Who waits for the lock of *)
(* the extension is a callback that stop() awaits, or the one heartbeat    *)
(* (LineKept), and how far the run is says how far stop() is (StopInRun).  *)
(*                                                                         *)
(* For the Hub each start that a run has sent is counted, under way or     *)
(* lost (StartsCounted), so that no run has more engines than it began; a  *)
(* worker has no more than its runs, as pairs of a run and a number, and   *)
(* the orphans of the evicted ones.                                        *)
(***************************************************************************)
EXTENDS ExchangeProofs

---------------------------------------------------------------------------
(* Monitoring.                                                             *)

InQueue == {signalQueue[k] : k \in 1 .. Len(signalQueue)}

\* Where a signal that was emitted may be.
Everywhere == InReady \cup blocked \cup InQueue \cup dispatched \cup overflowed \cup beforeStop

\* Nothing is emitted before its time.
EmittedInTime ==
    /\ \A e \in Engines : /\ Started(e) \in Everywhere => engine[e] # "new"
                          /\ Stopped(e) \in Everywhere => engine[e] = "over"
    /\ Terminal \in Everywhere => run # "running"

\* A signal is in one place at a time, and dispatched once.
InOnePlace ==
    /\ \A j, k \in 1 .. Len(ready) : ready[j] = ready[k] => j = k
    /\ \A j, k \in 1 .. Len(signalQueue) :
          signalQueue[j] = signalQueue[k] /\ signalQueue[j] # Sentinel => j = k
    /\ InReady \cap blocked = {} /\ InReady \cap InQueue = {} /\ blocked \cap InQueue = {}
    /\ dispatched \cap (InReady \cup blocked \cup InQueue) = {}

\* The extension counts each engine once.
EnginesCounted ==
    activeEngines <= Cardinality({e \in Engines : Started(e) \in dispatched})

\* How far the crawler is says how far stop() is.
StopInRun ==
    /\ run \in {"running", "ending"} => stopping = "no"
    /\ run = "shutdown" => stopping \in {"no", "cancelled"}
    /\ run = "stopping" => stopping \in {"puts", "consumer", "callbacks", "stopped", "raised"}
    /\ run = "closed" => stopping = "stopped"
    /\ run = "aborted" => stopping = "raised"

\* What stop() has reached once it is there.
StopSteps ==
    /\ stopping = "cancelled" => interrupted
    /\ stopping \in {"callbacks", "stopped"} => consumer # "running"
    /\ stopping = "stopped" => callbacks = {}

\* What stop() has still to wait for: the put tasks of signals sent before,
\* then the sentinel behind them.
SignalsAhead ==
    ~interrupted =>
       /\ beforeStop \subseteq dispatched \cup overflowed \cup InReady \cup blocked \cup InQueue
       /\ consumer # "cancelled"
       /\ stopping = "no" => beforeStop \cap direct = {}
       /\ stopping = "puts" => beforeStop \cap (InReady \cup blocked) \subseteq gathered
       /\ stopping \in {"no", "puts"} => consumer = "running" /\ Sentinel \notin InQueue
       /\ stopping \notin {"no", "puts"} => beforeStop \cap (InReady \cup blocked) = {}
       /\ \A j, k \in 1 .. Len(signalQueue) :
             j < k /\ signalQueue[j] = Sentinel => signalQueue[k] \notin beforeStop
       /\ consumer = "done" => beforeStop \cap InQueue = {}

\* Who is in the line is there once, as a callback that runs, or as the
\* heartbeat that publishes.
LineKept ==
    /\ \A j, k \in 1 .. Len(line) : line[j].by = line[k].by => j = k
    /\ \A k \in 1 .. Len(line) :
          IF line[k].by = Heartbeat THEN heartbeat = "publishing"
          ELSE line[k].by \in callbacks \ parked
    /\ parked \subseteq callbacks
    /\ run = "closed" => line = <<>> /\ heartbeat = "none" /\ parked = {}

LineEntries == [by : RunEmissions \cup {Heartbeat}, state : RunStates]
MonitoringTypes ==
    /\ line \in Seq(LineEntries)
    /\ wire \subseteq [seq : 1 .. sequence, state : RunStates]

\* The inductive invariant of the signal manager, and that of the run.
SignalsIInv == SignalsTypeOK /\ InOnePlace /\ SignalsAhead /\ StopSteps

MonitoringIInv ==
    /\ MonitoringTypeOK /\ MonitoringTypes /\ SignalsIInv
    /\ EmittedInTime /\ EnginesCounted /\ StopInRun /\ LineKept

---------------------------------------------------------------------------
(* The signal manager.                                                     *)

ElementsOf(q) == {q[k] : k \in 1 .. Len(q)}

\* A sequence with one more element.
LEMMA Lengthened ==
    ASSUME NEW S, NEW q \in Seq(S), NEW x \in S
    PROVE  /\ Append(q, x) \in Seq(S) /\ Len(q) \in Nat
           /\ Len(Append(q, x)) = Len(q) + 1
           /\ \A k \in 1 .. Len(q) : Append(q, x)[k] = q[k]
           /\ Append(q, x)[Len(q) + 1] = x
           /\ ElementsOf(Append(q, x)) = ElementsOf(q) \cup {x}
<1>1. /\ Append(q, x) \in Seq(S) /\ Len(q) \in Nat
      /\ Len(Append(q, x)) = Len(q) + 1
      /\ \A k \in 1 .. Len(q) : Append(q, x)[k] = q[k]
      /\ Append(q, x)[Len(q) + 1] = x
  OBVIOUS
<1>2. ASSUME NEW y \in ElementsOf(Append(q, x)) PROVE y \in ElementsOf(q) \cup {x}
  <2>1. PICK k \in 1 .. Len(q) + 1 : y = Append(q, x)[k]
    BY <1>1 DEF ElementsOf
  <2>2. CASE k = Len(q) + 1
    BY <1>1, <2>1, <2>2
  <2>3. CASE k \in 1 .. Len(q)
    BY <1>1, <2>1, <2>3 DEF ElementsOf
  <2> QED BY <1>1, <2>1, <2>2, <2>3
<1>3. ASSUME NEW y \in ElementsOf(q) PROVE y \in ElementsOf(Append(q, x))
  <2>1. PICK k \in 1 .. Len(q) : y = q[k]
    BY DEF ElementsOf
  <2>2. k \in 1 .. Len(Append(q, x)) /\ y = Append(q, x)[k]
    BY <1>1, <2>1
  <2> QED BY <2>2 DEF ElementsOf
<1>4. x \in ElementsOf(Append(q, x))
  <2>1. Len(q) + 1 \in 1 .. Len(Append(q, x))
    BY <1>1
  <2> QED BY <1>1, <2>1 DEF ElementsOf
<1> QED BY <1>1, <1>2, <1>3, <1>4

\* A sequence without its first element.
LEMMA Shortened ==
    ASSUME NEW S, NEW q \in Seq(S), q # <<>>
    PROVE  /\ Tail(q) \in Seq(S) /\ Len(q) \in Nat \ {0} /\ Len(Tail(q)) = Len(q) - 1
           /\ \A k \in 1 .. Len(q) - 1 : Tail(q)[k] = q[k + 1]
           /\ Head(q) = q[1] /\ q[1] \in S
           /\ ElementsOf(q) = ElementsOf(Tail(q)) \cup {q[1]}
<1>1. /\ Tail(q) \in Seq(S) /\ Len(q) \in Nat \ {0} /\ Len(Tail(q)) = Len(q) - 1
      /\ \A k \in 1 .. Len(q) - 1 : Tail(q)[k] = q[k + 1]
      /\ Head(q) = q[1] /\ q[1] \in S
  OBVIOUS
<1>2. ASSUME NEW y \in ElementsOf(q) PROVE y \in ElementsOf(Tail(q)) \cup {q[1]}
  <2>1. PICK k \in 1 .. Len(q) : y = q[k]
    BY DEF ElementsOf
  <2>2. CASE k = 1
    BY <2>1, <2>2
  <2>3. CASE k # 1
    <3>1. k - 1 \in 1 .. Len(Tail(q)) /\ Tail(q)[k - 1] = q[k]
      BY <1>1, <2>3
    <3> QED BY <2>1, <3>1 DEF ElementsOf
  <2> QED BY <2>2, <2>3
<1>3. ASSUME NEW y \in ElementsOf(Tail(q)) PROVE y \in ElementsOf(q)
  <2>1. PICK k \in 1 .. Len(Tail(q)) : y = Tail(q)[k]
    BY DEF ElementsOf
  <2>2. k + 1 \in 1 .. Len(q) /\ y = q[k + 1]
    BY <1>1, <2>1
  <2> QED BY <2>2 DEF ElementsOf
<1>4. q[1] \in ElementsOf(q)
  BY <1>1 DEF ElementsOf
<1> QED BY <1>1, <1>2, <1>3, <1>4

\* What is known of the two queues.
LEMMA SignalTypes ==
    ASSUME SignalsTypeOK
    PROVE  /\ InReady = ElementsOf(ready) /\ InQueue = ElementsOf(signalQueue)
           /\ ready \in Seq(Emissions) /\ signalQueue \in Seq(Emissions \cup {Sentinel})
           /\ Len(ready) \in Nat /\ Len(signalQueue) \in Nat
           /\ \A k \in 1 .. Len(ready) : ready[k] \in Emissions /\ ready[k] \in InReady
           /\ \A k \in 1 .. Len(signalQueue) : /\ signalQueue[k] \in Emissions \cup {Sentinel}
                                              /\ signalQueue[k] \in InQueue
           /\ InReady \subseteq Emissions /\ InQueue \subseteq Emissions \cup {Sentinel}
           /\ MaxQueue \in Nat \ {0} /\ Sentinel \notin Emissions
BY SignalsAssumption DEF SignalsTypeOK, InReady, InQueue, ElementsOf

\* Both queues of the next state.
LEMMA QueuesNext ==
    /\ InReady' = ElementsOf(ready') /\ InQueue' = ElementsOf(signalQueue')
BY DEF InReady, InQueue, ElementsOf

\* A signal is sent: its put task is created.
LEMMA SendKeeps ==
    ASSUME SignalsIInv, stopping = "no", NEW s \in Emissions, s \notin Everywhere, Send(s),
           UNCHANGED <<consumer, callbacks, stopping, interrupted, gathered, dispatched, stopEvent>>
    PROVE SignalsIInv' /\ Everywhere' \subseteq Everywhere \cup {s}
<1>1. /\ SignalsTypeOK /\ InOnePlace /\ SignalsAhead /\ StopSteps
      /\ UNCHANGED <<signalQueue, blocked, direct, overflowed>>
      /\ s \notin InReady /\ s \notin blocked /\ s \notin InQueue
      /\ s \notin dispatched /\ s \notin overflowed /\ s \notin beforeStop
  BY DEF SignalsIInv, Send, Everywhere
<1>2. CASE stopEvent
  <2>1. ready' = ready /\ beforeStop' = beforeStop
    BY <1>2 DEF Send
  <2>2. InReady' = InReady /\ InQueue' = InQueue
    BY <1>1, <2>1 DEF InReady, InQueue
  <2>3. Everywhere' = Everywhere
    BY <1>1, <2>1, <2>2 DEF Everywhere
  <2>4. SignalsTypeOK'
    BY <1>1, <2>1 DEF SignalsTypeOK
  <2>5. InOnePlace'
    BY <1>1, <2>1, <2>2 DEF InOnePlace
  <2>6. SignalsAhead'
    BY <1>1, <2>1, <2>2 DEF SignalsAhead
  <2>7. StopSteps'
    BY <1>1 DEF StopSteps
  <2> QED BY <2>3, <2>4, <2>5, <2>6, <2>7 DEF SignalsIInv
<1>3. CASE ~stopEvent
  <2>1. ready' = Append(ready, s) /\ beforeStop' = beforeStop \cup {s}
    BY <1>3 DEF Send, Sent
  <2>2. /\ InReady' = InReady \cup {s} /\ InQueue' = InQueue
        /\ ready' \in Seq(Emissions) /\ Len(ready') = Len(ready) + 1 /\ Len(ready) \in Nat
        /\ \A k \in 1 .. Len(ready) : ready'[k] = ready[k] /\ ready[k] \in InReady
        /\ ready'[Len(ready) + 1] = s
    BY <1>1, <2>1, SignalTypes, QueuesNext, Lengthened
  <2>3. SignalsTypeOK'
    BY <1>1, <2>1, <2>2 DEF SignalsTypeOK
  <2>4. InOnePlace'
    <3>1. ASSUME NEW j \in 1 .. Len(ready'), NEW k \in 1 .. Len(ready'), ready'[j] = ready'[k]
          PROVE j = k
      <4>1. CASE j \in 1 .. Len(ready) /\ k \in 1 .. Len(ready)
        BY <1>1, <2>2, <3>1, <4>1 DEF InOnePlace
      <4>2. CASE j = Len(ready) + 1 \/ k = Len(ready) + 1
        BY <1>1, <2>2, <3>1, <4>2
      <4> QED BY <2>2, <4>1, <4>2
    <3> QED BY <1>1, <2>2, <3>1 DEF InOnePlace
  <2>5. SignalsAhead'
    <3>1. direct \subseteq blocked
      BY <1>1 DEF SignalsTypeOK
    <3>2. \A k \in 1 .. Len(signalQueue) : signalQueue[k] # s
      BY <1>1 DEF InQueue
    <3>3. \A k \in 1 .. Len(signalQueue) : signalQueue'[k] = signalQueue[k]
      BY <1>1
    <3> QED BY <1>1, <2>1, <2>2, <3>1, <3>2, <3>3 DEF SignalsAhead
  <2>6. StopSteps'
    BY <1>1 DEF StopSteps
  <2> QED BY <1>1, <2>1, <2>2, <2>3, <2>4, <2>5, <2>6 DEF SignalsIInv, Everywhere
<1> QED BY <1>2, <1>3

\* A signal is put into the queue: by a put task, or by its sender.
LEMMA QueueGrows ==
    ASSUME SignalsIInv, NEW s \in Emissions,
           s \notin InQueue, s \notin dispatched, ~Full,
           signalQueue' = Append(signalQueue, s),
           ready' \in Seq(Emissions), InReady' \subseteq InReady \ {s},
           \A j, k \in 1 .. Len(ready') : ready'[j] = ready'[k] => j = k,
           InReady \subseteq InReady' \cup {s},
           blocked' = blocked \ {s}, direct' = direct \ {s},
           beforeStop' \in SUBSET Emissions,
           s \notin InReady \/ s \notin blocked,
           \/ beforeStop' = beforeStop /\ (interrupted \/ s \notin beforeStop \/ stopping \in {"no", "puts"})
           \/ stopping = "no" /\ beforeStop' = beforeStop \cup {s},
           UNCHANGED <<overflowed, consumer, callbacks, stopping, interrupted, gathered,
                       stopEvent, dispatched>>
    PROVE SignalsIInv' /\ Everywhere' \subseteq Everywhere \cup {s}
<1>1. /\ SignalsTypeOK /\ InOnePlace /\ SignalsAhead /\ StopSteps /\ s # Sentinel
  BY SignalTypes DEF SignalsIInv
<1>2. /\ InQueue' = InQueue \cup {s}
      /\ signalQueue' \in Seq(Emissions \cup {Sentinel})
      /\ Len(signalQueue') = Len(signalQueue) + 1 /\ Len(signalQueue) \in Nat
      /\ \A k \in 1 .. Len(signalQueue) : /\ signalQueue'[k] = signalQueue[k]
                                         /\ signalQueue[k] \in InQueue
      /\ signalQueue'[Len(signalQueue) + 1] = s
  BY <1>1, SignalTypes, QueuesNext, Lengthened
<1>3. SignalsTypeOK'
  <2>1. Len(signalQueue') <= MaxQueue
    BY <1>1, <1>2, SignalTypes DEF Full
  <2> QED BY <1>1, <1>2, <2>1 DEF SignalsTypeOK
<1>4. InOnePlace'
  <2>1. ASSUME NEW j \in 1 .. Len(signalQueue'), NEW k \in 1 .. Len(signalQueue'),
               signalQueue'[j] = signalQueue'[k], signalQueue'[j] # Sentinel
        PROVE j = k
    <3>1. CASE j \in 1 .. Len(signalQueue) /\ k \in 1 .. Len(signalQueue)
      BY <1>1, <1>2, <2>1, <3>1 DEF InOnePlace
    <3>2. CASE j = Len(signalQueue) + 1 \/ k = Len(signalQueue) + 1
      BY <1>2, <2>1, <3>2
    <3> QED BY <1>2, <3>1, <3>2
  <2>2. /\ InReady' \cap blocked' = {} /\ InReady' \cap InQueue' = {}
        /\ blocked' \cap InQueue' = {}
        /\ dispatched' \cap (InReady' \cup blocked' \cup InQueue') = {}
    BY <1>1, <1>2 DEF InOnePlace
  <2> QED BY <2>1, <2>2 DEF InOnePlace
<1>5. SignalsAhead'
  <2> SUFFICES ASSUME ~interrupted
               PROVE
       /\ beforeStop' \subseteq dispatched' \cup overflowed' \cup InReady' \cup blocked' \cup InQueue'
       /\ consumer' # "cancelled"
       /\ stopping' = "no" => beforeStop' \cap direct' = {}
       /\ stopping' = "puts" => beforeStop' \cap (InReady' \cup blocked') \subseteq gathered'
       /\ stopping' \in {"no", "puts"} => consumer' = "running" /\ Sentinel \notin InQueue'
       /\ stopping' \notin {"no", "puts"} => beforeStop' \cap (InReady' \cup blocked') = {}
       /\ \A j, k \in 1 .. Len(signalQueue') :
             j < k /\ signalQueue'[j] = Sentinel => signalQueue'[k] \notin beforeStop'
       /\ consumer' = "done" => beforeStop' \cap InQueue' = {}
    BY DEF SignalsAhead
  <2>1. /\ beforeStop \subseteq dispatched \cup overflowed \cup InReady \cup blocked \cup InQueue
        /\ consumer # "cancelled"
        /\ stopping = "no" => beforeStop \cap direct = {}
        /\ stopping = "puts" => beforeStop \cap (InReady \cup blocked) \subseteq gathered
        /\ stopping \in {"no", "puts"} => consumer = "running" /\ Sentinel \notin InQueue
        /\ stopping \notin {"no", "puts"} => beforeStop \cap (InReady \cup blocked) = {}
        /\ \A j, k \in 1 .. Len(signalQueue) :
              j < k /\ signalQueue[j] = Sentinel => signalQueue[k] \notin beforeStop
        /\ consumer = "done" => beforeStop \cap InQueue = {}
    BY <1>1 DEF SignalsAhead
  <2>2. ASSUME NEW j \in 1 .. Len(signalQueue'), NEW k \in 1 .. Len(signalQueue'),
               j < k, signalQueue'[j] = Sentinel
        PROVE signalQueue'[k] \notin beforeStop'
    <3>1. j \in 1 .. Len(signalQueue) /\ signalQueue[j] = Sentinel
      BY <1>2, <2>2
    <3>2. Sentinel \in InQueue /\ stopping \notin {"no", "puts"}
      BY <1>2, <2>1, <3>1
    <3>3. beforeStop' = beforeStop /\ s \notin beforeStop
      BY <3>2
    <3>4. CASE k \in 1 .. Len(signalQueue)
      BY <1>2, <2>1, <2>2, <3>1, <3>3, <3>4
    <3>5. CASE k = Len(signalQueue) + 1
      BY <1>2, <3>3, <3>5
    <3> QED BY <1>2, <3>4, <3>5
  <2>3. consumer' = "done" => beforeStop' \cap InQueue' = {}
    BY <1>2, <2>1
  <2>4. /\ beforeStop' \subseteq dispatched' \cup overflowed' \cup InReady' \cup blocked' \cup InQueue'
        /\ stopping' = "no" => beforeStop' \cap direct' = {}
        /\ stopping' = "puts" => beforeStop' \cap (InReady' \cup blocked') \subseteq gathered'
        /\ stopping' \in {"no", "puts"} => consumer' = "running" /\ Sentinel \notin InQueue'
        /\ stopping' \notin {"no", "puts"} => beforeStop' \cap (InReady' \cup blocked') = {}
    BY <1>1, <1>2, <2>1
  <2> QED BY <2>1, <2>2, <2>3, <2>4
<1>6. StopSteps'
  BY <1>1 DEF StopSteps
<1>7. Everywhere' \subseteq Everywhere \cup {s}
  BY <1>2 DEF Everywhere
<1> QED BY <1>3, <1>4, <1>5, <1>6, <1>7 DEF SignalsIInv

\* The engine or the crawler puts a signal itself.
LEMMA SafePutKeeps ==
    ASSUME SignalsIInv, NEW s \in Emissions, s \notin Everywhere, SafePut(s),
           UNCHANGED <<consumer, callbacks, stopping, interrupted, gathered, dispatched, stopEvent>>
    PROVE SignalsIInv' /\ Everywhere' \subseteq Everywhere \cup {s}
<1>1. /\ SignalsTypeOK /\ InOnePlace /\ SignalsAhead /\ StopSteps
      /\ UNCHANGED <<ready, overflowed>>
      /\ s \notin InReady /\ s \notin blocked /\ s \notin InQueue
      /\ s \notin dispatched /\ s \notin overflowed /\ s \notin beforeStop
  BY DEF SignalsIInv, SafePut, Everywhere
<1>2. CASE Full
  <2>1. /\ blocked' = blocked \cup {s} /\ direct' = direct \cup {s}
        /\ UNCHANGED <<signalQueue, beforeStop>>
    BY <1>2 DEF SafePut
  <2>2. InReady' = InReady /\ InQueue' = InQueue
    BY <1>1, <2>1 DEF InReady, InQueue
  <2>3. SignalsTypeOK'
    BY <1>1, <2>1 DEF SignalsTypeOK
  <2>4. InOnePlace'
    BY <1>1, <2>1, <2>2 DEF InOnePlace
  <2>5. SignalsAhead'
    BY <1>1, <2>1, <2>2 DEF SignalsAhead
  <2>6. StopSteps'
    BY <1>1 DEF StopSteps
  <2> QED BY <1>1, <2>1, <2>2, <2>3, <2>4, <2>5, <2>6 DEF SignalsIInv, Everywhere
<1>3. CASE ~Full
  <2>1. /\ signalQueue' = Append(signalQueue, s)
        /\ beforeStop' = IF stopping = "no" THEN beforeStop \cup {s} ELSE beforeStop
        /\ blocked' = blocked /\ direct' = direct
    BY <1>3 DEF SafePut, Sent
  <2>2. /\ ready' \in Seq(Emissions) /\ InReady' = InReady
        /\ \A j, k \in 1 .. Len(ready') : ready'[j] = ready'[k] => j = k
        /\ blocked' = blocked \ {s} /\ direct' = direct \ {s}
        /\ beforeStop' \in SUBSET Emissions
    BY <1>1, <2>1 DEF InReady, SignalsTypeOK, InOnePlace
  <2>3. /\ InReady' \subseteq InReady \ {s} /\ InReady \subseteq InReady' \cup {s}
    BY <1>1, <2>2
  <2> QED BY <1>1, <1>3, <2>1, <2>2, <2>3, QueueGrows
<1> QED BY <1>2, <1>3

\* A put task runs.
LEMMA RunPutKeeps ==
    ASSUME SignalsIInv, RunPut
    PROVE SignalsIInv' /\ Everywhere' \subseteq Everywhere
<1> DEFINE s == ready[1]
<1>1. /\ SignalsTypeOK /\ InOnePlace /\ SignalsAhead /\ StopSteps
      /\ ready # <<>> /\ ready' = Tail(ready)
      /\ UNCHANGED <<direct, overflowed, consumer, callbacks, stopping, interrupted, gathered,
                     stopEvent, beforeStop, dispatched>>
  BY DEF SignalsIInv, RunPut
<1>2. /\ ready' \in Seq(Emissions) /\ Len(ready) \in Nat \ {0} /\ Len(ready') = Len(ready) - 1
      /\ \A k \in 1 .. Len(ready) - 1 : ready'[k] = ready[k + 1]
      /\ Head(ready) = s /\ s \in Emissions
      /\ InReady = InReady' \cup {s}
  BY <1>1, SignalTypes, QueuesNext, Shortened
<1>3. \A j, k \in 1 .. Len(ready') : ready'[j] = ready'[k] => j = k
  <2> SUFFICES ASSUME NEW j \in 1 .. Len(ready'), NEW k \in 1 .. Len(ready'),
                      ready'[j] = ready'[k]
               PROVE j = k
    OBVIOUS
  <2>1. ready[j + 1] = ready[k + 1] /\ j + 1 \in 1 .. Len(ready) /\ k + 1 \in 1 .. Len(ready)
    BY <1>2
  <2>2. j + 1 = k + 1
    BY <1>1, <2>1 DEF InOnePlace
  <2> QED BY <1>2, <2>2
<1>4. s \notin InReady'
  <2> SUFFICES ASSUME NEW k \in 1 .. Len(ready'), ready'[k] = s PROVE FALSE
    BY DEF InReady
  <2>1. ready[k + 1] = ready[1] /\ k + 1 \in 1 .. Len(ready) /\ 1 \in 1 .. Len(ready)
    BY <1>2
  <2>2. k + 1 = 1
    BY <1>1, <2>1 DEF InOnePlace
  <2> QED BY <1>2, <2>2
<1>5. s \in InReady /\ s \notin blocked /\ s \notin InQueue /\ s \notin dispatched
  BY <1>1, <1>2 DEF InOnePlace
<1>6. CASE Full
  <2>1. blocked' = blocked \cup {s} /\ signalQueue' = signalQueue
    BY <1>2, <1>6 DEF RunPut
  <2>2. InQueue' = InQueue
    BY <2>1 DEF InQueue
  <2>3. SignalsTypeOK'
    BY <1>1, <1>2, <2>1 DEF SignalsTypeOK
  <2>4. InOnePlace'
    BY <1>1, <1>2, <1>3, <1>4, <1>5, <2>1, <2>2 DEF InOnePlace
  <2>5. SignalsAhead'
    BY <1>1, <1>2, <1>5, <2>1, <2>2 DEF SignalsAhead
  <2>6. StopSteps'
    BY <1>1 DEF StopSteps
  <2> QED BY <1>1, <1>2, <2>1, <2>2, <2>3, <2>4, <2>5, <2>6 DEF SignalsIInv, Everywhere
<1>7. CASE ~Full
  <2>1. signalQueue' = Append(signalQueue, s) /\ blocked' = blocked
    BY <1>2, <1>7 DEF RunPut
  <2>2. blocked' = blocked \ {s} /\ direct' = direct \ {s} /\ beforeStop' \in SUBSET Emissions
    BY <1>1, <1>5, <2>1 DEF SignalsTypeOK
  <2>3. interrupted \/ s \notin beforeStop \/ stopping \in {"no", "puts"}
    BY <1>1, <1>5 DEF SignalsAhead
  <2>4. SignalsIInv' /\ Everywhere' \subseteq Everywhere \cup {s}
    BY <1>1, <1>2, <1>3, <1>4, <1>5, <1>7, <2>1, <2>2, <2>3, QueueGrows
  <2> QED BY <1>5, <2>4 DEF Everywhere
<1> QED BY <1>6, <1>7

\* A waiting put finds room.
LEMMA PutWaitingKeeps ==
    ASSUME SignalsIInv, NEW s \in Emissions, PutWaiting(s)
    PROVE SignalsIInv' /\ Everywhere' \subseteq Everywhere
<1>1. /\ SignalsTypeOK /\ InOnePlace /\ SignalsAhead
      /\ s \in blocked /\ ~Full /\ signalQueue' = Append(signalQueue, s)
      /\ blocked' = blocked \ {s} /\ direct' = direct \ {s}
      /\ UNCHANGED <<ready, overflowed, consumer, callbacks, stopping, interrupted, gathered,
                     stopEvent, beforeStop, dispatched>>
  BY DEF SignalsIInv, PutWaiting
<1>2. s \notin InReady /\ s \notin InQueue /\ s \notin dispatched
  BY <1>1 DEF InOnePlace
<1>3. /\ ready' \in Seq(Emissions) /\ InReady' = InReady /\ beforeStop' \in SUBSET Emissions
      /\ \A j, k \in 1 .. Len(ready') : ready'[j] = ready'[k] => j = k
  BY <1>1 DEF InReady, SignalsTypeOK, InOnePlace
<1>4. interrupted \/ s \notin beforeStop \/ stopping \in {"no", "puts"}
  BY <1>1 DEF SignalsAhead
<1>5. InReady' \subseteq InReady \ {s} /\ InReady \subseteq InReady' \cup {s}
  BY <1>2, <1>3
<1>6. SignalsIInv' /\ Everywhere' \subseteq Everywhere \cup {s}
  BY <1>1, <1>2, <1>3, <1>4, <1>5, QueueGrows
<1> QED BY <1>1, <1>6 DEF Everywhere

\* A waiting put gives up.
LEMMA PutTimesOutKeeps ==
    ASSUME SignalsIInv, NEW s \in Emissions, PutTimesOut(s)
    PROVE SignalsIInv' /\ Everywhere' \subseteq Everywhere
<1>1. /\ SignalsTypeOK /\ InOnePlace /\ SignalsAhead /\ StopSteps
      /\ s \in blocked /\ blocked' = blocked \ {s} /\ direct' = direct \ {s}
      /\ overflowed' = overflowed \cup {s}
      /\ UNCHANGED <<signalQueue, ready, consumer, callbacks, stopping, interrupted, gathered,
                     stopEvent, beforeStop, dispatched>>
  BY DEF SignalsIInv, PutTimesOut
<1>2. InReady' = InReady /\ InQueue' = InQueue
  BY <1>1 DEF InReady, InQueue
<1>3. SignalsTypeOK'
  BY <1>1 DEF SignalsTypeOK
<1>4. InOnePlace'
  BY <1>1, <1>2 DEF InOnePlace
<1>5. SignalsAhead'
  BY <1>1, <1>2 DEF SignalsAhead
<1>6. StopSteps'
  BY <1>1 DEF StopSteps
<1> QED BY <1>1, <1>2, <1>3, <1>4, <1>5, <1>6 DEF SignalsIInv, Everywhere

\* What the first signal of the queue is to the rest of it.
LEMMA QueueShrinks ==
    ASSUME SignalsIInv, signalQueue # <<>>, signalQueue' = Tail(signalQueue)
    PROVE  /\ signalQueue' \in Seq(Emissions \cup {Sentinel}) /\ Len(signalQueue') <= MaxQueue
           /\ Head(signalQueue) = signalQueue[1]
           /\ InQueue = InQueue' \cup {signalQueue[1]}
           /\ signalQueue[1] # Sentinel => signalQueue[1] \notin InQueue'
           /\ \A j, k \in 1 .. Len(signalQueue') :
                 signalQueue'[j] = signalQueue'[k] /\ signalQueue'[j] # Sentinel => j = k
           /\ \A b : (\A j, k \in 1 .. Len(signalQueue) :
                         j < k /\ signalQueue[j] = Sentinel => signalQueue[k] \notin b)
                  => (\A j, k \in 1 .. Len(signalQueue') :
                         j < k /\ signalQueue'[j] = Sentinel => signalQueue'[k] \notin b)
           /\ \A b : (\A j, k \in 1 .. Len(signalQueue) :
                         j < k /\ signalQueue[j] = Sentinel => signalQueue[k] \notin b)
                     /\ signalQueue[1] = Sentinel
                  => b \cap InQueue' = {}
<1>1. /\ SignalsTypeOK /\ InOnePlace
  BY DEF SignalsIInv
<1>2. /\ signalQueue' \in Seq(Emissions \cup {Sentinel})
      /\ Len(signalQueue) \in Nat \ {0} /\ Len(signalQueue') = Len(signalQueue) - 1
      /\ \A k \in 1 .. Len(signalQueue) - 1 : signalQueue'[k] = signalQueue[k + 1]
      /\ Head(signalQueue) = signalQueue[1]
      /\ InQueue = InQueue' \cup {signalQueue[1]}
  BY <1>1, SignalTypes, QueuesNext, Shortened
<1>3. Len(signalQueue') <= MaxQueue
  BY <1>1, <1>2, SignalTypes DEF SignalsTypeOK
<1>4. ASSUME NEW j \in 1 .. Len(signalQueue'), NEW k \in 1 .. Len(signalQueue'),
             signalQueue'[j] = signalQueue'[k], signalQueue'[j] # Sentinel
      PROVE j = k
  <2>1. /\ signalQueue[j + 1] = signalQueue[k + 1] /\ signalQueue[j + 1] # Sentinel
        /\ j + 1 \in 1 .. Len(signalQueue) /\ k + 1 \in 1 .. Len(signalQueue)
    BY <1>2, <1>4
  <2>2. j + 1 = k + 1
    BY <1>1, <2>1 DEF InOnePlace
  <2> QED BY <1>2, <2>2
<1>5. ASSUME signalQueue[1] # Sentinel, signalQueue[1] \in InQueue' PROVE FALSE
  <2>1. PICK k \in 1 .. Len(signalQueue') : signalQueue'[k] = signalQueue[1]
    BY <1>5 DEF InQueue
  <2>2. /\ signalQueue[k + 1] = signalQueue[1]
        /\ k + 1 \in 1 .. Len(signalQueue) /\ 1 \in 1 .. Len(signalQueue)
    BY <1>2, <2>1
  <2>3. k + 1 = 1
    BY <1>1, <1>5, <2>2 DEF InOnePlace
  <2> QED BY <1>2, <2>3
<1>6. ASSUME NEW b, \A j, k \in 1 .. Len(signalQueue) :
                       j < k /\ signalQueue[j] = Sentinel => signalQueue[k] \notin b,
             NEW j \in 1 .. Len(signalQueue'), NEW k \in 1 .. Len(signalQueue'),
             j < k, signalQueue'[j] = Sentinel
      PROVE signalQueue'[k] \notin b
  <2>1. /\ j + 1 \in 1 .. Len(signalQueue) /\ k + 1 \in 1 .. Len(signalQueue) /\ j + 1 < k + 1
        /\ signalQueue[j + 1] = Sentinel /\ signalQueue'[k] = signalQueue[k + 1]
    BY <1>2, <1>6
  <2> QED BY <1>6, <2>1
<1>7. ASSUME NEW b, \A j, k \in 1 .. Len(signalQueue) :
                       j < k /\ signalQueue[j] = Sentinel => signalQueue[k] \notin b,
             signalQueue[1] = Sentinel, NEW x \in InQueue', x \in b
      PROVE FALSE
  <2>1. PICK k \in 1 .. Len(signalQueue') : signalQueue'[k] = x
    BY DEF InQueue
  <2>2. /\ 1 \in 1 .. Len(signalQueue) /\ k + 1 \in 1 .. Len(signalQueue) /\ 1 < k + 1
        /\ x = signalQueue[k + 1]
    BY <1>2, <2>1
  <2> QED BY <1>7, <2>2
<1> QED BY <1>2, <1>3, <1>4, <1>5, <1>6, <1>7

\* A signal is dispatched.
LEMMA DispatchKeeps ==
    ASSUME SignalsIInv, NEW s \in Emissions, Dispatch(s)
    PROVE  /\ SignalsIInv' /\ Everywhere' \subseteq Everywhere
           /\ s \in Everywhere /\ s \notin dispatched
<1>1. /\ SignalsTypeOK /\ InOnePlace /\ SignalsAhead /\ StopSteps
      /\ consumer = "running" /\ signalQueue # <<>> /\ Head(signalQueue) = s
      /\ signalQueue' = Tail(signalQueue)
      /\ dispatched' = dispatched \cup {s} /\ callbacks' = callbacks \cup {s}
      /\ UNCHANGED <<ready, blocked, direct, overflowed, consumer, stopping,
                     interrupted, gathered, stopEvent, beforeStop>>
  BY DEF SignalsIInv, Dispatch
<1>2. /\ signalQueue' \in Seq(Emissions \cup {Sentinel}) /\ Len(signalQueue') <= MaxQueue
      /\ signalQueue[1] = s /\ s # Sentinel
      /\ InQueue = InQueue' \cup {s} /\ s \notin InQueue'
      /\ \A j, k \in 1 .. Len(signalQueue') :
            signalQueue'[j] = signalQueue'[k] /\ signalQueue'[j] # Sentinel => j = k
      /\ InReady' = InReady
  BY <1>1, SignalTypes, QueueShrinks DEF InReady
<1>3. (\A j, k \in 1 .. Len(signalQueue) :
           j < k /\ signalQueue[j] = Sentinel => signalQueue[k] \notin beforeStop)
        => (\A j, k \in 1 .. Len(signalQueue') :
           j < k /\ signalQueue'[j] = Sentinel => signalQueue'[k] \notin beforeStop)
  BY <1>1, QueueShrinks
<1>4. SignalsTypeOK'
  BY <1>1, <1>2 DEF SignalsTypeOK
<1>5. InOnePlace'
  BY <1>1, <1>2 DEF InOnePlace
<1>6. SignalsAhead'
  BY <1>1, <1>2, <1>3 DEF SignalsAhead
<1>7. StopSteps'
  BY <1>1 DEF StopSteps
<1>8. s \in Everywhere /\ s \notin dispatched
  BY <1>1, <1>2 DEF Everywhere, InOnePlace
<1> QED BY <1>1, <1>2, <1>4, <1>5, <1>6, <1>7, <1>8 DEF SignalsIInv, Everywhere

\* The consumer takes the sentinel and ends.
LEMMA ConsumeSentinelKeeps ==
    ASSUME SignalsIInv, ConsumeSentinel
    PROVE SignalsIInv' /\ Everywhere' \subseteq Everywhere
<1>1. /\ SignalsTypeOK /\ InOnePlace /\ SignalsAhead /\ StopSteps
      /\ consumer = "running" /\ signalQueue # <<>> /\ Head(signalQueue) = Sentinel
      /\ signalQueue' = Tail(signalQueue) /\ consumer' = "done"
      /\ UNCHANGED <<ready, blocked, direct, overflowed, callbacks, stopping,
                     interrupted, gathered, stopEvent, beforeStop, dispatched>>
  BY DEF SignalsIInv, ConsumeSentinel
<1>2. /\ signalQueue' \in Seq(Emissions \cup {Sentinel}) /\ Len(signalQueue') <= MaxQueue
      /\ signalQueue[1] = Sentinel /\ InQueue = InQueue' \cup {Sentinel}
      /\ \A j, k \in 1 .. Len(signalQueue') :
            signalQueue'[j] = signalQueue'[k] /\ signalQueue'[j] # Sentinel => j = k
      /\ InReady' = InReady
  BY <1>1, QueueShrinks DEF InReady
<1>3. ~interrupted => /\ \A j, k \in 1 .. Len(signalQueue') :
                            j < k /\ signalQueue'[j] = Sentinel => signalQueue'[k] \notin beforeStop
                      /\ beforeStop \cap InQueue' = {}
  BY <1>1, <1>2, QueueShrinks DEF SignalsAhead
<1>4. SignalsTypeOK'
  BY <1>1, <1>2 DEF SignalsTypeOK
<1>5. InOnePlace'
  BY <1>1, <1>2 DEF InOnePlace
<1>6. SignalsAhead'
  <2>1. Sentinel \notin beforeStop
    BY <1>1, SignalTypes DEF SignalsTypeOK
  <2> QED BY <1>1, <1>2, <1>3, <2>1 DEF SignalsAhead
<1>7. StopSteps'
  BY <1>1 DEF StopSteps
<1> QED BY <1>1, <1>2, <1>4, <1>5, <1>6, <1>7 DEF SignalsIInv, Everywhere

\* stop() is called.
LEMMA StopKeeps ==
    ASSUME SignalsIInv, Stop
    PROVE SignalsIInv' /\ Everywhere' = Everywhere
<1>1. /\ SignalsTypeOK /\ InOnePlace /\ SignalsAhead /\ StopSteps
      /\ stopping \in {"no", "cancelled"} /\ stopping' = "puts"
      /\ gathered' = InReady \cup (blocked \ direct)
      /\ UNCHANGED <<signalQueue, ready, blocked, direct, overflowed, consumer, callbacks,
                     interrupted, stopEvent, beforeStop, dispatched>>
  BY DEF SignalsIInv, Stop, putState
<1>2. InReady' = InReady /\ InQueue' = InQueue /\ InReady \subseteq Emissions
  BY <1>1, SignalTypes DEF InReady, InQueue
<1>3. SignalsTypeOK'
  BY <1>1, <1>2 DEF SignalsTypeOK
<1>4. InOnePlace' /\ StopSteps'
  BY <1>1, <1>2 DEF InOnePlace, StopSteps
<1>5. SignalsAhead'
  BY <1>1, <1>2 DEF SignalsAhead, StopSteps
<1> QED BY <1>1, <1>2, <1>3, <1>4, <1>5 DEF SignalsIInv, Everywhere

\* The steps of stop() after its first.
LEMMA StopStepKeeps ==
    ASSUME SignalsIInv, StopStep
    PROVE SignalsIInv' /\ Everywhere' \subseteq Everywhere \cup {Sentinel}
<1>1. /\ SignalsTypeOK /\ InOnePlace /\ SignalsAhead /\ StopSteps
      /\ UNCHANGED <<ready, blocked, direct, overflowed, consumer, callbacks,
                     interrupted, gathered, stopEvent, beforeStop, dispatched>>
      /\ InReady' = InReady
  BY DEF SignalsIInv, StopStep, StopSentinel, StopConsumer, StopCallbacks, StopFrame, InReady
<1>2. CASE StopSentinel
  <2>1. /\ stopping = "puts" /\ gathered \cap (InReady \cup blocked) = {}
        /\ stopping' = "consumer"
    BY <1>2 DEF StopSentinel
  <2>2. CASE consumer # "running"
    <3>1. signalQueue' = signalQueue
      BY <1>2, <2>2 DEF StopSentinel
    <3>2. InQueue' = InQueue
      BY <3>1 DEF InQueue
    <3>3. SignalsTypeOK'
      BY <1>1, <2>1, <3>1 DEF SignalsTypeOK
    <3>4. InOnePlace' /\ StopSteps'
      BY <1>1, <2>1, <3>1, <3>2 DEF InOnePlace, StopSteps
    <3>5. SignalsAhead'
      BY <1>1, <2>1, <2>2, <3>1, <3>2 DEF SignalsAhead
    <3> QED BY <1>1, <3>2, <3>3, <3>4, <3>5 DEF SignalsIInv, Everywhere
  <2>3. CASE consumer = "running"
    <3>1. ~Full /\ signalQueue' = Append(signalQueue, Sentinel)
      BY <1>2, <2>3 DEF StopSentinel
    <3>2. /\ InQueue' = InQueue \cup {Sentinel}
          /\ signalQueue' \in Seq(Emissions \cup {Sentinel})
          /\ Len(signalQueue') = Len(signalQueue) + 1 /\ Len(signalQueue) \in Nat
          /\ \A k \in 1 .. Len(signalQueue) : /\ signalQueue'[k] = signalQueue[k]
                                             /\ signalQueue[k] \in InQueue
          /\ signalQueue'[Len(signalQueue) + 1] = Sentinel
          /\ Sentinel \notin Emissions /\ MaxQueue \in Nat
          /\ InReady \subseteq Emissions
      BY <1>1, <3>1, SignalTypes, QueuesNext, Lengthened
    <3>3. SignalsTypeOK'
      <4>1. Len(signalQueue') <= MaxQueue
        BY <1>1, <3>1, <3>2 DEF Full, SignalsTypeOK
      <4> QED BY <1>1, <2>1, <3>2, <4>1 DEF SignalsTypeOK
    <3>4. InOnePlace'
      <4>1. ASSUME NEW j \in 1 .. Len(signalQueue'), NEW k \in 1 .. Len(signalQueue'),
                   signalQueue'[j] = signalQueue'[k], signalQueue'[j] # Sentinel
            PROVE j = k
        <5>1. j \in 1 .. Len(signalQueue) /\ k \in 1 .. Len(signalQueue)
          BY <3>2, <4>1
        <5> QED BY <1>1, <3>2, <4>1, <5>1 DEF InOnePlace
      <4>2. blocked \subseteq Emissions /\ dispatched \subseteq Emissions
        BY <1>1 DEF SignalsTypeOK
      <4> QED BY <1>1, <3>2, <4>1, <4>2 DEF InOnePlace
    <3>5. SignalsAhead'
      <4> SUFFICES ASSUME ~interrupted PROVE SignalsAhead'
        BY <1>1 DEF SignalsAhead
      <4>1. /\ beforeStop \cap (InReady \cup blocked) = {} /\ Sentinel \notin InQueue
            /\ Sentinel \notin beforeStop
        BY <1>1, <2>1, <3>2 DEF SignalsAhead, SignalsTypeOK
      <4>2. ASSUME NEW j \in 1 .. Len(signalQueue'), NEW k \in 1 .. Len(signalQueue'),
                   j < k, signalQueue'[j] = Sentinel
            PROVE signalQueue'[k] \notin beforeStop
        <5>1. j \in 1 .. Len(signalQueue)
          BY <3>2, <4>2
        <5> QED BY <3>2, <4>1, <4>2, <5>1
      <4> QED BY <1>1, <2>1, <2>3, <3>2, <4>1, <4>2 DEF SignalsAhead
    <3>6. StopSteps'
      BY <1>1, <2>1 DEF StopSteps
    <3> QED BY <1>1, <3>2, <3>3, <3>4, <3>5, <3>6 DEF SignalsIInv, Everywhere
  <2> QED BY <2>2, <2>3
<1>3. CASE StopConsumer \/ StopCallbacks
  <2>1. /\ signalQueue' = signalQueue
        /\ \/ /\ stopping = "consumer" /\ consumer # "running"
              /\ stopping' = IF consumer = "done" THEN "callbacks" ELSE "raised"
           \/ stopping = "callbacks" /\ callbacks = {} /\ stopping' = "stopped"
    BY <1>3 DEF StopConsumer, StopCallbacks
  <2>2. InQueue' = InQueue
    BY <2>1 DEF InQueue
  <2>3. SignalsTypeOK'
    BY <1>1, <2>1 DEF SignalsTypeOK
  <2>4. InOnePlace' /\ StopSteps'
    BY <1>1, <2>1, <2>2 DEF InOnePlace, StopSteps
  <2>5. SignalsAhead'
    BY <1>1, <2>1, <2>2 DEF SignalsAhead
  <2> QED BY <1>1, <2>2, <2>3, <2>4, <2>5 DEF SignalsIInv, Everywhere
<1> QED BY <1>2, <1>3 DEF StopStep

\* stop() is cancelled.
LEMMA StopCancelledKeeps ==
    ASSUME SignalsIInv, StopCancelled
    PROVE SignalsIInv' /\ Everywhere' \subseteq Everywhere
<1>1. /\ SignalsTypeOK /\ InOnePlace /\ StopSteps
      /\ stopping \in {"puts", "consumer", "callbacks"} /\ interrupted' = TRUE
      /\ stopping' = "cancelled"
      /\ consumer' \in {"cancelled", consumer} /\ callbacks' \subseteq callbacks
      /\ ready' \in {ready, <<>>} /\ blocked' \in {blocked, direct}
      /\ UNCHANGED <<signalQueue, direct, overflowed, gathered, stopEvent, beforeStop,
                     dispatched>>
  BY DEF SignalsIInv, StopCancelled
<1>2. InReady' \subseteq InReady /\ InQueue' = InQueue
  BY <1>1 DEF InReady, InQueue
<1>3. direct \subseteq blocked /\ blocked' \subseteq blocked
  BY <1>1 DEF SignalsTypeOK
<1>4. SignalsTypeOK'
  <2>1. ready' \in Seq(Emissions)
    <3>1. <<>> \in Seq(Emissions) /\ ready \in Seq(Emissions)
      BY <1>1 DEF SignalsTypeOK
    <3> QED BY <1>1, <3>1
  <2>2. direct \subseteq blocked' /\ blocked' \subseteq Emissions
    BY <1>1, <1>3 DEF SignalsTypeOK
  <2>3. consumer' \in {"running", "done", "cancelled"}
    BY <1>1 DEF SignalsTypeOK
  <2> QED BY <1>1, <2>1, <2>2, <2>3 DEF SignalsTypeOK
<1>5. InOnePlace'
  BY <1>1, <1>2, <1>3 DEF InOnePlace
<1>6. StopSteps' /\ SignalsAhead'
  BY <1>1 DEF StopSteps, SignalsAhead
<1> QED BY <1>1, <1>2, <1>3, <1>4, <1>5, <1>6 DEF SignalsIInv, Everywhere

\* Callbacks end, and the stop event is set.
LEMMA CallbacksEndKeeps ==
    ASSUME SignalsIInv, callbacks' \subseteq callbacks, stopEvent' \in BOOLEAN,
           UNCHANGED <<signalQueue, ready, blocked, direct, overflowed, consumer, stopping,
                       interrupted, gathered, beforeStop, dispatched>>
    PROVE SignalsIInv' /\ Everywhere' = Everywhere
<1>1. InReady' = InReady /\ InQueue' = InQueue
  BY DEF InReady, InQueue
<1>2. SignalsTypeOK' /\ StopSteps'
  BY DEF SignalsIInv, SignalsTypeOK, StopSteps
<1>3. InOnePlace' /\ SignalsAhead'
  BY <1>1 DEF SignalsIInv, InOnePlace, SignalsAhead
<1> QED BY <1>1, <1>2, <1>3 DEF SignalsIInv, Everywhere

---------------------------------------------------------------------------
(* The run and its extension.                                              *)

\* The signals of a run are all different, and no signal is the heartbeat.
LEMMA SignalNames ==
    /\ Emissions = RunEmissions /\ Heartbeat \notin Emissions /\ Sentinel \notin Emissions
    /\ Terminal \in Emissions /\ Terminal[1] = "run"
    /\ \A e \in Engines : /\ Started(e) \in Emissions /\ Stopped(e) \in Emissions
                          /\ Started(e)[1] = "engine_started" /\ Stopped(e)[1] = "engine_stopped"
                          /\ Started(e) # Terminal /\ Stopped(e) # Terminal
    /\ \A e, f \in Engines : /\ Started(e) # Stopped(f)
                             /\ Started(e) = Started(f) => e = f
                             /\ Stopped(e) = Stopped(f) => e = f
    /\ \A s \in Emissions : \/ s = Terminal
                            \/ \E e \in Engines : s = Started(e)
                            \/ \E e \in Engines : s = Stopped(e)
<1>1. Emissions = RunEmissions /\ Sentinel \notin Emissions
  BY MonitoringAssumption, SignalsAssumption
<1>2. /\ Heartbeat[1] = "heartbeat" /\ Terminal[1] = "run"
      /\ \A e : Started(e)[1] = "engine_started" /\ Started(e)[2] = e
      /\ \A e : Stopped(e)[1] = "engine_stopped" /\ Stopped(e)[2] = e
  BY DEF Heartbeat, Terminal, Started, Stopped
<1>3. \A s \in Emissions : \/ s = Terminal
                           \/ \E e \in Engines : s = Started(e)
                           \/ \E e \in Engines : s = Stopped(e)
  BY <1>1 DEF RunEmissions
<1>4. Heartbeat \notin Emissions
  BY <1>2, <1>3
<1>5. \A e, f \in Engines : /\ Started(e) # Stopped(f)
                            /\ Started(e) = Started(f) => e = f
                            /\ Stopped(e) = Stopped(f) => e = f
  BY <1>2
<1>6. \A e \in Engines : Started(e) # Terminal /\ Stopped(e) # Terminal
  BY <1>2
<1>7. /\ Terminal \in Emissions
      /\ \A e \in Engines : Started(e) \in Emissions /\ Stopped(e) \in Emissions
  BY <1>1 DEF RunEmissions
<1> QED BY <1>1, <1>2, <1>3, <1>4, <1>5, <1>6, <1>7

\* The parts of the invariant.
LEMMA MonitoringParts ==
    ASSUME MonitoringIInv
    PROVE  /\ SignalsIInv /\ SignalsTypeOK /\ EmittedInTime /\ EnginesCounted /\ StopInRun
           /\ LineKept /\ MonitoringTypes
           /\ engine \in [Engines -> {"new", "running", "over", "failed"}]
           /\ run \in {"running", "ending", "shutdown", "stopping", "closed", "aborted"}
           /\ runOutcome \in RunStates /\ activeEngines \in 0 .. Cardinality(Engines)
           /\ heartbeat \in {"none", "sleeping", "publishing"} /\ beats \in 0 .. MaxBeats
           /\ parked \subseteq RunEmissions /\ sequence \in Nat
           /\ hub \in [seq : 0 .. sequence, state : RunStates]
           /\ callbacks \subseteq dispatched /\ dispatched \subseteq Emissions
           /\ StopSteps /\ Sentinel \notin Emissions
BY SignalTypes DEF MonitoringIInv, MonitoringTypeOK, SignalsIInv, SignalsTypeOK

\* The members of a sequence.
LEMMA MemberIn == ASSUME NEW S, NEW q \in Seq(S), NEW k \in 1 .. Len(q) PROVE q[k] \in S
OBVIOUS

\* A step of the run that leaves the extension alone.
LEMMA RunStepKeeps ==
    ASSUME MonitoringIInv, SignalsIInv', EmittedInTime', StopInRun',
           UNCHANGED <<extensionVars, callbacks, dispatched>>,
           engine' \in [Engines -> {"new", "running", "over", "failed"}],
           run' \in {"running", "ending", "shutdown", "stopping", "closed", "aborted"},
           runOutcome' \in RunStates, run' = "closed" => run = "closed"
    PROVE MonitoringIInv'
<1>1. /\ SignalsTypeOK' /\ MonitoringTypes' /\ LineKept' /\ EnginesCounted'
  BY MonitoringParts DEF extensionVars, SignalsIInv, MonitoringTypes, LineKept, EnginesCounted
<1>2. MonitoringTypeOK'
  BY <1>1, MonitoringParts DEF extensionVars, MonitoringIInv, MonitoringTypeOK
<1> QED BY <1>1, <1>2 DEF MonitoringIInv

\* A step of the extension that leaves the run alone.
LEMMA ExtensionStepKeeps ==
    ASSUME MonitoringIInv, SignalsIInv', MonitoringTypes', EnginesCounted', LineKept',
           UNCHANGED <<engine, run, runOutcome, stopping>>, Everywhere' \subseteq Everywhere,
           activeEngines' \in 0 .. Cardinality(Engines),
           heartbeat' \in {"none", "sleeping", "publishing"}, beats' \in 0 .. MaxBeats,
           parked' \subseteq RunEmissions, sequence' \in Nat,
           hub' \in [seq : 0 .. sequence', state : RunStates]
    PROVE MonitoringIInv'
<1>1. EmittedInTime' /\ StopInRun'
  BY MonitoringParts DEF EmittedInTime, StopInRun
<1>2. SignalsTypeOK'
  BY DEF SignalsIInv
<1>3. \A k \in 1 .. Len(line') : line'[k] \in LineEntries
  <2>1. line' \in Seq(LineEntries)
    BY DEF MonitoringTypes, LineEntries, RunEmissions, Engines, RunStates, Heartbeat
  <2> QED BY <2>1, MemberIn
<1>4. \A post \in wire' : post.seq \in 1 .. sequence'
  BY DEF MonitoringTypes
<1>5. MonitoringTypeOK'
  BY <1>2, <1>3, <1>4, MonitoringParts DEF MonitoringTypeOK, LineEntries
<1> QED BY <1>1, <1>5 DEF MonitoringIInv

\* An engine starts, and sends its signal.
LEMMA EngineStartsKeeps ==
    ASSUME MonitoringIInv, NEW e \in Engines, EngineStarts(e)
    PROVE MonitoringIInv'
<1>1. /\ run = "running" /\ engine[e] = "new" /\ engine' = [engine EXCEPT ![e] = "running"]
      /\ Send(Started(e))
      /\ UNCHANGED <<consumer, callbacks, stopping, interrupted, gathered, dispatched,
                     stopEvent, run, runOutcome, extensionVars>>
  BY DEF EngineStarts, ManagerIdle
<1>2. stopping = "no" /\ Started(e) \notin Everywhere /\ Started(e) \in Emissions
  BY <1>1, MonitoringParts, SignalNames DEF StopInRun, EmittedInTime
<1>3. SignalsIInv' /\ Everywhere' \subseteq Everywhere \cup {Started(e)}
  BY <1>1, <1>2, MonitoringParts, SendKeeps
<1>4. engine' \in [Engines -> {"new", "running", "over", "failed"}]
  BY <1>1, MonitoringParts
<1>5. EmittedInTime'
  BY <1>1, <1>3, MonitoringParts, SignalNames DEF EmittedInTime
<1>6. StopInRun'
  BY <1>1, MonitoringParts DEF StopInRun
<1> QED BY <1>1, <1>3, <1>4, <1>5, <1>6, MonitoringParts, RunStepKeeps

\* An engine stops, and puts its signal itself.
LEMMA EngineStopsKeeps ==
    ASSUME MonitoringIInv, NEW e \in Engines, EngineStops(e)
    PROVE MonitoringIInv'
<1>1. /\ engine[e] = "running" /\ engine' = [engine EXCEPT ![e] = "over"]
      /\ SafePut(Stopped(e))
      /\ UNCHANGED <<consumer, callbacks, stopping, interrupted, gathered, dispatched,
                     stopEvent, run, runOutcome, extensionVars>>
  BY DEF EngineStops, ManagerIdle
<1>2. Stopped(e) \notin Everywhere /\ Stopped(e) \in Emissions
  BY <1>1, MonitoringParts, SignalNames DEF EmittedInTime
<1>3. SignalsIInv' /\ Everywhere' \subseteq Everywhere \cup {Stopped(e)}
  BY <1>1, <1>2, MonitoringParts, SafePutKeeps
<1>4. engine' \in [Engines -> {"new", "running", "over", "failed"}]
  BY <1>1, MonitoringParts
<1>5. EmittedInTime'
  BY <1>1, <1>3, MonitoringParts, SignalNames DEF EmittedInTime
<1>6. StopInRun'
  BY <1>1, MonitoringParts DEF StopInRun
<1> QED BY <1>1, <1>3, <1>4, <1>5, <1>6, MonitoringParts, RunStepKeeps

\* An engine fails: it emits nothing.
LEMMA EngineFailsKeeps ==
    ASSUME MonitoringIInv, NEW e \in Engines, EngineFails(e)
    PROVE MonitoringIInv'
<1>1. /\ engine[e] = "running" /\ engine' = [engine EXCEPT ![e] = "failed"]
      /\ UNCHANGED <<signalVars, run, runOutcome, extensionVars>>
  BY DEF EngineFails
<1>2. SignalsIInv' /\ Everywhere' = Everywhere
  <2>1. callbacks' \subseteq callbacks /\ stopEvent' \in BOOLEAN
    BY <1>1, MonitoringParts DEF signalVars, SignalsTypeOK
  <2> QED BY <1>1, <2>1, MonitoringParts, CallbacksEndKeeps DEF signalVars, putState
<1>3. engine' \in [Engines -> {"new", "running", "over", "failed"}]
  BY <1>1, MonitoringParts
<1>4. EmittedInTime'
  BY <1>1, <1>2, MonitoringParts DEF EmittedInTime
<1>5. StopInRun'
  BY <1>1, MonitoringParts DEF StopInRun, signalVars
<1> QED BY <1>1, <1>2, <1>3, <1>4, <1>5, MonitoringParts, RunStepKeeps DEF signalVars

\* The run ends with the signal of its outcome.
LEMMA RunEndsKeeps ==
    ASSUME MonitoringIInv, RunEnds
    PROVE MonitoringIInv'
<1>1. /\ run = "running" /\ run' = "ending" /\ SafePut(Terminal)
      /\ UNCHANGED <<consumer, callbacks, stopping, interrupted, gathered, dispatched,
                     stopEvent, extensionVars>>
      /\ runOutcome' \in RunStates
      /\ \/ engine' = engine
         \/ engine' = [e \in Engines |-> IF engine[e] = "over" THEN "over" ELSE "failed"]
  BY DEF RunEnds, ManagerIdle, RunStates
<1>2. Terminal \notin Everywhere /\ Terminal \in Emissions
  BY <1>1, MonitoringParts, SignalNames DEF EmittedInTime
<1>3. SignalsIInv' /\ Everywhere' \subseteq Everywhere \cup {Terminal}
  BY <1>1, <1>2, MonitoringParts, SafePutKeeps
<1>4. engine' \in [Engines -> {"new", "running", "over", "failed"}]
  BY <1>1, MonitoringParts
<1>5. \A e \in Engines : /\ engine[e] # "new" => engine'[e] # "new"
                         /\ engine[e] = "over" => engine'[e] = "over"
  BY <1>1, MonitoringParts
<1>6. EmittedInTime'
  BY <1>1, <1>3, <1>5, MonitoringParts, SignalNames DEF EmittedInTime
<1>7. StopInRun'
  BY <1>1, MonitoringParts DEF StopInRun
<1> QED BY <1>1, <1>3, <1>4, <1>6, <1>7, MonitoringParts, RunStepKeeps

\* The steps of the shutdown before the extensions are closed.
LEMMA ShutdownStepsKeep ==
    ASSUME MonitoringIInv, PrepareShutdown \/ CloseSignals \/ ShutdownRaises
    PROVE MonitoringIInv'
<1>1. CASE PrepareShutdown
  <2>1. /\ run = "ending" /\ run' = "shutdown" /\ stopEvent' = TRUE
        /\ UNCHANGED <<putState, beforeStop, consumer, callbacks, stopping, interrupted,
                       gathered, dispatched, engine, runOutcome, extensionVars>>
    BY <1>1 DEF PrepareShutdown
  <2>2. callbacks' \subseteq callbacks /\ stopEvent' \in BOOLEAN
    BY <2>1
  <2>3. SignalsIInv' /\ Everywhere' = Everywhere
    BY <2>1, <2>2, MonitoringParts, CallbacksEndKeeps DEF putState
  <2>4. EmittedInTime' /\ StopInRun'
    BY <2>1, <2>3, MonitoringParts DEF EmittedInTime, StopInRun
  <2> QED BY <2>1, <2>3, <2>4, MonitoringParts, RunStepKeeps
<1>2. CASE CloseSignals
  <2>1. /\ run = "shutdown" /\ run' = "stopping" /\ Stop /\ stopping' = "puts"
        /\ UNCHANGED <<engine, runOutcome, extensionVars, callbacks, dispatched>>
    BY <1>2 DEF CloseSignals, Stop
  <2>2. SignalsIInv' /\ Everywhere' = Everywhere
    BY <2>1, MonitoringParts, StopKeeps
  <2>3. EmittedInTime' /\ StopInRun'
    BY <2>1, <2>2, MonitoringParts DEF EmittedInTime, StopInRun
  <2> QED BY <2>1, <2>2, <2>3, MonitoringParts, RunStepKeeps
<1>3. CASE ShutdownRaises
  <2>1. /\ run = "stopping" /\ stopping = "raised" /\ run' = "aborted"
        /\ UNCHANGED <<signalVars, engine, runOutcome, extensionVars>>
    BY <1>3 DEF ShutdownRaises
  <2>2. callbacks' \subseteq callbacks /\ stopEvent' \in BOOLEAN
    BY <2>1, MonitoringParts DEF signalVars, SignalsTypeOK
  <2>3. SignalsIInv' /\ Everywhere' = Everywhere
    BY <2>1, <2>2, MonitoringParts, CallbacksEndKeeps DEF signalVars, putState
  <2>4. EmittedInTime' /\ StopInRun'
    BY <2>1, <2>3, MonitoringParts DEF EmittedInTime, StopInRun, signalVars
  <2> QED BY <2>1, <2>3, <2>4, MonitoringParts, RunStepKeeps DEF signalVars
<1> QED BY <1>1, <1>2, <1>3

\* The steps of the signal manager.
LEMMA ManagerStepKeeps ==
    ASSUME MonitoringIInv, ManagerStep
    PROVE MonitoringIInv'
<1>1. UNCHANGED <<engine, run, runOutcome, extensionVars>>
  BY DEF ManagerStep, crawlVars
<1>2. CASE PutStep \/ ConsumeSentinel
  <2>1. SignalsIInv' /\ Everywhere' \subseteq Everywhere
    BY <1>2, MonitoringParts, RunPutKeeps, PutWaitingKeeps, PutTimesOutKeeps, ConsumeSentinelKeeps
       DEF PutStep
  <2>2. UNCHANGED <<callbacks, dispatched, stopping>>
    BY <1>2 DEF PutStep, ConsumeSentinel, RunPut, PutWaiting, PutTimesOut
  <2>3. EmittedInTime' /\ StopInRun'
    BY <1>1, <2>1, <2>2, MonitoringParts DEF EmittedInTime, StopInRun
  <2> QED BY <1>1, <2>1, <2>2, <2>3, MonitoringParts, RunStepKeeps
<1>3. CASE StopStep
  <2>1. SignalsIInv' /\ Everywhere' \subseteq Everywhere \cup {Sentinel}
    BY <1>3, MonitoringParts, StopStepKeeps
  <2>2. /\ UNCHANGED <<callbacks, dispatched>>
        /\ stopping \in {"puts", "consumer", "callbacks"}
        /\ stopping' \in {"consumer", "callbacks", "raised", "stopped"}
    BY <1>3 DEF StopStep, StopSentinel, StopConsumer, StopCallbacks, StopFrame
  <2>3. EmittedInTime'
    <3>1. /\ Sentinel # Terminal
          /\ \A e \in Engines : Sentinel # Started(e) /\ Sentinel # Stopped(e)
      BY SignalNames
    <3> QED BY <1>1, <2>1, <3>1, MonitoringParts DEF EmittedInTime
  <2>4. StopInRun'
    BY <1>1, <2>2, MonitoringParts DEF StopInRun
  <2> QED BY <1>1, <2>1, <2>2, <2>3, <2>4, MonitoringParts, RunStepKeeps
<1> QED BY <1>2, <1>3 DEF ManagerStep

\* Two sequences one after the other.
LEMMA Joined ==
    ASSUME NEW S, NEW a \in Seq(S), NEW b \in Seq(S)
    PROVE  /\ a \o b \in Seq(S) /\ Len(a \o b) = Len(a) + Len(b)
           /\ Len(a) \in Nat /\ Len(b) \in Nat
           /\ \A k \in 1 .. Len(a) + Len(b) :
                 (a \o b)[k] = IF k <= Len(a) THEN a[k] ELSE b[k - Len(a)]
OBVIOUS

\* What is left of a sequence that loses the member at place i.
LEMMA OneRemoved ==
    ASSUME NEW S, NEW q \in Seq(S), NEW i \in 1 .. Len(q)
    PROVE  /\ SubSeq(q, 1, i - 1) \o SubSeq(q, i + 1, Len(q)) \in Seq(S)
           /\ Len(q) \in Nat \ {0}
           /\ Len(SubSeq(q, 1, i - 1) \o SubSeq(q, i + 1, Len(q))) = Len(q) - 1
           /\ \A k \in 1 .. Len(q) - 1 :
                 (SubSeq(q, 1, i - 1) \o SubSeq(q, i + 1, Len(q)))[k] =
                     IF k < i THEN q[k] ELSE q[k + 1]
<1> DEFINE a == SubSeq(q, 1, i - 1)
           b == SubSeq(q, i + 1, Len(q))
<1>1. Len(q) \in Nat \ {0} /\ i \in Nat \ {0} /\ i <= Len(q)
  OBVIOUS
<1>2. /\ a \in Seq(S) /\ Len(a) = i - 1
      /\ \A k \in 1 .. i - 1 : a[k] = q[k]
  BY <1>1
<1>3. /\ b \in Seq(S) /\ Len(b) = Len(q) - i
      /\ \A k \in 1 .. Len(q) - i : b[k] = q[k + i]
  BY <1>1
<1> HIDE DEF a, b
<1>4. /\ a \o b \in Seq(S) /\ Len(a \o b) = Len(a) + Len(b)
      /\ \A k \in 1 .. Len(a) + Len(b) :
            (a \o b)[k] = IF k <= Len(a) THEN a[k] ELSE b[k - Len(a)]
  BY <1>2, <1>3, Joined
<1>5. Len(a \o b) = Len(q) - 1 /\ Len(a) + Len(b) = Len(q) - 1
  BY <1>1, <1>2, <1>3, <1>4
<1>6. ASSUME NEW k \in 1 .. Len(q) - 1
      PROVE (a \o b)[k] = IF k < i THEN q[k] ELSE q[k + 1]
  <2>1. (a \o b)[k] = IF k <= i - 1 THEN a[k] ELSE b[k - (i - 1)]
    BY <1>2, <1>4, <1>5
  <2>2. CASE k < i
    <3>1. k \in 1 .. i - 1 /\ k <= i - 1
      BY <1>1, <2>2
    <3> QED BY <1>2, <2>1, <2>2, <3>1
  <2>3. CASE ~(k < i)
    <3>1. k - (i - 1) \in 1 .. Len(q) - i /\ (k - (i - 1)) + i = k + 1 /\ ~(k <= i - 1)
      BY <1>1, <2>3
    <3>2. b[k - (i - 1)] = q[k + 1]
      BY <1>3, <3>1
    <3> QED BY <2>1, <2>3, <3>1, <3>2
  <2> QED BY <2>2, <2>3
<1> QED BY <1>1, <1>4, <1>5, <1>6 DEF a, b

\* The line without the heartbeat, and the heartbeat's place alone.
LEMMA LineLeft ==
    ASSUME MonitoringIInv, BeatLeaves
    PROVE  /\ line' \in Seq(LineEntries) /\ Len(line') \in Nat
           /\ \A k \in 1 .. Len(line') : line'[k].by \in callbacks \ parked
           /\ \A j, k \in 1 .. Len(line') : line'[j].by = line'[k].by => j = k
<1>1. /\ line \in Seq(LineEntries) /\ Len(line) \in Nat
      /\ \A j, k \in 1 .. Len(line) : line[j].by = line[k].by => j = k
      /\ \A k \in 1 .. Len(line) : line[k].by # Heartbeat => line[k].by \in callbacks \ parked
  BY MonitoringParts DEF MonitoringTypes, LineKept
<1>2. CASE NoBeat /\ line' = line
  BY <1>1, <1>2 DEF NoBeat, IsBeat
<1>3. ASSUME NEW i \in 1 .. Len(line), IsBeat(i),
             line' = SubSeq(line, 1, i - 1) \o SubSeq(line, i + 1, Len(line))
      PROVE  /\ line' \in Seq(LineEntries) /\ Len(line') \in Nat
             /\ \A k \in 1 .. Len(line') : line'[k].by \in callbacks \ parked
             /\ \A j, k \in 1 .. Len(line') : line'[j].by = line'[k].by => j = k
  <2>1. /\ line' \in Seq(LineEntries) /\ Len(line') = Len(line) - 1
        /\ \A k \in 1 .. Len(line) - 1 : line'[k] = IF k < i THEN line[k] ELSE line[k + 1]
    <3> DEFINE p == SubSeq(line, 1, i - 1) \o SubSeq(line, i + 1, Len(line))
    <3>1. /\ p \in Seq(LineEntries) /\ Len(p) = Len(line) - 1
          /\ \A k \in 1 .. Len(line) - 1 : p[k] = IF k < i THEN line[k] ELSE line[k + 1]
      BY <1>1, OneRemoved
    <3> HIDE DEF p
    <3>2. line' = p
      BY <1>3 DEF p
    <3> QED BY <3>1, <3>2
  <2> DEFINE at(k) == IF k < i THEN k ELSE k + 1
  <2>2. \A k \in 1 .. Len(line') : /\ at(k) \in 1 .. Len(line) /\ at(k) # i
                                   /\ line'[k] = line[at(k)]
    BY <1>1, <2>1
  <2>3. \A j, k \in 1 .. Len(line') : at(j) = at(k) => j = k
    BY <1>1, <2>1
  <2>4. \A k \in 1 .. Len(line) : k # i => line[k].by # Heartbeat
    BY <1>1, <1>3 DEF IsBeat
  <2>5. \A k \in 1 .. Len(line') : line'[k].by \in callbacks \ parked
    BY <1>1, <2>2, <2>4
  <2>6. ASSUME NEW j \in 1 .. Len(line'), NEW k \in 1 .. Len(line'),
               line'[j].by = line'[k].by
        PROVE j = k
    <3>1. at(j) = at(k)
      BY <1>1, <2>2, <2>6
    <3> QED BY <2>3, <3>1
  <2>7. Len(line') \in Nat
    BY <2>1
  <2> QED BY <2>1, <2>5, <2>6, <2>7
<1> QED BY <1>2, <1>3 DEF BeatLeaves

\* The line when those that waited have been cancelled.
LEMMA OthersLeft ==
    ASSUME MonitoringIInv, OthersLeave
    PROVE  /\ line' \in Seq(LineEntries) /\ Len(line') \in 0 .. 1
           /\ \A k \in 1 .. Len(line') : line'[k].by = Heartbeat /\ heartbeat = "publishing"
<1>1. /\ line \in Seq(LineEntries) /\ Len(line) \in Nat
      /\ \A k \in 1 .. Len(line) : line[k].by = Heartbeat => heartbeat = "publishing"
  BY MonitoringParts DEF MonitoringTypes, LineKept
<1>2. CASE line' = <<>>
  BY <1>2
<1>3. ASSUME NEW i \in 1 .. Len(line), IsBeat(i), line' = <<line[i]>>
      PROVE  /\ line' \in Seq(LineEntries) /\ Len(line') \in 0 .. 1
             /\ \A k \in 1 .. Len(line') : line'[k].by = Heartbeat /\ heartbeat = "publishing"
  <2>1. line[i] \in LineEntries /\ line[i].by = Heartbeat /\ heartbeat = "publishing"
    BY <1>1, <1>3, MemberIn DEF IsBeat
  <2> QED BY <1>3, <2>1
<1> QED BY <1>2, <1>3 DEF OthersLeave

\* A publisher joins the line.
LEMMA LineGrows ==
    ASSUME MonitoringIInv, NEW s \in RunEmissions \cup {Heartbeat}, NEW state \in RunStates,
           line' = Append(line, Publisher(s, state)),
           \A k \in 1 .. Len(line) : line[k].by # s
    PROVE  /\ line' \in Seq(LineEntries) /\ Len(line) \in Nat /\ Len(line') = Len(line) + 1
           /\ \A k \in 1 .. Len(line') : line'[k].by = IF k <= Len(line) THEN line[k].by ELSE s
           /\ \A j, k \in 1 .. Len(line') : line'[j].by = line'[k].by => j = k
<1>1. /\ line \in Seq(LineEntries) /\ Len(line) \in Nat
      /\ \A j, k \in 1 .. Len(line) : line[j].by = line[k].by => j = k
  BY MonitoringParts DEF MonitoringTypes, LineKept
<1>2. Publisher(s, state) \in LineEntries /\ Publisher(s, state).by = s
  BY DEF Publisher, LineEntries
<1>3. /\ line' \in Seq(LineEntries) /\ Len(line') = Len(line) + 1
      /\ \A k \in 1 .. Len(line) : line'[k] = line[k]
      /\ line'[Len(line) + 1] = Publisher(s, state)
  <2> HIDE DEF Publisher
  <2> QED BY <1>1, <1>2, Lengthened
<1>4. \A k \in 1 .. Len(line') : line'[k].by = IF k <= Len(line) THEN line[k].by ELSE s
  BY <1>1, <1>2, <1>3
<1>5. \A j, k \in 1 .. Len(line') : line'[j].by = line'[k].by => j = k
  BY <1>1, <1>3, <1>4
<1> QED BY <1>1, <1>3, <1>4, <1>5

\* What a post brings is a state that the store may show.
LEMMA MergedTyped ==
    ASSUME MonitoringIInv, NEW n \in Nat, sequence <= n, NEW post, 
           post \in [seq : 1 .. n, state : RunStates]
    PROVE Merged(post) \in [seq : 0 .. n, state : RunStates] /\ hub \in [seq : 0 .. n, state : RunStates]
<1>1. sequence \in Nat /\ hub \in [seq : 0 .. sequence, state : RunStates]
  BY MonitoringParts
<1>2. hub \in [seq : 0 .. n, state : RunStates]
  BY <1>1
<1>3. post \in [seq : 0 .. n, state : RunStates]
  OBVIOUS
<1> QED BY <1>2, <1>3 DEF Merged

\* The first segment of a callback.
LEMMA DispatchObservedKeeps ==
    ASSUME MonitoringIInv, NEW s \in RunEmissions, DispatchObserved(s)
    PROVE MonitoringIInv'
<1> DEFINE n == CASE s[1] = "engine_started" -> activeEngines + 1
                  [] s[1] = "engine_stopped" /\ activeEngines > 0 -> activeEngines - 1
                  [] OTHER -> activeEngines
           quiet == s = Terminal \/ (s[1] = "engine_stopped" /\ n = 0)
<1>1. /\ Dispatch(s) /\ UNCHANGED <<engine, run, runOutcome>>
      /\ activeEngines' = n /\ UNCHANGED <<beats, hub>>
      /\ \/ /\ quiet /\ heartbeat # "none" /\ StopHeartbeat
            /\ parked' = parked \cup {s} /\ BeatLeaves
         \/ /\ ~(quiet /\ heartbeat # "none") /\ KeepHeartbeat
            /\ line' = Append(line, Publisher(s, PublishedState(s, n)))
            /\ parked' = parked
  BY DEF DispatchObserved, Observe, crawlVars
<1>2. s \in Emissions /\ s # Heartbeat
  BY SignalNames
<1>3. /\ SignalsIInv' /\ Everywhere' \subseteq Everywhere
      /\ s \notin dispatched /\ s \notin callbacks
      /\ dispatched' = dispatched \cup {s} /\ callbacks' = callbacks \cup {s}
      /\ stopping' = stopping /\ consumer = "running"
  BY <1>1, <1>2, MonitoringParts, DispatchKeeps DEF Dispatch
<1>4. run # "closed" /\ run' = run
  BY <1>1, <1>3, MonitoringParts DEF StopInRun, StopSteps
<1>5. /\ n \in 0 .. Cardinality(Engines)
      /\ n <= Cardinality({e \in Engines : Started(e) \in dispatched'})
  <2> DEFINE D == {e \in Engines : Started(e) \in dispatched}
             F == {e \in Engines : Started(e) \in dispatched'}
  <2>1. IsFiniteSet(Engines) /\ Cardinality(Engines) \in Nat
    BY MonitoringAssumption, FS_Interval, FS_CardinalityType DEF Engines
  <2>2. /\ D \subseteq F /\ F \subseteq Engines /\ IsFiniteSet(D) /\ IsFiniteSet(F)
        /\ Cardinality(D) \in Nat /\ Cardinality(F) \in Nat
        /\ Cardinality(D) <= Cardinality(F) /\ Cardinality(F) <= Cardinality(Engines)
    <3>1. D \subseteq F /\ F \subseteq Engines
      BY <1>3
    <3> HIDE DEF D, F
    <3> QED BY <2>1, <3>1, FS_Subset, FS_CardinalityType
  <2>3. activeEngines \in Nat /\ activeEngines <= Cardinality(D)
    BY MonitoringParts DEF EnginesCounted
  <2>4. CASE s[1] = "engine_started"
    <3>1. PICK e \in Engines : s = Started(e)
      BY <1>2, <2>4, SignalNames
    <3>2. e \notin D /\ F = D \cup {e}
      BY <1>3, <3>1, SignalNames
    <3>3. Cardinality(F) = Cardinality(D) + 1
      <4> HIDE DEF D, F
      <4> QED BY <2>2, <3>2, FS_AddElement
    <3>4. n = activeEngines + 1
      BY <2>4
    <3> HIDE DEF D, F, n
    <3> QED BY <2>1, <2>2, <2>3, <3>3, <3>4 DEF F
  <2>5. CASE s[1] # "engine_started"
    <3>1. n \in Nat /\ n <= activeEngines
      BY <2>3, <2>5
    <3> HIDE DEF D, F, n
    <3> QED BY <2>1, <2>2, <2>3, <3>1 DEF F
  <2> QED BY <2>4, <2>5
<1>6. EnginesCounted'
  BY <1>1, <1>5 DEF EnginesCounted
<1> HIDE DEF n
<1>7. PublishedState(s, n) \in RunStates
  BY <1>2, MonitoringParts, SignalNames DEF PublishedState, StoppedState, RunStates
<1>8. /\ line \in Seq(LineEntries) /\ sequence \in Nat /\ parked \subseteq RunEmissions
      /\ wire \subseteq [seq : 1 .. sequence, state : RunStates]
      /\ hub \in [seq : 0 .. sequence, state : RunStates]
      /\ heartbeat \in {"none", "sleeping", "publishing"} /\ beats' \in 0 .. MaxBeats
      /\ parked \subseteq callbacks
      /\ \A k \in 1 .. Len(line) :
            IF line[k].by = Heartbeat THEN heartbeat = "publishing"
            ELSE line[k].by \in callbacks \ parked
  BY <1>1, MonitoringParts DEF MonitoringTypes, LineKept
<1>9. CASE quiet /\ heartbeat # "none" /\ StopHeartbeat /\ parked' = parked \cup {s} /\ BeatLeaves
  <2>1. /\ line' \in Seq(LineEntries) /\ Len(line') \in Nat
        /\ \A k \in 1 .. Len(line') : line'[k].by \in callbacks \ parked
        /\ \A j, k \in 1 .. Len(line') : line'[j].by = line'[k].by => j = k
    BY <1>9, LineLeft
  <2>2. heartbeat' = "none" /\ sequence' \in {sequence, sequence + 1}
    BY <1>9 DEF StopHeartbeat
  <2>3. wire' \subseteq [seq : 1 .. sequence', state : RunStates]
    BY <1>8, <1>9 DEF StopHeartbeat, CancelledPost, RunStates
  <2>4. Heartbeat \notin callbacks
    BY MonitoringParts, SignalNames
  <2>5. LineKept'
    BY <1>3, <1>4, <1>8, <1>9, <2>1, <2>2, <2>4 DEF LineKept
  <2>6. MonitoringTypes'
    BY <2>1, <2>3 DEF MonitoringTypes, LineEntries, RunEmissions, Engines, RunStates, Heartbeat
  <2>7. hub' \in [seq : 0 .. sequence', state : RunStates] /\ sequence' \in Nat
    BY <1>1, <1>8, <2>2
  <2>8. parked' \subseteq RunEmissions
    BY <1>8, <1>9
  <2> QED BY <1>1, <1>3, <1>5, <1>6, <1>8, <2>2, <2>5, <2>6, <2>7, <2>8, ExtensionStepKeeps
<1>10. CASE /\ KeepHeartbeat /\ parked' = parked
            /\ line' = Append(line, Publisher(s, PublishedState(s, n)))
  <2>1. \A k \in 1 .. Len(line) : line[k].by # s
    BY <1>2, <1>3, <1>8
  <2>2. /\ line' \in Seq(LineEntries) /\ Len(line) \in Nat /\ Len(line') = Len(line) + 1
        /\ \A k \in 1 .. Len(line') : line'[k].by = IF k <= Len(line) THEN line[k].by ELSE s
        /\ \A j, k \in 1 .. Len(line') : line'[j].by = line'[k].by => j = k
    BY <1>7, <1>10, <2>1, LineGrows
  <2>3. UNCHANGED <<heartbeat, sequence, wire>>
    BY <1>10 DEF KeepHeartbeat
  <2>4. LineKept'
    BY <1>2, <1>3, <1>4, <1>8, <1>10, <2>2, <2>3 DEF LineKept
  <2>5. MonitoringTypes'
    BY <1>8, <2>2, <2>3 DEF MonitoringTypes, LineEntries, RunEmissions, Engines, RunStates, Heartbeat
  <2> QED BY <1>1, <1>3, <1>5, <1>6, <1>8, <1>10, <2>3, <2>4, <2>5, ExtensionStepKeeps
<1> QED BY <1>1, <1>9, <1>10

\* The callback that awaited the heartbeat joins the line.
LEMMA UnparkKeeps ==
    ASSUME MonitoringIInv, NEW s \in RunEmissions, Unpark(s)
    PROVE MonitoringIInv'
<1>1. /\ s \in parked /\ parked' = parked \ {s}
      /\ line' = Append(line, Publisher(s, PublishedState(s, activeEngines)))
      /\ UNCHANGED <<signalVars, engine, run, runOutcome, activeEngines, heartbeat, beats,
                     sequence, wire, hub>>
  BY DEF Unpark, crawlVars
<1>2. SignalsIInv' /\ Everywhere' \subseteq Everywhere
  <2>1. callbacks' \subseteq callbacks /\ stopEvent' \in BOOLEAN
    BY <1>1, MonitoringParts DEF signalVars, SignalsTypeOK
  <2> QED BY <1>1, <2>1, MonitoringParts, CallbacksEndKeeps DEF signalVars, putState
<1>3. s # Heartbeat /\ PublishedState(s, activeEngines) \in RunStates
  BY MonitoringParts, SignalNames DEF PublishedState, StoppedState, RunStates
<1>4. /\ sequence \in Nat /\ parked \subseteq callbacks
      /\ wire \subseteq [seq : 1 .. sequence, state : RunStates]
      /\ \A k \in 1 .. Len(line) :
            IF line[k].by = Heartbeat THEN heartbeat = "publishing"
            ELSE line[k].by \in callbacks \ parked
      /\ run = "closed" => parked = {}
  BY MonitoringParts DEF MonitoringTypes, LineKept
<1>5. \A k \in 1 .. Len(line) : line[k].by # s
  BY <1>1, <1>3, <1>4
<1>6. /\ line' \in Seq(LineEntries) /\ Len(line) \in Nat /\ Len(line') = Len(line) + 1
      /\ \A k \in 1 .. Len(line') : line'[k].by = IF k <= Len(line) THEN line[k].by ELSE s
      /\ \A j, k \in 1 .. Len(line') : line'[j].by = line'[k].by => j = k
  BY <1>1, <1>3, <1>5, LineGrows
<1>7. callbacks' = callbacks /\ dispatched' = dispatched /\ stopping' = stopping
  BY <1>1 DEF signalVars
<1>8. LineKept'
  BY <1>1, <1>3, <1>4, <1>6, <1>7 DEF LineKept
<1>9. MonitoringTypes'
  BY <1>1, <1>4, <1>6 DEF MonitoringTypes, LineEntries, RunEmissions, Engines, RunStates, Heartbeat
<1>10. EnginesCounted'
  BY <1>1, <1>7, MonitoringParts DEF EnginesCounted
<1> QED BY <1>1, <1>2, <1>7, <1>8, <1>9, <1>10, MonitoringParts, ExtensionStepKeeps

\* The holder of the lock has posted.
LEMMA PublishKeeps ==
    ASSUME MonitoringIInv, Publish
    PROVE MonitoringIInv'
<1> DEFINE p == Head(line)
           post == [seq |-> sequence + 1, state |-> p.state]
<1>1. /\ line # <<>> /\ line' = Tail(line) /\ sequence' = sequence + 1
      /\ hub' = Merged(post) \/ hub' = hub
      /\ heartbeat' = IF \/ p.by = Heartbeat
                         \/ p.by[1] = "engine_started" /\ heartbeat = "none"
                      THEN "sleeping" ELSE heartbeat
      /\ callbacks' = callbacks \ {p.by}
      /\ UNCHANGED <<putState, consumer, stopping, interrupted, gathered, stopEvent, beforeStop,
                     dispatched, engine, run, runOutcome, activeEngines, beats, parked, wire>>
  BY DEF Publish, CallbackEnds, crawlVars
<1>2. SignalsIInv' /\ Everywhere' \subseteq Everywhere
  <2>1. callbacks' \subseteq callbacks /\ stopEvent' \in BOOLEAN
    BY <1>1, MonitoringParts DEF SignalsTypeOK
  <2> QED BY <1>1, <2>1, MonitoringParts, CallbacksEndKeeps DEF putState
<1>3. /\ line \in Seq(LineEntries) /\ sequence \in Nat /\ run # "closed"
      /\ wire \subseteq [seq : 1 .. sequence, state : RunStates]
      /\ hub \in [seq : 0 .. sequence, state : RunStates]
      /\ heartbeat \in {"none", "sleeping", "publishing"} /\ parked \subseteq callbacks
      /\ \A j, k \in 1 .. Len(line) : line[j].by = line[k].by => j = k
      /\ \A k \in 1 .. Len(line) :
            IF line[k].by = Heartbeat THEN heartbeat = "publishing"
            ELSE line[k].by \in callbacks \ parked
  BY <1>1, MonitoringParts DEF MonitoringTypes, LineKept
<1>4. /\ line' \in Seq(LineEntries) /\ Len(line) \in Nat \ {0} /\ Len(line') = Len(line) - 1
      /\ \A k \in 1 .. Len(line) - 1 : line'[k] = line[k + 1]
      /\ p = line[1] /\ line[1] \in LineEntries
  BY <1>1, <1>3, Shortened
<1>5. hub' \in [seq : 0 .. sequence', state : RunStates]
  <2>1. post \in [seq : 1 .. sequence + 1, state : RunStates]
    BY <1>3, <1>4 DEF LineEntries
  <2>2. sequence + 1 \in Nat /\ sequence <= sequence + 1
    BY <1>3
  <2> HIDE DEF post
  <2> QED BY <1>1, <2>1, <2>2, MergedTyped
<1>6. \A k \in 1 .. Len(line') : k + 1 \in 1 .. Len(line) /\ line'[k] = line[k + 1] /\ line'[k].by # p.by
  <2> SUFFICES ASSUME NEW k \in 1 .. Len(line')
               PROVE  k + 1 \in 1 .. Len(line) /\ line'[k] = line[k + 1] /\ line'[k].by # p.by
    OBVIOUS
  <2> HIDE DEF p
  <2>1. k + 1 \in 1 .. Len(line) /\ k + 1 # 1 /\ 1 \in 1 .. Len(line) /\ line'[k] = line[k + 1]
    BY <1>4
  <2>2. line[k + 1].by # line[1].by
    BY <1>3, <2>1
  <2> QED BY <1>4, <2>1, <2>2
<1>7. \A k \in 1 .. Len(line') :
          IF line'[k].by = Heartbeat THEN heartbeat' = "publishing"
          ELSE line'[k].by \in callbacks' \ parked'
  BY <1>1, <1>3, <1>6
<1>8. ASSUME NEW j \in 1 .. Len(line'), NEW k \in 1 .. Len(line'), line'[j].by = line'[k].by
      PROVE j = k
  <2>1. line[j + 1].by = line[k + 1].by /\ j + 1 \in 1 .. Len(line) /\ k + 1 \in 1 .. Len(line)
    BY <1>6, <1>8
  <2>2. j + 1 = k + 1
    BY <1>3, <2>1
  <2> QED BY <1>4, <2>2
<1>9. parked' \subseteq callbacks'
  <2>1. 1 \in 1 .. Len(line)
    BY <1>4
  <2>2. p.by \notin parked
    <3>1. Heartbeat \notin parked
      BY SignalNames, MonitoringParts
    <3> QED BY <1>3, <1>4, <2>1, <3>1
  <2> QED BY <1>1, <1>3, <2>2
<1>10. LineKept'
  BY <1>1, <1>3, <1>7, <1>8, <1>9 DEF LineKept
<1>11. MonitoringTypes'
  <2>1. wire' \subseteq [seq : 1 .. sequence', state : RunStates]
    BY <1>1, <1>3
  <2> QED BY <1>4, <2>1 DEF MonitoringTypes, LineEntries, RunEmissions, Engines, RunStates, Heartbeat
<1>12. EnginesCounted'
  BY <1>1, MonitoringParts DEF EnginesCounted
<1>13. heartbeat' \in {"none", "sleeping", "publishing"} /\ sequence' \in Nat
  BY <1>1, <1>3
<1> QED BY <1>1, <1>2, <1>5, <1>10, <1>11, <1>12, <1>13, MonitoringParts, ExtensionStepKeeps

\* A post that was under way arrives.
LEMMA LatePostKeeps ==
    ASSUME MonitoringIInv, NEW post \in wire, LatePost(post)
    PROVE MonitoringIInv'
<1>1. /\ wire' = wire \ {post} /\ hub' = Merged(post)
      /\ UNCHANGED <<signalVars, engine, run, runOutcome, activeEngines, heartbeat, beats,
                     parked, line, sequence>>
  BY DEF LatePost, crawlVars
<1>2. SignalsIInv' /\ Everywhere' \subseteq Everywhere
  <2>1. callbacks' \subseteq callbacks /\ stopEvent' \in BOOLEAN
    BY <1>1, MonitoringParts DEF signalVars, SignalsTypeOK
  <2> QED BY <1>1, <2>1, MonitoringParts, CallbacksEndKeeps DEF signalVars, putState
<1>3. callbacks' = callbacks /\ dispatched' = dispatched /\ stopping' = stopping
  BY <1>1 DEF signalVars
<1>4. LineKept' /\ EnginesCounted'
  BY <1>1, <1>3, MonitoringParts DEF LineKept, EnginesCounted
<1>5. MonitoringTypes'
  BY <1>1, MonitoringParts DEF MonitoringTypes
<1>6. hub' \in [seq : 0 .. sequence', state : RunStates]
  <2>1. post \in [seq : 1 .. sequence, state : RunStates] /\ sequence \in Nat
    BY MonitoringParts DEF MonitoringTypes
  <2> QED BY <1>1, <2>1, MergedTyped
<1> QED BY <1>1, <1>2, <1>3, <1>4, <1>5, <1>6, MonitoringParts, ExtensionStepKeeps

\* The heartbeat wants to publish.
LEMMA BeatKeeps ==
    ASSUME MonitoringIInv, Beat
    PROVE MonitoringIInv'
<1>1. /\ heartbeat = "sleeping" /\ heartbeat' = "publishing"
      /\ beats < MaxBeats /\ beats' = beats + 1
      /\ line' = Append(line, Publisher(Heartbeat, "running"))
      /\ UNCHANGED <<signalVars, engine, run, runOutcome, activeEngines, parked, sequence,
                     wire, hub>>
  BY DEF Beat, crawlVars
<1>2. SignalsIInv' /\ Everywhere' \subseteq Everywhere
  <2>1. callbacks' \subseteq callbacks /\ stopEvent' \in BOOLEAN
    BY <1>1, MonitoringParts DEF signalVars, SignalsTypeOK
  <2> QED BY <1>1, <2>1, MonitoringParts, CallbacksEndKeeps DEF signalVars, putState
<1>3. callbacks' = callbacks /\ dispatched' = dispatched /\ stopping' = stopping
  BY <1>1 DEF signalVars
<1>4. /\ parked \subseteq callbacks /\ run # "closed"
      /\ wire \subseteq [seq : 1 .. sequence, state : RunStates]
      /\ \A k \in 1 .. Len(line) : /\ line[k].by # Heartbeat
                                   /\ line[k].by \in callbacks \ parked
  BY <1>1, MonitoringParts DEF MonitoringTypes, LineKept
<1>5. /\ line' \in Seq(LineEntries) /\ Len(line) \in Nat /\ Len(line') = Len(line) + 1
      /\ \A k \in 1 .. Len(line') :
            line'[k].by = IF k <= Len(line) THEN line[k].by ELSE Heartbeat
      /\ \A j, k \in 1 .. Len(line') : line'[j].by = line'[k].by => j = k
  <2>1. "running" \in RunStates
    BY DEF RunStates
  <2> QED BY <1>1, <1>4, <2>1, LineGrows
<1>6. LineKept'
  BY <1>1, <1>3, <1>4, <1>5 DEF LineKept
<1>7. MonitoringTypes'
  BY <1>1, <1>4, <1>5 DEF MonitoringTypes, LineEntries, RunEmissions, Engines, RunStates, Heartbeat
<1>8. EnginesCounted'
  BY <1>1, <1>3, MonitoringParts DEF EnginesCounted
<1>9. beats' \in 0 .. MaxBeats
  BY <1>1, MonitoringAssumption, MonitoringParts
<1> QED BY <1>1, <1>2, <1>3, <1>6, <1>7, <1>8, <1>9, MonitoringParts, ExtensionStepKeeps

\* What the two steps that move the run and the line at once preserve.
LEMMA RunMovesKeeps ==
    ASSUME MonitoringIInv, SignalsIInv', LineKept', StopInRun', Everywhere' \subseteq Everywhere,
           line' \in Seq(LineEntries), sequence' \in Nat, sequence <= sequence',
           wire' \subseteq [seq : 1 .. sequence', state : RunStates],
           run' \in {"shutdown", "closed"}, run # "running",
           heartbeat' \in {"none", "sleeping", "publishing"}, parked' \subseteq RunEmissions,
           UNCHANGED <<dispatched, engine, runOutcome, activeEngines, beats, hub>>
    PROVE MonitoringIInv'
<1>1. EmittedInTime'
  BY MonitoringParts DEF EmittedInTime
<1>2. EnginesCounted'
  BY MonitoringParts DEF EnginesCounted
<1>3. MonitoringTypes'
  BY DEF MonitoringTypes, LineEntries, RunEmissions, Engines, RunStates, Heartbeat
<1>4. \A k \in 1 .. Len(line') : line'[k] \in LineEntries
  BY MemberIn
<1>5. hub' \in [seq : 0 .. sequence', state : RunStates]
  <2>1. hub \in [seq : 0 .. sequence, state : RunStates] /\ sequence \in Nat
    BY MonitoringParts
  <2>2. 0 .. sequence \subseteq 0 .. sequence'
    BY <2>1
  <2> QED BY <2>1, <2>2
<1>6. \A post \in wire' : post.seq \in 1 .. sequence'
  OBVIOUS
<1>7. MonitoringTypeOK'
  <2>1. SignalsTypeOK'
    BY DEF SignalsIInv
  <2> QED BY <1>4, <1>5, <1>6, <2>1, MonitoringParts DEF MonitoringTypeOK, LineEntries
<1> QED BY <1>1, <1>2, <1>3, <1>7 DEF MonitoringIInv

\* stop() is cancelled, with the callbacks it awaits.
LEMMA ShutdownInterruptedKeeps ==
    ASSUME MonitoringIInv, ShutdownInterrupted
    PROVE MonitoringIInv'
<1>1. /\ StopCancelled /\ run' = "shutdown"
      /\ IF stopping = "puts" THEN UNCHANGED <<parked, line>> ELSE parked' = {} /\ OthersLeave
      /\ UNCHANGED <<engine, runOutcome, activeEngines, heartbeat, beats, sequence, wire, hub>>
  BY DEF ShutdownInterrupted
<1>2. /\ SignalsIInv' /\ Everywhere' \subseteq Everywhere
  BY <1>1, MonitoringParts, StopCancelledKeeps
<1>3. /\ stopping \in {"puts", "consumer", "callbacks"} /\ stopping' = "cancelled"
      /\ dispatched' = dispatched
      /\ stopping = "puts" => callbacks' = callbacks
      /\ stopping # "puts" => callbacks' = {}
  BY <1>1 DEF StopCancelled
<1>4. run # "running" /\ StopInRun'
  BY <1>1, <1>3, MonitoringParts DEF StopInRun
<1>5. /\ wire' \subseteq [seq : 1 .. sequence', state : RunStates] /\ sequence' \in Nat
      /\ sequence <= sequence' /\ parked' \subseteq RunEmissions
  BY <1>1, MonitoringParts DEF MonitoringTypes
<1>6. line' \in Seq(LineEntries) /\ LineKept'
  <2>1. CASE stopping = "puts"
    BY <1>1, <1>3, <2>1, MonitoringParts DEF LineKept, MonitoringTypes
  <2>2. CASE stopping # "puts"
    <3>1. /\ line' \in Seq(LineEntries) /\ Len(line') \in 0 .. 1
          /\ \A k \in 1 .. Len(line') : line'[k].by = Heartbeat /\ heartbeat = "publishing"
      BY <1>1, <2>2, OthersLeft
    <3>2. \A j, k \in 1 .. Len(line') : j = k
      BY <3>1
    <3> QED BY <1>1, <1>3, <2>2, <3>1, <3>2 DEF LineKept
  <2> QED BY <2>1, <2>2
<1> QED BY <1>1, <1>2, <1>3, <1>4, <1>5, <1>6, MonitoringParts, RunMovesKeeps

\* The extensions are closed: nothing publishes any more.
LEMMA CloseExtensionsKeeps ==
    ASSUME MonitoringIInv, CloseExtensions
    PROVE MonitoringIInv'
<1>1. /\ run = "stopping" /\ stopping = "stopped" /\ run' = "closed"
      /\ StopHeartbeat /\ BeatLeaves
      /\ UNCHANGED <<signalVars, engine, runOutcome, activeEngines, beats, parked, hub>>
  BY DEF CloseExtensions
<1>2. SignalsIInv' /\ Everywhere' \subseteq Everywhere
  <2>1. callbacks' \subseteq callbacks /\ stopEvent' \in BOOLEAN
    BY <1>1, MonitoringParts DEF signalVars, SignalsTypeOK
  <2> QED BY <1>1, <2>1, MonitoringParts, CallbacksEndKeeps DEF signalVars, putState
<1>3. /\ callbacks' = callbacks /\ dispatched' = dispatched /\ stopping' = stopping
      /\ callbacks = {} /\ parked = {}
  BY <1>1, MonitoringParts DEF signalVars, StopSteps, LineKept
<1>4. /\ line' \in Seq(LineEntries) /\ Len(line') \in Nat
      /\ \A k \in 1 .. Len(line') : line'[k].by \in callbacks \ parked
  BY <1>1, LineLeft
<1>5. line' = <<>>
  <2>1. Len(line') = 0
    BY <1>3, <1>4
  <2> QED BY <1>4, <2>1
<1>6. /\ heartbeat' = "none" /\ sequence' \in Nat /\ sequence <= sequence'
      /\ wire' \subseteq [seq : 1 .. sequence', state : RunStates]
  <2>1. sequence \in Nat /\ wire \subseteq [seq : 1 .. sequence, state : RunStates]
    BY MonitoringParts DEF MonitoringTypes
  <2> QED BY <1>1, <2>1 DEF StopHeartbeat, CancelledPost, RunStates
<1>7. LineKept'
  <2>1. Len(line') = 0
    BY <1>5
  <2> QED BY <1>1, <1>3, <1>5, <1>6, <2>1 DEF LineKept
<1>8. StopInRun'
  BY <1>1, <1>3 DEF StopInRun
<1> QED BY <1>1, <1>2, <1>3, <1>4, <1>6, <1>7, <1>8, MonitoringParts, RunMovesKeeps

\* Nothing has been emitted when a run begins.
LEMMA MonitoringBegins == MonitoringInit => MonitoringIInv
<1> SUFFICES ASSUME MonitoringInit PROVE MonitoringIInv
  OBVIOUS
<1>1. /\ SignalsInit /\ engine = [e \in Engines |-> "new"] /\ run = "running"
      /\ runOutcome = "running" /\ activeEngines = 0 /\ heartbeat = "none" /\ beats = 0
      /\ parked = {} /\ line = <<>> /\ sequence = 0 /\ wire = {}
      /\ hub = [seq |-> 0, state |-> "accepted"]
  BY DEF MonitoringInit
<1>2. Len(<<>>) = 0 /\ <<>> \in Seq(LineEntries) /\ MaxQueue \in Nat \ {0}
  BY SignalsAssumption
<1>3. /\ SignalsTypeOK /\ InReady = {} /\ InQueue = {}
  <2>1. /\ signalQueue = <<>> /\ ready = <<>> /\ blocked = {} /\ direct = {}
        /\ consumer = "running" /\ callbacks = {} /\ stopping = "no" /\ interrupted = FALSE
        /\ gathered = {} /\ stopEvent = FALSE /\ beforeStop = {} /\ dispatched = {}
        /\ overflowed = {}
    BY <1>1 DEF SignalsInit
  <2>2. signalQueue \in Seq(Emissions \cup {Sentinel}) /\ ready \in Seq(Emissions)
    BY <2>1
  <2>3. Len(signalQueue) = 0 /\ Len(ready) = 0
    BY <1>2, <2>1
  <2>4. InReady = {} /\ InQueue = {}
    BY <2>3 DEF InReady, InQueue
  <2>5. Len(signalQueue) <= MaxQueue
    BY <1>2, <2>3
  <2> QED BY <2>1, <2>2, <2>4, <2>5 DEF SignalsTypeOK
<1>4. SignalsIInv
  BY <1>1, <1>2, <1>3, SignalNames
     DEF SignalsInit, SignalsIInv, InOnePlace, SignalsAhead, StopSteps
<1>5. Everywhere = {}
  BY <1>1, <1>3 DEF Everywhere, SignalsInit
<1>6. EmittedInTime /\ StopInRun
  BY <1>1, <1>5 DEF EmittedInTime, StopInRun, SignalsInit
<1>7. IsFiniteSet(Engines) /\ Cardinality(Engines) \in Nat
  BY MonitoringAssumption, FS_Interval, FS_CardinalityType DEF Engines
<1>8. EnginesCounted
  <2> DEFINE D == {e \in Engines : Started(e) \in dispatched}
  <2>1. Cardinality(D) \in Nat
    BY <1>7, FS_Subset, FS_CardinalityType
  <2> HIDE DEF D
  <2>2. activeEngines <= Cardinality(D)
    BY <1>1, <2>1
  <2> QED BY <2>2 DEF D, EnginesCounted
<1>9. LineKept /\ MonitoringTypes
  BY <1>1, <1>2 DEF LineKept, MonitoringTypes
<1>10. MonitoringTypeOK
  BY <1>1, <1>2, <1>3, <1>7, MonitoringAssumption DEF MonitoringTypeOK, RunStates
<1> QED BY <1>4, <1>6, <1>8, <1>9, <1>10 DEF MonitoringIInv

\* Every step keeps the invariant.
LEMMA MonitoringKeeps ==
    ASSUME MonitoringIInv, [MonitoringNext]_monitoringVars
    PROVE MonitoringIInv'
<1>1. ASSUME NEW e \in Engines, EngineStarts(e) \/ EngineStops(e) \/ EngineFails(e)
      PROVE MonitoringIInv'
  BY <1>1, EngineStartsKeeps, EngineStopsKeeps, EngineFailsKeeps
<1>2. ASSUME NEW post \in wire, LatePost(post) PROVE MonitoringIInv'
  BY <1>2, LatePostKeeps
<1>3. CASE RunEnds \/ ClosingStep \/ ManagerStep
  BY <1>3, RunEndsKeeps, ShutdownStepsKeep, CloseExtensionsKeeps, ManagerStepKeeps DEF ClosingStep
<1>4. CASE DispatchStep \/ ExtensionStep
  BY <1>4, DispatchObservedKeeps, PublishKeeps, UnparkKeeps DEF DispatchStep, ExtensionStep
<1>5. CASE Beat \/ ShutdownInterrupted
  BY <1>5, BeatKeeps, ShutdownInterruptedKeeps
<1>6. CASE UNCHANGED monitoringVars
  <2>1. UNCHANGED <<signalVars, engine, run, runOutcome, extensionVars>>
    BY <1>6 DEF monitoringVars, crawlVars
  <2>2. callbacks' \subseteq callbacks /\ stopEvent' \in BOOLEAN
    BY <2>1, MonitoringParts DEF signalVars, SignalsTypeOK
  <2>3. SignalsIInv' /\ Everywhere' = Everywhere
    BY <2>1, <2>2, MonitoringParts, CallbacksEndKeeps DEF signalVars, putState
  <2>4. EmittedInTime' /\ StopInRun'
    BY <2>1, <2>3, MonitoringParts DEF EmittedInTime, StopInRun, signalVars
  <2> QED BY <2>1, <2>3, <2>4, MonitoringParts, RunStepKeeps DEF signalVars
<1> QED BY <1>1, <1>2, <1>3, <1>4, <1>5, <1>6 DEF MonitoringNext, RunSettled

\* What a stop() owes is paid when it is done.
LEMMA MonitoringImplies == MonitoringIInv => MonitoringInv
<1> SUFFICES ASSUME MonitoringIInv PROVE MonitoringInv
  OBVIOUS
<1>1. ASSUME stopping = "stopped", ~interrupted
      PROVE beforeStop \subseteq dispatched \cup overflowed
  <2>1. /\ consumer = "done" /\ SignalsAhead
    BY <1>1, MonitoringParts DEF SignalsIInv, StopSteps, SignalsAhead, SignalsTypeOK
  <2> QED BY <1>1, <2>1 DEF SignalsAhead
<1>2. DrainedAtStop
  BY <1>1, MonitoringParts DEF DrainedAtStop, StopSteps
<1>3. NoHeartbeatLeft
  BY MonitoringParts DEF NoHeartbeatLeft, LineKept
<1> QED BY <1>2, <1>3 DEF MonitoringInv, MonitoringIInv

---------------------------------------------------------------------------
(* HubStore.                                                               *)

RunSnapshot == [state : Ended \cup {"accepted", "running"}, seq : Nat,
                engines : 0 .. RunEngines]
WorkerSnapshot == [state : {"registered", "running", "stopped"},
                   runs : 0 .. Cardinality(Runs), engines : Nat]
Stores == [run : [Runs -> RunSnapshot], runAt : Seq(Runs),
           worker : [Workers -> WorkerSnapshot], workerAt : Seq(Workers)]

\* Every run and worker is in its order at most once.
EachOnce(order) == \A j, k \in 1 .. Len(order) : order[j] = order[k] => j = k

\* A post whose state is an end tells what its run has reported.
HubEvents == [run : Runs, seq : Nat \ {0},
              event : {"engine_started", "engine_stopped", "run_ended", "spider_opened", "counters"},
              state : Ended \cup {"running", "none"}]

EndReported(r, state) == \/ state = outcome[r]
                         \/ state = "completed" /\ halted[r] > 0

EventTold(e) == /\ e.event = "engine_started" => e.state = "running"
                /\ e.state \in Ended => EndReported(e.run, e.state)

\* Each start that a run has reported is counted once, or under way.
LateStarts(r) == {e \in late : e.run = r /\ e.event = "engine_started"}
StartsCounted == \A r \in Runs :
    store.run[r].engines + Cardinality(LateStarts(r)) <= begun[r]

HubSenders ==
    /\ begun \in [Runs -> 0 .. RunEngines] /\ halted \in [Runs -> Nat]
    /\ outcome \in [Runs -> Ended \cup {"none"}] /\ orphans \in [Workers -> Nat]
    /\ late \subseteq HubEvents /\ IsFiniteSet(late)
    /\ \A e \in late : EventTold(e)

HubIInv ==
    /\ HubStoreInv /\ HubSenders /\ StartsCounted /\ store \in Stores
    /\ EachOnce(store.runAt) /\ EachOnce(store.workerAt)

\* An order that is left by x.
LEMMA WithoutKeeps ==
    ASSUME NEW S, NEW order \in Seq(S), EachOnce(order), NEW x
    PROVE  /\ Without(order, x) \in Seq(S) /\ EachOnce(Without(order, x))
           /\ ToSet(Without(order, x)) = ToSet(order) \ {x}
           /\ Len(order) \in Nat
           /\ Len(Without(order, x)) =
                 IF x \in ToSet(order) THEN Len(order) - 1 ELSE Len(order)
<1>1. Len(order) \in Nat /\ DOMAIN order = 1 .. Len(order)
  OBVIOUS
<1>2. CASE x \notin ToSet(order)
  BY <1>1, <1>2 DEF Without
<1>3. CASE x \in ToSet(order)
  <2> DEFINE i == PlaceOf(order, x)
             p == Without(order, x)
             at(k) == IF k < i THEN k ELSE k + 1
  <2>1. i \in 1 .. Len(order) /\ order[i] = x
    <3>1. \E k \in 1 .. Len(order) : order[k] = x
      BY <1>1, <1>3 DEF ToSet
    <3> QED BY <3>1 DEF PlaceOf
  <2>2. p = SubSeq(order, 1, i - 1) \o SubSeq(order, i + 1, Len(order))
    BY <1>3 DEF Without, RemoveAt
  <2> HIDE DEF i, p
  <2>3. /\ p \in Seq(S) /\ Len(p) = Len(order) - 1
        /\ \A k \in 1 .. Len(order) - 1 : p[k] = IF k < i THEN order[k] ELSE order[k + 1]
    BY <2>1, <2>2, OneRemoved
  <2>4. \A k \in 1 .. Len(p) : /\ at(k) \in 1 .. Len(order) /\ at(k) # i
                               /\ p[k] = order[at(k)]
    BY <1>1, <2>1, <2>3
  <2>5. \A j, k \in 1 .. Len(p) : at(j) = at(k) => j = k
    BY <1>1, <2>1, <2>3
  <2>6. \A k \in 1 .. Len(order) : k # i => \E j \in 1 .. Len(p) : at(j) = k
    <3> SUFFICES ASSUME NEW k \in 1 .. Len(order), k # i
                 PROVE  \E j \in 1 .. Len(p) : at(j) = k
      OBVIOUS
    <3>1. CASE k < i
      BY <1>1, <2>1, <2>3, <3>1
    <3>2. CASE k > i
      <4>1. k - 1 \in 1 .. Len(p) /\ at(k - 1) = k
        BY <1>1, <2>1, <2>3, <3>2
      <4> QED BY <4>1
    <3> QED BY <2>1, <3>1, <3>2
  <2> HIDE DEF at
  <2>7. EachOnce(p)
    BY <2>4, <2>5 DEF EachOnce
  <2>8. ToSet(p) = ToSet(order) \ {x}
    <3>1. DOMAIN p = 1 .. Len(p)
      BY <2>3
    <3>2. \A k \in 1 .. Len(order) : order[k] = x => k = i
      BY <2>1 DEF EachOnce
    <3>3. ASSUME NEW y \in ToSet(p) PROVE y \in ToSet(order) \ {x}
      BY <1>1, <2>4, <3>1, <3>2, <3>3 DEF ToSet
    <3>4. ASSUME NEW y \in ToSet(order) \ {x} PROVE y \in ToSet(p)
      <4>1. PICK k \in 1 .. Len(order) : order[k] = y
        BY <1>1, <3>4 DEF ToSet
      <4>2. k # i
        BY <2>1, <3>4, <4>1
      <4>3. PICK j \in 1 .. Len(p) : at(j) = k
        BY <2>6, <4>2
      <4> QED BY <2>4, <3>1, <4>1, <4>3 DEF ToSet
    <3> QED BY <3>3, <3>4
  <2> QED BY <1>1, <1>3, <2>3, <2>7, <2>8 DEF p
<1> QED BY <1>2, <1>3

\* An order in which x is observed anew.
LEMMA NewestKeeps ==
    ASSUME NEW S, NEW order \in Seq(S), EachOnce(order), NEW x \in S
    PROVE  /\ Newest(order, x) \in Seq(S) /\ EachOnce(Newest(order, x))
           /\ ToSet(Newest(order, x)) = ToSet(order) \cup {x}
           /\ Len(order) \in Nat
           /\ Len(Newest(order, x)) =
                 IF x \in ToSet(order) THEN Len(order) ELSE Len(order) + 1
<1> DEFINE p == Without(order, x)
<1>1. /\ p \in Seq(S) /\ EachOnce(p) /\ ToSet(p) = ToSet(order) \ {x} /\ Len(order) \in Nat
      /\ Len(p) = IF x \in ToSet(order) THEN Len(order) - 1 ELSE Len(order)
  BY WithoutKeeps
<1> HIDE DEF p
<1>2. /\ Append(p, x) \in Seq(S) /\ Len(p) \in Nat /\ Len(Append(p, x)) = Len(p) + 1
      /\ \A k \in 1 .. Len(p) : Append(p, x)[k] = p[k]
      /\ Append(p, x)[Len(p) + 1] = x
      /\ DOMAIN p = 1 .. Len(p) /\ DOMAIN Append(p, x) = 1 .. Len(p) + 1
  BY <1>1
<1>3. \A k \in 1 .. Len(p) : p[k] # x
  BY <1>1, <1>2 DEF ToSet
<1>4. EachOnce(Append(p, x))
  BY <1>1, <1>2, <1>3 DEF EachOnce
<1>5. ToSet(Append(p, x)) = ToSet(p) \cup {x}
  <2>1. ASSUME NEW y \in ToSet(Append(p, x)) PROVE y \in ToSet(p) \cup {x}
    BY <1>2, <2>1 DEF ToSet
  <2>2. ASSUME NEW y \in ToSet(p) PROVE y \in ToSet(Append(p, x))
    <3>1. PICK k \in 1 .. Len(p) : y = p[k]
      BY <1>2, <2>2 DEF ToSet
    <3>2. y = Append(p, x)[k] /\ k \in 1 .. Len(p) + 1
      BY <1>2, <3>1
    <3> QED BY <1>2, <3>2 DEF ToSet
  <2>3. x \in ToSet(Append(p, x))
    <3>1. Len(p) + 1 \in 1 .. Len(p) + 1
      BY <1>2
    <3> QED BY <1>2, <3>1 DEF ToSet
  <2> QED BY <2>1, <2>2, <2>3
<1> QED BY <1>1, <1>2, <1>4, <1>5 DEF Newest, p

\* Whoever is evicted is retained.
LEMMA VictimRetained ==
    ASSUME NEW S, NEW order \in Seq(S), Len(order) > 0, NEW goFirst
    PROVE Victim(order, goFirst) \in ToSet(order)
<1> DEFINE places == {k \in 1 .. Len(order) : order[k] \in goFirst}
<1>1. Len(order) \in Nat \ {0} /\ DOMAIN order = 1 .. Len(order)
  OBVIOUS
<1>2. places \subseteq Nat /\ places \subseteq 1 .. Len(order)
  BY <1>1
<1>3. ASSUME places # {} PROVE Min(places) \in places
  <2> HIDE DEF places
  <2>1. \E x \in places : \A y \in places : x <= y
    BY <1>2, <1>3, LeastNatural
  <2> QED BY <2>1 DEF Min
<1>4. (IF places # {} THEN Min(places) ELSE 1) \in 1 .. Len(order)
  BY <1>1, <1>2, <1>3
<1>5. Victim(order, goFirst) = order[IF places # {} THEN Min(places) ELSE 1]
  BY DEF Victim
<1> HIDE DEF places
<1> QED BY <1>1, <1>4, <1>5 DEF ToSet

\* Counting the engines of a worker when one of its runs gains or loses some.
LEMMA EnginesFinite ==
    ASSUME NEW s, NEW w
    PROVE IsFiniteSet(EnginesOf(s, w)) /\ Cardinality(EnginesOf(s, w)) \in Nat
<1>1. IsFiniteSet(Runs \X (1 .. RunEngines))
  <2>1. 1 \in Int /\ RunEngines \in Int /\ IsFiniteSet(Runs)
    BY HubStoreAssumption
  <2>2. IsFiniteSet(1 .. RunEngines)
    BY <2>1, FS_Interval
  <2> QED BY <2>1, <2>2, FS_Product
<1>2. EnginesOf(s, w) \subseteq Runs \X (1 .. RunEngines)
  BY DEF EnginesOf
<1> QED BY <1>1, <1>2, FS_Subset, FS_CardinalityType

\* They are the same when those of its runs are.
LEMMA EnginesUnchanged ==
    ASSUME NEW s, NEW t, NEW w,
           \A q \in Runs : WorkerOf[q] = w => t.run[q].engines = s.run[q].engines
    PROVE EnginesOf(t, w) = EnginesOf(s, w)
BY DEF EnginesOf

\* Their number changes with that of the one run that changes.
LEMMA EnginesChanged ==
    ASSUME NEW s, NEW t, NEW r \in Runs, NEW w, w = WorkerOf[r],
           \A q \in Runs \ {r} : WorkerOf[q] = w => t.run[q].engines = s.run[q].engines,
           s.run[r].engines \in 0 .. RunEngines, t.run[r].engines \in 0 .. RunEngines
    PROVE Cardinality(EnginesOf(t, w)) + s.run[r].engines
             = Cardinality(EnginesOf(s, w)) + t.run[r].engines
<1> DEFINE rest == {x \in EnginesOf(s, w) : x[1] # r}
           own(n) == {r} \X (1 .. n)
<1>1. rest = {x \in EnginesOf(t, w) : x[1] # r}
  BY DEF EnginesOf
<1>2. IsFiniteSet(rest) /\ Cardinality(rest) \in Nat
  BY EnginesFinite, FS_Subset, FS_CardinalityType
<1>3. ASSUME NEW u, NEW n \in 0 .. RunEngines, u.run[r].engines = n,
             rest = {x \in EnginesOf(u, w) : x[1] # r}
      PROVE Cardinality(EnginesOf(u, w)) = Cardinality(rest) + n
  <2>1. RunEngines \in Nat /\ n \in Nat /\ n <= RunEngines
    BY HubStoreAssumption
  <2>2. EnginesOf(u, w) = rest \cup own(n)
    <3>1. ASSUME NEW x \in EnginesOf(u, w), x[1] = r PROVE x \in own(n)
      BY <1>3, <2>1, <3>1 DEF EnginesOf
    <3>2. ASSUME NEW x \in own(n) PROVE x \in EnginesOf(u, w)
      BY <1>3, <2>1, <3>2 DEF EnginesOf
    <3> QED BY <1>3, <3>1, <3>2
  <2>3. rest \cap own(n) = {}
    OBVIOUS
  <2>4. IsFiniteSet(own(n)) /\ Cardinality(own(n)) = n
    <3>1. IsFiniteSet({r}) /\ Cardinality({r}) = 1
      BY FS_Singleton
    <3>2. IsFiniteSet(1 .. n) /\ Cardinality(1 .. n) = n
      <4>1. 1 \in Int /\ n \in Int /\ (IF 1 > n THEN 0 ELSE n - 1 + 1) = n
        BY <2>1
      <4> QED BY <4>1, FS_Interval
    <3>3. /\ IsFiniteSet({r} \X (1 .. n))
          /\ Cardinality({r} \X (1 .. n)) = Cardinality({r}) * Cardinality(1 .. n)
      BY <3>1, <3>2, FS_Product, Zenon
    <3>4. Cardinality({r} \X (1 .. n)) = n
      BY <2>1, <3>1, <3>2, <3>3
    <3> QED BY <3>3, <3>4
  <2>5. Cardinality({}) = 0
    BY FS_EmptySet
  <2> HIDE DEF rest, own
  <2>6. Cardinality(rest \cup own(n)) = Cardinality(rest) + Cardinality(own(n)) - Cardinality(rest \cap own(n))
    BY <1>2, <2>4, FS_Union
  <2>7. Cardinality(rest \cap own(n)) = 0
    BY <2>3, <2>5
  <2>8. Cardinality(EnginesOf(u, w)) = Cardinality(rest) + n - 0
    BY <2>2, <2>4, <2>6, <2>7
  <2> QED BY ONLY <1>2, <2>1, <2>8
<1> HIDE DEF rest
<1>4. /\ Cardinality(EnginesOf(s, w)) = Cardinality(rest) + s.run[r].engines
      /\ Cardinality(EnginesOf(t, w)) = Cardinality(rest) + t.run[r].engines
  BY <1>1, <1>3 DEF rest
<1> QED BY <1>2, <1>4, HubStoreAssumption

\* What the functions of the store do to its fields.
LEMMA LessTyped ==
    ASSUME NEW n \in Nat, NEW k \in Nat
    PROVE Less(n, k) \in Nat /\ Less(n, k) <= n /\ Less(n, k) + k >= n /\ (k <= n => Less(n, k) = n - k)
BY DEF Less

\* An end releases the engines of its run, and its worker's share of them.
LEMMA ReleaseFields ==
    ASSUME NEW s \in Stores, NEW e \in HubEvents, NEW t, t = ReleaseTerminalEngines(s, e),
           NEW k, k = (IF e.state \in Ended THEN s.run[e.run].engines ELSE 0)
    PROVE  /\ t \in Stores /\ t.runAt = s.runAt /\ t.workerAt = s.workerAt
           /\ \A r \in Runs \ {e.run} : t.run[r] = s.run[r]
           /\ \A w \in Workers \ {WorkerOf[e.run]} : t.worker[w] = s.worker[w]
           /\ t.run[e.run] = [s.run[e.run] EXCEPT !.engines = @ - k]
           /\ t.worker[WorkerOf[e.run]] = [s.worker[WorkerOf[e.run]] EXCEPT !.engines = Less(@, k)]
           /\ k \in Nat /\ k <= s.run[e.run].engines
<1>1. /\ e.run \in Runs /\ WorkerOf[e.run] \in Workers /\ RunEngines \in Nat
      /\ s.run[e.run] \in RunSnapshot /\ s.worker[WorkerOf[e.run]] \in WorkerSnapshot
  BY HubStoreAssumption DEF Stores, HubEvents
<1>2. s.run[e.run].engines \in 0 .. RunEngines /\ s.worker[WorkerOf[e.run]].engines \in Nat
  BY <1>1 DEF RunSnapshot, WorkerSnapshot
<1>3. CASE e.state \in Ended
  <2>1. t = [s EXCEPT !.worker[WorkerOf[e.run]].engines = Less(@, s.run[e.run].engines),
                      !.run[e.run].engines = 0]
    BY <1>3 DEF ReleaseTerminalEngines
  <2>2. /\ t.runAt = s.runAt /\ t.workerAt = s.workerAt
        /\ t.run = [s.run EXCEPT ![e.run].engines = 0]
        /\ t.worker = [s.worker EXCEPT ![WorkerOf[e.run]].engines = Less(@, s.run[e.run].engines)]
        /\ t = [run |-> t.run, runAt |-> t.runAt, worker |-> t.worker, workerAt |-> t.workerAt]
    BY <2>1 DEF Stores
  <2>3. Less(s.worker[WorkerOf[e.run]].engines, s.run[e.run].engines) \in Nat
    <3>1. s.run[e.run].engines \in Nat
      BY <1>1, <1>2
    <3> QED BY <1>2, <3>1, LessTyped
  <2>4. [s.run[e.run] EXCEPT !.engines = 0] \in RunSnapshot
    BY <1>1, <1>2 DEF RunSnapshot
  <2>5. [s.worker[WorkerOf[e.run]] EXCEPT !.engines = Less(@, s.run[e.run].engines)] \in WorkerSnapshot
    BY <1>1, <2>3 DEF WorkerSnapshot
  <2>6. t.run \in [Runs -> RunSnapshot] /\ t.worker \in [Workers -> WorkerSnapshot]
    BY <1>1, <2>2, <2>4, <2>5 DEF Stores
  <2>7. t \in Stores
    BY <2>2, <2>6 DEF Stores
  <2> QED BY <1>1, <1>2, <1>3, <2>2, <2>7 DEF Stores
<1>4. CASE e.state \notin Ended
  <2>1. t = s /\ k = 0
    BY <1>4 DEF ReleaseTerminalEngines
  <2>2. Less(s.worker[WorkerOf[e.run]].engines, 0) = s.worker[WorkerOf[e.run]].engines
    BY <1>2, LessTyped
  <2> QED BY <1>1, <1>2, <2>1, <2>2 DEF RunSnapshot, WorkerSnapshot
<1> QED BY <1>3, <1>4

\* A start adds an engine, and nothing else does.
LEMMA CountTyped ==
    ASSUME NEW n \in Nat, NEW e
    PROVE /\ CountEngines(n, e) \in Nat
          /\ e.event = "engine_started" => CountEngines(n, e) = n + 1
          /\ e.event # "engine_started" => CountEngines(n, e) <= n
BY DEF CountEngines, Less

\* The worker's snapshot after an event of one of its runs.
LEMMA RecordWorkerFields ==
    ASSUME NEW s \in Stores, NEW e \in HubEvents, NEW t, t = RecordWorker(s, e),
           EachOnce(s.workerAt)
    PROVE  /\ t \in Stores /\ t.runAt = s.runAt /\ t.run = s.run
           /\ t.workerAt = Newest(s.workerAt, WorkerOf[e.run])
           /\ \A w \in Workers \ {WorkerOf[e.run]} : t.worker[w] = s.worker[w]
           /\ t.worker[WorkerOf[e.run]].engines =
                  CountEngines(s.worker[WorkerOf[e.run]].engines, e)
<1> DEFINE w == WorkerOf[e.run]
           state == CASE e.state \in Ended -> "stopped"
                      [] e.state = "running" \/ e.event = "spider_opened" -> "running"
                      [] OTHER -> s.worker[w].state
           new == [state |-> state, runs |-> s.worker[w].runs,
                   engines |-> CountEngines(s.worker[w].engines, e)]
<1>1. w \in Workers /\ s.worker[w] \in WorkerSnapshot
  BY HubStoreAssumption DEF Stores, HubEvents
<1>2. t = [s EXCEPT !.worker[w] =
                        [state |-> CASE e.state \in Ended -> "stopped"
                                     [] e.state = "running" \/ e.event = "spider_opened"
                                          -> "running"
                                     [] OTHER -> @.state,
                         runs |-> @.runs,
                         engines |-> CountEngines(@.engines, e)],
                    !.workerAt = Newest(@, w)]
  BY DEF RecordWorker
<1>3. /\ t.runAt = s.runAt /\ t.run = s.run /\ t.workerAt = Newest(s.workerAt, w)
      /\ t.worker = [s.worker EXCEPT ![w] = new]
      /\ t = [run |-> t.run, runAt |-> t.runAt, worker |-> t.worker, workerAt |-> t.workerAt]
  BY <1>1, <1>2 DEF Stores
<1>4. state \in {"registered", "running", "stopped"} /\ s.worker[w].engines \in Nat
  BY <1>1 DEF WorkerSnapshot, Ended
<1>5. CountEngines(s.worker[w].engines, e) \in Nat
  BY <1>4, CountTyped
<1>6. new \in WorkerSnapshot /\ new.engines = CountEngines(s.worker[w].engines, e)
  BY <1>1, <1>4, <1>5 DEF WorkerSnapshot
<1>7. s.worker \in [Workers -> WorkerSnapshot] /\ s.workerAt \in Seq(Workers)
  BY DEF Stores
<1>8. Newest(s.workerAt, w) \in Seq(Workers)
  BY <1>1, <1>7, NewestKeeps
<1> HIDE DEF new, state
<1>9. t.worker \in [Workers -> WorkerSnapshot]
  BY <1>1, <1>3, <1>6, <1>7
<1>10. t \in Stores
  BY <1>3, <1>8, <1>9 DEF Stores
<1> QED BY <1>1, <1>3, <1>6, <1>7, <1>10

\* The run's snapshot after an event.
LEMMA RecordRunFields ==
    ASSUME NEW s \in Stores, NEW e \in HubEvents, NEW t, t = RecordRun(s, e),
           EachOnce(s.runAt),
           CountEngines(s.run[e.run].engines, e) <= RunEngines
    PROVE  /\ t \in Stores /\ t.workerAt = s.workerAt /\ t.worker = s.worker
           /\ t.runAt = Newest(s.runAt, e.run)
           /\ \A r \in Runs \ {e.run} : t.run[r] = s.run[r]
           /\ t.run[e.run].engines = CountEngines(s.run[e.run].engines, e)
           /\ t.run[e.run].state = CASE e.state # "none" -> e.state
                                     [] e.event = "spider_opened" -> "running"
                                     [] OTHER -> s.run[e.run].state
<1> DEFINE r == e.run
           state == CASE e.state # "none" -> e.state
                      [] e.event = "spider_opened" -> "running"
                      [] OTHER -> s.run[r].state
           new == [state |-> state, seq |-> e.seq, engines |-> CountEngines(s.run[r].engines, e)]
<1>1. r \in Runs /\ s.run[r] \in RunSnapshot /\ e.seq \in Nat
      /\ e.state \in Ended \cup {"running", "none"} /\ RunEngines \in Nat
  BY HubStoreAssumption DEF Stores, HubEvents
<1>2. t = [s EXCEPT !.run[r] = [state |-> CASE e.state # "none" -> e.state
                                             [] e.event = "spider_opened" -> "running"
                                             [] OTHER -> @.state,
                                seq |-> e.seq,
                                engines |-> CountEngines(@.engines, e)],
                    !.runAt = Newest(@, r)]
  BY DEF RecordRun
<1>3. /\ t.workerAt = s.workerAt /\ t.worker = s.worker /\ t.runAt = Newest(s.runAt, r)
      /\ t.run = [s.run EXCEPT ![r] = new]
      /\ t = [run |-> t.run, runAt |-> t.runAt, worker |-> t.worker, workerAt |-> t.workerAt]
  BY <1>1, <1>2 DEF Stores
<1>4. state \in Ended \cup {"accepted", "running"} /\ s.run[r].engines \in 0 .. RunEngines
  BY <1>1 DEF RunSnapshot
<1>5. CountEngines(s.run[r].engines, e) \in 0 .. RunEngines
  <2>1. s.run[r].engines \in Nat
    BY <1>1, <1>4
  <2>2. CountEngines(s.run[r].engines, e) \in Nat
    BY <2>1, CountTyped
  <2> QED BY <1>1, <2>2
<1>6. new \in RunSnapshot /\ new.engines = CountEngines(s.run[r].engines, e) /\ new.state = state
  BY <1>1, <1>4, <1>5 DEF RunSnapshot
<1>7. s.run \in [Runs -> RunSnapshot] /\ s.runAt \in Seq(Runs)
  BY DEF Stores
<1>8. Newest(s.runAt, r) \in Seq(Runs)
  BY <1>1, <1>7, NewestKeeps
<1> HIDE DEF new
<1>9. t.run \in [Runs -> RunSnapshot] /\ t.run[r] = new
  BY <1>1, <1>3, <1>6, <1>7
<1>10. t \in Stores
  BY <1>3, <1>8, <1>9 DEF Stores
<1>11. t.run[e.run].state = state
  BY <1>6, <1>9
<1> QED BY <1>1, <1>3, <1>6, <1>7, <1>9, <1>10, <1>11

\* The number of active runs says nothing of engines.
LEMMA RecordActiveFields ==
    ASSUME NEW s \in Stores, NEW e \in HubEvents, NEW t, t = RecordActiveRuns(s, e)
    PROVE  /\ t \in Stores /\ t.workerAt = s.workerAt /\ t.runAt = s.runAt /\ t.run = s.run
           /\ \A w \in Workers \ {WorkerOf[e.run]} : t.worker[w] = s.worker[w]
           /\ t.worker[WorkerOf[e.run]].engines = s.worker[WorkerOf[e.run]].engines
<1> DEFINE w == WorkerOf[e.run]
           new == [s.worker[w] EXCEPT !.runs = CountActiveRuns(s, w)]
<1>1. w \in Workers /\ s.worker[w] \in WorkerSnapshot /\ s.worker \in [Workers -> WorkerSnapshot]
      /\ IsFiniteSet(Runs) /\ s.runAt \in Seq(Runs)
  BY HubStoreAssumption DEF Stores, HubEvents
<1>2. CountActiveRuns(s, w) \in 0 .. Cardinality(Runs)
  <2> DEFINE C == {r \in ToSet(s.runAt) : WorkerOf[r] = w /\ s.run[r].state \notin Ended}
  <2>1. C \subseteq Runs
    BY <1>1 DEF ToSet
  <2>2. CountActiveRuns(s, w) = Cardinality(C)
    BY DEF CountActiveRuns
  <2> HIDE DEF C
  <2>3. /\ Cardinality(C) \in Nat /\ Cardinality(Runs) \in Nat
        /\ Cardinality(C) <= Cardinality(Runs)
    BY <1>1, <2>1, FS_Subset, FS_CardinalityType
  <2> QED BY <2>2, <2>3
<1>3. /\ t.workerAt = s.workerAt /\ t.runAt = s.runAt /\ t.run = s.run
      /\ t.worker = [s.worker EXCEPT ![w] = new]
      /\ t = [run |-> t.run, runAt |-> t.runAt, worker |-> t.worker, workerAt |-> t.workerAt]
  BY <1>1 DEF RecordActiveRuns, Stores
<1>4. new \in WorkerSnapshot /\ new.engines = s.worker[w].engines
  BY <1>1, <1>2 DEF WorkerSnapshot
<1> HIDE DEF new
<1>5. t.worker \in [Workers -> WorkerSnapshot]
  BY <1>1, <1>3, <1>4
<1>6. t \in Stores
  BY <1>3, <1>5 DEF Stores
<1> QED BY <1>1, <1>3, <1>4, <1>6

\* No worker of a store has engines that none of its runs has, except the
\* orphans; and no run that has ended has any.
OwnedIn(s, o) ==
    \A w \in Workers : s.worker[w].engines <= o[w] + Cardinality(EnginesOf(s, w))
NoneAfterEnd(s) == \A r \in Runs : s.run[r].state \in Ended => s.run[r].engines = 0

\* What an event changes in all: the three together.
LEMMA MergeFields ==
    ASSUME NEW s \in Stores, NEW e \in HubEvents, NEW t, t = Merge(s, e),
           EachOnce(s.runAt), EachOnce(s.workerAt),
           e.event = "engine_started" => s.run[e.run].engines < RunEngines,
           NEW k, k = (IF e.state \in Ended THEN s.run[e.run].engines ELSE 0)
    PROVE  /\ t \in Stores
           /\ t.runAt = Newest(s.runAt, e.run) /\ t.workerAt = Newest(s.workerAt, WorkerOf[e.run])
           /\ \A r \in Runs \ {e.run} : t.run[r] = s.run[r]
           /\ \A w \in Workers \ {WorkerOf[e.run]} : t.worker[w].engines = s.worker[w].engines
                                                     /\ t.worker[w] = s.worker[w]
           /\ k \in Nat /\ k <= s.run[e.run].engines
           /\ t.run[e.run].engines = CountEngines(s.run[e.run].engines - k, e)
           /\ t.worker[WorkerOf[e.run]].engines =
                  CountEngines(Less(s.worker[WorkerOf[e.run]].engines, k), e)
           /\ t.run[e.run].state = CASE e.state # "none" -> e.state
                                     [] e.event = "spider_opened" -> "running"
                                     [] OTHER -> s.run[e.run].state
<1> DEFINE r == e.run
           w == WorkerOf[e.run]
           s1 == ReleaseTerminalEngines(s, e)
           s2 == RecordWorker(s1, e)
           s3 == RecordRun(s2, e)
<1>1. /\ r \in Runs /\ w \in Workers /\ RunEngines \in Nat
      /\ s.run[r] \in RunSnapshot /\ s.worker[w] \in WorkerSnapshot
  BY HubStoreAssumption DEF Stores, HubEvents
<1>2. /\ s1 \in Stores /\ s1.runAt = s.runAt /\ s1.workerAt = s.workerAt
      /\ \A q \in Runs \ {r} : s1.run[q] = s.run[q]
      /\ \A v \in Workers \ {w} : s1.worker[v] = s.worker[v]
      /\ s1.run[r] = [s.run[r] EXCEPT !.engines = @ - k]
      /\ s1.worker[w] = [s.worker[w] EXCEPT !.engines = Less(@, k)]
      /\ k \in Nat /\ k <= s.run[r].engines
  <2> HIDE DEF s1
  <2>1. s1 = ReleaseTerminalEngines(s, e)
    BY DEF s1
  <2> QED BY <2>1, ReleaseFields
<1>3. t = RecordActiveRuns(s3, e)
  BY DEF Merge
<1> HIDE DEF s1
<1>4. /\ s2 \in Stores /\ s2.runAt = s1.runAt /\ s2.run = s1.run
      /\ s2.workerAt = Newest(s1.workerAt, w)
      /\ \A v \in Workers \ {w} : s2.worker[v] = s1.worker[v]
      /\ s2.worker[w].engines = CountEngines(s1.worker[w].engines, e)
  <2> HIDE DEF s2
  <2>1. s2 = RecordWorker(s1, e)
    BY DEF s2
  <2>2. s1 \in Stores
    BY <1>2
  <2>3. EachOnce(s1.workerAt)
    BY <1>2
  <2> QED BY ONLY <2>1, <2>2, <2>3, e \in HubEvents, RecordWorkerFields
<1> HIDE DEF s2
<1>5. /\ s1.run[r].engines = s.run[r].engines - k /\ s1.run[r].state = s.run[r].state
      /\ s1.worker[w].engines = Less(s.worker[w].engines, k)
  BY <1>1, <1>2 DEF RunSnapshot, WorkerSnapshot
<1>6. CountEngines(s2.run[r].engines, e) <= RunEngines
  <2>1. /\ s.run[r].engines \in 0 .. RunEngines /\ s.run[r].engines - k \in Nat
        /\ s.run[r].engines - k <= RunEngines
    BY <1>1, <1>2 DEF RunSnapshot
  <2>4. s2.run[r].engines = s.run[r].engines - k
    BY <1>4, <1>5
  <2>2. CASE e.event = "engine_started"
    <3>1. CountEngines(s.run[r].engines - k, e) = s.run[r].engines - k + 1
      BY <2>1, <2>2, CountTyped
    <3>2. s.run[r].engines < RunEngines
      BY <2>2
    <3> QED BY ONLY <1>1, <1>2, <2>1, <2>4, <3>1, <3>2
  <2>3. CASE e.event # "engine_started"
    <3>1. /\ CountEngines(s.run[r].engines - k, e) <= s.run[r].engines - k
          /\ CountEngines(s.run[r].engines - k, e) \in Nat
      BY <2>1, <2>3, CountTyped
    <3> QED BY ONLY <1>1, <2>1, <2>4, <3>1
  <2> QED BY <2>2, <2>3
<1>7. /\ s3 \in Stores /\ s3.workerAt = s2.workerAt /\ s3.worker = s2.worker
      /\ s3.runAt = Newest(s2.runAt, r)
      /\ \A q \in Runs \ {r} : s3.run[q] = s2.run[q]
      /\ s3.run[r].engines = CountEngines(s2.run[r].engines, e)
      /\ s3.run[r].state = CASE e.state # "none" -> e.state
                             [] e.event = "spider_opened" -> "running"
                             [] OTHER -> s2.run[r].state
  <2> HIDE DEF s3
  <2>1. s3 = RecordRun(s2, e) /\ EachOnce(s2.runAt)
    BY <1>2, <1>4 DEF s3
  <2> QED BY <1>4, <1>6, <2>1, RecordRunFields
<1> HIDE DEF s3
<1>8. /\ t \in Stores /\ t.workerAt = s3.workerAt /\ t.runAt = s3.runAt /\ t.run = s3.run
      /\ \A v \in Workers \ {w} : t.worker[v] = s3.worker[v]
      /\ t.worker[w].engines = s3.worker[w].engines
  BY <1>3, <1>7, RecordActiveFields
<1>9. \A q \in Runs \ {r} : t.run[q] = s.run[q]
  BY <1>2, <1>4, <1>7, <1>8
<1>10. \A v \in Workers \ {w} : t.worker[v] = s.worker[v]
  BY <1>2, <1>4, <1>7, <1>8
<1>11. /\ t.run[r].engines = CountEngines(s.run[r].engines - k, e)
       /\ t.worker[w].engines = CountEngines(Less(s.worker[w].engines, k), e)
  BY <1>4, <1>5, <1>7, <1>8
<1>12. t.run[r].state = CASE e.state # "none" -> e.state
                          [] e.event = "spider_opened" -> "running"
                          [] OTHER -> s.run[r].state
  BY <1>4, <1>5, <1>7, <1>8
<1>13. t.runAt = Newest(s.runAt, r) /\ t.workerAt = Newest(s.workerAt, w)
  BY <1>2, <1>4, <1>7, <1>8
<1> QED BY <1>2, <1>8, <1>9, <1>10, <1>11, <1>12, <1>13

\* A merged event keeps the engines of a worker to its runs.
LEMMA MergeOwned ==
    ASSUME NEW s \in Stores, NEW e \in HubEvents, NEW t, t = Merge(s, e),
           EachOnce(s.runAt), EachOnce(s.workerAt),
           e.event = "engine_started" => e.state = "running" /\ s.run[e.run].engines < RunEngines,
           NEW o \in [Workers -> Nat], OwnedIn(s, o), NoneAfterEnd(s)
    PROVE  OwnedIn(t, o) /\ NoneAfterEnd(t)
<1> DEFINE r == e.run
           w == WorkerOf[e.run]
           k == IF e.state \in Ended THEN s.run[e.run].engines ELSE 0
<1>1. /\ r \in Runs /\ w \in Workers /\ RunEngines \in Nat
      /\ s.run[r] \in RunSnapshot /\ s.worker[w] \in WorkerSnapshot
      /\ \A q \in Runs : WorkerOf[q] \in Workers
  BY HubStoreAssumption DEF Stores, HubEvents
<1>2. /\ t \in Stores
      /\ \A q \in Runs \ {r} : t.run[q] = s.run[q]
      /\ \A v \in Workers \ {w} : t.worker[v].engines = s.worker[v].engines
      /\ k \in Nat /\ k <= s.run[r].engines
      /\ t.run[r].engines = CountEngines(s.run[r].engines - k, e)
      /\ t.worker[w].engines = CountEngines(Less(s.worker[w].engines, k), e)
      /\ t.run[r].state = CASE e.state # "none" -> e.state
                            [] e.event = "spider_opened" -> "running"
                            [] OTHER -> s.run[r].state
  <2> HIDE DEF k
  <2>1. k = (IF e.state \in Ended THEN s.run[e.run].engines ELSE 0)
    BY DEF k
  <2> QED BY <2>1, MergeFields
<1>3. /\ s.run[r].engines \in 0 .. RunEngines /\ t.run[r].engines \in 0 .. RunEngines
      /\ s.worker[w].engines \in Nat
  BY <1>1, <1>2 DEF Stores, RunSnapshot, WorkerSnapshot
<1>4. OwnedIn(t, o)
  <2>1. ASSUME NEW v \in Workers \ {w}
        PROVE t.worker[v].engines <= o[v] + Cardinality(EnginesOf(t, v))
    <3>1. EnginesOf(t, v) = EnginesOf(s, v)
      BY <1>2, EnginesUnchanged
    <3> QED BY <1>2, <3>1 DEF OwnedIn
  <2>2. t.worker[w].engines <= o[w] + Cardinality(EnginesOf(t, w))
    <3> DEFINE c == Cardinality(EnginesOf(s, w))
               d == Cardinality(EnginesOf(t, w))
               n == s.run[r].engines
               m == s.worker[w].engines
    <3>1. d + n = c + t.run[r].engines
      BY <1>1, <1>2, <1>3, EnginesChanged
    <3>2. c \in Nat /\ d \in Nat /\ o[w] \in Nat /\ m <= o[w] + c
      BY <1>1, EnginesFinite DEF OwnedIn
    <3>3. n \in Nat /\ m \in Nat /\ k \in Nat /\ k <= n
      BY <1>2, <1>3
    <3>4. /\ t.run[r].engines = CountEngines(n - k, e)
          /\ t.worker[w].engines = CountEngines(Less(m, k), e)
      BY <1>2
    <3>5. e.event = "engine_started" => k = 0
      BY DEF Ended
    <3> SUFFICES t.worker[w].engines <= o[w] + d
      OBVIOUS
    <3> HIDE DEF c, d, n, m, k
    <3>6. n - k \in Nat /\ Less(m, k) \in Nat
      BY <3>2, <3>3 DEF Less
    <3>7. CASE e.event = "engine_started"
      <4>1. t.run[r].engines = n - k + 1 /\ t.worker[w].engines = Less(m, k) + 1 /\ Less(m, k) = m
        BY <3>3, <3>4, <3>5, <3>6, <3>7 DEF CountEngines, Less
      <4> QED BY <3>1, <3>2, <3>3, <3>5, <3>7, <4>1
    <3>8. CASE e.event = "engine_stopped"
      <4>1. /\ t.run[r].engines = Less(n - k, 1) /\ t.worker[w].engines = Less(Less(m, k), 1)
        BY <3>4, <3>8 DEF CountEngines
      <4> QED BY <3>1, <3>2, <3>3, <4>1 DEF Less
    <3>9. CASE e.event \notin {"engine_started", "engine_stopped"}
      <4>1. t.run[r].engines = n - k /\ t.worker[w].engines = Less(m, k)
        BY <3>4, <3>9 DEF CountEngines
      <4> QED BY <3>1, <3>2, <3>3, <4>1 DEF Less
    <3> QED BY <3>7, <3>8, <3>9
  <2> QED BY <2>1, <2>2 DEF OwnedIn
<1>5. NoneAfterEnd(t)
  <2> SUFFICES ASSUME t.run[r].state \in Ended PROVE t.run[r].engines = 0
    BY <1>2 DEF NoneAfterEnd
  <2>1. e.event # "engine_started"
    BY <1>2 DEF Ended
  <2>2. s.run[r].engines - k = 0
    <3>1. CASE e.state \in Ended
      BY <1>3, <3>1
    <3>2. CASE e.state \notin Ended
      <4>1. e.state = "none" /\ s.run[r].state \in Ended /\ k = 0
        BY <1>2, <3>2 DEF HubEvents, Ended
      <4> QED BY <1>1, <4>1 DEF NoneAfterEnd
    <3> QED BY <3>1, <3>2
  <2>3. CountEngines(0, e) = 0
    BY <2>1 DEF CountEngines, Less
  <2> HIDE DEF k
  <2> QED BY <1>2, <2>2, <2>3
<1> QED BY <1>4, <1>5

\* What is not retained has nothing left.
RunsForgotten(s) == \A r \in Runs \ ToSet(s.runAt) : s.run[r] = NoRun
WorkersForgotten(s) == \A w \in Workers \ ToSet(s.workerAt) : s.worker[w] = NoWorker

\* Nothing is a snapshot too.
LEMMA NothingTyped ==
    /\ NoRun \in RunSnapshot /\ NoRun.engines = 0 /\ NoRun.state \notin Ended
    /\ NoWorker \in WorkerSnapshot /\ NoWorker.engines = 0
<1>1. Cardinality(Runs) \in Nat
  BY HubStoreAssumption, FS_CardinalityType
<1> QED BY <1>1, HubStoreAssumption DEF NoRun, NoWorker, RunSnapshot, WorkerSnapshot, Ended

\* At most one run is evicted, and its engines are counted as orphans.
LEMMA EvictRunKeeps ==
    ASSUME NEW s \in Stores, NEW t, t = EvictRun(s), EachOnce(s.runAt), RunsForgotten(s),
           Len(s.runAt) <= MaxRuns + 1, NEW o \in [Workers -> Nat], OwnedIn(s, o),
           NoneAfterEnd(s), NEW p,
           p = [w \in Workers |-> o[w] + EvictedEngines(s, t, w)]
    PROVE  /\ t \in Stores /\ EachOnce(t.runAt) /\ RunsForgotten(t) /\ Len(t.runAt) <= MaxRuns
           /\ t.worker = s.worker /\ t.workerAt = s.workerAt
           /\ \A r \in Runs : t.run[r] \in {s.run[r], NoRun}
           /\ p \in [Workers -> Nat] /\ OwnedIn(t, p) /\ NoneAfterEnd(t)
<1>1. /\ s.run \in [Runs -> RunSnapshot] /\ s.runAt \in Seq(Runs) /\ MaxRuns \in Nat
      /\ s.worker \in [Workers -> WorkerSnapshot] /\ s.workerAt \in Seq(Workers)
      /\ \A r \in Runs : WorkerOf[r] \in Workers /\ s.run[r].engines \in 0 .. RunEngines
      /\ RunEngines \in Nat
      /\ s = [run |-> s.run, runAt |-> s.runAt, worker |-> s.worker, workerAt |-> s.workerAt]
  BY HubStoreAssumption DEF Stores, RunSnapshot
<1>2. CASE Len(s.runAt) <= MaxRuns
  <2>1. t = s
    BY <1>2 DEF EvictRun
  <2>2. \A w \in Workers : p[w] = o[w]
    BY <2>1 DEF EvictedEngines
  <2>3. p = o
    <3>1. p = [w \in Workers |-> p[w]] /\ o = [w \in Workers |-> o[w]]
      OBVIOUS
    <3> QED BY <2>2, <3>1
  <2> QED BY <1>2, <2>1, <2>3
<1>3. CASE ~(Len(s.runAt) <= MaxRuns)
  <2> DEFINE v == RunVictim(s)
  <2>1. /\ t = [s EXCEPT !.run[v] = NoRun, !.runAt = Without(@, v)]
        /\ Len(s.runAt) > 0
    BY <1>1, <1>3 DEF EvictRun
  <2>2. v \in ToSet(s.runAt)
    BY <1>1, <2>1, VictimRetained DEF RunVictim
  <2>3. v \in Runs
    BY <1>1, <2>2 DEF ToSet
  <2> HIDE DEF v
  <2>4. /\ t.run = [s.run EXCEPT ![v] = NoRun] /\ t.runAt = Without(s.runAt, v)
        /\ t.worker = s.worker /\ t.workerAt = s.workerAt
        /\ t = [run |-> t.run, runAt |-> t.runAt, worker |-> t.worker, workerAt |-> t.workerAt]
    BY <1>1, <2>1
  <2>5. /\ t.runAt \in Seq(Runs) /\ EachOnce(t.runAt) /\ ToSet(t.runAt) = ToSet(s.runAt) \ {v}
        /\ Len(s.runAt) \in Nat /\ Len(t.runAt) = Len(s.runAt) - 1
    BY <1>1, <2>2, <2>4, WithoutKeeps
  <2>6. t.run \in [Runs -> RunSnapshot] /\ t.run[v] = NoRun
        /\ \A r \in Runs \ {v} : t.run[r] = s.run[r]
    BY <1>1, <2>3, <2>4, NothingTyped
  <2>7. t \in Stores
    BY <1>1, <2>4, <2>5, <2>6 DEF Stores
  <2>8. RunsForgotten(t)
    BY <2>5, <2>6 DEF RunsForgotten
  <2>9. Len(t.runAt) <= MaxRuns
    BY <1>1, <2>5
  <2>10. \A w \in Workers : p[w] = IF w = WorkerOf[v] THEN o[w] + s.run[v].engines ELSE o[w]
    <3> SUFFICES ASSUME NEW w \in Workers
                 PROVE p[w] = IF w = WorkerOf[v] THEN o[w] + s.run[v].engines ELSE o[w]
      OBVIOUS
    <3> DEFINE gone == {r \in ToSet(s.runAt) \ ToSet(t.runAt) : WorkerOf[r] = w}
    <3>1. p[w] = o[w] + IF gone = {} THEN 0 ELSE s.run[CHOOSE r \in gone : TRUE].engines
      BY DEF EvictedEngines
    <3>2. gone = IF w = WorkerOf[v] THEN {v} ELSE {}
      BY <2>2, <2>5
    <3> HIDE DEF gone
    <3>3. CASE w = WorkerOf[v]
      <4>1. gone = {v} /\ (CHOOSE r \in gone : TRUE) = v
        BY <3>2, <3>3
      <4> QED BY <3>1, <3>3, <4>1
    <3>4. CASE w # WorkerOf[v]
      BY <3>1, <3>2, <3>4
    <3> QED BY <3>3, <3>4
  <2>11. p \in [Workers -> Nat]
    <3>1. \A w \in Workers : p[w] \in Nat
      <4>1. s.run[v].engines \in Nat /\ \A w \in Workers : o[w] \in Nat
        BY <1>1, <2>3
      <4> QED BY <2>10, <4>1
    <3> QED BY <3>1
  <2>12. OwnedIn(t, p)
    <3>1. ASSUME NEW w \in Workers \ {WorkerOf[v]}
          PROVE t.worker[w].engines <= p[w] + Cardinality(EnginesOf(t, w))
      <4>1. EnginesOf(t, w) = EnginesOf(s, w)
        BY <2>6, EnginesUnchanged
      <4>2. p[w] = o[w]
        BY <2>10
      <4> QED BY <2>4, <4>1, <4>2 DEF OwnedIn
    <3>2. ASSUME NEW w \in Workers, w = WorkerOf[v]
          PROVE t.worker[w].engines <= p[w] + Cardinality(EnginesOf(t, w))
      <4>1. t.run[v].engines = 0 /\ 0 \in 0 .. RunEngines
        BY <1>1, <2>6, NothingTyped
      <4>2. Cardinality(EnginesOf(t, w)) + s.run[v].engines = Cardinality(EnginesOf(s, w)) + 0
        <5>1. \A q \in Runs \ {v} : WorkerOf[q] = w => t.run[q].engines = s.run[q].engines
          BY <2>6
        <5>2. s.run[v].engines \in 0 .. RunEngines /\ t.run[v].engines \in 0 .. RunEngines
          BY <1>1, <2>3, <4>1
        <5>3. Cardinality(EnginesOf(t, w)) + s.run[v].engines
                = Cardinality(EnginesOf(s, w)) + t.run[v].engines
          BY ONLY <2>3, <3>2, <5>1, <5>2, EnginesChanged
        <5> QED BY <4>1, <5>3
      <4>3. p[w] = o[w] + s.run[v].engines
        BY <2>10, <3>2
      <4>4. /\ Cardinality(EnginesOf(t, w)) \in Nat /\ Cardinality(EnginesOf(s, w)) \in Nat
            /\ o[w] \in Nat /\ s.run[v].engines \in Nat
        BY <1>1, <2>3, EnginesFinite
      <4>5. t.worker[w].engines <= o[w] + Cardinality(EnginesOf(s, w))
        BY <2>4 DEF OwnedIn
      <4>6. t.worker[w].engines \in Nat
        BY <1>1, <2>4 DEF WorkerSnapshot
      <4> QED BY ONLY <4>2, <4>3, <4>4, <4>5, <4>6
    <3> QED BY <3>1, <3>2 DEF OwnedIn
  <2>13. NoneAfterEnd(t)
    BY <2>3, <2>6, NothingTyped DEF NoneAfterEnd
  <2> QED BY <2>4, <2>5, <2>6, <2>7, <2>8, <2>9, <2>11, <2>12, <2>13
<1> QED BY <1>2, <1>3

\* A worker that is evicted takes its engines with it.
LEMMA EvictWorkerKeeps ==
    ASSUME NEW s \in Stores, NEW t, t = EvictWorker(s), EachOnce(s.workerAt),
           WorkersForgotten(s), Len(s.workerAt) <= MaxWorkers + 1,
           NEW o \in [Workers -> Nat], OwnedIn(s, o)
    PROVE  /\ t \in Stores /\ EachOnce(t.workerAt) /\ WorkersForgotten(t)
           /\ Len(t.workerAt) <= MaxWorkers /\ t.run = s.run /\ t.runAt = s.runAt
           /\ OwnedIn(t, o)
<1>1. /\ s.run \in [Runs -> RunSnapshot] /\ s.runAt \in Seq(Runs) /\ MaxWorkers \in Nat
      /\ s.worker \in [Workers -> WorkerSnapshot] /\ s.workerAt \in Seq(Workers)
      /\ s = [run |-> s.run, runAt |-> s.runAt, worker |-> s.worker, workerAt |-> s.workerAt]
  BY HubStoreAssumption DEF Stores
<1>2. CASE Len(s.workerAt) <= MaxWorkers
  BY <1>2 DEF EvictWorker
<1>3. CASE ~(Len(s.workerAt) <= MaxWorkers)
  <2> DEFINE v == WorkerVictim(s)
  <2>1. /\ t = [s EXCEPT !.worker[v] = NoWorker, !.workerAt = Without(@, v)]
        /\ Len(s.workerAt) > 0
    BY <1>1, <1>3 DEF EvictWorker
  <2>2. v \in ToSet(s.workerAt)
    BY <1>1, <2>1, VictimRetained DEF WorkerVictim
  <2>3. v \in Workers
    BY <1>1, <2>2 DEF ToSet
  <2> HIDE DEF v
  <2>4. /\ t.worker = [s.worker EXCEPT ![v] = NoWorker] /\ t.workerAt = Without(s.workerAt, v)
        /\ t.run = s.run /\ t.runAt = s.runAt
        /\ t = [run |-> t.run, runAt |-> t.runAt, worker |-> t.worker, workerAt |-> t.workerAt]
    BY <1>1, <2>1
  <2>5. /\ t.workerAt \in Seq(Workers) /\ EachOnce(t.workerAt)
        /\ ToSet(t.workerAt) = ToSet(s.workerAt) \ {v}
        /\ Len(s.workerAt) \in Nat /\ Len(t.workerAt) = Len(s.workerAt) - 1
    BY <1>1, <2>2, <2>4, WithoutKeeps
  <2>6. t.worker \in [Workers -> WorkerSnapshot] /\ t.worker[v] = NoWorker
        /\ \A w \in Workers \ {v} : t.worker[w] = s.worker[w]
    BY <1>1, <2>3, <2>4, NothingTyped
  <2>7. t \in Stores
    BY <1>1, <2>4, <2>5, <2>6 DEF Stores
  <2>8. WorkersForgotten(t)
    BY <2>5, <2>6 DEF WorkersForgotten
  <2>9. Len(t.workerAt) <= MaxWorkers
    BY <1>1, <2>5
  <2>10. \A w \in Workers : EnginesOf(t, w) = EnginesOf(s, w)
    BY <2>4, EnginesUnchanged
  <2>11. OwnedIn(t, o)
    <3>1. ASSUME NEW w \in Workers \ {v}
          PROVE t.worker[w].engines <= o[w] + Cardinality(EnginesOf(t, w))
      BY <2>6, <2>10 DEF OwnedIn
    <3>2. t.worker[v].engines <= o[v] + Cardinality(EnginesOf(t, v))
      <4>1. t.worker[v].engines = 0 /\ o[v] \in Nat /\ Cardinality(EnginesOf(t, v)) \in Nat
        BY <2>3, <2>6, NothingTyped, EnginesFinite
      <4> QED BY <4>1
    <3> QED BY <3>1, <3>2 DEF OwnedIn
  <2> QED BY <2>4, <2>5, <2>7, <2>8, <2>9, <2>11
<1> QED BY <1>2, <1>3

\* What record() makes of an event, whether it is accepted or not.
LEMMA RecordKeeps ==
    ASSUME HubIInv, NEW e \in HubEvents, Record(e),
           e.event = "engine_started" => e.state = "running" /\ store.run[e.run].engines < RunEngines
    PROVE  /\ store' \in Stores /\ EachOnce(store'.runAt) /\ EachOnce(store'.workerAt)
           /\ Bounded' /\ EnginesOwned' /\ orphans' \in [Workers -> Nat]
           /\ \A r \in Runs \ {e.run} : store'.run[r].engines <= store.run[r].engines
           /\ store'.run[e.run].engines <= store.run[e.run].engines
                  + IF e.event = "engine_started" THEN 1 ELSE 0
           /\ \A r \in Runs : store'.run[r].state \in Ended =>
                  \/ store'.run[r].state = store.run[r].state
                  \/ r = e.run /\ store'.run[r].state = e.state
<1>1. /\ store \in Stores /\ EachOnce(store.runAt) /\ EachOnce(store.workerAt)
      /\ Bounded /\ EnginesOwned /\ orphans \in [Workers -> Nat]
  BY DEF HubIInv, HubStoreInv, HubSenders
<1>2. /\ e.run \in Runs /\ WorkerOf[e.run] \in Workers
      /\ \A r \in Runs : store.run[r].engines \in Nat
      /\ store.runAt \in Seq(Runs) /\ store.workerAt \in Seq(Workers)
      /\ MaxRuns \in Nat /\ MaxWorkers \in Nat
  BY <1>1, HubStoreAssumption DEF Stores, HubEvents, RunSnapshot
<1>3. CASE ~AcceptRunEvent(store, e)
  <2>1. UNCHANGED <<store, orphans>>
    BY <1>3 DEF Record
  <2>2. Bounded' /\ EnginesOwned'
    BY <1>1, <2>1 DEF Bounded, EnginesOwned, EnginesOf
  <2> QED BY <1>1, <1>2, <2>1, <2>2
<1>4. CASE AcceptRunEvent(store, e)
  <2> DEFINE m == Merge(store, e)
             a == EvictRun(m)
             b == EvictWorker(a)
  <2>1. /\ store' = b
        /\ orphans' = [w \in Workers |-> orphans[w] + EvictedEngines(m, a, w)]
    BY <1>4 DEF Record
  <2>2. /\ RunsForgotten(store) /\ WorkersForgotten(store)
        /\ OwnedIn(store, orphans) /\ NoneAfterEnd(store)
        /\ Len(store.runAt) <= MaxRuns /\ Len(store.workerAt) <= MaxWorkers
    BY <1>1 DEF Bounded, EnginesOwned, RunsForgotten, WorkersForgotten, OwnedIn, NoneAfterEnd
  <2>3. OwnedIn(m, orphans) /\ NoneAfterEnd(m)
    BY <1>1, <2>2, MergeOwned
  <2> DEFINE k == IF e.state \in Ended THEN store.run[e.run].engines ELSE 0
  <2>4. /\ m \in Stores
        /\ m.runAt = Newest(store.runAt, e.run)
        /\ m.workerAt = Newest(store.workerAt, WorkerOf[e.run])
        /\ \A r \in Runs \ {e.run} : m.run[r] = store.run[r]
        /\ \A w \in Workers \ {WorkerOf[e.run]} : m.worker[w] = store.worker[w]
        /\ k \in Nat /\ k <= store.run[e.run].engines
        /\ m.run[e.run].engines = CountEngines(store.run[e.run].engines - k, e)
        /\ m.run[e.run].state = CASE e.state # "none" -> e.state
                                  [] e.event = "spider_opened" -> "running"
                                  [] OTHER -> store.run[e.run].state
    <3> HIDE DEF m, k
    <3>1. m = Merge(store, e) /\ k = (IF e.state \in Ended THEN store.run[e.run].engines ELSE 0)
      BY DEF m, k
    <3> QED BY <1>1, <3>1, MergeFields
  <2> HIDE DEF m
  <2>5. /\ EachOnce(m.runAt) /\ ToSet(m.runAt) = ToSet(store.runAt) \cup {e.run}
        /\ Len(m.runAt) <= MaxRuns + 1
    <3> DEFINE new == Newest(store.runAt, e.run)
    <3>1. /\ EachOnce(new) /\ ToSet(new) = ToSet(store.runAt) \cup {e.run}
          /\ Len(store.runAt) \in Nat
          /\ Len(new) = IF e.run \in ToSet(store.runAt) THEN Len(store.runAt)
                                                         ELSE Len(store.runAt) + 1
      <4>1. e.run \in Runs /\ store.runAt \in Seq(Runs) /\ EachOnce(store.runAt)
        BY <1>1, <1>2
      <4>2. EachOnce(new)
        BY ONLY <4>1, NewestKeeps
      <4>3. ToSet(new) = ToSet(store.runAt) \cup {e.run}
        BY ONLY <4>1, NewestKeeps
      <4>4. Len(store.runAt) \in Nat
        BY ONLY <4>1, NewestKeeps
      <4>5. Len(new) = IF e.run \in ToSet(store.runAt) THEN Len(store.runAt)
                                                         ELSE Len(store.runAt) + 1
        BY ONLY <4>1, NewestKeeps
      <4> QED BY <4>2, <4>3, <4>4, <4>5
    <3>2. m.runAt = new
      BY <2>4
    <3> HIDE DEF new
    <3> QED BY <1>2, <2>2, <3>1, <3>2
  <2>6. /\ EachOnce(m.workerAt)
        /\ ToSet(m.workerAt) = ToSet(store.workerAt) \cup {WorkerOf[e.run]}
        /\ Len(m.workerAt) <= MaxWorkers + 1
    <3> DEFINE new == Newest(store.workerAt, WorkerOf[e.run])
    <3>1. /\ EachOnce(new) /\ ToSet(new) = ToSet(store.workerAt) \cup {WorkerOf[e.run]}
          /\ Len(store.workerAt) \in Nat
          /\ Len(new) = IF WorkerOf[e.run] \in ToSet(store.workerAt)
                        THEN Len(store.workerAt) ELSE Len(store.workerAt) + 1
      <4>1. /\ WorkerOf[e.run] \in Workers /\ store.workerAt \in Seq(Workers)
            /\ EachOnce(store.workerAt)
        BY <1>1, <1>2
      <4>2. EachOnce(new)
        BY ONLY <4>1, NewestKeeps
      <4>3. ToSet(new) = ToSet(store.workerAt) \cup {WorkerOf[e.run]}
        BY ONLY <4>1, NewestKeeps
      <4>4. Len(store.workerAt) \in Nat
        BY ONLY <4>1, NewestKeeps
      <4>5. Len(new) = IF WorkerOf[e.run] \in ToSet(store.workerAt)
                       THEN Len(store.workerAt) ELSE Len(store.workerAt) + 1
        BY ONLY <4>1, NewestKeeps
      <4> QED BY <4>2, <4>3, <4>4, <4>5
    <3>2. m.workerAt = new
      BY <2>4
    <3> HIDE DEF new
    <3> QED BY <1>2, <2>2, <3>1, <3>2
  <2>7. RunsForgotten(m) /\ WorkersForgotten(m)
    BY <2>2, <2>4, <2>5, <2>6 DEF RunsForgotten, WorkersForgotten
  <2>8. /\ a \in Stores /\ EachOnce(a.runAt) /\ RunsForgotten(a) /\ Len(a.runAt) <= MaxRuns
        /\ a.worker = m.worker /\ a.workerAt = m.workerAt
        /\ \A r \in Runs : a.run[r] \in {m.run[r], NoRun}
        /\ orphans' \in [Workers -> Nat] /\ OwnedIn(a, orphans') /\ NoneAfterEnd(a)
    <3> HIDE DEF a
    <3>1. /\ a = EvictRun(m)
          /\ orphans' = [w \in Workers |-> orphans[w] + EvictedEngines(m, a, w)]
      BY <2>1 DEF a
    <3>2. m \in Stores
      BY <2>4
    <3> QED BY ONLY <1>1, <2>3, <2>5, <2>7, <3>1, <3>2, EvictRunKeeps
  <2> HIDE DEF a
  <2>9. /\ b \in Stores /\ EachOnce(b.workerAt) /\ WorkersForgotten(b)
        /\ Len(b.workerAt) <= MaxWorkers /\ b.run = a.run /\ b.runAt = a.runAt
        /\ OwnedIn(b, orphans')
    <3> HIDE DEF b
    <3>1. b = EvictWorker(a)
      BY DEF b
    <3>2. WorkersForgotten(a)
      BY <2>7, <2>8 DEF WorkersForgotten
    <3>3. EachOnce(a.workerAt) /\ Len(a.workerAt) <= MaxWorkers + 1
      BY <2>6, <2>8
    <3> QED BY ONLY <2>8, <3>1, <3>2, <3>3, EvictWorkerKeeps
  <2> HIDE DEF b
  <2>10. Bounded'
    BY <2>1, <2>8, <2>9 DEF Bounded, RunsForgotten, WorkersForgotten
  <2>11. EnginesOwned'
    <3>1. OwnedIn(store', orphans') /\ NoneAfterEnd(store')
      BY <2>1, <2>8, <2>9 DEF NoneAfterEnd
    <3> QED BY <3>1 DEF EnginesOwned, OwnedIn, NoneAfterEnd, EnginesOf
  <2>12. \A r \in Runs : store'.run[r] \in {m.run[r], NoRun}
    BY <2>1, <2>8, <2>9
  <2>13. \A r \in Runs \ {e.run} : store'.run[r].engines <= store.run[r].engines
    BY <1>2, <2>4, <2>12, NothingTyped
  <2>14. store'.run[e.run].engines <= store.run[e.run].engines
            + IF e.event = "engine_started" THEN 1 ELSE 0
    <3> HIDE DEF k
    <3>1. store.run[e.run].engines - k \in Nat /\ store.run[e.run].engines \in Nat
      BY <1>2, <2>4
    <3>2. m.run[e.run].engines <= store.run[e.run].engines
             + IF e.event = "engine_started" THEN 1 ELSE 0
      <4>1. CASE e.event = "engine_started"
        <5>1. CountEngines(store.run[e.run].engines - k, e) = store.run[e.run].engines - k + 1
          BY <3>1, <4>1, CountTyped
        <5> QED BY <2>4, <3>1, <4>1, <5>1
      <4>2. CASE e.event # "engine_started"
        <5>1. /\ CountEngines(store.run[e.run].engines - k, e) <= store.run[e.run].engines - k
              /\ CountEngines(store.run[e.run].engines - k, e) \in Nat
          BY <3>1, <4>2, CountTyped
        <5> QED BY <2>4, <3>1, <4>2, <5>1
      <4> QED BY <4>1, <4>2
    <3> QED BY <1>2, <2>12, <3>1, <3>2, NothingTyped
  <2>15. \A r \in Runs : store'.run[r].state \in Ended =>
                  \/ store'.run[r].state = store.run[r].state
                  \/ r = e.run /\ store'.run[r].state = e.state
    <3> SUFFICES ASSUME NEW r \in Runs, store'.run[r].state \in Ended
                 PROVE  \/ store'.run[r].state = store.run[r].state
                        \/ r = e.run /\ store'.run[r].state = e.state
      OBVIOUS
    <3>1. store'.run[r] = m.run[r]
      BY <2>12, NothingTyped
    <3>2. CASE r # e.run
      BY <2>4, <3>1, <3>2
    <3>3. CASE r = e.run
      <4>1. "running" \notin Ended
        BY DEF Ended
      <4> QED BY <2>4, <3>1, <3>3, <4>1
    <3> QED BY <3>2, <3>3
  <2> QED BY <2>1, <2>8, <2>9, <2>10, <2>11, <2>13, <2>14, <2>15
<1> QED BY <1>3, <1>4

\* The parts of the invariant, and what they say of one run.
LEMMA HubParts ==
    ASSUME HubIInv
    PROVE  /\ HubSenders /\ StartsCounted /\ store \in Stores /\ Bounded /\ EnginesOwned
           /\ EndsReported /\ EachOnce(store.runAt) /\ EachOnce(store.workerAt)
           /\ posts \in [Runs -> Nat] /\ postFaults \in 0 .. MaxPostFaults
           /\ \A e \in late : e.seq \in 1 .. posts[e.run]
           /\ RunEngines \in Nat
           /\ \A r \in Runs : /\ store.run[r].engines \in Nat /\ begun[r] \in 0 .. RunEngines
                              /\ IsFiniteSet(LateStarts(r)) /\ Cardinality(LateStarts(r)) \in Nat
<1>1. /\ HubSenders /\ StartsCounted /\ store \in Stores /\ Bounded /\ EnginesOwned
      /\ EndsReported /\ EachOnce(store.runAt) /\ EachOnce(store.workerAt)
      /\ posts \in [Runs -> Nat] /\ postFaults \in 0 .. MaxPostFaults
      /\ \A e \in late : e.seq \in 1 .. posts[e.run]
      /\ RunEngines \in Nat
  BY HubStoreAssumption DEF HubIInv, HubStoreInv, HubStoreTypeOK
<1>2. \A r \in Runs : store.run[r].engines \in Nat /\ begun[r] \in 0 .. RunEngines
  BY <1>1 DEF Stores, RunSnapshot, HubSenders
<1>3. \A r \in Runs : IsFiniteSet(LateStarts(r)) /\ Cardinality(LateStarts(r)) \in Nat
  <2> SUFFICES ASSUME NEW r \in Runs
               PROVE IsFiniteSet(LateStarts(r)) /\ Cardinality(LateStarts(r)) \in Nat
    OBVIOUS
  <2>1. LateStarts(r) \subseteq late /\ IsFiniteSet(late)
    BY <1>1 DEF LateStarts, HubSenders
  <2> QED BY <2>1, FS_Subset, FS_CardinalityType
<1> QED BY <1>1, <1>2, <1>3

\* The types follow from those of the store.
LEMMA HubTyped ==
    ASSUME NEW s \in Stores
    PROVE  /\ s.run \in [Runs -> [state : Ended \cup {"accepted", "running"},
                                  seq : Nat, engines : 0 .. RunEngines]]
           /\ s.worker \in [Workers -> [state : {"registered", "running", "stopped"},
                                        runs : 0 .. Cardinality(Runs), engines : Nat]]
BY DEF Stores, RunSnapshot, WorkerSnapshot

\* A run posts: the Hub records the post, records it later, or never.
LEMMA PostKeeps ==
    ASSUME HubIInv, NEW r \in Runs,
           NEW event \in {"engine_started", "engine_stopped", "run_ended", "spider_opened",
                          "counters"},
           NEW state \in Ended \cup {"running", "none"}, Post(r, event, state),
           begun' \in [Runs -> 0 .. RunEngines], halted' \in [Runs -> Nat],
           outcome' \in [Runs -> Ended \cup {"none"}],
           event = "engine_started" => state = "running" /\ begun[r] < RunEngines,
           \A q \in Runs : begun[q] + (IF q = r /\ event = "engine_started" THEN 1 ELSE 0)
                               <= begun'[q],
           \A q \in Runs : halted[q] <= halted'[q],
           \A q \in Runs : outcome[q] \in Ended => outcome'[q] = outcome[q],
           state \in Ended => EndReported(r, state)'
    PROVE HubIInv'
<1> DEFINE e == [run |-> r, seq |-> posts[r] + 1, event |-> event, state |-> state]
<1>1. /\ posts' = [posts EXCEPT ![r] = @ + 1]
      /\ \/ Record(e) /\ UNCHANGED <<late, postFaults>>
         \/ /\ postFaults < MaxPostFaults /\ postFaults' = postFaults + 1
            /\ late' \in {late, late \cup {e}}
            /\ UNCHANGED <<store, orphans>>
  BY DEF Post
<1>2. /\ HubSenders /\ StartsCounted /\ store \in Stores /\ Bounded /\ EnginesOwned
      /\ EndsReported /\ EachOnce(store.runAt) /\ EachOnce(store.workerAt)
      /\ posts \in [Runs -> Nat] /\ postFaults \in 0 .. MaxPostFaults
      /\ \A x \in late : x.seq \in 1 .. posts[x.run]
      /\ RunEngines \in Nat
      /\ \A q \in Runs : /\ store.run[q].engines \in Nat /\ begun[q] \in 0 .. RunEngines
                         /\ IsFiniteSet(LateStarts(q)) /\ Cardinality(LateStarts(q)) \in Nat
  BY HubParts
<1>3. e \in HubEvents /\ e.run = r /\ e.event = event /\ e.state = state /\ e.seq = posts[r] + 1
  BY <1>2 DEF HubEvents
<1> HIDE DEF e
<1>4. /\ posts' \in [Runs -> Nat] /\ posts'[r] = posts[r] + 1
      /\ \A q \in Runs : posts[q] <= posts'[q]
  BY <1>1, <1>2
<1>5. \A q \in Runs, x \in Ended : EndReported(q, x) => EndReported(q, x)'
  <2> SUFFICES ASSUME NEW q \in Runs, NEW x \in Ended, EndReported(q, x)
               PROVE  EndReported(q, x)'
    OBVIOUS
  <2>1. halted[q] \in Nat /\ halted'[q] \in Nat /\ halted[q] <= halted'[q]
    BY <1>2 DEF HubSenders
  <2> QED BY <2>1 DEF EndReported
<1>6. store.run[r].engines < RunEngines \/ event # "engine_started"
  <2>1. store.run[r].engines + Cardinality(LateStarts(r)) <= begun[r]
    BY <1>2 DEF StartsCounted
  <2> QED BY <1>2, <2>1
<1>7. /\ late' \subseteq HubEvents /\ IsFiniteSet(late') /\ late' \subseteq late \cup {e}
      /\ postFaults' \in 0 .. MaxPostFaults
      /\ \A x \in late' : EventTold(x)'
      /\ \A x \in late' : x.seq \in 1 .. posts'[x.run]
  <2>1. /\ late' \in {late, late \cup {e}} /\ postFaults' \in 0 .. MaxPostFaults
    BY <1>1, <1>2, HubStoreAssumption
  <2>2. IsFiniteSet(late) /\ IsFiniteSet(late \cup {e}) /\ late \subseteq HubEvents
    BY <1>2, FS_AddElement DEF HubSenders
  <2>3. \A x \in late : EventTold(x)'
    <3> SUFFICES ASSUME NEW x \in late PROVE EventTold(x)'
      OBVIOUS
    <3>1. EventTold(x) /\ x.run \in Runs
      BY <1>2, <2>2 DEF HubSenders, HubEvents
    <3> QED BY <1>5, <3>1 DEF EventTold
  <2>4. ASSUME NEW x, x = e PROVE EventTold(x)'
    BY <1>3, <2>4 DEF EventTold
  <2>5. \A x \in late \cup {e} : x.seq \in 1 .. posts'[x.run]
    <3> SUFFICES ASSUME NEW x \in late \cup {e} PROVE x.seq \in 1 .. posts'[x.run]
      OBVIOUS
    <3>1. x.run \in Runs /\ posts[x.run] \in Nat /\ posts'[x.run] \in Nat
          /\ posts[x.run] <= posts'[x.run]
      BY <1>2, <1>3, <1>4, <2>2 DEF HubEvents
    <3>2. CASE x \in late
      BY <1>2, <3>1, <3>2
    <3>3. CASE x = e
      BY <1>3, <1>4, <3>1, <3>3
    <3> QED BY <3>2, <3>3
  <2>6. \A x \in late' : EventTold(x)'
    <3> SUFFICES ASSUME NEW x \in late' PROVE EventTold(x)'
      OBVIOUS
    <3>1. x \in late \/ x = e
      BY <2>1
    <3> QED BY <2>3, <2>4, <3>1
  <2>7. late' \subseteq HubEvents /\ IsFiniteSet(late') /\ late' \subseteq late \cup {e}
    BY <1>3, <2>1, <2>2
  <2> QED BY <2>1, <2>5, <2>6, <2>7
<1>8. CASE Record(e) /\ UNCHANGED <<late, postFaults>>
  <2>1. /\ store' \in Stores /\ EachOnce(store'.runAt) /\ EachOnce(store'.workerAt)
        /\ Bounded' /\ EnginesOwned' /\ orphans' \in [Workers -> Nat]
        /\ \A q \in Runs \ {r} : store'.run[q].engines <= store.run[q].engines
        /\ store'.run[r].engines <= store.run[r].engines
               + IF event = "engine_started" THEN 1 ELSE 0
        /\ \A q \in Runs : store'.run[q].state \in Ended =>
               \/ store'.run[q].state = store.run[q].state
               \/ q = r /\ store'.run[q].state = state
    <3>1. e.event = "engine_started" => e.state = "running" /\ store.run[e.run].engines < RunEngines
      BY <1>3, <1>6
    <3>2. Record(e)
      BY <1>8
    <3> QED BY ONLY HubIInv, <1>3, <3>1, <3>2, RecordKeeps
  <2>2. HubSenders'
    BY <1>7, <2>1 DEF HubSenders
  <2>3. EndsReported'
    <3> SUFFICES ASSUME NEW q \in Runs, NEW x \in Ended, x = store'.run[q].state
                 PROVE EndReported(q, x)'
      BY DEF EndsReported, EndReported
    <3>1. CASE x = store.run[q].state
      BY <1>2, <1>5, <3>1 DEF EndsReported, EndReported
    <3>2. CASE q = r /\ x = state
      BY <3>2
    <3> QED BY <2>1, <3>1, <3>2
  <2>4. StartsCounted'
    <3> SUFFICES ASSUME NEW q \in Runs
                 PROVE store'.run[q].engines + Cardinality(LateStarts(q)') <= begun'[q]
      BY DEF StartsCounted
    <3>1. LateStarts(q)' = LateStarts(q)
      BY <1>8 DEF LateStarts
    <3>2. store.run[q].engines + Cardinality(LateStarts(q)) <= begun[q]
      BY <1>2 DEF StartsCounted
    <3>3. store'.run[q].engines \in Nat /\ begun'[q] \in Nat
      BY <1>2, <2>1 DEF Stores, RunSnapshot
    <3>4. store'.run[q].engines <= store.run[q].engines
             + IF q = r /\ event = "engine_started" THEN 1 ELSE 0
      BY <1>2, <2>1, <3>3
    <3> QED BY <1>2, <3>1, <3>2, <3>3, <3>4
  <2>5. HubStoreTypeOK'
    BY <1>4, <1>7, <2>1, HubTyped DEF HubStoreTypeOK
  <2> QED BY <2>1, <2>2, <2>3, <2>4, <2>5 DEF HubIInv, HubStoreInv
<1>9. CASE late' \in {late, late \cup {e}} /\ UNCHANGED <<store, orphans>>
  <2>1. HubSenders'
    BY <1>2, <1>7, <1>9 DEF HubSenders
  <2>2. Bounded' /\ EnginesOwned'
    BY <1>2, <1>9 DEF Bounded, EnginesOwned, EnginesOf
  <2>3. EndsReported'
    <3> SUFFICES ASSUME NEW q \in Runs, NEW x \in Ended, x = store.run[q].state
                 PROVE EndReported(q, x)'
      BY <1>9 DEF EndsReported, EndReported
    <3> QED BY <1>2, <1>5 DEF EndsReported, EndReported
  <2>4. StartsCounted'
    <3> SUFFICES ASSUME NEW q \in Runs
                 PROVE store.run[q].engines + Cardinality(LateStarts(q)') <= begun'[q]
      BY <1>9 DEF StartsCounted
    <3>1. LateStarts(q)' \subseteq LateStarts(q) \cup
              (IF q = r /\ event = "engine_started" THEN {e} ELSE {})
      BY <1>3, <1>7 DEF LateStarts
    <3>2. store.run[q].engines + Cardinality(LateStarts(q)) <= begun[q]
      BY <1>2 DEF StartsCounted
    <3>3. /\ IsFiniteSet(LateStarts(q) \cup {e})
          /\ Cardinality(LateStarts(q) \cup {e}) \in Nat
          /\ Cardinality(LateStarts(q) \cup {e}) <= Cardinality(LateStarts(q)) + 1
      <4>1. /\ IsFiniteSet(LateStarts(q)) /\ Cardinality(LateStarts(q)) \in Nat
        BY <1>2
      <4>2. /\ IsFiniteSet(LateStarts(q) \cup {e})
            /\ Cardinality(LateStarts(q) \cup {e}) =
                  IF e \in LateStarts(q) THEN Cardinality(LateStarts(q))
                                         ELSE Cardinality(LateStarts(q)) + 1
        BY <4>1, FS_AddElement
      <4> QED BY <4>1, <4>2
    <3>4. Cardinality(LateStarts(q)') \in Nat
          /\ Cardinality(LateStarts(q)') <= Cardinality(LateStarts(q))
                + IF q = r /\ event = "engine_started" THEN 1 ELSE 0
      <4>1. CASE q = r /\ event = "engine_started"
        <5>1. LateStarts(q)' \subseteq LateStarts(q) \cup {e}
          BY <3>1, <4>1
        <5> DEFINE big == LateStarts(q) \cup {e}
                   now == LateStarts(q)'
        <5> HIDE DEF big, now
        <5>2. Cardinality(now) \in Nat /\ Cardinality(now) <= Cardinality(big)
          BY <3>3, <5>1, FS_Subset, FS_CardinalityType DEF big, now
        <5> QED BY <1>2, <3>3, <4>1, <5>2 DEF big, now
      <4>2. CASE ~(q = r /\ event = "engine_started")
        <5>1. LateStarts(q)' \subseteq LateStarts(q)
          BY <3>1, <4>2
        <5>2. Cardinality(LateStarts(q)') \in Nat
              /\ Cardinality(LateStarts(q)') <= Cardinality(LateStarts(q))
          BY <1>2, <5>1, FS_Subset, FS_CardinalityType
        <5> QED BY <1>2, <4>2, <5>2
      <4> QED BY <4>1, <4>2
    <3>5. begun'[q] \in Nat /\ begun[q] + (IF q = r /\ event = "engine_started" THEN 1 ELSE 0) <= begun'[q]
      BY <1>2
    <3> QED BY <1>2, <3>2, <3>4, <3>5
  <2>5. HubStoreTypeOK'
    BY <1>2, <1>4, <1>7, <1>9, HubTyped DEF HubStoreTypeOK
  <2> QED BY <1>2, <1>9, <2>1, <2>2, <2>3, <2>4, <2>5 DEF HubIInv, HubStoreInv
<1> QED BY <1>1, <1>8, <1>9

\* A late post arrives.
LEMMA HandleLateKeeps ==
    ASSUME HubIInv, NEW e \in late, HandleLate(e)
    PROVE HubIInv'
<1>1. /\ late' = late \ {e} /\ Record(e)
      /\ UNCHANGED <<posts, notes, begun, halted, outcome, postFaults>>
  BY DEF HandleLate, senderVars
<1>2. /\ HubSenders /\ StartsCounted /\ store \in Stores /\ EndsReported
      /\ posts \in [Runs -> Nat] /\ postFaults \in 0 .. MaxPostFaults
      /\ \A x \in late : x.seq \in 1 .. posts[x.run]
      /\ RunEngines \in Nat
      /\ \A q \in Runs : /\ store.run[q].engines \in Nat /\ begun[q] \in 0 .. RunEngines
                         /\ IsFiniteSet(LateStarts(q)) /\ Cardinality(LateStarts(q)) \in Nat
  BY HubParts
<1>3. e \in HubEvents /\ EventTold(e) /\ e.run \in Runs
  BY <1>2 DEF HubSenders, HubEvents
<1>4. \A q \in Runs : /\ Cardinality(LateStarts(q)') \in Nat
                      /\ Cardinality(LateStarts(q)') =
                            Cardinality(LateStarts(q))
                              - IF q = e.run /\ e.event = "engine_started" THEN 1 ELSE 0
  <2> SUFFICES ASSUME NEW q \in Runs
               PROVE /\ Cardinality(LateStarts(q)') \in Nat
                     /\ Cardinality(LateStarts(q)') =
                            Cardinality(LateStarts(q))
                              - IF q = e.run /\ e.event = "engine_started" THEN 1 ELSE 0
    OBVIOUS
  <2>1. LateStarts(q)' = LateStarts(q) \ {e}
    BY <1>1 DEF LateStarts
  <2>2. e \in LateStarts(q) <=> q = e.run /\ e.event = "engine_started"
    BY DEF LateStarts
  <2>3. /\ IsFiniteSet(LateStarts(q) \ {e})
        /\ Cardinality(LateStarts(q) \ {e}) = IF e \in LateStarts(q)
              THEN Cardinality(LateStarts(q)) - 1 ELSE Cardinality(LateStarts(q))
    BY <1>2, FS_RemoveElement
  <2>4. Cardinality(LateStarts(q) \ {e}) \in Nat
    BY <2>3, FS_CardinalityType
  <2>5. Cardinality(LateStarts(q)) \in Nat
    BY <1>2
  <2> QED BY <2>1, <2>2, <2>3, <2>4, <2>5
<1>5. e.event = "engine_started" => e.state = "running" /\ store.run[e.run].engines < RunEngines
  <2> SUFFICES ASSUME e.event = "engine_started"
               PROVE  e.state = "running" /\ store.run[e.run].engines < RunEngines
    OBVIOUS
  <2>1. store.run[e.run].engines + Cardinality(LateStarts(e.run)) <= begun[e.run]
    BY <1>2, <1>3 DEF StartsCounted
  <2> DEFINE c == Cardinality(LateStarts(e.run))
             d == Cardinality(LateStarts(e.run)')
  <2>2. c \in Nat /\ d \in Nat /\ d = c - 1
    BY <1>2, <1>3, <1>4
  <2> HIDE DEF c, d
  <2>3. store.run[e.run].engines + c <= begun[e.run]
    BY <2>1 DEF c
  <2>4. store.run[e.run].engines \in Nat /\ begun[e.run] \in 0 .. RunEngines
    BY <1>2, <1>3
  <2>5. store.run[e.run].engines < RunEngines
    BY ONLY <1>2, <2>2, <2>3, <2>4
  <2> QED BY <1>3, <2>5 DEF EventTold
<1>6. /\ store' \in Stores /\ EachOnce(store'.runAt) /\ EachOnce(store'.workerAt)
      /\ Bounded' /\ EnginesOwned' /\ orphans' \in [Workers -> Nat]
      /\ \A q \in Runs \ {e.run} : store'.run[q].engines <= store.run[q].engines
      /\ store'.run[e.run].engines <= store.run[e.run].engines
             + IF e.event = "engine_started" THEN 1 ELSE 0
      /\ \A q \in Runs : store'.run[q].state \in Ended =>
             \/ store'.run[q].state = store.run[q].state
             \/ q = e.run /\ store'.run[q].state = e.state
  BY <1>1, <1>3, <1>5, RecordKeeps
<1>7. \A q \in Runs, x \in Ended : EndReported(q, x) => EndReported(q, x)'
  BY <1>1 DEF EndReported
<1>8. HubSenders'
  <2>1. late' \subseteq HubEvents /\ IsFiniteSet(late') /\ late' \subseteq late
    BY <1>1, <1>2, FS_Subset DEF HubSenders
  <2>2. \A x \in late' : EventTold(x)'
    BY <1>1, <1>2, <2>1 DEF HubSenders, EventTold, EndReported
  <2> QED BY <1>1, <1>2, <1>6, <2>1, <2>2 DEF HubSenders
<1>9. EndsReported'
  <2> SUFFICES ASSUME NEW q \in Runs, NEW x \in Ended, x = store'.run[q].state
               PROVE EndReported(q, x)'
    BY DEF EndsReported, EndReported
  <2>1. CASE x = store.run[q].state
    BY <1>2, <1>7, <2>1 DEF EndsReported, EndReported
  <2>2. CASE q = e.run /\ x = e.state
    BY <1>3, <1>7, <2>2 DEF EventTold
  <2> QED BY <1>6, <2>1, <2>2
<1>10. StartsCounted'
  <2> SUFFICES ASSUME NEW q \in Runs
               PROVE store'.run[q].engines + Cardinality(LateStarts(q)') <= begun'[q]
    BY DEF StartsCounted
  <2> DEFINE n == IF q = e.run /\ e.event = "engine_started" THEN 1 ELSE 0
             c == Cardinality(LateStarts(q))
             d == Cardinality(LateStarts(q)')
  <2>1. store.run[q].engines + c <= begun[q] /\ begun'[q] = begun[q]
    BY <1>1, <1>2 DEF StartsCounted
  <2>2. d = c - n /\ c \in Nat /\ d \in Nat /\ n \in 0 .. 1
    BY <1>2, <1>4
  <2>3. store'.run[q].engines \in Nat /\ store.run[q].engines \in Nat /\ begun[q] \in Nat
    BY <1>2, <1>6 DEF Stores, RunSnapshot
  <2>4. store'.run[q].engines <= store.run[q].engines + n
    BY <1>6, <2>3
  <2> HIDE DEF n, c, d
  <2>5. store'.run[q].engines + d <= begun'[q]
    BY ONLY <2>1, <2>2, <2>3, <2>4
  <2> QED BY <2>5 DEF d
<1>11. HubStoreTypeOK'
  <2>1. \A x \in late' : x.seq \in 1 .. posts'[x.run]
    BY <1>1, <1>2
  <2> QED BY <1>1, <1>2, <1>6, <2>1, HubTyped DEF HubStoreTypeOK
<1> QED BY <1>6, <1>8, <1>9, <1>10, <1>11 DEF HubIInv, HubStoreInv

\* Every step keeps the invariant.
LEMMA HubKeeps ==
    ASSUME HubIInv, [HubStoreNext]_hubStoreVars
    PROVE HubIInv'
<1>1. /\ begun \in [Runs -> 0 .. RunEngines] /\ halted \in [Runs -> Nat]
      /\ outcome \in [Runs -> Ended \cup {"none"}] /\ RunEngines \in Nat
      /\ "none" \notin Ended
  BY HubParts DEF HubSenders, Ended
<1>2. ASSUME NEW r \in Runs, PostStarted(r) PROVE HubIInv'
  <2>1. /\ begun[r] < RunEngines /\ begun' = [begun EXCEPT ![r] = @ + 1]
        /\ Post(r, "engine_started", "running") /\ UNCHANGED <<notes, halted, outcome>>
    BY <1>2 DEF PostStarted
  <2>2. /\ begun' \in [Runs -> 0 .. RunEngines] /\ begun'[r] = begun[r] + 1
        /\ \A q \in Runs \ {r} : begun'[q] = begun[q]
    BY <1>1, <2>1
  <2>3. \A q \in Runs : begun[q] + (IF q = r THEN 1 ELSE 0) <= begun'[q]
    BY <1>1, <2>2
  <2>4. \A q \in Runs : halted[q] <= halted'[q] /\ outcome'[q] = outcome[q]
    BY <1>1, <2>1
  <2>5. "running" \notin Ended
    BY DEF Ended
  <2> QED BY <1>1, <2>1, <2>2, <2>3, <2>4, <2>5, PostKeeps
<1>3. ASSUME NEW r \in Runs, PostStopped(r) PROVE HubIInv'
  <2> DEFINE state == IF halted[r] + 1 < begun[r] THEN "running" ELSE "completed"
  <2>1. /\ halted' = [halted EXCEPT ![r] = @ + 1]
        /\ Post(r, "engine_stopped", state) /\ UNCHANGED <<notes, begun, outcome>>
    BY <1>3 DEF PostStopped
  <2>2. /\ halted' \in [Runs -> Nat] /\ halted'[r] > 0
        /\ \A q \in Runs : halted[q] <= halted'[q]
    BY <1>1, <2>1
  <2>3. \A q \in Runs : begun[q] + 0 <= begun'[q] /\ outcome'[q] = outcome[q]
    BY <1>1, <2>1
  <2>4. PICK x \in {"running", "completed"} : x = state
    OBVIOUS
  <2>5. x \in Ended => EndReported(r, x)'
    BY <2>2, <2>4 DEF Ended, EndReported
  <2>6. Post(r, "engine_stopped", x)
    BY <2>1, <2>4
  <2>7. x \in Ended \cup {"running", "none"}
    BY DEF Ended
  <2> QED BY <1>1, <2>1, <2>2, <2>3, <2>5, <2>6, <2>7, PostKeeps
<1>4. ASSUME NEW r \in Runs, PostOutcome(r) PROVE HubIInv'
  <2>1. PICK o \in Ended : /\ outcome[r] = "none" /\ outcome' = [outcome EXCEPT ![r] = o]
                           /\ Post(r, "run_ended", o) /\ UNCHANGED <<notes, begun, halted>>
    BY <1>4 DEF PostOutcome
  <2>2. /\ outcome' \in [Runs -> Ended \cup {"none"}] /\ outcome'[r] = o
        /\ \A q \in Runs : outcome[q] \in Ended => outcome'[q] = outcome[q]
    BY <1>1, <2>1
  <2>3. \A q \in Runs : begun[q] + 0 <= begun'[q] /\ halted[q] <= halted'[q]
    BY <1>1, <2>1
  <2>4. EndReported(r, o)'
    BY <2>2 DEF EndReported
  <2> QED BY <1>1, <2>1, <2>2, <2>3, <2>4, PostKeeps
<1>5. ASSUME NEW r \in Runs, NEW event \in {"spider_opened", "counters"}, PostNote(r, event)
      PROVE HubIInv'
  <2>1. Post(r, event, "none") /\ UNCHANGED <<begun, halted, outcome>>
    BY <1>5 DEF PostNote
  <2>2. \A q \in Runs : begun[q] + 0 <= begun'[q] /\ halted[q] <= halted'[q]
    BY <1>1, <2>1
  <2> QED BY <1>1, <2>1, <2>2, PostKeeps
<1>6. CASE UNCHANGED hubStoreVars
  BY <1>6, HubParts
     DEF hubStoreVars, senderVars, HubIInv, HubStoreInv, HubStoreTypeOK, HubSenders,
         StartsCounted, LateStarts, Bounded, EnginesOwned, EnginesOf, EndsReported,
         EventTold, EndReported
<1> QED BY <1>2, <1>3, <1>4, <1>5, <1>6, HandleLateKeeps DEF HubStoreNext

\* The Hub starts with nothing.
LEMMA HubBegins == HubStoreInit => HubIInv
<1> SUFFICES ASSUME HubStoreInit PROVE HubIInv
  OBVIOUS
<1>1. /\ store = EmptyStore /\ posts = [r \in Runs |-> 0]
      /\ begun = [r \in Runs |-> 0] /\ halted = [r \in Runs |-> 0]
      /\ outcome = [r \in Runs |-> "none"] /\ late = {} /\ postFaults = 0
      /\ orphans = [w \in Workers |-> 0] /\ RunEngines \in Nat
      /\ MaxRuns \in Nat /\ MaxWorkers \in Nat /\ MaxPostFaults \in Nat
  BY HubStoreAssumption DEF HubStoreInit
<1>2. store.runAt = <<>> /\ store.workerAt = <<>> /\ Len(<<>>) = 0
  BY <1>1 DEF EmptyStore
<1>3. /\ \A r \in Runs : store.run[r] = NoRun
      /\ \A w \in Workers : store.worker[w] = NoWorker
  BY <1>1 DEF EmptyStore
<1>4. store \in Stores
  BY <1>1, NothingTyped DEF EmptyStore, Stores
<1>5. Bounded /\ EachOnce(store.runAt) /\ EachOnce(store.workerAt)
  BY <1>1, <1>2, <1>3 DEF Bounded, EachOnce
<1>6. EnginesOwned
  <2>1. \A w \in Workers : store.worker[w].engines <=
                              orphans[w] + Cardinality(EnginesOf(store, w))
    <3> SUFFICES ASSUME NEW w \in Workers
                 PROVE 0 <= orphans[w] + Cardinality(EnginesOf(store, w))
      BY <1>3, NothingTyped
    <3>1. Cardinality(EnginesOf(store, w)) \in Nat /\ orphans[w] = 0
      BY <1>1, EnginesFinite
    <3> QED BY <3>1
  <2> QED BY <1>3, <2>1, NothingTyped DEF EnginesOwned
<1>7. EndsReported
  BY <1>3, NothingTyped DEF EndsReported
<1>8. HubStoreTypeOK
  BY <1>1, <1>4, HubTyped DEF HubStoreTypeOK
<1>9. HubSenders
  BY <1>1, FS_EmptySet DEF HubSenders
<1>10. StartsCounted
  <2>1. \A r \in Runs : LateStarts(r) = {}
    BY <1>1 DEF LateStarts
  <2> QED BY <1>1, <1>3, <2>1, NothingTyped, FS_EmptySet DEF StartsCounted
<1> QED BY <1>4, <1>5, <1>6, <1>7, <1>8, <1>9, <1>10 DEF HubIInv, HubStoreInv

---------------------------------------------------------------------------
(* What the composed run checks.                                           *)

\* A step of the composition is one of the component in focus, and leaves the
\* others alone.
LEMMA ObservedStep ==
    ASSUME [Next]_<<focus, leasesVars, handoverVars, dedupVars, sessionStateVars,
                    monitoringVars, hubStoreVars, politenessVars, eventStreamVars>>
    PROVE  [MonitoringNext]_monitoringVars /\ [HubStoreNext]_hubStoreVars
BY DEF Next

\* When stop() has ended, the signals emitted before it are dispatched and their
\* callbacks over, and no heartbeat is left when a run is closed.  The Hub retains
\* no more than it may and nothing of what it evicted; each engine it counts for
\* a worker is one of its runs, or of one evicted; and a run that it shows as
\* ended has no engines and has reported its end, whatever posts were lost or
\* late (SignalManager.stop, CrawlerMonitorExtension, MonitorStore.record).
THEOREM ObservationHolds == Spec => []ObservationInv
<1>1. Init => MonitoringIInv /\ HubIInv
  BY MonitoringBegins, HubBegins DEF Init
<1>2. MonitoringIInv /\ HubIInv /\ [Next]_<<focus, leasesVars, handoverVars, dedupVars,
        sessionStateVars, monitoringVars, hubStoreVars, politenessVars, eventStreamVars>>
          => (MonitoringIInv /\ HubIInv)'
  BY ObservedStep, MonitoringKeeps, HubKeeps
<1>3. MonitoringIInv /\ HubIInv => ObservationInv
  BY MonitoringImplies DEF ObservationInv, HubIInv
<1> QED BY <1>1, <1>2, <1>3, PTL DEF Spec
==============================================================================
