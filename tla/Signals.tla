------------------------------- MODULE Signals ------------------------------
(***************************************************************************)
(* extensions/signal_manager.py: the bounded signal queue, the tasks that  *)
(* put into it, the consumer task that dispatches to callbacks, and stop.  *)
(* The actions that emit signals and the callbacks belong to the module    *)
(* that extends this one.  Every emission is a value of its own and has a  *)
(* listener (send ignores signals nobody listens to).                      *)
(***************************************************************************)
EXTENDS Naturals, Sequences, FiniteSets

CONSTANTS
    Emissions,  \* the signals sent during a run
    Sentinel,   \* (None, None)
    MaxQueue    \* maxsize of the queue

ASSUME SignalsAssumption ==
    /\ Sentinel \notin Emissions
    /\ MaxQueue \in Nat \ {0}

VARIABLES
    signalQueue,     \* _queue
    ready,           \* _put_tasks created and not yet run, in order
    blocked,         \* puts that found the queue full
    direct,          \* the waiting puts that engine or crawler await themselves
    consumer,        \* _run_task: "running", "done" or "cancelled"
    callbacks,       \* _pending_tasks
    stopping,        \* how far stop() is
    interrupted,     \* stop() was cancelled once
    gathered,        \* the put tasks stop() waits for
    stopEvent,       \* stop_event
    beforeStop,      \* signals sent or enqueued before stop() was called
    dispatched,      \* the signals the consumer took
    overflowed       \* the signals dropped because the queue stayed full

putState == <<signalQueue, ready, blocked, direct, overflowed>>
signalVars == <<putState, consumer, callbacks, stopping, interrupted, gathered, stopEvent,
                beforeStop, dispatched>>

SignalsTypeOK ==
    /\ signalQueue \in Seq(Emissions \cup {Sentinel})
    /\ Len(signalQueue) <= MaxQueue
    /\ ready \in Seq(Emissions)
    /\ blocked \subseteq Emissions
    /\ direct \subseteq blocked
    /\ consumer \in {"running", "done", "cancelled"}
    /\ callbacks \subseteq dispatched
    /\ stopping \in {"no", "puts", "consumer", "callbacks", "stopped",
                     "cancelled", "raised"}
    /\ interrupted \in BOOLEAN
    /\ gathered \subseteq Emissions
    /\ stopEvent \in BOOLEAN
    /\ beforeStop \subseteq Emissions
    /\ dispatched \subseteq Emissions
    /\ overflowed \subseteq Emissions

SignalsInit ==
    /\ signalQueue = <<>>
    /\ ready = <<>>
    /\ blocked = {}
    /\ direct = {}
    /\ consumer = "running"
    /\ callbacks = {}
    /\ stopping = "no"
    /\ interrupted = FALSE
    /\ gathered = {}
    /\ stopEvent = FALSE
    /\ beforeStop = {}
    /\ dispatched = {}
    /\ overflowed = {}

InReady == {ready[k] : k \in 1 .. Len(ready)}
Full == Len(signalQueue) >= MaxQueue

\* A signal counts as sent before the stop unless stop() was called.
Sent(s) == beforeStop' = IF stopping = "no" THEN beforeStop \cup {s}
                                            ELSE beforeStop

\* send: a put task, unless the runtime stops.
Send(s) ==
    /\ IF stopEvent
       THEN UNCHANGED <<ready, beforeStop>>
       ELSE ready' = Append(ready, s) /\ Sent(s)
    /\ UNCHANGED <<signalQueue, blocked, direct, overflowed>>

\* _safe_put awaited by the engine or the crawler: it does not look at the
\* stop event.
SafePut(s) ==
    /\ IF Full
       THEN /\ blocked' = blocked \cup {s}
            /\ direct' = direct \cup {s}
            /\ UNCHANGED <<signalQueue, beforeStop>>
       ELSE /\ signalQueue' = Append(signalQueue, s)
            /\ Sent(s)
            /\ UNCHANGED <<blocked, direct>>
    /\ UNCHANGED <<ready, overflowed>>

\* A put task runs: put_nowait, or a bounded wait.
RunPut ==
    /\ ready # <<>>
    /\ ready' = Tail(ready)
    /\ IF Full
       THEN blocked' = blocked \cup {Head(ready)} /\ UNCHANGED signalQueue
       ELSE signalQueue' = Append(signalQueue, Head(ready)) /\ UNCHANGED blocked
    /\ UNCHANGED <<direct, overflowed, consumer, callbacks, stopping, interrupted, gathered,
                   stopEvent, beforeStop, dispatched>>

PutWaiting(s) ==
    /\ s \in blocked
    /\ ~Full
    /\ signalQueue' = Append(signalQueue, s)
    /\ blocked' = blocked \ {s}
    /\ direct' = direct \ {s}
    /\ UNCHANGED <<ready, overflowed, consumer, callbacks, stopping, interrupted, gathered,
                   stopEvent, beforeStop, dispatched>>

\* The queue stayed full for 0.1 seconds.
PutTimesOut(s) ==
    /\ s \in blocked
    /\ Full
    /\ blocked' = blocked \ {s}
    /\ direct' = direct \ {s}
    /\ overflowed' = overflowed \cup {s}
    /\ UNCHANGED <<signalQueue, ready, consumer, callbacks, stopping, interrupted, gathered,
                   stopEvent, beforeStop, dispatched>>

\* run and _dispatch: the callbacks of a signal become a task.
Dispatch(s) ==
    /\ consumer = "running"
    /\ signalQueue # <<>>
    /\ Head(signalQueue) = s
    /\ signalQueue' = Tail(signalQueue)
    /\ dispatched' = dispatched \cup {s}
    /\ callbacks' = callbacks \cup {s}
    /\ UNCHANGED <<ready, blocked, direct, overflowed, consumer, stopping,
                   interrupted, gathered, stopEvent, beforeStop>>

ConsumeSentinel ==
    /\ consumer = "running"
    /\ signalQueue # <<>>
    /\ Head(signalQueue) = Sentinel
    /\ signalQueue' = Tail(signalQueue)
    /\ consumer' = "done"
    /\ UNCHANGED <<ready, blocked, direct, overflowed, callbacks, stopping,
                   interrupted, gathered, stopEvent, beforeStop, dispatched>>

\* stop: gather the put tasks that exist now, ...
Stop ==
    /\ stopping \in {"no", "cancelled"}
    /\ stopping' = "puts"
    /\ gathered' = InReady \cup (blocked \ direct)
    /\ UNCHANGED <<putState, consumer, callbacks, interrupted, stopEvent,
                   beforeStop, dispatched>>

\* What stop() leaves alone after its first step.
StopFrame == UNCHANGED <<ready, blocked, direct, overflowed, consumer,
                         callbacks, interrupted, gathered, stopEvent,
                         beforeStop, dispatched>>

\* Mutant: the sentinel does not wait for the put tasks.
StopSentinelAtOnce ==
    /\ stopping = "puts"
    /\ stopping' = "consumer"
    /\ IF consumer = "running"
       THEN ~Full /\ signalQueue' = Append(signalQueue, Sentinel)
       ELSE UNCHANGED signalQueue
    /\ StopFrame

\* ... put the sentinel when there is room, ...
StopSentinel ==
    /\ stopping = "puts"
    /\ gathered \cap (InReady \cup blocked) = {}
    /\ stopping' = "consumer"
    /\ IF consumer = "running"
       THEN ~Full /\ signalQueue' = Append(signalQueue, Sentinel)
       ELSE UNCHANGED signalQueue
    /\ StopFrame

\* ... await the consumer, which raises when it was cancelled, ...
StopConsumer ==
    /\ stopping = "consumer"
    /\ consumer # "running"
    /\ stopping' = IF consumer = "done" THEN "callbacks" ELSE "raised"
    /\ StopFrame
    /\ UNCHANGED signalQueue

\* ... and the callbacks.
StopCallbacks ==
    /\ stopping = "callbacks"
    /\ callbacks = {}
    /\ stopping' = "stopped"
    /\ StopFrame
    /\ UNCHANGED signalQueue

\* stop() is cancelled: what it awaits is cancelled with it.
StopCancelled ==
    /\ ~interrupted
    /\ interrupted' = TRUE
    /\ stopping \in {"puts", "consumer", "callbacks"}
    /\ stopping' = "cancelled"
    /\ consumer' = IF stopping = "consumer" THEN "cancelled" ELSE consumer
    /\ callbacks' = IF stopping = "puts" THEN callbacks ELSE {}
    /\ ready' = IF stopping = "puts" THEN <<>> ELSE ready
    /\ blocked' = IF stopping = "puts" THEN direct ELSE blocked
    /\ UNCHANGED <<signalQueue, direct, overflowed, gathered, stopEvent,
                   beforeStop, dispatched>>

CallbackEnds(s) == callbacks' = callbacks \ {s}

\* The steps of the manager itself.
PutStep == RunPut \/ \E s \in Emissions : PutWaiting(s) \/ PutTimesOut(s)
StopStep == StopSentinel \/ StopConsumer \/ StopCallbacks

\* When stop() returns, every signal that was sent or enqueued before it was
\* called has been dispatched and its callbacks have ended, unless the queue overflowed or an
\* earlier stop() was cancelled: put tasks first, then the sentinel, then the
\* callbacks.
DrainedAtStop ==
    stopping = "stopped" =>
        /\ ~interrupted => beforeStop \subseteq dispatched \cup overflowed
        /\ callbacks = {}
=============================================================================
