------------------------------ MODULE Recovery ------------------------------
(***************************************************************************)
(* service/resilience.py: ResourceSlot, which owns one replaceable client, *)
(* and RetryPolicy, through which the repositories (repo/queue.py,         *)
(* repo/redis.py, repo/sql.py, repo/mongodb.py) run their operations.      *)
(*                                                                         *)
(* A caller is one repository operation.  A step is what runs between two  *)
(* awaits.  Resources are numbered in the order the factory makes them.    *)
(* The operation, connect and close of a client are external: they succeed *)
(* or fail, and every await may be cancelled.                              *)
(***************************************************************************)
EXTENDS Naturals, FiniteSets

CONSTANTS
    Callers,       \* repository operations
    Shutdowners,   \* the callers that pass allow_during_shutdown=True
    MaxAttempts,   \* RetryPolicy max_attempts
    OwnerWaits     \* the owner closes the slot only after its callers ended

ASSUME RecoveryAssumption ==
    /\ IsFiniteSet(Callers)
    /\ Shutdowners \subseteq Callers
    /\ MaxAttempts \in Nat \ {0}
    /\ OwnerWaits \in BOOLEAN

Owner == "owner"
NoOne == "none"

ASSUME OwnerIsNoCaller == Owner \notin Callers /\ NoOne \notin Callers

VARIABLES
    resource,    \* _resource, 0 for None
    generation,  \* _generation
    lock,        \* who holds _lock
    made,        \* how many resources the factory made
    opened,      \* the resources connected and not yet closed
    abandoned,   \* the resources whose close failed or was cancelled
    owner,       \* what the owner of the slot does
    stopEvent,   \* RetryPolicy _stop_event
    call,        \* where each caller is
    attempt,     \* its attempt
    failures,    \* recovery_failures of this attempt
    observed,    \* observed["generation"]
    using,       \* the resource its operation runs on
    handled      \* the resource the lock holder connects or closes

slotState == <<resource, generation, lock, made, opened, abandoned, handled>>
callState == <<call, attempt, failures, observed, using>>
recoveryVars == <<slotState, owner, stopEvent, callState>>

Ended == {"returned", "raised", "cancelled"}
LockUsers == Callers \cup {Owner}

RecoveryTypeOK ==
    /\ resource \in 0 .. made
    /\ generation \in 0 .. made
    /\ lock \in LockUsers \cup {NoOne}
    /\ made \in Nat
    /\ opened \subseteq 1 .. made
    /\ abandoned \subseteq opened
    /\ handled \in 0 .. made
    /\ owner \in {"new", "starting", "running", "closing", "closed"}
    /\ stopEvent \in BOOLEAN
    /\ call \in [Callers -> {"idle", "attempting", "operating", "recovering",
                             "connecting", "closing", "sleeping"} \cup Ended]
    /\ attempt \in [Callers -> 1 .. MaxAttempts]
    /\ failures \in [Callers -> 0 .. MaxAttempts]
    /\ \A c \in Callers : attempt[c] + failures[c] <= MaxAttempts
    /\ observed \in [Callers -> 0 .. made]
    /\ using \in [Callers -> 0 .. made]

RecoveryInit ==
    /\ resource = 0
    /\ generation = 0
    /\ lock = NoOne
    /\ made = 0
    /\ opened = {}
    /\ abandoned = {}
    /\ handled = 0
    /\ owner = "new"
    /\ stopEvent = FALSE
    /\ call = [c \in Callers |-> "idle"]
    /\ attempt = [c \in Callers |-> 1]
    /\ failures = [c \in Callers |-> 0]
    /\ observed = [c \in Callers |-> 0]
    /\ using = [c \in Callers |-> 0]

CallAt(c, where) == call' = [call EXCEPT ![c] = where]

---------------------------------------------------------------------------
(* The lock of the slot, and the clients behind it.                        *)

\* The lock is taken and a client made by the factory; connect is awaited.
Connecting(actor) ==
    /\ lock = NoOne
    /\ lock' = actor
    /\ made' = made + 1
    /\ handled' = made + 1
    /\ UNCHANGED <<resource, generation, opened, abandoned>>

\* Mutant: the lock is kept when connect fails.
ConnectFailedLocked ==
    /\ handled' = 0
    /\ UNCHANGED <<lock, resource, generation, made, opened, abandoned>>

\* connect failed or was cancelled: _close_failed_resource, and the lock is
\* given up by the exception.  A client that did not connect holds nothing.
ConnectFailed ==
    /\ lock' = NoOne
    /\ handled' = 0
    /\ UNCHANGED <<resource, generation, made, opened, abandoned>>

\* close of the handled client ended, by an exception or a cancellation when
\* it is `left`: such a client may still hold its connections.
Closed(left) ==
    /\ lock' = NoOne
    /\ handled' = 0
    /\ opened' = IF left THEN opened ELSE opened \ {handled}
    /\ abandoned' = IF left THEN abandoned \cup {handled} ELSE abandoned
    /\ UNCHANGED <<resource, generation, made>>

---------------------------------------------------------------------------
(* The owner of the slot: start, and close at the end of the run.          *)

Start == /\ owner = "new"
         /\ Connecting(Owner)
         /\ owner' = "starting"
         /\ UNCHANGED <<stopEvent, callState>>

Started == /\ owner = "starting"
           /\ resource' = handled
           /\ opened' = opened \cup {handled}
           /\ lock' = NoOne
           /\ handled' = 0
           /\ owner' = "running"
           /\ UNCHANGED <<generation, made, abandoned, stopEvent, callState>>

SlotStartFails == /\ owner = "starting"
              /\ ConnectFailed
              /\ owner' = "closed"
              /\ UNCHANGED <<stopEvent, callState>>

SetStopEvent == /\ owner = "running"
               /\ ~stopEvent
               /\ stopEvent' = TRUE
               /\ UNCHANGED <<slotState, owner, callState>>

\* close: the slot is empty before the close of the client is awaited.
CloseSlot ==
    /\ owner = "running"
    /\ stopEvent
    /\ lock = NoOne
    /\ OwnerWaits => \A c \in Callers : call[c] \in Ended \cup {"idle"}
    /\ resource' = 0
    /\ handled' = resource
    /\ lock' = Owner
    /\ owner' = "closing"
    /\ UNCHANGED <<generation, made, opened, abandoned, stopEvent, callState>>

SlotClosed == /\ owner = "closing"
              /\ \E left \in BOOLEAN : Closed(left)
              /\ owner' = "closed"
              /\ UNCHANGED <<stopEvent, callState>>

---------------------------------------------------------------------------
(* The callers: RetryPolicy.run around an operation of a repository.       *)

\* The resources are started before any spider or extension runs.
Begin(c) == /\ call[c] = "idle"
            /\ owner = "running"
            /\ CallAt(c, "attempting")
            /\ UNCHANGED <<slotState, owner, stopEvent, attempt, failures,
                           observed, using>>

\* run looks at the stop event before every attempt.
Refused(c) == stopEvent /\ c \notin Shutdowners

\* Mutant: the generation is noted once per call, not once per attempt.
AttemptObservingOnce(c) ==
    /\ call[c] = "attempting"
    /\ observed' = IF attempt[c] = 1
                   THEN [observed EXCEPT ![c] = generation] ELSE observed
    /\ using' = [using EXCEPT ![c] = resource]
    /\ failures' = [failures EXCEPT ![c] = 0]
    /\ CallAt(c, CASE Refused(c) -> "cancelled"
                 [] ~Refused(c) /\ resource = 0 -> "raised"
                 [] OTHER -> "operating")
    /\ UNCHANGED <<slotState, owner, stopEvent, attempt>>

\* current_operation notes the generation and takes the client of the slot;
\* slot.get() on an empty slot raises an error that is not retried.
Attempt(c) ==
    /\ call[c] = "attempting"
    /\ observed' = [observed EXCEPT ![c] = generation]
    /\ using' = [using EXCEPT ![c] = resource]
    /\ failures' = [failures EXCEPT ![c] = 0]
    /\ CallAt(c, CASE Refused(c) -> "cancelled"
                 [] ~Refused(c) /\ resource = 0 -> "raised"
                 [] OTHER -> "operating")
    /\ UNCHANGED <<slotState, owner, stopEvent, attempt>>

\* A client that was closed under the operation cannot answer any more.
Answered(c) == /\ call[c] = "operating"
               /\ using[c] \in opened
               /\ CallAt(c, "returned")
               /\ UNCHANGED <<slotState, owner, stopEvent, attempt, failures,
                              observed, using>>

\* An error that is not retried, or the last attempt, goes to the caller.
OperationFails(c) ==
    /\ call[c] = "operating"
    /\ \/ CallAt(c, "raised")
       \/ attempt[c] < MaxAttempts /\ CallAt(c, "recovering")
    /\ UNCHANGED <<slotState, owner, stopEvent, attempt, failures, observed,
                   using>>

\* The caller goes on with its next attempt, after the delay.
NextAttempt(c) ==
    /\ attempt' = [attempt EXCEPT ![c] = @ + 1]
    /\ failures' = [failures EXCEPT ![c] = 0]

\* replace, with the lock free: another caller replaced the observed
\* generation already, ...
AlreadyReplaced(c) ==
    /\ call[c] = "recovering"
    /\ lock = NoOne
    /\ observed[c] # generation
    /\ CallAt(c, "attempting")
    /\ NextAttempt(c)
    /\ UNCHANGED <<slotState, owner, stopEvent, observed, using>>

\* Mutant: the slot is emptied while the new client connects.
ReplaceEmptying(c) ==
    /\ call[c] = "recovering"
    /\ observed[c] = generation
    /\ lock = NoOne
    /\ lock' = c
    /\ made' = made + 1
    /\ handled' = made + 1
    /\ resource' = 0
    /\ CallAt(c, "connecting")
    /\ UNCHANGED <<generation, opened, abandoned, owner, stopEvent, attempt,
                   failures, observed, using>>

\* ... or a new client is made.
Replace(c) ==
    /\ call[c] = "recovering"
    /\ observed[c] = generation
    /\ Connecting(c)
    /\ CallAt(c, "connecting")
    /\ UNCHANGED <<owner, stopEvent, attempt, failures, observed, using>>

\* Mutant: the previous client is not closed.
ReplacedUnclosed(c) ==
    /\ call[c] = "connecting"
    /\ resource' = handled
    /\ generation' = generation + 1
    /\ opened' = opened \cup {handled}
    /\ handled' = 0
    /\ CallAt(c, "attempting")
    /\ NextAttempt(c)
    /\ lock' = NoOne
    /\ UNCHANGED <<made, abandoned, owner, stopEvent, observed, using>>

\* The client connected: it is visible before the previous one is closed.
Replaced(c) ==
    /\ call[c] = "connecting"
    /\ resource' = handled
    /\ generation' = generation + 1
    /\ opened' = opened \cup {handled}
    /\ handled' = resource
    /\ IF resource # 0
       THEN /\ CallAt(c, "closing")
            /\ UNCHANGED <<lock, attempt, failures>>
       ELSE /\ CallAt(c, "attempting")
            /\ NextAttempt(c)
            /\ lock' = NoOne
    /\ UNCHANGED <<made, abandoned, owner, stopEvent, observed, using>>

\* The close of the previous client, whose exceptions are swallowed.
PreviousClosed(c) ==
    /\ call[c] = "closing"
    /\ \E left \in BOOLEAN : Closed(left)
    /\ CallAt(c, "attempting")
    /\ NextAttempt(c)
    /\ UNCHANGED <<owner, stopEvent, observed, using>>

\* Failed replacements count against the attempts of the call.
ReplaceFails(c) ==
    /\ call[c] = "connecting"
    /\ ConnectFailed
    /\ failures' = [failures EXCEPT ![c] = @ + 1]
    /\ \/ CallAt(c, "raised")
       \/ attempt[c] + failures[c] + 1 < MaxAttempts /\ CallAt(c, "sleeping")
    /\ UNCHANGED <<owner, stopEvent, attempt, observed, using>>

\* The recovery loop goes on without looking at the stop event.
RecoverAgain(c) ==
    /\ call[c] = "sleeping"
    /\ CallAt(c, "recovering")
    /\ UNCHANGED <<slotState, owner, stopEvent, attempt, failures, observed,
                   using>>

\* Cancellation is delivered at whatever the caller awaits.
CancelCall(c) ==
    /\ \/ /\ \/ call[c] \in {"operating", "recovering", "sleeping"}
             \/ call[c] = "attempting" /\ attempt[c] > 1
          /\ UNCHANGED slotState
       \/ call[c] = "connecting" /\ ConnectFailed
       \/ call[c] = "closing" /\ Closed(TRUE)
    /\ CallAt(c, "cancelled")
    /\ UNCHANGED <<owner, stopEvent, attempt, failures, observed, using>>

---------------------------------------------------------------------------
CallerStep(c) ==
    \/ Attempt(c) \/ Answered(c) \/ OperationFails(c) \/ AlreadyReplaced(c)
    \/ Replace(c) \/ Replaced(c) \/ PreviousClosed(c) \/ ReplaceFails(c)
    \/ RecoverAgain(c)

OwnerStep == Started \/ SlotStartFails \/ SlotClosed

RecoveryNext ==
    \/ Start \/ SetStopEvent \/ CloseSlot \/ OwnerStep
    \/ \E c \in Callers : Begin(c) \/ CallerStep(c) \/ CancelCall(c)

\* Awaits end, and the event loop runs whoever can go on.
RecoveryFairness == /\ WF_recoveryVars(OwnerStep)
                    /\ \A c \in Callers : WF_recoveryVars(CallerStep(c))

RecoverySpec == RecoveryInit /\ [][RecoveryNext]_recoveryVars

---------------------------------------------------------------------------
(* What is checked.                                                        *)

\* A connected client is the one in the slot, or the lock holder is closing
\* it, or its close failed or was cancelled: no replacement, failed or
\* cancelled, forgets a client that holds connections.
NoOrphan == opened \subseteq {resource, handled} \cup abandoned

\* The types (which bound attempts and replacements by MaxAttempts together)
\* and no forgotten client.
RecoveryInv == RecoveryTypeOK /\ NoOrphan

\* A retry never runs on the client its call failed on: recover() replaced
\* that generation, or another caller did.
RetriesOnFresh ==
    [][\A c \in Callers :
          call[c] = "attempting" /\ call'[c] = "operating" /\ attempt[c] > 1
              => using'[c] > using[c]]_recoveryVars

\* Every call of a repository ends: attempts and replacements are bounded
\* and nobody keeps the lock.
CallsEnd == \A c \in Callers : call[c] # "idle" ~> call[c] \in Ended

\* The slot implements its abstract specification as long as the owner
\* closes it after its callers: it is never empty between start and close,
\* whatever fails or is cancelled in between, and never filled again.
SlotPhase == CASE resource # 0 -> "ready"
               [] resource = 0 /\ owner \in {"new", "starting"} -> "new"
               [] OTHER -> "closed"
Slot == INSTANCE AbstractSlot WITH
            phase <- SlotPhase, current <- resource, count <- generation
SlotImplemented == Slot!SlotSpec
=============================================================================
