-------------------------- MODULE LifetimesProofs ---------------------------
(***************************************************************************)
(* Proofs about what is opened and must be closed, for any number of       *)
(* callers, attempts, resources, crawlers, processes and workers, one      *)
(* component of MCLifetimes after the other.  Each has an inductive        *)
(* invariant, a lemma for each of its actions, and lemmas that the         *)
(* invariant holds initially, is kept by every step and implies what the   *)
(* run checks.                                                             *)
(*                                                                         *)
(* ResourceSlot.  NoOrphan alone is not inductive.  That a failed connect  *)
(* forgets nothing needs that the client being connected was never in use  *)
(* (Handling), that a close never hits a client already given up needs     *)
(* that the slot and the lock holder have clients of their own (Handling), *)
(* and all of it that only one actor is between taking and giving up the   *)
(* lock (LockHeld).  That a retry runs on a newer client needs that a      *)
(* generation stands for one client, and clients are never reused          *)
(* (Freshness).                                                            *)
(***************************************************************************)
EXTENDS MCLifetimes, FiniteSetTheorems, SequenceTheorems, TLAPS

\* The lock is held exactly by who awaits a connect or a close.
LockHeld ==
    /\ lock = Owner <=> owner \in {"starting", "closing"}
    /\ \A c \in Callers : lock = c <=> call[c] \in {"connecting", "closing"}

\* Who awaits a connect, and who awaits a close.
IsConnecting == owner = "starting" \/ \E c \in Callers : call[c] = "connecting"
IsClosing == owner = "closing" \/ \E c \in Callers : call[c] = "closing"

\* The client a lock holder connects is the newest and nobody's yet; the one
\* it closes is open and left the slot; without a holder there is none.
Handling ==
    /\ resource # 0 => resource \in opened \ abandoned
    /\ lock = NoOne => handled = 0
    /\ IsConnecting => /\ handled = made /\ made > 0 /\ made \notin opened
                       /\ resource < made /\ generation < made
                       /\ \A c \in Callers : using[c] < made
    /\ IsClosing => handled \in opened \ abandoned /\ handled # resource

\* Before the start the slot is untouched; while the owner runs it is full.
OwnerPhases ==
    /\ owner \in {"new", "starting"} => /\ resource = 0 /\ generation = 0 /\ opened = {}
                                        /\ \A c \in Callers : call[c] = "idle"
    /\ owner = "running" => resource # 0

\* A call that may still recover has an attempt left.
Budget ==
    \A c \in Callers :
        /\ call[c] = "idle" => attempt[c] = 1
        /\ call[c] = "operating" => failures[c] = 0
        /\ call[c] \in {"recovering", "connecting", "closing", "sleeping"} =>
               attempt[c] + failures[c] < MaxAttempts

\* A caller that observed an older generation used an older client, and every
\* later attempt of a call comes after a replacement.
Freshness ==
    \A c \in Callers :
        /\ observed[c] <= generation
        /\ observed[c] < generation /\ resource # 0 => using[c] < resource
        /\ (call[c] = "closing" \/ (call[c] = "attempting" /\ attempt[c] > 1)) =>
               observed[c] < generation

\* An owner that waits for its callers closes the slot after them.
CallersFirst ==
    OwnerWaits => \A c \in Callers :
        call[c] \notin Ended \cup {"idle"} => owner = "running"

IndInv ==
    /\ RecoveryTypeOK /\ NoOrphan /\ LockHeld /\ Handling /\ OwnerPhases
    /\ Budget /\ Freshness /\ CallersFirst

\* The owner takes the lock for the first client, before anybody calls.
LEMMA StartInv == IndInv /\ Start => IndInv'
  <1> SUFFICES ASSUME IndInv, Start PROVE IndInv'
    OBVIOUS
  <1> USE DEF IndInv, Start, Connecting, CallAt, slotState, callState
  <1>1. RecoveryTypeOK'
    BY DEF RecoveryTypeOK, LockUsers
  <1>2. NoOrphan'
    BY DEF OwnerPhases, NoOrphan
  <1>3. LockHeld'
    BY OwnerIsNoCaller DEF LockHeld
  <1>4. Handling'
    BY DEF RecoveryTypeOK, Handling, IsClosing, Owner, NoOne
  <1>5. OwnerPhases' /\ Budget' /\ Freshness' /\ CallersFirst'
    BY DEF OwnerPhases, Budget, Freshness, CallersFirst
  <1> QED BY <1>1, <1>2, <1>3, <1>4, <1>5

\* The first client fills the slot.
LEMMA StartedInv == IndInv /\ Started => IndInv'
  <1> SUFFICES ASSUME IndInv, Started PROVE IndInv'
    OBVIOUS
  <1> USE DEF IndInv, Started, CallAt, slotState, callState
  <1>1. RecoveryTypeOK'
    BY DEF RecoveryTypeOK, Handling, IsConnecting
  <1>2. NoOrphan'
    BY DEF OwnerPhases, NoOrphan
  <1>3. LockHeld'
    BY OwnerIsNoCaller DEF LockHeld, Owner, NoOne
  <1>4. Handling'
    BY DEF RecoveryTypeOK, Handling, OwnerPhases, IsConnecting, IsClosing
  <1>5. OwnerPhases'
    BY DEF Handling, OwnerPhases, IsConnecting
  <1>6. Freshness'
    BY DEF Handling, Freshness, IsConnecting
  <1>7. Budget' /\ CallersFirst'
    BY DEF Budget, CallersFirst
  <1> QED BY <1>1, <1>2, <1>3, <1>4, <1>5, <1>6, <1>7

\* A failed start leaves nothing behind.
LEMMA SlotStartFailsInv == IndInv /\ SlotStartFails => IndInv'
  <1> SUFFICES ASSUME IndInv, SlotStartFails PROVE IndInv'
    OBVIOUS
  <1> USE DEF IndInv, SlotStartFails, ConnectFailed, CallAt, slotState, callState
  <1>1. NoOrphan'
    BY DEF OwnerPhases, NoOrphan
  <1>2. LockHeld'
    BY OwnerIsNoCaller DEF LockHeld, Owner, NoOne
  <1>3. Handling'
    BY DEF Handling, OwnerPhases, IsConnecting, IsClosing
  <1>4. RecoveryTypeOK' /\ OwnerPhases' /\ Budget' /\ Freshness' /\ CallersFirst'
    BY DEF RecoveryTypeOK, OwnerPhases, Budget, Freshness, CallersFirst
  <1> QED BY <1>1, <1>2, <1>3, <1>4

\* The stop event concerns no client.
LEMMA SetStopEventInv == IndInv /\ SetStopEvent => IndInv'
  <1> SUFFICES ASSUME IndInv, SetStopEvent PROVE IndInv'
    OBVIOUS
  <1> USE DEF IndInv, SetStopEvent, CallAt, slotState, callState
  <1>1. /\ RecoveryTypeOK' /\ NoOrphan' /\ LockHeld' /\ Handling'
        /\ OwnerPhases' /\ Budget' /\ Freshness' /\ CallersFirst'
    BY DEF RecoveryTypeOK, NoOrphan, LockHeld, Handling, IsConnecting, IsClosing,
           OwnerPhases, Budget, Freshness, CallersFirst
  <1> QED BY <1>1

\* The owner takes the client out of the slot before it closes it.
LEMMA CloseSlotInv == IndInv /\ CloseSlot => IndInv'
  <1> SUFFICES ASSUME IndInv, CloseSlot PROVE IndInv'
    OBVIOUS
  <1> USE DEF IndInv, CloseSlot, CallAt, slotState, callState
  <1>1. RecoveryTypeOK'
    BY DEF RecoveryTypeOK, LockUsers
  <1>2. NoOrphan'
    BY DEF Handling, NoOrphan
  <1>3. LockHeld'
    BY OwnerIsNoCaller DEF LockHeld
  <1>4. Handling'
    BY DEF Handling, OwnerPhases, IsConnecting, Owner, NoOne
  <1>5. OwnerPhases' /\ Budget' /\ Freshness' /\ CallersFirst'
    BY DEF OwnerPhases, Budget, Freshness, CallersFirst
  <1> QED BY <1>1, <1>2, <1>3, <1>4, <1>5

\* The close of the last client ends, or leaves it abandoned.
LEMMA SlotClosedInv == IndInv /\ SlotClosed => IndInv'
  <1> SUFFICES ASSUME IndInv, SlotClosed PROVE IndInv'
    OBVIOUS
  <1> USE DEF IndInv, SlotClosed, Closed, CallAt, slotState, callState
  <1>1. RecoveryTypeOK'
    BY DEF RecoveryTypeOK, Handling, IsClosing
  <1>2. LockHeld'
    BY OwnerIsNoCaller DEF LockHeld, Owner, NoOne
  <1>3. Handling'
    BY OwnerIsNoCaller DEF LockHeld, Handling, IsConnecting, IsClosing
  <1>4. NoOrphan' /\ OwnerPhases' /\ Budget' /\ Freshness' /\ CallersFirst'
    BY DEF NoOrphan, OwnerPhases, Budget, Freshness, CallersFirst
  <1> QED BY <1>1, <1>2, <1>3, <1>4

\* A call begins with its first attempt.
LEMMA BeginInv ==
    ASSUME NEW c \in Callers
    PROVE  IndInv /\ Begin(c) => IndInv'
  <1> SUFFICES ASSUME IndInv, Begin(c) PROVE IndInv'
    OBVIOUS
  <1> USE DEF IndInv, Begin, CallAt, slotState, callState
  <1>1. Freshness'
    BY DEF Budget, Freshness
  <1>2. /\ RecoveryTypeOK' /\ NoOrphan' /\ LockHeld' /\ Handling'
        /\ OwnerPhases' /\ Budget' /\ CallersFirst'
    BY DEF RecoveryTypeOK, NoOrphan, LockHeld, Handling, IsConnecting, IsClosing,
           OwnerPhases, Budget, CallersFirst
  <1> QED BY <1>1, <1>2

\* An attempt notes the generation and the client that go together.
LEMMA AttemptInv ==
    ASSUME NEW c \in Callers
    PROVE  IndInv /\ Attempt(c) => IndInv'
  <1> SUFFICES ASSUME IndInv, Attempt(c) PROVE IndInv'
    OBVIOUS
  <1> USE DEF IndInv, Attempt, Refused, CallAt, slotState, callState
  <1>1. RecoveryTypeOK'
    BY RecoveryAssumption DEF RecoveryTypeOK, Ended
  <1>2. Budget'
    BY DEF RecoveryTypeOK, Budget
  <1>3. Freshness'
    BY DEF RecoveryTypeOK, Freshness
  <1>4. NoOrphan' /\ LockHeld' /\ Handling' /\ OwnerPhases' /\ CallersFirst'
    BY DEF NoOrphan, LockHeld, Handling, IsConnecting, IsClosing, OwnerPhases,
           CallersFirst, Ended
  <1> QED BY <1>1, <1>2, <1>3, <1>4

\* The operation returns.
LEMMA AnsweredInv ==
    ASSUME NEW c \in Callers
    PROVE  IndInv /\ Answered(c) => IndInv'
  <1> SUFFICES ASSUME IndInv, Answered(c) PROVE IndInv'
    OBVIOUS
  <1> USE DEF IndInv, Answered, CallAt, slotState, callState
  <1>1. /\ RecoveryTypeOK' /\ NoOrphan' /\ LockHeld' /\ Handling'
        /\ OwnerPhases' /\ Budget' /\ Freshness' /\ CallersFirst'
    BY DEF RecoveryTypeOK, Ended, NoOrphan, LockHeld, Handling, IsConnecting,
           IsClosing, OwnerPhases, Budget, Freshness, CallersFirst
  <1> QED BY <1>1

\* A failed operation recovers only while attempts are left.
LEMMA OperationFailsInv ==
    ASSUME NEW c \in Callers
    PROVE  IndInv /\ OperationFails(c) => IndInv'
  <1> SUFFICES ASSUME IndInv, OperationFails(c) PROVE IndInv'
    OBVIOUS
  <1> USE DEF IndInv, OperationFails, CallAt, slotState, callState
  <1>1. LockHeld'
    BY DEF RecoveryTypeOK, LockHeld
  <1>2. Handling'
    BY DEF RecoveryTypeOK, Handling, IsConnecting, IsClosing
  <1>3. Budget'
    BY DEF RecoveryTypeOK, Budget
  <1>4. Freshness'
    BY DEF RecoveryTypeOK, Freshness
  <1>5. RecoveryTypeOK' /\ NoOrphan' /\ OwnerPhases' /\ CallersFirst'
    BY DEF RecoveryTypeOK, Ended, NoOrphan, OwnerPhases, CallersFirst
  <1> QED BY <1>1, <1>2, <1>3, <1>4, <1>5

\* The observed generation is gone: the next attempt sees a newer client.
LEMMA AlreadyReplacedInv ==
    ASSUME NEW c \in Callers
    PROVE  IndInv /\ AlreadyReplaced(c) => IndInv'
  <1> SUFFICES ASSUME IndInv, AlreadyReplaced(c) PROVE IndInv'
    OBVIOUS
  <1> USE DEF IndInv, AlreadyReplaced, NextAttempt, CallAt, slotState, callState
  <1>1. RecoveryTypeOK'
    BY RecoveryAssumption DEF RecoveryTypeOK, Budget
  <1>2. Budget'
    BY DEF RecoveryTypeOK, Budget
  <1>3. Freshness'
    BY DEF RecoveryTypeOK, Freshness
  <1>4. NoOrphan' /\ LockHeld' /\ Handling' /\ OwnerPhases' /\ CallersFirst'
    BY DEF NoOrphan, LockHeld, Handling, IsConnecting, IsClosing, OwnerPhases,
           CallersFirst, Ended
  <1> QED BY <1>1, <1>2, <1>3, <1>4

\* A replacement is a new client that nobody uses yet.
LEMMA ReplaceInv ==
    ASSUME NEW c \in Callers
    PROVE  IndInv /\ Replace(c) => IndInv'
  <1> SUFFICES ASSUME IndInv, Replace(c) PROVE IndInv'
    OBVIOUS
  <1> USE DEF IndInv, Replace, Connecting, CallAt, slotState, callState
  <1>1. RecoveryTypeOK'
    BY DEF RecoveryTypeOK, LockUsers
  <1>2. NoOrphan'
    BY DEF RecoveryTypeOK, Handling, NoOrphan
  <1>3. LockHeld'
    BY OwnerIsNoCaller DEF RecoveryTypeOK, LockHeld, Owner, NoOne
  <1>4. Handling'
    BY OwnerIsNoCaller DEF RecoveryTypeOK, Handling, IsClosing
  <1>5. OwnerPhases' /\ Budget' /\ Freshness' /\ CallersFirst'
    BY DEF OwnerPhases, Budget, Freshness, CallersFirst, Ended
  <1> QED BY <1>1, <1>2, <1>3, <1>4, <1>5

\* The new client is the next generation; the previous one is handed to the close.
LEMMA ReplacedInv ==
    ASSUME NEW c \in Callers
    PROVE  IndInv /\ Replaced(c) => IndInv'
  <1> SUFFICES ASSUME IndInv, Replaced(c) PROVE IndInv'
    OBVIOUS
  <1> USE DEF IndInv, Replaced, NextAttempt, CallAt, slotState, callState
  <1>1. RecoveryTypeOK'
    BY RecoveryAssumption DEF RecoveryTypeOK, Handling, Budget, IsConnecting
  <1>2. LockHeld'
    BY OwnerIsNoCaller DEF RecoveryTypeOK, LockHeld, Owner, NoOne
  <1>3. Handling'
    BY OwnerIsNoCaller DEF RecoveryTypeOK, LockHeld, Handling, IsConnecting, IsClosing
  <1>4. OwnerPhases'
    BY DEF Handling, OwnerPhases, IsConnecting
  <1>5. Budget'
    BY DEF RecoveryTypeOK, Budget
  <1>6. Freshness'
    BY DEF RecoveryTypeOK, Handling, Freshness, IsConnecting
  <1>7. NoOrphan' /\ CallersFirst'
    BY DEF NoOrphan, CallersFirst, Ended
  <1> QED BY <1>1, <1>2, <1>3, <1>4, <1>5, <1>6, <1>7

\* The previous client is closed or abandoned.
LEMMA PreviousClosedInv ==
    ASSUME NEW c \in Callers
    PROVE  IndInv /\ PreviousClosed(c) => IndInv'
  <1> SUFFICES ASSUME IndInv, PreviousClosed(c) PROVE IndInv'
    OBVIOUS
  <1> USE DEF IndInv, PreviousClosed, Closed, NextAttempt, CallAt, slotState, callState
  <1>1. RecoveryTypeOK'
    BY RecoveryAssumption DEF RecoveryTypeOK, Handling, Budget, IsClosing
  <1>2. LockHeld'
    BY OwnerIsNoCaller DEF RecoveryTypeOK, LockHeld, Owner, NoOne
  <1>3. Handling'
    BY OwnerIsNoCaller DEF RecoveryTypeOK, LockHeld, Handling, IsConnecting, IsClosing
  <1>4. Budget'
    BY DEF RecoveryTypeOK, Budget
  <1>5. NoOrphan' /\ OwnerPhases' /\ Freshness' /\ CallersFirst'
    BY DEF NoOrphan, OwnerPhases, Freshness, CallersFirst, Ended
  <1> QED BY <1>1, <1>2, <1>3, <1>4, <1>5

\* A client that did not connect was nobody's.
LEMMA ReplaceFailsInv ==
    ASSUME NEW c \in Callers
    PROVE  IndInv /\ ReplaceFails(c) => IndInv'
  <1> SUFFICES ASSUME IndInv, ReplaceFails(c) PROVE IndInv'
    OBVIOUS
  <1> USE DEF IndInv, ReplaceFails, ConnectFailed, CallAt, slotState, callState
  <1>1. RecoveryTypeOK'
    BY RecoveryAssumption DEF RecoveryTypeOK, Budget, Ended
  <1>2. NoOrphan'
    BY DEF Handling, NoOrphan, IsConnecting
  <1>3. LockHeld'
    BY OwnerIsNoCaller DEF RecoveryTypeOK, LockHeld, Owner, NoOne
  <1>4. Handling'
    BY OwnerIsNoCaller DEF RecoveryTypeOK, LockHeld, Handling, IsConnecting, IsClosing
  <1>5. Budget'
    BY DEF RecoveryTypeOK, Budget
  <1>6. Freshness'
    BY DEF RecoveryTypeOK, Freshness
  <1>7. OwnerPhases' /\ CallersFirst'
    BY DEF OwnerPhases, CallersFirst, Ended
  <1> QED BY <1>1, <1>2, <1>3, <1>4, <1>5, <1>6, <1>7

\* The next recovery of the same attempt.
LEMMA RecoverAgainInv ==
    ASSUME NEW c \in Callers
    PROVE  IndInv /\ RecoverAgain(c) => IndInv'
  <1> SUFFICES ASSUME IndInv, RecoverAgain(c) PROVE IndInv'
    OBVIOUS
  <1> USE DEF IndInv, RecoverAgain, CallAt, slotState, callState
  <1>1. /\ RecoveryTypeOK' /\ NoOrphan' /\ LockHeld' /\ Handling'
        /\ OwnerPhases' /\ Budget' /\ Freshness' /\ CallersFirst'
    BY DEF RecoveryTypeOK, NoOrphan, LockHeld, Handling, IsConnecting, IsClosing,
           OwnerPhases, Budget, Freshness, CallersFirst, Ended
  <1> QED BY <1>1

\* A cancellation while connecting or closing gives the lock up.
LEMMA CancelCallInv ==
    ASSUME NEW c \in Callers
    PROVE  IndInv /\ CancelCall(c) => IndInv'
  <1> SUFFICES ASSUME IndInv, CancelCall(c) PROVE IndInv'
    OBVIOUS
  <1> USE DEF IndInv, CancelCall, ConnectFailed, Closed, CallAt, slotState, callState
  <1>1. RecoveryTypeOK'
    <2>1. CASE call[c] \notin {"connecting", "closing"}
      <3>1. UNCHANGED slotState
        BY <2>1
      <3>2. call' \in [Callers -> {"idle", "attempting", "operating", "recovering",
                    "connecting", "closing", "sleeping"} \cup Ended]
        BY DEF RecoveryTypeOK, Ended
      <3> QED BY <3>1, <3>2 DEF RecoveryTypeOK
    <2>2. CASE call[c] = "connecting"
      <3>1. /\ lock' = NoOne /\ handled' = 0 /\ handled \notin opened
            /\ UNCHANGED <<resource, generation, made, opened, abandoned>>
        BY <2>2 DEF Handling, IsConnecting
      <3>2. call' \in [Callers -> {"idle", "attempting", "operating", "recovering",
                    "connecting", "closing", "sleeping"} \cup Ended]
        BY DEF RecoveryTypeOK, Ended
      <3> QED BY <3>1, <3>2 DEF RecoveryTypeOK
    <2>3. CASE call[c] = "closing"
      <3>1. /\ lock' = NoOne /\ handled' = 0 /\ handled \in opened /\ opened' = opened
            /\ abandoned' = abandoned \cup {handled}
            /\ UNCHANGED <<resource, generation, made>>
        BY <2>3 DEF Handling, IsClosing
      <3>2. call' \in [Callers -> {"idle", "attempting", "operating", "recovering",
                    "connecting", "closing", "sleeping"} \cup Ended]
        BY DEF RecoveryTypeOK, Ended
      <3> QED BY <3>1, <3>2 DEF RecoveryTypeOK
    <2> QED BY <2>1, <2>2, <2>3
  <1>2. NoOrphan'
    <2>1. CASE call[c] \notin {"connecting", "closing"}
      <3>1. UNCHANGED slotState
        BY <2>1
      <3> QED BY <3>1 DEF NoOrphan
    <2>2. CASE call[c] = "connecting"
      <3>1. /\ lock' = NoOne /\ handled' = 0 /\ handled \notin opened
            /\ UNCHANGED <<resource, generation, made, opened, abandoned>>
        BY <2>2 DEF Handling, IsConnecting
      <3> QED BY <3>1 DEF NoOrphan
    <2>3. CASE call[c] = "closing"
      <3>1. /\ lock' = NoOne /\ handled' = 0 /\ handled \in opened /\ opened' = opened
            /\ abandoned' = abandoned \cup {handled}
            /\ UNCHANGED <<resource, generation, made>>
        BY <2>3 DEF Handling, IsClosing
      <3> QED BY <3>1 DEF NoOrphan
    <2> QED BY <2>1, <2>2, <2>3
  <1>3. LockHeld'
    BY OwnerIsNoCaller DEF RecoveryTypeOK, LockHeld, Owner, NoOne
  <1>4. Handling'
    BY OwnerIsNoCaller DEF RecoveryTypeOK, LockHeld, Handling, IsConnecting, IsClosing
  <1>5. OwnerPhases' /\ Budget' /\ Freshness' /\ CallersFirst'
    BY DEF OwnerPhases, Budget, Freshness, CallersFirst, Ended
  <1> QED BY <1>1, <1>2, <1>3, <1>4, <1>5

\* Nothing is made, held or observed at first.
LEMMA InitInv == RecoveryInit => IndInv
  <1> SUFFICES ASSUME RecoveryInit PROVE IndInv
    OBVIOUS
  <1> USE RecoveryAssumption, OwnerIsNoCaller DEF RecoveryInit, Owner, NoOne
  <1>1. RecoveryTypeOK
    <2>1. attempt \in [Callers -> 1 .. MaxAttempts] /\ failures \in [Callers -> 0 .. MaxAttempts]
      OBVIOUS
    <2>2. \A c \in Callers : attempt[c] + failures[c] <= MaxAttempts
      OBVIOUS
    <2>3. observed \in [Callers -> 0 .. made] /\ using \in [Callers -> 0 .. made]
      OBVIOUS
    <2>4. call \in [Callers -> {"idle", "attempting", "operating", "recovering",
                           "connecting", "closing", "sleeping"} \cup Ended]
      OBVIOUS
    <2>5. resource \in 0 .. made /\ generation \in 0 .. made /\ handled \in 0 .. made /\ made \in Nat
      OBVIOUS
    <2>6. opened \subseteq 1 .. made /\ abandoned \subseteq opened
      OBVIOUS
    <2>7. lock \in LockUsers \cup {NoOne} /\ stopEvent \in BOOLEAN /\ owner \in {"new", "starting", "running", "closing", "closed"}
      OBVIOUS
    <2> QED BY <2>7 DEF RecoveryTypeOK
  <1>2. NoOrphan /\ LockHeld /\ OwnerPhases /\ CallersFirst
    BY DEF NoOrphan, LockHeld, OwnerPhases, CallersFirst
  <1>3. Handling
    BY DEF Handling, IsConnecting, IsClosing
  <1>4. Budget /\ Freshness
    BY DEF Budget, Freshness
  <1> QED BY <1>1, <1>2, <1>3, <1>4 DEF IndInv

\* The invariant is inductive, whether or not the owner waits.
THEOREM RecoveryInductive == IndInv /\ [RecoveryNext]_recoveryVars => IndInv'
  <1> SUFFICES ASSUME IndInv, [RecoveryNext]_recoveryVars PROVE IndInv'
    OBVIOUS
  <1>1. CASE Start \/ SetStopEvent \/ CloseSlot \/ OwnerStep
    BY <1>1, StartInv, SetStopEventInv, CloseSlotInv, StartedInv, SlotStartFailsInv,
           SlotClosedInv DEF OwnerStep
  <1>2. ASSUME NEW c \in Callers, Begin(c) \/ CallerStep(c) \/ CancelCall(c)
        PROVE  IndInv'
    BY <1>2, BeginInv, AttemptInv, AnsweredInv, OperationFailsInv, AlreadyReplacedInv,
           ReplaceInv, ReplacedInv, PreviousClosedInv, ReplaceFailsInv, RecoverAgainInv,
           CancelCallInv DEF CallerStep
  <1>3. CASE UNCHANGED recoveryVars
    BY <1>3 DEF recoveryVars, slotState, callState, IndInv, RecoveryTypeOK, LockHeld,
           Handling, OwnerPhases, Budget, Freshness, CallersFirst, NoOrphan,
           IsConnecting, IsClosing
  <1> QED BY <1>1, <1>2, <1>3 DEF RecoveryNext

\* ResourceSlot forgets no client: whatever fails or is cancelled during a
\* start, a replacement or a close, a connected client is in the slot, being
\* closed, or one whose close failed.
THEOREM RecoveryHolds == RecoverySpec => []RecoveryInv
  <1>1. IndInv => RecoveryInv
    BY DEF IndInv, RecoveryInv
  <1> QED BY InitInv, RecoveryInductive, <1>1, PTL DEF RecoverySpec

\* Every retry of a call runs on a newer client than the attempt before it.
THEOREM RetriesAreFresh == RecoverySpec => RetriesOnFresh
  <1>1. IndInv /\ [RecoveryNext]_recoveryVars =>
          [\A c \in Callers :
             call[c] = "attempting" /\ call'[c] = "operating" /\ attempt[c] > 1
                 => using'[c] > using[c]]_recoveryVars
    <2> SUFFICES ASSUME IndInv, RecoveryNext, NEW c \in Callers, call[c] = "attempting", call'[c] = "operating", attempt[c] > 1
                 PROVE  using'[c] > using[c]
      OBVIOUS
    <2>1. Attempt(c)
      <3>1. ASSUME NEW d \in Callers, d # c, Begin(d) \/ CallerStep(d) \/ CancelCall(d)
            PROVE call'[c] = call[c]
        BY <3>1 DEF IndInv, RecoveryTypeOK, Begin, CallerStep, CancelCall, Attempt,
               Answered, OperationFails, AlreadyReplaced, Replace, Replaced,
               PreviousClosed, ReplaceFails, RecoverAgain, CallAt
      <3>2. CASE Start \/ SetStopEvent \/ CloseSlot \/ OwnerStep
        BY <3>2 DEF Start, SetStopEvent, CloseSlot, OwnerStep, Started, SlotStartFails,
               SlotClosed, callState
      <3>3. CASE Begin(c) \/ CallerStep(c) \/ CancelCall(c)
        BY <3>3 DEF IndInv, RecoveryTypeOK, Begin, CallerStep, CancelCall, Answered,
               OperationFails, AlreadyReplaced, Replace, Replaced, PreviousClosed,
               ReplaceFails, RecoverAgain, CallAt
      <3> QED BY <3>1, <3>2, <3>3 DEF RecoveryNext
    <2>2. resource # 0 /\ using'[c] = resource
      BY <2>1 DEF Attempt, CallAt, IndInv, RecoveryTypeOK
    <2> QED BY <2>2 DEF IndInv, Freshness
  <1> QED BY InitInv, RecoveryInductive, <1>1, PTL DEF RecoverySpec, RetriesOnFresh

\* The initial states and the steps of the slot are those of AbstractSlot when
\* the owner closes it after its callers.
LEMMA SlotInitRefined == RecoveryInit => Slot!SlotInit
  BY DEF RecoveryInit, Slot!SlotInit, SlotPhase

\* Every step of the slot is one of AbstractSlot or leaves its phase alone.
LEMMA SlotStepRefined ==
    ASSUME OwnerWaits, IndInv, [RecoveryNext]_recoveryVars
    PROVE  [Slot!SlotNext]_(Slot!slotVars)
  <1> USE DEF Slot!slotVars, SlotPhase
  <1>1. CASE Started
    <2>1. Slot!SlotStart
      BY <1>1 DEF Started, Slot!SlotStart, IndInv, Handling, IsConnecting, OwnerPhases,
             RecoveryTypeOK
    <2> QED BY <2>1 DEF Slot!SlotNext
  <1>2. CASE CloseSlot \/ SlotStartFails
    <2>1. Slot!SlotClose
      BY <1>2 DEF CloseSlot, SlotStartFails, ConnectFailed, Slot!SlotClose, IndInv,
             OwnerPhases
    <2> QED BY <2>1 DEF Slot!SlotNext
  <1>3. ASSUME NEW c \in Callers, Replaced(c)
        PROVE  Slot!SlotReplace
    <2>1. resource # 0
      BY <1>3 DEF Replaced, IndInv, CallersFirst, OwnerPhases, Ended
    <2>2. resource' > resource /\ resource' \in Nat
      BY <1>3 DEF Replaced, IndInv, Handling, IsConnecting, RecoveryTypeOK
    <2> QED BY <1>3, <2>1, <2>2 DEF Replaced, Slot!SlotReplace, IndInv, RecoveryTypeOK
  <1>4. CASE Start \/ SetStopEvent \/ SlotClosed \/ UNCHANGED recoveryVars
    <2>1. UNCHANGED <<resource, generation>> /\ (owner' \in {"new", "starting"} <=> owner \in {"new", "starting"})
      BY <1>4 DEF Start, Connecting, SetStopEvent, SlotClosed, Closed, recoveryVars,
             slotState
    <2> QED BY <2>1
  <1>5. ASSUME NEW c \in Callers, Begin(c) \/ CallerStep(c) \/ CancelCall(c), ~Replaced(c)
        PROVE  UNCHANGED <<resource, generation, owner>>
    BY <1>5 DEF Begin, CallerStep, CancelCall, Attempt, Answered, OperationFails,
           AlreadyReplaced, Replace, PreviousClosed, ReplaceFails, RecoverAgain,
           Connecting, ConnectFailed, Closed, slotState
  <1> QED BY <1>1, <1>2, <1>3, <1>4, <1>5 DEF RecoveryNext, OwnerStep, Slot!SlotNext

\* Between its start and its close the slot always holds a client, replacements
\* are newer clients, and once closed it stays empty.
THEOREM SlotImplements == ASSUME OwnerWaits PROVE RecoverySpec => SlotImplemented
  <1>1. IndInv /\ [RecoveryNext]_recoveryVars => [Slot!SlotNext]_(Slot!slotVars)
    BY SlotStepRefined
  <1> QED BY InitInv, RecoveryInductive, SlotInitRefined, <1>1, PTL DEF RecoverySpec,
                 SlotImplemented, Slot!SlotSpec

---------------------------------------------------------------------------
(* The Kafka connection.  A record only goes to a ready topic because an   *)
(* ensured topic stays ready until the client is closed (TopicReady); the  *)
(* one producer and consumer come from who holds which lock at which       *)
(* stage of a call (OneProducer, ConsumersFound); and nothing is left      *)
(* open because close comes after the calls and takes each step once       *)
(* (ClosedInOrder).                                                        *)

\* One client's calls in the order the run takes them: closed when they are over,
\* and one registration for the topic and group.
Orderly == ~CloseEarly /\ \A c, d \in Registers : c = d

\* The stages of a call that has begun and is not over.
Working == {"connect", "joining", "locked", "starting", "connected", "waiting", "list", "create",
            "poll", "usable", "consuming"}

TransportTypeOK ==
  /\ producer \in {"none", "set"} /\ producers \in SUBSET TransportCalls
  /\ connectLock \in TransportCalls \cup {Nobody, -1} /\ createLock \in Pops \cup {Nobody}
  /\ topicLock \in TransportCalls \cup {Nobody}
  /\ ensured \in BOOLEAN /\ topic \in {"absent", "created", "ready"}
  /\ live \in SUBSET (Pops \cup Registers) /\ loops \in SUBSET TransportCalls
  /\ consumers \in [manual : Pops \cup {Nobody}, callback : Registers \cup {Nobody}]
  /\ progress \in [TransportCalls -> Working \cup {"idle", "done", "failed"}]
  /\ closer \in {"idle", "deleted", "loops", "consumers", "closed"}

\* An ensured topic stays ready while anyone may send to it.
TopicReady ==
  /\ ensured => topic = "ready"
  /\ \A c \in TransportCalls : progress[c] = "usable" => topic = "ready"
  /\ sentTo \subseteq {"ready"}

\* The producer is made under _connect_lock, where none is seen.
OneProducer ==
  /\ producer = "none" => producers = {}
  /\ \A c, d \in producers : c = d
  /\ \A c \in TransportCalls : progress[c] \in {"locked", "starting"} => connectLock = c
  /\ \A c \in TransportCalls : progress[c] = "starting" => c \in producers

\* A pop holds _consumer_create_lock from the moment it found no consumer, and a
\* started consumer is kept or about to be.
ConsumersFound ==
  /\ \A c \in Pops : progress[c] \in Working => createLock = c /\ consumers.manual = Nobody
  /\ \A c \in live : progress[c] = "consuming" \/ c \in {consumers.manual, consumers.callback}
  /\ \A c \in TransportCalls : progress[c] = "consuming" => c \in live
  /\ \A c \in Registers : consumers.callback = c => progress[c] = "done"

\* Closing begins when every call is over, and leaves nothing behind.
ClosedInOrder ==
  /\ closer # "idle" => \A c \in TransportCalls : progress[c] \in {"done", "failed"}
  /\ closer \in {"loops", "consumers", "closed"} => loops = {}
  /\ closer \in {"consumers", "closed"} => live = {}
  /\ closer = "closed" => producers = {}

TransportIInv ==
  /\ TransportTypeOK /\ TopicReady /\ OneProducer /\ ConsumersFound /\ ClosedInOrder

\* dequeue_request begins: it finds the manual consumer, or takes
\* _consumer_create_lock to make it.
LEMMA PopKeeps ==
    ASSUME TransportIInv, Orderly, NEW c \in TransportCalls, Pop(c)
    PROVE TransportIInv'
<1>1. TransportTypeOK /\ TopicReady /\ OneProducer /\ ConsumersFound /\ ClosedInOrder
  BY DEF TransportIInv
<1> PICK to : to = progress'[c]
  OBVIOUS
<1>2. /\ progress' = [progress EXCEPT ![c] = to] /\ to \in Working \cup {"done", "failed"}
      /\ progress'[c] = to /\ \A d \in TransportCalls : d # c => progress'[d] = progress[d]
  BY <1>1 DEF Pop, At, TransportTypeOK, Working
<1>3. TransportTypeOK'
  BY <1>1, <1>2 DEF TransportTypeOK, Pop, BrokerKept, ConsumersKept
<1>4. TopicReady'
  BY <1>1, <1>2 DEF TopicReady, Pop, At, BrokerKept
<1>5. OneProducer'
  BY <1>1, <1>2 DEF OneProducer, Pop, At
<1>6. ConsumersFound'
  BY <1>1, <1>2, TransportAssumption DEF ConsumersFound, Pop, At,
         ConsumersKept, Working, TransportCalls
<1>7. ClosedInOrder'
  BY <1>1 DEF ClosedInOrder, Pop, At
<1> QED BY <1>3, <1>4, <1>5, <1>6, <1>7 DEF TransportIInv

\* rpush begins with _connect.
LEMMA ProduceKeeps ==
    ASSUME TransportIInv, Orderly, NEW c \in TransportCalls, Produce(c)
    PROVE TransportIInv'
<1>1. TransportTypeOK /\ TopicReady /\ OneProducer /\ ConsumersFound /\ ClosedInOrder
  BY DEF TransportIInv
<1> PICK to : to = progress'[c]
  OBVIOUS
<1>2. /\ progress' = [progress EXCEPT ![c] = to] /\ to \in Working \cup {"done", "failed"}
      /\ progress'[c] = to /\ \A d \in TransportCalls : d # c => progress'[d] = progress[d]
  BY <1>1 DEF Produce, At, TransportTypeOK, Working
<1>3. TransportTypeOK'
  BY <1>1, <1>2 DEF TransportTypeOK, Produce, LocksKept, BrokerKept,
         ConsumersKept
<1>4. TopicReady'
  BY <1>1 DEF TopicReady, Produce, At, BrokerKept
<1>5. OneProducer'
  BY <1>1 DEF OneProducer, Produce, At, LocksKept
<1>6. ConsumersFound'
  BY <1>1, TransportAssumption DEF ConsumersFound, Produce, At, LocksKept,
         ConsumersKept
<1>7. ClosedInOrder'
  BY <1>1 DEF ClosedInOrder, Produce, At
<1> QED BY <1>3, <1>4, <1>5, <1>6, <1>7 DEF TransportIInv

\* register_consumer begins with _connect.
LEMMA RegisterKeeps ==
    ASSUME TransportIInv, Orderly, NEW c \in TransportCalls, Register(c)
    PROVE TransportIInv'
<1>1. TransportTypeOK /\ TopicReady /\ OneProducer /\ ConsumersFound /\ ClosedInOrder
  BY DEF TransportIInv
<1> PICK to : to = progress'[c]
  OBVIOUS
<1>2. /\ progress' = [progress EXCEPT ![c] = to] /\ to \in Working \cup {"done", "failed"}
      /\ progress'[c] = to /\ \A d \in TransportCalls : d # c => progress'[d] = progress[d]
  BY <1>1 DEF Register, At, TransportTypeOK, Working
<1>3. TransportTypeOK'
  BY <1>1, <1>2 DEF TransportTypeOK, Register, LocksKept, BrokerKept,
         ConsumersKept
<1>4. TopicReady'
  BY <1>1 DEF TopicReady, Register, At, BrokerKept
<1>5. OneProducer'
  BY <1>1 DEF OneProducer, Register, At, LocksKept
<1>6. ConsumersFound'
  BY <1>1, TransportAssumption DEF ConsumersFound, Register, At,
         LocksKept, ConsumersKept
<1>7. ClosedInOrder'
  BY <1>1 DEF ClosedInOrder, Register, At
<1> QED BY <1>3, <1>4, <1>5, <1>6, <1>7 DEF TransportIInv

\* A call finds the producer, or has to connect.
LEMMA ConnectKeeps ==
    ASSUME TransportIInv, Orderly, NEW c \in TransportCalls, Connect(c)
    PROVE TransportIInv'
<1>1. TransportTypeOK /\ TopicReady /\ OneProducer /\ ConsumersFound /\ ClosedInOrder
  BY DEF TransportIInv
<1> PICK to : to = progress'[c]
  OBVIOUS
<1>2. /\ progress' = [progress EXCEPT ![c] = to] /\ to \in Working \cup {"done", "failed"}
      /\ progress'[c] = to /\ \A d \in TransportCalls : d # c => progress'[d] = progress[d]
  BY <1>1 DEF Connect, At, TransportTypeOK, Working
<1>3. TransportTypeOK'
  BY <1>1, <1>2 DEF TransportTypeOK, Connect, LocksKept, BrokerKept,
         ConsumersKept
<1>4. TopicReady'
  BY <1>1 DEF TopicReady, Connect, At, BrokerKept
<1>5. OneProducer'
  BY <1>1 DEF OneProducer, Connect, At, LocksKept
<1>6. ConsumersFound'
  BY <1>1 DEF ConsumersFound, Connect, At, LocksKept, ConsumersKept, Working
<1>7. ClosedInOrder'
  BY <1>1 DEF ClosedInOrder, Connect, At
<1> QED BY <1>3, <1>4, <1>5, <1>6, <1>7 DEF TransportIInv

\* _connect_lock is taken when nobody holds it, close included.
LEMMA TakeConnectKeeps ==
    ASSUME TransportIInv, Orderly, NEW c \in TransportCalls, TakeConnect(c)
    PROVE TransportIInv'
<1>1. TransportTypeOK /\ TopicReady /\ OneProducer /\ ConsumersFound /\ ClosedInOrder
  BY DEF TransportIInv
<1> PICK to : to = progress'[c]
  OBVIOUS
<1>2. /\ progress' = [progress EXCEPT ![c] = to] /\ to \in Working \cup {"done", "failed"}
      /\ progress'[c] = to /\ \A d \in TransportCalls : d # c => progress'[d] = progress[d]
  BY <1>1 DEF TakeConnect, At, TransportTypeOK, Working
<1>3. TransportTypeOK'
  BY <1>1, <1>2 DEF TransportTypeOK, TakeConnect, BrokerKept, ConsumersKept
<1>4. TopicReady'
  BY <1>1 DEF TopicReady, TakeConnect, At, BrokerKept
<1>5. OneProducer'
  BY <1>1, TransportAssumption DEF OneProducer, TakeConnect, At
<1>6. ConsumersFound'
  BY <1>1 DEF ConsumersFound, TakeConnect, At, ConsumersKept, Working
<1>7. ClosedInOrder'
  BY <1>1 DEF ClosedInOrder, TakeConnect, At
<1> QED BY <1>3, <1>4, <1>5, <1>6, <1>7 DEF TransportIInv

\* Under _connect_lock the producer is looked for again before one is made.
LEMMA ConnectTransportKeeps ==
    ASSUME TransportIInv, Orderly, NEW c \in TransportCalls, ConnectTransport(c)
    PROVE TransportIInv'
<1>1. TransportTypeOK /\ TopicReady /\ OneProducer /\ ConsumersFound /\ ClosedInOrder
  BY DEF TransportIInv
<1> PICK to : to = progress'[c]
  OBVIOUS
<1>2. /\ progress' = [progress EXCEPT ![c] = to] /\ to \in Working \cup {"done", "failed"}
      /\ progress'[c] = to /\ \A d \in TransportCalls : d # c => progress'[d] = progress[d]
  BY <1>1 DEF ConnectTransport, At, TransportTypeOK, Working
<1>3. TransportTypeOK'
  BY <1>1, <1>2 DEF TransportTypeOK, ConnectTransport, BrokerKept, ConsumersKept
<1>4. TopicReady'
  BY <1>1, <1>2 DEF TopicReady, ConnectTransport, At, BrokerKept
<1>5. OneProducer'
  BY <1>1 DEF OneProducer, TransportTypeOK, ConnectTransport, At
<1>6. ConsumersFound'
  BY <1>1, <1>2 DEF ConsumersFound, ConnectTransport, At, ConsumersKept, Working
<1>7. ClosedInOrder'
  BY <1>1 DEF ClosedInOrder, ConnectTransport, At
<1> QED BY <1>3, <1>4, <1>5, <1>6, <1>7 DEF TransportIInv

\* The producer's start returns and _connect_lock is given up.
LEMMA ConnectedKeeps ==
    ASSUME TransportIInv, Orderly, NEW c \in TransportCalls, Connected(c)
    PROVE TransportIInv'
<1>1. TransportTypeOK /\ TopicReady /\ OneProducer /\ ConsumersFound /\ ClosedInOrder
  BY DEF TransportIInv
<1> PICK to : to = progress'[c]
  OBVIOUS
<1>2. /\ progress' = [progress EXCEPT ![c] = to] /\ to \in Working \cup {"done", "failed"}
      /\ progress'[c] = to /\ \A d \in TransportCalls : d # c => progress'[d] = progress[d]
  BY <1>1 DEF Connected, At, TransportTypeOK, Working
<1>3. TransportTypeOK'
  BY <1>1, <1>2 DEF TransportTypeOK, Connected, BrokerKept, ConsumersKept
<1>4. TopicReady'
  BY <1>1 DEF TopicReady, Connected, At, BrokerKept
<1>5. OneProducer'
  BY <1>1 DEF OneProducer, TransportTypeOK, Connected, At
<1>6. ConsumersFound'
  BY <1>1 DEF ConsumersFound, Connected, At, ConsumersKept, Working
<1>7. ClosedInOrder'
  BY <1>1 DEF ClosedInOrder, Connected, At
<1> QED BY <1>3, <1>4, <1>5, <1>6, <1>7 DEF TransportIInv

\* A producer that does not start is forgotten, and the call gives up its locks.
LEMMA ConnectFailsKeeps ==
    ASSUME TransportIInv, Orderly, NEW c \in TransportCalls, ConnectFails(c)
    PROVE TransportIInv'
<1>1. TransportTypeOK /\ TopicReady /\ OneProducer /\ ConsumersFound /\ ClosedInOrder
  BY DEF TransportIInv
<1> PICK to : to = progress'[c]
  OBVIOUS
<1>2. /\ progress' = [progress EXCEPT ![c] = to] /\ to \in Working \cup {"done", "failed"}
      /\ progress'[c] = to /\ \A d \in TransportCalls : d # c => progress'[d] = progress[d]
  BY <1>1 DEF ConnectFails, At, TransportTypeOK
<1>3. TransportTypeOK'
  BY <1>1, <1>2 DEF TransportTypeOK, ConnectFails, BrokerKept, ConsumersKept
<1>4. TopicReady'
  BY <1>1 DEF TopicReady, ConnectFails, At, BrokerKept
<1>5. OneProducer'
  BY <1>1 DEF OneProducer, TransportTypeOK, ConnectFails, At
<1>6. ConsumersFound'
  BY <1>1 DEF ConsumersFound, TransportTypeOK, ConnectFails, At,
         ConsumersKept, Working
<1>7. ClosedInOrder'
  BY <1>1 DEF ClosedInOrder, ConnectFails, At
<1> QED BY <1>3, <1>4, <1>5, <1>6, <1>7 DEF TransportIInv

\* ensure_topic of an ensured topic returns at once.
LEMMA NeedTopicKeeps ==
    ASSUME TransportIInv, Orderly, NEW c \in TransportCalls, NeedTopic(c)
    PROVE TransportIInv'
<1>1. TransportTypeOK /\ TopicReady /\ OneProducer /\ ConsumersFound /\ ClosedInOrder
  BY DEF TransportIInv
<1> PICK to : to = progress'[c]
  OBVIOUS
<1>2. /\ progress' = [progress EXCEPT ![c] = to] /\ to \in Working \cup {"done", "failed"}
      /\ progress'[c] = to /\ \A d \in TransportCalls : d # c => progress'[d] = progress[d]
  BY <1>1 DEF NeedTopic, At, TransportTypeOK, Working
<1>3. TransportTypeOK'
  BY <1>1, <1>2 DEF TransportTypeOK, NeedTopic, LocksKept, BrokerKept,
         ConsumersKept
<1>4. TopicReady'
  BY <1>1 DEF TopicReady, NeedTopic, At, BrokerKept
<1>5. OneProducer'
  BY <1>1 DEF OneProducer, NeedTopic, At, LocksKept
<1>6. ConsumersFound'
  BY <1>1 DEF ConsumersFound, NeedTopic, At, LocksKept, ConsumersKept, Working
<1>7. ClosedInOrder'
  BY <1>1 DEF ClosedInOrder, NeedTopic, At
<1> QED BY <1>3, <1>4, <1>5, <1>6, <1>7 DEF TransportIInv

\* _topic_lock is taken when nobody holds it.
LEMMA TakeTopicKeeps ==
    ASSUME TransportIInv, Orderly, NEW c \in TransportCalls, TakeTopic(c)
    PROVE TransportIInv'
<1>1. TransportTypeOK /\ TopicReady /\ OneProducer /\ ConsumersFound /\ ClosedInOrder
  BY DEF TransportIInv
<1> PICK to : to = progress'[c]
  OBVIOUS
<1>2. /\ progress' = [progress EXCEPT ![c] = to] /\ to \in Working \cup {"done", "failed"}
      /\ progress'[c] = to /\ \A d \in TransportCalls : d # c => progress'[d] = progress[d]
  BY <1>1 DEF TakeTopic, At, TransportTypeOK, Working
<1>3. TransportTypeOK'
  BY <1>1, <1>2 DEF TransportTypeOK, TakeTopic, BrokerKept, ConsumersKept
<1>4. TopicReady'
  BY <1>1 DEF TopicReady, TakeTopic, At, BrokerKept
<1>5. OneProducer'
  BY <1>1 DEF OneProducer, TakeTopic, At
<1>6. ConsumersFound'
  BY <1>1 DEF ConsumersFound, TakeTopic, At, ConsumersKept, Working
<1>7. ClosedInOrder'
  BY <1>1 DEF ClosedInOrder, TakeTopic, At
<1> QED BY <1>3, <1>4, <1>5, <1>6, <1>7 DEF TransportIInv

\* The topic was ensured while the call waited for _topic_lock.
LEMMA TopicKnownKeeps ==
    ASSUME TransportIInv, Orderly, NEW c \in TransportCalls, TopicKnown(c)
    PROVE TransportIInv'
<1>1. TransportTypeOK /\ TopicReady /\ OneProducer /\ ConsumersFound /\ ClosedInOrder
  BY DEF TransportIInv
<1> PICK to : to = progress'[c]
  OBVIOUS
<1>2. /\ progress' = [progress EXCEPT ![c] = to] /\ to \in Working \cup {"done", "failed"}
      /\ progress'[c] = to /\ \A d \in TransportCalls : d # c => progress'[d] = progress[d]
  BY <1>1 DEF TopicKnown, At, TransportTypeOK, Working
<1>3. TransportTypeOK'
  BY <1>1, <1>2 DEF TransportTypeOK, TopicKnown, BrokerKept, ConsumersKept
<1>4. TopicReady'
  BY <1>1 DEF TopicReady, TopicKnown, BrokerKept
<1>5. OneProducer'
  BY <1>1 DEF OneProducer, TopicKnown, At
<1>6. ConsumersFound'
  BY <1>1 DEF ConsumersFound, TopicKnown, At, ConsumersKept, Working
<1>7. ClosedInOrder'
  BY <1>1 DEF ClosedInOrder, TopicKnown, At
<1> QED BY <1>3, <1>4, <1>5, <1>6, <1>7 DEF TransportIInv

\* list_topics tells whether the topic has to be created.
LEMMA ListTopicsKeeps ==
    ASSUME TransportIInv, Orderly, NEW c \in TransportCalls, ListTopics(c)
    PROVE TransportIInv'
<1>1. TransportTypeOK /\ TopicReady /\ OneProducer /\ ConsumersFound /\ ClosedInOrder
  BY DEF TransportIInv
<1> PICK to : to = progress'[c]
  OBVIOUS
<1>2. /\ progress' = [progress EXCEPT ![c] = to] /\ to \in Working \cup {"done", "failed"}
      /\ progress'[c] = to /\ \A d \in TransportCalls : d # c => progress'[d] = progress[d]
  BY <1>1 DEF ListTopics, At, TransportTypeOK, Working
<1>3. TransportTypeOK'
  BY <1>1, <1>2 DEF TransportTypeOK, ListTopics, LocksKept, ConsumersKept
<1>4. TopicReady'
  BY <1>1 DEF TopicReady, ListTopics, At
<1>5. OneProducer'
  BY <1>1 DEF OneProducer, ListTopics, At, LocksKept
<1>6. ConsumersFound'
  BY <1>1 DEF ConsumersFound, ListTopics, At, LocksKept, ConsumersKept, Working
<1>7. ClosedInOrder'
  BY <1>1 DEF ClosedInOrder, ListTopics, At
<1> QED BY <1>3, <1>4, <1>5, <1>6, <1>7 DEF TransportIInv

\* create_topics changes nothing when another worker was first.
LEMMA CreateTopicKeeps ==
    ASSUME TransportIInv, Orderly, NEW c \in TransportCalls, CreateTopic(c)
    PROVE TransportIInv'
<1>1. TransportTypeOK /\ TopicReady /\ OneProducer /\ ConsumersFound /\ ClosedInOrder
  BY DEF TransportIInv
<1> PICK to : to = progress'[c]
  OBVIOUS
<1>2. /\ progress' = [progress EXCEPT ![c] = to] /\ to \in Working \cup {"done", "failed"}
      /\ progress'[c] = to /\ \A d \in TransportCalls : d # c => progress'[d] = progress[d]
  BY <1>1 DEF CreateTopic, At, TransportTypeOK, Working
<1>3. TransportTypeOK'
  BY <1>1, <1>2 DEF TransportTypeOK, CreateTopic, LocksKept, ConsumersKept
<1>4. TopicReady'
  BY <1>1 DEF TopicReady, CreateTopic, At
<1>5. OneProducer'
  BY <1>1 DEF OneProducer, CreateTopic, At, LocksKept
<1>6. ConsumersFound'
  BY <1>1 DEF ConsumersFound, CreateTopic, At, LocksKept, ConsumersKept, Working
<1>7. ClosedInOrder'
  BY <1>1 DEF ClosedInOrder, CreateTopic, At
<1> QED BY <1>3, <1>4, <1>5, <1>6, <1>7 DEF TransportIInv

\* A topic is ensured only when its partitions were seen ready.
LEMMA PollTopicKeeps ==
    ASSUME TransportIInv, Orderly, NEW c \in TransportCalls, PollTopic(c)
    PROVE TransportIInv'
<1>1. TransportTypeOK /\ TopicReady /\ OneProducer /\ ConsumersFound /\ ClosedInOrder
  BY DEF TransportIInv
<1> PICK to : to = progress'[c]
  OBVIOUS
<1>2. /\ progress' = [progress EXCEPT ![c] = to] /\ to \in Working \cup {"done", "failed"}
      /\ progress'[c] = to /\ \A d \in TransportCalls : d # c => progress'[d] = progress[d]
  BY <1>1 DEF PollTopic, At, TransportTypeOK, Working
<1>3. TransportTypeOK'
  <2>1. CASE topic = "ready"
    <3>1. /\ ensured' = TRUE /\ topicLock' = Nobody /\ topic' = topic
          /\ UNCHANGED <<producer, producers, closer, sentTo, connectLock, createLock, live, consumers, loops>>
      BY <2>1 DEF PollTopic, ConsumersKept
    <3> QED BY <1>1, <1>2, <3>1 DEF TransportTypeOK
  <2>2. CASE topic # "ready"
    <3>1. UNCHANGED <<ensured, topic, topicLock, producer, producers, closer, sentTo, connectLock, createLock, live, consumers, loops>>
      BY <2>2 DEF PollTopic, ConsumersKept
    <3> QED BY <1>1, <1>2, <3>1 DEF TransportTypeOK
  <2> QED BY <2>1, <2>2
<1>4. TopicReady'
  BY <1>1, <1>2 DEF TopicReady, PollTopic, At
<1>5. OneProducer'
  BY <1>1, <1>2 DEF OneProducer, PollTopic, At
<1>6. ConsumersFound'
  BY <1>1, <1>2 DEF ConsumersFound, PollTopic, At, ConsumersKept, Working
<1>7. ClosedInOrder'
  BY <1>1 DEF ClosedInOrder, PollTopic, At
<1> QED BY <1>3, <1>4, <1>5, <1>6, <1>7 DEF TransportIInv

\* A topic that is not ready in time fails the call, which gives up its locks.
LEMMA TopicNotReadyKeeps ==
    ASSUME TransportIInv, Orderly, NEW c \in TransportCalls, TopicNotReady(c)
    PROVE TransportIInv'
<1>1. TransportTypeOK /\ TopicReady /\ OneProducer /\ ConsumersFound /\ ClosedInOrder
  BY DEF TransportIInv
<1> PICK to : to = progress'[c]
  OBVIOUS
<1>2. /\ progress' = [progress EXCEPT ![c] = to] /\ to \in Working \cup {"done", "failed"}
      /\ progress'[c] = to /\ \A d \in TransportCalls : d # c => progress'[d] = progress[d]
  BY <1>1 DEF TopicNotReady, At, TransportTypeOK
<1>3. TransportTypeOK'
  BY <1>1, <1>2 DEF TransportTypeOK, TopicNotReady, BrokerKept, ConsumersKept
<1>4. TopicReady'
  BY <1>1 DEF TopicReady, TopicNotReady, At, BrokerKept
<1>5. OneProducer'
  BY <1>1 DEF OneProducer, TopicNotReady, At
<1>6. ConsumersFound'
  BY <1>1 DEF ConsumersFound, TransportTypeOK, TopicNotReady, At,
         ConsumersKept, Working
<1>7. ClosedInOrder'
  BY <1>1 DEF ClosedInOrder, TopicNotReady, At
<1> QED BY <1>3, <1>4, <1>5, <1>6, <1>7 DEF TransportIInv

\* A record is sent to the topic as it is then: ready.
LEMMA SendKeeps ==
    ASSUME TransportIInv, Orderly, NEW c \in TransportCalls, Send(c)
    PROVE TransportIInv'
<1>1. TransportTypeOK /\ TopicReady /\ OneProducer /\ ConsumersFound /\ ClosedInOrder
  BY DEF TransportIInv
<1> PICK to : to = progress'[c]
  OBVIOUS
<1>2. /\ progress' = [progress EXCEPT ![c] = to] /\ to \in Working \cup {"done", "failed"}
      /\ progress'[c] = to /\ \A d \in TransportCalls : d # c => progress'[d] = progress[d]
  BY <1>1 DEF Send, At, TransportTypeOK
<1>3. TransportTypeOK'
  BY <1>1, <1>2 DEF TransportTypeOK, Send, LocksKept, BrokerKept, ConsumersKept
<1>4. TopicReady'
  BY <1>1 DEF TopicReady, Send, At, BrokerKept
<1>5. OneProducer'
  BY <1>1 DEF OneProducer, Send, At, LocksKept
<1>6. ConsumersFound'
  BY <1>1, TransportAssumption DEF ConsumersFound, Send, At, LocksKept,
         ConsumersKept
<1>7. ClosedInOrder'
  BY <1>1 DEF ClosedInOrder, Send, At
<1> QED BY <1>3, <1>4, <1>5, <1>6, <1>7 DEF TransportIInv

\* The consumer a call starts is the only one of its kind.
LEMMA StartConsumerKeeps ==
    ASSUME TransportIInv, Orderly, NEW c \in TransportCalls, StartConsumer(c)
    PROVE TransportIInv'
<1>1. TransportTypeOK /\ TopicReady /\ OneProducer /\ ConsumersFound /\ ClosedInOrder
  BY DEF TransportIInv
<1> PICK to : to = progress'[c]
  OBVIOUS
<1>2. /\ progress' = [progress EXCEPT ![c] = to] /\ to \in Working \cup {"done", "failed"}
      /\ progress'[c] = to /\ \A d \in TransportCalls : d # c => progress'[d] = progress[d]
  BY <1>1 DEF StartConsumer, At, TransportTypeOK, Working
<1>3. TransportTypeOK'
  BY <1>1, <1>2 DEF TransportTypeOK, StartConsumer, LocksKept, BrokerKept
<1>4. TopicReady'
  BY <1>1, <1>2 DEF TopicReady, StartConsumer, At, BrokerKept
<1>5. OneProducer'
  BY <1>1, <1>2 DEF OneProducer, StartConsumer, At, LocksKept
<1>6. ConsumersFound'
  BY <1>1, <1>2 DEF ConsumersFound, TransportTypeOK, StartConsumer, At,
         LocksKept
<1>7. ClosedInOrder'
  BY <1>1 DEF ClosedInOrder, StartConsumer, At
<1> QED BY <1>3, <1>4, <1>5, <1>6, <1>7 DEF TransportIInv

\* A consumer that does not start is not kept.
LEMMA ConsumerFailsKeeps ==
    ASSUME TransportIInv, Orderly, NEW c \in TransportCalls, ConsumerFails(c)
    PROVE TransportIInv'
<1>1. TransportTypeOK /\ TopicReady /\ OneProducer /\ ConsumersFound /\ ClosedInOrder
  BY DEF TransportIInv
<1> PICK to : to = progress'[c]
  OBVIOUS
<1>2. /\ progress' = [progress EXCEPT ![c] = to] /\ to \in Working \cup {"done", "failed"}
      /\ progress'[c] = to /\ \A d \in TransportCalls : d # c => progress'[d] = progress[d]
  BY <1>1 DEF ConsumerFails, At, TransportTypeOK
<1>3. TransportTypeOK'
  BY <1>1, <1>2 DEF TransportTypeOK, ConsumerFails, BrokerKept
<1>4. TopicReady'
  BY <1>1 DEF TopicReady, ConsumerFails, At, BrokerKept
<1>5. OneProducer'
  BY <1>1 DEF OneProducer, ConsumerFails, At
<1>6. ConsumersFound'
  BY <1>1 DEF ConsumersFound, TransportTypeOK, ConsumerFails, At, Working
<1>7. ClosedInOrder'
  BY <1>1 DEF ClosedInOrder, ConsumerFails, At
<1> QED BY <1>3, <1>4, <1>5, <1>6, <1>7 DEF TransportIInv

\* A started consumer enters the client's table, where close finds it.
LEMMA KeepConsumerKeeps ==
    ASSUME TransportIInv, Orderly, NEW c \in TransportCalls, KeepConsumer(c)
    PROVE TransportIInv'
<1>1. TransportTypeOK /\ TopicReady /\ OneProducer /\ ConsumersFound /\ ClosedInOrder
  BY DEF TransportIInv
<1>2. /\ progress' = [progress EXCEPT ![c] = "done"] /\ progress[c] = "consuming"
      /\ progress'[c] = "done" /\ \A d \in TransportCalls : d # c => progress'[d] = progress[d]
  BY <1>1 DEF KeepConsumer, At, TransportTypeOK
<1>3. /\ c \in live /\ c \in Pops \cup Registers
      /\ UNCHANGED <<producer, producers, closer, sentTo, live, connectLock, topicLock, ensured, topic, polls>>
      /\ createLock' = IF createLock = c THEN Nobody ELSE createLock
  BY <1>1, <1>2 DEF ConsumersFound, TransportTypeOK, KeepConsumer, BrokerKept
<1>4. /\ consumers' \in [manual : Pops \cup {Nobody}, callback : Registers \cup {Nobody}]
      /\ loops' \in SUBSET TransportCalls
      /\ c \in Pops => consumers'.manual = c /\ consumers'.callback = consumers.callback
      /\ c \notin Pops => consumers'.callback = c /\ consumers'.manual = consumers.manual
  <2>1. CASE c \in Pops
    BY <1>1, <2>1 DEF KeepConsumer, TransportTypeOK
  <2>2. CASE c \notin Pops
    BY <1>1, <1>3 DEF KeepConsumer, TransportTypeOK
  <2> QED BY <2>1, <2>2
<1>5. closer = "idle"
  BY <1>1, <1>2 DEF ClosedInOrder
<1>6. TransportTypeOK'
  BY <1>1, <1>2, <1>3, <1>4 DEF TransportTypeOK
<1>7. TopicReady'
  BY <1>1, <1>2, <1>3 DEF TopicReady
<1>8. OneProducer'
  BY <1>1, <1>2, <1>3 DEF OneProducer
<1>9. ConsumersFound'
  <2>1. c \in Pops => createLock = c /\ consumers.manual = Nobody
    BY <1>1, <1>2 DEF ConsumersFound, Working
  <2>2. ASSUME NEW d \in Pops, progress'[d] \in Working
        PROVE createLock' = d /\ consumers'.manual = Nobody
    <3>1. d # c /\ progress[d] \in Working
      BY <1>2, <2>2 DEF Working, TransportCalls
    <3>2. createLock = d /\ consumers.manual = Nobody /\ c \notin Pops
      BY <1>1, <2>1, <3>1 DEF ConsumersFound
    <3> QED BY <1>3, <1>4, <3>1, <3>2
  <2>3. ASSUME NEW d \in live
        PROVE progress'[d] = "consuming" \/ d \in {consumers'.manual, consumers'.callback}
    <3>1. CASE d = c
      BY <1>4, <3>1
    <3>2. CASE d # c /\ progress[d] = "consuming"
      BY <1>2, <3>2
    <3>3. CASE d # c /\ d = consumers.manual
      BY <1>4, <2>1, <3>3, <1>1, TransportAssumption DEF TransportTypeOK,
             TransportCalls
    <3>4. CASE d # c /\ d = consumers.callback
      <4>1. d # Nobody
        BY <1>1, TransportAssumption DEF TransportTypeOK, TransportCalls
      <4>2. d \in Registers
        BY <1>1, <3>4, <4>1 DEF TransportTypeOK
      <4>3. c \notin Registers
        BY <3>4, <4>2 DEF Orderly
      <4> QED BY <1>3, <1>4, <3>4, <4>3
    <3> QED BY <1>1, <3>1, <3>2, <3>3, <3>4 DEF ConsumersFound
  <2>4. \A d \in TransportCalls : progress'[d] = "consuming" => d \in live
    BY <1>1, <1>2 DEF ConsumersFound
  <2>5. ASSUME NEW d \in Registers, consumers'.callback = d
        PROVE progress'[d] = "done"
    <3>1. CASE d = c
      BY <1>2, <3>1
    <3>2. CASE d # c
      <4>1. c \notin Registers
        BY <3>2 DEF Orderly
      <4>2. consumers.callback = d
        BY <1>3, <1>4, <2>5, <4>1
      <4> QED BY <1>1, <1>2, <4>2 DEF ConsumersFound
    <3> QED BY <3>1, <3>2
  <2> QED BY <1>3, <2>2, <2>3, <2>4, <2>5 DEF ConsumersFound
<1>10. ClosedInOrder'
  BY <1>3, <1>5 DEF ClosedInOrder
<1> QED BY <1>6, <1>7, <1>8, <1>9, <1>10 DEF TransportIInv

\* A consume loop that ends by itself leaves its consumer in the table.
LEMMA LoopEndsKeeps ==
    ASSUME TransportIInv, Orderly, NEW c \in TransportCalls, LoopEnds(c)
    PROVE TransportIInv'
<1>1. TransportTypeOK /\ TopicReady /\ OneProducer /\ ConsumersFound /\ ClosedInOrder
  BY DEF TransportIInv
<1>3. TransportTypeOK'
  BY <1>1 DEF TransportTypeOK, LoopEnds, LocksKept, BrokerKept
<1>4. TopicReady'
  BY <1>1 DEF TopicReady, LoopEnds, BrokerKept
<1>5. OneProducer'
  BY <1>1 DEF OneProducer, LoopEnds, LocksKept
<1>6. ConsumersFound'
  BY <1>1 DEF ConsumersFound, LoopEnds, LocksKept
<1>7. ClosedInOrder'
  BY <1>1 DEF ClosedInOrder, LoopEnds
<1> QED BY <1>3, <1>4, <1>5, <1>6, <1>7 DEF TransportIInv

\* The broker's metadata catches up.
LEMMA TopicBecomesReadyKeeps ==
    ASSUME TransportIInv, Orderly, TopicBecomesReady
    PROVE TransportIInv'
<1>1. TransportTypeOK /\ TopicReady /\ OneProducer /\ ConsumersFound /\ ClosedInOrder
  BY DEF TransportIInv
<1>3. TransportTypeOK'
  BY <1>1 DEF TransportTypeOK, TopicBecomesReady, LocksKept, ConsumersKept
<1>4. TopicReady'
  BY <1>1 DEF TopicReady, TopicBecomesReady
<1>5. OneProducer'
  BY <1>1 DEF OneProducer, TopicBecomesReady, LocksKept
<1>6. ConsumersFound'
  BY <1>1 DEF ConsumersFound, TopicBecomesReady, LocksKept, ConsumersKept
<1>7. ClosedInOrder'
  BY <1>1 DEF ClosedInOrder, TopicBecomesReady, ConsumersKept
<1> QED BY <1>3, <1>4, <1>5, <1>6, <1>7 DEF TransportIInv

\* Another worker creates the topic first.
LEMMA OtherWorkerCreatesKeeps ==
    ASSUME TransportIInv, Orderly, OtherWorkerCreates
    PROVE TransportIInv'
<1>1. TransportTypeOK /\ TopicReady /\ OneProducer /\ ConsumersFound /\ ClosedInOrder
  BY DEF TransportIInv
<1>3. TransportTypeOK'
  BY <1>1 DEF TransportTypeOK, OtherWorkerCreates, LocksKept, ConsumersKept
<1>4. TopicReady'
  BY <1>1 DEF TopicReady, OtherWorkerCreates
<1>5. OneProducer'
  BY <1>1 DEF OneProducer, OtherWorkerCreates, LocksKept
<1>6. ConsumersFound'
  BY <1>1 DEF ConsumersFound, OtherWorkerCreates, LocksKept, ConsumersKept
<1>7. ClosedInOrder'
  BY DEF ClosedInOrder, OtherWorkerCreates
<1> QED BY <1>3, <1>4, <1>5, <1>6, <1>7 DEF TransportIInv

\* delete_topics comes when every call is over, and stops the topic's consumers.
LEMMA DeleteTopicsKeeps ==
    ASSUME TransportIInv, Orderly, DeleteTopics
    PROVE TransportIInv'
<1>1. TransportTypeOK /\ TopicReady /\ OneProducer /\ ConsumersFound /\ ClosedInOrder
  BY DEF TransportIInv
<1>3. TransportTypeOK'
  BY <1>1 DEF TransportTypeOK, DeleteTopics, LocksKept, ClosersTurn, NoNewCalls
<1>4. TopicReady'
  BY <1>1 DEF TopicReady, DeleteTopics, CallsOver, NoNewCalls
<1>5. OneProducer'
  BY <1>1 DEF OneProducer, DeleteTopics, CallsOver, NoNewCalls
<1>6. ConsumersFound'
  BY <1>1, TransportAssumption DEF ConsumersFound, TransportTypeOK,
         DeleteTopics, Working, TransportCalls, CallsOver, NoNewCalls
<1>7. ClosedInOrder'
  BY DEF ClosedInOrder, DeleteTopics, CallsOver, ClosersTurn, NoNewCalls
<1> QED BY <1>3, <1>4, <1>5, <1>6, <1>7 DEF TransportIInv

\* close takes _connect_lock and ends the loops when every call is over.
LEMMA CloseTransportKeeps ==
    ASSUME TransportIInv, Orderly, CloseTransport
    PROVE TransportIInv'
<1>1. TransportTypeOK /\ TopicReady /\ OneProducer /\ ConsumersFound /\ ClosedInOrder
  BY DEF TransportIInv
<1>3. TransportTypeOK'
  BY <1>1 DEF TransportTypeOK, CloseTransport, BrokerKept, NoNewCalls
<1>4. TopicReady'
  BY <1>1 DEF TopicReady, CloseTransport, BrokerKept, NoNewCalls
<1>5. OneProducer'
  BY <1>1, TransportAssumption DEF OneProducer, CloseTransport, NoNewCalls
<1>6. ConsumersFound'
  BY <1>1 DEF ConsumersFound, TransportTypeOK, CloseTransport, Working,
         TransportCalls, NoNewCalls
<1>7. ClosedInOrder'
  BY DEF ClosedInOrder, CloseTransport, Orderly, CallsOver, NoNewCalls
<1> QED BY <1>3, <1>4, <1>5, <1>6, <1>7 DEF TransportIInv

\* close stops every consumer of the table, which are all there are.
LEMMA StopConsumersKeeps ==
    ASSUME TransportIInv, Orderly, StopConsumers
    PROVE TransportIInv'
<1>1. TransportTypeOK /\ TopicReady /\ OneProducer /\ ConsumersFound /\ ClosedInOrder
  BY DEF TransportIInv
<1>3. TransportTypeOK'
  BY <1>1 DEF TransportTypeOK, StopConsumers, LocksKept, BrokerKept, ClosersTurn
<1>4. TopicReady'
  BY <1>1 DEF TopicReady, StopConsumers, BrokerKept
<1>5. OneProducer'
  BY <1>1 DEF OneProducer, StopConsumers, LocksKept
<1>6. ConsumersFound'
  BY <1>1, TransportAssumption DEF ConsumersFound, TransportTypeOK,
         StopConsumers, LocksKept, Orderly
<1>7. ClosedInOrder'
  <2>1. /\ closer = "loops" /\ closer' = "consumers" /\ live' = live \ {consumers.manual, consumers.callback}
        /\ UNCHANGED <<progress, loops, producers>>
    BY DEF StopConsumers, ClosersTurn
  <2>2. \A c \in TransportCalls : progress[c] \in {"done", "failed"}
    BY <1>1, <2>1 DEF ClosedInOrder
  <2>3. live' = {}
    BY <1>1, <2>1, <2>2 DEF ConsumersFound, TransportTypeOK, TransportCalls
  <2> QED BY <1>1, <2>1, <2>3 DEF ClosedInOrder
<1> QED BY <1>3, <1>4, <1>5, <1>6, <1>7 DEF TransportIInv

\* close stops the producer, which is the only one.
LEMMA StopProducerKeeps ==
    ASSUME TransportIInv, Orderly, StopProducer
    PROVE TransportIInv'
<1>1. TransportTypeOK /\ TopicReady /\ OneProducer /\ ConsumersFound /\ ClosedInOrder
  BY DEF TransportIInv
<1>3. TransportTypeOK'
  BY <1>1 DEF TransportTypeOK, StopProducer, BrokerKept, ConsumersKept,
         ClosersTurn
<1>4. TopicReady'
  BY <1>1 DEF TopicReady, StopProducer, BrokerKept
<1>5. OneProducer'
  <2>1. /\ closer = "consumers" /\ producers' = {} /\ progress' = progress
    BY DEF StopProducer, ClosersTurn
  <2>2. \A c \in TransportCalls : progress[c] \in {"done", "failed"}
    BY <1>1, <2>1 DEF ClosedInOrder
  <2> QED BY <2>1, <2>2 DEF OneProducer
<1>6. ConsumersFound'
  BY <1>1 DEF ConsumersFound, StopProducer, ConsumersKept
<1>7. ClosedInOrder'
  BY <1>1 DEF ClosedInOrder, StopProducer, ConsumersKept, ClosersTurn
<1> QED BY <1>3, <1>4, <1>5, <1>6, <1>7 DEF TransportIInv

\* Nothing is open at first.
LEMMA TransportBegins == ASSUME TransportInit PROVE TransportIInv
<1> USE TransportAssumption
<1>1. TransportTypeOK
  BY DEF TransportInit, TransportTypeOK, Nobody
<1>2. TopicReady /\ OneProducer /\ ConsumersFound /\ ClosedInOrder
  BY DEF TransportInit, TopicReady, OneProducer, ConsumersFound,
         ClosedInOrder, Working, TransportCalls
<1> QED BY <1>1, <1>2 DEF TransportIInv

\* A step of another component leaves the Kafka client alone.
LEMMA TransportStays == ASSUME TransportIInv, UNCHANGED transportVars PROVE TransportIInv'
BY DEF TransportIInv, TransportTypeOK, TopicReady, OneProducer,
       ConsumersFound, ClosedInOrder, transportVars

\* Every step of the Kafka client keeps the invariant.
LEMMA TransportKeeps ==
    ASSUME TransportIInv, Orderly, [TransportNext]_transportVars
    PROVE TransportIInv'
<1>1. ASSUME NEW c \in TransportCalls, TransportStep(c)
      PROVE TransportIInv'
  BY <1>1, PopKeeps, ProduceKeeps, RegisterKeeps, ConnectKeeps,
         TakeConnectKeeps, ConnectTransportKeeps, ConnectedKeeps, NeedTopicKeeps,
         TakeTopicKeeps, TopicKnownKeeps, ListTopicsKeeps, CreateTopicKeeps,
         PollTopicKeeps, TopicNotReadyKeeps, SendKeeps, StartConsumerKeeps,
         KeepConsumerKeeps DEF TransportStep
<1>2. ASSUME NEW c \in TransportCalls, ConnectFails(c) \/ ConsumerFails(c) \/ LoopEnds(c)
      PROVE TransportIInv'
  BY <1>2, ConnectFailsKeeps, ConsumerFailsKeeps, LoopEndsKeeps
<1>3. ASSUME TopicBecomesReady \/ OtherWorkerCreates \/ DeleteTopics \/ CloserStep
      PROVE TransportIInv'
  BY <1>3, TopicBecomesReadyKeeps, OtherWorkerCreatesKeeps,
         DeleteTopicsKeeps, CloseTransportKeeps, StopConsumersKeeps,
         StopProducerKeeps DEF CloserStep
<1> QED BY <1>1, <1>2, <1>3, TransportStays DEF TransportNext

\* A set whose members are all equal has at most one.
LEMMA AtMostOne ==
    ASSUME NEW S, \A a, b \in S : a = b
    PROVE Cardinality(S) <= 1
<1>1. CASE S = {}
  BY <1>1, FS_EmptySet
<1>2. CASE S # {}
  <2>1. PICK a \in S : S = {a}
    BY <1>2
  <2> QED BY <2>1, FS_Singleton
<1> QED BY <1>1, <1>2

\* What is checked of the Kafka client follows from the invariant.
LEMMA TransportImplies == ASSUME TransportIInv PROVE TransportInv
<1>1. TransportTypeOK /\ TopicReady /\ OneProducer /\ ConsumersFound /\ ClosedInOrder
  BY DEF TransportIInv
<1>2. Cardinality(producers) <= 1
  BY <1>1, AtMostOne DEF OneProducer
<1>3. ASSUME NEW a \in live \cap Pops, NEW b \in live \cap Pops
      PROVE a = b
  <2>1. a # consumers.callback /\ b # consumers.callback
    BY <1>1, TransportAssumption DEF TransportTypeOK, TransportCalls
  <2>2. \A d \in {a, b} : (createLock = d /\ consumers.manual = Nobody) \/ consumers.manual = d
    BY <1>1, <2>1 DEF ConsumersFound, Working
  <2> QED BY <2>2, TransportAssumption DEF TransportCalls, Nobody
<1>4. Cardinality(live \cap Pops) <= 1
  <2> PICK S : S = live \cap Pops
    OBVIOUS
  <2> QED BY <1>3, AtMostOne
<1> QED BY <1>1, <1>2, <1>4 DEF TransportInv, TopicReady, ConsumersFound,
       ClosedInOrder

---------------------------------------------------------------------------
(* The RabbitMQ connection.  One consumer per queue needs that channels    *)
(* opened under _consumer_lock end in the table (ChannelsKept), on the     *)
(* first connection (NotBegun, UnderLocks); that what is published is      *)
(* routed needs that a queue counts as declared only while it is bound,    *)
(* and is deleted after the last push (Routed, DeletesLast).               *)

\* The stages of a call that connects, and of one that uses a connected client.
MqConnecting == {"connect", "opening", "channel"}
MqCalling == {"declaring", "publishing", "missing", "looking", "binding", "getting"}

RabbitTypeOK ==
  /\ client \in [conn : Nat, channel : {"none", "open", "closed"}, exchange : BOOLEAN,
                 queues : SUBSET MqQueues, consumers : [MqQueues -> MqCalls \cup {None}]]
  /\ broker \in [opened : Nat, conns : SUBSET Nat, channels : SUBSET MqCalls, bound : SUBSET MqQueues]
  /\ held \in [{"connect", "declare", "consumer"} -> MqCalls \cup {None, Closer}]
  /\ stage \in [MqCalls -> {"idle", "ready", "deleting", "done", "failed"} \cup MqConnecting \cup MqCalling]
  /\ mqCloser \in {"idle", "channel", "connection", "closed"}
  /\ owned \in BOOLEAN /\ \A n \in broker.conns : n > 0 /\ n <= broker.opened

\* Deletes and other calls have stages of their own, and a delete waits for the others.
DeletesLast ==
  /\ \A c \in MqDeletes : stage[c] \notin MqCalling
  /\ \A c \in MqCalls \ MqDeletes : stage[c] # "deleting"
  /\ (\E d \in MqDeletes : stage[d] \notin {"idle", "failed"}) =>
        \A c \in MqCalls \ MqDeletes : stage[c] \in {"done", "failed"}

\* What is declared stays bound until a queue is deleted.
Routed ==
  /\ ~unrouted
  /\ \A c \in MqCalls : stage[c] = "publishing" => QueueOf[c] \in broker.bound
  /\ (\E c \in MqCalls \ MqDeletes : stage[c] \notin {"done", "failed"}) =>
        client.queues \subseteq broker.bound

\* The client's connection is the only open one it has not overwritten.
OwnConnection ==
  /\ broker.conns \subseteq {client.conn} \cup overwritten
  /\ overwritten = {} /\ ~ConnectionOpen => broker.channels = {}
  /\ broker.opened = 0 => broker.channels = {} /\ ~client.exchange
  /\ overwritten # {} => broker.opened > 1

\* Closing takes place once nobody connects.
ClosedQuietly ==
  /\ mqCloser # "idle" => \A c \in MqCalls : stage[c] \notin MqConnecting \cup {"idle"}
  /\ owned => \A c \in MqCalls \ MqDeletes : stage[c] \notin MqConnecting
  /\ owned /\ mqCloser # "closed" => client.exchange
  /\ mqCloser = "closed" => client.conn = 0

\* Until the client has its first channel, no call has begun to use it.
NotBegun ==
  broker.opened <= 1 /\ ~client.exchange /\ mqCloser # "closed" =>
      /\ broker.channels = {}
      /\ \A c \in MqCalls \ MqDeletes : stage[c] \in {"idle", "failed"} \cup MqConnecting

\* Connecting and looking for a consumer are done under their locks.
UnderLocks ==
  /\ \A c \in MqCalls : stage[c] \in {"opening", "channel"} => held["connect"] = c
  /\ \A c \in MqCalls : stage[c] = "channel" /\ broker.opened <= 1 => ~client.exchange
  /\ \A c \in MqCalls : stage[c] \in {"looking", "binding"} => held["consumer"] = c
  /\ \A c \in MqCalls : stage[c] = "binding" => client.consumers[QueueOf[c]] = None

\* On the first connection a call keeps the channel it opened, or is about to.
ChannelsKept ==
  \A c \in broker.channels :
      \/ stage[c] \in {"failed", "binding"}
      \/ /\ stage[c] \in {"getting", "done"}
         /\ broker.opened <= 1 => client.consumers[QueueOf[c]] = c

RabbitIInv ==
  /\ RabbitTypeOK /\ DeletesLast /\ Routed /\ OwnConnection
  /\ ClosedQuietly /\ NotBegun /\ UnderLocks /\ ChannelsKept

\* Calls have queues, and none of them is the closer or nobody.
LEMMA QueuesOfCalls ==
    /\ \A c \in MqCalls : QueueOf[c] \in MqQueues
    /\ None \notin MqCalls /\ Closer \notin MqCalls /\ MqDeletes \subseteq MqCalls
    /\ \A c \in MqPushes \cup MqPops : c \in MqCalls \ MqDeletes
BY RabbitAssumption DEF MqQueues, MqCalls

\* A call begins: it is ready on an open channel, or has to connect.
LEMMA EnterCallKeeps ==
    ASSUME RabbitIInv, NEW c \in MqCalls, EnterCall(c)
    PROVE RabbitIInv'
<1>1. RabbitTypeOK /\ DeletesLast /\ Routed /\ OwnConnection /\ ClosedQuietly /\ NotBegun /\ UnderLocks /\ ChannelsKept
  BY DEF RabbitIInv
<1> PICK to : to = stage'[c]
  OBVIOUS
<1>2. /\ stage' = [stage EXCEPT ![c] = to] /\ stage'[c] = to
      /\ \A d \in MqCalls : d # c => stage'[d] = stage[d]
  BY <1>1 DEF EnterCall, OnStage, RabbitTypeOK
<1>3. RabbitTypeOK'
  BY <1>1 DEF RabbitTypeOK, EnterCall, OnStage, ClosingKept, MqConnecting
<1>4. DeletesLast'
  BY <1>1 DEF DeletesLast, EnterCall, OnStage
<1>5. Routed'
  BY <1>1 DEF Routed, EnterCall, OnStage, ClosingKept
<1>6. OwnConnection'
  BY <1>1 DEF OwnConnection, EnterCall, ConnectionOpen, ClosingKept
<1>7. ClosedQuietly'
  BY <1>1 DEF ClosedQuietly, EnterCall, OnStage, ClosingKept, MqConnecting
<1>8. NotBegun'
  BY <1>1 DEF NotBegun, EnterCall, OnStage, ClosingKept, MqConnecting
<1>9. UnderLocks'
  BY <1>1 DEF UnderLocks, EnterCall, OnStage
<1>10. ChannelsKept'
  BY <1>1 DEF ChannelsKept, EnterCall, OnStage
<1> QED BY <1>3, <1>4, <1>5, <1>6, <1>7, <1>8, <1>9, <1>10 DEF RabbitIInv

\* delete_queue begins when the other calls are over.
LEMMA EnterDeleteKeeps ==
    ASSUME RabbitIInv, NEW c \in MqCalls, EnterDelete(c)
    PROVE RabbitIInv'
<1>1. RabbitTypeOK /\ DeletesLast /\ Routed /\ OwnConnection /\ ClosedQuietly /\ NotBegun /\ UnderLocks /\ ChannelsKept
  BY DEF RabbitIInv
<1> PICK to : to = stage'[c]
  OBVIOUS
<1>2. /\ stage' = [stage EXCEPT ![c] = to] /\ stage'[c] = to
      /\ \A d \in MqCalls : d # c => stage'[d] = stage[d]
  BY <1>1 DEF EnterDelete, OnStage, RabbitTypeOK
<1>3. RabbitTypeOK'
  BY <1>1 DEF RabbitTypeOK, EnterDelete, OnStage, ClosingKept, MqConnecting
<1>4. DeletesLast'
  BY QueuesOfCalls DEF DeletesLast, EnterDelete, OnStage, MqCalling
<1>5. Routed'
  BY <1>1 DEF Routed, EnterDelete, OnStage, ClosingKept
<1>6. OwnConnection'
  BY <1>1 DEF OwnConnection, EnterDelete, ConnectionOpen, ClosingKept
<1>7. ClosedQuietly'
  BY <1>1 DEF ClosedQuietly, EnterDelete, OnStage, ClosingKept
<1>8. NotBegun'
  BY <1>1, <1>2 DEF NotBegun, EnterDelete, ClosingKept
<1>9. UnderLocks'
  BY DEF UnderLocks, EnterDelete, OnStage
<1>10. ChannelsKept'
  BY <1>1 DEF ChannelsKept, EnterDelete, OnStage
<1> QED BY <1>3, <1>4, <1>5, <1>6, <1>7, <1>8, <1>9, <1>10 DEF RabbitIInv

\* _connect_lock is taken when nobody holds it, close included.
LEMMA TakeConnectLockKeeps ==
    ASSUME RabbitIInv, NEW c \in MqCalls, TakeConnectLock(c)
    PROVE RabbitIInv'
<1>1. RabbitTypeOK /\ DeletesLast /\ Routed /\ OwnConnection /\ ClosedQuietly /\ NotBegun /\ UnderLocks /\ ChannelsKept
  BY DEF RabbitIInv
<1> PICK to : to = stage'[c]
  OBVIOUS
<1>2. /\ stage' = [stage EXCEPT ![c] = to] /\ stage'[c] = to
      /\ \A d \in MqCalls : d # c => stage'[d] = stage[d]
  BY <1>1 DEF TakeConnectLock, OnStage, RabbitTypeOK
<1>3. RabbitTypeOK'
  BY <1>1 DEF RabbitTypeOK, TakeConnectLock, OnStage, TakeMq, ClosingKept,
         MqConnecting
<1>4. DeletesLast'
  BY <1>1 DEF DeletesLast, TakeConnectLock, OnStage, MqCalling
<1>5. Routed'
  BY <1>1 DEF Routed, TakeConnectLock, OnStage, ClosingKept
<1>6. OwnConnection'
  BY <1>1 DEF OwnConnection, TakeConnectLock, ConnectionOpen, ClosingKept
<1>7. ClosedQuietly'
  BY <1>1 DEF ClosedQuietly, TakeConnectLock, OnStage, ClosingKept, MqConnecting
<1>8. NotBegun'
  BY <1>1 DEF NotBegun, TakeConnectLock, OnStage, ClosingKept, MqConnecting
<1>9. UnderLocks'
  BY <1>1, QueuesOfCalls DEF UnderLocks, RabbitTypeOK, TakeConnectLock,
         OnStage, TakeMq
<1>10. ChannelsKept'
  BY <1>1 DEF ChannelsKept, TakeConnectLock, OnStage
<1> QED BY <1>3, <1>4, <1>5, <1>6, <1>7, <1>8, <1>9, <1>10 DEF RabbitIInv

\* Another call connected while this one waited for _connect_lock.
LEMMA AlreadyConnectedKeeps ==
    ASSUME RabbitIInv, NEW c \in MqCalls, AlreadyConnected(c)
    PROVE RabbitIInv'
<1>1. RabbitTypeOK /\ DeletesLast /\ Routed /\ OwnConnection /\ ClosedQuietly /\ NotBegun /\ UnderLocks /\ ChannelsKept
  BY DEF RabbitIInv
<1> PICK to : to = stage'[c]
  OBVIOUS
<1>2. /\ stage' = [stage EXCEPT ![c] = to] /\ stage'[c] = to
      /\ \A d \in MqCalls : d # c => stage'[d] = stage[d]
  BY <1>1 DEF AlreadyConnected, OnStage, RabbitTypeOK
<1>3. RabbitTypeOK'
  BY <1>1 DEF RabbitTypeOK, AlreadyConnected, OnStage, Freed, ClosingKept
<1>4. DeletesLast'
  BY <1>1 DEF DeletesLast, AlreadyConnected, OnStage, MqCalling
<1>5. Routed'
  BY <1>1 DEF Routed, AlreadyConnected, OnStage, ClosingKept
<1>6. OwnConnection'
  BY <1>1 DEF OwnConnection, AlreadyConnected, ConnectionOpen, ClosingKept
<1>7. ClosedQuietly'
  BY <1>1 DEF ClosedQuietly, AlreadyConnected, OnStage, ClosingKept,
         MqConnecting
<1>8. NotBegun'
  BY DEF NotBegun, AlreadyConnected
<1>9. UnderLocks'
  BY <1>1 DEF UnderLocks, RabbitTypeOK, AlreadyConnected, OnStage, Freed
<1>10. ChannelsKept'
  BY <1>1 DEF ChannelsKept, AlreadyConnected, OnStage
<1> QED BY <1>3, <1>4, <1>5, <1>6, <1>7, <1>8, <1>9, <1>10 DEF RabbitIInv

\* A connection made anew overwrites a client's connection that is still open.
LEMMA OpenConnectionKeeps ==
    ASSUME RabbitIInv, NEW c \in MqCalls, OpenConnection(c)
    PROVE RabbitIInv'
<1>1. RabbitTypeOK /\ DeletesLast /\ Routed /\ OwnConnection /\ ClosedQuietly /\ NotBegun /\ UnderLocks /\ ChannelsKept
  BY DEF RabbitIInv
<1> PICK to : to = stage'[c]
  OBVIOUS
<1>2. /\ stage' = [stage EXCEPT ![c] = to] /\ stage'[c] = to
      /\ \A d \in MqCalls : d # c => stage'[d] = stage[d]
  BY <1>1 DEF OpenConnection, OnStage, RabbitTypeOK
<1>a. /\ stage[c] = "opening" /\ to = "channel"
      /\ overwritten' = overwritten \cup ({client.conn} \cap broker.conns)
      /\ UNCHANGED <<owned, held, mqCloser, unrouted>>
  BY <1>1 DEF OpenConnection, OnStage, RabbitTypeOK
<1>b. /\ broker'.opened = broker.opened + 1 /\ broker'.conns = broker.conns \cup {broker.opened + 1}
      /\ broker'.channels = broker.channels /\ broker'.bound = broker.bound
      /\ broker' \in [opened : Nat, conns : SUBSET Nat, channels : SUBSET MqCalls, bound : SUBSET MqQueues]
  <2> PICK n \in Nat : n = broker.opened + 1
    BY <1>1 DEF RabbitTypeOK
  <2>1. broker' = [broker EXCEPT !.opened = n, !.conns = @ \cup {n}]
    BY DEF OpenConnection
  <2> QED BY <1>1, <2>1 DEF RabbitTypeOK
<1>c. /\ client'.conn = broker.opened + 1 /\ client'.exchange = client.exchange
      /\ client'.consumers = client.consumers /\ client'.queues = client.queues
      /\ client' \in [conn : Nat, channel : {"none", "open", "closed"}, exchange : BOOLEAN,
                     queues : SUBSET MqQueues, consumers : [MqQueues -> MqCalls \cup {None}]]
  BY <1>1 DEF OpenConnection, RabbitTypeOK
<1>3. RabbitTypeOK'
  <2>1. \A n \in broker'.conns : n > 0 /\ n <= broker'.opened
    BY <1>1, <1>b DEF RabbitTypeOK
  <2>2. stage' \in [MqCalls -> {"idle", "ready", "deleting", "done", "failed"} \cup MqConnecting \cup MqCalling]
    BY <1>1, <1>2, <1>a DEF RabbitTypeOK, MqConnecting
  <2> QED BY <1>1, <1>a, <1>b, <1>c, <2>2 DEF RabbitTypeOK
<1>4. DeletesLast'
  BY <1>1 DEF DeletesLast, OpenConnection, OnStage, MqCalling
<1>5. Routed'
  BY <1>1 DEF Routed, OpenConnection, OnStage
<1>6. OwnConnection'
  <2>1. overwritten' # {} => broker'.opened > 1
    BY <1>1, <1>a, <1>b DEF OwnConnection, RabbitTypeOK
  <2>2. broker'.conns \subseteq {client'.conn} \cup overwritten'
    BY <1>1, <1>a, <1>b, <1>c DEF OwnConnection
  <2>3. broker'.opened # 0 /\ client'.conn \in broker'.conns
    BY <1>1, <1>b, <1>c DEF RabbitTypeOK
  <2> QED BY <2>1, <2>2, <2>3 DEF OwnConnection, ConnectionOpen
<1>7. ClosedQuietly'
  BY <1>1 DEF ClosedQuietly, OpenConnection, OnStage, MqConnecting
<1>8. NotBegun'
  BY <1>1 DEF NotBegun, RabbitTypeOK, OpenConnection, OnStage, MqConnecting
<1>9. UnderLocks'
  <2>1. ASSUME NEW d \in MqCalls, stage'[d] = "channel", broker'.opened <= 1
        PROVE ~client'.exchange
    <3>1. broker.opened = 0
      BY <1>1, <1>b, <2>1 DEF RabbitTypeOK
    <3> QED BY <1>1, <1>c, <3>1 DEF OwnConnection
  <2>2. \A d \in MqCalls : stage'[d] \in {"opening", "channel"} => held'["connect"] = d
    BY <1>1, <1>2, <1>a DEF UnderLocks
  <2>3. \A d \in MqCalls : stage'[d] \in {"looking", "binding"} =>
            /\ held'["consumer"] = d
            /\ stage'[d] = "binding" => client'.consumers[QueueOf[d]] = None
    BY <1>1, <1>2, <1>a, <1>c DEF UnderLocks
  <2> QED BY <2>1, <2>2, <2>3 DEF UnderLocks
<1>10. ChannelsKept'
  BY <1>1 DEF ChannelsKept, RabbitTypeOK, OpenConnection, OnStage
<1> QED BY <1>3, <1>4, <1>5, <1>6, <1>7, <1>8, <1>9, <1>10 DEF RabbitIInv

\* A new channel forgets what was declared and consumed on the old one.
LEMMA OpenChannelKeeps ==
    ASSUME RabbitIInv, NEW c \in MqCalls, OpenChannel(c)
    PROVE RabbitIInv'
<1>1. RabbitTypeOK /\ DeletesLast /\ Routed /\ OwnConnection /\ ClosedQuietly /\ NotBegun /\ UnderLocks /\ ChannelsKept
  BY DEF RabbitIInv
<1> PICK to : to = stage'[c]
  OBVIOUS
<1>2. /\ stage' = [stage EXCEPT ![c] = to] /\ stage'[c] = to
      /\ \A d \in MqCalls : d # c => stage'[d] = stage[d]
  BY <1>1 DEF OpenChannel, OnStage, RabbitTypeOK
<1>3. RabbitTypeOK'
  BY <1>1 DEF RabbitTypeOK, OpenChannel, OnStage, Freed, ClosingKept,
         FreshClient, NoClient
<1>4. DeletesLast'
  BY <1>1 DEF DeletesLast, OpenChannel, OnStage, MqCalling
<1>5. Routed'
  BY <1>1 DEF Routed, OpenChannel, OnStage, ClosingKept, FreshClient, NoClient
<1>6. OwnConnection'
  BY <1>1 DEF OwnConnection, RabbitTypeOK, OpenChannel, ConnectionOpen,
         ClosingKept, FreshClient
<1>7. ClosedQuietly'
  BY <1>1 DEF ClosedQuietly, OpenChannel, OnStage, ClosingKept,
         MqConnecting, FreshClient
<1>8. NotBegun'
  BY DEF NotBegun, OpenChannel, FreshClient
<1>9. UnderLocks'
  BY <1>1, QueuesOfCalls DEF UnderLocks, RabbitTypeOK, OpenChannel,
         OnStage, Freed, FreshClient, NoClient
<1>10. ChannelsKept'
  <2>1. /\ stage[c] = "channel" /\ stage'[c] = "ready" /\ broker' = broker
    BY <1>1 DEF OpenChannel, OnStage, RabbitTypeOK
  <2>2. ASSUME broker.opened <= 1
        PROVE broker.channels = {}
    <3>1. ~client.exchange /\ mqCloser = "idle"
      BY <1>1, <2>1, <2>2 DEF UnderLocks, ClosedQuietly, MqConnecting
    <3> QED BY <1>1, <2>2, <3>1 DEF NotBegun
  <2>3. c \notin broker.channels
    BY <1>1, <2>1 DEF ChannelsKept
  <2> QED BY <1>1, <1>2, <2>1, <2>2 DEF ChannelsKept
<1> QED BY <1>3, <1>4, <1>5, <1>6, <1>7, <1>8, <1>9, <1>10 DEF RabbitIInv

\* connect raises with whatever is open so far in the fields.
LEMMA ConnectRaisesKeeps ==
    ASSUME RabbitIInv, NEW c \in MqCalls, ConnectRaises(c)
    PROVE RabbitIInv'
<1>1. RabbitTypeOK /\ DeletesLast /\ Routed /\ OwnConnection /\ ClosedQuietly /\ NotBegun /\ UnderLocks /\ ChannelsKept
  BY DEF RabbitIInv
<1> PICK to : to = stage'[c]
  OBVIOUS
<1>2. /\ stage' = [stage EXCEPT ![c] = to] /\ stage'[c] = to
      /\ \A d \in MqCalls : d # c => stage'[d] = stage[d]
  BY <1>1 DEF ConnectRaises, OnStage, Raise, RabbitTypeOK
<1>3. RabbitTypeOK'
  BY <1>1 DEF RabbitTypeOK, ConnectRaises, OnStage, Freed, Raise, ClosingKept
<1>4. DeletesLast'
  BY <1>1, <1>2 DEF DeletesLast, ConnectRaises, OnStage, Raise, MqCalling
<1>5. Routed'
  BY <1>1 DEF Routed, RabbitTypeOK, ConnectRaises, OnStage, Raise, ClosingKept
<1>6. OwnConnection'
  BY <1>1 DEF OwnConnection, RabbitTypeOK, ConnectRaises, ConnectionOpen,
         ClosingKept
<1>7. ClosedQuietly'
  BY <1>1 DEF ClosedQuietly, RabbitTypeOK, ConnectRaises, OnStage, Raise,
         ClosingKept, MqCalling
<1>8. NotBegun'
  BY <1>1 DEF NotBegun, RabbitTypeOK, ConnectRaises, OnStage, Raise, ClosingKept
<1>9. UnderLocks'
  BY <1>1 DEF UnderLocks, RabbitTypeOK, ConnectRaises, OnStage, Freed, Raise
<1>10. ChannelsKept'
  BY <1>1 DEF ChannelsKept, RabbitTypeOK, ConnectRaises, OnStage, Raise
<1> QED BY <1>3, <1>4, <1>5, <1>6, <1>7, <1>8, <1>9, <1>10 DEF RabbitIInv

\* rpush takes _lock before it declares.
LEMMA TakeDeclareLockKeeps ==
    ASSUME RabbitIInv, NEW c \in MqCalls, TakeDeclareLock(c)
    PROVE RabbitIInv'
<1>1. RabbitTypeOK /\ DeletesLast /\ Routed /\ OwnConnection /\ ClosedQuietly /\ NotBegun /\ UnderLocks /\ ChannelsKept
  BY DEF RabbitIInv
<1> PICK to : to = stage'[c]
  OBVIOUS
<1>2. /\ stage' = [stage EXCEPT ![c] = to] /\ stage'[c] = to
      /\ \A d \in MqCalls : d # c => stage'[d] = stage[d]
  BY <1>1 DEF TakeDeclareLock, OnStage, RabbitTypeOK
<1>3. RabbitTypeOK'
  BY <1>1 DEF RabbitTypeOK, TakeDeclareLock, OnStage, TakeMq, ClosingKept,
         MqCalling
<1>4. DeletesLast'
  BY <1>1, QueuesOfCalls DEF DeletesLast, TakeDeclareLock, OnStage
<1>5. Routed'
  BY <1>1 DEF Routed, TakeDeclareLock, OnStage, ClosingKept
<1>6. OwnConnection'
  BY <1>1 DEF OwnConnection, TakeDeclareLock, ConnectionOpen, ClosingKept
<1>7. ClosedQuietly'
  BY <1>1 DEF ClosedQuietly, TakeDeclareLock, OnStage, ClosingKept, MqConnecting
<1>8. NotBegun'
  BY <1>1 DEF NotBegun, TakeDeclareLock, OnStage, ClosingKept, MqConnecting
<1>9. UnderLocks'
  BY <1>1 DEF UnderLocks, TakeDeclareLock, OnStage, TakeMq
<1>10. ChannelsKept'
  BY <1>1 DEF ChannelsKept, TakeDeclareLock, OnStage
<1> QED BY <1>3, <1>4, <1>5, <1>6, <1>7, <1>8, <1>9, <1>10 DEF RabbitIInv

\* A queue is declared and bound before it counts as declared.
LEMMA DeclareQueueKeeps ==
    ASSUME RabbitIInv, NEW c \in MqCalls, DeclareQueue(c)
    PROVE RabbitIInv'
<1>1. RabbitTypeOK /\ DeletesLast /\ Routed /\ OwnConnection /\ ClosedQuietly /\ NotBegun /\ UnderLocks /\ ChannelsKept
  BY DEF RabbitIInv
<1> PICK to : to = stage'[c]
  OBVIOUS
<1>2. /\ stage' = [stage EXCEPT ![c] = to] /\ stage'[c] = to
      /\ \A d \in MqCalls : d # c => stage'[d] = stage[d]
  BY <1>1 DEF DeclareQueue, OnStage, RabbitTypeOK
<1>3. RabbitTypeOK'
  BY <1>1, QueuesOfCalls DEF RabbitTypeOK, DeclareQueue, OnStage,
         ClosingKept, MqCalling
<1>4. DeletesLast'
  BY <1>1 DEF DeletesLast, DeclareQueue, OnStage, MqCalling
<1>5. Routed'
  <2>1. /\ c \in MqCalls \ MqDeletes /\ stage[c] = "declaring" /\ stage'[c] = "publishing"
        /\ unrouted' = unrouted
    BY <1>1 DEF DeclareQueue, OnStage, RabbitTypeOK, DeletesLast,
           MqCalling, ClosingKept
  <2>2. client.queues \subseteq broker.bound
    BY <1>1, <2>1 DEF Routed
  <2>3. /\ QueueOf[c] \in client'.queues /\ client'.queues \subseteq broker'.bound
        /\ broker.bound \subseteq broker'.bound
    BY <1>1, <2>2 DEF DeclareQueue, RabbitTypeOK
  <2> QED BY <1>1, <1>2, <2>1, <2>3 DEF Routed
<1>6. OwnConnection'
  BY <1>1 DEF OwnConnection, RabbitTypeOK, DeclareQueue, ConnectionOpen,
         ClosingKept
<1>7. ClosedQuietly'
  BY <1>1 DEF ClosedQuietly, RabbitTypeOK, DeclareQueue, OnStage,
         ClosingKept, MqConnecting
<1>8. NotBegun'
  BY <1>1 DEF NotBegun, RabbitTypeOK, DeclareQueue, OnStage, ClosingKept,
         MqConnecting
<1>9. UnderLocks'
  BY <1>1 DEF UnderLocks, RabbitTypeOK, DeclareQueue, OnStage
<1>10. ChannelsKept'
  BY <1>1 DEF ChannelsKept, RabbitTypeOK, DeclareQueue, OnStage
<1> QED BY <1>3, <1>4, <1>5, <1>6, <1>7, <1>8, <1>9, <1>10 DEF RabbitIInv

\* What is published has a queue bound for it.
LEMMA PublishKeeps ==
    ASSUME RabbitIInv, NEW c \in MqCalls, Publish(c)
    PROVE RabbitIInv'
<1>1. RabbitTypeOK /\ DeletesLast /\ Routed /\ OwnConnection /\ ClosedQuietly /\ NotBegun /\ UnderLocks /\ ChannelsKept
  BY DEF RabbitIInv
<1> PICK to : to = stage'[c]
  OBVIOUS
<1>2. /\ stage' = [stage EXCEPT ![c] = to] /\ stage'[c] = to
      /\ \A d \in MqCalls : d # c => stage'[d] = stage[d]
  BY <1>1 DEF Publish, OnStage, RabbitTypeOK
<1>3. RabbitTypeOK'
  BY <1>1 DEF RabbitTypeOK, Publish, OnStage, Freed
<1>4. DeletesLast'
  BY <1>1 DEF DeletesLast, Publish, OnStage, MqCalling
<1>5. Routed'
  BY <1>1, <1>2 DEF Routed, Publish, OnStage
<1>6. OwnConnection'
  BY <1>1 DEF OwnConnection, Publish, ConnectionOpen
<1>7. ClosedQuietly'
  BY <1>1 DEF ClosedQuietly, Publish, OnStage, MqConnecting
<1>8. NotBegun'
  BY DEF NotBegun, Publish
<1>9. UnderLocks'
  BY <1>1 DEF UnderLocks, RabbitTypeOK, Publish, OnStage, Freed
<1>10. ChannelsKept'
  BY <1>1 DEF ChannelsKept, Publish, OnStage
<1> QED BY <1>3, <1>4, <1>5, <1>6, <1>7, <1>8, <1>9, <1>10 DEF RabbitIInv

\* dequeue_request looks for the consumer of its queue.
LEMMA FindConsumerKeeps ==
    ASSUME RabbitIInv, NEW c \in MqCalls, FindConsumer(c)
    PROVE RabbitIInv'
<1>1. RabbitTypeOK /\ DeletesLast /\ Routed /\ OwnConnection /\ ClosedQuietly /\ NotBegun /\ UnderLocks /\ ChannelsKept
  BY DEF RabbitIInv
<1> PICK to : to = stage'[c]
  OBVIOUS
<1>2. /\ stage' = [stage EXCEPT ![c] = to] /\ stage'[c] = to
      /\ \A d \in MqCalls : d # c => stage'[d] = stage[d]
  BY <1>1 DEF FindConsumer, OnStage, RabbitTypeOK
<1>3. RabbitTypeOK'
  BY <1>1 DEF RabbitTypeOK, FindConsumer, OnStage, ClosingKept, MqCalling
<1>4. DeletesLast'
  BY <1>1, QueuesOfCalls DEF DeletesLast, FindConsumer, OnStage
<1>5. Routed'
  BY <1>1 DEF Routed, FindConsumer, OnStage, ClosingKept
<1>6. OwnConnection'
  BY <1>1 DEF OwnConnection, FindConsumer, ConnectionOpen, ClosingKept
<1>7. ClosedQuietly'
  BY <1>1 DEF ClosedQuietly, FindConsumer, OnStage, ClosingKept, MqConnecting
<1>8. NotBegun'
  BY <1>1 DEF NotBegun, FindConsumer, OnStage, ClosingKept, MqConnecting
<1>9. UnderLocks'
  BY <1>1 DEF UnderLocks, FindConsumer, OnStage
<1>10. ChannelsKept'
  BY <1>1 DEF ChannelsKept, FindConsumer, OnStage
<1> QED BY <1>3, <1>4, <1>5, <1>6, <1>7, <1>8, <1>9, <1>10 DEF RabbitIInv

\* _consumer_lock is taken when nobody holds it.
LEMMA TakeConsumerLockKeeps ==
    ASSUME RabbitIInv, NEW c \in MqCalls, TakeConsumerLock(c)
    PROVE RabbitIInv'
<1>1. RabbitTypeOK /\ DeletesLast /\ Routed /\ OwnConnection /\ ClosedQuietly /\ NotBegun /\ UnderLocks /\ ChannelsKept
  BY DEF RabbitIInv
<1> PICK to : to = stage'[c]
  OBVIOUS
<1>2. /\ stage' = [stage EXCEPT ![c] = to] /\ stage'[c] = to
      /\ \A d \in MqCalls : d # c => stage'[d] = stage[d]
  BY <1>1 DEF TakeConsumerLock, OnStage, RabbitTypeOK
<1>3. RabbitTypeOK'
  BY <1>1 DEF RabbitTypeOK, TakeConsumerLock, OnStage, TakeMq, ClosingKept,
         MqCalling
<1>4. DeletesLast'
  BY <1>1 DEF DeletesLast, TakeConsumerLock, OnStage, MqCalling
<1>5. Routed'
  BY <1>1 DEF Routed, TakeConsumerLock, OnStage, ClosingKept
<1>6. OwnConnection'
  BY <1>1 DEF OwnConnection, TakeConsumerLock, ConnectionOpen, ClosingKept
<1>7. ClosedQuietly'
  BY <1>1 DEF ClosedQuietly, TakeConsumerLock, OnStage, ClosingKept,
         MqConnecting
<1>8. NotBegun'
  BY <1>1 DEF NotBegun, TakeConsumerLock, OnStage, ClosingKept, MqConnecting
<1>9. UnderLocks'
  BY <1>1, QueuesOfCalls DEF UnderLocks, RabbitTypeOK, TakeConsumerLock,
         OnStage, TakeMq
<1>10. ChannelsKept'
  BY <1>1 DEF ChannelsKept, TakeConsumerLock, OnStage
<1> QED BY <1>3, <1>4, <1>5, <1>6, <1>7, <1>8, <1>9, <1>10 DEF RabbitIInv

\* The consumer is looked for again under the lock before a channel is opened.
LEMMA OpenConsumerKeeps ==
    ASSUME RabbitIInv, NEW c \in MqCalls, OpenConsumer(c)
    PROVE RabbitIInv'
<1>1. RabbitTypeOK /\ DeletesLast /\ Routed /\ OwnConnection /\ ClosedQuietly /\ NotBegun /\ UnderLocks /\ ChannelsKept
  BY DEF RabbitIInv
<1> PICK to : to = stage'[c]
  OBVIOUS
<1>2. /\ stage' = [stage EXCEPT ![c] = to] /\ stage'[c] = to
      /\ \A d \in MqCalls : d # c => stage'[d] = stage[d]
  BY <1>1 DEF OpenConsumer, OnStage, RabbitTypeOK
<1>3. RabbitTypeOK'
  BY <1>1 DEF RabbitTypeOK, OpenConsumer, OnStage, Freed, ClosingKept, MqCalling
<1>4. DeletesLast'
  BY <1>1, <1>2 DEF DeletesLast, OpenConsumer, OnStage, MqCalling
<1>5. Routed'
  BY <1>1 DEF Routed, RabbitTypeOK, OpenConsumer, OnStage, ClosingKept
<1>6. OwnConnection'
  BY <1>1 DEF OwnConnection, RabbitTypeOK, OpenConsumer, ConnectionOpen,
         ClosingKept
<1>7. ClosedQuietly'
  BY <1>1, <1>2 DEF ClosedQuietly, OpenConsumer, OnStage, ClosingKept,
         MqConnecting
<1>8. NotBegun'
  <2>1. /\ stage[c] = "looking" /\ broker'.opened = broker.opened /\ client' = client /\ mqCloser' = mqCloser
    BY <1>1 DEF OpenConsumer, OnStage, RabbitTypeOK, ClosingKept
  <2>2. c \in MqCalls \ MqDeletes
    BY <1>1, <2>1 DEF DeletesLast, MqCalling
  <2>3. ~(broker.opened <= 1 /\ ~client.exchange /\ mqCloser # "closed")
    BY <1>1, <2>1, <2>2 DEF NotBegun, MqConnecting
  <2> QED BY <2>1, <2>3 DEF NotBegun
<1>9. UnderLocks'
  BY <1>1 DEF UnderLocks, RabbitTypeOK, OpenConsumer, OnStage, Freed
<1>10. ChannelsKept'
  BY <1>1 DEF ChannelsKept, RabbitTypeOK, OpenConsumer, OnStage
<1> QED BY <1>3, <1>4, <1>5, <1>6, <1>7, <1>8, <1>9, <1>10 DEF RabbitIInv

\* The channel is kept as the consumer of its queue.
LEMMA KeepConsumerQueueKeeps ==
    ASSUME RabbitIInv, NEW c \in MqCalls, KeepConsumerQueue(c)
    PROVE RabbitIInv'
<1>1. RabbitTypeOK /\ DeletesLast /\ Routed /\ OwnConnection /\ ClosedQuietly /\ NotBegun /\ UnderLocks /\ ChannelsKept
  BY DEF RabbitIInv
<1> PICK to : to = stage'[c]
  OBVIOUS
<1>2. /\ stage' = [stage EXCEPT ![c] = to] /\ stage'[c] = to
      /\ \A d \in MqCalls : d # c => stage'[d] = stage[d]
  BY <1>1 DEF KeepConsumerQueue, OnStage, RabbitTypeOK
<1>3. RabbitTypeOK'
  BY <1>1, QueuesOfCalls DEF RabbitTypeOK, KeepConsumerQueue, OnStage,
         Freed, ClosingKept, MqCalling
<1>4. DeletesLast'
  BY <1>1 DEF DeletesLast, KeepConsumerQueue, OnStage, MqCalling
<1>5. Routed'
  BY <1>1 DEF Routed, KeepConsumerQueue, OnStage, ClosingKept
<1>6. OwnConnection'
  BY <1>1 DEF OwnConnection, KeepConsumerQueue, ConnectionOpen, ClosingKept
<1>7. ClosedQuietly'
  BY <1>1 DEF ClosedQuietly, KeepConsumerQueue, OnStage, ClosingKept,
         MqConnecting
<1>8. NotBegun'
  BY <1>1 DEF NotBegun, KeepConsumerQueue, OnStage, ClosingKept, MqConnecting
<1>9. UnderLocks'
  BY <1>1 DEF UnderLocks, RabbitTypeOK, KeepConsumerQueue, OnStage, Freed
<1>10. ChannelsKept'
  <2>1. /\ stage[c] = "binding" /\ stage'[c] = "getting" /\ broker'.channels = broker.channels
        /\ broker'.opened = broker.opened
        /\ client'.consumers = [client.consumers EXCEPT ![QueueOf[c]] = c]
    BY <1>1 DEF KeepConsumerQueue, OnStage, RabbitTypeOK
  <2>2. /\ client.consumers[QueueOf[c]] = None /\ client'.consumers[QueueOf[c]] = c
        /\ \A q \in MqQueues : q # QueueOf[c] => client'.consumers[q] = client.consumers[q]
    BY <1>1, <2>1, QueuesOfCalls DEF UnderLocks, RabbitTypeOK
  <2>3. ASSUME NEW d \in broker.channels, d # c, stage[d] \in {"getting", "done"}, broker.opened <= 1
        PROVE client'.consumers[QueueOf[d]] = d
    <3>1. d \in MqCalls /\ client.consumers[QueueOf[d]] = d
      BY <1>1, <2>3 DEF ChannelsKept, RabbitTypeOK
    <3> QED BY <2>2, <3>1, QueuesOfCalls
  <2> QED BY <1>1, <1>2, <2>1, <2>2, <2>3 DEF ChannelsKept
<1> QED BY <1>3, <1>4, <1>5, <1>6, <1>7, <1>8, <1>9, <1>10 DEF RabbitIInv

\* The consumer's answer changes nothing of the connection.
LEMMA GetMessageKeeps ==
    ASSUME RabbitIInv, NEW c \in MqCalls, GetMessage(c)
    PROVE RabbitIInv'
<1>1. RabbitTypeOK /\ DeletesLast /\ Routed /\ OwnConnection /\ ClosedQuietly /\ NotBegun /\ UnderLocks /\ ChannelsKept
  BY DEF RabbitIInv
<1> PICK to : to = stage'[c]
  OBVIOUS
<1>2. /\ stage' = [stage EXCEPT ![c] = to] /\ stage'[c] = to
      /\ \A d \in MqCalls : d # c => stage'[d] = stage[d]
  BY <1>1 DEF GetMessage, OnStage, RabbitTypeOK
<1>3. RabbitTypeOK'
  BY <1>1 DEF RabbitTypeOK, GetMessage, OnStage, ClosingKept
<1>4. DeletesLast'
  BY <1>1 DEF DeletesLast, GetMessage, OnStage, MqCalling
<1>5. Routed'
  BY <1>1 DEF Routed, GetMessage, OnStage, ClosingKept
<1>6. OwnConnection'
  BY <1>1 DEF OwnConnection, GetMessage, ConnectionOpen, ClosingKept
<1>7. ClosedQuietly'
  BY <1>1 DEF ClosedQuietly, GetMessage, OnStage, ClosingKept, MqConnecting
<1>8. NotBegun'
  BY <1>1 DEF NotBegun, GetMessage, OnStage, ClosingKept, MqConnecting
<1>9. UnderLocks'
  BY <1>1 DEF UnderLocks, GetMessage, OnStage
<1>10. ChannelsKept'
  BY <1>1 DEF ChannelsKept, GetMessage, OnStage
<1> QED BY <1>3, <1>4, <1>5, <1>6, <1>7, <1>8, <1>9, <1>10 DEF RabbitIInv

\* A call that raises gives up its locks.
LEMMA CallRaisesKeeps ==
    ASSUME RabbitIInv, NEW c \in MqCalls, CallRaises(c)
    PROVE RabbitIInv'
<1>1. RabbitTypeOK /\ DeletesLast /\ Routed /\ OwnConnection /\ ClosedQuietly /\ NotBegun /\ UnderLocks /\ ChannelsKept
  BY DEF RabbitIInv
<1> PICK to : to = stage'[c]
  OBVIOUS
<1>2. /\ stage' = [stage EXCEPT ![c] = to] /\ stage'[c] = to
      /\ \A d \in MqCalls : d # c => stage'[d] = stage[d]
  BY <1>1 DEF CallRaises, OnStage, Raise, RabbitTypeOK
<1>3. RabbitTypeOK'
  BY <1>1 DEF RabbitTypeOK, CallRaises, OnStage, Freed, Raise, ClosingKept
<1>4. DeletesLast'
  BY <1>1 DEF DeletesLast, CallRaises, OnStage, Raise, MqCalling
<1>5. Routed'
  BY <1>1 DEF Routed, CallRaises, OnStage, Raise, ClosingKept
<1>6. OwnConnection'
  BY <1>1 DEF OwnConnection, CallRaises, ConnectionOpen, ClosingKept
<1>7. ClosedQuietly'
  BY <1>1 DEF ClosedQuietly, CallRaises, OnStage, Raise, ClosingKept,
         MqConnecting
<1>8. NotBegun'
  BY <1>1 DEF NotBegun, CallRaises, OnStage, Raise, ClosingKept
<1>9. UnderLocks'
  BY <1>1 DEF UnderLocks, RabbitTypeOK, CallRaises, OnStage, Freed, Raise
<1>10. ChannelsKept'
  BY <1>1 DEF ChannelsKept, CallRaises, OnStage, Raise
<1> QED BY <1>3, <1>4, <1>5, <1>6, <1>7, <1>8, <1>9, <1>10 DEF RabbitIInv

\* delete_queue drops a queue and its consumer before it is deleted.
LEMMA ForgetQueueKeeps ==
    ASSUME RabbitIInv, NEW c \in MqCalls, ForgetQueue(c)
    PROVE RabbitIInv'
<1>1. RabbitTypeOK /\ DeletesLast /\ Routed /\ OwnConnection /\ ClosedQuietly /\ NotBegun /\ UnderLocks /\ ChannelsKept
  BY DEF RabbitIInv
<1> PICK to : to = stage'[c]
  OBVIOUS
<1>2. /\ stage' = [stage EXCEPT ![c] = to] /\ stage'[c] = to
      /\ \A d \in MqCalls : d # c => stage'[d] = stage[d]
  BY <1>1 DEF ForgetQueue, OnStage, RabbitTypeOK
<1>3. RabbitTypeOK'
  BY <1>1 DEF RabbitTypeOK, ForgetQueue, OnStage, ClosingKept
<1>4. DeletesLast'
  BY <1>1 DEF DeletesLast, ForgetQueue, OnStage, MqCalling
<1>5. Routed'
  BY <1>1 DEF Routed, ForgetQueue, OnStage, ClosingKept
<1>6. OwnConnection'
  BY <1>1 DEF OwnConnection, ForgetQueue, ConnectionOpen, ClosingKept
<1>7. ClosedQuietly'
  BY <1>1 DEF ClosedQuietly, ForgetQueue, OnStage, ClosingKept, MqConnecting
<1>8. NotBegun'
  BY <1>1, <1>2 DEF NotBegun, ForgetQueue, ClosingKept
<1>9. UnderLocks'
  BY <1>1 DEF UnderLocks, ForgetQueue, OnStage
<1>10. ChannelsKept'
  BY <1>1 DEF ChannelsKept, ForgetQueue, OnStage
<1> QED BY <1>3, <1>4, <1>5, <1>6, <1>7, <1>8, <1>9, <1>10 DEF RabbitIInv

\* A queue is deleted when no other call is left to publish to it.
LEMMA DeleteQueueKeeps ==
    ASSUME RabbitIInv, NEW c \in MqCalls, DeleteQueue(c)
    PROVE RabbitIInv'
<1>1. RabbitTypeOK /\ DeletesLast /\ Routed /\ OwnConnection /\ ClosedQuietly /\ NotBegun /\ UnderLocks /\ ChannelsKept
  BY DEF RabbitIInv
<1> PICK to : to = stage'[c]
  OBVIOUS
<1>2. /\ stage' = [stage EXCEPT ![c] = to] /\ stage'[c] = to
      /\ \A d \in MqCalls : d # c => stage'[d] = stage[d]
  BY <1>1 DEF DeleteQueue, OnStage, RabbitTypeOK
<1>3. RabbitTypeOK'
  BY <1>1 DEF RabbitTypeOK, DeleteQueue, OnStage, ClosingKept
<1>4. DeletesLast'
  BY <1>1 DEF DeletesLast, DeleteQueue, OnStage, MqCalling
<1>5. Routed'
  <2>1. /\ c \in MqDeletes /\ stage[c] = "deleting" /\ stage'[c] = "done" /\ unrouted' = unrouted
    BY <1>1 DEF DeleteQueue, OnStage, RabbitTypeOK, DeletesLast, ClosingKept
  <2>2. \A d \in MqCalls \ MqDeletes : stage'[d] \in {"done", "failed"}
    BY <1>1, <1>2, <2>1 DEF DeletesLast
  <2>3. \A d \in MqCalls : stage'[d] # "publishing"
    BY <1>1, <1>2, <2>1 DEF DeletesLast, MqCalling
  <2> QED BY <1>1, <2>1, <2>2, <2>3 DEF Routed
<1>6. OwnConnection'
  BY <1>1 DEF OwnConnection, RabbitTypeOK, DeleteQueue, ConnectionOpen,
         ClosingKept
<1>7. ClosedQuietly'
  BY <1>1 DEF ClosedQuietly, RabbitTypeOK, DeleteQueue, OnStage,
         ClosingKept, MqConnecting
<1>8. NotBegun'
  BY <1>1 DEF NotBegun, RabbitTypeOK, DeleteQueue, OnStage, ClosingKept,
         MqConnecting
<1>9. UnderLocks'
  BY <1>1 DEF UnderLocks, RabbitTypeOK, DeleteQueue, OnStage
<1>10. ChannelsKept'
  BY <1>1 DEF ChannelsKept, RabbitTypeOK, DeleteQueue, OnStage
<1> QED BY <1>3, <1>4, <1>5, <1>6, <1>7, <1>8, <1>9, <1>10 DEF RabbitIInv

\* A delete that raises has forgotten the queue already.
LEMMA DeleteRaisesKeeps ==
    ASSUME RabbitIInv, NEW c \in MqCalls, DeleteRaises(c)
    PROVE RabbitIInv'
<1>1. RabbitTypeOK /\ DeletesLast /\ Routed /\ OwnConnection /\ ClosedQuietly /\ NotBegun /\ UnderLocks /\ ChannelsKept
  BY DEF RabbitIInv
<1> PICK to : to = stage'[c]
  OBVIOUS
<1>2. /\ stage' = [stage EXCEPT ![c] = to] /\ stage'[c] = to
      /\ \A d \in MqCalls : d # c => stage'[d] = stage[d]
  BY <1>1 DEF DeleteRaises, OnStage, Raise, RabbitTypeOK
<1>3. RabbitTypeOK'
  BY <1>1 DEF RabbitTypeOK, DeleteRaises, OnStage, Freed, Raise, ClosingKept
<1>4. DeletesLast'
  BY <1>1 DEF DeletesLast, DeleteRaises, OnStage, Raise, MqCalling
<1>5. Routed'
  BY <1>1 DEF Routed, DeleteRaises, OnStage, Raise, ClosingKept
<1>6. OwnConnection'
  BY <1>1 DEF OwnConnection, DeleteRaises, ConnectionOpen, ClosingKept
<1>7. ClosedQuietly'
  BY <1>1 DEF ClosedQuietly, DeleteRaises, OnStage, Raise, ClosingKept,
         MqConnecting
<1>8. NotBegun'
  BY <1>1 DEF NotBegun, DeleteRaises, OnStage, Raise, ClosingKept
<1>9. UnderLocks'
  BY <1>1 DEF UnderLocks, RabbitTypeOK, DeleteRaises, OnStage, Freed, Raise
<1>10. ChannelsKept'
  BY <1>1 DEF ChannelsKept, DeleteRaises, OnStage, Raise
<1> QED BY <1>3, <1>4, <1>5, <1>6, <1>7, <1>8, <1>9, <1>10 DEF RabbitIInv

\* close takes _connect_lock and closes the consumer channels.
LEMMA CloseConsumersKeeps ==
    ASSUME RabbitIInv, CloseConsumers
    PROVE RabbitIInv'
<1>1. RabbitTypeOK /\ DeletesLast /\ Routed /\ OwnConnection /\ ClosedQuietly /\ NotBegun /\ UnderLocks /\ ChannelsKept
  BY DEF RabbitIInv
<1>3. RabbitTypeOK'
  BY <1>1 DEF RabbitTypeOK, CloseConsumers, TakeMq, NoClient, MqTurn
<1>4. DeletesLast'
  BY <1>1, QueuesOfCalls DEF DeletesLast, CloseConsumers, MqCalling
<1>5. Routed'
  BY <1>1 DEF Routed, CloseConsumers
<1>6. OwnConnection'
  BY <1>1 DEF OwnConnection, CloseConsumers, ConnectionOpen
<1>7. ClosedQuietly'
  BY <1>1 DEF ClosedQuietly, CloseConsumers, MqConnecting, MqTurn, MqOver
<1>8. NotBegun'
  BY <1>1 DEF NotBegun, CloseConsumers, MqTurn
<1>9. UnderLocks'
  BY <1>1, QueuesOfCalls DEF UnderLocks, CloseConsumers, TakeMq, NoClient
<1>10. ChannelsKept'
  BY <1>1, QueuesOfCalls DEF ChannelsKept, RabbitTypeOK, CloseConsumers
<1> QED BY <1>3, <1>4, <1>5, <1>6, <1>7, <1>8, <1>9, <1>10 DEF RabbitIInv

\* close goes on when the channel is closed already.
LEMMA CloseChannelKeeps ==
    ASSUME RabbitIInv, CloseChannel
    PROVE RabbitIInv'
<1>1. RabbitTypeOK /\ DeletesLast /\ Routed /\ OwnConnection /\ ClosedQuietly /\ NotBegun /\ UnderLocks /\ ChannelsKept
  BY DEF RabbitIInv
<1>3. RabbitTypeOK'
  BY <1>1 DEF RabbitTypeOK, CloseChannel, MqTurn
<1>4. DeletesLast'
  BY <1>1 DEF DeletesLast, CloseChannel
<1>5. Routed'
  BY <1>1 DEF Routed, CloseChannel
<1>6. OwnConnection'
  BY <1>1 DEF OwnConnection, CloseChannel, ConnectionOpen
<1>7. ClosedQuietly'
  BY <1>1 DEF ClosedQuietly, CloseChannel, MqTurn
<1>8. NotBegun'
  BY <1>1 DEF NotBegun, CloseChannel, MqTurn
<1>9. UnderLocks'
  BY <1>1 DEF UnderLocks, CloseChannel
<1>10. ChannelsKept'
  BY <1>1 DEF ChannelsKept, CloseChannel
<1> QED BY <1>3, <1>4, <1>5, <1>6, <1>7, <1>8, <1>9, <1>10 DEF RabbitIInv

\* With the connection every channel on it is closed.
LEMMA CloseConnectionKeeps ==
    ASSUME RabbitIInv, CloseConnection
    PROVE RabbitIInv'
<1>1. RabbitTypeOK /\ DeletesLast /\ Routed /\ OwnConnection /\ ClosedQuietly /\ NotBegun /\ UnderLocks /\ ChannelsKept
  BY DEF RabbitIInv
<1>3. RabbitTypeOK'
  BY <1>1 DEF RabbitTypeOK, CloseConnection, Freed, NoClient, MqTurn
<1>4. DeletesLast'
  BY <1>1 DEF DeletesLast, CloseConnection
<1>5. Routed'
  BY <1>1 DEF Routed, CloseConnection, NoClient
<1>6. OwnConnection'
  BY <1>1 DEF OwnConnection, CloseConnection, NoClient
<1>7. ClosedQuietly'
  BY <1>1 DEF ClosedQuietly, CloseConnection, NoClient, MqTurn
<1>8. NotBegun'
  BY DEF NotBegun, CloseConnection, MqTurn
<1>9. UnderLocks'
  BY <1>1, QueuesOfCalls DEF UnderLocks, RabbitTypeOK, CloseConnection,
         Freed, NoClient
<1>10. ChannelsKept'
  <2>1. /\ broker'.opened = broker.opened /\ stage' = stage
        /\ broker'.channels = IF ConnectionOpen THEN {} ELSE broker.channels
    BY <1>1 DEF CloseConnection, RabbitTypeOK
  <2>2. broker.opened <= 1 => broker'.channels = {}
    BY <1>1, <2>1 DEF OwnConnection, RabbitTypeOK
  <2> QED BY <1>1, <2>1, <2>2 DEF ChannelsKept
<1> QED BY <1>3, <1>4, <1>5, <1>6, <1>7, <1>8, <1>9, <1>10 DEF RabbitIInv

\* With a connection that is lost every channel on it is.
LEMMA ConnectionLostKeeps ==
    ASSUME RabbitIInv, ConnectionLost
    PROVE RabbitIInv'
<1>1. RabbitTypeOK /\ DeletesLast /\ Routed /\ OwnConnection /\ ClosedQuietly /\ NotBegun /\ UnderLocks /\ ChannelsKept
  BY DEF RabbitIInv
<1>3. RabbitTypeOK'
  BY <1>1 DEF RabbitTypeOK, ConnectionLost, ClosingKept
<1>4. DeletesLast'
  BY <1>1 DEF DeletesLast, ConnectionLost
<1>5. Routed'
  BY <1>1 DEF Routed, ConnectionLost, ClosingKept
<1>6. OwnConnection'
  BY <1>1 DEF OwnConnection, ConnectionLost, ClosingKept
<1>7. ClosedQuietly'
  BY <1>1 DEF ClosedQuietly, ConnectionLost, ClosingKept
<1>8. NotBegun'
  BY <1>1 DEF NotBegun, ConnectionLost, ClosingKept
<1>9. UnderLocks'
  BY <1>1 DEF UnderLocks, ConnectionLost
<1>10. ChannelsKept'
  BY DEF ChannelsKept, ConnectionLost
<1> QED BY <1>3, <1>4, <1>5, <1>6, <1>7, <1>8, <1>9, <1>10 DEF RabbitIInv

\* At first nothing is open, or one fresh connection a slot has made.
LEMMA RabbitBegins == ASSUME RabbitInit PROVE RabbitIInv
<1>1. /\ client = (IF owned THEN FreshClient(1) ELSE NoClient) /\ owned \in BOOLEAN
      /\ broker = [opened |-> IF owned THEN 1 ELSE 0, conns |-> IF owned THEN {1} ELSE {},
                   channels |-> {}, bound |-> {}]
      /\ held = [connect |-> None, declare |-> None, consumer |-> None]
      /\ stage = [c \in MqCalls |-> "idle"] /\ mqCloser = "idle" /\ overwritten = {} /\ ~unrouted
  BY DEF RabbitInit
<1>2. client.queues = {} /\ client.exchange = owned /\ client.conn = (IF owned THEN 1 ELSE 0)
  BY <1>1 DEF FreshClient, NoClient
<1>3. RabbitTypeOK
  <2>1. client \in [conn : Nat, channel : {"none", "open", "closed"}, exchange : BOOLEAN,
                   queues : SUBSET MqQueues, consumers : [MqQueues -> MqCalls \cup {None}]]
    BY <1>1 DEF FreshClient, NoClient
  <2>2. /\ broker \in [opened : Nat, conns : SUBSET Nat, channels : SUBSET MqCalls, bound : SUBSET MqQueues]
        /\ \A n \in broker.conns : n > 0 /\ n <= broker.opened
    BY <1>1
  <2>3. held \in [{"connect", "declare", "consumer"} -> MqCalls \cup {None, Closer}]
    BY <1>1
  <2>4. stage \in [MqCalls -> {"idle", "ready", "deleting", "done", "failed"} \cup MqConnecting \cup MqCalling]
    BY <1>1
  <2> QED BY <1>1, <2>1 DEF RabbitTypeOK
<1>4. DeletesLast /\ Routed /\ OwnConnection /\ ClosedQuietly /\ NotBegun /\ UnderLocks /\ ChannelsKept
  BY <1>1, <1>2, QueuesOfCalls DEF DeletesLast, Routed, OwnConnection,
         ClosedQuietly, NotBegun, UnderLocks, ChannelsKept, MqConnecting,
         MqCalling
<1> QED BY <1>3, <1>4 DEF RabbitIInv

\* A step of another component leaves the RabbitMQ client alone.
LEMMA RabbitStays == ASSUME RabbitIInv, UNCHANGED rabbitVars PROVE RabbitIInv'
BY DEF RabbitIInv, RabbitTypeOK, DeletesLast, Routed, OwnConnection,
       ConnectionOpen, ClosedQuietly, NotBegun, UnderLocks, ChannelsKept,
       rabbitVars

\* Every step of the RabbitMQ client keeps the invariant.
LEMMA RabbitKeeps ==
    ASSUME RabbitIInv, [RabbitNext]_rabbitVars
    PROVE RabbitIInv'
<1>1. ASSUME NEW c \in MqCalls, RabbitStep(c)
      PROVE RabbitIInv'
  BY <1>1, TakeConnectLockKeeps, AlreadyConnectedKeeps,
         OpenConnectionKeeps, OpenChannelKeeps, TakeDeclareLockKeeps,
         DeclareQueueKeeps, PublishKeeps, FindConsumerKeeps,
         TakeConsumerLockKeeps, OpenConsumerKeeps, KeepConsumerQueueKeeps,
         GetMessageKeeps, ForgetQueueKeeps, DeleteQueueKeeps, ConnectRaisesKeeps,
         CallRaisesKeeps, DeleteRaisesKeeps DEF RabbitStep
<1>2. ASSUME NEW c \in MqCalls, EnterCall(c) \/ EnterDelete(c)
      PROVE RabbitIInv'
  BY <1>2, EnterCallKeeps, EnterDeleteKeeps
<1>3. ASSUME RabbitCloserStep \/ ConnectionLost
      PROVE RabbitIInv'
  BY <1>3, CloseConsumersKeeps, CloseChannelKeeps, CloseConnectionKeeps,
         ConnectionLostKeeps DEF RabbitCloserStep
<1> QED BY <1>1, <1>2, <1>3, RabbitStays DEF RabbitNext

\* What is checked of the RabbitMQ client follows from the invariant.
LEMMA RabbitImplies == ASSUME RabbitIInv PROVE RabbitInv
<1>1. RabbitTypeOK /\ Routed /\ OwnConnection /\ ClosedQuietly /\ UnderLocks /\ ChannelsKept
  BY DEF RabbitIInv
<1>2. ASSUME NEW q \in MqQueues, broker.opened <= 1
      PROVE Cardinality({c \in broker.channels : QueueOf[c] = q /\ stage[c] # "failed"}) <= 1
  <2> PICK S : S = {c \in broker.channels : QueueOf[c] = q /\ stage[c] # "failed"}
    OBVIOUS
  <2>1. ASSUME NEW a \in S, NEW b \in S
        PROVE a = b
    <3>1. \A d \in {a, b} :
            \/ held["consumer"] = d /\ client.consumers[q] = None
            \/ client.consumers[q] = d /\ d # None
      BY <1>1, <1>2, QueuesOfCalls DEF ChannelsKept, UnderLocks, RabbitTypeOK
    <3> QED BY <3>1
  <2> QED BY <2>1, AtMostOne
<1>3. mqCloser = "closed" /\ overwritten = {} => broker.channels = {}
  BY <1>1 DEF ClosedQuietly, OwnConnection, ConnectionOpen, RabbitTypeOK
<1> QED BY <1>1, <1>2, <1>3 DEF RabbitInv, Routed, OwnConnection

---------------------------------------------------------------------------
(* Threads and the process pool.  That a callback is called once needs to  *)
(* know which callbacks of the list the thread has called (ListedOnce),    *)
(* and that the outcome comes first (SettledFirst); that an answer is the  *)
(* own one needs the same of what is only posted (OwnAnswer).              *)

\* A callback is in _callbacks at most once, and the thread has called the
\* first notified of them; one added after the thread had looked is not called.
ListedOnce ==
  /\ helper # "future" => hooks = <<>> /\ \A h \in Hooks : hook[h] = "idle"
  /\ \A i, j \in 1 .. Len(hooks) : hooks[i] = hooks[j] => i = j
  /\ \A i \in 1 .. Len(hooks) : hook[hooks[i]] \in {"added", "late"}
  /\ \A h \in Hooks : hook[h] \in {"added", "late"} => \E i \in 1 .. Len(hooks) : hooks[i] = h
  /\ \A i \in 1 .. Len(hooks) : calls[hooks[i]] = IF i <= notified THEN 1 ELSE 0
  /\ \A h \in Hooks : /\ hook[h] \in {"idle", "checked"} => calls[h] = 0
                      /\ hook[h] = "called" => calls[h] = 1
  /\ worker = "end" => \A i \in 1 .. Len(hooks) : hook[hooks[i]] = "added" => i <= notified

\* The outcome of a ThreadFuture is there before a callback is called.
SettledFirst ==
  /\ helper = "future" => /\ worker # "cleanup" /\ posted = "none"
                          /\ worker # "run" => settled # "none"
  /\ notified > 0 \/ (\E h \in Hooks : hook[h] = "called") => settled # "none"

\* What is posted, set or answered is what the coroutine ended with, and for a
\* new loop only after it was cleaned up.
OwnAnswer ==
  /\ worker = "run" => yield = "none"
  /\ helper # "future" =>
        \A y \in {posted, settled, asking} \cap Yields :
           y = yield /\ (helper = "loop" => worker = "end" /\ ~leftovers)

\* The calls that run have workers, and none is left behind by close.
PoolKept ==
  /\ IsFiniteSet(RunningCalls) /\ Cardinality(RunningCalls) <= MaxWorkers
  /\ executor # "open" => \A c \in PoolCalls : job[c] # "queued"
  /\ executor \in {"none", "shut"} => RunningCalls = {}

OffloadIInv == OffloadTypeOK /\ ListedOnce /\ SettledFirst /\ OwnAnswer /\ PoolKept

\* The thread sets the outcome before it looks at the callbacks.
LEMMA SetEventKeeps ==
    ASSUME OffloadIInv, SetEvent, UNCHANGED <<executor, job>>
    PROVE OffloadIInv'
<1>1. OffloadTypeOK /\ ListedOnce /\ SettledFirst /\ OwnAnswer /\ PoolKept
  BY DEF OffloadIInv
<1>2. OffloadTypeOK'
  BY <1>1 DEF OffloadTypeOK, SetEvent, Yields
<1>3. ListedOnce'
  BY <1>1 DEF ListedOnce, SetEvent
<1>4. SettledFirst'
  BY <1>1 DEF SettledFirst, SetEvent, Yields
<1>5. OwnAnswer'
  BY DEF OwnAnswer, SetEvent
<1>6. PoolKept'
  BY <1>1 DEF PoolKept, RunningCalls
<1> QED BY <1>2, <1>3, <1>4, <1>5, <1>6 DEF OffloadIInv

\* The thread calls the callbacks in the order they were added.
LEMMA NotifyKeeps ==
    ASSUME OffloadIInv, Notify, UNCHANGED <<executor, job>>
    PROVE OffloadIInv'
<1>1. OffloadTypeOK /\ ListedOnce /\ SettledFirst /\ OwnAnswer /\ PoolKept
  BY DEF OffloadIInv
<1>2. OffloadTypeOK'
  BY <1>1 DEF OffloadTypeOK, Notify, Yields
<1>3. ListedOnce'
  <2>1. UNCHANGED <<helper, hooks, hook>>
    BY DEF Notify
  <2>2. CASE notified < Len(hooks)
    <3> PICK n : n = notified + 1
      OBVIOUS
    <3>1. n \in 1 .. Len(hooks) /\ notified \in Nat /\ Len(hooks) \in Nat /\ hooks[n] \in Hooks
      BY <1>1, <2>2 DEF OffloadTypeOK
    <3>2. /\ worker = "notify" /\ worker' = worker /\ notified' = n /\ calls[hooks[n]] = 0
          /\ calls' = [calls EXCEPT ![hooks[n]] = calls[hooks[n]] + 1]
      BY <1>1, <3>1 DEF Notify, ListedOnce
    <3>3. /\ calls'[hooks[n]] = 1 /\ hook[hooks[n]] \in {"added", "late"}
          /\ \A h \in Hooks : h # hooks[n] => calls'[h] = calls[h]
      BY <1>1, <3>1, <3>2 DEF OffloadTypeOK, ListedOnce
    <3>4. \A i \in 1 .. Len(hooks) : calls'[hooks[i]] = IF i <= n THEN 1 ELSE 0
      <4>1. TAKE i \in 1 .. Len(hooks)
      <4>2. hooks[i] \in Hooks /\ i \in Nat
        BY <1>1 DEF OffloadTypeOK
      <4>3. CASE i = n
        BY <3>1, <3>3, <4>3
      <4>4. CASE i # n
        <5>1. hooks[i] # hooks[n] /\ (i <= notified <=> i <= n)
          BY <1>1, <3>1, <4>4 DEF ListedOnce
        <5> QED BY <1>1, <3>3, <4>2, <5>1 DEF ListedOnce
      <4> QED BY <4>3, <4>4
    <3> QED BY <1>1, <2>1, <3>2, <3>3, <3>4 DEF ListedOnce
  <2>3. CASE ~(notified < Len(hooks))
    <3>1. UNCHANGED <<notified, calls>> /\ \A i \in 1 .. Len(hooks) : i <= notified
      BY <1>1, <2>3 DEF Notify, OffloadTypeOK
    <3> QED BY <1>1, <2>1, <3>1 DEF ListedOnce
  <2> QED BY <2>2, <2>3
<1>4. SettledFirst'
  BY <1>1 DEF SettledFirst, Notify
<1>5. OwnAnswer'
  BY DEF OwnAnswer, Notify
<1>6. PoolKept'
  BY <1>1 DEF PoolKept, RunningCalls
<1> QED BY <1>2, <1>3, <1>4, <1>5, <1>6 DEF OffloadIInv

\* add_done_callback calls at once when it sees the event, and appends
\* otherwise.
LEMMA AddDoneCallbackKeeps ==
    ASSUME OffloadIInv, NEW h \in Hooks, AddDoneCallback(h), UNCHANGED <<executor, job>>
    PROVE OffloadIInv'
<1>1. OffloadTypeOK /\ ListedOnce /\ SettledFirst /\ OwnAnswer /\ PoolKept
  BY DEF OffloadIInv
<1> PICK to : to = hook'[h]
  OBVIOUS
<1>a. /\ UNCHANGED <<helper, worker, yield, settled, posted, loopOpen, leftovers, asking, notified, executor, job>>
      /\ helper = "future"
  BY DEF AddDoneCallback
<1>b. /\ hook' = [hook EXCEPT ![h] = to] /\ hook'[h] = to /\ \A g \in Hooks : g # h => hook'[g] = hook[g]
      /\ to \in {"called", "checked", "late", "added"}
  BY <1>1 DEF AddDoneCallback, OffloadTypeOK
<1>c. CASE to = "called"
  <2>1. hook[h] = "idle" /\ settled # "none" /\ calls' = [calls EXCEPT ![h] = @ + 1] /\ hooks' = hooks
    BY <1>1, <1>b, <1>c DEF AddDoneCallback
  <2>2. calls[h] = 0 /\ calls'[h] = 1 /\ \A g \in Hooks : g # h => calls'[g] = calls[g]
    BY <1>1, <2>1 DEF ListedOnce, OffloadTypeOK
  <2>3. calls' \in [Hooks -> Nat]
    BY <1>1, <2>1 DEF OffloadTypeOK
  <2>4. OffloadTypeOK'
    BY <1>1, <1>a, <1>b, <2>1 DEF OffloadTypeOK
  <2>5. \A i \in 1 .. Len(hooks) : hooks[i] \in Hooks /\ hooks[i] # h
    BY <1>1, <2>1 DEF ListedOnce, OffloadTypeOK
  <2>6. ListedOnce'
    BY <1>1, <1>a, <1>b, <1>c, <2>1, <2>2 DEF ListedOnce
  <2>7. SettledFirst' /\ OwnAnswer' /\ PoolKept'
    BY <1>1, <1>a, <2>1 DEF SettledFirst, OwnAnswer, PoolKept, RunningCalls
  <2> QED BY <2>4, <2>6, <2>7 DEF OffloadIInv
<1>d. CASE to = "checked"
  <2>1. hook[h] = "idle" /\ settled = "none" /\ calls' = calls /\ hooks' = hooks
    BY <1>1, <1>d DEF AddDoneCallback, OffloadTypeOK
  <2>2. OffloadTypeOK'
    BY <1>1, <1>a, <1>b, <2>1 DEF OffloadTypeOK
  <2>3. \A i \in 1 .. Len(hooks) : hooks[i] \in Hooks /\ hooks[i] # h
    BY <1>1, <2>1 DEF ListedOnce, OffloadTypeOK
  <2>4. ListedOnce'
    BY <1>1, <1>a, <1>b, <1>d, <2>1 DEF ListedOnce
  <2>5. SettledFirst' /\ OwnAnswer' /\ PoolKept'
    BY <1>1, <1>a, <1>b, <1>d DEF SettledFirst, OwnAnswer, PoolKept,
           RunningCalls
  <2> QED BY <2>2, <2>4, <2>5 DEF OffloadIInv
<1>e. CASE to \in {"late", "added"}
  <2>1. /\ hook[h] = "checked" /\ calls' = calls /\ hooks' = Append(hooks, h)
        /\ to = IF worker = "end" THEN "late" ELSE "added"
    BY <1>b, <1>e DEF AddDoneCallback
  <2> PICK n : n = Len(hooks) + 1
    OBVIOUS
  <2>2. /\ hooks' \in Seq(Hooks) /\ Len(hooks') = n /\ hooks'[n] = h /\ n \in Nat /\ notified < n
        /\ \A i \in 1 .. Len(hooks) : hooks'[i] = hooks[i]
        /\ \A i \in 1 .. n : i = n \/ i \in 1 .. Len(hooks)
        /\ 1 .. Len(hooks) \subseteq 1 .. n /\ n \in 1 .. n
    BY <1>1, <2>1 DEF OffloadTypeOK
  <2>3. OffloadTypeOK'
    <3>1. notified' \in 0 .. Len(hooks')
      BY <1>1, <1>a, <2>2 DEF OffloadTypeOK
    <3> QED BY <1>1, <1>a, <1>b, <2>1 DEF OffloadTypeOK
  <2>4. \A i \in 1 .. Len(hooks) : hooks[i] \in Hooks /\ hooks[i] # h
    <3>1. hook[h] = "checked"
      BY <2>1
    <3> QED BY ONLY <1>1, <3>1 DEF ListedOnce, OffloadTypeOK
  <2>5. calls[h] = 0 /\ ~(n <= notified)
    BY <1>1, <2>1 DEF ListedOnce, OffloadTypeOK
  <2>6. ListedOnce'
    <3>1. \A i \in 1 .. n : \/ i = n /\ hooks'[i] = h
                            \/ i \in 1 .. Len(hooks) /\ hooks'[i] = hooks[i] /\ hooks[i] # h /\ hooks[i] \in Hooks
      BY ONLY <2>2, <2>4
    <3>2. \A i, j \in 1 .. Len(hooks') : hooks'[i] = hooks'[j] => i = j
      BY <1>1, <2>2, <3>1 DEF ListedOnce
    <3>3. \A i \in 1 .. Len(hooks') : /\ hook'[hooks'[i]] \in {"added", "late"}
                                      /\ calls'[hooks'[i]] = IF i <= notified' THEN 1 ELSE 0
      BY <1>1, <1>a, <1>b, <2>1, <2>5 DEF ListedOnce
    <3>4. \A g \in Hooks : hook'[g] \in {"added", "late"} => \E i \in 1 .. Len(hooks') : hooks'[i] = g
      BY <1>1, <1>b, <2>2 DEF ListedOnce
    <3>5. \A g \in Hooks : /\ hook'[g] \in {"idle", "checked"} => calls'[g] = 0
                           /\ hook'[g] = "called" => calls'[g] = 1
      BY <1>1, <1>b, <2>1 DEF ListedOnce
    <3>6. worker' = "end" => \A i \in 1 .. Len(hooks') : hook'[hooks'[i]] = "added" => i <= notified'
      <4>1. ASSUME worker = "end", NEW i \in 1 .. n, hook'[hooks'[i]] = "added"
            PROVE i \in 1 .. Len(hooks) /\ hook[hooks[i]] = "added"
        BY <1>b, <2>1, <3>1, <4>1
      <4> QED BY <1>1, <1>a, <2>2, <4>1 DEF ListedOnce
    <3> QED BY <1>a, <3>2, <3>3, <3>4, <3>5, <3>6 DEF ListedOnce
  <2>7. SettledFirst' /\ OwnAnswer' /\ PoolKept'
    BY <1>1, <1>a, <1>b, <2>1 DEF SettledFirst, OwnAnswer, PoolKept,
           RunningCalls
  <2> QED BY <2>3, <2>6, <2>7 DEF OffloadIInv
<1> QED BY <1>b, <1>c, <1>d, <1>e

\* The coroutine ends; run_coroutine_in_thread posts its result.
LEMMA CoroutineEndsKeeps ==
    ASSUME OffloadIInv, CoroutineEnds, UNCHANGED <<executor, job>>
    PROVE OffloadIInv'
<1>1. OffloadTypeOK /\ ListedOnce /\ SettledFirst /\ OwnAnswer /\ PoolKept
  BY DEF OffloadIInv
<1>2. OffloadTypeOK'
  BY <1>1 DEF OffloadTypeOK, CoroutineEnds
<1>3. ListedOnce'
  BY <1>1 DEF ListedOnce, CoroutineEnds
<1>4. SettledFirst'
  BY <1>1 DEF SettledFirst, CoroutineEnds
<1>5. OwnAnswer'
  BY DEF OwnAnswer, CoroutineEnds, Yields
<1>6. PoolKept'
  BY <1>1 DEF PoolKept, RunningCalls
<1> QED BY <1>2, <1>3, <1>4, <1>5, <1>6 DEF OffloadIInv

\* run_coroutine_in_new_loop returns when nothing is left on its loop.
LEMMA CancelLeftoversKeeps ==
    ASSUME OffloadIInv, CancelLeftovers, UNCHANGED <<executor, job>>
    PROVE OffloadIInv'
<1>1. OffloadTypeOK /\ ListedOnce /\ SettledFirst /\ OwnAnswer /\ PoolKept
  BY DEF OffloadIInv
<1>2. OffloadTypeOK'
  BY <1>1 DEF OffloadTypeOK, CancelLeftovers
<1>3. ListedOnce'
  <2>1. helper # "future" /\ UNCHANGED <<helper, hooks, hook, calls, notified>>
    BY <1>1 DEF CancelLeftovers, SettledFirst
  <2> QED BY <1>1, <2>1 DEF ListedOnce
<1>4. SettledFirst'
  BY <1>1 DEF SettledFirst, CancelLeftovers
<1>5. OwnAnswer'
  BY <1>1 DEF OwnAnswer, CancelLeftovers
<1>6. PoolKept'
  BY <1>1 DEF PoolKept, RunningCalls
<1> QED BY <1>2, <1>3, <1>4, <1>5, <1>6 DEF OffloadIInv

\* The loop sets the future unless it was cancelled.
LEMMA DeliverKeeps ==
    ASSUME OffloadIInv, Deliver, UNCHANGED <<executor, job>>
    PROVE OffloadIInv'
<1>1. OffloadTypeOK /\ ListedOnce /\ SettledFirst /\ OwnAnswer /\ PoolKept
  BY DEF OffloadIInv
<1>2. OffloadTypeOK'
  BY <1>1 DEF OffloadTypeOK, Deliver
<1>3. ListedOnce'
  BY <1>1 DEF ListedOnce, Deliver
<1>4. SettledFirst'
  BY <1>1 DEF SettledFirst, Deliver
<1>5. OwnAnswer'
  BY <1>1 DEF OwnAnswer, Deliver, Yields
<1>6. PoolKept'
  BY <1>1 DEF PoolKept, RunningCalls
<1> QED BY <1>2, <1>3, <1>4, <1>5, <1>6 DEF OffloadIInv

\* The awaiting task is cancelled, and its future with it.
LEMMA CancelAwaitKeeps ==
    ASSUME OffloadIInv, CancelAwait, UNCHANGED <<executor, job>>
    PROVE OffloadIInv'
<1>1. OffloadTypeOK /\ ListedOnce /\ SettledFirst /\ OwnAnswer /\ PoolKept
  BY DEF OffloadIInv
<1>2. OffloadTypeOK'
  BY <1>1 DEF OffloadTypeOK, CancelAwait
<1>3. ListedOnce'
  BY <1>1 DEF ListedOnce, CancelAwait
<1>4. SettledFirst'
  BY DEF SettledFirst, CancelAwait
<1>5. OwnAnswer'
  BY <1>1 DEF OwnAnswer, CancelAwait, Yields
<1>6. PoolKept'
  BY <1>1 DEF PoolKept, RunningCalls
<1> QED BY <1>2, <1>3, <1>4, <1>5, <1>6 DEF OffloadIInv

\* The loop is closed before the thread has posted.
LEMMA CloseLoopKeeps ==
    ASSUME OffloadIInv, CloseLoop, UNCHANGED <<executor, job>>
    PROVE OffloadIInv'
<1>1. OffloadTypeOK /\ ListedOnce /\ SettledFirst /\ OwnAnswer /\ PoolKept
  BY DEF OffloadIInv
<1>2. OffloadTypeOK'
  <2>1. /\ loopOpen' = FALSE
        /\ UNCHANGED <<helper, worker, yield, settled, posted, leftovers, asking, hook, hooks, notified, calls, executor, job>>
    BY DEF CloseLoop
  <2>2. /\ hook' \in [Hooks -> {"idle", "checked", "added", "late", "called"}]
        /\ hooks' \in Seq(Hooks) /\ notified' \in 0 .. Len(hooks')
        /\ calls' \in [Hooks -> Nat]
        /\ job' \in [PoolCalls -> {"idle", "queued", "running", "abandoned", "answered",
                                   "cancelled", "refused"}]
    BY <1>1, <2>1 DEF OffloadTypeOK
  <2>3. /\ yield' \in Yields \cup {"none"} /\ settled' \in Yields \cup {"none", "cancelled"}
        /\ posted' \in Yields \cup {"none"}
        /\ asking' \in Yields \cup {"asks", "timeout", "cancelled"}
    BY <1>1, <2>1 DEF OffloadTypeOK
  <2> QED BY <1>1, <2>1, <2>2, <2>3 DEF OffloadTypeOK
<1>3. ListedOnce'
  BY <1>1 DEF ListedOnce, CloseLoop
<1>4. SettledFirst'
  BY <1>1 DEF SettledFirst, CloseLoop
<1>5. OwnAnswer'
  BY <1>1 DEF OwnAnswer, CloseLoop
<1>6. PoolKept'
  BY <1>1 DEF PoolKept, RunningCalls
<1> QED BY <1>2, <1>3, <1>4, <1>5, <1>6 DEF OffloadIInv

\* Who asks gets what was set, or TimeoutError.
LEMMA AwaitAnswerKeeps ==
    ASSUME OffloadIInv, AwaitAnswer, UNCHANGED <<executor, job>>
    PROVE OffloadIInv'
<1>1. OffloadTypeOK /\ ListedOnce /\ SettledFirst /\ OwnAnswer /\ PoolKept
  BY DEF OffloadIInv
<1>2. OffloadTypeOK'
  BY <1>1 DEF OffloadTypeOK, AwaitAnswer
<1>3. ListedOnce'
  BY <1>1 DEF ListedOnce, AwaitAnswer
<1>4. SettledFirst'
  BY <1>1 DEF SettledFirst, AwaitAnswer
<1>5. OwnAnswer'
  BY <1>1 DEF OwnAnswer, AwaitAnswer, Yields
<1>6. PoolKept'
  BY <1>1 DEF PoolKept, RunningCalls
<1> QED BY <1>2, <1>3, <1>4, <1>5, <1>6 DEF OffloadIInv

\* run is refused once the manager is closed.
LEMMA SubmitKeeps ==
    ASSUME OffloadIInv, NEW c \in PoolCalls, Submit(c)
    PROVE OffloadIInv'
<1>1. OffloadTypeOK /\ ListedOnce /\ SettledFirst /\ OwnAnswer /\ PoolKept
  BY DEF OffloadIInv
<1>2. OffloadTypeOK'
  <2>1. job' \in [PoolCalls -> {"idle", "queued", "running", "abandoned", "answered", "cancelled", "refused"}]
    BY <1>1 DEF Submit, OffloadTypeOK
  <2>2. executor' \in {"none", "open", "closing", "shut"}
    BY <1>1 DEF Submit, OffloadTypeOK
  <2> QED BY <1>1, <2>2 DEF OffloadTypeOK, Submit, threadVars
<1>3. ListedOnce'
  BY <1>1 DEF ListedOnce, Submit, threadVars
<1>4. SettledFirst'
  BY <1>1 DEF SettledFirst, Submit, threadVars
<1>5. OwnAnswer'
  BY <1>1 DEF OwnAnswer, Submit, threadVars
<1>6. PoolKept'
  BY <1>1 DEF PoolKept, OffloadTypeOK, Submit, RunningCalls
<1> QED BY <1>2, <1>3, <1>4, <1>5, <1>6 DEF OffloadIInv

\* A queued call starts when a worker is free.
LEMMA StartJobKeeps ==
    ASSUME OffloadIInv, NEW c \in PoolCalls, StartJob(c)
    PROVE OffloadIInv'
<1>1. OffloadTypeOK /\ ListedOnce /\ SettledFirst /\ OwnAnswer /\ PoolKept
  BY DEF OffloadIInv
<1>2. OffloadTypeOK'
  BY <1>1 DEF OffloadTypeOK, StartJob, threadVars
<1>3. ListedOnce'
  BY <1>1 DEF ListedOnce, StartJob, threadVars
<1>4. SettledFirst'
  BY <1>1 DEF SettledFirst, StartJob, threadVars
<1>5. OwnAnswer'
  BY <1>1 DEF OwnAnswer, StartJob, threadVars
<1>6. PoolKept'
  <2>1. /\ executor = "open" /\ executor' = "open" /\ job[c] = "queued"
        /\ RunningCalls' = RunningCalls \cup {c} /\ c \notin RunningCalls
        /\ Cardinality(RunningCalls) < MaxWorkers /\ IsFiniteSet(RunningCalls)
    BY <1>1 DEF StartJob, OffloadTypeOK, RunningCalls, PoolKept
  <2>2. IsFiniteSet(RunningCalls') /\ Cardinality(RunningCalls') = Cardinality(RunningCalls) + 1
    BY <2>1, FS_AddElement
  <2>3. Cardinality(RunningCalls) \in Nat
    BY <2>1, FS_CardinalityType
  <2> QED BY <2>1, <2>2, <2>3, OffloadAssumption DEF PoolKept
<1> QED BY <1>2, <1>3, <1>4, <1>5, <1>6 DEF OffloadIInv

\* A worker becomes free when its call ends, whoever waits for it.
LEMMA FinishJobKeeps ==
    ASSUME OffloadIInv, NEW c \in PoolCalls, FinishJob(c)
    PROVE OffloadIInv'
<1>1. OffloadTypeOK /\ ListedOnce /\ SettledFirst /\ OwnAnswer /\ PoolKept
  BY DEF OffloadIInv
<1>2. OffloadTypeOK'
  BY <1>1 DEF OffloadTypeOK, FinishJob, threadVars
<1>3. ListedOnce'
  BY <1>1 DEF ListedOnce, FinishJob, threadVars
<1>4. SettledFirst'
  BY <1>1 DEF SettledFirst, FinishJob, threadVars
<1>5. OwnAnswer'
  BY <1>1 DEF OwnAnswer, FinishJob, threadVars
<1>6. PoolKept'
  <2>1. /\ RunningCalls' = RunningCalls \ {c} /\ c \in RunningCalls /\ executor' = executor
        /\ \A d \in PoolCalls : job'[d] = "queued" => job[d] = "queued"
    BY <1>1 DEF FinishJob, OffloadTypeOK, RunningCalls
  <2>2. IsFiniteSet(RunningCalls') /\ Cardinality(RunningCalls') = Cardinality(RunningCalls) - 1
    BY <1>1, <2>1, FS_RemoveElement DEF PoolKept
  <2>3. Cardinality(RunningCalls) \in Nat
    BY <1>1, FS_CardinalityType DEF PoolKept
  <2> QED BY <1>1, <2>1, <2>2, <2>3, OffloadAssumption DEF PoolKept
<1> QED BY <1>2, <1>3, <1>4, <1>5, <1>6 DEF OffloadIInv

\* A call that runs keeps its worker when its caller is cancelled.
LEMMA CancelJobKeeps ==
    ASSUME OffloadIInv, NEW c \in PoolCalls, CancelJob(c)
    PROVE OffloadIInv'
<1>1. OffloadTypeOK /\ ListedOnce /\ SettledFirst /\ OwnAnswer /\ PoolKept
  BY DEF OffloadIInv
<1>2. OffloadTypeOK'
  BY <1>1 DEF OffloadTypeOK, CancelJob, threadVars
<1>3. ListedOnce'
  BY <1>1 DEF ListedOnce, CancelJob, threadVars
<1>4. SettledFirst'
  BY <1>1 DEF SettledFirst, CancelJob, threadVars
<1>5. OwnAnswer'
  BY <1>1 DEF OwnAnswer, CancelJob, threadVars
<1>6. PoolKept'
  BY <1>1 DEF PoolKept, CancelJob, RunningCalls
<1> QED BY <1>2, <1>3, <1>4, <1>5, <1>6 DEF OffloadIInv

\* close cancels the queued calls.
LEMMA ClosePoolKeeps ==
    ASSUME OffloadIInv, ClosePool
    PROVE OffloadIInv'
<1>1. OffloadTypeOK /\ ListedOnce /\ SettledFirst /\ OwnAnswer /\ PoolKept
  BY DEF OffloadIInv
<1>2. OffloadTypeOK'
  BY <1>1 DEF OffloadTypeOK, ClosePool, threadVars
<1>3. ListedOnce'
  BY <1>1 DEF ListedOnce, ClosePool, threadVars
<1>4. SettledFirst'
  BY <1>1 DEF SettledFirst, ClosePool, threadVars
<1>5. OwnAnswer'
  BY <1>1 DEF OwnAnswer, ClosePool, threadVars
<1>6. PoolKept'
  BY <1>1 DEF PoolKept, ClosePool, RunningCalls
<1> QED BY <1>2, <1>3, <1>4, <1>5, <1>6 DEF OffloadIInv

\* close returns when no call runs.
LEMMA PoolClosedKeeps ==
    ASSUME OffloadIInv, PoolClosed
    PROVE OffloadIInv'
<1>1. OffloadTypeOK /\ ListedOnce /\ SettledFirst /\ OwnAnswer /\ PoolKept
  BY DEF OffloadIInv
<1>2. OffloadTypeOK'
  BY <1>1 DEF OffloadTypeOK, PoolClosed, threadVars
<1>3. ListedOnce'
  BY <1>1 DEF ListedOnce, PoolClosed, threadVars
<1>4. SettledFirst'
  BY <1>1 DEF SettledFirst, PoolClosed, threadVars
<1>5. OwnAnswer'
  BY <1>1 DEF OwnAnswer, PoolClosed, threadVars
<1>6. PoolKept'
  BY <1>1 DEF PoolKept, PoolClosed, RunningCalls
<1> QED BY <1>2, <1>3, <1>4, <1>5, <1>6 DEF OffloadIInv

\* Nothing runs or is awaited at first.
LEMMA OffloadBegins == ASSUME OffloadInit PROVE OffloadIInv
<1>1. Len(hooks) = 0 /\ hooks = <<>> /\ hooks \in Seq(Hooks) /\ 1 .. Len(hooks) = {} /\ notified \in 0 .. Len(hooks)
  BY DEF OffloadInit
<1>2. OffloadTypeOK
  BY <1>1 DEF OffloadInit, OffloadTypeOK, Yields
<1>3. ListedOnce
  BY <1>1 DEF OffloadInit, ListedOnce
<1>4. SettledFirst /\ OwnAnswer
  BY DEF OffloadInit, SettledFirst, OwnAnswer, Yields
<1>5. PoolKept
  <2>1. RunningCalls = {}
    BY DEF OffloadInit, RunningCalls
  <2> QED BY <2>1, FS_EmptySet, OffloadAssumption DEF OffloadInit, PoolKept
<1> QED BY <1>2, <1>3, <1>4, <1>5 DEF OffloadIInv

\* A step of another component leaves threads and pool alone.
LEMMA OffloadStays == ASSUME OffloadIInv, UNCHANGED offloadVars PROVE OffloadIInv'
BY DEF OffloadIInv, OffloadTypeOK, ListedOnce, SettledFirst, OwnAnswer,
       PoolKept, RunningCalls, offloadVars, threadVars

\* Every step of the threads and the pool keeps the invariant.
LEMMA OffloadKeeps == ASSUME OffloadIInv, [OffloadNext]_offloadVars PROVE OffloadIInv'
<1>1. CASE ThreadNext
  BY <1>1, SetEventKeeps, NotifyKeeps, AddDoneCallbackKeeps,
         CoroutineEndsKeeps, CancelLeftoversKeeps, DeliverKeeps,
         CancelAwaitKeeps, CloseLoopKeeps, AwaitAnswerKeeps DEF ThreadNext,
         ThreadStep
<1>2. CASE PoolNext
  BY <1>2, SubmitKeeps, StartJobKeeps, FinishJobKeeps, CancelJobKeeps,
         ClosePoolKeeps, PoolClosedKeeps DEF PoolNext, PoolStep
<1> QED BY <1>1, <1>2, OffloadStays DEF OffloadNext

\* What is checked of the helpers follows from the invariant.
LEMMA OffloadImplies == ASSUME OffloadIInv PROVE OffloadInv
<1>1. OffloadTypeOK /\ ListedOnce /\ SettledFirst /\ OwnAnswer /\ PoolKept
  BY DEF OffloadIInv
<1>2. CallbacksOnce
  <2> SUFFICES ASSUME NEW h \in Hooks
    PROVE /\ calls[h] <= 1 /\ (calls[h] = 1 => settled # "none")
          /\ worker = "end" /\ hook[h] \in {"added", "called"} => calls[h] = 1
    BY DEF CallbacksOnce
  <2>2. CASE hook[h] \in {"idle", "checked", "called"}
    BY <1>1, <2>2 DEF ListedOnce, SettledFirst
  <2>3. CASE hook[h] \in {"added", "late"}
    <3>1. PICK i \in 1 .. Len(hooks) : hooks[i] = h
      BY <1>1, <2>3 DEF ListedOnce
    <3>2. calls[h] = (IF i <= notified THEN 1 ELSE 0) /\ i > 0 /\ notified \in Nat
      BY <1>1, <3>1 DEF ListedOnce, OffloadTypeOK
    <3>3. i <= notified => settled # "none"
      BY <1>1, <3>2 DEF SettledFirst
    <3>4. worker = "end" /\ hook[h] = "added" => i <= notified
      BY <1>1, <3>1 DEF ListedOnce
    <3> QED BY <2>3, <3>2, <3>3, <3>4
  <2> QED BY <1>1, <2>2, <2>3 DEF OffloadTypeOK
<1>3. AnswerIsOwn
  BY <1>1 DEF OwnAnswer, AnswerIsOwn
<1>4. PoolOwned
  BY <1>1 DEF PoolKept, PoolOwned, RunningCalls
<1> QED BY <1>1, <1>2, <1>3, <1>4 DEF OffloadInv

---------------------------------------------------------------------------
(* FFmpeg processes.  The place of a runner tells what became of its       *)
(* handle and of its process (RunnerKnows); a permit is held in some of    *)
(* these places (PermitsKept), and the stops of close are asked of every   *)
(* handle that has no result (CloseAsksAll).                               *)

\* Where the runner of a handle is says what became of the handle and of its process.
RunnerKnows ==
  \A h \in Handles :
    /\ runner[h] = "none" <=> state[h] = "new"
    /\ runner[h] = "acquire" <=> state[h] = "queued"
    /\ runner[h] = "spawn" <=> state[h] = "starting"
    /\ runner[h] \in {"none", "acquire", "spawn"} => proc[h] = "none"
    /\ runner[h] \in {"input", "wait", "drain", "killwait"} => state[h] \in {"running", "stopping"}
    /\ runner[h] \in {"drain", "done"} => proc[h] # "alive"
    /\ runner[h] \in {"unwind", "done"} <=> result[h] # "none"
    /\ result[h] # "none" => state[h] = result[h]

\* At most max_processes runners hold a permit.
PermitsKept == IsFiniteSet(Holders) /\ Cardinality(Holders) <= MaxProcesses

\* close asks every handle that has no result, and its stops return with one.
CloseAsksAll ==
  \A h \in Handles :
    /\ op[h]["close"] = "done" => result[h] # "none"
    /\ closed /\ op[h]["close"] = "none" => state[h] = "new" \/ result[h] # "none"

ProcessesIInv == ProcessesTypeOK /\ RunnerKnows /\ PermitsKept /\ CloseAsksAll

\* Permits that are given back leave at most max_processes.
LEMMA PermitsShrink == ASSUME PermitsKept, Holders' \subseteq Holders PROVE PermitsKept'
<1>1. /\ IsFiniteSet(Holders') /\ Cardinality(Holders') \in Nat /\ Cardinality(Holders) \in Nat
      /\ Cardinality(Holders') <= Cardinality(Holders)
  BY FS_Subset, FS_CardinalityType DEF PermitsKept
<1> QED BY <1>1, ProcessesAssumption DEF PermitsKept

\* create is refused once the manager is closed.
LEMMA CreateKeeps ==
    ASSUME ProcessesIInv, NEW h \in Handles, Create(h)
    PROVE ProcessesIInv'
<1>1. ProcessesTypeOK /\ RunnerKnows /\ PermitsKept /\ CloseAsksAll
  BY DEF ProcessesIInv
<1>2. ProcessesTypeOK'
  BY <1>1 DEF ProcessesTypeOK, Create
<1>3. RunnerKnows'
  BY <1>1 DEF RunnerKnows, ProcessesTypeOK, Create
<1>4. PermitsKept'
  <2>1. Holders' \subseteq Holders
    BY DEF Create, Holding, Holders
  <2> QED BY <1>1, <2>1, PermitsShrink
<1>5. CloseAsksAll'
  BY <1>1 DEF CloseAsksAll, Create
<1> QED BY <1>2, <1>3, <1>4, <1>5 DEF ProcessesIInv

\* A runner goes on when a permit of the semaphore is free.
LEMMA AcquireKeeps ==
    ASSUME ProcessesIInv, NEW h \in Handles, Acquire(h)
    PROVE ProcessesIInv'
<1>1. ProcessesTypeOK /\ RunnerKnows /\ PermitsKept /\ CloseAsksAll
  BY DEF ProcessesIInv
<1>2. ProcessesTypeOK'
  BY <1>1 DEF ProcessesTypeOK, Acquire, Holding
<1>3. RunnerKnows'
  BY <1>1 DEF RunnerKnows, ProcessesTypeOK, Acquire
<1>4. PermitsKept'
  <2>1. /\ Holders' = Holders \cup {h} /\ h \notin Holders /\ IsFiniteSet(Holders)
        /\ Cardinality(Holders) < MaxProcesses
    BY <1>1 DEF Acquire, Holders, Holding, ProcessesTypeOK, PermitsKept
  <2>2. /\ IsFiniteSet(Holders') /\ Cardinality(Holders') = Cardinality(Holders) + 1
        /\ Cardinality(Holders) \in Nat
    BY <2>1, FS_AddElement, FS_CardinalityType
  <2> QED BY <2>1, <2>2, ProcessesAssumption DEF PermitsKept
<1>5. CloseAsksAll'
  <2>1. /\ UNCHANGED <<result, op, closed>> /\ state[h] # "new"
        /\ \A g \in Handles : g # h => state'[g] = state[g]
    BY <1>1 DEF Acquire, RunnerKnows, ProcessesTypeOK
  <2> QED BY <1>1, <2>1 DEF CloseAsksAll
<1> QED BY <1>2, <1>3, <1>4, <1>5 DEF ProcessesIInv

\* The process is spawned and the run RUNNING.
LEMMA SpawnedKeeps ==
    ASSUME ProcessesIInv, NEW h \in Handles, Spawned(h)
    PROVE ProcessesIInv'
<1>1. ProcessesTypeOK /\ RunnerKnows /\ PermitsKept /\ CloseAsksAll
  BY DEF ProcessesIInv
<1>2. ProcessesTypeOK'
  BY <1>1 DEF ProcessesTypeOK, Spawned, Holding
<1>3. RunnerKnows'
  BY <1>1 DEF RunnerKnows, ProcessesTypeOK, Spawned
<1>4. PermitsKept'
  BY <1>1 DEF PermitsKept, Spawned, Holding, Holders
<1>5. CloseAsksAll'
  <2>1. /\ UNCHANGED <<result, op, closed>> /\ state[h] # "new"
        /\ \A g \in Handles : g # h => state'[g] = state[g]
    BY <1>1 DEF Spawned, RunnerKnows, ProcessesTypeOK
  <2> QED BY <1>1, <2>1 DEF CloseAsksAll
<1> QED BY <1>2, <1>3, <1>4, <1>5 DEF ProcessesIInv

\* A process that cannot be spawned ends the run.
LEMMA SpawnFailsKeeps ==
    ASSUME ProcessesIInv, NEW h \in Handles, SpawnFails(h)
    PROVE ProcessesIInv'
<1>1. ProcessesTypeOK /\ RunnerKnows /\ PermitsKept /\ CloseAsksAll
  BY DEF ProcessesIInv
<1>2. ProcessesTypeOK'
  BY <1>1 DEF ProcessesTypeOK, SpawnFails, Complete, FinalStates, Holding
<1>3. RunnerKnows'
  BY <1>1 DEF RunnerKnows, ProcessesTypeOK, SpawnFails, Complete
<1>4. PermitsKept'
  <2>1. Holders' \subseteq Holders
    BY <1>1 DEF SpawnFails, Holders, ProcessesTypeOK
  <2> QED BY <1>1, <2>1, PermitsShrink
<1>5. CloseAsksAll'
  BY <1>1 DEF CloseAsksAll, ProcessesTypeOK, SpawnFails, Complete
<1> QED BY <1>2, <1>3, <1>4, <1>5 DEF ProcessesIInv

\* The runner has written the input.
LEMMA InputWrittenKeeps ==
    ASSUME ProcessesIInv, NEW h \in Handles, InputWritten(h)
    PROVE ProcessesIInv'
<1>1. ProcessesTypeOK /\ RunnerKnows /\ PermitsKept /\ CloseAsksAll
  BY DEF ProcessesIInv
<1>2. ProcessesTypeOK'
  BY <1>1 DEF ProcessesTypeOK, InputWritten, Holding
<1>3. RunnerKnows'
  BY <1>1 DEF RunnerKnows, InputWritten
<1>4. PermitsKept'
  BY <1>1 DEF PermitsKept, InputWritten, Holding, Holders
<1>5. CloseAsksAll'
  BY <1>1 DEF CloseAsksAll, InputWritten
<1> QED BY <1>2, <1>3, <1>4, <1>5 DEF ProcessesIInv

\* An input that cannot be written ends the run.
LEMMA InputFailsKeeps ==
    ASSUME ProcessesIInv, NEW h \in Handles, InputFails(h)
    PROVE ProcessesIInv'
<1>1. ProcessesTypeOK /\ RunnerKnows /\ PermitsKept /\ CloseAsksAll
  BY DEF ProcessesIInv
<1>2. ProcessesTypeOK'
  BY <1>1 DEF ProcessesTypeOK, InputFails, Complete, FinalStates, Holding,
         Operations
<1>3. RunnerKnows'
  BY <1>1 DEF RunnerKnows, ProcessesTypeOK, InputFails, Complete
<1>4. PermitsKept'
  BY <1>1 DEF PermitsKept, InputFails, Holding, Holders
<1>5. CloseAsksAll'
  BY <1>1 DEF CloseAsksAll, ProcessesTypeOK, InputFails, Complete
<1> QED BY <1>2, <1>3, <1>4, <1>5 DEF ProcessesIInv

\* The runner saw the process exit.
LEMMA WaitedKeeps ==
    ASSUME ProcessesIInv, NEW h \in Handles, Waited(h)
    PROVE ProcessesIInv'
<1>1. ProcessesTypeOK /\ RunnerKnows /\ PermitsKept /\ CloseAsksAll
  BY DEF ProcessesIInv
<1>2. ProcessesTypeOK'
  BY <1>1 DEF ProcessesTypeOK, Waited, Holding
<1>3. RunnerKnows'
  BY <1>1 DEF RunnerKnows, Waited
<1>4. PermitsKept'
  BY <1>1 DEF PermitsKept, Waited, Holding, Holders
<1>5. CloseAsksAll'
  BY <1>1 DEF CloseAsksAll, Waited
<1> QED BY <1>2, <1>3, <1>4, <1>5 DEF ProcessesIInv

\* The output is read, and the run has its result.
LEMMA DrainedKeeps ==
    ASSUME ProcessesIInv, NEW h \in Handles, Drained(h)
    PROVE ProcessesIInv'
<1>1. ProcessesTypeOK /\ RunnerKnows /\ PermitsKept /\ CloseAsksAll
  BY DEF ProcessesIInv
<1>2. ProcessesTypeOK'
  <2> PICK s \in FinalStates : Complete(h, s)
    BY DEF Drained, TerminalStates, FinalStates
  <2>1. state' \in [Handles -> {"new", "queued", "starting", "running", "stopping"} \cup FinalStates]
        /\ result' \in [Handles -> {"none"} \cup FinalStates]
    BY <1>1 DEF Complete, ProcessesTypeOK
  <2>2. runner' \in [Handles -> {"none", "acquire", "done"} \cup Holding]
    BY <1>1 DEF Drained, ProcessesTypeOK
  <2> QED BY <1>1, <2>1 DEF Drained, ProcessesTypeOK
<1>3. RunnerKnows'
  BY <1>1 DEF RunnerKnows, ProcessesTypeOK, Drained, Complete, TerminalStates
<1>4. PermitsKept'
  <2>1. Holders' \subseteq Holders
    BY <1>1 DEF Drained, Holders, ProcessesTypeOK
  <2> QED BY <1>1, <2>1, PermitsShrink
<1>5. CloseAsksAll'
  BY <1>1 DEF CloseAsksAll, ProcessesTypeOK, Drained, Complete, TerminalStates
<1> QED BY <1>2, <1>3, <1>4, <1>5 DEF ProcessesIInv

\* The finally of the runner gives back the permit.
LEMMA UnwindKeeps ==
    ASSUME ProcessesIInv, NEW h \in Handles, Unwind(h)
    PROVE ProcessesIInv'
<1>1. ProcessesTypeOK /\ RunnerKnows /\ PermitsKept /\ CloseAsksAll
  BY DEF ProcessesIInv
<1>2. ProcessesTypeOK'
  BY <1>1 DEF ProcessesTypeOK, Unwind
<1>3. RunnerKnows'
  BY <1>1 DEF RunnerKnows, Unwind
<1>4. PermitsKept'
  <2>1. Holders' \subseteq Holders
    BY <1>1 DEF Unwind, Holders, ProcessesTypeOK
  <2> QED BY <1>1, <2>1, PermitsShrink
<1>5. CloseAsksAll'
  BY <1>1 DEF CloseAsksAll, Unwind
<1> QED BY <1>2, <1>3, <1>4, <1>5 DEF ProcessesIInv

\* A cancelled runner kills and awaits its process.
LEMMA RunnerCancelledKeeps ==
    ASSUME ProcessesIInv, NEW h \in Handles, RunnerCancelled(h)
    PROVE ProcessesIInv'
<1>1. ProcessesTypeOK /\ RunnerKnows /\ PermitsKept /\ CloseAsksAll
  BY DEF ProcessesIInv
<1>a. CASE proc[h] = "alive"
  <2>1. /\ runner[h] \in {"spawn", "input", "wait"}
        /\ forceRq' = [forceRq EXCEPT ![h] = TRUE] /\ signal' = [signal EXCEPT ![h] = "kill"]
        /\ runner' = [runner EXCEPT ![h] = "killwait"]
        /\ UNCHANGED <<state, result, proc, pipe, stopRq, op, closed>>
    BY <1>a DEF RunnerCancelled
  <2>2. ProcessesTypeOK'
    BY <1>1, <2>1 DEF ProcessesTypeOK, Holding
  <2>3. RunnerKnows'
    BY <1>1, <1>a, <2>1 DEF RunnerKnows
  <2>4. Holders' \subseteq Holders
    BY <1>1, <2>1 DEF Holders, ProcessesTypeOK
  <2>5. CloseAsksAll'
    BY <1>1, <2>1 DEF CloseAsksAll
  <2> QED BY <2>2, <2>3, <2>4, <2>5, PermitsShrink DEF ProcessesIInv
<1>b. CASE proc[h] # "alive"
  <2> PICK s \in {"killed", "cancelled"} : Complete(h, s)
    BY <1>b DEF RunnerCancelled, CancelledState
  <2>1. /\ runner[h] \in {"spawn", "input", "wait"} /\ runner' = [runner EXCEPT ![h] = "done"]
        /\ UNCHANGED <<forceRq, signal, proc, pipe, stopRq, op, closed>>
    BY <1>b DEF RunnerCancelled
  <2>2. /\ result[h] = "none" /\ result' = [result EXCEPT ![h] = s] /\ state' = [state EXCEPT ![h] = s]
    BY <1>1, <2>1 DEF RunnerKnows, Complete
  <2>3. ProcessesTypeOK'
    BY <1>1, <2>1, <2>2 DEF ProcessesTypeOK, FinalStates
  <2>4. RunnerKnows'
    BY <1>1, <1>b, <2>1, <2>2 DEF RunnerKnows, ProcessesTypeOK
  <2>5. Holders' \subseteq Holders
    BY <1>1, <2>1 DEF Holders, ProcessesTypeOK
  <2>6. CloseAsksAll'
    BY <1>1, <2>1, <2>2 DEF CloseAsksAll, ProcessesTypeOK
  <2> QED BY <2>3, <2>4, <2>5, <2>6, PermitsShrink DEF ProcessesIInv
<1> QED BY <1>a, <1>b

\* The killed process has exited.
LEMMA KilledWaitedKeeps ==
    ASSUME ProcessesIInv, NEW h \in Handles, KilledWaited(h)
    PROVE ProcessesIInv'
<1>1. ProcessesTypeOK /\ RunnerKnows /\ PermitsKept /\ CloseAsksAll
  BY DEF ProcessesIInv
<1>2. ProcessesTypeOK'
  BY <1>1 DEF ProcessesTypeOK, KilledWaited, Complete, CancelledState,
         FinalStates, Holding, Operations
<1>3. RunnerKnows'
  BY <1>1 DEF RunnerKnows, ProcessesTypeOK, KilledWaited, Complete,
         CancelledState
<1>4. PermitsKept'
  <2>1. Holders' \subseteq Holders
    BY <1>1 DEF KilledWaited, Holders, ProcessesTypeOK
  <2> QED BY <1>1, <2>1, PermitsShrink
<1>5. CloseAsksAll'
  BY <1>1 DEF CloseAsksAll, ProcessesTypeOK, KilledWaited, Complete,
         CancelledState
<1> QED BY <1>2, <1>3, <1>4, <1>5 DEF ProcessesIInv

\* A process exits by itself or on a signal.
LEMMA ExitKeeps ==
    ASSUME ProcessesIInv, NEW h \in Handles, Exit(h)
    PROVE ProcessesIInv'
<1>1. ProcessesTypeOK /\ RunnerKnows /\ PermitsKept /\ CloseAsksAll
  BY DEF ProcessesIInv
<1>2. ProcessesTypeOK'
  BY <1>1 DEF ProcessesTypeOK, Exit
<1>3. RunnerKnows'
  BY <1>1 DEF RunnerKnows, Exit
<1>4. PermitsKept'
  BY <1>1 DEF PermitsKept, Exit, Holders
<1>5. CloseAsksAll'
  BY <1>1 DEF CloseAsksAll, Exit
<1> QED BY <1>2, <1>3, <1>4, <1>5 DEF ProcessesIInv

\* A process reads its input.
LEMMA ReadsInputKeeps ==
    ASSUME ProcessesIInv, NEW h \in Handles, ReadsInput(h)
    PROVE ProcessesIInv'
<1>1. ProcessesTypeOK /\ RunnerKnows /\ PermitsKept /\ CloseAsksAll
  BY DEF ProcessesIInv
<1>2. ProcessesTypeOK'
  BY <1>1 DEF ProcessesTypeOK, ReadsInput
<1>3. RunnerKnows'
  BY <1>1 DEF RunnerKnows, ReadsInput
<1>4. PermitsKept'
  BY <1>1 DEF PermitsKept, ReadsInput, Holders
<1>5. CloseAsksAll'
  BY <1>1 DEF CloseAsksAll, ReadsInput
<1> QED BY <1>2, <1>3, <1>4, <1>5 DEF ProcessesIInv

\* stop, kill and close request the end of a run, or find it over.
LEMMA RequestKeeps ==
    ASSUME ProcessesIInv, NEW h \in Handles, NEW k \in Operations, Request(h, k), UNCHANGED <<proc, pipe, closed>>
    PROVE ProcessesIInv'
<1>1. ProcessesTypeOK /\ RunnerKnows /\ PermitsKept /\ CloseAsksAll
  BY DEF ProcessesIInv
<1>a. PICK p \in {"wait", "started", "quit"} : op' = OpAt(h, k, p)
  BY DEF Request
<1>b. /\ op' \in [Handles -> [Operations -> {"none", "ask", "started", "quit", "grace", "term", "wait", "done"}]]
      /\ \A g \in Handles : /\ op'[g]["close"] = "done" => op[g]["close"] = "done"
                            /\ op'[g]["close"] = "none" => op[g]["close"] = "none"
  BY <1>1, <1>a DEF OpAt, ProcessesTypeOK
<1>c. /\ stopRq' \in [Handles -> BOOLEAN] /\ forceRq' \in [Handles -> BOOLEAN]
      /\ signal' \in [Handles -> {"none", "kill"}]
  BY <1>1 DEF Request, ProcessesTypeOK
<1>d. CASE UNCHANGED <<state, runner, result>>
  <2>1. ProcessesTypeOK'
    BY <1>1, <1>b, <1>c, <1>d DEF ProcessesTypeOK
  <2>2. RunnerKnows' /\ CloseAsksAll'
    BY <1>1, <1>b, <1>d DEF RunnerKnows, CloseAsksAll
  <2>3. PermitsKept'
    BY <1>1, <1>d, PermitsShrink DEF Holders
  <2> QED BY <2>1, <2>2, <2>3 DEF ProcessesIInv
<1>e. CASE /\ state[h] = "queued" /\ runner' = [runner EXCEPT ![h] = "done"]
           /\ Complete(h, CancelledState(h))
  <2> PICK s \in {"killed", "cancelled"} : Complete(h, s)
    BY <1>e DEF CancelledState
  <2>1. /\ result[h] = "none" /\ result' = [result EXCEPT ![h] = s] /\ state' = [state EXCEPT ![h] = s]
        /\ runner[h] = "acquire" /\ proc[h] = "none"
    BY <1>1, <1>e DEF RunnerKnows, Complete
  <2>2. ProcessesTypeOK'
    BY <1>1, <1>b, <1>c, <1>e, <2>1 DEF ProcessesTypeOK, FinalStates
  <2>3. RunnerKnows'
    BY <1>1, <1>e, <2>1 DEF RunnerKnows, ProcessesTypeOK
  <2>4. Holders' \subseteq Holders
    BY <1>e DEF Holders, Holding
  <2>5. CloseAsksAll'
    BY <1>1, <1>b, <2>1 DEF CloseAsksAll, ProcessesTypeOK
  <2> QED BY <2>2, <2>3, <2>4, <2>5, PermitsShrink DEF ProcessesIInv
<1>f. CASE /\ state[h] \notin FinalStates /\ proc[h] # "none" /\ state' = [state EXCEPT ![h] = "stopping"]
           /\ UNCHANGED <<runner, result>>
  <2>1. result[h] = "none" /\ runner[h] \in {"input", "wait", "drain", "killwait"} /\ state[h] # "new"
    BY <1>1, <1>f DEF RunnerKnows, ProcessesTypeOK, Holding
  <2>2. ProcessesTypeOK'
    BY <1>1, <1>b, <1>c, <1>f DEF ProcessesTypeOK
  <2>3. RunnerKnows'
    BY <1>1, <1>f, <2>1 DEF RunnerKnows
  <2>4. CloseAsksAll'
    BY <1>1, <1>b, <1>f, <2>1 DEF CloseAsksAll
  <2>5. PermitsKept'
    BY <1>1, <1>f, PermitsShrink DEF Holders
  <2> QED BY <2>2, <2>3, <2>4, <2>5 DEF ProcessesIInv
<1> QED BY <1>d, <1>e, <1>f DEF Request

\* The quit command is written to the process.
LEMMA QuitWrittenKeeps ==
    ASSUME ProcessesIInv, NEW h \in Handles, NEW k \in Operations, QuitWritten(h, k)
    PROVE ProcessesIInv'
<1>1. ProcessesTypeOK /\ RunnerKnows /\ PermitsKept /\ CloseAsksAll
  BY DEF ProcessesIInv
<1>2. ProcessesTypeOK'
  BY <1>1 DEF ProcessesTypeOK, QuitWritten, OpAt
<1>3. RunnerKnows'
  BY <1>1 DEF RunnerKnows, QuitWritten
<1>4. PermitsKept'
  BY <1>1 DEF PermitsKept, QuitWritten, Holders
<1>5. CloseAsksAll'
  BY <1>1 DEF CloseAsksAll, QuitWritten, OpAt
<1> QED BY <1>2, <1>3, <1>4, <1>5 DEF ProcessesIInv

\* The stop saw the process exit.
LEMMA ExitSeenKeeps ==
    ASSUME ProcessesIInv, NEW h \in Handles, NEW k \in Operations, ExitSeen(h, k)
    PROVE ProcessesIInv'
<1>1. ProcessesTypeOK /\ RunnerKnows /\ PermitsKept /\ CloseAsksAll
  BY DEF ProcessesIInv
<1>2. ProcessesTypeOK'
  BY <1>1 DEF ProcessesTypeOK, ExitSeen, OpAt
<1>3. RunnerKnows'
  BY <1>1 DEF RunnerKnows, ExitSeen
<1>4. PermitsKept'
  BY <1>1 DEF PermitsKept, ExitSeen, Holders
<1>5. CloseAsksAll'
  BY <1>1 DEF CloseAsksAll, ExitSeen, OpAt
<1> QED BY <1>2, <1>3, <1>4, <1>5 DEF ProcessesIInv

\* A process that does not exit in time gets the next signal.
LEMMA EscalateKeeps ==
    ASSUME ProcessesIInv, NEW h \in Handles, NEW k \in Operations, Escalate(h, k)
    PROVE ProcessesIInv'
<1>1. ProcessesTypeOK /\ RunnerKnows /\ PermitsKept /\ CloseAsksAll
  BY DEF ProcessesIInv
<1>2. ProcessesTypeOK'
  <2> PICK p \in {"term", "wait"} : op' = OpAt(h, k, p)
    BY DEF Escalate
  <2>1. op' \in [Handles -> [Operations -> {"none", "ask", "started", "quit", "grace", "term", "wait", "done"}]]
    BY <1>1 DEF OpAt, ProcessesTypeOK
  <2>2. forceRq' \in [Handles -> BOOLEAN] /\ signal' \in [Handles -> {"none", "kill"}]
    BY <1>1 DEF Escalate, ProcessesTypeOK
  <2> QED BY <1>1, <2>1 DEF ProcessesTypeOK, Escalate
<1>3. RunnerKnows'
  BY <1>1 DEF RunnerKnows, Escalate
<1>4. PermitsKept'
  BY <1>1 DEF PermitsKept, Escalate, Holders
<1>5. CloseAsksAll'
  BY <1>1 DEF CloseAsksAll, ProcessesTypeOK, Escalate, FinalStates, OpAt,
         Operations
<1> QED BY <1>2, <1>3, <1>4, <1>5 DEF ProcessesIInv

\* A stop returns with the result of the run.
LEMMA ReturnKeeps ==
    ASSUME ProcessesIInv, NEW h \in Handles, NEW k \in Operations, Return(h, k)
    PROVE ProcessesIInv'
<1>1. ProcessesTypeOK /\ RunnerKnows /\ PermitsKept /\ CloseAsksAll
  BY DEF ProcessesIInv
<1>2. ProcessesTypeOK'
  BY <1>1 DEF ProcessesTypeOK, Return, OpAt
<1>3. RunnerKnows'
  BY <1>1 DEF RunnerKnows, Return
<1>4. PermitsKept'
  BY <1>1 DEF PermitsKept, Return, Holders
<1>5. CloseAsksAll'
  BY <1>1 DEF CloseAsksAll, Return, OpAt
<1> QED BY <1>2, <1>3, <1>4, <1>5 DEF ProcessesIInv

\* close asks every run that has no result.
LEMMA CloseManagerKeeps ==
    ASSUME ProcessesIInv, CloseManager
    PROVE ProcessesIInv'
<1>1. ProcessesTypeOK /\ RunnerKnows /\ PermitsKept /\ CloseAsksAll
  BY DEF ProcessesIInv
<1>2. ProcessesTypeOK'
  BY <1>1 DEF ProcessesTypeOK, CloseManager
<1>3. RunnerKnows'
  BY <1>1 DEF RunnerKnows, CloseManager
<1>4. PermitsKept'
  BY <1>1 DEF PermitsKept, CloseManager, Holders
<1>5. CloseAsksAll'
  BY <1>1 DEF CloseAsksAll, ProcessesTypeOK, CloseManager, Tracked, Operations
<1> QED BY <1>2, <1>3, <1>4, <1>5 DEF ProcessesIInv

\* No process was created at first.
LEMMA ProcessesBegins == ASSUME ProcessesInit PROVE ProcessesIInv
<1>1. ProcessesTypeOK
  BY DEF ProcessesInit, ProcessesTypeOK
<1>2. RunnerKnows /\ CloseAsksAll
  BY DEF ProcessesInit, RunnerKnows, CloseAsksAll, Operations
<1>3. PermitsKept
  <2>1. Holders = {}
    BY DEF ProcessesInit, Holders, Holding
  <2> QED BY <2>1, FS_EmptySet, ProcessesAssumption DEF PermitsKept
<1> QED BY <1>1, <1>2, <1>3 DEF ProcessesIInv

\* A step of another component leaves the processes alone.
LEMMA ProcessesStays == ASSUME ProcessesIInv, UNCHANGED processVars PROVE ProcessesIInv'
BY DEF ProcessesIInv, ProcessesTypeOK, RunnerKnows, PermitsKept, Holders,
       CloseAsksAll, processVars

\* Every step of the process manager keeps the invariant.
LEMMA ProcessesKeeps == ASSUME ProcessesIInv, [ProcessesNext]_processVars PROVE ProcessesIInv'
<1>1. ASSUME NEW h \in Handles, Create(h) \/ RunnerStep(h) \/ RunnerCancelled(h) \/ Exit(h) \/ ReadsInput(h)
      PROVE ProcessesIInv'
  BY <1>1, CreateKeeps, AcquireKeeps, SpawnedKeeps, SpawnFailsKeeps,
         InputWrittenKeeps, InputFailsKeeps, WaitedKeeps, DrainedKeeps,
         UnwindKeeps, KilledWaitedKeeps, RunnerCancelledKeeps, ExitKeeps,
         ReadsInputKeeps DEF RunnerStep
<1>2. ASSUME NEW h \in Handles, NEW k \in Operations, Ask(h, k) \/ AskAgain(h, k) \/ (k = "close" /\ CloseStops(h))
      PROVE ProcessesIInv'
  BY <1>2, RequestKeeps DEF Ask, AskAgain, CloseStops
<1>3. ASSUME NEW h \in Handles, NEW k \in Operations,
             QuitWritten(h, k) \/ ExitSeen(h, k) \/ Escalate(h, k) \/ Return(h, k)
      PROVE ProcessesIInv'
  BY <1>3, QuitWrittenKeeps, ExitSeenKeeps, EscalateKeeps, ReturnKeeps
<1>4. ASSUME NEW h \in Handles, NEW k \in Operations, Ask(h, k) \/ OperationStep(h, k)
      PROVE ProcessesIInv'
  BY <1>2, <1>3, <1>4 DEF OperationStep
<1> QED BY <1>1, <1>4, CloseManagerKeeps, ProcessesStays DEF ProcessesNext

\* What is checked of the processes follows from the invariant.
LEMMA ProcessesImplies == ASSUME ProcessesIInv PROVE ProcessesInv
<1>1. ProcessesTypeOK /\ RunnerKnows /\ PermitsKept /\ CloseAsksAll
  BY DEF ProcessesIInv
<1>2. {h \in Handles : proc[h] = "alive"} \subseteq Holders
  BY <1>1 DEF RunnerKnows, Holders, ProcessesTypeOK
<1>3. Cardinality({h \in Handles : proc[h] = "alive"}) <= MaxProcesses
  <2> PICK S : S = {h \in Handles : proc[h] = "alive"}
    OBVIOUS
  <2>1. /\ Cardinality(S) <= Cardinality(Holders) /\ Cardinality(S) \in Nat /\ Cardinality(Holders) \in Nat
    BY <1>1, <1>2, FS_Subset, FS_CardinalityType DEF PermitsKept
  <2> QED BY <1>1, <2>1, ProcessesAssumption DEF PermitsKept
<1>4. BoundedAndFinal
  BY <1>1, <1>3 DEF BoundedAndFinal, RunnerKnows
<1>5. NoneLeft
  BY <1>1 DEF NoneLeft, RunnerKnows, CloseAsksAll
<1> QED BY <1>4, <1>5 DEF ProcessesInv

---------------------------------------------------------------------------
(* One crawl.  The resources are open while the engines run and in the     *)
(* phase that still writes to brokers because what is active is what was   *)
(* started until the runtime is closed (StartedInOrder), and closing it    *)
(* comes after that phase whoever shuts down (PhasesInOrder,               *)
(* NothingEarly); nothing is left open because what leaves the active set  *)
(* is in the hands of one lock holder (ResourcesLast, LockHolders).        *)

\* The run got past its initialization.
Past == at["main"] \notin {"new", "starting", "building", "aborted"}

\* Who holds a lock; stop() waits for the run when its shutdown is over.
LockHolders ==
  /\ {shutdownLock, closeLock} \subseteq Actors \cup {NoActor}
  /\ waitLock = "stopper" => mode = "handle" /\ at["stopper"] = "awaiting"

\* Resources start in the order of their registration, and stay active until
\* the runtime state is closed.
StartedInOrder ==
  /\ Acceptable(entries)
  /\ at["main"] = "new" => active = {}
  /\ at["main"] = "starting" =>
        \E m \in 0 .. Len(entries) :
           /\ active = {entries[k] : k \in 1 .. m}
           /\ IsFiniteSet(active) /\ Cardinality(active) = m
  /\ at["main"] = "building" \/ (Past /\ ~runtimeClosed) => active = Mounted

\* Nothing is shut down before the engines have begun.
NothingEarly ==
  /\ at["stopper"] \notin {"idle", "raised"} => Past
  /\ done # {} => Past

\* A phase is entered when the one before it is complete, and is complete when
\* its first step has been carried out.
PhasesInOrder ==
  /\ prepared => "cancel" \in done
  /\ runtimeClosed => prepared /\ "pool" \in done
  /\ "sessions" \in done => prepared
  /\ "pool" \in done => pool # "started"
  /\ \A a \in Actors :
        /\ at[a] = "preparing" => ~prepared /\ (step[a] > 1 => "cancel" \in done)
        /\ at[a] \in {"toClose", "closing"} => prepared
        /\ at[a] = "closing" /\ step[a] > 1 => "pool" \in done
        /\ at[a] \in {"cleaning", "toResources", "resources"} => runtimeClosed

\* What is open is active or about to be closed by the holder of the lock.
ResourcesLast ==
  /\ \A a \in Actors : resourceLock = a <=> at[a] = "resources"
  /\ closingNow # {} => resourceLock # NoActor
  /\ resourceLock # NoActor => active = {}
  /\ Opened \subseteq active \cup closingNow
  /\ at["stopper"] = "awaiting" \/ (mode = "sync" /\ at["main"] = "ended") =>
        runtimeClosed /\ Opened = {}

LifecycleIInv ==
  /\ LifecycleTypeOK /\ LockHolders /\ StartedInOrder
  /\ NothingEarly /\ PhasesInOrder /\ ResourcesLast

\* What a step of an actor to another place changes.
LEMMA Moves ==
    ASSUME LifecycleTypeOK, NEW a \in Actors, NEW to, Goto(a, to)
    PROVE /\ at'[a] = to
          /\ to \in Places => at' \in [Actors -> Places]
          /\ at'["main"] = IF a = "main" THEN to ELSE at["main"]
          /\ at'["stopper"] = IF a = "stopper" THEN to ELSE at["stopper"]
          /\ \A b \in Actors : b # a => at'[b] = at[b]
BY DEF LifecycleTypeOK, Goto, Actors

\* The steps of the two phases have the expected names and order.
LEMMA StepsKnown ==
    ASSUME NEW k \in 1 .. 4
    PROVE /\ {PrepareSteps[k], CloseSteps[k]} \subseteq StepNames
          /\ PrepareSteps[k] \notin {"pool", "sessions"} /\ CloseSteps[k] # "cancel"
          /\ k = 1 => PrepareSteps[k] = "cancel" /\ CloseSteps[k] = "pool"
<1>1. k = 1 \/ k = 2 \/ k = 3 \/ k = 4
  OBVIOUS
<1> QED BY <1>1 DEF StepNames, PrepareSteps, CloseSteps

\* Only a run that got past its initialization is being shut down.
LEMMA Begun ==
    ASSUME LifecycleIInv, NEW a \in Actors,
           at[a] \notin {"new", "idle", "starting", "building", "raised", "aborted"}
    PROVE Past
BY DEF LifecycleIInv, NothingEarly, Past, Actors

\* Past the initialization, what was started stays active until the runtime is
\* closed.
LEMMA PastStays ==
    ASSUME StartedInOrder, Past, Past', entries' = entries,
           ~runtimeClosed' => ~runtimeClosed /\ active' = active
    PROVE StartedInOrder' /\ NothingEarly'
BY DEF StartedInOrder, NothingEarly, Past, Mounted

\* A step that leaves the resources alone keeps what is known of them.
LEMMA ResourcesStay ==
    ASSUME ResourcesLast, UNCHANGED <<mode, resourceState, active, resourceLock, closingNow>>,
           \A a \in Actors : at'[a] = "resources" <=> at[a] = "resources",
           at'["stopper"] = "awaiting" => at["stopper"] = "awaiting",
           mode = "sync" /\ at'["main"] = "ended" => at["main"] = "ended",
           runtimeClosed => runtimeClosed'
    PROVE ResourcesLast'
BY DEF ResourcesLast, Opened

\* What setting the step of an actor changes.
LEMMA Counts ==
    ASSUME LifecycleTypeOK, NEW a \in Actors, NEW k \in 1 .. 4, step' = [step EXCEPT ![a] = k]
    PROVE /\ step' \in [Actors -> 1 .. 4] /\ step'[a] = k
          /\ \A b \in Actors : b # a => step'[b] = step[b]
BY DEF LifecycleTypeOK

\* A failure stays within the bound.
LEMMA Fails == ASSUME LifecycleTypeOK, Failure PROVE faults' \in 0 .. MaxFailures
BY LifecycleAssumption DEF LifecycleTypeOK, Failure

\* However the engines end, start_engines goes on with its cleanup.
LEMMA EnginesEndKeeps ==
    ASSUME LifecycleIInv, at["main"] \in {"engines", "flushing"}, Goto("main", "toPrepare"),
           verdict' \in Verdicts, faults' \in 0 .. MaxFailures,
           UNCHANGED <<mode, resourceVars, step, inShutdown, phaseVars, handleVars>>
    PROVE LifecycleIInv'
<1>1. LifecycleTypeOK /\ LockHolders /\ StartedInOrder /\ NothingEarly /\ PhasesInOrder /\ ResourcesLast
  BY DEF LifecycleIInv
<1>2. UNCHANGED <<mode, entries, resourceState, active, resourceLock, closingNow, step, inShutdown,
                 shutdownLock, prepared, closeLock, runtimeClosed, done, pool, stopRequested,
                 waiting, waitLock, outcome>>
  BY DEF resourceVars, phaseVars, handleVars
<1>3. /\ at'["main"] = "toPrepare" /\ at' \in [Actors -> Places]
      /\ \A b \in Actors : b # "main" => at'[b] = at[b]
  BY <1>1, Moves DEF Places, Actors
<1>4. Past /\ Past'
  BY <1>3 DEF Past
<1>5. LifecycleTypeOK'
  BY <1>1, <1>2, <1>3 DEF LifecycleTypeOK
<1>6. LockHolders'
  BY <1>1, <1>2, <1>3 DEF LockHolders, Actors
<1>7. StartedInOrder' /\ NothingEarly'
  BY <1>1, <1>2, <1>4, PastStays
<1>8. PhasesInOrder'
  BY <1>1, <1>2, <1>3 DEF PhasesInOrder
<1>9. ResourcesLast'
  BY <1>1, <1>2, <1>3, ResourcesStay DEF Actors
<1> QED BY <1>5, <1>6, <1>7, <1>8, <1>9 DEF LifecycleIInv

\* An exception leaves a phase, gives up its lock and leaves the phase
\* incomplete.
LEMMA LeaveKeeps ==
    ASSUME LifecycleIInv, NEW a \in Actors, NEW ending \in {"failed", "cancelled"},
           at[a] \in {"toPrepare", "preparing", "toClose", "closing"}, Leave(a, ending),
           faults' \in 0 .. MaxFailures,
           UNCHANGED <<mode, resourceVars, step, prepared, runtimeClosed, done, pool, handleVars>>
    PROVE LifecycleIInv'
<1>1. LifecycleTypeOK /\ LockHolders /\ StartedInOrder /\ NothingEarly /\ PhasesInOrder /\ ResourcesLast
  BY DEF LifecycleIInv
<1>2. UNCHANGED <<mode, entries, resourceState, active, resourceLock, closingNow, step, prepared,
                 runtimeClosed, done, pool, stopRequested, waiting, waitLock, outcome>>
  BY DEF resourceVars, handleVars
<1>3. /\ at'[a] \in {"raised", "toPrepare"} /\ at' \in [Actors -> Places]
      /\ \A b \in Actors : b # a => at'[b] = at[b]
  BY <1>1, Moves DEF Leave, AfterEngines, Places
<1>4. Past /\ Past'
  BY <1>3, Begun DEF Past, Actors
<1>5. /\ shutdownLock' = IF shutdownLock = a THEN NoActor ELSE shutdownLock
      /\ closeLock' = IF closeLock = a THEN NoActor ELSE closeLock
      /\ inShutdown' \in [Actors -> BOOLEAN] /\ verdict' \in Verdicts
  BY <1>1 DEF Leave, LifecycleTypeOK, Verdicts
<1>6. LifecycleTypeOK'
  <2>1. \A b \in Actors : (shutdownLock' = b <=> at'[b] = "preparing") /\ (closeLock' = b <=> at'[b] = "closing")
    BY <1>1, <1>3, <1>5 DEF LifecycleTypeOK, Actors, NoActor
  <2> QED BY <1>1, <1>2, <1>3, <1>5, <2>1 DEF LifecycleTypeOK
<1>7. LockHolders'
  BY <1>1, <1>2, <1>3, <1>5 DEF LockHolders, Actors
<1>8. StartedInOrder' /\ NothingEarly'
  BY <1>1, <1>2, <1>4, PastStays
<1>9. PhasesInOrder'
  BY <1>1, <1>2, <1>3 DEF PhasesInOrder
<1>10. ResourcesLast'
  BY <1>1, <1>2, <1>3, ResourcesStay DEF Actors
<1> QED BY <1>6, <1>7, <1>8, <1>9, <1>10 DEF LifecycleIInv

\* Before the engines begin nothing is shut down, locked or being closed.
LEMMA NotYet ==
    ASSUME LifecycleIInv, ~Past
    PROVE /\ at["stopper"] \in {"idle", "raised"} /\ done = {} /\ ~prepared /\ ~runtimeClosed
          /\ resourceLock = NoActor /\ closingNow = {} /\ Opened \subseteq active
<1>1. LifecycleTypeOK /\ NothingEarly /\ PhasesInOrder /\ ResourcesLast
  BY DEF LifecycleIInv
<1>2. at["stopper"] \in {"idle", "raised"} /\ done = {} /\ ~prepared /\ ~runtimeClosed
  BY <1>1 DEF NothingEarly, PhasesInOrder
<1>3. resourceLock = NoActor
  BY <1>1, <1>2 DEF ResourcesLast, LifecycleTypeOK, Past, Actors
<1> QED BY <1>1, <1>2, <1>3 DEF ResourcesLast

\* A start that fails or is cancelled closes what it had started.
LEMMA AbortKeeps ==
    ASSUME LifecycleIInv, at["main"] = "starting", CloseEntries(active), active' = {},
           Goto("main", "aborted"), faults' \in 0 .. MaxFailures,
           UNCHANGED <<mode, entries, resourceLock, closingNow, step, inShutdown, phaseVars,
                       verdict, handleVars>>
    PROVE LifecycleIInv'
<1>1. LifecycleTypeOK /\ LockHolders /\ StartedInOrder /\ NothingEarly /\ PhasesInOrder /\ ResourcesLast
  BY DEF LifecycleIInv
<1>2. UNCHANGED <<mode, entries, resourceLock, closingNow, step, inShutdown, shutdownLock, prepared,
                 closeLock, runtimeClosed, done, pool, verdict, stopRequested, waiting, waitLock,
                 outcome>>
  BY DEF phaseVars, handleVars
<1>3. /\ at'["main"] = "aborted" /\ at' \in [Actors -> Places] /\ at'["stopper"] = at["stopper"]
      /\ \A b \in Actors : b # "main" => at'[b] = at[b]
  BY <1>1, Moves DEF Places, Actors
<1>4. ~Past /\ ~Past' /\ NoActor \notin Actors
  BY <1>3 DEF Past, Actors, NoActor
<1>5. /\ resourceState' \in [Names -> {"new", "open", "closed", "left"}]
      /\ Opened' = {}
  <2>1. \A n \in Names : IF n \in active THEN resourceState'[n] \in {"left", "closed"}
                         ELSE resourceState'[n] = resourceState[n]
    BY <1>1 DEF CloseEntries, LifecycleTypeOK
  <2>2. \E f : resourceState' = [n \in Names |-> f[n]]
    BY DEF CloseEntries
  <2>3. Opened \subseteq active
    BY <1>4, NotYet
  <2> QED BY <1>1, <2>1, <2>2, <2>3 DEF LifecycleTypeOK, Opened
<1>6. LifecycleTypeOK'
  BY <1>1, <1>2, <1>3, <1>5 DEF LifecycleTypeOK
<1>7. LockHolders'
  BY <1>1, <1>2, <1>3 DEF LockHolders
<1>8. StartedInOrder'
  BY <1>1, <1>3, <1>4 DEF StartedInOrder
<1>9. NothingEarly'
  BY <1>1, <1>2, <1>3, <1>4 DEF NothingEarly
<1>10. PhasesInOrder'
  BY <1>1, <1>2, <1>3 DEF PhasesInOrder
<1>11. ResourcesLast'
  BY <1>1, <1>3, <1>4, <1>5, NotYet DEF ResourcesLast
<1> QED BY <1>6, <1>7, <1>8, <1>9, <1>10, <1>11 DEF LifecycleIInv

\* What is registered is a list of known names.
LEMMA Registrations ==
    ASSUME NEW configured \in Configurations, NEW user \in UserLists
    PROVE Registered(configured, user) \in Seq(Names)
<1>1. Builtins \in Seq(Names) /\ user \in Seq(Names)
  BY LifecycleAssumption
<1>2. PICK n \in 0 .. Len(Builtins) : configured \in [1 .. n -> 1 .. Len(Builtins)]
  BY DEF Configurations
<1>3. [k \in DOMAIN configured |-> Builtins[configured[k]]] \in Seq(Names)
  <2>1. [k \in 1 .. n |-> Builtins[configured[k]]] \in [1 .. n -> Names] /\ n \in Nat
    BY <1>1, <1>2
  <2>2. DOMAIN configured = 1 .. n
    BY <1>2
  <2> QED BY <2>1, <2>2, SeqDef
<1> QED BY <1>1, <1>3 DEF Registered

\* The run is composed, or ends at a duplicate name.
LEMMA ComposeKeeps ==
    ASSUME LifecycleIInv, Compose
    PROVE LifecycleIInv'
<1>1. LifecycleTypeOK /\ LockHolders /\ StartedInOrder /\ NothingEarly /\ PhasesInOrder /\ ResourcesLast
  BY DEF LifecycleIInv
<1>2. /\ at["main"] = "new"
      /\ UNCHANGED <<mode, resourceState, active, resourceLock, closingNow, step, inShutdown,
                     shutdownLock, prepared, closeLock, runtimeClosed, done, pool, verdict,
                     stopRequested, waiting, waitLock, outcome, faults>>
  BY DEF Compose, phaseVars, handleVars
<1>3. PICK configured \in Configurations, user \in UserLists :
         \/ /\ Acceptable(Registered(configured, user))
            /\ entries' = Registered(configured, user) /\ Goto("main", "starting")
         \/ entries' = entries /\ Goto("main", "aborted")
  BY DEF Compose
<1>4. /\ entries' \in Seq(Names) /\ Acceptable(entries')
      /\ at' \in [Actors -> Places] /\ at'["stopper"] = at["stopper"]
      /\ at'["main"] \in {"starting", "aborted"} /\ (at'["main"] = "aborted" => entries' = entries)
      /\ \A b \in Actors : b # "main" => at'[b] = at[b]
  BY <1>1, <1>3, Moves, Registrations DEF LifecycleTypeOK, StartedInOrder,
         Places, Actors
<1>5. ~Past /\ ~Past' /\ active = {}
  BY <1>1, <1>2, <1>4 DEF Past, StartedInOrder
<1>6. LifecycleTypeOK'
  BY <1>1, <1>2, <1>4 DEF LifecycleTypeOK
<1>7. LockHolders'
  BY <1>1, <1>2, <1>4 DEF LockHolders
<1>8. StartedInOrder'
  <2>1. active' = {entries'[k] : k \in 1 .. 0} /\ 0 \in 0 .. Len(entries')
    BY <1>2, <1>4, <1>5
  <2>2. IsFiniteSet(active') /\ Cardinality(active') = 0
    BY <1>2, <1>5, FS_EmptySet
  <2> QED BY <1>4, <1>5, <2>1, <2>2 DEF StartedInOrder
<1>9. NothingEarly'
  BY <1>1, <1>2, <1>4, <1>5 DEF NothingEarly
<1>10. PhasesInOrder'
  BY <1>1, <1>2, <1>4 DEF PhasesInOrder
<1>11. ResourcesLast'
  BY <1>1, <1>2, <1>4 DEF ResourcesLast, Opened
<1> QED BY <1>6, <1>7, <1>8, <1>9, <1>10, <1>11 DEF LifecycleIInv

\* The next resource starts, in the order of registration, or all have started.
LEMMA StartResourceKeeps ==
    ASSUME LifecycleIInv, StartResource
    PROVE LifecycleIInv'
<1>1. LifecycleTypeOK /\ LockHolders /\ StartedInOrder /\ NothingEarly /\ PhasesInOrder /\ ResourcesLast
  BY DEF LifecycleIInv
<1>2. /\ at["main"] = "starting"
      /\ UNCHANGED <<mode, entries, resourceLock, closingNow, step, inShutdown, shutdownLock,
                     prepared, closeLock, runtimeClosed, done, pool, verdict, stopRequested,
                     waiting, waitLock, outcome, faults>>
  BY DEF StartResource, phaseVars, handleVars
<1>3. PICK m \in 0 .. Len(entries) :
         /\ active = {entries[k] : k \in 1 .. m}
         /\ IsFiniteSet(active) /\ Cardinality(active) = m
  BY <1>1, <1>2 DEF StartedInOrder
<1>4. entries \in Seq(Names) /\ Len(entries) \in Nat /\ m \in Nat
  BY <1>1, <1>3 DEF LifecycleTypeOK
<1>a. CASE m < Len(entries)
  <2> PICK n : n = entries[m + 1]
    OBVIOUS
  <2>1. /\ resourceState' = [resourceState EXCEPT ![n] = "open"]
        /\ active' = active \cup {n} /\ at' = at /\ n \in Names
    BY <1>3, <1>4, <1>a DEF StartResource
  <2>2. n \notin active
    BY <1>1, <1>3, <1>a DEF StartedInOrder, Acceptable
  <2>3. active' = {entries[k] : k \in 1 .. m + 1} /\ m + 1 \in 0 .. Len(entries)
    BY <1>3, <1>4, <1>a, <2>1
  <2>4. IsFiniteSet(active') /\ Cardinality(active') = m + 1
    BY <1>3, <2>1, <2>2, FS_AddElement
  <2>5. /\ resourceState' \in [Names -> {"new", "open", "closed", "left"}]
        /\ resourceState'[n] = "open"
        /\ \A k \in Names : k # n => resourceState'[k] = resourceState[k]
    BY <1>1, <2>1 DEF LifecycleTypeOK
  <2>6. LifecycleTypeOK'
    BY <1>1, <1>2, <2>1 DEF LifecycleTypeOK
  <2>7. StartedInOrder'
    BY <1>1, <1>2, <2>1, <2>3, <2>4 DEF StartedInOrder, Past
  <2>8. LockHolders' /\ NothingEarly' /\ PhasesInOrder'
    BY <1>1, <1>2, <2>1 DEF LockHolders, NothingEarly, PhasesInOrder, Past
  <2>9. ResourcesLast'
    <3>1. resourceLock = NoActor /\ at["stopper"] # "awaiting" /\ at["main"] # "ended" /\ NoActor \notin Actors
      BY <1>2, NotYet DEF Past, Actors, NoActor
    <3>2. Opened' \subseteq active' \cup closingNow'
      BY <1>1, <1>2, <2>1 DEF ResourcesLast, Opened
    <3> QED BY <1>1, <1>2, <2>1, <3>1, <3>2 DEF ResourcesLast
  <2> QED BY <2>6, <2>7, <2>8, <2>9 DEF LifecycleIInv
<1>b. CASE m = Len(entries)
  <2>1. Goto("main", "building") /\ UNCHANGED <<resourceState, active>>
    <3>1. Cardinality(active) = Len(entries)
      BY <1>3, <1>b
    <3>2. ~(Cardinality(active) < Len(entries))
      BY <1>4, <3>1
    <3> QED BY <3>2 DEF StartResource
  <2>2. /\ at'["main"] = "building" /\ at' \in [Actors -> Places] /\ at'["stopper"] = at["stopper"]
        /\ \A b \in Actors : b # "main" => at'[b] = at[b]
    BY <1>1, <2>1, Moves DEF Places, Actors
  <2>3. LifecycleTypeOK'
    BY <1>1, <1>2, <2>1, <2>2 DEF LifecycleTypeOK
  <2>4. StartedInOrder'
    <3>1. active = Mounted
      BY <1>3, <1>b DEF Mounted
    <3> QED BY <1>1, <1>2, <2>1, <2>2, <3>1 DEF StartedInOrder, Mounted
  <2>5. LockHolders' /\ NothingEarly' /\ PhasesInOrder'
    BY <1>1, <1>2, <2>2 DEF LockHolders, NothingEarly, PhasesInOrder, Past
  <2>6. ResourcesLast'
    BY <1>1, <1>2, <2>1, <2>2 DEF ResourcesLast, Opened
  <2> QED BY <2>3, <2>4, <2>5, <2>6 DEF LifecycleIInv
<1> QED BY <1>3, <1>4, <1>a, <1>b

\* A resource does not start.
LEMMA StartFailsKeeps ==
    ASSUME LifecycleIInv, StartFails
    PROVE LifecycleIInv'
<1>1. faults' \in 0 .. MaxFailures
  BY Fails DEF StartFails, LifecycleIInv
<1> QED BY <1>1, AbortKeeps DEF StartFails

\* The components are built with every resource active.
LEMMA BuildKeeps ==
    ASSUME LifecycleIInv, Build
    PROVE LifecycleIInv'
<1>1. LifecycleTypeOK /\ LockHolders /\ StartedInOrder /\ NothingEarly /\ PhasesInOrder /\ ResourcesLast
  BY DEF LifecycleIInv
<1>2. LifecycleTypeOK'
  BY <1>1 DEF LifecycleTypeOK, Places, Build, Goto, Actors, resourceVars,
         phaseVars, handleVars
<1>3. LockHolders'
  BY <1>1 DEF LockHolders, Build, Goto, phaseVars, handleVars
<1>4. StartedInOrder'
  BY <1>1 DEF StartedInOrder, Mounted, Build, Goto, resourceVars
<1>5. NothingEarly'
  BY <1>1 DEF NothingEarly, Past, Build, Goto, phaseVars
<1>6. PhasesInOrder'
  BY <1>1 DEF PhasesInOrder, Build, Goto, phaseVars
<1>7. ResourcesLast'
  BY <1>1 DEF ResourcesLast, Opened, Build, Goto, resourceVars, phaseVars
<1> QED BY <1>2, <1>3, <1>4, <1>5, <1>6, <1>7 DEF LifecycleIInv

\* A component cannot be built: the resources stay open.
LEMMA BuildFailsKeeps ==
    ASSUME LifecycleIInv, BuildFails
    PROVE LifecycleIInv'
<1>1. LifecycleTypeOK /\ LockHolders /\ StartedInOrder /\ NothingEarly /\ PhasesInOrder /\ ResourcesLast
  BY DEF LifecycleIInv
<1>2. LifecycleTypeOK'
  BY <1>1, Fails DEF LifecycleTypeOK, Places, BuildFails, Goto,
         resourceVars, phaseVars, handleVars, Actors
<1>3. LockHolders'
  BY <1>1 DEF LockHolders, BuildFails, Goto, phaseVars, handleVars
<1>4. StartedInOrder'
  BY <1>1 DEF StartedInOrder, Mounted, BuildFails, Goto, resourceVars
<1>5. NothingEarly'
  BY <1>1 DEF NothingEarly, Past, BuildFails, Goto, phaseVars
<1>6. PhasesInOrder'
  BY <1>1 DEF PhasesInOrder, BuildFails, Goto, phaseVars
<1>7. ResourcesLast'
  BY <1>1 DEF ResourcesLast, Opened, BuildFails, Goto, resourceVars, phaseVars
<1> QED BY <1>2, <1>3, <1>4, <1>5, <1>6, <1>7 DEF LifecycleIInv

\* The pool is made by its first call; one made past its shutdown is late.
LEMMA UsePoolKeeps ==
    ASSUME LifecycleIInv, UsePool
    PROVE LifecycleIInv'
<1>1. LifecycleTypeOK /\ LockHolders /\ StartedInOrder /\ NothingEarly /\ PhasesInOrder /\ ResourcesLast
  BY DEF LifecycleIInv
<1>2. LifecycleTypeOK'
  BY <1>1 DEF LifecycleTypeOK, UsePool, resourceVars, handleVars
<1>3. LockHolders'
  BY <1>1 DEF LockHolders, UsePool, handleVars
<1>4. StartedInOrder'
  BY <1>1 DEF StartedInOrder, Past, Mounted, UsePool, resourceVars
<1>5. NothingEarly'
  BY DEF NothingEarly, Past, UsePool
<1>6. PhasesInOrder'
  BY <1>1 DEF PhasesInOrder, UsePool
<1>7. ResourcesLast'
  BY <1>1 DEF ResourcesLast, Opened, UsePool, resourceVars
<1> QED BY <1>2, <1>3, <1>4, <1>5, <1>6, <1>7 DEF LifecycleIInv

\* The engines complete and the pipelines are flushed.
LEMMA EnginesCompleteKeeps ==
    ASSUME LifecycleIInv, EnginesComplete
    PROVE LifecycleIInv'
<1>1. LifecycleTypeOK /\ LockHolders /\ StartedInOrder /\ NothingEarly /\ PhasesInOrder /\ ResourcesLast
  BY DEF LifecycleIInv
<1>2. LifecycleTypeOK'
  BY <1>1 DEF LifecycleTypeOK, Places, EnginesComplete, Goto, Actors,
         resourceVars, phaseVars, handleVars
<1>3. LockHolders'
  BY <1>1 DEF LockHolders, EnginesComplete, Goto, phaseVars, handleVars
<1>4. StartedInOrder'
  BY <1>1 DEF StartedInOrder, Past, Mounted, EnginesComplete, Goto,
         resourceVars, phaseVars
<1>5. NothingEarly'
  BY DEF NothingEarly, Past, EnginesComplete, Goto
<1>6. PhasesInOrder'
  BY <1>1 DEF PhasesInOrder, EnginesComplete, Goto, phaseVars
<1>7. ResourcesLast'
  BY <1>1 DEF ResourcesLast, Opened, EnginesComplete, Goto, resourceVars,
         phaseVars
<1> QED BY <1>2, <1>3, <1>4, <1>5, <1>6, <1>7 DEF LifecycleIInv

\* The run completed.
LEMMA EnginesFlushedKeeps ==
    ASSUME LifecycleIInv, EnginesFlushed
    PROVE LifecycleIInv'
<1>1. faults' \in 0 .. MaxFailures
  BY DEF EnginesFlushed, LifecycleIInv, LifecycleTypeOK
<1> QED BY <1>1, EnginesEndKeeps DEF EnginesFlushed, Verdicts

\* An engine raises or is cancelled.
LEMMA EnginesFailKeeps ==
    ASSUME LifecycleIInv, EnginesFail
    PROVE LifecycleIInv'
<1>1. faults' \in 0 .. MaxFailures
  BY Fails DEF EnginesFail, LifecycleIInv, LifecycleTypeOK
<1> QED BY <1>1, EnginesEndKeeps DEF EnginesFail, Verdicts

\* The cancelled scheduler loops end the engines.
LEMMA EnginesCancelledKeeps ==
    ASSUME LifecycleIInv, EnginesCancelled
    PROVE LifecycleIInv'
<1>1. faults' \in 0 .. MaxFailures
  BY DEF EnginesCancelled, LifecycleIInv, LifecycleTypeOK
<1> QED BY <1>1, EnginesEndKeeps DEF EnginesCancelled, Verdicts

\* _prepare_shutdown is entered under its lock, or was run before.
LEMMA EnterPrepareKeeps ==
    ASSUME LifecycleIInv, NEW a \in Actors, EnterPrepare(a)
    PROVE LifecycleIInv'
<1>1. LifecycleTypeOK /\ LockHolders /\ StartedInOrder /\ NothingEarly /\ PhasesInOrder /\ ResourcesLast
  BY DEF LifecycleIInv
<1>2. /\ at[a] = "toPrepare" /\ shutdownLock = NoActor
      /\ UNCHANGED <<mode, entries, resourceState, active, resourceLock, closingNow,
                     inShutdown, prepared, closeLock, runtimeClosed, pool, verdict,
                     stopRequested, waiting, waitLock, outcome, faults>>
  BY DEF EnterPrepare, resourceVars, phaseVars, handleVars
<1>3. \/ prepared /\ at'[a] = "toClose" /\ UNCHANGED <<shutdownLock, done, step>>
      \/ /\ ~prepared /\ at'[a] = "preparing" /\ shutdownLock' = a
         /\ done' = done \cup {"freeze"} /\ step'[a] = 1
  BY <1>1, Moves, Counts DEF EnterPrepare
<1>4. /\ at' \in [Actors -> Places] /\ step' \in [Actors -> 1 .. 4]
      /\ \A b \in Actors : b # a => at'[b] = at[b] /\ step'[b] = step[b]
  BY <1>1, Moves DEF EnterPrepare, Places, LifecycleTypeOK
<1>5. Past /\ Past'
  BY <1>2, <1>3, <1>4, Begun DEF Past, Actors
<1>6. LifecycleTypeOK'
  BY <1>1, <1>2, <1>3, <1>4 DEF LifecycleTypeOK, Actors, NoActor, StepNames
<1>7. LockHolders'
  BY <1>1, <1>2, <1>3, <1>4 DEF LockHolders, Actors
<1>8. StartedInOrder'
  BY <1>1, <1>2, <1>5, PastStays
<1>9. NothingEarly'
  BY <1>1, <1>2, <1>5, PastStays
<1>10. PhasesInOrder'
  BY <1>1, <1>2, <1>3, <1>4 DEF PhasesInOrder
<1>11. ResourcesLast'
  BY <1>1, <1>2, <1>3, <1>4, ResourcesStay DEF Actors
<1> QED BY <1>6, <1>7, <1>8, <1>9, <1>10, <1>11 DEF LifecycleIInv

\* _prepare_shutdown is complete with its last step.
LEMMA PrepareStepKeeps ==
    ASSUME LifecycleIInv, NEW a \in Actors, PrepareStep(a)
    PROVE LifecycleIInv'
<1>1. LifecycleTypeOK /\ LockHolders /\ StartedInOrder /\ NothingEarly /\ PhasesInOrder /\ ResourcesLast
  BY DEF LifecycleIInv
<1>2. /\ at[a] = "preparing" /\ step[a] \in 1 .. 4
      /\ UNCHANGED <<mode, entries, resourceState, active, resourceLock, closingNow,
                     inShutdown, closeLock, runtimeClosed, pool, verdict, stopRequested,
                     waiting, waitLock, outcome, faults>>
  BY <1>1 DEF PrepareStep, resourceVars, handleVars, LifecycleTypeOK
<1>3. /\ done' = done \cup {PrepareSteps[step[a]]}
      /\ \/ /\ step[a] = 4 /\ prepared' = TRUE /\ shutdownLock' = NoActor
            /\ at'[a] = "toClose" /\ step' = step
         \/ /\ step[a] # 4 /\ UNCHANGED <<prepared, shutdownLock, at>>
            /\ step'[a] = step[a] + 1
  BY <1>1, Moves, Counts DEF PrepareStep, PrepareSteps
<1>4. /\ at' \in [Actors -> Places] /\ step' \in [Actors -> 1 .. 4]
      /\ \A b \in Actors : b # a => at'[b] = at[b] /\ step'[b] = step[b]
  BY <1>1, Moves DEF PrepareStep, Places, LifecycleTypeOK, PrepareSteps
<1>5. Past /\ Past'
  BY <1>2, <1>3, <1>4, Begun DEF Past, Actors
<1>6. LifecycleTypeOK'
  <2>1. done' \subseteq StepNames
    BY <1>1, <1>3, StepsKnown DEF LifecycleTypeOK
  <2>2. \A b \in Actors : (shutdownLock' = b <=> at'[b] = "preparing") /\ (closeLock' = b <=> at'[b] = "closing")
    BY <1>1, <1>2, <1>3, <1>4 DEF LifecycleTypeOK, Actors, NoActor
  <2>3. prepared' \in BOOLEAN /\ runtimeClosed' \in BOOLEAN /\ pool' \in {"none", "started", "closed", "late"}
    BY <1>1, <1>2, <1>3 DEF LifecycleTypeOK
  <2> QED BY <1>1, <1>2, <1>4, <2>1, <2>2, <2>3 DEF LifecycleTypeOK
<1>7. LockHolders'
  BY <1>1, <1>2, <1>3, <1>4 DEF LockHolders, Actors
<1>8. StartedInOrder'
  BY <1>1, <1>2, <1>5, PastStays
<1>9. NothingEarly'
  BY <1>1, <1>2, <1>5, PastStays
<1>10. PhasesInOrder'
  BY <1>1, <1>2, <1>3, <1>4, StepsKnown DEF PhasesInOrder, LifecycleTypeOK
<1>11. ResourcesLast'
  BY <1>1, <1>2, <1>3, <1>4, ResourcesStay DEF Actors
<1> QED BY <1>6, <1>7, <1>8, <1>9, <1>10, <1>11 DEF LifecycleIInv

\* _close_runtime_state is entered under its lock, or was run before.
LEMMA EnterCloseKeeps ==
    ASSUME LifecycleIInv, NEW a \in Actors, EnterClose(a)
    PROVE LifecycleIInv'
<1>1. LifecycleTypeOK /\ LockHolders /\ StartedInOrder /\ NothingEarly /\ PhasesInOrder /\ ResourcesLast
  BY DEF LifecycleIInv
<1>2. /\ at[a] = "toClose" /\ closeLock = NoActor
      /\ UNCHANGED <<mode, entries, resourceState, active, resourceLock, closingNow,
                     shutdownLock, prepared, runtimeClosed, done, pool, verdict,
                     stopRequested, waiting, waitLock, outcome, faults>>
  BY DEF EnterClose, resourceVars, phaseVars, handleVars
<1>3. \/ /\ runtimeClosed /\ at'[a] \in {"cleaning", "toPrepare", "ended"} /\ UNCHANGED <<closeLock, step>>
         /\ at'[a] = "ended" => mode = "handle"
      \/ /\ ~runtimeClosed /\ at'[a] = "closing" /\ closeLock' = a
         /\ step'[a] = 1 /\ inShutdown' = inShutdown
  BY <1>1, Moves DEF EnterClose, AfterEngines, LifecycleTypeOK
<1>4. /\ at' \in [Actors -> Places] /\ step' \in [Actors -> 1 .. 4]
      /\ \A b \in Actors : b # a => at'[b] = at[b] /\ step'[b] = step[b]
  BY <1>1, Moves DEF EnterClose, Places, AfterEngines, LifecycleTypeOK
<1>5. Past /\ Past'
  BY <1>2, <1>3, <1>4, Begun DEF Past, Actors
<1>6. inShutdown' \in [Actors -> BOOLEAN]
  BY <1>1 DEF EnterClose, Leave, LifecycleTypeOK
<1>7. LifecycleTypeOK'
  <2>1. done' \subseteq StepNames
    BY <1>1, <1>2, <1>3 DEF LifecycleTypeOK
  <2>2. \A b \in Actors : (shutdownLock' = b <=> at'[b] = "preparing") /\ (closeLock' = b <=> at'[b] = "closing")
    BY <1>1, <1>2, <1>3, <1>4 DEF LifecycleTypeOK, Actors, NoActor
  <2> QED BY <1>1, <1>2, <1>4, <1>6, <2>2 DEF LifecycleTypeOK
<1>8. LockHolders'
  BY <1>1, <1>2, <1>3, <1>4 DEF LockHolders, Actors
<1>9. StartedInOrder'
  BY <1>1, <1>2, <1>5, PastStays
<1>10. NothingEarly'
  BY <1>1, <1>2, <1>5, PastStays
<1>11. PhasesInOrder'
  BY <1>1, <1>2, <1>3, <1>4 DEF PhasesInOrder
<1>12. ResourcesLast'
  BY <1>1, <1>2, <1>3, <1>4, ResourcesStay DEF Actors
<1> QED BY <1>7, <1>8, <1>9, <1>10, <1>11, <1>12 DEF LifecycleIInv

\* _close_runtime_state closes the pool first and is complete with its last
\* step.
LEMMA CloseStepKeeps ==
    ASSUME LifecycleIInv, NEW a \in Actors, CloseStep(a)
    PROVE LifecycleIInv'
<1>1. LifecycleTypeOK /\ LockHolders /\ StartedInOrder /\ NothingEarly /\ PhasesInOrder /\ ResourcesLast
  BY DEF LifecycleIInv
<1>2. /\ at[a] = "closing" /\ step[a] \in 1 .. 4
      /\ UNCHANGED <<mode, entries, resourceState, active, resourceLock, closingNow,
                     shutdownLock, prepared, verdict, stopRequested, waiting, waitLock,
                     outcome, faults>>
  BY <1>1 DEF CloseStep, resourceVars, handleVars, LifecycleTypeOK
<1>3. /\ done' = done \cup {CloseSteps[step[a]]} /\ pool' = PoolAfter(CloseSteps[step[a]])
      /\ \/ /\ step[a] = 4 /\ runtimeClosed' = TRUE /\ closeLock' = NoActor /\ step' = step
            /\ at'[a] \in {"cleaning", "toPrepare", "ended"} /\ (at'[a] = "ended" => mode = "handle")
         \/ /\ step[a] # 4 /\ UNCHANGED <<runtimeClosed, closeLock, at, inShutdown>>
            /\ step'[a] = step[a] + 1
  BY <1>1, Moves DEF CloseStep, AfterEngines, CloseSteps, LifecycleTypeOK
<1>4. /\ at' \in [Actors -> Places] /\ step' \in [Actors -> 1 .. 4]
      /\ \A b \in Actors : b # a => at'[b] = at[b] /\ step'[b] = step[b]
  BY <1>1, <1>2, Moves DEF CloseStep, Places, AfterEngines, CloseSteps,
         LifecycleTypeOK
<1>5. Past /\ Past'
  BY <1>2, <1>3, <1>4, Begun DEF Past, Actors
<1>6. inShutdown' \in [Actors -> BOOLEAN]
  BY <1>1 DEF CloseStep, Leave, LifecycleTypeOK
<1>7. LifecycleTypeOK'
  <2>1. done' \subseteq StepNames
    BY <1>1, <1>3, StepsKnown DEF LifecycleTypeOK
  <2>2. \A b \in Actors : (shutdownLock' = b <=> at'[b] = "preparing") /\ (closeLock' = b <=> at'[b] = "closing")
    BY <1>1, <1>2, <1>3, <1>4 DEF LifecycleTypeOK, Actors, NoActor
  <2>3. prepared' \in BOOLEAN /\ runtimeClosed' \in BOOLEAN /\ pool' \in {"none", "started", "closed", "late"}
    BY <1>1, <1>2, <1>3 DEF LifecycleTypeOK, PoolAfter
  <2> QED BY <1>1, <1>2, <1>4, <1>6, <2>1, <2>2, <2>3 DEF LifecycleTypeOK
<1>8. LockHolders'
  BY <1>1, <1>2, <1>3, <1>4 DEF LockHolders, Actors
<1>9. StartedInOrder'
  BY <1>1, <1>2, <1>3, <1>5, PastStays
<1>10. NothingEarly'
  BY <1>1, <1>2, <1>3, <1>5, PastStays
<1>11. PhasesInOrder'
  BY <1>1, <1>2, <1>3, <1>4, StepsKnown DEF PhasesInOrder, PoolAfter
<1>12. ResourcesLast'
  BY <1>1, <1>2, <1>3, <1>4, ResourcesStay DEF Actors
<1> QED BY <1>7, <1>8, <1>9, <1>10, <1>11, <1>12 DEF LifecycleIInv

\* A step of a phase raises.
LEMMA StepRaisesKeeps ==
    ASSUME LifecycleIInv, NEW a \in Actors, StepRaises(a)
    PROVE LifecycleIInv'
<1>1. faults' \in 0 .. MaxFailures
  BY Fails DEF StepRaises, LifecycleIInv
<1> QED BY <1>1, LeaveKeeps DEF StepRaises

\* The tasks are cleaned up again before the resources.
LEMMA CleanAgainKeeps ==
    ASSUME LifecycleIInv, NEW a \in Actors, CleanAgain(a)
    PROVE LifecycleIInv'
<1>1. LifecycleTypeOK /\ LockHolders /\ StartedInOrder /\ NothingEarly /\ PhasesInOrder /\ ResourcesLast
  BY DEF LifecycleIInv
<1>2. at[a] = "cleaning"
      /\ UNCHANGED <<mode, entries, resourceState, active, resourceLock, closingNow, step,
                     inShutdown, shutdownLock, prepared, closeLock, runtimeClosed, done,
                     pool, verdict, stopRequested, waiting, waitLock, outcome, faults>>
  BY DEF CleanAgain, resourceVars, phaseVars, handleVars
<1>3. at'[a] = "toResources"
  BY <1>1, Moves DEF CleanAgain
<1>4. at' \in [Actors -> Places] /\ \A b \in Actors : b # a => at'[b] = at[b]
  BY <1>1, Moves DEF CleanAgain, Places
<1>5. Past /\ Past'
  BY <1>2, <1>3, <1>4, Begun DEF Past, Actors
<1>6. LifecycleTypeOK'
  BY <1>1, <1>2, <1>3, <1>4 DEF LifecycleTypeOK
<1>7. LockHolders'
  BY <1>1, <1>2, <1>4 DEF LockHolders, Actors
<1>8. StartedInOrder'
  BY <1>1, <1>2, <1>5, PastStays
<1>9. NothingEarly'
  BY <1>1, <1>2, <1>5, PastStays
<1>10. PhasesInOrder'
  BY <1>1, <1>2, <1>3, <1>4 DEF PhasesInOrder
<1>11. ResourcesLast'
  BY <1>1, <1>2, <1>3, <1>4, ResourcesStay DEF Actors
<1> QED BY <1>6, <1>7, <1>8, <1>9, <1>10, <1>11 DEF LifecycleIInv

\* ResourceService.close takes what is active, under its lock.
LEMMA CloseResourcesKeeps ==
    ASSUME LifecycleIInv, NEW a \in Actors, CloseResources(a)
    PROVE LifecycleIInv'
<1>1. LifecycleTypeOK /\ LockHolders /\ StartedInOrder /\ NothingEarly /\ PhasesInOrder /\ ResourcesLast
  BY DEF LifecycleIInv
<1>2. /\ at[a] = "toResources" /\ resourceLock = NoActor
      /\ UNCHANGED <<mode, entries, resourceState, step, inShutdown, shutdownLock,
                     prepared, closeLock, runtimeClosed, done, pool, verdict,
                     stopRequested, waiting, waitLock, outcome, faults>>
  BY DEF CloseResources, resourceVars, phaseVars, handleVars
<1>3. /\ at'[a] = "resources" /\ resourceLock' = a
      /\ closingNow' = active /\ active' = {}
  BY <1>1, Moves DEF CloseResources
<1>4. at' \in [Actors -> Places] /\ \A b \in Actors : b # a => at'[b] = at[b]
  BY <1>1, Moves DEF CloseResources, Places
<1>5. Past /\ Past'
  BY <1>2, <1>3, <1>4, Begun DEF Past, Actors
<1>6. LifecycleTypeOK'
  BY <1>1, <1>2, <1>3, <1>4 DEF LifecycleTypeOK
<1>7. LockHolders'
  BY <1>1, <1>2, <1>4 DEF LockHolders, Actors
<1>8. StartedInOrder'
  BY <1>1, <1>2, <1>5, PastStays DEF PhasesInOrder
<1>9. NothingEarly'
  BY <1>1, <1>2, <1>5, PastStays DEF PhasesInOrder
<1>10. PhasesInOrder'
  BY <1>1, <1>2, <1>3, <1>4 DEF PhasesInOrder
<1>11. ResourcesLast'
  BY <1>1, <1>2, <1>3, <1>4 DEF ResourcesLast, Opened, Actors, NoActor
<1> QED BY <1>6, <1>7, <1>8, <1>9, <1>10, <1>11 DEF LifecycleIInv

\* What was taken is closed, or left when its close raised.
LEMMA ResourcesClosedKeeps ==
    ASSUME LifecycleIInv, NEW a \in Actors, ResourcesClosed(a)
    PROVE LifecycleIInv'
<1>1. LifecycleTypeOK /\ LockHolders /\ StartedInOrder /\ NothingEarly /\ PhasesInOrder /\ ResourcesLast
  BY DEF LifecycleIInv
<1>2. at[a] = "resources"
      /\ UNCHANGED <<mode, entries, active, step, inShutdown, shutdownLock, prepared,
                     closeLock, runtimeClosed, done, pool, verdict, stopRequested, waiting,
                     waitLock, outcome, faults>>
  BY DEF ResourcesClosed, resourceVars, phaseVars, handleVars
<1>3. /\ at'[a] = (IF a = "stopper" THEN "awaiting" ELSE "ended")
      /\ resourceLock' = NoActor /\ closingNow' = {}
      /\ resourceState' \in [Names -> {"new", "open", "closed", "left"}]
      /\ \A n \in Names : IF n \in closingNow THEN resourceState'[n] # "open" ELSE resourceState'[n] = resourceState[n]
  BY <1>1, Moves DEF ResourcesClosed, AfterShutdown, CloseEntries,
         LifecycleTypeOK
<1>4. at' \in [Actors -> Places] /\ \A b \in Actors : b # a => at'[b] = at[b]
  BY <1>1, Moves DEF ResourcesClosed, Places, AfterShutdown
<1>5. Past /\ Past'
  BY <1>2, <1>3, <1>4, Begun DEF Past, Actors
<1>6. LifecycleTypeOK'
  <2>1. \A b \in Actors : (shutdownLock' = b <=> at'[b] = "preparing") /\ (closeLock' = b <=> at'[b] = "closing")
    BY <1>1, <1>2, <1>3, <1>4 DEF LifecycleTypeOK
  <2>2. active = {}
    BY <1>1, <1>2 DEF ResourcesLast, Actors, NoActor
  <2> QED BY <1>1, <1>2, <1>3, <1>4, <2>2 DEF LifecycleTypeOK
<1>7. LockHolders'
  BY <1>1, <1>2, <1>4 DEF LockHolders, Actors
<1>8. StartedInOrder'
  BY <1>1, <1>2, <1>5, PastStays
<1>9. NothingEarly'
  BY <1>1, <1>2, <1>5, PastStays
<1>10. PhasesInOrder'
  BY <1>1, <1>2, <1>3, <1>4 DEF PhasesInOrder
<1>11. ResourcesLast'
  BY <1>1, <1>2, <1>3, <1>4 DEF ResourcesLast, PhasesInOrder, Opened, Actors,
         NoActor
<1> QED BY <1>6, <1>7, <1>8, <1>9, <1>10, <1>11 DEF LifecycleIInv

\* Ctrl+C or stop() begins a shutdown of its own.
LEMMA RequestStopKeeps ==
    ASSUME LifecycleIInv, RequestStop
    PROVE LifecycleIInv'
<1>1. LifecycleTypeOK /\ LockHolders /\ StartedInOrder /\ NothingEarly /\ PhasesInOrder /\ ResourcesLast
  BY DEF LifecycleIInv
<1>2. /\ at["stopper"] = "idle" /\ stopRequested' = TRUE
      /\ UNCHANGED <<mode, entries, resourceState, active, resourceLock, closingNow, step, inShutdown,
                     shutdownLock, prepared, closeLock, runtimeClosed, done, pool, verdict,
                     waiting, waitLock, outcome, faults>>
  BY DEF RequestStop, resourceVars, phaseVars
<1>3. /\ at'["stopper"] = "raised" \/ (Past /\ at'["stopper"] = "toPrepare")
      /\ at' \in [Actors -> Places] /\ at'["main"] = at["main"]
      /\ \A b \in Actors : b # "stopper" => at'[b] = at[b]
  BY <1>1, Moves DEF RequestStop, Past, Places, Actors
<1>4. LifecycleTypeOK'
  BY <1>1, <1>2, <1>3 DEF LifecycleTypeOK
<1>5. LockHolders'
  BY <1>1, <1>2, <1>3 DEF LockHolders
<1>6. StartedInOrder'
  BY <1>1, <1>2, <1>3 DEF StartedInOrder, Past, Mounted
<1>7. NothingEarly'
  BY <1>1, <1>2, <1>3 DEF NothingEarly, Past
<1>8. PhasesInOrder'
  BY <1>1, <1>2, <1>3 DEF PhasesInOrder
<1>9. ResourcesLast'
  BY <1>1, <1>2, <1>3, ResourcesStay
<1> QED BY <1>4, <1>5, <1>6, <1>7, <1>8, <1>9 DEF LifecycleIInv

\* A cancelled main closes the resources it holds the lock for.
LEMMA CancelClosingKeeps ==
    ASSUME LifecycleIInv, at["main"] \in {"cleaning", "toResources", "resources"},
           CloseEntries(IF resourceLock = "main" THEN closingNow ELSE {}),
           closingNow' = IF resourceLock = "main" THEN {} ELSE closingNow,
           resourceLock' = IF resourceLock = "main" THEN NoActor ELSE resourceLock,
           Goto("main", "raised"), faults' \in 0 .. MaxFailures,
           UNCHANGED <<mode, entries, active, step, inShutdown, phaseVars, verdict, handleVars>>
    PROVE LifecycleIInv'
<1>1. LifecycleTypeOK /\ LockHolders /\ StartedInOrder /\ NothingEarly /\ PhasesInOrder /\ ResourcesLast
  BY DEF LifecycleIInv
<1>2. UNCHANGED <<mode, entries, active, step, inShutdown, shutdownLock, prepared, closeLock,
                 runtimeClosed, done, pool, verdict, stopRequested, waiting, waitLock, outcome>>
  BY DEF phaseVars, handleVars
<1>3. /\ at'["main"] = "raised" /\ at' \in [Actors -> Places] /\ at'["stopper"] = at["stopper"]
      /\ \A b \in Actors : b # "main" => at'[b] = at[b]
  BY <1>1, Moves DEF Places, Actors
<1>4. Past /\ Past'
  BY <1>3 DEF Past
<1> PICK set : set = IF resourceLock = "main" THEN closingNow ELSE {}
  OBVIOUS
<1>5. /\ resourceState' \in [Names -> {"new", "open", "closed", "left"}]
      /\ \A n \in Names : IF n \in set THEN resourceState'[n] # "open"
                          ELSE resourceState'[n] = resourceState[n]
  <2>1. CloseEntries(set)
    OBVIOUS
  <2> QED BY <1>1, <2>1 DEF CloseEntries, LifecycleTypeOK
<1>6. closingNow' = closingNow \ set /\ (set # {} => active = {})
  BY <1>1 DEF ResourcesLast, NoActor
<1>7. LifecycleTypeOK'
  <2>1. active \cap set = {}
    BY <1>6
  <2>2. closingNow' \subseteq Names /\ resourceLock' \in Actors \cup {NoActor}
    BY <1>1, <1>6 DEF LifecycleTypeOK
  <2> QED BY <1>1, <1>2, <1>3, <1>5, <2>1 DEF LifecycleTypeOK
<1>8. LockHolders'
  BY <1>1, <1>2, <1>3 DEF LockHolders
<1>9. StartedInOrder' /\ NothingEarly'
  BY <1>1, <1>2, <1>4, PastStays
<1>10. PhasesInOrder'
  BY <1>1, <1>2, <1>3 DEF PhasesInOrder
<1>11. ResourcesLast'
  <2>1. Opened' \subseteq Opened /\ Opened' \subseteq active' \cup closingNow'
    BY <1>1, <1>5 DEF ResourcesLast, Opened
  <2> QED BY <1>1, <1>2, <1>3, <2>1 DEF ResourcesLast, Actors, NoActor
<1> QED BY <1>7, <1>8, <1>9, <1>10, <1>11 DEF LifecycleIInv

\* main is cancelled wherever it is.
LEMMA CancelMainKeeps ==
    ASSUME LifecycleIInv, CancelMain
    PROVE LifecycleIInv'
<1>1. faults' \in 0 .. MaxFailures
  BY Fails DEF CancelMain, LifecycleIInv, LifecycleTypeOK
<1>2. UNCHANGED <<mode, entries, step, prepared, runtimeClosed, done, pool, handleVars>>
  BY DEF CancelMain
<1>a. CASE /\ at["main"] \in {"engines", "flushing"}
           /\ Goto("main", "toPrepare") /\ verdict' = "cancelled"
           /\ UNCHANGED <<resourceState, active, resourceLock, closingNow, shutdownLock,
                          closeLock, inShutdown>>
  BY <1>1, <1>2, <1>a, EnginesEndKeeps DEF Verdicts, resourceVars, phaseVars
<1>b. CASE /\ at["main"] \in {"toPrepare", "preparing", "toClose", "closing"}
           /\ Leave("main", "cancelled")
           /\ UNCHANGED <<resourceState, active, resourceLock, closingNow>>
  BY <1>1, <1>2, <1>b, LeaveKeeps DEF resourceVars, Actors
<1>c. CASE /\ at["main"] \in {"cleaning", "toResources", "resources"}
           /\ CloseEntries(IF resourceLock = "main" THEN closingNow ELSE {})
           /\ closingNow' = IF resourceLock = "main" THEN {} ELSE closingNow
           /\ resourceLock' = IF resourceLock = "main" THEN NoActor ELSE resourceLock
           /\ Goto("main", "raised")
           /\ UNCHANGED <<active, shutdownLock, closeLock, inShutdown, verdict>>
  BY <1>1, <1>2, <1>c, CancelClosingKeeps DEF phaseVars
<1>d. CASE /\ at["main"] = "starting"
           /\ CloseEntries(active) /\ active' = {}
           /\ Goto("main", "aborted")
           /\ UNCHANGED <<resourceLock, closingNow, shutdownLock, closeLock,
                          inShutdown, verdict>>
  BY <1>1, <1>2, <1>d, AbortKeeps DEF phaseVars
<1> QED BY <1>a, <1>b, <1>c, <1>d DEF CancelMain, CancelledMain

\* The shutdown after Ctrl+C ends with main.
LEMMA SyncStoppedKeeps ==
    ASSUME LifecycleIInv, SyncStopped
    PROVE LifecycleIInv'
<1>1. LifecycleTypeOK /\ LockHolders /\ StartedInOrder /\ NothingEarly /\ PhasesInOrder /\ ResourcesLast
  BY DEF LifecycleIInv
<1>2. LifecycleTypeOK'
  BY <1>1 DEF LifecycleTypeOK, Places, SyncStopped, Goto, Actors,
         resourceVars, phaseVars, handleVars
<1>3. LockHolders'
  BY <1>1 DEF LockHolders, SyncStopped, phaseVars, handleVars
<1>4. StartedInOrder'
  BY <1>1 DEF StartedInOrder, Past, Mounted, SyncStopped, Goto,
         resourceVars, phaseVars
<1>5. NothingEarly'
  BY <1>1 DEF NothingEarly, Past, SyncStopped, Goto
<1>6. PhasesInOrder'
  BY <1>1 DEF PhasesInOrder, SyncStopped, Goto, phaseVars
<1>7. ResourcesLast'
  BY <1>1 DEF ResourcesLast, Opened, SyncStopped, Goto, resourceVars, phaseVars
<1> QED BY <1>2, <1>3, <1>4, <1>5, <1>6, <1>7 DEF LifecycleIInv

\* A waiter asks a handle for the end of the run.
LEMMA StartWaitingKeeps ==
    ASSUME LifecycleIInv, StartWaiting
    PROVE LifecycleIInv'
<1>1. LifecycleTypeOK /\ LockHolders /\ StartedInOrder /\ NothingEarly /\ PhasesInOrder /\ ResourcesLast
  BY DEF LifecycleIInv
<1>2. LifecycleTypeOK'
  BY <1>1 DEF LifecycleTypeOK, StartWaiting, resourceVars, phaseVars
<1>3. LockHolders'
  BY <1>1 DEF LockHolders, StartWaiting, phaseVars
<1>4. StartedInOrder'
  BY <1>1 DEF StartedInOrder, Past, Mounted, StartWaiting, resourceVars,
         phaseVars
<1>5. NothingEarly'
  BY DEF NothingEarly, Past, StartWaiting
<1>6. PhasesInOrder'
  BY <1>1 DEF PhasesInOrder, StartWaiting, phaseVars
<1>7. ResourcesLast'
  BY <1>1 DEF ResourcesLast, Opened, StartWaiting, resourceVars, phaseVars
<1> QED BY <1>2, <1>3, <1>4, <1>5, <1>6, <1>7 DEF LifecycleIInv

\* One waits at a time; stop() does when its shutdown is over.
LEMMA WaitKeeps ==
    ASSUME LifecycleIInv, NEW who \in {"waiter", "stopper"}, Wait(who)
    PROVE LifecycleIInv'
<1>1. LifecycleTypeOK /\ LockHolders /\ StartedInOrder /\ NothingEarly /\ PhasesInOrder /\ ResourcesLast
  BY DEF LifecycleIInv
<1>2. LifecycleTypeOK'
  BY <1>1 DEF LifecycleTypeOK, Wait, resourceVars, phaseVars
<1>3. LockHolders'
  BY <1>1 DEF LockHolders, Wait, phaseVars
<1>4. StartedInOrder'
  BY <1>1 DEF StartedInOrder, Past, Mounted, Wait, resourceVars, phaseVars
<1>5. NothingEarly'
  BY <1>1 DEF NothingEarly, Past, Wait, phaseVars
<1>6. PhasesInOrder'
  BY <1>1 DEF PhasesInOrder, Wait, phaseVars
<1>7. ResourcesLast'
  BY <1>1 DEF ResourcesLast, Opened, Wait, resourceVars, phaseVars
<1> QED BY <1>2, <1>3, <1>4, <1>5, <1>6, <1>7 DEF LifecycleIInv

\* Who waits is answered with the outcome.
LEMMA AnswerKeeps ==
    ASSUME LifecycleIInv, NEW who \in {"waiter", "stopper"}, Answer(who)
    PROVE LifecycleIInv'
<1>1. LifecycleTypeOK /\ LockHolders /\ StartedInOrder /\ NothingEarly /\ PhasesInOrder /\ ResourcesLast
  BY DEF LifecycleIInv
<1>2. /\ UNCHANGED <<mode, entries, resourceState, active, resourceLock, closingNow, step, inShutdown,
                     shutdownLock, prepared, closeLock, runtimeClosed, done, pool, verdict,
                     stopRequested, faults>>
      /\ waitLock' = NoActor /\ outcome' \in Verdicts
      /\ waiting' \in {"no", "queued", "waiting", "answered", "cancelled"}
  BY <1>1 DEF Answer, Outcome, Verdicts, LifecycleTypeOK, resourceVars,
         phaseVars
<1>a. CASE who = "waiter"
  <2>1. UNCHANGED at
    BY <1>a DEF Answer
  <2>2. LifecycleTypeOK'
    BY <1>1, <1>2, <2>1 DEF LifecycleTypeOK
  <2>3. LockHolders' /\ StartedInOrder' /\ NothingEarly'
    BY <1>1, <1>2, <2>1 DEF LockHolders, StartedInOrder, NothingEarly,
           Past, Mounted, NoActor
  <2>4. PhasesInOrder' /\ ResourcesLast'
    BY <1>1, <1>2, <2>1 DEF PhasesInOrder, ResourcesLast, Opened
  <2> QED BY <2>2, <2>3, <2>4 DEF LifecycleIInv
<1>b. CASE who = "stopper"
  <2>1. /\ mode = "handle" /\ at["stopper"] = "awaiting" /\ at'["stopper"] = "ended"
        /\ at' \in [Actors -> Places] /\ at'["main"] = at["main"]
        /\ \A b \in Actors : b # "stopper" => at'[b] = at[b]
    BY <1>1, <1>b, Moves DEF Answer, LockHolders, Places, Actors
  <2>2. LifecycleTypeOK'
    BY <1>1, <1>2, <2>1 DEF LifecycleTypeOK
  <2>3. Past /\ Past' /\ LockHolders'
    BY <1>1, <1>2, <2>1 DEF LockHolders, NothingEarly, Past, NoActor
  <2>4. StartedInOrder' /\ NothingEarly'
    BY <1>1, <1>2, <2>3, PastStays
  <2>5. PhasesInOrder'
    BY <1>1, <1>2, <2>1 DEF PhasesInOrder
  <2>6. ResourcesLast'
    BY <1>1, <1>2, <2>1, ResourcesStay
  <2> QED BY <2>2, <2>3, <2>4, <2>5, <2>6 DEF LifecycleIInv
<1> QED BY <1>a, <1>b

\* A cancelled waiter gives up its turn.
LEMMA CancelWaiterKeeps ==
    ASSUME LifecycleIInv, CancelWaiter
    PROVE LifecycleIInv'
<1>1. LifecycleTypeOK /\ LockHolders /\ StartedInOrder /\ NothingEarly /\ PhasesInOrder /\ ResourcesLast
  BY DEF LifecycleIInv
<1>2. LifecycleTypeOK'
  BY <1>1, Fails DEF LifecycleTypeOK, CancelWaiter, resourceVars, phaseVars
<1>3. LockHolders'
  BY <1>1 DEF LockHolders, CancelWaiter, NoActor, phaseVars
<1>4. StartedInOrder'
  BY <1>1 DEF StartedInOrder, Past, Mounted, CancelWaiter, resourceVars,
         phaseVars
<1>5. NothingEarly'
  BY <1>1 DEF NothingEarly, Past, CancelWaiter, phaseVars
<1>6. PhasesInOrder'
  BY <1>1 DEF PhasesInOrder, CancelWaiter, phaseVars
<1>7. ResourcesLast'
  BY <1>1 DEF ResourcesLast, Opened, CancelWaiter, resourceVars, phaseVars
<1> QED BY <1>2, <1>3, <1>4, <1>5, <1>6, <1>7 DEF LifecycleIInv

\* A run begins with nothing registered.
LEMMA LifecycleBegins == ASSUME LifecycleInit PROVE LifecycleIInv
<1>1. LifecycleTypeOK
  <2>1. 0 \in 0 .. MaxFailures
    BY LifecycleAssumption
  <2>2. entries \in Seq(Names)
    BY DEF LifecycleInit
  <2>3. at \in [Actors -> Places] /\ step \in [Actors -> 1 .. 4] /\ inShutdown \in [Actors -> BOOLEAN]
    BY DEF LifecycleInit, Places, Actors
  <2>4. \A a \in Actors : (shutdownLock = a <=> at[a] = "preparing") /\ (closeLock = a <=> at[a] = "closing")
    BY DEF LifecycleInit, Actors, NoActor
  <2> QED BY <2>1, <2>2, <2>3, <2>4 DEF LifecycleInit, LifecycleTypeOK, Verdicts
<1>2. LockHolders /\ StartedInOrder /\ NothingEarly /\ PhasesInOrder /\ ResourcesLast
  BY DEF LifecycleInit, LockHolders, StartedInOrder, NothingEarly,
         PhasesInOrder, ResourcesLast, Acceptable, Past, Opened, Actors, NoActor
<1> QED BY <1>1, <1>2 DEF LifecycleIInv

\* A step of another component leaves the run alone.
LEMMA LifecycleStays == ASSUME LifecycleIInv, UNCHANGED lifecycleVars PROVE LifecycleIInv'
<1>1. UNCHANGED <<mode, entries, resourceState, active, resourceLock, closingNow, at, step, inShutdown,
                 shutdownLock, prepared, closeLock, runtimeClosed, done, pool, verdict, stopRequested,
                 waiting, waitLock, outcome, faults>>
  BY DEF lifecycleVars, resourceVars, phaseVars, handleVars
<1>2. LifecycleTypeOK'
  BY <1>1 DEF LifecycleIInv, LifecycleTypeOK
<1>3. /\ LockHolders' /\ StartedInOrder' /\ NothingEarly'
      /\ PhasesInOrder' /\ ResourcesLast'
  BY <1>1 DEF LifecycleIInv, LockHolders, StartedInOrder, NothingEarly,
         PhasesInOrder, ResourcesLast, Past, Mounted, Opened
<1> QED BY <1>2, <1>3 DEF LifecycleIInv

\* Every step of the run keeps the invariant.
LEMMA LifecycleKeeps == ASSUME LifecycleIInv, [LifecycleNext]_lifecycleVars PROVE LifecycleIInv'
<1>1. ASSUME NEW a \in Actors, ActorStep(a) \/ StepRaises(a) PROVE LifecycleIInv'
  BY <1>1, EnterPrepareKeeps, PrepareStepKeeps, EnterCloseKeeps,
         CloseStepKeeps, CleanAgainKeeps, CloseResourcesKeeps,
         ResourcesClosedKeeps, StepRaisesKeeps DEF ActorStep
<1>2. ASSUME Terminated PROVE LifecycleIInv'
  BY <1>2, LifecycleStays DEF Terminated
<1> QED BY <1>1, <1>2, LifecycleStays, ComposeKeeps, StartResourceKeeps,
       StartFailsKeeps, BuildKeeps, BuildFailsKeeps, UsePoolKeeps,
       EnginesCompleteKeeps, EnginesFlushedKeeps, EnginesFailKeeps,
       EnginesCancelledKeeps, RequestStopKeeps, CancelMainKeeps,
       SyncStoppedKeeps, StartWaitingKeeps, WaitKeeps, AnswerKeeps,
       CancelWaiterKeeps DEF LifecycleNext, EnginesEnd, WaitStep

\* What is checked of the run follows from the invariant.
LEMMA LifecycleImplies == ASSUME LifecycleIInv PROVE LifecycleInv
<1>1. LifecycleTypeOK /\ LockHolders /\ StartedInOrder /\ NothingEarly /\ PhasesInOrder /\ ResourcesLast
  BY DEF LifecycleIInv
<1>2. prepared => \A a \in Actors : at[a] # "preparing"
  BY <1>1 DEF PhasesInOrder
<1>3. active = Mounted => \A n \in Mounted : Require(n) = "open"
  BY <1>1 DEF LifecycleTypeOK, Require
<1>4. /\ at["main"] = "engines" /\ "cancel" \notin done => Past /\ ~runtimeClosed
      /\ \A a \in Actors : at[a] = "preparing" => Past /\ ~runtimeClosed
  BY <1>1, Begun DEF PhasesInOrder, Past
<1>5. "freeze" \in done /\ ~runtimeClosed => \A n \in Mounted : resourceState[n] = "open"
  BY <1>1 DEF NothingEarly, StartedInOrder, LifecycleTypeOK
<1>6. ShutdownOrder
  BY <1>1, <1>3, <1>4, <1>5 DEF ShutdownOrder, StartedInOrder, PhasesInOrder
<1>7. NothingLeft
  BY <1>1 DEF NothingLeft, ResourcesLast, PhasesInOrder
<1> QED BY <1>1, <1>6, <1>7 DEF LifecycleInv

---------------------------------------------------------------------------
(* Several crawlers on one loop.  Nothing is pending on a closed loop      *)
(* because cleanup_loop has every task on its list, or main() which ends   *)
(* the rest (AllListed); that all resources are closed needs to know how   *)
(* far main() and the handler are (FleetStages, ShutDown).                 *)

\* The tasks cleanup_loop still has to cancel or await.
Listed == toCancel \cup {awaited}

\* How far main() is, and who may have cancelled a shutdown by then.
FleetStages ==
  /\ mainAt = "starting" => begun < FleetSize
  /\ mainAt \in {"gathering", "stopping"} => begun = FleetSize
  /\ mainAt \in {"starting", "gathering"} => \A k \in Members : shutdownTask[k] = "none"
  /\ \A k \in Members : shutdownTask[k] = "returned" => resourcesOf[k] = "closed"
  /\ driver \in {"main", "handler"} =>
        toCancel = {} /\ awaited = NoTask /\ \A k \in Members : shutdownTask[k] # "cancelled"
  /\ driver = "handler" => begun = FleetSize /\ turn > 0
  /\ driver \notin {"main", "handler"} /\ mainAt = "starting" => "early" \in flaws

\* cleanup_loop has every pending task on its list; shutdowns main() began
\* meanwhile end with main(), or main() raises and leaves cleanup_loop.
AllListed ==
  /\ \A k \in Members : CloserOf(k) \in Listed => shutdownTask[k] # "none"
  /\ driver = "cleanup" /\ "early" \notin flaws =>
        /\ mainAt \notin Endings => Main \in Listed
        /\ \A k \in Members : engineTask[k] = "running" => EngineOf(k) \in Listed
        /\ (\E k \in Members : shutdownTask[k] = "running" /\ CloserOf(k) \notin Listed) =>
              /\ mainAt \in {"stopping", "raised"} /\ Main \in Listed
              /\ \A k \in Members : shutdownTask[k] # "cancelled" /\ CloserOf(k) \notin Listed
  /\ driver = "closed" /\ "early" \notin flaws =>
        /\ mainAt \in Endings
        /\ \A k \in Members : engineTask[k] # "running" /\ shutdownTask[k] # "running"

\* Without a failing shutdown, main() and the handler leave nothing open.
ShutDown ==
  flaws = {} =>
     /\ \A k \in Members : shutdownTask[k] # "raised"
     /\ begun = FleetSize =>
           /\ (driver = "main" /\ mainAt \in Endings) \/ driver \in {"cleanup", "closed"} =>
                 \A k \in Members : resourcesOf[k] = "closed"
           /\ driver = "handler" => \A k \in Members : k < turn => resourcesOf[k] = "closed"

FleetIInv == FleetTypeOK /\ FleetStages /\ AllListed /\ ShutDown

\* The tasks differ.
LEMMA TasksDiffer ==
    ASSUME NEW k \in Members, NEW j \in Members
    PROVE /\ Main # EngineOf(k) /\ Main # CloserOf(k) /\ EngineOf(k) # CloserOf(j)
          /\ Main # NoTask /\ EngineOf(k) # NoTask /\ CloserOf(k) # NoTask
          /\ CloserOf(k) = CloserOf(j) => k = j
          /\ EngineOf(k) = EngineOf(j) => k = j
          /\ {Main, EngineOf(k), CloserOf(k)} \subseteq FleetTasks
BY DEF Main, EngineOf, CloserOf, NoTask, FleetTasks

\* A crawler is initialized and its engine starts.
LEMMA InitializeKeeps ==
    ASSUME FleetIInv, Initialize
    PROVE FleetIInv'
<1>1. FleetTypeOK /\ FleetStages /\ AllListed /\ ShutDown
  BY DEF FleetIInv
<1>a. PICK n \in Members : n = begun + 1
  BY <1>1, FleetAssumption DEF Initialize, FleetStages, FleetTypeOK, Members
<1>b. /\ mainAt = "starting" /\ begun < FleetSize /\ begun' = n /\ LoopRuns
      /\ resourcesOf' = [resourcesOf EXCEPT ![n] = "open"]
      /\ engineTask' = [engineTask EXCEPT ![n] = "running"]
      /\ mainAt' = IF n = FleetSize THEN "gathering" ELSE "starting"
      /\ UNCHANGED <<cause, shutdownTask, driver, turn, toCancel, awaited, flaws, mishaps>>
  BY <1>1, <1>a DEF Initialize, driverVars, FleetStages
<1>c. driver = "main" \/ (driver = "cleanup" /\ "early" \in flaws)
  BY <1>1, <1>b DEF FleetStages, LoopRuns, FleetTypeOK
<1>2. FleetTypeOK'
  <2>1. n \in 0 .. FleetSize
    BY <1>a DEF Members
  <2> QED BY <1>1, <1>b, <2>1 DEF FleetTypeOK
<1>3. FleetStages'
  BY <1>1, FleetAssumption DEF FleetStages, FleetTypeOK, Initialize, driverVars
<1>4. AllListed'
  BY <1>1, <1>b, <1>c DEF AllListed, Listed
<1>5. ShutDown'
  <2>1. mainAt' \notin Endings
    BY <1>b DEF Endings
  <2> QED BY <1>1, <1>b, <1>c, <2>1 DEF ShutDown
<1> QED BY <1>2, <1>3, <1>4, <1>5 DEF FleetIInv

\* A crawler that cannot be initialized makes main() raise.
LEMMA InitializeFailsKeeps ==
    ASSUME FleetIInv, InitializeFails
    PROVE FleetIInv'
<1>1. FleetTypeOK /\ FleetStages /\ AllListed /\ ShutDown
  BY DEF FleetIInv
<1>a. PICK n \in Members, left \in {"open", "closed"} :
            n = begun + 1 /\ resourcesOf' = [resourcesOf EXCEPT ![n] = left]
  <2>1. begun + 1 \in Members
    BY <1>1, FleetAssumption DEF InitializeFails, FleetStages, FleetTypeOK,
           Members
  <2> QED BY <2>1 DEF InitializeFails
<1>b. /\ mainAt = "starting" /\ begun # FleetSize /\ mainAt' = "raised" /\ mishaps' \in 0 .. MaxMishaps
      /\ UNCHANGED <<cause, begun, engineTask, shutdownTask, driver, turn, toCancel, awaited, flaws>>
  BY <1>1, FleetAssumption DEF InitializeFails, driverVars, FleetStages,
         FleetTypeOK, Mishap
<1>2. FleetTypeOK'
  BY <1>1, <1>a, <1>b DEF FleetTypeOK, Endings
<1>3. FleetStages'
  BY <1>1 DEF FleetStages, InitializeFails, driverVars
<1>4. AllListed'
  BY <1>1 DEF AllListed, InitializeFails, Listed, Endings, driverVars
<1>5. ShutDown'
  BY <1>1, <1>b DEF ShutDown
<1> QED BY <1>2, <1>3, <1>4, <1>5 DEF FleetIInv

\* An engine ends by itself or is cancelled.
LEMMA EngineEndsKeeps ==
    ASSUME FleetIInv, NEW k \in Members, EngineEnds(k)
    PROVE FleetIInv'
<1>1. FleetTypeOK /\ FleetStages /\ AllListed /\ ShutDown
  BY DEF FleetIInv
<1>2. FleetTypeOK'
  BY <1>1, FleetAssumption DEF FleetTypeOK, EngineEnds, Mishap, mainVars,
         driverVars
<1>3. FleetStages'
  BY <1>1 DEF FleetStages, EngineEnds, mainVars, driverVars
<1>4. AllListed'
  BY <1>1 DEF AllListed, EngineEnds, Listed, mainVars, driverVars
<1>5. ShutDown'
  BY <1>1 DEF ShutDown, EngineEnds, mainVars, driverVars
<1> QED BY <1>2, <1>3, <1>4, <1>5 DEF FleetIInv

\* A shutdown returns with its resources closed, raises or is cancelled.
LEMMA ShutdownEndsKeeps ==
    ASSUME FleetIInv, NEW k \in Members, ShutdownEnds(k)
    PROVE FleetIInv'
<1>1. FleetTypeOK /\ FleetStages /\ AllListed /\ ShutDown
  BY DEF FleetIInv
<1>2. FleetTypeOK'
  <2>1. mishaps' \in 0 .. MaxMishaps
    BY <1>1, FleetAssumption DEF ShutdownEnds, FleetTypeOK, Mishap
  <2>2. /\ flaws' \subseteq {"early", "stop"}
        /\ shutdownTask' \in [Members -> {"none", "running"} \cup Endings]
        /\ resourcesOf' \in [Members -> {"none", "open", "closed"}]
    BY <1>1 DEF ShutdownEnds, FleetTypeOK, Endings
  <2> QED BY <1>1, <2>1, <2>2 DEF ShutdownEnds, FleetTypeOK, mainVars,
         driverVars
<1>3. FleetStages'
  BY <1>1, TasksDiffer DEF FleetStages, FleetTypeOK, ShutdownEnds,
         mainVars, driverVars
<1>4. AllListed'
  BY <1>1 DEF AllListed, FleetTypeOK, ShutdownEnds, Listed, mainVars, driverVars
<1>5. ShutDown'
  BY <1>1 DEF ShutDown, FleetTypeOK, ShutdownEnds, mainVars, driverVars
<1> QED BY <1>2, <1>3, <1>4, <1>5 DEF FleetIInv

\* main() goes on to its finally with the last engine, or the first that raises.
LEMMA GatherEndsKeeps ==
    ASSUME FleetIInv, GatherEnds
    PROVE FleetIInv'
<1>1. FleetTypeOK /\ FleetStages /\ AllListed /\ ShutDown
  BY DEF FleetIInv
<1>2. FleetTypeOK'
  BY <1>1 DEF FleetTypeOK, GatherEnds, driverVars, StopFleet
<1>3. FleetStages'
  BY <1>1 DEF FleetStages, GatherEnds, driverVars, StopFleet
<1>4. AllListed'
  <2>1. /\ mainAt = "gathering" /\ mainAt' = "stopping" /\ LoopRuns
        /\ UNCHANGED <<begun, engineTask, driver, toCancel, awaited, flaws>>
        /\ shutdownTask' = [k \in Members |-> "running"]
    BY DEF GatherEnds, StopFleet, driverVars
  <2>2. \A k \in Members : CloserOf(k) \notin Listed /\ shutdownTask[k] = "none"
    BY <1>1, <2>1 DEF FleetStages, AllListed
  <2>3. /\ \A k \in Members : shutdownTask'[k] = "running"
        /\ driver # "closed" /\ mainAt \notin Endings
    BY <2>1 DEF LoopRuns, Endings
  <2> QED BY <1>1, <2>1, <2>2, <2>3 DEF AllListed, Listed
<1>5. ShutDown'
  BY <1>1 DEF ShutDown, GatherEnds, Endings, driverVars, StopFleet
<1> QED BY <1>2, <1>3, <1>4, <1>5 DEF FleetIInv

\* main() ends with the last shutdown, or the first that does not return.
LEMMA MainEndsKeeps ==
    ASSUME FleetIInv, MainEnds
    PROVE FleetIInv'
<1>1. FleetTypeOK /\ FleetStages /\ AllListed /\ ShutDown
  BY DEF FleetIInv
<1>2. FleetTypeOK'
  BY <1>1 DEF FleetTypeOK, MainEnds, crawlVars, driverVars
<1>3. FleetStages'
  BY <1>1 DEF FleetStages, FleetTypeOK, MainEnds, Endings, crawlVars, driverVars
<1>4. AllListed'
  BY <1>1 DEF AllListed, MainEnds, Listed, Endings, crawlVars, driverVars
<1>5. ShutDown'
  <2>1. /\ mainAt = "stopping" /\ UNCHANGED <<begun, shutdownTask, resourcesOf, driver, turn, flaws>>
        /\ (\A k \in Members : shutdownTask[k] = "returned")
           \/ (\E k \in Members : shutdownTask[k] \in {"raised", "cancelled"})
    BY DEF MainEnds, crawlVars, driverVars
  <2>2. ASSUME flaws = {}, driver = "main"
        PROVE \A k \in Members : resourcesOf[k] = "closed"
    BY <1>1, <2>1, <2>2 DEF ShutDown, FleetStages
  <2> QED BY <1>1, <2>1, <2>2 DEF ShutDown
<1> QED BY <1>2, <1>3, <1>4, <1>5 DEF FleetIInv

\* Ctrl+C leaves run_until_complete, and main() where it is.
LEMMA InterruptKeeps ==
    ASSUME FleetIInv, Interrupt
    PROVE FleetIInv'
<1>1. FleetTypeOK /\ FleetStages /\ AllListed /\ ShutDown
  BY DEF FleetIInv
<1>2. FleetTypeOK'
  BY <1>1, TasksDiffer, FleetAssumption DEF FleetTypeOK, Interrupt,
         Mishap, mainVars, crawlVars, BeginCleanup, Pending, Members
<1>3. FleetStages'
  BY <1>1 DEF FleetStages, Interrupt, Known, mainVars, crawlVars, BeginCleanup
<1>4. AllListed'
  BY <1>1, TasksDiffer DEF AllListed, Interrupt, Listed, crawlVars,
         BeginCleanup, Pending
<1>5. ShutDown'
  BY <1>1 DEF ShutDown, Interrupt, crawlVars, Members
<1> QED BY <1>2, <1>3, <1>4, <1>5 DEF FleetIInv

\* The handler shuts down one crawler after the other.
LEMMA HandlerShutdownKeeps ==
    ASSUME FleetIInv, HandlerShutdown
    PROVE FleetIInv'
<1>1. FleetTypeOK /\ FleetStages /\ AllListed /\ ShutDown
  BY DEF FleetIInv
<1>2. FleetTypeOK'
  BY <1>1, TasksDiffer, FleetAssumption DEF FleetTypeOK, HandlerShutdown,
         Mishap, FleetMainOver, Endings, mainVars, BeginCleanup, Pending, Members
<1>3. FleetStages'
  BY <1>1 DEF FleetStages, FleetTypeOK, HandlerShutdown, mainVars, BeginCleanup
<1>4. AllListed'
  BY <1>1, TasksDiffer DEF AllListed, HandlerShutdown, Listed,
         FleetMainOver, mainVars, BeginCleanup, Pending
<1>5. ShutDown'
  <2>1. /\ driver = "handler" /\ begun = FleetSize /\ turn \in Nat /\ turn > 0 /\ turn <= FleetSize + 1
        /\ UNCHANGED <<mainAt, begun, shutdownTask>>
    BY <1>1 DEF HandlerShutdown, FleetStages, FleetTypeOK, mainVars
  <2>2. CASE turn \in Members /\ "stop" \notin flaws'
    <3>1. /\ resourcesOf' = [resourcesOf EXCEPT ![turn] = "closed"] /\ turn' = turn + 1 /\ driver' = driver
          /\ flaws' = flaws
      BY <2>2 DEF HandlerShutdown
    <3>2. \A k \in Members : k < turn + 1 <=> k < turn \/ k = turn
      BY <2>1 DEF Members
    <3> QED BY <1>1, <2>1, <3>1, <3>2 DEF ShutDown, FleetTypeOK
  <2>3. CASE "stop" \in flaws'
    BY <2>3 DEF ShutDown
  <2>4. CASE turn \notin Members
    <3>1. driver' = "cleanup" /\ UNCHANGED <<resourcesOf, flaws>>
      BY <2>1, <2>4 DEF HandlerShutdown, BeginCleanup
    <3>2. \A k \in Members : k < turn
      BY <2>1, <2>4, FleetAssumption DEF Members
    <3> QED BY <1>1, <2>1, <3>1, <3>2 DEF ShutDown
  <2> QED BY <2>2, <2>3, <2>4
<1> QED BY <1>2, <1>3, <1>4, <1>5 DEF FleetIInv

\* The loop is left with main(), and cleaned up.
LEMMA MainReturnsKeeps ==
    ASSUME FleetIInv, MainReturns
    PROVE FleetIInv'
<1>1. FleetTypeOK /\ FleetStages /\ AllListed /\ ShutDown
  BY DEF FleetIInv
<1>2. FleetTypeOK'
  BY <1>1, TasksDiffer DEF FleetTypeOK, MainReturns, mainVars, crawlVars,
         BeginCleanup, Pending
<1>3. FleetStages'
  BY <1>1 DEF FleetStages, MainReturns, FleetMainOver, Endings, mainVars,
         crawlVars, BeginCleanup
<1>4. AllListed'
  BY <1>1, TasksDiffer DEF AllListed, MainReturns, Listed, FleetMainOver,
         mainVars, crawlVars, BeginCleanup, Pending
<1>5. ShutDown'
  BY <1>1 DEF ShutDown, MainReturns, FleetMainOver, mainVars, crawlVars
<1> QED BY <1>2, <1>3, <1>4, <1>5 DEF FleetIInv

\* cleanup_loop cancels a task and awaits it.
LEMMA CancelTaskKeeps ==
    ASSUME FleetIInv, NEW task \in FleetTasks, CancelTask(task)
    PROVE FleetIInv'
<1>1. FleetTypeOK /\ FleetStages /\ AllListed /\ ShutDown
  BY DEF FleetIInv
<1>2. FleetTypeOK'
  BY <1>1 DEF FleetTypeOK, CancelTask, FleetMainOver, Endings, StopFleet,
         CancelFleet
<1>3. FleetStages'
  BY <1>1 DEF FleetStages, FleetTypeOK, CancelTask, FleetMainOver,
         StopFleet, CancelFleet
<1>4. AllListed'
  <2>1. /\ driver = "cleanup" /\ awaited = NoTask /\ task \in toCancel /\ toCancel' = toCancel \ {task}
        /\ awaited' = task /\ UNCHANGED <<begun, engineTask, resourcesOf, driver, turn, flaws>>
        /\ IF task = Main THEN CancelFleet ELSE UNCHANGED <<mainAt, cause, shutdownTask>>
    BY DEF CancelTask
  <2>2. /\ Main \in Listed' <=> Main \in Listed
        /\ \A k \in Members : /\ EngineOf(k) \in Listed' <=> EngineOf(k) \in Listed
                              /\ CloserOf(k) \in Listed' <=> CloserOf(k) \in Listed
    <3>1. \A t : t # NoTask => (t \in Listed' <=> t \in Listed)
      BY <2>1 DEF Listed
    <3>2. Main # NoTask
      BY DEF Main, NoTask
    <3> QED BY <3>1, <3>2, TasksDiffer
  <2>3. CASE UNCHANGED <<mainAt, shutdownTask>>
    BY <1>1, <2>1, <2>2, <2>3 DEF AllListed
  <2>4. CASE task = Main /\ mainAt = "starting"
    <3>1. "early" \in flaws
      BY <1>1, <2>1, <2>4 DEF FleetStages
    <3>2. shutdownTask' = shutdownTask
      BY <2>1, <2>4 DEF CancelFleet
    <3> QED BY <1>1, <2>1, <2>2, <3>1, <3>2 DEF AllListed
  <2>5. CASE task = Main /\ mainAt = "gathering"
    <3>1. mainAt' = "stopping" /\ shutdownTask' = [k \in Members |-> "running"] /\ Main \in Listed'
      BY <2>1, <2>5 DEF CancelFleet, StopFleet, Listed, FleetMainOver, Endings
    <3>2. \A k \in Members : CloserOf(k) \notin Listed' /\ shutdownTask'[k] = "running"
      BY <1>1, <2>2, <2>5, <3>1 DEF FleetStages, AllListed
    <3> QED BY <1>1, <2>1, <2>2, <3>1, <3>2 DEF AllListed
  <2>6. CASE task = Main /\ mainAt = "stopping"
    <3>1. /\ mainAt' = "cancelled"
          /\ shutdownTask' = [k \in Members |-> IF shutdownTask[k] = "running" THEN "cancelled" ELSE shutdownTask[k]]
      BY <2>1, <2>6 DEF CancelFleet, FleetMainOver, Endings
    <3>2. \A k \in Members : /\ shutdownTask'[k] # "running"
                             /\ shutdownTask[k] # "none" => shutdownTask'[k] # "none"
      BY <3>1
    <3> QED BY <1>1, <2>1, <2>2, <3>1 DEF AllListed, Endings
  <2>7. CASE task = Main /\ mainAt \in Endings
    <3>1. UNCHANGED <<mainAt, shutdownTask>>
      BY <2>1, <2>7 DEF CancelFleet, FleetMainOver
    <3> QED BY <2>3, <3>1
  <2> QED BY <1>1, <2>1, <2>3, <2>4, <2>5, <2>6, <2>7 DEF FleetTypeOK
<1>5. ShutDown'
  BY <1>1 DEF ShutDown, FleetTypeOK, CancelTask, FleetMainOver, StopFleet,
         CancelFleet
<1> QED BY <1>2, <1>3, <1>4, <1>5 DEF FleetIInv

\* An awaited task is over, or its error leaves cleanup_loop.
LEMMA TaskAwaitedKeeps ==
    ASSUME FleetIInv, TaskAwaited
    PROVE FleetIInv'
<1>1. FleetTypeOK /\ FleetStages /\ AllListed /\ ShutDown
  BY DEF FleetIInv
<1>2. FleetTypeOK'
  BY <1>1 DEF FleetTypeOK, TaskAwaited, mainVars, crawlVars
<1>3. FleetStages'
  BY <1>1 DEF FleetStages, TaskAwaited, mainVars, crawlVars
<1>4. AllListed'
  <2>1. /\ driver = "cleanup" /\ awaited \notin Pending /\ awaited # NoTask /\ awaited' = NoTask
        /\ UNCHANGED <<mainAt, engineTask, shutdownTask, toCancel, flaws>>
    BY DEF TaskAwaited, mainVars, crawlVars
  <2>8. driver' \in {"cleanup", "escaped"} /\ (awaited = Main /\ mainAt = "raised" => driver' = "escaped")
    <3> DEFINE ending == CASE awaited = Main -> mainAt
                           [] awaited[1] = "engine" -> engineTask[awaited[2]]
                           [] awaited[1] = "closer" -> shutdownTask[awaited[2]]
    <3>1. driver' = IF ending = "raised" THEN "escaped" ELSE driver
      BY DEF TaskAwaited
    <3>2. awaited = Main => ending = mainAt
      BY DEF Main
    <3> HIDE DEF ending
    <3> QED BY <2>1, <3>1, <3>2
  <2>2. /\ mainAt \notin Endings => awaited # Main
        /\ \A k \in Members : /\ engineTask[k] = "running" => awaited # EngineOf(k)
                              /\ shutdownTask[k] = "running" => awaited # CloserOf(k)
    BY <2>1 DEF Pending, FleetMainOver
  <2>3. \A t : t # NoTask /\ t # awaited => (t \in Listed' <=> t \in Listed)
    BY <2>1 DEF Listed
  <2>4. \A t : t # NoTask /\ t \in Listed' => t \in Listed
    BY <2>1 DEF Listed
  <2>5. \A k \in Members : CloserOf(k) \in Listed' => shutdownTask[k] # "none"
    BY <1>1, <2>4, TasksDiffer DEF AllListed
  <2>6. ASSUME driver' = "cleanup", "early" \notin flaws
        PROVE /\ mainAt \notin Endings => Main \in Listed'
              /\ \A k \in Members : engineTask[k] = "running" => EngineOf(k) \in Listed'
    BY <1>1, <2>1, <2>2, <2>3, <2>6, TasksDiffer DEF AllListed, Main, NoTask
  <2>7. ASSUME driver' = "cleanup", "early" \notin flaws,
               NEW k \in Members, shutdownTask[k] = "running", CloserOf(k) \notin Listed'
        PROVE /\ mainAt \in {"stopping", "raised"} /\ Main \in Listed'
              /\ \A j \in Members : shutdownTask[j] # "cancelled" /\ CloserOf(j) \notin Listed'
    <3>1. CloserOf(k) \notin Listed
      BY <2>2, <2>3, <2>7, TasksDiffer
    <3>2. /\ mainAt \in {"stopping", "raised"} /\ Main \in Listed
          /\ \A j \in Members : shutdownTask[j] # "cancelled" /\ CloserOf(j) \notin Listed
      BY <1>1, <2>1, <2>7, <3>1 DEF AllListed
    <3>3. Main # awaited
      BY <2>2, <2>7, <2>8, <3>2 DEF Endings
    <3> QED BY <2>3, <2>4, <3>2, <3>3, TasksDiffer
  <2> QED BY <2>1, <2>5, <2>6, <2>7, <2>8 DEF AllListed
<1>5. ShutDown'
  BY <1>1 DEF ShutDown, TaskAwaited, mainVars, crawlVars
<1> QED BY <1>2, <1>3, <1>4, <1>5 DEF FleetIInv

\* The loop is closed when the list is empty.
LEMMA CloseFleetLoopKeeps ==
    ASSUME FleetIInv, CloseFleetLoop
    PROVE FleetIInv'
<1>1. FleetTypeOK /\ FleetStages /\ AllListed /\ ShutDown
  BY DEF FleetIInv
<1>2. FleetTypeOK'
  BY <1>1 DEF FleetTypeOK, CloseFleetLoop, mainVars, crawlVars
<1>3. FleetStages'
  BY <1>1 DEF FleetStages, CloseFleetLoop, mainVars, crawlVars
<1>4. AllListed'
  BY <1>1, TasksDiffer, FleetAssumption DEF AllListed, CloseFleetLoop,
         Listed, mainVars, crawlVars, Members
<1>5. ShutDown'
  BY <1>1 DEF ShutDown, CloseFleetLoop, mainVars, crawlVars
<1> QED BY <1>2, <1>3, <1>4, <1>5 DEF FleetIInv

\* No crawler is started at first.
LEMMA FleetBegins == ASSUME FleetInit PROVE FleetIInv
<1>1. FleetTypeOK
  BY FleetAssumption DEF FleetInit, FleetTypeOK, Endings
<1>2. FleetStages
  BY FleetAssumption DEF FleetInit, FleetStages
<1>3. AllListed
  BY TasksDiffer DEF FleetInit, AllListed, Listed
<1>4. ShutDown
  BY FleetAssumption DEF FleetInit, ShutDown, Endings
<1> QED BY <1>1, <1>2, <1>3, <1>4 DEF FleetIInv

\* A step of another component leaves the crawlers alone.
LEMMA FleetStays == ASSUME FleetIInv, UNCHANGED fleetVars PROVE FleetIInv'
BY DEF FleetIInv, FleetTypeOK, FleetStages, AllListed, ShutDown, Listed,
       fleetVars, mainVars, crawlVars, driverVars

\* Every step of the crawlers and of the loop's cleanup keeps the invariant.
LEMMA FleetKeeps == ASSUME FleetIInv, [FleetNext]_fleetVars PROVE FleetIInv'
BY InitializeKeeps, InitializeFailsKeeps, EngineEndsKeeps,
       ShutdownEndsKeeps, GatherEndsKeeps, MainEndsKeeps, InterruptKeeps,
       HandlerShutdownKeeps, MainReturnsKeeps, CancelTaskKeeps, TaskAwaitedKeeps,
       CloseFleetLoopKeeps, FleetStays DEF FleetNext

\* What is checked of the crawlers follows from the invariant.
LEMMA FleetImplies == ASSUME FleetIInv PROVE FleetInv
<1>1. FleetTypeOK /\ AllListed /\ ShutDown
  BY DEF FleetIInv
<1>2. NothingPending
  BY <1>1 DEF AllListed, NothingPending, Pending, FleetMainOver
<1>3. FleetClosed
  BY <1>1 DEF ShutDown, FleetClosed, Known
<1> QED BY <1>1, <1>2, <1>3 DEF FleetInv

---------------------------------------------------------------------------
(* What the composed run checks.                                           *)

\* A step of the composition is one of the component in focus, and leaves the
\* others alone.
LEMMA FocusStep ==
    ASSUME [Next]_<<focus, recoveryVars, transportVars, rabbitVars, lifecycleVars,
                    fleetVars, processVars, offloadVars>>
    PROVE  /\ [TransportNext]_transportVars /\ [RabbitNext]_rabbitVars
           /\ [LifecycleNext]_lifecycleVars /\ [FleetNext]_fleetVars
           /\ [ProcessesNext]_processVars /\ [OffloadNext]_offloadVars
BY DEF Next, OffloadNext

\* Neither the Kafka nor the RabbitMQ client leaves a connection, a consumer or
\* a loop behind, makes two where one is meant, or sends to a topic that is not
\* ready or a queue that is not bound.  For Kafka: when close comes after the
\* calls, and one callback is registered for the topic and group.
THEOREM BrokersHold == ASSUME Orderly PROVE Spec => []BrokersInv
<1>1. Init => TransportIInv /\ RabbitIInv
  BY TransportBegins, RabbitBegins DEF Init
<1>2. TransportIInv /\ RabbitIInv /\ [Next]_<<focus, recoveryVars, transportVars, rabbitVars,
        lifecycleVars, fleetVars, processVars, offloadVars>> => (TransportIInv /\ RabbitIInv)'
  BY FocusStep, TransportKeeps, RabbitKeeps
<1>3. TransportIInv /\ RabbitIInv => BrokersInv
  BY TransportImplies, RabbitImplies DEF BrokersInv
<1> QED BY <1>1, <1>2, <1>3, PTL DEF Spec

\* The shutdown of a crawl keeps its order whoever runs it and whatever raises
\* or is cancelled meanwhile, and leaves no resource open; several crawlers on
\* one loop are all shut down before it is closed.
THEOREM RunsHold == Spec => []RunsInv
<1>1. Init => LifecycleIInv /\ FleetIInv
  BY LifecycleBegins, FleetBegins DEF Init
<1>2. LifecycleIInv /\ FleetIInv /\ [Next]_<<focus, recoveryVars, transportVars, rabbitVars,
        lifecycleVars, fleetVars, processVars, offloadVars>> => (LifecycleIInv /\ FleetIInv)'
  BY FocusStep, LifecycleKeeps, FleetKeeps
<1>3. LifecycleIInv /\ FleetIInv => RunsInv
  BY LifecycleImplies, FleetImplies DEF RunsInv
<1> QED BY <1>1, <1>2, <1>3, PTL DEF Spec

\* FFmpeg runs stay within max_processes and none is left by close; callbacks
\* of a ThreadFuture are called once and answers are the own ones; the process
\* pool stays within max_workers and none of its calls outlives close.
THEOREM HelpersHold == Spec => []HelpersInv
<1>1. Init => ProcessesIInv /\ OffloadIInv
  BY ProcessesBegins, OffloadBegins DEF Init
<1>2. ProcessesIInv /\ OffloadIInv /\ [Next]_<<focus, recoveryVars, transportVars, rabbitVars,
        lifecycleVars, fleetVars, processVars, offloadVars>> => (ProcessesIInv /\ OffloadIInv)'
  BY FocusStep, ProcessesKeeps, OffloadKeeps
<1>3. ProcessesIInv /\ OffloadIInv => HelpersInv
  BY ProcessesImplies, OffloadImplies DEF HelpersInv
<1> QED BY <1>1, <1>2, <1>3, PTL DEF Spec
=============================================================================
