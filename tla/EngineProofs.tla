---------------------------- MODULE EngineProofs ----------------------------
(***************************************************************************)
(* CompletionSound for every set of requests, fingerprints and bounds,     *)
(* provided requests are not built with the meta of another request        *)
(* (~SharedMeta; with SharedMeta TLC refutes it).                          *)
(* The inductive invariant says that every request between the scheduler   *)
(* and the end of its callback is owned under an id of its own, so that    *)
(* completing one request can never give up another.                       *)
(* FetchedOnce, with or without shared meta, rests on what a request that  *)
(* passed the scheduler leaves in the filter (PassedSeen).                 *)
(***************************************************************************)
EXTENDS Engine, TLAPS

\* Initially nothing is owned and the producer runs.
LEMMA InitInv == Init => IndInv
  <1> SUFFICES ASSUME Init PROVE IndInv
    OBVIOUS
  <1>1. TypeOK
    <2>1. started \in 0 .. MaxStart /\ workSeq \in Nat /\ meta \in [Requests -> Nat]
      BY EngineAssumption DEF Init, NoId
    <2>2. reschedules \in [retries : 0 .. MaxRetries, replacements : 0 .. MaxReplacements]
      BY EngineAssumption DEF Init
    <2>3. stage \in [Requests -> Stages]
      BY DEF Init, Stages
    <2>4. /\ producer \in {"running", "done"} /\ waiter = "producer" /\ phase = "running"
          /\ error \in BOOLEAN /\ idle \in BOOLEAN
      BY DEF Init
    <2> QED BY <2>1, <2>2, <2>3, <2>4 DEF Init, TypeOK
  <1>2. \A r \in Requests : stage[r] = "fresh" /\ meta[r] = NoId
    BY DEF Init
  <1> QED BY <1>1, <1>2
          DEF Init, IndInv, IdleExact, IdBounds, UniqueIds, OwnedUntilBoundary,
              ProducerFirst, CompletionSound, Carried, Waiting, Passed, NoId

\* Once scheduler_empty was sent no request is on its way.
LEMMA NotSent ==
    ASSUME IndInv, NEW r \in Requests, stage[r] \in Carried \cup Waiting
    PROVE  waiter # "sent"
BY DEF IndInv, CompletionSound

\* Steps that move one request to another stage and leave ownership alone: the
\* request was on its way before, and it is owned afterwards only if it was.
LEMMA StageStepInv ==
    ASSUME IndInv, NEW r \in Requests, NEW s \in Stages \ {"fresh", "output"},
           stage[r] \in Carried \cup Waiting,
           s \in Passed \ {"done"} => stage[r] \in Passed \ {"done"},
           stage' = [stage EXCEPT ![r] = s], TypeOK',
           UNCHANGED <<meta, workSeq, pendingIds, idle, producer, waiter>>
    PROVE  IndInv'
  <1>1. stage \in [Requests -> Stages]
    BY DEF IndInv, TypeOK
  <1>2. stage'[r] = s /\ \A q \in Requests : q # r => stage'[q] = stage[q]
    BY <1>1
  <1>3. IdleExact' /\ UniqueIds' /\ ProducerFirst'
    BY DEF IndInv, IdleExact, UniqueIds, ProducerFirst
  <1>4. IdBounds'
    BY <1>2 DEF IndInv, IdBounds
  <1>5. OwnedUntilBoundary'
    BY <1>2 DEF IndInv, OwnedUntilBoundary
  <1>6. CompletionSound'
    BY NotSent DEF CompletionSound
  <1> QED BY <1>3, <1>4, <1>5, <1>6 DEF IndInv

\* Steps that leave every request and the ownership where they are.
LEMMA ControlStepInv ==
    ASSUME IndInv, TypeOK', UNCHANGED <<stage, meta, workSeq, pendingIds, idle>>,
           ProducerFirst', CompletionSound'
    PROVE  IndInv'
BY DEF IndInv, IdleExact, IdBounds, UniqueIds, OwnedUntilBoundary

\* The producer's yields: before completion is considered.
LEMMA ProducerYieldInv ==
    ASSUME NEW r \in Requests PROVE IndInv /\ ProducerYield(r) => IndInv'
  <1> SUFFICES ASSUME IndInv, ProducerYield(r) PROVE IndInv'
    OBVIOUS
  <1>1. /\ stage \in [Requests -> Stages] /\ stage[r] = "fresh" /\ producer = "running"
        /\ stage' = [stage EXCEPT ![r] = "output"]
        /\ meta' = meta /\ workSeq' = workSeq /\ pendingIds' = pendingIds /\ idle' = idle
        /\ producer' = producer /\ waiter' = waiter
    BY DEF ProducerYield, IndInv, TypeOK, ownership, lifecycle
  <1>2. stage'[r] = "output" /\ \A q \in Requests : q # r => stage'[q] = stage[q]
    BY <1>1
  <1>3. TypeOK'
    <2>1. stage' \in [Requests -> Stages]
      BY <1>1 DEF Stages, Carried
    <2>2. started' \in 0 .. MaxStart
      BY EngineAssumption DEF ProducerYield, IndInv, TypeOK
    <2> QED BY <2>1, <2>2, <1>1 DEF ProducerYield, IndInv, TypeOK, seen, lifecycle
  <1>4. IdleExact' /\ UniqueIds' /\ ProducerFirst'
    BY <1>1 DEF IndInv, IdleExact, UniqueIds, ProducerFirst
  <1>5. IdBounds'
    BY <1>1, <1>2 DEF IndInv, IdBounds
  <1>6. OwnedUntilBoundary'
    BY <1>1, <1>2 DEF IndInv, OwnedUntilBoundary, Passed, Waiting
  <1>7. CompletionSound'
    BY <1>1 DEF IndInv, CompletionSound, ProducerFirst
  <1> QED BY <1>3, <1>4, <1>5, <1>6, <1>7 DEF IndInv

\* Spider.start returns.
LEMMA ProducerReturnInv == IndInv /\ ProducerReturn => IndInv'
  <1> SUFFICES ASSUME IndInv, ProducerReturn PROVE IndInv'
    OBVIOUS
  <1>1. TypeOK' /\ ProducerFirst' /\ CompletionSound'
    BY DEF ProducerReturn, IndInv, TypeOK, ProducerFirst, CompletionSound, ownership,
           lifecycle, seen
  <1> QED BY <1>1, ControlStepInv DEF ProducerReturn, ownership

\* The failure of the producer, which leaves every request where it is.
LEMMA ProducerFailsInv == IndInv /\ ProducerFails => IndInv'
  <1> SUFFICES ASSUME IndInv, ProducerFails PROVE IndInv'
    OBVIOUS
  <1>1. TypeOK' /\ ProducerFirst' /\ CompletionSound'
    BY DEF ProducerFails, IndInv, TypeOK, ProducerFirst, CompletionSound, ownership, seen
  <1> QED BY <1>1, ControlStepInv DEF ProducerFails, ownership

\* Every step that only moves one request on, or loses it.
LEMMA RequestMovesInv ==
    ASSUME NEW r \in Requests, IndInv,
           \/ SpiderOutput(r) \/ Get(r) \/ Dispatch(r) \/ ToDownloader(r)
           \/ ProcessResponse(r) \/ ProcessError(r) \/ RescheduleSame(r) \/ TaskFails(r)
    PROVE  IndInv'
  <1> USE DEF ownership, spiderVars, lifecycle, seen
  <1>1. stage \in [Requests -> Stages]
    BY DEF IndInv, TypeOK
  <1>2. ASSUME NEW s \in Stages, stage' = [stage EXCEPT ![r] = s]
        PROVE  stage' \in [Requests -> Stages]
    BY <1>1, <1>2
  <1>3. CASE SpiderOutput(r)
    <2>1. PICK s \in {"dropped", "enqueue"} : stage' = [stage EXCEPT ![r] = s]
      BY <1>3 DEF SpiderOutput
    <2>2. s \in Stages /\ s \notin Passed /\ s \notin {"fresh", "output"}
      BY DEF Stages, Carried, Waiting, Ended, Passed
    <2>3. TypeOK'
      BY <1>2, <2>1, <2>2, <1>3 DEF SpiderOutput, IndInv, TypeOK
    <2>4. stage[r] \in Carried \cup Waiting
      BY <1>3 DEF SpiderOutput, Carried
    <2> QED BY <2>1, <2>2, <2>3, <2>4, <1>3, StageStepInv DEF SpiderOutput
  <1>4. CASE Get(r)
    <2>1. "held" \in Stages \ {"fresh", "output"} /\ stage[r] \in Passed \ {"done"}
          /\ stage[r] \in Carried \cup Waiting
      BY <1>4 DEF Get, Stages, Waiting, Passed
    <2>2. TypeOK'
      BY <1>2, <2>1, <1>4 DEF Get, IndInv, TypeOK
    <2> QED BY <2>1, <2>2, <1>4, StageStepInv DEF Get
  <1>5. CASE Dispatch(r)
    <2>1. "intercept" \in Stages \ {"fresh", "output"} /\ stage[r] \in Passed \ {"done"}
          /\ stage[r] \in Carried \cup Waiting
      BY <1>5 DEF Dispatch, Stages, Carried, Waiting, Passed
    <2>2. TypeOK'
      BY <1>2, <2>1, <1>5 DEF Dispatch, IndInv, TypeOK
    <2> QED BY <2>1, <2>2, <1>5, StageStepInv DEF Dispatch
  <1>6. CASE ToDownloader(r)
    <2>1. "download" \in Stages \ {"fresh", "output"} /\ stage[r] \in Passed \ {"done"}
          /\ stage[r] \in Carried \cup Waiting
      BY <1>6 DEF ToDownloader, Stages, Carried, Passed
    <2>2. TypeOK'
      BY <1>2, <2>1, <1>6 DEF ToDownloader, IndInv, TypeOK
    <2> QED BY <2>1, <2>2, <1>6, StageStepInv DEF ToDownloader
  <1>7. CASE ProcessResponse(r)
    <2>1. "callback" \in Stages \ {"fresh", "output"} /\ stage[r] \in Passed \ {"done"}
          /\ stage[r] \in Carried \cup Waiting
      BY <1>7 DEF ProcessResponse, Stages, Carried, Passed
    <2>2. stage' \in [Requests -> Stages]
      BY <1>2, <2>1, <1>7 DEF ProcessResponse
    <2>3. sentSeen' \in SUBSET {Fp[q] : q \in Requests}
      BY <1>7 DEF ProcessResponse, IndInv, TypeOK
    <2>4. TypeOK'
      BY <2>2, <2>3, <1>7 DEF ProcessResponse, IndInv, TypeOK
    <2> QED BY <2>1, <2>4, <1>7, StageStepInv DEF ProcessResponse
  <1>8. CASE ProcessError(r)
    <2>1. "callback" \in Stages \ {"fresh", "output"} /\ stage[r] \in Passed \ {"done"}
          /\ stage[r] \in Carried \cup Waiting
      BY <1>8 DEF ProcessError, Stages, Carried, Passed
    <2>2. TypeOK'
      BY <1>2, <2>1, <1>8 DEF ProcessError, IndInv, TypeOK
    <2> QED BY <2>1, <2>2, <1>8, StageStepInv DEF ProcessError
  <1>9. CASE RescheduleSame(r)
    <2>1. "enqueue" \in Stages \ {"fresh", "output"} /\ "enqueue" \notin Passed
          /\ stage[r] \in Carried \cup Waiting
      BY <1>9 DEF RescheduleSame, Stages, Carried, Waiting, Passed
    <2>2. stage' \in [Requests -> Stages]
      BY <1>2, <2>1, <1>9 DEF RescheduleSame
    <2>3. reschedules' \in [retries : 0 .. MaxRetries, replacements : 0 .. MaxReplacements]
      BY EngineAssumption, <1>9 DEF RescheduleSame, IndInv, TypeOK
    <2>4. TypeOK'
      BY <2>2, <2>3, <1>9 DEF RescheduleSame, IndInv, TypeOK
    <2> QED BY <2>1, <2>4, <1>9, StageStepInv DEF RescheduleSame
  <1>10. CASE TaskFails(r)
    <2>1. "lost" \in Stages \ {"fresh", "output"} /\ "lost" \notin Passed
          /\ stage[r] \in Carried \cup Waiting
      BY <1>10 DEF TaskFails, Stages, Carried, Ended, Waiting, Passed
    <2>2. TypeOK'
      BY <1>2, <2>1, <1>10 DEF TaskFails, IndInv, TypeOK
    <2> QED BY <2>1, <2>2, <1>10, StageStepInv DEF TaskFails
  <1> QED BY <1>3, <1>4, <1>5, <1>6, <1>7, <1>8, <1>9, <1>10

\* enqueue_request: a request that is put is owned, under its own id.
LEMMA EnqueueRequestInv ==
    ASSUME NEW r \in Requests, NEW carried \in Nat, IndInv, waiter # "sent",
           stage[r] \in {"fresh", "enqueue"},
           carried = meta[r],
           EnqueueRequest(r, carried)
    PROVE  IndInv'
  <1> DEFINE id == IF carried = NoId THEN workSeq + 1 ELSE carried
             stillIdle == idle /\ id \in pendingIds
  <1>1. /\ stage \in [Requests -> Stages] /\ meta \in [Requests -> Nat] /\ workSeq \in Nat
        /\ pendingIds \in SUBSET Nat /\ idle \in BOOLEAN
        /\ \A q \in Requests : meta[q] <= workSeq
    BY DEF IndInv, TypeOK, IdBounds
  <1>2. id \in Nat /\ id # NoId /\ id > 0
    BY <1>1 DEF NoId
  <1>3. /\ meta' = [meta EXCEPT ![r] = id]
        /\ workSeq' = IF carried = NoId THEN workSeq + 1 ELSE workSeq
        /\ producer' = producer /\ started' = started /\ waiter' = waiter /\ phase' = phase
        /\ sentSeen' = sentSeen /\ reschedules' = reschedules
        /\ newSeen' = IF r \in DontFilter THEN newSeen ELSE newSeen \cup {Fp[r]}
    BY DEF EnqueueRequest, WorkId, spiderVars
  <1>4. \/ /\ stage' = [stage EXCEPT ![r] = "queued"]
           /\ pendingIds' = pendingIds \cup {id} /\ idle' = stillIdle /\ error' = error
        \/ /\ stage' = [stage EXCEPT ![r] = "dropped"]
           /\ pendingIds' = (pendingIds \cup {id}) \ {id}
           /\ idle' = (stillIdle \/ (pendingIds \cup {id}) \ {id} = {}) /\ error' = error
        \/ /\ stage' = [stage EXCEPT ![r] = "lost"]
           /\ pendingIds' = (pendingIds \cup {id}) \ {id}
           /\ idle' = (stillIdle \/ (pendingIds \cup {id}) \ {id} = {}) /\ error' = TRUE
    BY DEF EnqueueRequest, WorkId, Release
  <1>5. workSeq' \in Nat /\ workSeq <= workSeq' /\ id <= workSeq'
    BY <1>1, <1>3 DEF NoId
  <1>6. \A q \in Requests : q # r => meta[q] # id
    <2>1. CASE carried = NoId
      BY <2>1, <1>1 DEF NoId
    <2>2. CASE carried # NoId
      BY <2>2 DEF IndInv, UniqueIds
    <2> QED BY <2>1, <2>2
  <1>7. meta'[r] = id /\ \A q \in Requests : q # r => meta'[q] = meta[q]
    BY <1>1, <1>3
  <1>8. stage'[r] \in {"queued", "dropped", "lost"}
        /\ \A q \in Requests : q # r => stage'[q] = stage[q]
    BY <1>1, <1>4
  <1>9. /\ stage'[r] = "queued" => id \in pendingIds'
        /\ \A x \in pendingIds : x # id => x \in pendingIds'
    <2>1. CASE stage' = [stage EXCEPT ![r] = "queued"]
      <3>1. pendingIds' = pendingIds \cup {id}
        BY <2>1, <1>1, <1>4
      <3> HIDE DEF id
      <3> QED BY <3>1
    <2>2. CASE stage' # [stage EXCEPT ![r] = "queued"]
      <3>1. pendingIds' = (pendingIds \cup {id}) \ {id} /\ stage'[r] # "queued"
        BY <2>2, <1>1, <1>4
      <3> HIDE DEF id
      <3> QED BY <3>1
    <2> QED BY <2>1, <2>2
  <1>10. IdleExact'
    <2>1. idle <=> pendingIds = {}
      BY DEF IndInv, IdleExact
    <2>2. stillIdle = FALSE
      BY <2>1
    <2> HIDE DEF id, stillIdle
    <2>3. CASE pendingIds' = pendingIds \cup {id} /\ idle' = stillIdle
      BY <2>2, <2>3 DEF IdleExact
    <2>4. CASE /\ pendingIds' = (pendingIds \cup {id}) \ {id}
               /\ idle' = (stillIdle \/ (pendingIds \cup {id}) \ {id} = {})
      BY <2>2, <2>4 DEF IdleExact
    <2> QED BY <2>3, <2>4, <1>4
  <1> HIDE DEF id, stillIdle
  <1>11. TypeOK'
    <2>1. stage' \in [Requests -> Stages]
      BY <1>1, <1>4 DEF Stages, Waiting, Ended
    <2>2. meta' \in [Requests -> Nat]
      BY <1>1, <1>2, <1>3
    <2>3. pendingIds' \in SUBSET Nat /\ idle' \in BOOLEAN /\ error' \in BOOLEAN
      <3>1. idle' \in BOOLEAN
        BY <1>4, <1>1 DEF stillIdle
      <3>2. pendingIds' \in SUBSET Nat
        BY <1>4, <1>1, <1>2
      <3>3. error' \in BOOLEAN
        BY <1>4 DEF IndInv, TypeOK
      <3> QED BY <3>1, <3>2, <3>3
    <2>4. newSeen' \in SUBSET {Fp[q] : q \in Requests}
      BY <1>3 DEF IndInv, TypeOK
    <2> QED BY <2>1, <2>2, <2>3, <2>4, <1>3, <1>5 DEF IndInv, TypeOK
  <1>12. IdBounds'
    <2>1. ASSUME NEW q \in Requests PROVE meta'[q] <= workSeq'
      <3>1. CASE q = r
        BY <3>1, <1>5, <1>7
      <3>2. CASE q # r
        <4>1. meta[q] \in Nat /\ meta[q] <= workSeq
          BY <1>1
        <4> QED BY <3>2, <4>1, <1>1, <1>5, <1>7
      <3> QED BY <3>1, <3>2
    <2>2. \A q \in Requests : stage'[q] \in {"fresh", "output"} => meta'[q] = NoId
      BY <1>7, <1>8 DEF IndInv, IdBounds
    <2> QED BY <2>1, <2>2 DEF IdBounds
  <1>13. UniqueIds'
    BY <1>6, <1>7 DEF IndInv, UniqueIds
  <1>14. OwnedUntilBoundary'
    <2> SUFFICES ASSUME NEW q \in Requests, stage'[q] \in Passed \ {"done"}
                 PROVE  meta'[q] # NoId /\ meta'[q] \in pendingIds'
      BY DEF OwnedUntilBoundary
    <2>1. CASE q = r
      BY <2>1, <1>2, <1>7, <1>8, <1>9 DEF Passed, Waiting
    <2>2. CASE q # r
      BY <2>2, <1>6, <1>7, <1>8, <1>9 DEF IndInv, OwnedUntilBoundary
    <2> QED BY <2>1, <2>2
  <1>15. ProducerFirst' /\ CompletionSound'
    BY <1>3 DEF IndInv, ProducerFirst, CompletionSound
  <1> QED BY <1>10, <1>11, <1>12, <1>13, <1>14, <1>15 DEF IndInv

\* An enqueue_request task, and a child that a callback yields.
LEMMA EnqueueInv == ASSUME NEW r \in Requests PROVE IndInv /\ Enqueue(r) => IndInv'
  <1> SUFFICES ASSUME IndInv, Enqueue(r) PROVE IndInv'
    OBVIOUS
  <1>1. stage[r] = "enqueue" /\ EnqueueRequest(r, meta[r])
    BY DEF Enqueue
  <1>2. waiter # "sent"
    BY <1>1, NotSent DEF Carried
  <1>3. meta[r] \in Nat
    BY DEF IndInv, TypeOK
  <1> QED BY <1>1, <1>2, <1>3, EnqueueRequestInv

\* A callback's child has no id yet when requests do not share meta.
LEMMA CallbackYieldInv ==
    ASSUME NEW r \in Requests, NEW c \in Requests, ~SharedMeta
    PROVE  IndInv /\ CallbackYield(r, c) => IndInv'
  <1> SUFFICES ASSUME IndInv, CallbackYield(r, c) PROVE IndInv'
    OBVIOUS
  <1>1. stage[r] = "callback" /\ stage[c] = "fresh" /\ meta[c] = NoId /\ NoId \in Nat
    BY DEF CallbackYield, IndInv, IdBounds, NoId
  <1>2. waiter # "sent"
    BY <1>1, NotSent DEF Carried
  <1>3. CASE EnqueueRequest(c, NoId)
    BY <1>1, <1>2, <1>3, EnqueueRequestInv
  <1>4. CASE /\ stage' = [stage EXCEPT ![c] = "dropped"]
             /\ UNCHANGED <<spiderVars, ownership, seen, lifecycle, reschedules>>
    <2>1. /\ stage \in [Requests -> Stages] /\ meta' = meta /\ workSeq' = workSeq
          /\ pendingIds' = pendingIds /\ idle' = idle /\ producer' = producer
          /\ waiter' = waiter
      BY <1>4 DEF IndInv, TypeOK, ownership, spiderVars, lifecycle
    <2>2. stage'[c] = "dropped" /\ \A q \in Requests : q # c => stage'[q] = stage[q]
      BY <1>4, <2>1
    <2>3. TypeOK'
      <3>1. stage' \in [Requests -> Stages]
        BY <1>4, <2>1 DEF Stages, Ended
      <3> QED BY <3>1, <1>4 DEF IndInv, TypeOK, ownership, spiderVars, lifecycle, seen
    <2>4. IdBounds'
      BY <2>1, <2>2 DEF IndInv, IdBounds
    <2>5. OwnedUntilBoundary'
      BY <2>1, <2>2 DEF IndInv, OwnedUntilBoundary, Passed, Waiting
    <2>6. IdleExact' /\ UniqueIds' /\ ProducerFirst' /\ CompletionSound'
      BY <2>1, <1>2 DEF IndInv, IdleExact, UniqueIds, ProducerFirst, CompletionSound
    <2> QED BY <2>3, <2>4, <2>5, <2>6 DEF IndInv
  <1> QED BY <1>3, <1>4 DEF CallbackYield, InheritedIds

\* Completing a request gives up its own id only.
LEMMA CompleteRequestInv ==
    ASSUME NEW r \in Requests PROVE IndInv /\ CompleteRequest(r) => IndInv'
  <1> SUFFICES ASSUME IndInv, CompleteRequest(r) PROVE IndInv'
    OBVIOUS
  <1>1. /\ stage \in [Requests -> Stages] /\ stage[r] \in {"intercept", "download", "callback"}
        /\ stage' = [stage EXCEPT ![r] = "done"]
        /\ meta' = meta /\ workSeq' = workSeq /\ producer' = producer /\ waiter' = waiter
        /\ pendingIds' = pendingIds \ {meta[r]}
        /\ idle' = (idle \/ pendingIds \ {meta[r]} = {})
    BY DEF CompleteRequest, Release, IndInv, TypeOK, spiderVars, lifecycle
  <1>2. stage'[r] = "done" /\ \A q \in Requests : q # r => stage'[q] = stage[q]
    BY <1>1
  <1>3. meta[r] # NoId /\ meta[r] \in pendingIds
    BY <1>1 DEF IndInv, OwnedUntilBoundary, Passed
  <1>4. waiter # "sent"
    BY <1>1, NotSent DEF Carried
  <1>5. TypeOK'
    <2>1. stage' \in [Requests -> Stages]
      BY <1>1 DEF Stages, Ended
    <2>2. pendingIds' \in SUBSET Nat
      BY <1>1 DEF IndInv, TypeOK
    <2>3. idle' \in BOOLEAN
      BY <1>1 DEF IndInv, TypeOK
    <2> QED BY <2>1, <2>2, <2>3, <1>1
            DEF CompleteRequest, IndInv, TypeOK, spiderVars, lifecycle, seen
  <1>6. IdleExact'
    BY <1>1, <1>3 DEF IndInv, IdleExact
  <1>7. IdBounds' /\ UniqueIds'
    BY <1>1, <1>2 DEF IndInv, IdBounds, UniqueIds
  <1>8. OwnedUntilBoundary'
    <2> SUFFICES ASSUME NEW q \in Requests, stage'[q] \in Passed \ {"done"}
                 PROVE  meta[q] # NoId /\ meta[q] \in pendingIds'
      BY <1>1 DEF OwnedUntilBoundary
    <2>1. q # r
      BY <1>2
    <2>2. meta[q] # NoId /\ meta[q] \in pendingIds
      BY <2>1, <1>2 DEF IndInv, OwnedUntilBoundary
    <2>3. meta[q] # meta[r]
      BY <2>1, <2>2 DEF IndInv, UniqueIds
    <2> QED BY <2>2, <2>3, <1>1
  <1>9. ProducerFirst' /\ CompletionSound'
    BY <1>1, <1>4 DEF IndInv, ProducerFirst, CompletionSound
  <1> QED BY <1>5, <1>6, <1>7, <1>8, <1>9 DEF IndInv

\* A replacement starts without an id; the request it replaces keeps its own.
LEMMA RescheduleNewInv ==
    ASSUME NEW r \in Requests, NEW n \in Requests, ~SharedMeta
    PROVE  IndInv /\ RescheduleNew(r, n) => IndInv'
  <1> SUFFICES ASSUME IndInv, RescheduleNew(r, n) PROVE IndInv'
    OBVIOUS
  <1>1. /\ stage \in [Requests -> Stages] /\ stage[n] = "fresh" /\ meta[n] = NoId
        /\ stage[r] \in {"intercept", "download"} /\ meta \in [Requests -> Nat]
        /\ stage' = [stage EXCEPT ![r] = "replaced", ![n] = "enqueue"]
        /\ workSeq' = workSeq /\ pendingIds' = pendingIds /\ idle' = idle
        /\ producer' = producer /\ waiter' = waiter
    BY DEF RescheduleNew, IndInv, TypeOK, IdBounds, spiderVars, lifecycle
  <1>2. meta' = meta
    <2>1. meta' = [meta EXCEPT ![n] = NoId]
      BY DEF RescheduleNew, InheritedIds
    <2> QED BY <2>1, <1>1
  <1>3. /\ stage'[r] = "replaced" /\ stage'[n] = "enqueue"
        /\ \A q \in Requests : q # r /\ q # n => stage'[q] = stage[q]
    BY <1>1
  <1>4. waiter # "sent"
    BY <1>1, NotSent DEF Carried
  <1>5. TypeOK'
    <2>1. stage' \in [Requests -> Stages]
      BY <1>1 DEF Stages, Ended, Carried
    <2>2. reschedules' \in [retries : 0 .. MaxRetries, replacements : 0 .. MaxReplacements]
      BY EngineAssumption DEF RescheduleNew, IndInv, TypeOK
    <2> QED BY <2>1, <2>2, <1>1, <1>2
            DEF RescheduleNew, IndInv, TypeOK, spiderVars, lifecycle, seen
  <1>6. IdBounds'
    BY <1>1, <1>2, <1>3 DEF IndInv, IdBounds
  <1>7. OwnedUntilBoundary'
    BY <1>1, <1>2, <1>3 DEF IndInv, OwnedUntilBoundary, Passed, Waiting
  <1>8. IdleExact' /\ UniqueIds' /\ ProducerFirst' /\ CompletionSound'
    BY <1>1, <1>2, <1>4 DEF IndInv, IdleExact, UniqueIds, ProducerFirst, CompletionSound
  <1> QED BY <1>5, <1>6, <1>7, <1>8 DEF IndInv

\* Completion is announced when no task carries a request and none is owned.
LEMMA AwaitInv == IndInv /\ (AwaitProducer \/ AwaitIdle \/ AwaitQuiescent) => IndInv'
  <1> SUFFICES ASSUME IndInv, AwaitProducer \/ AwaitIdle \/ AwaitQuiescent PROVE IndInv'
    OBVIOUS
  <1>1. UNCHANGED <<stage, meta, workSeq, pendingIds, idle, producer>>
    BY DEF AwaitProducer, AwaitIdle, AwaitQuiescent, ownership, spiderVars
  <1>2. TypeOK'
    BY DEF AwaitProducer, AwaitIdle, AwaitQuiescent, IndInv, TypeOK, ownership, spiderVars, seen
  <1>3. ProducerFirst'
    BY DEF AwaitProducer, AwaitIdle, AwaitQuiescent, IndInv, ProducerFirst, spiderVars
  <1>4. CompletionSound'
    <2> SUFFICES ASSUME waiter' = "sent", NEW r \in Requests
                 PROVE  stage[r] \notin Carried \cup Waiting
      BY <1>1 DEF CompletionSound
    <2>1. AwaitQuiescent /\ idle /\ stage[r] \notin Carried
      BY DEF AwaitProducer, AwaitIdle, AwaitQuiescent
    <2>2. pendingIds = {}
      BY <2>1 DEF IndInv, IdleExact
    <2> QED BY <2>1, <2>2 DEF IndInv, OwnedUntilBoundary, Passed, Waiting
  <1> QED BY <1>1, <1>2, <1>3, <1>4, ControlStepInv

\* Engine.start cancels its loops, waits for its tasks and closes.
LEMMA StopInv == IndInv /\ (Stop \/ Close) => IndInv'
  <1> SUFFICES ASSUME IndInv, Stop \/ Close PROVE IndInv'
    OBVIOUS
  <1> USE DEF ownership, spiderVars, lifecycle, seen
  <1>1. CASE Close
    <2>1. TypeOK' /\ ProducerFirst' /\ CompletionSound'
      BY <1>1 DEF Close, IndInv, TypeOK, ProducerFirst, CompletionSound
    <2> QED BY <2>1, <1>1, ControlStepInv DEF Close
  <1>2. CASE Stop
    <2>1. /\ meta' = meta /\ workSeq' = workSeq /\ pendingIds' = pendingIds /\ idle' = idle
          /\ waiter' = waiter /\ producer' = "done"
      BY <1>2 DEF Stop
    <2>2. \A r \in Requests : stage'[r] = IF stage[r] = "held" THEN "lost" ELSE stage[r]
      BY <1>2 DEF Stop
    <2>3. TypeOK'
      <3>1. stage' \in [Requests -> Stages]
        BY <1>2 DEF Stop, IndInv, TypeOK, Stages, Ended
      <3> QED BY <3>1, <1>2 DEF Stop, IndInv, TypeOK
    <2>4. IdBounds'
      BY <2>1, <2>2 DEF IndInv, IdBounds
    <2>5. OwnedUntilBoundary'
      BY <2>1, <2>2 DEF IndInv, OwnedUntilBoundary, Passed, Waiting
    <2>6. IdleExact' /\ UniqueIds' /\ ProducerFirst'
      BY <2>1 DEF IndInv, IdleExact, UniqueIds, ProducerFirst
    <2>7. CompletionSound'
      BY <2>1, <2>2 DEF IndInv, CompletionSound, Carried, Waiting
    <2> QED BY <2>3, <2>4, <2>5, <2>6, <2>7 DEF IndInv
  <1> QED BY <1>1, <1>2

\* A step that changes nothing.
LEMMA StutterInv == IndInv /\ UNCHANGED vars => IndInv'
  <1> SUFFICES ASSUME IndInv, UNCHANGED vars PROVE IndInv'
    OBVIOUS
  <1>1. TypeOK' /\ ProducerFirst' /\ CompletionSound'
    BY DEF vars, ownership, spiderVars, lifecycle, seen, IndInv, TypeOK, ProducerFirst,
           CompletionSound
  <1> QED BY <1>1, ControlStepInv DEF vars, ownership

\* The invariant is inductive for spiders that do not share meta.
THEOREM Inductive == ASSUME ~SharedMeta PROVE IndInv /\ [Next]_vars => IndInv'
  <1> SUFFICES ASSUME IndInv, [Next]_vars PROVE IndInv'
    OBVIOUS
  <1>1. ASSUME NEW r \in Requests, RequestStep(r) PROVE IndInv'
    BY <1>1, RequestMovesInv, EnqueueInv, CompleteRequestInv DEF RequestStep
  <1>2. ASSUME NEW r \in Requests, RescheduleSame(r) \/ TaskFails(r) PROVE IndInv'
    BY <1>2, RequestMovesInv
  <1>3. ASSUME NEW r \in Requests, NEW q \in Requests, RescheduleNew(r, q) PROVE IndInv'
    BY <1>3, RescheduleNewInv
  <1>4. ASSUME NEW r \in Requests, NEW q \in Requests, CallbackYield(r, q) PROVE IndInv'
    BY <1>4, CallbackYieldInv
  <1> QED BY <1>1, <1>2, <1>3, <1>4, ProducerYieldInv, ProducerReturnInv,
             ProducerFailsInv, AwaitInv, StopInv, StutterInv DEF Next, Terminated

\* scheduler_empty is sent only when no request of the crawl is queued, held,
\* downloading or in a callback.
THEOREM CompletionIsSound == ASSUME ~SharedMeta PROVE Spec => []CompletionSound
  <1>1. IndInv => CompletionSound
    BY DEF IndInv
  <1>2. IndInv /\ [Next]_vars => IndInv'
    BY Inductive
  <1> QED BY InitInv, <1>1, <1>2, PTL DEF Spec

\* An accepted request is owned until its callback boundary.
THEOREM OwnershipHolds == ASSUME ~SharedMeta PROVE Spec => []OwnedUntilBoundary
  <1>1. IndInv => OwnedUntilBoundary
    BY DEF IndInv
  <1>2. IndInv /\ [Next]_vars => IndInv'
    BY Inductive
  <1> QED BY InitInv, <1>1, <1>2, PTL DEF Spec

-----------------------------------------------------------------------------
\* What a request that passed the scheduler leaves in the filter.  A request an
\* interceptor hands back is enqueued again and has passed no longer, but its
\* fingerprint stays.
PassedSeen ==
    \A r \in Requests \ DontFilter :
        stage[r] \in Passed => Fp[r] \in newSeen \cup sentSeen

\* The inductive invariant of the filter, with or without shared meta.
FilterInv == FetchedOnce /\ PassedSeen

\* A step that lets nobody pass the scheduler and forgets no fingerprint.
LEMMA NobodyPasses ==
    ASSUME FilterInv, TypeOK',
           \A q \in Requests : stage'[q] \in Passed => stage[q] \in Passed,
           newSeen \subseteq newSeen', sentSeen \subseteq sentSeen'
    PROVE  FilterInv'
BY DEF FilterInv, FetchedOnce, PassedSeen

\* A request moves on, or a task of it fails.
LEMMA MovesFilter ==
    ASSUME FilterInv, NEW r \in Requests, NEW s \in Stages, stage' = [stage EXCEPT ![r] = s],
           s \in Passed => stage[r] \in Passed,
           UNCHANGED <<ownership, newSeen, waiter, phase, producer>>,
           started' \in 0 .. MaxStart, error' \in BOOLEAN,
           sentSeen' \in SUBSET {Fp[q] : q \in Requests}, sentSeen \subseteq sentSeen',
           reschedules' \in [retries : 0 .. MaxRetries, replacements : 0 .. MaxReplacements]
    PROVE  FilterInv'
  <1>1. TypeOK
    BY DEF FilterInv, FetchedOnce
  <1>2. TypeOK'
    BY <1>1 DEF TypeOK, ownership
  <1>3. \A q \in Requests : stage'[q] \in Passed => stage[q] \in Passed
    BY <1>1 DEF TypeOK
  <1> QED BY <1>2, <1>3, NobodyPasses

\* The producer yields, or a request is handed from one task to the next.
LEMMA StepsFilter ==
    ASSUME FilterInv, NEW r \in Requests,
           \/ ProducerYield(r) \/ SpiderOutput(r) \/ Get(r) \/ Dispatch(r) \/ ToDownloader(r)
           \/ ProcessResponse(r) \/ ProcessError(r) \/ RescheduleSame(r) \/ TaskFails(r)
    PROVE  FilterInv'
  <1> USE DEF Passed, Waiting, Stages, Carried, Ended, spiderVars, seen, lifecycle
  <1>1. TypeOK
    BY DEF FilterInv, FetchedOnce
  <1>2. /\ started \in 0 .. MaxStart /\ error \in BOOLEAN
        /\ sentSeen \in SUBSET {Fp[q] : q \in Requests}
        /\ reschedules \in [retries : 0 .. MaxRetries, replacements : 0 .. MaxReplacements]
    BY <1>1 DEF TypeOK
  <1>3. CASE ProducerYield(r)
    <2>1. started' \in 0 .. MaxStart
      BY <1>2, <1>3, EngineAssumption DEF ProducerYield
    <2> QED BY <1>2, <1>3, <2>1, MovesFilter DEF ProducerYield
  <1>4. CASE SpiderOutput(r)
    BY <1>2, <1>4, MovesFilter DEF SpiderOutput
  <1>5. CASE Get(r)
    BY <1>2, <1>5, MovesFilter DEF Get
  <1>6. CASE Dispatch(r)
    BY <1>2, <1>6, MovesFilter DEF Dispatch
  <1>7. CASE ToDownloader(r)
    BY <1>2, <1>7, MovesFilter DEF ToDownloader
  <1>8. CASE ProcessResponse(r)
    BY <1>2, <1>8, MovesFilter DEF ProcessResponse
  <1>9. CASE ProcessError(r)
    BY <1>2, <1>9, MovesFilter DEF ProcessError
  <1>10. CASE RescheduleSame(r)
    <2>1. reschedules' \in [retries : 0 .. MaxRetries, replacements : 0 .. MaxReplacements]
      BY <1>2, <1>10, EngineAssumption DEF RescheduleSame
    <2> QED BY <1>2, <1>10, <2>1, MovesFilter DEF RescheduleSame
  <1>11. CASE TaskFails(r)
    BY <1>2, <1>11, MovesFilter DEF TaskFails
  <1> QED BY <1>3, <1>4, <1>5, <1>6, <1>7, <1>8, <1>9, <1>10, <1>11

\* What a release leaves is typed.
LEMMA ReleaseTyped ==
    ASSUME NEW id \in Nat, NEW owned \in SUBSET Nat, NEW was \in BOOLEAN,
           Release(id, owned, was)
    PROVE  pendingIds' \in SUBSET Nat /\ idle' \in BOOLEAN
BY DEF Release

\* The request's callback ended.
LEMMA CompleteFilter ==
    ASSUME FilterInv, NEW r \in Requests, CompleteRequest(r)
    PROVE  FilterInv'
  <1>1. TypeOK
    BY DEF FilterInv, FetchedOnce
  <1>2. pendingIds' \in SUBSET Nat /\ idle' \in BOOLEAN
    <2>1. meta[r] \in Nat /\ pendingIds \in SUBSET Nat /\ idle \in BOOLEAN
      BY <1>1 DEF TypeOK
    <2>2. Release(meta[r], pendingIds, idle)
      BY DEF CompleteRequest
    <2> QED BY <2>1, <2>2, ReleaseTyped
  <1>3. TypeOK'
    BY <1>1, <1>2 DEF TypeOK, CompleteRequest, Stages, Ended, spiderVars, seen, lifecycle
  <1>4. \A q \in Requests : stage'[q] \in Passed => stage[q] \in Passed
    BY <1>1 DEF TypeOK, CompleteRequest, Passed
  <1> QED BY <1>3, <1>4, NobodyPasses DEF CompleteRequest, seen

\* Only enqueue_request lets a request pass, when its fingerprint is unseen.
LEMMA EnqueueFilter ==
    ASSUME FilterInv, NEW r \in Requests, NEW carried \in Nat, stage[r] \in {"enqueue", "fresh"},
           EnqueueRequest(r, carried)
    PROVE  FilterInv'
  <1> DEFINE id == WorkId(carried)
             tracked == pendingIds \cup {id}
             stillIdle == idle /\ id \in pendingIds
  <1>1. TypeOK
    BY DEF FilterInv, FetchedOnce
  <1>2. id \in Nat /\ tracked \in SUBSET Nat /\ workSeq' \in Nat
    BY <1>1 DEF TypeOK, WorkId, EnqueueRequest
  <1>3. stillIdle \in BOOLEAN
    OBVIOUS
  <1>4. /\ meta' = [meta EXCEPT ![r] = id]
        /\ newSeen' = IF r \in DontFilter THEN newSeen ELSE newSeen \cup {Fp[r]}
        /\ producer' = producer /\ started' = started /\ sentSeen' = sentSeen
        /\ waiter' = waiter /\ phase' = phase /\ reschedules' = reschedules
    BY DEF EnqueueRequest, spiderVars
  <1>5. \/ ~Duplicate(r) /\ stage' = [stage EXCEPT ![r] = "queued"]
        \/ stage' = [stage EXCEPT ![r] = "dropped"]
        \/ stage' = [stage EXCEPT ![r] = "lost"]
    BY DEF EnqueueRequest
  <1>6. pendingIds' \in SUBSET Nat /\ idle' \in BOOLEAN
    <2>1. \/ pendingIds' = tracked /\ idle' = stillIdle
          \/ Release(id, tracked, stillIdle)
      BY DEF EnqueueRequest
    <2> HIDE DEF id, tracked, stillIdle
    <2> QED BY <2>1, <1>2, <1>3, ReleaseTyped
  <1>7. error' \in BOOLEAN
    BY <1>1 DEF EnqueueRequest, TypeOK
  <1>8. stage' \in [Requests -> Stages]
    BY <1>1, <1>5 DEF TypeOK, Stages, Waiting, Ended
  <1>9. meta' \in [Requests -> Nat]
    <2> HIDE DEF id
    <2> QED BY <1>1, <1>2, <1>4 DEF TypeOK
  <1>10. TypeOK'
    BY <1>1, <1>2, <1>4, <1>6, <1>7, <1>8, <1>9 DEF TypeOK
  <1>11. \A q \in Requests : q # r => stage'[q] = stage[q]
    BY <1>1, <1>5 DEF TypeOK
  <1>12. newSeen \subseteq newSeen' /\ (r \notin DontFilter => Fp[r] \in newSeen')
    BY <1>4
  <1>13. PassedSeen'
    BY <1>4, <1>11, <1>12 DEF FilterInv, PassedSeen
  <1>14. CASE stage' # [stage EXCEPT ![r] = "queued"]
    <2>1. \A q \in Requests : stage'[q] \in Passed => stage[q] \in Passed
      BY <1>1, <1>5, <1>14 DEF TypeOK, Passed, Waiting
    <2> QED BY <1>4, <1>10, <1>12, <2>1, NobodyPasses
  <1>15. CASE ~Duplicate(r)
    <2>1. ASSUME NEW q \in Requests \ DontFilter, r \notin DontFilter, q # r, Fp[r] = Fp[q]
          PROVE  stage'[q] \notin Passed
      BY <1>11, <1>15, <2>1 DEF Duplicate, FilterInv, PassedSeen
    <2>2. FetchedOnce'
      BY <1>10, <1>11, <2>1 DEF FilterInv, FetchedOnce
    <2> QED BY <1>13, <2>2 DEF FilterInv
  <1> QED BY <1>5, <1>14, <1>15, <1>8, <1>1 DEF TypeOK, Stages

\* An interceptor returns another request, which has not passed yet.
LEMMA RescheduleNewFilter ==
    ASSUME FilterInv, NEW r \in Requests, NEW n \in Requests, RescheduleNew(r, n)
    PROVE  FilterInv'
  <1>1. TypeOK
    BY DEF FilterInv, FetchedOnce
  <1>2. PICK carried \in Nat : meta' = [meta EXCEPT ![n] = carried]
    BY <1>1 DEF RescheduleNew, InheritedIds, TypeOK, NoId
  <1>3. reschedules' \in [retries : 0 .. MaxRetries, replacements : 0 .. MaxReplacements]
    BY <1>1, EngineAssumption DEF RescheduleNew, TypeOK
  <1>4. stage' = [stage EXCEPT ![r] = "replaced", ![n] = "enqueue"]
    BY DEF RescheduleNew
  <1>5. stage' \in [Requests -> Stages] /\ meta' \in [Requests -> Nat]
    BY <1>1, <1>2, <1>4 DEF TypeOK, Stages, Carried, Ended
  <1>6. TypeOK'
    BY <1>1, <1>3, <1>5 DEF TypeOK, RescheduleNew, spiderVars, seen, lifecycle
  <1>7. \A q \in Requests : stage'[q] \in Passed => stage[q] \in Passed
    BY <1>1, <1>4 DEF TypeOK, Passed, Waiting
  <1> QED BY <1>6, <1>7, NobodyPasses DEF RescheduleNew, seen

\* A callback yields a request, which is enqueued or filtered.
LEMMA CallbackYieldFilter ==
    ASSUME FilterInv, NEW r \in Requests, NEW c \in Requests, CallbackYield(r, c)
    PROVE  FilterInv'
  <1>1. TypeOK
    BY DEF FilterInv, FetchedOnce
  <1>2. CASE \E carried \in InheritedIds(r) : EnqueueRequest(c, carried)
    <2>1. PICK carried \in InheritedIds(r) : EnqueueRequest(c, carried)
      BY <1>2
    <2>2. carried \in Nat
      BY <1>1 DEF InheritedIds, TypeOK, NoId
    <2> QED BY <2>1, <2>2, EnqueueFilter DEF CallbackYield
  <1>3. CASE /\ stage' = [stage EXCEPT ![c] = "dropped"]
             /\ UNCHANGED <<spiderVars, ownership, seen, lifecycle, reschedules>>
    <2>1. TypeOK'
      BY <1>1, <1>3 DEF TypeOK, spiderVars, ownership, seen, lifecycle, Stages, Ended
    <2>2. \A q \in Requests : stage'[q] \in Passed => stage[q] \in Passed
      BY <1>1, <1>3 DEF TypeOK, Passed, Waiting
    <2> QED BY <1>3, <2>1, <2>2, NobodyPasses DEF seen
  <1> QED BY <1>2, <1>3 DEF CallbackYield

\* The producer ends, the waiter goes on, the engine stops: requests only end.
LEMMA ControlFilter ==
    ASSUME FilterInv,
           \/ ProducerReturn \/ ProducerFails \/ AwaitProducer \/ AwaitIdle \/ AwaitQuiescent
           \/ Stop \/ Close \/ Terminated \/ UNCHANGED vars
    PROVE  FilterInv'
  <1>1. TypeOK
    BY DEF FilterInv, FetchedOnce
  <1>2. UNCHANGED <<ownership, seen, reschedules, started>>
    BY DEF ProducerReturn, ProducerFails, AwaitProducer, AwaitIdle, AwaitQuiescent, Stop, Close,
           Terminated, vars, spiderVars
  <1>3. /\ producer' \in {"running", "done", "failed"}
        /\ waiter' \in {"producer", "idle", "quiescent", "sent"}
        /\ phase' \in {"running", "stopping", "closed"} /\ error' \in BOOLEAN
    BY <1>1 DEF TypeOK, ProducerReturn, ProducerFails, AwaitProducer, AwaitIdle, AwaitQuiescent,
           Stop, Close, Terminated, vars, spiderVars, lifecycle
  <1>4. /\ stage' \in [Requests -> Stages]
        /\ \A q \in Requests : stage'[q] \in Passed => stage[q] \in Passed
    <2>1. CASE Stop
      BY <1>1, <2>1 DEF TypeOK, Stop, Stages, Ended, Passed, Waiting
    <2>2. CASE ~Stop
      <3>1. stage' = stage
        BY <2>2 DEF ProducerReturn, ProducerFails, AwaitProducer, AwaitIdle, AwaitQuiescent,
               Close, Terminated, vars
      <3> QED BY <1>1, <3>1 DEF TypeOK
    <2> QED BY <2>1, <2>2
  <1>5. TypeOK'
    BY <1>1, <1>2, <1>3, <1>4 DEF TypeOK, ownership, seen
  <1> QED BY <1>2, <1>4, <1>5, NobodyPasses DEF seen

\* Of the requests that obey the filter no two with the same fingerprint pass
\* the scheduler, whatever interceptors hand back or replace and whether or not
\* requests share their meta (enqueue_request, MemoryDupeFilter).
THEOREM FetchedOnceHolds == Spec => []FetchedOnce
  <1>1. Init => FilterInv
    <2> SUFFICES ASSUME Init PROVE FilterInv
      OBVIOUS
    <2>1. \A r \in Requests : stage[r] \notin Passed
      BY DEF Init, Passed, Waiting
    <2>2. TypeOK
      BY InitInv DEF IndInv
    <2> QED BY <2>1, <2>2 DEF FilterInv, FetchedOnce, PassedSeen
  <1>2. FilterInv /\ [Next]_vars => FilterInv'
    <2> SUFFICES ASSUME FilterInv, [Next]_vars PROVE FilterInv'
      OBVIOUS
    <2>1. ASSUME NEW r \in Requests, Enqueue(r) PROVE FilterInv'
      <3>1. meta[r] \in Nat
        BY DEF FilterInv, FetchedOnce, TypeOK
      <3> QED BY <2>1, <3>1, EnqueueFilter DEF Enqueue
    <2>2. ASSUME NEW r \in Requests, RequestStep(r) PROVE FilterInv'
      BY <2>1, <2>2, StepsFilter, CompleteFilter DEF RequestStep
    <2> QED BY <2>2, StepsFilter, RescheduleNewFilter, CallbackYieldFilter, ControlFilter DEF Next
  <1>3. FilterInv => FetchedOnce
    BY DEF FilterInv
  <1> QED BY <1>1, <1>2, <1>3, PTL DEF Spec
=============================================================================
