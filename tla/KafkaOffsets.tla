---------------------------- MODULE KafkaOffsets ----------------------------
(***************************************************************************)
(* Manual offset commits of one Kafka partition, as KafkaClient (one       *)
(* generation of connections), KafkaQueueRepository (bounded recovery that *)
(* replaces the client) and KafkaScheduler (leases of delivered requests)  *)
(* perform them together.  A record is leased by dequeue_request, its      *)
(* request is processed, and complete_request acknowledges it; only a      *)
(* contiguous prefix of acknowledged leases is committed to the broker.    *)
(*                                                                         *)
(* The pending deques of different (topic, group, partition) keys do not   *)
(* interact, so one partition is modelled.  The broker, the consumer's     *)
(* fetch position and group rebalances are external to the repository.     *)
(***************************************************************************)
EXTENDS Integers, Sequences, FiniteSets

CONSTANTS
    NumRecords,    \* records in the partition's log, at offsets 0 .. NumRecords - 1
    MaxGen,        \* bound: client replacements
    MaxRebalances, \* bound: group rebalances that reset the fetch position
    MaxDeliveries  \* bound: deliveries, re-deliveries included

ASSUME KafkaAssumption ==
    /\ NumRecords \in Nat /\ MaxGen \in Nat
    /\ MaxRebalances \in Nat /\ MaxDeliveries \in Nat

Offsets == 0 .. NumRecords - 1
Gens == 0 .. MaxGen
Deliveries == 1 .. MaxDeliveries
NoConsumer == -1      \* no entry of _consumers for (topic, group)
Free == 0             \* nobody holds _offset_lock

VARIABLES
    committed,  \* broker: the group's committed offset
    gen,        \* ResourceSlot._generation of the kafka slot
    position,   \* per client: next offset getone() returns, or NoConsumer
    pending,    \* per client: _pending_offsets deque of [offset, acked] entries
    offsetLock, \* per client: delivery holding _offset_lock across commit, or Free
    stage,      \* per delivery of a record: how far it got (Stages)
    record,     \* per delivery: the offset it delivers
    client,     \* per delivery: the client generation it was fetched or is acked on
    target,     \* per delivery: the offset its commit() asks for
    processed,  \* offsets whose request crossed its complete callback boundary
    rebalances, \* rebalances so far
    running     \* the scheduler loops have not been cancelled

coordinates == <<record, client, target>>
delivery == <<stage, coordinates>>
vars == <<committed, gen, position, pending, offsetLock, delivery, processed,
          rebalances, running>>

\* fetched: getone() returned and _consumer_locks is held; leased: in
\* _inflight_messages; acking: ack_request waits for _offset_lock; committing:
\* it holds the lock and awaits commit(); recovering: commit() raised and
\* RetryPolicy replaces the client; lost: the owning task was cancelled.
Stages == {"none", "fetched", "leased", "acking", "committing",
           "recovering", "done", "lost"}

Entry == [offset : Offsets, acked : BOOLEAN]

Init ==
    /\ committed = 0
    /\ gen = 0
    /\ position = [g \in Gens |-> NoConsumer]
    /\ pending = [g \in Gens |-> <<>>]
    /\ offsetLock = [g \in Gens |-> Free]
    /\ stage = [d \in Deliveries |-> "none"]
    /\ record = [d \in Deliveries |-> NoConsumer]
    /\ client = [d \in Deliveries |-> 0]
    /\ target = [d \in Deliveries |-> 0]
    /\ processed = {}
    /\ rebalances = 0
    /\ running = TRUE

-----------------------------------------------------------------------------
\* Mutant: fetching starts one past the committed offset.
GetRequestConsumerOffByOne ==
    /\ running /\ position[gen] = NoConsumer
    /\ position' = [position EXCEPT ![gen] = committed + 1]
    /\ UNCHANGED <<committed, gen, pending, offsetLock, delivery, processed,
                   rebalances, running>>

\* _get_request_consumer: a new manual-commit consumer of the active client
\* starts fetching at the group's committed offset.
GetRequestConsumer ==
    /\ running
    /\ position[gen] = NoConsumer
    /\ position' = [position EXCEPT ![gen] = committed]
    /\ UNCHANGED <<committed, gen, pending, offsetLock, delivery, processed,
                   rebalances, running>>

ConsumerLockFree(g) ==
    \A d \in Deliveries : ~(stage[d] = "fetched" /\ client[d] = g)

\* dequeue_request up to the fetched record: getone() under the consumer lock.
\* Deliveries are numbered in the order they are fetched.
Getone(d) ==
    /\ running
    /\ position[gen] \in Offsets
    /\ ConsumerLockFree(gen)
    /\ stage[d] = "none"
    /\ \A e \in Deliveries : e < d => stage[e] # "none"
    /\ stage' = [stage EXCEPT ![d] = "fetched"]
    /\ record' = [record EXCEPT ![d] = position[gen]]
    /\ client' = [client EXCEPT ![d] = gen]
    /\ position' = [position EXCEPT ![gen] = @ + 1]
    /\ UNCHANGED <<target, committed, gen, pending, offsetLock, processed,
                   rebalances, running>>

\* dequeue_request from the record to its return: the lease is appended under
\* _offset_lock before the consumer lock is released.
RecordLease(d) ==
    LET g == client[d] IN
    /\ stage[d] = "fetched"
    /\ offsetLock[g] = Free
    /\ pending' = [pending EXCEPT ![g] =
          Append(@, [offset |-> record[d], acked |-> FALSE])]
    /\ stage' = [stage EXCEPT ![d] = "leased"]
    /\ UNCHANGED <<coordinates, committed, gen, position, offsetLock,
                   processed, rebalances, running>>

\* KafkaScheduler.complete_request: the request crossed its callback boundary,
\* leaves _inflight_messages and is acknowledged on the active client.
CompleteRequest(d) ==
    /\ stage[d] = "leased"
    /\ processed' = processed \cup {record[d]}
    /\ stage' = [stage EXCEPT ![d] = "acking"]
    /\ client' = [client EXCEPT ![d] = gen]
    /\ UNCHANGED <<record, target, committed, gen, position, pending,
                   offsetLock, rebalances, running>>

\* The first deque entry carrying this offset, the only one ack_request marks.
FirstEntry(g, o, j) ==
    /\ j \in 1 .. Len(pending[g])
    /\ pending[g][j].offset = o
    /\ \A i \in 1 .. j - 1 : pending[g][i].offset # o

\* Mutants: every lease is popped with the acknowledged ones; none is popped.
PopEveryLease(q, k) == k = Len(q)
PopNoLease(q, k) == k = 0

\* k is the length of the acknowledged prefix of a deque.
AckedPrefix(q, k) ==
    /\ k \in 0 .. Len(q)
    /\ \A i \in 1 .. k : q[i].acked
    /\ k < Len(q) => ~q[k + 1].acked

\* ack_request, the early returns: no consumer on this client, or the offset is
\* not pending on it (it was leased by an earlier client generation).
AckUnknown(d) ==
    LET g == client[d] IN
    /\ stage[d] = "acking"
    /\ offsetLock[g] = Free
    /\ position[g] = NoConsumer \/ ~(\E j \in 1 .. Len(pending[g]) :
                                        pending[g][j].offset = record[d])
    /\ stage' = [stage EXCEPT ![d] = "done"]
    /\ UNCHANGED <<coordinates, committed, gen, position, pending, offsetLock,
                   processed, rebalances, running>>

\* ack_request under _offset_lock: mark the entry and pop the acknowledged
\* prefix; the lock stays held while the last popped offset + 1 is committed.
AckMark(d) ==
    LET g == client[d] IN
    /\ stage[d] = "acking"
    /\ offsetLock[g] = Free
    /\ position[g] # NoConsumer
    /\ \E j \in 1 .. Len(pending[g]) :
         /\ FirstEntry(g, record[d], j)
         /\ LET marked == [pending[g] EXCEPT ![j].acked = TRUE] IN
            \E k \in 0 .. Len(marked) :
              /\ AckedPrefix(marked, k)
              /\ pending' = [pending EXCEPT ![g] = SubSeq(marked, k + 1, Len(marked))]
              /\ IF k = 0
                 THEN /\ stage' = [stage EXCEPT ![d] = "done"]
                      /\ UNCHANGED <<offsetLock, target>>
                 ELSE /\ stage' = [stage EXCEPT ![d] = "committing"]
                      /\ target' = [target EXCEPT ![d] = marked[k].offset + 1]
                      /\ offsetLock' = [offsetLock EXCEPT ![g] = d]
    /\ UNCHANGED <<record, client, committed, gen, position, processed,
                   rebalances, running>>

\* The group coordinator accepts commits of a member until a newer client of
\* this process has joined the group with a consumer of its own.
Fenced(g) == \E h \in Gens : h > g /\ position[h] # NoConsumer

CommitSucceeds(d) ==
    /\ stage[d] = "committing"
    /\ ~Fenced(client[d])
    /\ committed' = target[d]
    /\ stage' = [stage EXCEPT ![d] = "done"]
    /\ offsetLock' = [offsetLock EXCEPT ![client[d]] = Free]
    /\ UNCHANGED <<coordinates, gen, position, pending, processed, rebalances,
                   running>>

\* commit() raises a retryable error: the popped entries are gone and the lock
\* is released.  RetryPolicy goes on to replace the observed generation; failures
\* are bounded by the replacements left (exhausted retries are CancelOwner).
CommitFails(d) ==
    /\ stage[d] = "committing"
    /\ client[d] < gen \/ gen < MaxGen
    /\ stage' = [stage EXCEPT ![d] = "recovering"]
    /\ offsetLock' = [offsetLock EXCEPT ![client[d]] = Free]
    /\ UNCHANGED <<coordinates, committed, gen, position, pending, processed,
                   rebalances, running>>

\* RetryPolicy.run: ResourceSlot.replace(observed generation) is a no-op when
\* another caller already replaced it; then ack_request runs on the active client.
RetryAck(d) ==
    LET g == client[d] IN
    /\ stage[d] = "recovering"
    /\ g = gen => gen < MaxGen
    /\ gen' = IF g = gen THEN gen + 1 ELSE gen
    /\ stage' = [stage EXCEPT ![d] = "acking"]
    /\ client' = [client EXCEPT ![d] = gen']
    /\ UNCHANGED <<record, target, committed, position, pending, offsetLock,
                   processed, rebalances, running>>

\* Any other repository operation (push, pop) fails and replaces the client.
ReplaceClient ==
    /\ gen < MaxGen
    /\ gen' = gen + 1
    /\ UNCHANGED <<committed, position, pending, offsetLock, delivery, processed,
                   rebalances, running>>

\* ResourceSlot.replace closes the previous client after the replacement became
\* visible: KafkaClient.close stops its consumers and clears the deques.
ClosePrevious(g) ==
    /\ g < gen
    /\ position[g] # NoConsumer
    /\ position' = [position EXCEPT ![g] = NoConsumer]
    /\ pending' = [pending EXCEPT ![g] = <<>>]
    /\ UNCHANGED <<committed, gen, offsetLock, delivery, processed, rebalances,
                   running>>

\* The group coordinator reassigns the partition to this consumer: fetching
\* restarts at the committed offset, the client's deque is not touched.
Rebalance ==
    /\ rebalances < MaxRebalances
    /\ position[gen] # NoConsumer
    /\ position' = [position EXCEPT ![gen] = committed]
    /\ rebalances' = rebalances + 1
    /\ UNCHANGED <<committed, gen, pending, offsetLock, delivery, processed, running>>

\* Engine.start cancels every scheduler loop when the run ends or fails: a fetch
\* that is waiting for _offset_lock loses its record, nothing is fetched again.
CancelLoops ==
    /\ running
    /\ running' = FALSE
    /\ stage' = [d \in Deliveries |->
          IF stage[d] = "fetched" THEN "lost" ELSE stage[d]]
    /\ UNCHANGED <<coordinates, committed, gen, position, pending, offsetLock,
                   processed, rebalances>>

\* The task owning a delivery is cancelled, or fails before its boundary.
CancelOwner(d) ==
    /\ stage[d] \in {"leased", "acking", "recovering"}
    /\ stage' = [stage EXCEPT ![d] = "lost"]
    /\ UNCHANGED <<coordinates, committed, gen, position, pending, offsetLock,
                   processed, rebalances, running>>

\* A worker dies and a new process joins the group: all client memory is lost,
\* what was processed and committed remains.
Restart ==
    /\ gen < MaxGen
    /\ gen' = gen + 1
    /\ position' = [g \in Gens |-> NoConsumer]
    /\ pending' = [g \in Gens |-> <<>>]
    /\ offsetLock' = [g \in Gens |-> Free]
    /\ stage' = [d \in Deliveries |->
          IF stage[d] \in {"none", "done"} THEN stage[d] ELSE "lost"]
    /\ running' = TRUE
    /\ UNCHANGED <<coordinates, committed, processed, rebalances>>

DeliveryStep(d) ==
    \/ Getone(d) \/ RecordLease(d) \/ CompleteRequest(d)
    \/ AckUnknown(d) \/ AckMark(d)
    \/ CommitSucceeds(d) \/ CommitFails(d) \/ RetryAck(d)

Next ==
    \/ GetRequestConsumer
    \/ \E d \in Deliveries : DeliveryStep(d) \/ CancelOwner(d)
    \/ ReplaceClient
    \/ \E g \in Gens : ClosePrevious(g)
    \/ Rebalance
    \/ CancelLoops
    \/ Restart

Spec == Init /\ [][Next]_vars

\* The event loop runs every ready coroutine; failures, cancellations,
\* rebalances and restarts are never forced to happen.
Fairness ==
    /\ WF_vars(GetRequestConsumer)
    /\ \A d \in Deliveries :
         WF_vars(Getone(d) \/ RecordLease(d) \/ CompleteRequest(d)
                   \/ AckUnknown(d) \/ AckMark(d) \/ CommitSucceeds(d) \/ RetryAck(d)
                   \/ (CommitFails(d) /\ Fenced(client[d])))
    /\ \A g \in Gens : WF_vars(ClosePrevious(g))

FairSpec == Spec /\ Fairness

-----------------------------------------------------------------------------
\* Types of all variables.
TypeOK ==
    /\ committed \in 0 .. NumRecords
    /\ gen \in Gens
    /\ position \in [Gens -> NoConsumer .. NumRecords]
    /\ pending \in [Gens -> Seq(Entry)]
    /\ offsetLock \in [Gens -> Deliveries \cup {Free}]
    /\ stage \in [Deliveries -> Stages]
    /\ record \in [Deliveries -> Offsets \cup {NoConsumer}]
    /\ client \in [Deliveries -> Gens]
    /\ target \in [Deliveries -> 0 .. NumRecords]
    /\ processed \in SUBSET Offsets
    /\ rebalances \in 0 .. MaxRebalances
    /\ running \in BOOLEAN

\* At-least-once delivery: the committed offset never passes a record whose
\* request has not crossed its complete callback boundary, so that whatever
\* fails, is cancelled or restarts, such a record is delivered again.
AtLeastOnce == \A o \in Offsets : o < committed => o \in processed

\* The definitions down to IndInv say why AtLeastOnce survives every step of
\* KafkaClient.  An acknowledged entry belongs to a processed record.
AckedProcessed ==
    \A g \in Gens : \A i \in 1 .. Len(pending[g]) :
        pending[g][i].acked => pending[g][i].offset \in processed

\* On an open client, every record below a leased one is processed or is
\* waiting before it in the deque ("preserving partition order").
OrderedLeases ==
    \A g \in Gens : position[g] # NoConsumer =>
        \A i \in 1 .. Len(pending[g]) : \A o \in Offsets :
            o < pending[g][i].offset =>
                \/ o \in processed
                \/ \E j \in 1 .. i - 1 : pending[g][j].offset = o

Leased(g, o) == \E j \in 1 .. Len(pending[g]) : pending[g][j].offset = o

\* Nothing below the fetch position or below a fetched record is forgotten.
NothingSkipped ==
    /\ running => \A g \in Gens : \A o \in Offsets : o < position[g] =>
         \/ o \in processed
         \/ Leased(g, o)
         \/ \E d \in Deliveries : /\ stage[d] = "fetched"
                                  /\ client[d] = g /\ record[d] = o
    /\ \A d \in Deliveries : \A o \in Offsets :
         /\ stage[d] = "fetched"
         /\ position[client[d]] # NoConsumer
         /\ o < record[d]
         => o \in processed \/ Leased(client[d], o)

\* A commit that is on its way to the broker covers processed records only.
CommitsProcessed ==
    \A d \in Deliveries : \A o \in Offsets :
        stage[d] = "committing" /\ o < target[d] => o \in processed

\* ack_request only ever runs for a request that completed.
AckingProcessed ==
    \A d \in Deliveries :
        /\ stage[d] # "none" => record[d] \in Offsets
        /\ stage[d] \in {"acking", "committing", "recovering"} =>
              record[d] \in processed

\* Clients are used in the order of their generations: one that does not exist
\* yet has no consumer, and the active one has no lease without a consumer.
ClientOrder ==
    /\ \A g \in Gens : g > gen => position[g] = NoConsumer /\ pending[g] = <<>>
    /\ position[gen] = NoConsumer => pending[gen] = <<>>
    /\ \A d \in Deliveries :
         /\ client[d] <= gen
         /\ stage[d] = "fetched" /\ client[d] = gen =>
               position[gen] # NoConsumer

\* The inductive invariant of the proofs.
IndInv ==
    /\ TypeOK /\ AckedProcessed /\ OrderedLeases /\ NothingSkipped
    /\ CommitsProcessed /\ AckingProcessed /\ ClientOrder /\ AtLeastOnce

Undisturbed == running /\ \A d \in Deliveries : stage[d] # "lost"

\* "Commit the highest contiguous completed offset": while no task is cancelled,
\* every record is committed in the end, and stays so; the deque never keeps an
\* entry that no acknowledgement can remove any more.
EventuallyCommitted == []Undisturbed => <>[](committed = NumRecords)

\* The same over runs in which the partition is never reassigned, failed commits
\* and replaced clients included.
CommittedWithoutRebalance ==
    [](Undisturbed /\ rebalances = 0) => <>[](committed = NumRecords)
=============================================================================
