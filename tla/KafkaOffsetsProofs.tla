------------------------- MODULE KafkaOffsetsProofs -------------------------
(***************************************************************************)
(* Proofs about KafkaOffsets for every log length, number of clients,      *)
(* rebalances and deliveries.  IndInv is inductive; AtLeastOnce alone is   *)
(* not: a commit is safe only because the deque keeps every unprocessed    *)
(* record below an acknowledged one (OrderedLeases), which in turn needs   *)
(* that nothing below the fetch position is forgotten (NothingSkipped).    *)
(***************************************************************************)
EXTENDS KafkaOffsets, SequenceTheorems, TLAPS

\* Arithmetic facts about the index sets; below they stay folded.
LEMMA Ranges ==
    /\ Gens \subseteq Int /\ Offsets \subseteq Int /\ Deliveries \subseteq Int
    /\ 0 \in Gens /\ NoConsumer = -1 /\ NoConsumer \notin Offsets
    /\ \A g \in Gens : g < MaxGen => g + 1 \in Gens
    /\ \A o \in Offsets : o + 1 \in 0 .. NumRecords /\ o >= 0
    /\ 0 \in 0 .. NumRecords /\ 0 \in 0 .. MaxRebalances
    /\ \A n \in 0 .. NumRecords : n \in NoConsumer .. NumRecords /\ n \in Int /\ n # NoConsumer
    /\ NoConsumer \in NoConsumer .. NumRecords
    /\ MaxGen \in Int
BY KafkaAssumption DEF Gens, Offsets, Deliveries, NoConsumer

\* The initial state satisfies the inductive invariant: nothing is leased.
LEMMA InitInv == Init => IndInv
  <1> SUFFICES ASSUME Init PROVE IndInv
    OBVIOUS
  <1>1. TypeOK
    BY Ranges DEF Init, TypeOK, Stages
  <1>2. /\ \A g \in Gens : position[g] = NoConsumer /\ Len(pending[g]) = 0 /\ pending[g] = <<>>
        /\ \A d \in Deliveries : stage[d] = "none" /\ client[d] = 0
        /\ committed = 0 /\ gen = 0
    BY DEF Init
  <1> QED BY <1>1, <1>2, Ranges
          DEF IndInv, AckedProcessed, OrderedLeases, NothingSkipped, Leased,
              CommitsProcessed, AckingProcessed, ClientOrder, AtLeastOnce

\* Starting a consumer at the committed offset skips nothing (AtLeastOnce).
LEMMA GetRequestConsumerInv == IndInv /\ GetRequestConsumer => IndInv'
  <1> SUFFICES ASSUME IndInv, GetRequestConsumer PROVE IndInv'
    OBVIOUS
  <1> USE Ranges DEF IndInv
  <1>1. /\ gen \in Gens /\ committed \in 0 .. NumRecords
        /\ position \in [Gens -> NoConsumer .. NumRecords]
        /\ position' = [position EXCEPT ![gen] = committed]
        /\ position[gen] = NoConsumer
        /\ gen' = gen /\ pending' = pending /\ processed' = processed
        /\ stage' = stage /\ record' = record /\ client' = client /\ target' = target
        /\ committed' = committed /\ running' = running
    BY DEF GetRequestConsumer, TypeOK, delivery, coordinates
  <1>2. /\ position'[gen] = committed
        /\ \A g \in Gens : g # gen => position'[g] = position[g]
    BY <1>1
  <1>3. TypeOK'
    BY <1>1 DEF GetRequestConsumer, TypeOK, delivery, coordinates
  <1>4. AckedProcessed' /\ CommitsProcessed' /\ AckingProcessed' /\ AtLeastOnce'
    BY <1>1 DEF AckedProcessed, CommitsProcessed, AckingProcessed, AtLeastOnce
  <1>5. pending[gen] = <<>> /\ Len(pending[gen]) = 0
    BY <1>1 DEF ClientOrder
  <1>6. OrderedLeases'
    BY <1>1, <1>2, <1>5 DEF OrderedLeases
  <1>7. NothingSkipped'
    BY <1>1, <1>2 DEF NothingSkipped, ClientOrder, AtLeastOnce, Leased
  <1>8. ClientOrder'
    BY <1>1, <1>2 DEF ClientOrder
  <1> QED BY <1>3, <1>4, <1>6, <1>7, <1>8

\* A group rebalance restarts fetching at the committed offset in the same way.
LEMMA RebalanceInv == IndInv /\ Rebalance => IndInv'
  <1> SUFFICES ASSUME IndInv, Rebalance PROVE IndInv'
    OBVIOUS
  <1> USE Ranges DEF IndInv
  <1>1. /\ gen \in Gens /\ committed \in 0 .. NumRecords
        /\ position \in [Gens -> NoConsumer .. NumRecords]
        /\ position' = [position EXCEPT ![gen] = committed]
        /\ position[gen] # NoConsumer
        /\ gen' = gen /\ pending' = pending /\ processed' = processed
        /\ stage' = stage /\ record' = record /\ client' = client /\ target' = target
        /\ committed' = committed /\ running' = running
    BY DEF Rebalance, TypeOK, delivery, coordinates
  <1>2. /\ position'[gen] = committed
        /\ \A g \in Gens : g # gen => position'[g] = position[g]
    BY <1>1
  <1>3. TypeOK'
    BY <1>1, KafkaAssumption DEF Rebalance, TypeOK, delivery, coordinates
  <1>4. AckedProcessed' /\ CommitsProcessed' /\ AckingProcessed' /\ AtLeastOnce'
    BY <1>1 DEF AckedProcessed, CommitsProcessed, AckingProcessed, AtLeastOnce
  <1>5. OrderedLeases'
    BY <1>1, <1>2 DEF OrderedLeases
  <1>6. NothingSkipped'
    BY <1>1, <1>2 DEF NothingSkipped, AtLeastOnce, Leased
  <1>7. ClientOrder'
    BY <1>1, <1>2 DEF ClientOrder
  <1> QED BY <1>3, <1>4, <1>5, <1>6, <1>7

\* Fetching under the consumer lock: everything below the record is known.
LEMMA GetoneInv == ASSUME NEW d \in Deliveries PROVE IndInv /\ Getone(d) => IndInv'
  <1> SUFFICES ASSUME IndInv, Getone(d) PROVE IndInv'
    OBVIOUS
  <1> USE Ranges DEF IndInv
  <1>1. /\ gen \in Gens /\ position[gen] \in Offsets
        /\ position \in [Gens -> NoConsumer .. NumRecords]
        /\ stage \in [Deliveries -> Stages] /\ client \in [Deliveries -> Gens]
        /\ record \in [Deliveries -> Offsets \cup {NoConsumer}]
        /\ position' = [position EXCEPT ![gen] = position[gen] + 1]
        /\ stage' = [stage EXCEPT ![d] = "fetched"]
        /\ record' = [record EXCEPT ![d] = position[gen]]
        /\ client' = [client EXCEPT ![d] = gen]
        /\ stage[d] = "none"
        /\ ConsumerLockFree(gen)
        /\ gen' = gen /\ pending' = pending /\ processed' = processed /\ target' = target
        /\ committed' = committed /\ running /\ running' = running
    BY DEF Getone, TypeOK
  <1>2. /\ position'[gen] = position[gen] + 1
        /\ \A g \in Gens : g # gen => position'[g] = position[g]
        /\ stage'[d] = "fetched" /\ record'[d] = position[gen] /\ client'[d] = gen
        /\ \A e \in Deliveries : e # d =>
             stage'[e] = stage[e] /\ record'[e] = record[e] /\ client'[e] = client[e]
        /\ \A e \in Deliveries : client'[e] \in Gens
    BY <1>1
  <1>2a. /\ position[gen] + 1 \in NoConsumer .. NumRecords
         /\ position[gen] + 1 # NoConsumer /\ position[gen] # NoConsumer
    BY <1>1
  <1>3. TypeOK'
    <2>1. position' \in [Gens -> NoConsumer .. NumRecords]
      BY <1>1, <1>2a
    <2>2. stage' \in [Deliveries -> Stages]
      BY <1>1 DEF Stages
    <2> QED BY <2>1, <2>2, <1>1 DEF Getone, TypeOK
  <1>4. AckedProcessed' /\ AtLeastOnce'
    BY <1>1 DEF AckedProcessed, AtLeastOnce
  <1>5. OrderedLeases'
    <2>1. \A g \in Gens : position'[g] # NoConsumer => position[g] # NoConsumer
      BY <1>2, <1>2a
    <2> QED BY <2>1, <1>1 DEF OrderedLeases
  <1>6. CommitsProcessed' /\ AckingProcessed'
    BY <1>1, <1>2 DEF CommitsProcessed, AckingProcessed
  <1>7. NothingSkipped'
    <2>1. \A g \in Gens, o \in Offsets : Leased(g, o)' <=> Leased(g, o)
      BY <1>1 DEF Leased
    <2>2. ASSUME NEW g \in Gens, NEW o \in Offsets, o < position'[g]
          PROVE  \/ o \in processed \/ Leased(g, o)
                 \/ \E e \in Deliveries :
                      stage'[e] = "fetched" /\ client'[e] = g /\ record'[e] = o
      <3>1. CASE g = gen /\ o = position[gen]
        BY <3>1, <1>2
      <3>2. CASE ~(g = gen /\ o = position[gen])
        <4>1. o < position[g] /\ position[g] \in Int
          BY <3>2, <2>2, <1>1, <1>2
        <4> QED BY <4>1, <1>1, <1>2 DEF NothingSkipped
      <3> QED BY <3>1, <3>2
    <2>3. ASSUME NEW e \in Deliveries, NEW o \in Offsets, stage'[e] = "fetched",
                 position'[client'[e]] # NoConsumer, o < record'[e]
          PROVE  o \in processed \/ Leased(client'[e], o)
      <3>1. CASE e = d
        BY <3>1, <2>3, <1>1, <1>2 DEF NothingSkipped, ConsumerLockFree
      <3>2. CASE e # d
        BY <3>2, <2>3, <1>1, <1>2 DEF NothingSkipped
      <3> QED BY <3>1, <3>2
    <2> QED BY <2>1, <2>2, <2>3, <1>1, <1>2 DEF NothingSkipped, Leased
  <1>8. ClientOrder'
    BY <1>1, <1>2, <1>2a DEF ClientOrder
  <1> QED BY <1>3, <1>4, <1>5, <1>6, <1>7, <1>8

\* Appending a lease to a deque: the entries before it stay where they are.
LEMMA AppendLease ==
    ASSUME NEW q \in Seq(Entry), NEW e \in Entry
    PROVE  /\ Append(q, e) \in Seq(Entry) /\ Len(q) \in Nat
           /\ Len(Append(q, e)) = Len(q) + 1
           /\ \A i \in 1 .. Len(q) : Append(q, e)[i] = q[i]
           /\ Append(q, e)[Len(q) + 1] = e
BY AppendProperties, LenProperties

\* The lease is appended behind every unprocessed record below it.
LEMMA RecordLeaseInv == ASSUME NEW d \in Deliveries PROVE IndInv /\ RecordLease(d) => IndInv'
  <1> SUFFICES ASSUME IndInv, RecordLease(d) PROVE IndInv'
    OBVIOUS
  <1> DEFINE h == client[d]
             n == Len(pending[h])
             new == [offset |-> record[d], acked |-> FALSE]
  <1>1. /\ h \in Gens /\ gen \in Gens /\ record[d] \in Offsets
        /\ stage[d] = "fetched" /\ client \in [Deliveries -> Gens]
        /\ stage \in [Deliveries -> Stages] /\ pending \in [Gens -> Seq(Entry)]
        /\ pending' = [pending EXCEPT ![h] = Append(pending[h], new)]
        /\ stage' = [stage EXCEPT ![d] = "leased"]
        /\ record' = record /\ client' = client /\ target' = target
        /\ gen' = gen /\ position' = position /\ processed' = processed
        /\ committed' = committed /\ running' = running
    BY DEF RecordLease, TypeOK, coordinates, AckingProcessed, IndInv
  <1>u. /\ position' = position /\ processed' = processed /\ record' = record
        /\ client' = client /\ running' = running
    BY <1>1
  <1>2. /\ pending[h] \in Seq(Entry) /\ new \in Entry
        /\ pending'[h] = Append(pending[h], new)
        /\ \A g \in Gens : g # h => pending'[g] = pending[g]
    BY <1>1 DEF Entry
  <1> HIDE DEF n, new
  <1>3. /\ pending'[h] \in Seq(Entry) /\ n \in Nat
        /\ Len(pending'[h]) = n + 1
        /\ \A i \in 1 .. n : pending'[h][i] = pending[h][i]
        /\ pending'[h][n + 1] = new
    BY <1>2, AppendLease DEF n
  <1>3a. new.offset = record[d] /\ new.acked = FALSE
    BY DEF new
  <1>3b. pending'[h] # <<>>
    BY <1>3, EmptySeq
  <1>4. /\ stage'[d] = "leased"
        /\ \A e \in Deliveries : e # d => stage'[e] = stage[e]
    BY <1>1
  <1>5. TypeOK'
    <2>1. pending' \in [Gens -> Seq(Entry)]
      BY <1>1, <1>2, <1>3
    <2>2. stage' \in [Deliveries -> Stages]
      BY <1>1 DEF Stages
    <2> QED BY <2>1, <2>2, <1>1 DEF RecordLease, TypeOK, coordinates, IndInv
  <1>6. AckedProcessed'
    <2> SUFFICES ASSUME NEW g \in Gens, NEW i \in 1 .. Len(pending'[g]), pending'[g][i].acked
                 PROVE  pending'[g][i].offset \in processed
      BY <1>1 DEF AckedProcessed
    <2>1. CASE g # h
      BY <2>1, <1>2 DEF AckedProcessed, IndInv
    <2>2. CASE g = h
      <3>1. i # n + 1
        BY <2>2, <1>3, <1>3a
      <3>2. i \in 1 .. n /\ pending'[h][i] = pending[h][i]
        BY <3>1, <2>2, <1>3
      <3> QED BY <3>2, <2>2, <1>1 DEF AckedProcessed, IndInv, n
    <2> QED BY <2>1, <2>2
  <1>7. AtLeastOnce' /\ CommitsProcessed' /\ AckingProcessed'
    BY <1>1, <1>4 DEF AtLeastOnce, CommitsProcessed, AckingProcessed, IndInv
  <1>8. OrderedLeases'
    <2> SUFFICES ASSUME NEW g \in Gens, position[g] # NoConsumer,
                        NEW i \in 1 .. Len(pending'[g]), NEW o \in Offsets,
                        o < pending'[g][i].offset
                 PROVE  o \in processed \/ \E j \in 1 .. i - 1 : pending'[g][j].offset = o
      BY <1>u DEF OrderedLeases
    <2>1. CASE g # h
      BY <2>1, <1>2 DEF OrderedLeases, IndInv
    <2>2. CASE g = h /\ i \in 1 .. n
      <3>1. o \in processed \/ \E j \in 1 .. i - 1 : pending[h][j].offset = o
        BY <2>2, <1>3, <1>1 DEF OrderedLeases, IndInv, n
      <3>2. \A j \in 1 .. i - 1 : pending'[h][j] = pending[h][j]
        BY <2>2, <1>3
      <3> QED BY <3>1, <3>2, <2>2
    <2>3. CASE g = h /\ i = n + 1
      <3>1. o \in processed \/ Leased(h, o)
        BY <2>3, <1>1, <1>3, <1>3a DEF NothingSkipped, IndInv
      <3>2. \A j \in 1 .. n : j \in 1 .. i - 1 /\ pending'[h][j] = pending[h][j]
        BY <2>3, <1>3
      <3> QED BY <3>1, <3>2, <2>3 DEF Leased, n
    <2>4. g = h => i \in 1 .. n \/ i = n + 1
      BY <1>3
    <2> QED BY <2>1, <2>2, <2>3, <2>4
  <1>9. ASSUME NEW g \in Gens, NEW o \in Offsets, Leased(g, o)
        PROVE  \E j \in 1 .. Len(pending'[g]) : pending'[g][j].offset = o
    <2>1. CASE g # h
      BY <2>1, <1>9, <1>2 DEF Leased
    <2>2. CASE g = h
      <3>1. PICK j \in 1 .. n : pending[h][j].offset = o
        BY <2>2, <1>9 DEF Leased, n
      <3>2. j \in 1 .. n + 1 /\ pending'[h][j] = pending[h][j]
        BY <1>3
      <3> QED BY <3>1, <3>2, <2>2, <1>3
    <2> QED BY <2>1, <2>2
  <1>10. \E j \in 1 .. Len(pending'[h]) : pending'[h][j].offset = record[d]
    <2>1. n + 1 \in 1 .. Len(pending'[h])
      BY <1>3
    <2> QED BY <2>1, <1>3, <1>3a
  <1>11. NothingSkipped'
    <2>1. ASSUME running, NEW g \in Gens, NEW o \in Offsets, o < position[g]
          PROVE  \/ o \in processed
                 \/ \E j \in 1 .. Len(pending'[g]) : pending'[g][j].offset = o
                 \/ \E e \in Deliveries :
                      stage'[e] = "fetched" /\ client[e] = g /\ record[e] = o
      <3>1. CASE \E e \in Deliveries :
                    stage[e] = "fetched" /\ client[e] = g /\ record[e] = o
        <4> PICK e \in Deliveries : stage[e] = "fetched" /\ client[e] = g /\ record[e] = o
          BY <3>1
        <4>1. CASE e = d
          BY <4>1, <1>10
        <4>2. CASE e # d
          BY <4>2, <1>4
        <4> QED BY <4>1, <4>2
      <3>2. CASE o \in processed \/ Leased(g, o)
        BY <3>2, <1>9
      <3> QED BY <2>1, <3>1, <3>2 DEF NothingSkipped, IndInv
    <2>2. ASSUME NEW e \in Deliveries, NEW o \in Offsets, stage'[e] = "fetched",
                 position[client[e]] # NoConsumer, o < record[e]
          PROVE  \/ o \in processed
                 \/ \E j \in 1 .. Len(pending'[client[e]]) : pending'[client[e]][j].offset = o
      <3>1. stage[e] = "fetched" /\ client[e] \in Gens
        BY <2>2, <1>1, <1>4
      <3>2. o \in processed \/ Leased(client[e], o)
        BY <3>1, <2>2 DEF NothingSkipped, IndInv
      <3> QED BY <3>1, <3>2, <1>9
    <2> QED BY <2>1, <2>2, <1>u DEF NothingSkipped, Leased
  <1>12. ClientOrder'
    <2>1. \A g \in Gens : g > gen => pending'[g] = <<>> /\ position'[g] = NoConsumer
      <3>1. h <= gen
        BY DEF ClientOrder, IndInv
      <3> QED BY <3>1, <1>1, <1>2, Ranges DEF ClientOrder, IndInv
    <2>2. position'[gen] = NoConsumer => pending'[gen] = <<>>
      BY <1>1, <1>2 DEF ClientOrder, IndInv
    <2>3. \A e \in Deliveries : stage'[e] = "fetched" => stage[e] = "fetched"
      BY <1>4
    <2> QED BY <2>1, <2>2, <2>3, <1>1 DEF ClientOrder, IndInv
  <1> QED BY <1>5, <1>6, <1>7, <1>8, <1>11, <1>12 DEF IndInv

\* Completing a request only adds to what is processed.
LEMMA CompleteRequestInv ==
    ASSUME NEW d \in Deliveries PROVE IndInv /\ CompleteRequest(d) => IndInv'
  <1> SUFFICES ASSUME IndInv, CompleteRequest(d) PROVE IndInv'
    OBVIOUS
  <1>1. /\ gen \in Gens /\ record[d] \in Offsets /\ stage[d] = "leased"
        /\ stage \in [Deliveries -> Stages] /\ client \in [Deliveries -> Gens]
        /\ stage' = [stage EXCEPT ![d] = "acking"]
        /\ client' = [client EXCEPT ![d] = gen]
        /\ processed' = processed \cup {record[d]}
    BY DEF CompleteRequest, TypeOK, AckingProcessed, IndInv
  <1>2. /\ record' = record /\ target' = target /\ gen' = gen /\ position' = position
        /\ pending' = pending /\ committed' = committed /\ running' = running
    BY DEF CompleteRequest
  <1>3. /\ stage'[d] = "acking" /\ client'[d] = gen
        /\ \A e \in Deliveries : e # d => stage'[e] = stage[e] /\ client'[e] = client[e]
    BY <1>1
  <1>4. /\ record[d] \in processed' /\ processed \subseteq processed'
    BY <1>1
  <1> HIDE DEF CompleteRequest
  <1>5. TypeOK'
    <2>1. stage' \in [Deliveries -> Stages] /\ client' \in [Deliveries -> Gens]
      BY <1>1 DEF Stages
    <2>2. processed' \in SUBSET Offsets
      BY <1>1 DEF TypeOK, IndInv
    <2> QED BY <2>1, <2>2, <1>2 DEF CompleteRequest, TypeOK, IndInv
  <1>6. AckedProcessed' /\ AtLeastOnce'
    BY <1>2, <1>4 DEF AckedProcessed, AtLeastOnce, IndInv
  <1>7. OrderedLeases'
    BY <1>2, <1>4 DEF OrderedLeases, IndInv
  <1>8. CommitsProcessed' /\ AckingProcessed'
    BY <1>1, <1>2, <1>3, <1>4 DEF CommitsProcessed, AckingProcessed, IndInv
  <1>9. \A e \in Deliveries :
           /\ stage'[e] = "fetched" <=> stage[e] = "fetched"
           /\ stage[e] = "fetched" => client'[e] = client[e]
    BY <1>1, <1>3
  <1>10. NothingSkipped'
    BY <1>2, <1>4, <1>9 DEF NothingSkipped, Leased, IndInv
  <1>11. ClientOrder'
    BY <1>1, <1>2, <1>3, <1>9, Ranges DEF ClientOrder, IndInv
  <1> QED BY <1>5, <1>6, <1>7, <1>8, <1>10, <1>11 DEF IndInv

\* Steps that only move one delivery to another stage, and perhaps release the
\* lock: AckUnknown, CommitFails, CancelOwner (a commit is another matter).
LEMMA StageChangeInv ==
    ASSUME NEW d \in Deliveries, NEW s \in {"done", "lost", "recovering"}, IndInv, TypeOK',
           stage[d] \in {"leased", "acking", "committing", "recovering"},
           s = "recovering" => stage[d] = "committing",
           stage' = [stage EXCEPT ![d] = s],
           UNCHANGED <<coordinates, committed, gen, position, pending, processed, running>>
    PROVE  IndInv'
  <1>1. /\ record' = record /\ target' = target /\ gen' = gen /\ position' = position
        /\ pending' = pending /\ committed' = committed /\ running' = running
        /\ client' = client /\ processed' = processed
    BY DEF coordinates
  <1>2. stage \in [Deliveries -> Stages]
    BY DEF TypeOK, IndInv
  <1>3. /\ stage'[d] = s /\ \A e \in Deliveries : e # d => stage'[e] = stage[e]
    BY <1>2
  <1>4. AckedProcessed' /\ AtLeastOnce'
    BY <1>1 DEF AckedProcessed, AtLeastOnce, IndInv
  <1>5. OrderedLeases'
    BY <1>1 DEF OrderedLeases, IndInv
  <1>6. CommitsProcessed' /\ AckingProcessed'
    BY <1>1, <1>3 DEF CommitsProcessed, AckingProcessed, IndInv
  <1>7. \A e \in Deliveries : stage'[e] = "fetched" <=> stage[e] = "fetched"
    BY <1>3
  <1>8. NothingSkipped'
    BY <1>1, <1>7 DEF NothingSkipped, Leased, IndInv
  <1>9. ClientOrder'
    BY <1>1, <1>7 DEF ClientOrder, IndInv
  <1> QED BY <1>4, <1>5, <1>6, <1>8, <1>9 DEF IndInv

\* An acknowledgement the active client does not know changes nothing else.
LEMMA AckUnknownInv == ASSUME NEW d \in Deliveries PROVE IndInv /\ AckUnknown(d) => IndInv'
  <1> SUFFICES ASSUME IndInv, AckUnknown(d) PROVE IndInv'
    OBVIOUS
  <1>1. TypeOK'
    BY DEF AckUnknown, TypeOK, Stages, IndInv, coordinates
  <1> QED BY <1>1, StageChangeInv DEF AckUnknown

\* A failed commit leaves its records processed and uncommitted.
LEMMA CommitFailsInv == ASSUME NEW d \in Deliveries PROVE IndInv /\ CommitFails(d) => IndInv'
  <1> SUFFICES ASSUME IndInv, CommitFails(d) PROVE IndInv'
    OBVIOUS
  <1>1. TypeOK'
    BY DEF CommitFails, TypeOK, Stages, IndInv, coordinates
  <1> QED BY <1>1, StageChangeInv DEF CommitFails

\* A cancelled owner never acknowledges.
LEMMA CancelOwnerInv == ASSUME NEW d \in Deliveries PROVE IndInv /\ CancelOwner(d) => IndInv'
  <1> SUFFICES ASSUME IndInv, CancelOwner(d) PROVE IndInv'
    OBVIOUS
  <1>1. TypeOK'
    BY DEF CancelOwner, TypeOK, Stages, IndInv, coordinates
  <1> QED BY <1>1, StageChangeInv DEF CancelOwner

\* A successful commit: its target covers processed records only.
LEMMA CommitSucceedsInv ==
    ASSUME NEW d \in Deliveries PROVE IndInv /\ CommitSucceeds(d) => IndInv'
  <1> SUFFICES ASSUME IndInv, CommitSucceeds(d) PROVE IndInv'
    OBVIOUS
  <1>1. /\ record' = record /\ target' = target /\ gen' = gen /\ position' = position
        /\ pending' = pending /\ running' = running
        /\ client' = client /\ processed' = processed /\ committed' = target[d]
        /\ stage' = [stage EXCEPT ![d] = "done"]
        /\ stage \in [Deliveries -> Stages] /\ stage[d] = "committing"
    BY DEF CommitSucceeds, coordinates, TypeOK, IndInv
  <1>2. TypeOK'
    BY DEF CommitSucceeds, TypeOK, Stages, IndInv, coordinates
  <1>3. /\ stage'[d] = "done" /\ \A e \in Deliveries : e # d => stage'[e] = stage[e]
    BY <1>1
  <1>4. AtLeastOnce'
    BY <1>1 DEF AtLeastOnce, CommitsProcessed, IndInv
  <1>5. AckedProcessed' /\ OrderedLeases'
    BY <1>1 DEF AckedProcessed, OrderedLeases, IndInv
  <1>6. CommitsProcessed' /\ AckingProcessed'
    BY <1>1, <1>3 DEF CommitsProcessed, AckingProcessed, IndInv
  <1>7. \A e \in Deliveries : stage'[e] = "fetched" <=> stage[e] = "fetched"
    BY <1>1, <1>3
  <1>8. NothingSkipped'
    BY <1>1, <1>7 DEF NothingSkipped, Leased, IndInv
  <1>9. ClientOrder'
    BY <1>1, <1>7 DEF ClientOrder, IndInv
  <1> QED BY <1>2, <1>4, <1>5, <1>6, <1>8, <1>9 DEF IndInv

\* The next client generation starts without a consumer and without leases.
LEMMA NextGenerationOrder ==
    ASSUME IndInv, gen' \in Gens, gen' = gen \/ gen' = gen + 1,
           position' = position, pending' = pending, stage' = stage, client' = client
    PROVE  ClientOrder'
  <1>1. gen \in Int /\ gen' \in Int /\ gen \in Gens /\ Gens \subseteq Int
    BY Ranges DEF TypeOK, IndInv
  <1>2. \A d \in Deliveries : client[d] \in Int
    BY Ranges DEF TypeOK, IndInv
  <1>3. ClientOrder
    BY DEF IndInv
  <1>4. \A g \in Gens : g > gen' => position[g] = NoConsumer /\ pending[g] = <<>>
    BY <1>1, <1>3 DEF ClientOrder
  <1>5. position[gen'] = NoConsumer => pending[gen'] = <<>>
    BY <1>1, <1>3 DEF ClientOrder
  <1>6. \A d \in Deliveries : client[d] <= gen
    BY <1>3 DEF ClientOrder
  <1>7. \A d \in Deliveries : client[d] <= gen'
    BY <1>1, <1>2, <1>6
  <1>8. \A d \in Deliveries : stage[d] = "fetched" /\ client[d] = gen' =>
             position[gen'] # NoConsumer
    BY <1>1, <1>2, <1>3, <1>6 DEF ClientOrder
  <1> QED BY <1>4, <1>5, <1>7, <1>8 DEF ClientOrder

\* Replacing the client only advances the generation.
LEMMA ReplaceClientInv == IndInv /\ ReplaceClient => IndInv'
  <1> SUFFICES ASSUME IndInv, ReplaceClient PROVE IndInv'
    OBVIOUS
  <1>1. /\ record' = record /\ target' = target /\ position' = position
        /\ pending' = pending /\ committed' = committed /\ running' = running
        /\ client' = client /\ processed' = processed /\ stage' = stage
    BY DEF ReplaceClient, delivery, coordinates
  <1>2. gen' \in Gens /\ gen' = gen + 1
    BY Ranges DEF ReplaceClient, TypeOK, IndInv
  <1>3. TypeOK'
    BY <1>1, <1>2 DEF ReplaceClient, TypeOK, IndInv
  <1>4. ClientOrder'
    BY <1>1, <1>2, NextGenerationOrder
  <1> QED BY <1>1, <1>3, <1>4
          DEF IndInv, AckedProcessed, OrderedLeases, NothingSkipped, Leased,
              CommitsProcessed, AckingProcessed, AtLeastOnce

\* A retried acknowledgement moves to the active generation.
LEMMA RetryAckInv == ASSUME NEW d \in Deliveries PROVE IndInv /\ RetryAck(d) => IndInv'
  <1> SUFFICES ASSUME IndInv, RetryAck(d) PROVE IndInv'
    OBVIOUS
  <1>1. /\ record' = record /\ target' = target /\ position' = position
        /\ pending' = pending /\ committed' = committed /\ running' = running
        /\ processed' = processed
    BY DEF RetryAck
  <1>2. /\ gen \in Gens /\ gen' \in Gens
        /\ gen' = gen \/ gen' = gen + 1
        /\ gen \in Int /\ gen' \in Int
    BY Ranges DEF RetryAck, TypeOK, IndInv
  <1>3. /\ stage \in [Deliveries -> Stages] /\ client \in [Deliveries -> Gens]
        /\ stage' = [stage EXCEPT ![d] = "acking"]
        /\ client' = [client EXCEPT ![d] = gen'] /\ stage[d] = "recovering"
    BY DEF RetryAck, TypeOK, IndInv
  <1>4. /\ stage'[d] = "acking" /\ client'[d] = gen'
        /\ \A e \in Deliveries : e # d => stage'[e] = stage[e] /\ client'[e] = client[e]
    BY <1>3
  <1>5. TypeOK'
    <2>1. client' \in [Deliveries -> Gens]
      BY <1>2, <1>3
    <2>2. stage' \in [Deliveries -> Stages]
      <3>1. "acking" \in Stages
        BY DEF Stages
      <3> QED BY <3>1, <1>3
    <2> QED BY <2>1, <2>2, <1>1, <1>2 DEF RetryAck, TypeOK, IndInv
  <1>6. AckedProcessed' /\ OrderedLeases' /\ AtLeastOnce'
    BY <1>1 DEF AckedProcessed, OrderedLeases, AtLeastOnce, IndInv
  <1>7. CommitsProcessed' /\ AckingProcessed'
    BY <1>1, <1>3, <1>4 DEF CommitsProcessed, AckingProcessed, IndInv
  <1>8. \A e \in Deliveries :
           /\ stage'[e] = "fetched" <=> stage[e] = "fetched"
           /\ stage[e] = "fetched" => client'[e] = client[e]
    BY <1>3, <1>4
  <1>9. NothingSkipped'
    BY <1>1, <1>8 DEF NothingSkipped, Leased, IndInv
  <1>10. ClientOrder'
    <2>1. ASSUME NEW g \in Gens, g > gen'
          PROVE  position[g] = NoConsumer /\ pending[g] = <<>>
      <3>1. g > gen
        BY <2>1, <1>2, Ranges
      <3> QED BY <3>1 DEF ClientOrder, IndInv
    <2>2. position[gen'] = NoConsumer => pending[gen'] = <<>>
      <3>1. CASE gen' = gen
        BY <3>1 DEF ClientOrder, IndInv
      <3>2. CASE gen' = gen + 1
        <4>1. gen' > gen
          BY <3>2, <1>2
        <4> QED BY <4>1, <1>2 DEF ClientOrder, IndInv
      <3> QED BY <3>1, <3>2, <1>2
    <2>3. ASSUME NEW e \in Deliveries PROVE client'[e] <= gen'
      <3>1. CASE e = d
        BY <3>1, <1>2, <1>4
      <3>2. CASE e # d
        <4>1. client[e] \in Int /\ client[e] <= gen
          BY <1>3, Ranges DEF ClientOrder, IndInv
        <4> QED BY <3>2, <4>1, <1>2, <1>4
      <3> QED BY <3>1, <3>2
    <2>4. ASSUME NEW e \in Deliveries, stage'[e] = "fetched", client'[e] = gen'
          PROVE  position[gen'] # NoConsumer
      <3>1. stage[e] = "fetched" /\ client[e] = gen' /\ client[e] <= gen
        BY <2>4, <1>8 DEF ClientOrder, IndInv
      <3>2. gen' = gen
        BY <3>1, <1>2
      <3> QED BY <3>1, <3>2 DEF ClientOrder, IndInv
    <2> QED BY <2>1, <2>2, <2>3, <2>4, <1>1 DEF ClientOrder
  <1> QED BY <1>5, <1>6, <1>7, <1>9, <1>10 DEF IndInv

\* Marking a deque entry changes no offset and acknowledges no other entry.
LEMMA MarkEntry ==
    ASSUME NEW q \in Seq(Entry), NEW j \in 1 .. Len(q)
    PROVE  /\ [q EXCEPT ![j].acked = TRUE] \in Seq(Entry)
           /\ Len([q EXCEPT ![j].acked = TRUE]) = Len(q)
           /\ \A i \in 1 .. Len(q) :
                /\ [q EXCEPT ![j].acked = TRUE][i].offset = q[i].offset
                /\ q[i].offset \in Offsets
                /\ [q EXCEPT ![j].acked = TRUE][i].acked => q[i].acked \/ i = j
  <1> DEFINE m == [q EXCEPT ![j].acked = TRUE]
  <1>1. Len(q) \in Nat /\ q \in [1 .. Len(q) -> Entry]
    BY LenProperties
  <1>2. \A i \in 1 .. Len(q) : q[i] \in Entry
    BY <1>1
  <1>3. m = [q EXCEPT ![j] = [q[j] EXCEPT !.acked = TRUE]]
    BY <1>1
  <1>4. [q[j] EXCEPT !.acked = TRUE] \in Entry
    BY <1>2 DEF Entry
  <1>5. m \in Seq(Entry) /\ Len(m) = Len(q)
    BY <1>3, <1>4, ExceptSeq
  <1>6. /\ m[j] = [q[j] EXCEPT !.acked = TRUE]
        /\ \A i \in 1 .. Len(q) : i # j => m[i] = q[i]
    BY <1>1, <1>3
  <1>7. \A i \in 1 .. Len(q) :
          /\ m[i].offset = q[i].offset /\ q[i].offset \in Offsets
          /\ m[i].acked => q[i].acked \/ i = j
    BY <1>2, <1>6 DEF Entry
  <1> QED BY <1>5, <1>7

\* Popping the first k entries of a deque shifts the others by k.
LEMMA PopEntries ==
    ASSUME NEW m \in Seq(Entry), NEW k \in 0 .. Len(m)
    PROVE  /\ SubSeq(m, k + 1, Len(m)) \in Seq(Entry)
           /\ Len(SubSeq(m, k + 1, Len(m))) = Len(m) - k
           /\ \A i \in 1 .. Len(m) - k : SubSeq(m, k + 1, Len(m))[i] = m[i + k]
  <1> DEFINE n == Len(m)
             r == SubSeq(m, k + 1, n)
  <1>1. n \in Nat /\ k \in Nat /\ k <= n
    BY LenProperties
  <1>2. \A i \in k + 1 .. n : m[i] \in Entry
    BY <1>1, ElementOfSeq
  <1> HIDE DEF n
  <1>3. /\ r \in Seq(Entry)
        /\ Len(r) = IF k + 1 <= n THEN n - (k + 1) + 1 ELSE 0
        /\ \A i \in 1 .. n - (k + 1) + 1 : r[i] = m[k + 1 + i - 1]
    BY <1>1, <1>2, SubSeqProperties
  <1> HIDE DEF r
  <1>4. Len(r) = n - k
    <2>1. CASE k + 1 <= n
      BY <2>1, <1>1, <1>3
    <2>2. CASE k = n
      BY <2>2, <1>1, <1>3
    <2> QED BY <2>1, <2>2, <1>1
  <1>5. ASSUME NEW i \in 1 .. n - k PROVE r[i] = m[i + k]
    <2>1. i \in 1 .. n - (k + 1) + 1 /\ k + 1 + i - 1 = i + k
      BY <1>1
    <2> QED BY <2>1, <1>3
  <1> QED BY <1>3, <1>4, <1>5 DEF n, r

\* Acknowledging: the popped prefix holds processed records only, and so does
\* everything below its last offset; what leaves the deque is processed.
LEMMA AckMarkInv == ASSUME NEW d \in Deliveries PROVE IndInv /\ AckMark(d) => IndInv'
  <1> SUFFICES ASSUME IndInv, AckMark(d) PROVE IndInv'
    OBVIOUS
  <1> DEFINE h == client[d]
             q == pending[h]
  <1>1. /\ record' = record /\ client' = client /\ committed' = committed
        /\ gen' = gen /\ position' = position /\ processed' = processed
        /\ running' = running
    BY DEF AckMark
  <1>2. /\ h \in Gens /\ gen \in Gens /\ q \in Seq(Entry) /\ client \in [Deliveries -> Gens]
        /\ stage \in [Deliveries -> Stages] /\ pending \in [Gens -> Seq(Entry)]
        /\ target \in [Deliveries -> 0 .. NumRecords]
        /\ stage[d] = "acking" /\ position[h] # NoConsumer
        /\ record[d] \in processed
    BY DEF AckMark, TypeOK, AckingProcessed, IndInv
  <1>3. PICK j \in 1 .. Len(q) :
          /\ FirstEntry(h, record[d], j)
          /\ LET marked == [q EXCEPT ![j].acked = TRUE] IN
             \E k \in 0 .. Len(marked) :
              /\ AckedPrefix(marked, k)
              /\ pending' = [pending EXCEPT ![h] = SubSeq(marked, k + 1, Len(marked))]
              /\ IF k = 0
                 THEN /\ stage' = [stage EXCEPT ![d] = "done"]
                      /\ UNCHANGED <<offsetLock, target>>
                 ELSE /\ stage' = [stage EXCEPT ![d] = "committing"]
                      /\ target' = [target EXCEPT ![d] = marked[k].offset + 1]
                      /\ offsetLock' = [offsetLock EXCEPT ![h] = d]
    BY DEF AckMark
  <1> DEFINE m == [q EXCEPT ![j].acked = TRUE]
  <1>4. PICK k \in 0 .. Len(m) :
          /\ AckedPrefix(m, k)
          /\ pending' = [pending EXCEPT ![h] = SubSeq(m, k + 1, Len(m))]
          /\ IF k = 0
             THEN /\ stage' = [stage EXCEPT ![d] = "done"]
                  /\ UNCHANGED <<offsetLock, target>>
             ELSE /\ stage' = [stage EXCEPT ![d] = "committing"]
                  /\ target' = [target EXCEPT ![d] = m[k].offset + 1]
                  /\ offsetLock' = [offsetLock EXCEPT ![h] = d]
    BY <1>3
  <1> DEFINE r == SubSeq(m, k + 1, Len(m))
  <1>5. q[j].offset = record[d] /\ \A i \in 1 .. k : m[i].acked
    BY <1>3, <1>4 DEF FirstEntry, AckedPrefix
  <1>6. pending'[h] = r /\ \A g \in Gens : g # h => pending'[g] = pending[g]
    BY <1>2, <1>4
  <1>7. /\ m \in Seq(Entry) /\ Len(m) = Len(q) /\ Len(q) \in Nat
        /\ \A i \in 1 .. Len(q) :
             /\ m[i].offset = q[i].offset /\ q[i].offset \in Offsets
             /\ m[i].acked => q[i].acked \/ i = j
    <2> HIDE DEF q
    <2> QED BY <1>2, MarkEntry, LenProperties
  <1> HIDE DEF m
  <1>8. /\ Len(q) \in Nat /\ k \in 0 .. Len(q)
        /\ \A i \in 1 .. Len(q) :
             /\ m[i].offset = q[i].offset /\ m[i].offset \in Offsets
             /\ m[i].acked => q[i].acked \/ i = j
        /\ r \in Seq(Entry) /\ Len(r) = Len(q) - k
        /\ \A i \in 1 .. Len(r) : i + k \in 1 .. Len(q) /\ r[i] = m[i + k]
    <2>1. k \in 0 .. Len(m) /\ Len(m) \in Nat
      BY <1>4, <1>7
    <2>2. /\ r \in Seq(Entry) /\ Len(r) = Len(m) - k
          /\ \A i \in 1 .. Len(m) - k : r[i] = m[i + k]
      BY <2>1, <1>7, PopEntries
    <2>3. \A i \in 1 .. Len(m) - k : i + k \in 1 .. Len(m)
      BY <2>1
    <2> HIDE DEF r, q
    <2> QED BY <2>1, <2>2, <2>3, <1>7
  <1> HIDE DEF r
  <1>9. \A i \in 1 .. Len(q) : m[i].acked => m[i].offset \in processed
    BY <1>2, <1>5, <1>8 DEF AckedProcessed, IndInv
  <1>10. \A i \in 1 .. k : i \in 1 .. Len(q) /\ m[i].offset \in processed /\ q[i].offset \in processed
    BY <1>5, <1>8, <1>9
  <1>11. ASSUME NEW i \in 1 .. Len(q), NEW o \in Offsets, o < m[i].offset
         PROVE  o \in processed \/ \E n \in k + 1 .. i - 1 : m[n].offset = o
    <2>1. o \in processed \/ \E n \in 1 .. i - 1 : q[n].offset = o
      <3>1. o < q[i].offset
        BY <1>8, <1>11
      <3> QED BY <3>1, <1>2 DEF OrderedLeases, IndInv
    <2>2. ASSUME NEW n \in 1 .. i - 1, q[n].offset = o
          PROVE  o \in processed \/ \E nn \in k + 1 .. i - 1 : m[nn].offset = o
      <3>1. CASE n <= k
        BY <3>1, <2>2, <1>8, <1>10
      <3>2. CASE n > k
        <4>1. n \in k + 1 .. i - 1 /\ n \in 1 .. Len(q)
          BY <3>2, <1>8
        <4>2. m[n].offset = o
          BY <4>1, <2>2, <1>8
        <4> QED BY <4>1, <4>2
      <3>3. n <= k \/ n > k
        BY <1>8
      <3> QED BY <3>1, <3>2, <3>3
    <2> QED BY <2>1, <2>2
  <1>12. ASSUME NEW g \in Gens, NEW o \in Offsets, Leased(g, o)
         PROVE  o \in processed \/ \E i \in 1 .. Len(pending'[g]) : pending'[g][i].offset = o
    <2>1. CASE g # h
      BY <2>1, <1>12, <1>6 DEF Leased
    <2>2. CASE g = h
      <3>1. PICK n \in 1 .. Len(q) : q[n].offset = o
        BY <2>2, <1>12 DEF Leased
      <3>2. CASE n <= k
        BY <3>1, <3>2, <1>8, <1>10
      <3>3. CASE n > k
        <4>1. n - k \in 1 .. Len(r) /\ (n - k) + k = n
          BY <3>3, <1>8
        <4>2. r[n - k].offset = o
          BY <4>1, <3>1, <1>8
        <4> QED BY <4>1, <4>2, <2>2, <1>6
      <3>4. n <= k \/ n > k
        BY <1>8
      <3> QED BY <3>2, <3>3, <3>4
    <2> QED BY <2>1, <2>2
  <1>13. /\ stage'[d] \in {"done", "committing"}
         /\ \A e \in Deliveries : e # d => stage'[e] = stage[e] /\ target'[e] = target[e]
         /\ stage'[d] = "committing" => k > 0 /\ target'[d] = m[k].offset + 1
    <2>1. CASE k = 0
      BY <2>1, <1>2, <1>4
    <2>2. CASE k # 0
      <3>1. /\ stage' = [stage EXCEPT ![d] = "committing"]
            /\ target' = [target EXCEPT ![d] = m[k].offset + 1]
        BY <2>2, <1>4
      <3>2. k > 0
        BY <2>2, <1>8
      <3> QED BY <3>1, <3>2, <1>2
    <2> QED BY <2>1, <2>2
  <1>14. k > 0 => k \in 1 .. k /\ k \in 1 .. Len(q) /\ m[k].offset + 1 \in 0 .. NumRecords
                  /\ m[k].offset \in Offsets
    BY <1>8, Ranges
  <1>15. TypeOK'
    <2>1. pending' \in [Gens -> Seq(Entry)]
      BY <1>2, <1>6, <1>8, <1>4
    <2>2. CASE k = 0
      <3>1. stage' \in [Deliveries -> Stages] /\ target' = target /\ offsetLock' = offsetLock
        BY <2>2, <1>2, <1>4 DEF Stages
      <3> QED BY <3>1, <2>1, <1>1 DEF TypeOK, IndInv, AckMark
    <2>3. CASE k # 0
      <3>1. k > 0
        BY <2>3, <1>8
      <3>2. stage' \in [Deliveries -> Stages]
        BY <2>3, <1>2, <1>4 DEF Stages
      <3>3. target' \in [Deliveries -> 0 .. NumRecords]
        BY <2>3, <3>1, <1>2, <1>4, <1>14
      <3>4. offsetLock' \in [Gens -> Deliveries \cup {Free}]
        BY <2>3, <1>2, <1>4 DEF TypeOK, IndInv
      <3> QED BY <3>2, <3>3, <3>4, <2>1, <1>1 DEF TypeOK, IndInv, AckMark
    <2> QED BY <2>2, <2>3
  <1>16. AckedProcessed'
    <2> SUFFICES ASSUME NEW g \in Gens, NEW i \in 1 .. Len(pending'[g]), pending'[g][i].acked
                 PROVE  pending'[g][i].offset \in processed
      BY <1>1 DEF AckedProcessed
    <2>1. CASE g # h
      BY <2>1, <1>6 DEF AckedProcessed, IndInv
    <2>2. CASE g = h
      BY <2>2, <1>6, <1>8, <1>9
    <2> QED BY <2>1, <2>2
  <1>17. OrderedLeases'
    <2> SUFFICES ASSUME NEW g \in Gens, position[g] # NoConsumer,
                        NEW i \in 1 .. Len(pending'[g]), NEW o \in Offsets,
                        o < pending'[g][i].offset
                 PROVE  o \in processed \/ \E n \in 1 .. i - 1 : pending'[g][n].offset = o
      BY <1>1 DEF OrderedLeases
    <2>1. CASE g # h
      BY <2>1, <1>6 DEF OrderedLeases, IndInv
    <2>2. CASE g = h
      <3>1. i + k \in 1 .. Len(q) /\ r[i] = m[i + k] /\ i \in 1 .. Len(r)
        BY <2>2, <1>6, <1>8
      <3>2. o \in processed \/ \E n \in k + 1 .. (i + k) - 1 : m[n].offset = o
        BY <3>1, <2>2, <1>6, <1>11
      <3>3. ASSUME NEW n \in k + 1 .. (i + k) - 1, m[n].offset = o
            PROVE  \E nn \in 1 .. i - 1 : r[nn].offset = o
        <4>1. n - k \in 1 .. i - 1 /\ n - k \in 1 .. Len(r) /\ (n - k) + k = n
          BY <3>1, <1>8
        <4>2. r[n - k].offset = o
          BY <4>1, <3>3, <1>8
        <4> QED BY <4>1, <4>2
      <3> QED BY <3>2, <3>3, <2>2, <1>6
    <2> QED BY <2>1, <2>2
  <1>18. AtLeastOnce'
    BY <1>1 DEF AtLeastOnce, IndInv
  <1>19. CommitsProcessed'
    <2> SUFFICES ASSUME NEW e \in Deliveries, NEW o \in Offsets,
                        stage'[e] = "committing", o < target'[e]
                 PROVE  o \in processed
      BY <1>1 DEF CommitsProcessed
    <2>1. CASE e # d
      BY <2>1, <1>13 DEF CommitsProcessed, IndInv
    <2>2. CASE e = d
      <3>1. k > 0 /\ target'[d] = m[k].offset + 1
        BY <2>2, <1>13
      <3>2. k \in 1 .. Len(q) /\ m[k].offset \in processed /\ m[k].offset \in Offsets
        BY <3>1, <1>10, <1>14
      <3>3. o = m[k].offset \/ o < m[k].offset
        <4>1. o \in Int /\ m[k].offset \in Int /\ o < m[k].offset + 1
          BY <3>1, <3>2, <2>2, Ranges
        <4> QED BY <4>1
      <3>4. CASE o < m[k].offset
        BY <3>2, <3>4, <1>8, <1>11
      <3> QED BY <3>2, <3>3, <3>4
    <2> QED BY <2>1, <2>2
  <1>20. AckingProcessed'
    <2>1. \A e \in Deliveries : stage'[e] # "none" => stage[e] # "none"
      BY <1>2, <1>13
    <2>2. \A e \in Deliveries : stage'[e] \in {"acking", "committing", "recovering"} =>
             stage[e] \in {"acking", "committing", "recovering"}
      BY <1>2, <1>13
    <2> QED BY <2>1, <2>2, <1>1 DEF AckingProcessed, IndInv
  <1>21. \A e \in Deliveries : stage'[e] = "fetched" <=> stage[e] = "fetched"
    BY <1>2, <1>13
  <1>22. NothingSkipped'
    <2>1. ASSUME running, NEW g \in Gens, NEW o \in Offsets, o < position[g]
          PROVE  \/ o \in processed
                 \/ \E i \in 1 .. Len(pending'[g]) : pending'[g][i].offset = o
                 \/ \E e \in Deliveries :
                      stage'[e] = "fetched" /\ client[e] = g /\ record[e] = o
      BY <2>1, <1>12, <1>21 DEF NothingSkipped, IndInv
    <2>2. ASSUME NEW e \in Deliveries, NEW o \in Offsets, stage'[e] = "fetched",
                 position[client[e]] # NoConsumer, o < record[e]
          PROVE  \/ o \in processed
                 \/ \E i \in 1 .. Len(pending'[client[e]]) : pending'[client[e]][i].offset = o
      <3>1. client[e] \in Gens
        BY <1>2
      <3>2. o \in processed \/ Leased(client[e], o)
        BY <2>2, <1>21 DEF NothingSkipped, IndInv
      <3> QED BY <3>1, <3>2, <1>12
    <2> QED BY <2>1, <2>2, <1>1 DEF NothingSkipped, Leased
  <1>23. ClientOrder'
    <2>1. \A g \in Gens : g > gen => position[g] = NoConsumer /\ pending'[g] = <<>>
      BY <1>2, <1>6 DEF ClientOrder, IndInv
    <2>2. position[gen] = NoConsumer => pending'[gen] = <<>>
      BY <1>2, <1>6 DEF ClientOrder, IndInv
    <2> QED BY <2>1, <2>2, <1>1, <1>21 DEF ClientOrder, IndInv
  <1> QED BY <1>15, <1>16, <1>17, <1>18, <1>19, <1>20, <1>22, <1>23 DEF IndInv

\* Closing a replaced client forgets its leases; it can no longer commit.
LEMMA ClosePreviousInv == ASSUME NEW h \in Gens PROVE IndInv /\ ClosePrevious(h) => IndInv'
  <1> SUFFICES ASSUME IndInv, ClosePrevious(h) PROVE IndInv'
    OBVIOUS
  <1>1. /\ record' = record /\ target' = target /\ gen' = gen
        /\ committed' = committed /\ running' = running /\ client' = client
        /\ processed' = processed /\ stage' = stage
    BY DEF ClosePrevious, delivery, coordinates
  <1>2. /\ position' = [position EXCEPT ![h] = NoConsumer]
        /\ pending' = [pending EXCEPT ![h] = <<>>]
        /\ position \in [Gens -> NoConsumer .. NumRecords]
        /\ pending \in [Gens -> Seq(Entry)] /\ h # gen /\ gen \in Gens
    BY Ranges DEF ClosePrevious, TypeOK, IndInv
  <1>3. /\ position'[h] = NoConsumer /\ pending'[h] = <<>> /\ Len(pending'[h]) = 0
        /\ \A g \in Gens : g # h => position'[g] = position[g] /\ pending'[g] = pending[g]
    BY <1>2
  <1>4. TypeOK'
    <2>1. position' \in [Gens -> NoConsumer .. NumRecords] /\ pending' \in [Gens -> Seq(Entry)]
      BY <1>2, Ranges
    <2> QED BY <2>1, <1>1 DEF ClosePrevious, TypeOK, IndInv
  <1>5. AckedProcessed' /\ OrderedLeases'
    BY <1>1, <1>3 DEF AckedProcessed, OrderedLeases, IndInv
  <1>6. CommitsProcessed' /\ AckingProcessed' /\ AtLeastOnce'
    BY <1>1 DEF CommitsProcessed, AckingProcessed, AtLeastOnce, IndInv
  <1>7. NothingSkipped'
    <2>1. \A o \in Offsets : ~(o < NoConsumer)
      BY Ranges
    <2>2. client \in [Deliveries -> Gens]
      BY DEF TypeOK, IndInv
    <2> QED BY <1>1, <1>3, <2>1, <2>2 DEF NothingSkipped, Leased, IndInv
  <1>8. ClientOrder'
    BY <1>1, <1>2, <1>3 DEF ClientOrder, IndInv
  <1> QED BY <1>4, <1>5, <1>6, <1>7, <1>8 DEF IndInv

\* Cancelling the scheduler loops may lose a fetched record, but stops fetching.
LEMMA CancelLoopsInv == IndInv /\ CancelLoops => IndInv'
  <1> SUFFICES ASSUME IndInv, CancelLoops PROVE IndInv'
    OBVIOUS
  <1>1. /\ record' = record /\ target' = target /\ gen' = gen /\ position' = position
        /\ pending' = pending /\ committed' = committed /\ running' = FALSE
        /\ client' = client /\ processed' = processed
    BY DEF CancelLoops, coordinates
  <1>2. \A d \in Deliveries :
           stage'[d] = IF stage[d] = "fetched" THEN "lost" ELSE stage[d]
    BY DEF CancelLoops
  <1>3. TypeOK'
    BY <1>1 DEF CancelLoops, TypeOK, IndInv, Stages
  <1>4. AckedProcessed' /\ OrderedLeases' /\ AtLeastOnce'
    BY <1>1 DEF AckedProcessed, OrderedLeases, AtLeastOnce, IndInv
  <1>5. CommitsProcessed' /\ AckingProcessed'
    BY <1>1, <1>2 DEF CommitsProcessed, AckingProcessed, IndInv
  <1>6. NothingSkipped' /\ ClientOrder'
    BY <1>1, <1>2 DEF NothingSkipped, ClientOrder, IndInv
  <1> QED BY <1>3, <1>4, <1>5, <1>6 DEF IndInv

\* A restarted worker knows only what the broker knows.
LEMMA RestartInv == IndInv /\ Restart => IndInv'
  <1> SUFFICES ASSUME IndInv, Restart PROVE IndInv'
    OBVIOUS
  <1>1. /\ record' = record /\ target' = target /\ committed' = committed
        /\ client' = client /\ processed' = processed
    BY DEF Restart, coordinates
  <1>2. /\ gen' = gen + 1 /\ gen' \in Gens /\ gen \in Int
        /\ \A g \in Gens : position'[g] = NoConsumer /\ pending'[g] = <<>>
        /\ \A g \in Gens : Len(pending'[g]) = 0
    BY Ranges DEF Restart, TypeOK, IndInv
  <1>3. \A d \in Deliveries :
           stage'[d] = IF stage[d] \in {"none", "done"} THEN stage[d] ELSE "lost"
    BY DEF Restart
  <1>4. TypeOK'
    <2>1. /\ position' \in [Gens -> NoConsumer .. NumRecords]
          /\ pending' \in [Gens -> Seq(Entry)]
          /\ offsetLock' \in [Gens -> Deliveries \cup {Free}]
      BY Ranges DEF Restart
    <2>2. stage' \in [Deliveries -> Stages]
      BY DEF Restart, TypeOK, IndInv, Stages
    <2> QED BY <2>1, <2>2, <1>1, <1>2 DEF Restart, TypeOK, IndInv
  <1>5. AckedProcessed' /\ OrderedLeases' /\ AtLeastOnce'
    BY <1>1, <1>2 DEF AckedProcessed, OrderedLeases, AtLeastOnce, IndInv
  <1>6. CommitsProcessed' /\ AckingProcessed'
    BY <1>1, <1>3 DEF CommitsProcessed, AckingProcessed, IndInv
  <1>7. NothingSkipped'
    <2>1. \A o \in Offsets : ~(o < NoConsumer)
      BY Ranges
    <2> QED BY <2>1, <1>1, <1>2, <1>3 DEF NothingSkipped
  <1>8. \A d \in Deliveries : client[d] <= gen /\ client[d] \in Int
    BY Ranges DEF ClientOrder, TypeOK, IndInv
  <1>9. ClientOrder'
    BY <1>1, <1>2, <1>3, <1>8 DEF ClientOrder
  <1> QED BY <1>4, <1>5, <1>6, <1>7, <1>9 DEF IndInv

\* A stuttering step changes nothing the invariant mentions.
LEMMA StutterInv == IndInv /\ UNCHANGED vars => IndInv'
  <1> SUFFICES ASSUME IndInv, UNCHANGED vars PROVE IndInv'
    OBVIOUS
  <1>1. /\ committed' = committed /\ gen' = gen /\ position' = position
        /\ pending' = pending /\ offsetLock' = offsetLock /\ stage' = stage
        /\ record' = record /\ client' = client /\ target' = target
        /\ processed' = processed /\ rebalances' = rebalances /\ running' = running
    BY DEF vars, delivery, coordinates
  <1>2. TypeOK'
    BY <1>1 DEF IndInv, TypeOK
  <1>3. NothingSkipped'
    BY <1>1 DEF IndInv, NothingSkipped, Leased
  <1>4. ClientOrder'
    BY <1>1 DEF IndInv, ClientOrder
  <1> QED BY <1>1, <1>2, <1>3, <1>4
          DEF IndInv, AckedProcessed, OrderedLeases, CommitsProcessed, AckingProcessed,
              AtLeastOnce

\* IndInv is inductive: every step of clients, broker and failures preserves it.
THEOREM Inductive == IndInv /\ [Next]_vars => IndInv'
  <1> SUFFICES ASSUME IndInv, [Next]_vars PROVE IndInv'
    OBVIOUS
  <1>1. ASSUME NEW d \in Deliveries, DeliveryStep(d) PROVE IndInv'
    BY <1>1, GetoneInv, RecordLeaseInv, CompleteRequestInv, AckUnknownInv,
       AckMarkInv, CommitSucceedsInv, CommitFailsInv, RetryAckInv DEF DeliveryStep
  <1>2. ASSUME NEW d \in Deliveries, CancelOwner(d) PROVE IndInv'
    BY <1>2, CancelOwnerInv
  <1>3. ASSUME NEW g \in Gens, ClosePrevious(g) PROVE IndInv'
    BY <1>3, ClosePreviousInv
  <1> QED BY <1>1, <1>2, <1>3, GetRequestConsumerInv, ReplaceClientInv, RebalanceInv,
             CancelLoopsInv, RestartInv, StutterInv DEF Next

\* KafkaClient, its repository and its scheduler keep every variable in its type.
THEOREM TypeCorrect == Spec => []TypeOK
  <1>1. IndInv => TypeOK
    BY DEF IndInv
  <1> QED BY InitInv, Inductive, <1>1, PTL DEF Spec

\* The committed offset never passes a record whose request did not complete,
\* for every log length, any number of replacements, rebalances and restarts.
THEOREM AtLeastOnceHolds == Spec => []AtLeastOnce
  <1>1. IndInv => AtLeastOnce
    BY DEF IndInv
  <1> QED BY InitInv, Inductive, <1>1, PTL DEF Spec
=============================================================================
