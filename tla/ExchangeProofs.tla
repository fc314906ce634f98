--------------------------- MODULE ExchangeProofs ---------------------------
(***************************************************************************)
(* Proofs about what a crawler exchanges with others, for any values of    *)
(* the constants: the filters (Dedup), the session snapshots               *)
(* (SessionState), leased and Kafka work (Leases, KafkaHandover), event    *)
(* streams (EventStream) and robots.txt (Politeness).                      *)
(*                                                                         *)
(* AdmittedOnce speaks of requests, the filter of positions: inductive is  *)
(* that an admitted request's positions are recorded until its shard       *)
(* forgets (AdmittedRecorded), for DroppedForCause that every position     *)
(* recorded is that of a voucher (Vouched), and for both that what the     *)
(* interceptor has passed has lost its start flag (FlagsPopped).           *)
(*                                                                         *)
(* That a leased request finds its cookies is a chain from the put to the  *)
(* lease, across processes: the stored snapshot has the cookies of what is *)
(* behind it (StoredHolds) and one under way those of its request          *)
(* (SavingHolds); as long as the session of a process may be older than    *)
(* the stored one, every reply is the stored snapshot (BeforeReady), and   *)
(* from then on the jar itself has the cookies (AfterReady).  It bounds    *)
(* neither the restores nor the saves under way.                           *)
(*                                                                         *)
(* That no work is lost says where each piece of it may be: in the queue,  *)
(* in the one slot of the crawler that leased it, with the producer that   *)
(* still has to push it, or settled.  For Kafka the leases of a topic are  *)
(* the run of offsets between commit and fetch position, and counting      *)
(* attempts bounds the copies.  Both need the identity of a request not to *)
(* be given to another one while its lease is recorded.                    *)
(*                                                                         *)
(* An event stream is followed by relating the event being built to the    *)
(* lines of the block since the last empty one.  For robots.txt, the cache *)
(* is related to the files, and the longest rule kept to the best rule of  *)
(* the file: both exist since a set of numbers has a least one.            *)
(***************************************************************************)
EXTENDS MCExchange, FiniteSetTheorems, SequenceTheorems, WellFoundedInduction,
        TLAPS

---------------------------------------------------------------------------
(* Dedup.                                                                  *)

Occupied(S) == UNION {Bits(p) : p \in S}

\* The interceptor popped the flag of what reached put.
FlagsPopped == \A q \in flagged : place[q] = "yielded"

\* An admitted request was recorded, and its positions are until its shard
\* forgets.
AdmittedRecorded ==
    \A q \in Discovered \ DontFilter :
        place[q] \in Admitted =>
            /\ q \in recorded
            /\ Shard(q) \notin expired => Bits(q) \subseteq newSeen[Shard(q)]

\* A recorded position is one of a request that answers for it.
Vouched ==
    \A s \in Shards : newSeen[s] \cup sentSeen[s] \subseteq Occupied(Vouchers(s))

\* The inductive invariant of the filters.
DedupIInv == DedupInv /\ FlagsPopped /\ AdmittedRecorded /\ Vouched

\* The positions of a request are positions of its shard's bitmap.
LEMMA BitsTyped ==
    ASSUME NEW q \in Discovered
    PROVE Bits(q) \subseteq AllPositions /\ Shard(q) \in Shards
BY DEF Bits, AllPositions, Shards, Shard

\* Every action: who answers for a position does so for ever, since records
\* and lost replies are kept and an admitted request is not dropped.
LEMMA VouchersStay ==
    ASSUME DedupTypeOK,
           recorded \subseteq recorded', recorded' \subseteq Discovered,
           lostReply \subseteq lostReply',
           \A p \in Discovered : place[p] \in Admitted => place'[p] \in Admitted
    PROVE \A s : /\ Vouchers(s) \subseteq Vouchers(s)'
                 /\ Occupied(Vouchers(s)) \subseteq Occupied(Vouchers(s))'
<1>1. \A s : Vouchers(s) \subseteq Vouchers(s)'
  BY DEF Vouchers, Shard, DedupTypeOK
<1> QED BY <1>1 DEF Occupied, Bits

\* What was dropped before stays accounted for.
LEMMA DroppedStays ==
    ASSUME DroppedForCause, NEW q \in Discovered, place[q] = "dropped",
           \A s : Occupied(Vouchers(s)) \subseteq Occupied(Vouchers(s))'
    PROVE Bits(q) \subseteq UNION {Bits(p) : p \in Vouchers(Shard(q))'}
<1>1. Bits(q) \subseteq Occupied(Vouchers(Shard(q)))
  BY DEF DroppedForCause, Occupied
<1>2. Occupied(Vouchers(Shard(q))) \subseteq Occupied(Vouchers(Shard(q)))'
  OBVIOUS
<1> QED BY <1>1, <1>2 DEF Occupied, Bits

\* What a step that moves one request and records nothing preserves.
LEMMA PutKeeps ==
    ASSUME DedupIInv, NEW q \in Discovered, NEW where, Put(q, where), KeepSeen,
           where \in {"found", "new", "checking", "queued", "lost", "taken"},
           place[q] \in {"yielded", "found", "new", "queued"},
           place[q] \in Admitted => where \in Admitted,
           where \in Admitted /\ q \notin DontFilter => place[q] \in Admitted,
           flagged' \in {flagged, flagged \ {q}},
           place[q] = "yielded" => q \notin flagged'
    PROVE DedupIInv'
<1>1. DedupTypeOK'
  BY DEF DedupIInv, DedupInv, DedupTypeOK, Put, KeepSeen
<1>2. \A p \in Discovered : /\ p # q => place'[p] = place[p]
                            /\ place'[q] = where
  BY DEF DedupIInv, DedupInv, DedupTypeOK, Put
<1>3. \A p \in Discovered \ DontFilter : place'[p] \in Admitted => place[p] \in Admitted
  BY <1>2
<1>4. AdmittedOnce' /\ AdmittedRecorded'
  BY <1>3 DEF DedupIInv, DedupInv, AdmittedOnce, AdmittedRecorded, KeepSeen,
         Shard, Bits
<1>5. \A s : Occupied(Vouchers(s)) \subseteq Occupied(Vouchers(s))'
  <2>1. \A p \in Discovered : place[p] \in Admitted => place'[p] \in Admitted
    BY <1>2
  <2> QED BY <2>1, VouchersStay DEF KeepSeen, DedupIInv, DedupInv, DedupTypeOK
<1>6. Vouched'
  BY <1>5 DEF DedupIInv, Vouched, KeepSeen
<1>7. DroppedForCause'
  BY <1>2, <1>5, DroppedStays DEF DedupIInv, DedupInv, DroppedForCause, Shard, Bits
<1>8. FlagsPopped'
  BY <1>2 DEF DedupIInv, DedupInv, DedupTypeOK, FlagsPopped
<1> QED BY <1>1, <1>4, <1>6, <1>7, <1>8 DEF DedupIInv, DedupInv

\* What the script does to the records, whether its reply arrives or not.
LEMMA RecordedKeeps ==
    ASSUME DedupIInv, NEW q \in Discovered, Recorded(q)
    PROVE /\ newSeen' \in [Shards -> SUBSET AllPositions]
          /\ recorded' \subseteq Discovered
          /\ recorded \subseteq recorded' /\ recorded' \subseteq recorded \cup {q}
          /\ \A s \in Shards : newSeen[s] \subseteq newSeen'[s]
          /\ \A s \in Shards : newSeen'[s] \subseteq newSeen[s] \cup Bits(q)
          /\ \A s \in Shards : newSeen'[s] # newSeen[s] => s = Shard(q) /\ q \in recorded'
          /\ IsNew(q) => Bits(q) \subseteq newSeen'[Shard(q)] /\ q \in recorded'
<1>1. newSeen \in [Shards -> SUBSET AllPositions] /\ recorded \subseteq Discovered
  BY DEF DedupIInv, DedupInv, DedupTypeOK
<1>2. CASE IsNew(q) \/ RecordsSeen
  <2>1. /\ newSeen' = [newSeen EXCEPT ![Shard(q)] = @ \cup Bits(q)]
        /\ recorded' = recorded \cup {q}
    BY <1>2 DEF Recorded
  <2>2. Bits(q) \subseteq AllPositions /\ Shard(q) \in Shards
    BY BitsTyped
  <2>3. \A s \in Shards : newSeen'[s] = IF s = Shard(q) THEN newSeen[s] \cup Bits(q) ELSE newSeen[s]
    BY <2>1, <1>1
  <2>4. newSeen' \in [Shards -> SUBSET AllPositions]
    BY <2>1, <2>2, <1>1
  <2> QED BY <1>1, <2>1, <2>2, <2>3, <2>4
<1>3. CASE ~(IsNew(q) \/ RecordsSeen)
  <2>1. UNCHANGED <<newSeen, recorded>>
    BY <1>3 DEF Recorded
  <2> QED BY <1>1, <1>3, <2>1
<1> QED BY <1>2, <1>3

\* Filter, FilterReplyLost: what the script records is vouched for, by the
\* request it met when that is new or its reply lost, else by earlier ones.
LEMMA RecordedVouched ==
    ASSUME DedupIInv, NEW q \in Discovered, Recorded(q), sentSeen' = sentSeen,
           \A s : Occupied(Vouchers(s)) \subseteq Occupied(Vouchers(s))',
           IsNew(q) => place'[q] \in Admitted \/ q \in lostReply'
    PROVE Vouched'
<1> SUFFICES ASSUME NEW s \in Shards
             PROVE newSeen'[s] \cup sentSeen'[s] \subseteq Occupied(Vouchers(s))'
  BY DEF Vouched
<1>1. newSeen[s] \cup sentSeen[s] \subseteq Occupied(Vouchers(s))'
  BY DEF DedupIInv, Vouched
<1>2. CASE newSeen'[s] = newSeen[s]
  BY <1>1, <1>2
<1>3. CASE newSeen'[s] # newSeen[s]
  <2>1. s = Shard(q) /\ q \in recorded' /\ newSeen'[s] \subseteq newSeen[s] \cup Bits(q)
    BY <1>3, RecordedKeeps
  <2>2. Bits(q) \subseteq Occupied(Vouchers(s))'
    <3>1. CASE IsNew(q)
      <4>1. q \in Vouchers(s)'
        BY <2>1, <3>1 DEF Vouchers, Shard
      <4> QED BY <4>1 DEF Occupied, Bits
    <3>2. CASE ~IsNew(q)
      BY <2>1, <3>2, <1>1 DEF IsNew
    <3> QED BY <3>1, <3>2
  <2> QED BY <1>1, <2>1, <2>2
<1> QED BY <1>2, <1>3

\* The script runs and its verdict arrives.
LEMMA FilterKeeps ==
    ASSUME DedupIInv, NEW q \in Discovered, Filter(q)
    PROVE DedupIInv'
<1> DEFINE verdict == IF IsNew(q) THEN "new" ELSE "dropped"
<1>1. /\ newSeen' \in [Shards -> SUBSET AllPositions]
      /\ recorded' \subseteq Discovered
      /\ recorded \subseteq recorded' /\ recorded' \subseteq recorded \cup {q}
      /\ \A s \in Shards : newSeen[s] \subseteq newSeen'[s]
      /\ IsNew(q) => Bits(q) \subseteq newSeen'[Shard(q)] /\ q \in recorded'
  BY RecordedKeeps DEF Filter
<1>2. /\ place[q] = "checking" /\ place' = [place EXCEPT ![q] = verdict]
      /\ sentSeen' = sentSeen /\ lostReply' = lostReply /\ expired' = expired
      /\ flagged' = flagged /\ Recorded(q)
  BY DEF Filter, Put
<1>3. verdict \in {"new", "dropped"}
  OBVIOUS
<1>4. DedupTypeOK'
  BY <1>1, <1>2 DEF DedupIInv, DedupInv, DedupTypeOK
<1>5. \A p \in Discovered : p # q => place'[p] = place[p]
  BY <1>2 DEF DedupIInv, DedupInv, DedupTypeOK
<1>6. place'[q] = verdict
  BY <1>2 DEF DedupIInv, DedupInv, DedupTypeOK
<1>7. AdmittedRecorded'
  <2> SUFFICES ASSUME NEW p \in Discovered \ DontFilter, place'[p] \in Admitted
               PROVE /\ p \in recorded'
                     /\ Shard(p) \notin expired => Bits(p) \subseteq newSeen'[Shard(p)]
    BY <1>2 DEF AdmittedRecorded, Shard, Bits
  <2>1. CASE p = q
    BY <2>1, <1>1, <1>6 DEF Admitted
  <2>2. CASE p # q
    <3>1. p \in recorded /\ (Shard(p) \notin expired => Bits(p) \subseteq newSeen[Shard(p)])
      BY <2>2, <1>5 DEF DedupIInv, AdmittedRecorded
    <3> QED BY <3>1, <1>1, BitsTyped
  <2> QED BY <2>1, <2>2
<1>8. AdmittedOnce'
  <2> SUFFICES ASSUME NEW p \in Discovered \ DontFilter, NEW t \in Discovered \ DontFilter,
                      p # t, Fingerprint[p] = Fingerprint[t], Shard(p) \notin expired,
                      place'[p] \in Admitted, place'[t] \in Admitted
               PROVE FALSE
    BY <1>2 DEF AdmittedOnce, Shard
  <2>1. Bits(p) = Bits(t) /\ Shard(p) = Shard(t)
    BY DEF Bits, Shard
  <2>2. CASE p = q
    <3>1. Bits(t) \subseteq newSeen[Shard(t)]
      BY <2>1, <2>2, <1>5 DEF DedupIInv, AdmittedRecorded
    <3>2. ~IsNew(q)
      BY <3>1, <2>1, <2>2 DEF IsNew
    <3> QED BY <3>2, <2>2, <1>6 DEF Admitted
  <2>3. CASE t = q
    <3>1. Bits(p) \subseteq newSeen[Shard(p)]
      BY <2>3, <1>5 DEF DedupIInv, AdmittedRecorded
    <3>2. ~IsNew(q)
      BY <3>1, <2>1, <2>3 DEF IsNew
    <3> QED BY <3>2, <2>3, <1>6 DEF Admitted
  <2>4. CASE p # q /\ t # q
    BY <2>4, <1>5 DEF DedupIInv, DedupInv, AdmittedOnce
  <2> QED BY <2>2, <2>3, <2>4
<1>9. \A s : Occupied(Vouchers(s)) \subseteq Occupied(Vouchers(s))'
  <2>1. \A p \in Discovered : place[p] \in Admitted => place'[p] \in Admitted
    BY <1>2, <1>5 DEF Admitted
  <2> QED BY <1>1, <1>2, <2>1, VouchersStay DEF DedupIInv, DedupInv
<1>10. Vouched'
  BY <1>2, <1>6, <1>9, RecordedVouched DEF Admitted
<1>11. FlagsPopped'
  BY <1>2, <1>5 DEF DedupIInv, DedupInv, DedupTypeOK, FlagsPopped
<1>12. DroppedForCause'
  <2> SUFFICES ASSUME NEW p \in Discovered, place'[p] = "dropped"
               PROVE Bits(p) \subseteq UNION {Bits(t) : t \in Vouchers(Shard(p))'}
    BY DEF DroppedForCause, Shard, Bits
  <2>1. CASE p # q
    BY <2>1, <1>5, <1>9, DroppedStays DEF DedupIInv, DedupInv
  <2>2. CASE p = q
    <3>1. ~IsNew(q)
      BY <2>2, <1>6
    <3>2. Bits(q) \subseteq Occupied(Vouchers(Shard(q)))
      BY <3>1, BitsTyped DEF IsNew, DedupIInv, Vouched
    <3>3. Bits(q) \subseteq Occupied(Vouchers(Shard(q)))'
      BY <3>2, <1>9
    <3> QED BY <3>3, <2>2 DEF Occupied, Bits
  <2> QED BY <2>1, <2>2
<1> QED BY <1>4, <1>7, <1>8, <1>10, <1>11, <1>12 DEF DedupIInv, DedupInv

\* The script runs, the reply is lost.
LEMMA FilterReplyLostKeeps ==
    ASSUME DedupIInv, NEW q \in Discovered, FilterReplyLost(q)
    PROVE DedupIInv'
<1>1. /\ newSeen' \in [Shards -> SUBSET AllPositions]
      /\ recorded' \subseteq Discovered
      /\ recorded \subseteq recorded' /\ recorded' \subseteq recorded \cup {q}
      /\ \A s \in Shards : newSeen[s] \subseteq newSeen'[s]
  BY RecordedKeeps DEF FilterReplyLost
<1>2. /\ place[q] = "checking" /\ q \notin lostReply /\ lostReply' = lostReply \cup {q}
      /\ Cardinality(lostReply) < MaxLostReplies /\ Recorded(q)
      /\ sentSeen' = sentSeen /\ place' = place /\ expired' = expired /\ flagged' = flagged
  BY DEF FilterReplyLost
<1>3. Cardinality(lostReply') <= MaxLostReplies
  <2>1. IsFiniteSet(lostReply)
    BY DedupAssumption, FS_Subset DEF DedupIInv, DedupInv, DedupTypeOK
  <2>2. Cardinality(lostReply') = Cardinality(lostReply) + 1 /\ Cardinality(lostReply) \in Nat
    BY <2>1, <1>2, FS_AddElement, FS_CardinalityType
  <2> QED BY <2>2, <1>2, DedupAssumption
<1>4. DedupTypeOK'
  BY <1>1, <1>2, <1>3 DEF DedupIInv, DedupInv, DedupTypeOK
<1>5. AdmittedOnce' /\ AdmittedRecorded'
  BY <1>1, <1>2, BitsTyped DEF DedupIInv, DedupInv, AdmittedOnce,
         AdmittedRecorded, Shard, Bits
<1>6. \A s : Occupied(Vouchers(s)) \subseteq Occupied(Vouchers(s))'
  BY <1>1, <1>2, VouchersStay DEF DedupIInv, DedupInv
<1>7. Vouched'
  BY <1>2, <1>6, RecordedVouched
<1>8. DroppedForCause'
  BY <1>2, <1>6, DroppedStays DEF DedupIInv, DedupInv, DroppedForCause, Shard, Bits
<1>9. FlagsPopped'
  BY <1>2 DEF DedupIInv, FlagsPopped
<1> QED BY <1>4, <1>5, <1>7, <1>8, <1>9 DEF DedupIInv, DedupInv

\* A response arrives and the request is marked as sent.
LEMMA MarkSentKeeps ==
    ASSUME DedupIInv, NEW q \in Discovered, MarkSent(q)
    PROVE DedupIInv'
<1> DEFINE bits == IF q \in DontFilter THEN {} ELSE Bits(q)
<1>1. /\ place[q] = "taken" /\ place' = [place EXCEPT ![q] = "answered"]
      /\ sentSeen' = [sentSeen EXCEPT ![Shard(q)] = @ \cup bits]
      /\ newSeen' = newSeen /\ lostReply' = lostReply /\ expired' = expired
      /\ recorded' = recorded /\ flagged' = flagged
  BY DEF MarkSent, Put
<1>2. bits \subseteq Bits(q) /\ bits \subseteq AllPositions /\ Shard(q) \in Shards
  BY BitsTyped
<1>3. DedupTypeOK'
  BY <1>1, <1>2 DEF DedupIInv, DedupInv, DedupTypeOK
<1>4. \A p \in Discovered : /\ p # q => place'[p] = place[p]
                            /\ place'[q] = "answered"
  BY <1>1 DEF DedupIInv, DedupInv, DedupTypeOK
<1>5. \A p \in Discovered : place'[p] \in Admitted <=> place[p] \in Admitted
  BY <1>1, <1>4 DEF Admitted
<1>6. AdmittedOnce' /\ AdmittedRecorded'
  BY <1>1, <1>5 DEF DedupIInv, DedupInv, AdmittedOnce, AdmittedRecorded, Shard, Bits
<1>7. \A s : Occupied(Vouchers(s)) \subseteq Occupied(Vouchers(s))'
  BY <1>1, <1>5, VouchersStay DEF DedupIInv, DedupInv, DedupTypeOK
<1>8. Vouched'
  <2>1. bits \subseteq Occupied(Vouchers(Shard(q)))'
    <3>1. CASE q \in DontFilter
      BY <3>1
    <3>2. CASE q \notin DontFilter
      <4>1. q \in recorded
        BY <3>2, <1>1 DEF DedupIInv, AdmittedRecorded, Admitted
      <4>2. q \in Vouchers(Shard(q))'
        BY <4>1, <1>1, <1>4 DEF Vouchers, Shard, Admitted
      <4> QED BY <4>2, <1>2 DEF Occupied, Bits
    <3> QED BY <3>1, <3>2
  <2>2. \A s \in Shards : sentSeen'[s] = IF s = Shard(q) THEN sentSeen[s] \cup bits ELSE sentSeen[s]
    <3> HIDE DEF bits
    <3> QED BY <1>1 DEF DedupIInv, DedupInv, DedupTypeOK
  <2> SUFFICES ASSUME NEW s \in Shards
               PROVE newSeen'[s] \cup sentSeen'[s] \subseteq Occupied(Vouchers(s))'
    BY DEF Vouched
  <2>3. newSeen[s] \cup sentSeen[s] \subseteq Occupied(Vouchers(s))'
    BY <1>7 DEF DedupIInv, Vouched
  <2> HIDE DEF bits
  <2> QED BY <2>1, <2>2, <2>3, <1>1
<1>9. FlagsPopped'
  BY <1>1, <1>4 DEF DedupIInv, DedupInv, DedupTypeOK, FlagsPopped
<1>10. DroppedForCause'
  BY <1>4, <1>7, DroppedStays DEF DedupIInv, DedupInv, DroppedForCause, Shard, Bits
<1> QED BY <1>3, <1>6, <1>8, <1>9, <1>10 DEF DedupIInv, DedupInv

\* A key expires, and its shard with it.
LEMMA ExpireKeyKeeps ==
    ASSUME DedupIInv, NEW s \in Shards, ExpireKey(s)
    PROVE DedupIInv'
<1>1. /\ expired' = expired \cup {s} /\ flagged' = flagged
      /\ place' = place /\ lostReply' = lostReply /\ recorded' = recorded
  BY DEF ExpireKey
<1>2. /\ newSeen' \in [Shards -> SUBSET AllPositions]
      /\ sentSeen' \in [Shards -> SUBSET AllPositions]
      /\ \A t \in Shards : newSeen'[t] \subseteq newSeen[t] /\ sentSeen'[t] \subseteq sentSeen[t]
      /\ \A t \in Shards \ {s} : newSeen'[t] = newSeen[t]
  BY DEF ExpireKey, DedupIInv, DedupInv, DedupTypeOK
<1>3. DedupTypeOK'
  BY <1>1, <1>2 DEF DedupIInv, DedupInv, DedupTypeOK
<1>4. \A t : Occupied(Vouchers(t)) \subseteq Occupied(Vouchers(t))'
  BY <1>1, VouchersStay DEF DedupIInv, DedupInv, DedupTypeOK
<1>5. AdmittedOnce' /\ FlagsPopped'
  BY <1>1 DEF DedupIInv, DedupInv, AdmittedOnce, FlagsPopped
<1>6. DroppedForCause'
  BY <1>1, <1>4, DroppedStays DEF DedupIInv, DedupInv, DroppedForCause, Shard, Bits
<1>7. AdmittedRecorded'
  BY <1>1, <1>2, BitsTyped DEF DedupIInv, AdmittedRecorded, Shard, Bits
<1>8. Vouched'
  BY <1>2, <1>4 DEF DedupIInv, Vouched
<1> QED BY <1>3, <1>5, <1>6, <1>7, <1>8 DEF DedupIInv, DedupInv

\* The inductive invariant holds at first and every step keeps it.
THEOREM DedupInductive ==
    /\ DedupInit => DedupIInv
    /\ DedupIInv /\ [DedupNext]_dedupVars => DedupIInv'
<1>1. DedupInit => DedupIInv
  <2> SUFFICES ASSUME DedupInit PROVE DedupIInv
    OBVIOUS
  <2>1. DedupTypeOK
    BY DedupAssumption, FS_EmptySet DEF DedupInit, DedupTypeOK
  <2>2. \A q \in Discovered : place[q] = "yielded"
    BY DEF DedupInit
  <2>3. AdmittedOnce /\ DroppedForCause /\ AdmittedRecorded
    BY <2>2 DEF AdmittedOnce, DroppedForCause, AdmittedRecorded, Admitted
  <2>4. FlagsPopped
    BY <2>2, DedupAssumption DEF FlagsPopped, DedupInit
  <2>5. Vouched
    BY DEF Vouched, DedupInit
  <2> QED BY <2>1, <2>3, <2>4, <2>5 DEF DedupIInv, DedupInv
<1>2. DedupIInv /\ [DedupNext]_dedupVars => DedupIInv'
  <2> SUFFICES ASSUME DedupIInv, [DedupNext]_dedupVars PROVE DedupIInv'
    OBVIOUS
  <2>0. ASSUME NEW q \in Discovered, Intercept(q) PROVE DedupIInv'
    BY <2>0, PutKeeps DEF Intercept, Admitted
  <2>1. ASSUME NEW q \in Discovered, Bypass(q) PROVE DedupIInv'
    <3>1. q \in DontFilter
      BY <2>1 DEF Bypass, DedupIInv, FlagsPopped
    <3> QED BY <2>1, <3>1, PutKeeps DEF Bypass, Admitted
  <2>2. ASSUME NEW q \in Discovered, Check(q) PROVE DedupIInv'
    BY <2>2, PutKeeps DEF Check, Admitted
  <2>3. ASSUME NEW q \in Discovered, Enqueue(q) PROVE DedupIInv'
    BY <2>3, PutKeeps DEF Enqueue, Admitted
  <2>4. ASSUME NEW q \in Discovered, Fetch(q) PROVE DedupIInv'
    BY <2>4, PutKeeps DEF Fetch, Admitted
  <2>5. CASE UNCHANGED dedupVars
    <3>1. \A s : Occupied(Vouchers(s))' = Occupied(Vouchers(s))
      BY <2>5 DEF dedupVars, Occupied, Vouchers, Shard, Bits
    <3>2. DroppedForCause'
      BY <2>5, <3>1 DEF dedupVars, DedupIInv, DedupInv, DroppedForCause, Occupied,
             Shard, Bits
    <3>3. Vouched'
      BY <2>5, <3>1 DEF dedupVars, DedupIInv, Vouched
    <3> QED BY <2>5, <3>2, <3>3 DEF dedupVars, DedupIInv, DedupInv, DedupTypeOK,
           AdmittedOnce, AdmittedRecorded, FlagsPopped, Shard, Bits
  <2> QED BY <2>0, <2>1, <2>2, <2>3, <2>4, <2>5, FilterKeeps, FilterReplyLostKeeps,
         MarkSentKeeps, ExpireKeyKeeps DEF DedupNext
<1> QED BY <1>1, <1>2

\* Whatever the requests, the fingerprints and the bitmap: two workers never
\* both schedule a fingerprint its shard remembers, and what is dropped was
\* recorded by a request that was let in or that lost the script's reply
\* (do_filter, mark_sent).
THEOREM DedupHolds == DedupSpec => []DedupInv
<1>1. DedupIInv => DedupInv
  BY DEF DedupIInv
<1> QED BY <1>1, DedupInductive, PTL DEF DedupSpec

---------------------------------------------------------------------------
(* SessionState.                                                           *)

\* A request whose snapshot is stored, until its callback runs.
Behind == {"saved", "pushing", "queued", "asking", "answered", "leased", "sent", "resolving"}

\* The session of this process is as new as the stored one: the field is
\* marked, or a snapshot of this process has just been stored.
Ready == marked \/ \E r \in Visits : visit[r] = "saved"

\* The stored snapshot has the cookies of what is behind it.
StoredHolds ==
    \A r \in Visits : visit[r] \in Behind => stored # NoState /\ carries[r] \subseteq JarOf(stored)

\* A snapshot under way has the cookies of its request, and so has the jar.
SavingHolds ==
    \A r \in Visits : visit[r] = "saving" =>
        payload[r] \in Snapshots /\ carries[r] \subseteq payload[r].jar /\ carries[r] \subseteq jar

\* Until the session is as new, a reply is the stored snapshot and the jar
\* has what is being saved; from then on it has what is behind.
BeforeReady ==
    ~Ready => \A r \in Visits : /\ visit[r] = "answered" => payload[r] = stored
                                /\ visit[r] = "saving" => payload[r].jar \subseteq jar
AfterReady == Ready => \A r \in Visits : visit[r] \in Behind => carries[r] \subseteq jar
LeasedMarked == \A r \in Visits : visit[r] = "leased" => marked

\* The inductive invariant of the session's state.
SessionStateIInv ==
    /\ SessionStateTypeOK
    /\ StoredHolds /\ SavingHolds /\ BeforeReady /\ AfterReady /\ LeasedMarked

\* The types of the snapshot's parts are the types of the wrapper's.
LEMMA ExportTyped ==
    /\ Export \in Snapshots <=>
          jar \in SUBSET Tokens /\ accepted \in SUBSET Hints /\ known \in SUBSET Hints
    /\ Export.jar = jar /\ Export.accepted = accepted /\ Export.known = known
BY DEF Export, ExportCookies, ExportHints, Snapshots

\* The same of the next state.
LEMMA ExportTypedNext ==
    Export' \in Snapshots <=>
          jar' \in SUBSET Tokens /\ accepted' \in SUBSET Hints /\ known' \in SUBSET Hints
BY DEF Export, ExportCookies, ExportHints, Snapshots

\* A cookie more keeps the jar's type.
LEMMA JarGrows ==
    ASSUME SessionStateTypeOK,
           \E new \in SUBSET Tokens : Cardinality(new) <= 1 /\ jar' = jar \cup new
    PROVE jar \subseteq jar' /\ jar' \in SUBSET Tokens
BY ExportTyped DEF SessionStateTypeOK

\* A response leaves hints of the type the origin's have.
LEMMA HintsTyped ==
    ASSUME SessionStateTypeOK, NEW r \in Visits, Respond(r)
    PROVE /\ accepted' \in SUBSET Hints /\ known' \in SUBSET Hints
          /\ unresolved' \in [Visits -> SUBSET Hints]
BY ExportTyped DEF Respond, ImportHints, ExportHints, ClearOrigin,
   ReplaceRequested, SessionStateTypeOK

\* What a snapshot takes away leaves every request with fewer cookies, those
\* the snapshot has among what was replaced.
LEMMA TakenFrom ==
    ASSUME SessionStateTypeOK, NEW gone, Taken(gone)
    PROVE /\ carries' \in [Visits -> SUBSET Tokens]
          /\ \A r \in Visits : carries'[r] = carries[r] \ gone
BY DEF SessionStateTypeOK, Taken

\* A step that moves one request, and neither stores nor takes anything,
\* keeps the invariant when the request lands where it may.
LEMMA MoveKeeps ==
    ASSUME SessionStateIInv, NEW r \in Visits, NEW s \in Stations \ {"saving", "answered", "saved"},
           visit' = [visit EXCEPT ![r] = s],
           stored' = stored, payload' = payload, carries' = carries,
           restarts' = restarts, present' \in BOOLEAN, marked' \in BOOLEAN,
           unresolved' \in [Visits -> SUBSET Hints],
           accepted' \in SUBSET Hints, known' \in SUBSET Hints,
           jar' \in SUBSET Tokens, jar \subseteq jar',
           marked => marked', visit[r] = "saved" => marked', marked' => Ready,
           s \in Behind => visit[r] \in Behind, s = "leased" => marked'
    PROVE SessionStateIInv'
<1>1. \A q \in Visits : visit'[q] = IF q = r THEN s ELSE visit[q]
  BY DEF SessionStateIInv, SessionStateTypeOK
<1>2. Ready' <=> Ready
  BY <1>1 DEF Ready
<1>3. SessionStateTypeOK'
  BY ExportTypedNext DEF SessionStateIInv, SessionStateTypeOK
<1>4. StoredHolds'
  BY <1>1 DEF SessionStateIInv, StoredHolds, JarOf
<1>5. SavingHolds'
  BY <1>1 DEF SessionStateIInv, SavingHolds
<1>6. BeforeReady'
  BY <1>1, <1>2 DEF SessionStateIInv, BeforeReady
<1>7. AfterReady'
  BY <1>1, <1>2 DEF SessionStateIInv, AfterReady
<1>8. LeasedMarked'
  BY <1>1 DEF SessionStateIInv, LeasedMarked
<1> QED BY <1>3, <1>4, <1>5, <1>6, <1>7, <1>8 DEF SessionStateIInv

\* A request is put, popped, sent, answered or done, or its save returns: it
\* moves.
LEMMA MovesKeep ==
    ASSUME SessionStateIInv, NEW r \in Visits,
           \/ YieldVisit(r) \/ SaveReturns(r) \/ PushVisit(r) \/ Dequeue(r)
           \/ SendVisit(r) \/ Respond(r) \/ CallBack(r)
    PROVE SessionStateIInv'
<1> USE DEF Turn, Stations, Behind, Ready
<1>1. /\ jar \in SUBSET Tokens /\ accepted \in SUBSET Hints /\ known \in SUBSET Hints
      /\ present \in BOOLEAN /\ marked \in BOOLEAN /\ unresolved \in [Visits -> SUBSET Hints]
  BY ExportTyped DEF SessionStateIInv, SessionStateTypeOK
<1>2. CASE YieldVisit(r)
  <2>1. jar \subseteq jar' /\ jar' \in SUBSET Tokens
    BY <1>2, JarGrows DEF YieldVisit, SessionStateIInv
  <2> QED BY <1>1, <1>2, <2>1, MoveKeeps DEF YieldVisit
<1>3. CASE SaveReturns(r)
  BY <1>1, <1>3, MoveKeeps DEF SaveReturns, wrapperVars
<1>4. CASE PushVisit(r)
  BY <1>1, <1>4, MoveKeeps DEF PushVisit, wrapperVars
<1>5. CASE Dequeue(r)
  BY <1>1, <1>5, MoveKeeps DEF Dequeue, wrapperVars
<1>6. CASE SendVisit(r)
  BY <1>1, <1>6, MoveKeeps DEF SendVisit, wrapperVars
<1>7. CASE Respond(r)
  <2>1. jar \subseteq jar' /\ jar' \in SUBSET Tokens
    BY <1>7, JarGrows DEF Respond, SessionStateIInv
  <2>2. /\ accepted' \in SUBSET Hints /\ known' \in SUBSET Hints
        /\ unresolved' \in [Visits -> SUBSET Hints]
    BY <1>7, HintsTyped DEF SessionStateIInv
  <2>3. /\ visit[r] = "sent" /\ visit' = [visit EXCEPT ![r] = "resolving"]
        /\ UNCHANGED <<present, marked, stored, payload, carries, restarts>>
    BY <1>7 DEF Respond
  <2> QED BY <1>1, <2>1, <2>2, <2>3, MoveKeeps
<1>8. CASE CallBack(r)
  BY <1>1, <1>8, MoveKeeps DEF CallBack, wrapperVars
<1> QED BY <1>2, <1>3, <1>4, <1>5, <1>6, <1>7, <1>8

\* The state is exported.
LEMMA SaveKeeps ==
    ASSUME SessionStateIInv, NEW r \in Visits, Save(r)
    PROVE SessionStateIInv'
<1>1. visit[r] = "put" /\ visit' = [visit EXCEPT ![r] = "saving"]
  BY DEF Save, Turn
<1>2. \A q \in Visits : visit'[q] = IF q = r THEN "saving" ELSE visit[q]
  BY <1>1 DEF SessionStateIInv, SessionStateTypeOK
<1>3. /\ present' = present /\ jar' = jar /\ accepted' = accepted /\ known' =
         known /\ marked' = marked /\ stored' = stored /\ unresolved' =
         unresolved /\ restarts' = restarts
      /\ payload' = [payload EXCEPT ![r] = Export]
      /\ carries' = [carries EXCEPT ![r] = jar]
  BY DEF Save, wrapperVars
<1>4. Export \in Snapshots /\ Export.jar = jar /\ jar \in SUBSET Tokens
  BY ExportTyped DEF SessionStateIInv, SessionStateTypeOK
<1>5. \A q \in Visits : /\ payload'[q] = IF q = r THEN Export ELSE payload[q]
                        /\ carries'[q] = IF q = r THEN jar ELSE carries[q]
  <2>1. payload \in [Visits -> Snapshots \cup {NoState}] /\ carries \in [Visits -> SUBSET Tokens]
    BY DEF SessionStateIInv, SessionStateTypeOK
  <2> QED BY <1>3, <2>1
<1>6. SessionStateTypeOK'
  <2>1. Export' \in Snapshots
    BY <1>3, <1>4, ExportTyped, ExportTypedNext
  <2> QED BY <1>1, <1>3, <2>1, <1>4 DEF SessionStateIInv, SessionStateTypeOK, Stations
<1>7. Ready' <=> Ready
  BY <1>1, <1>2, <1>3 DEF Ready
<1>8. StoredHolds'
  BY <1>2, <1>3, <1>5 DEF SessionStateIInv, StoredHolds, JarOf, Behind
<1>9. SavingHolds'
  BY <1>2, <1>3, <1>4, <1>5 DEF SessionStateIInv, SavingHolds
<1>10. BeforeReady'
  BY <1>2, <1>3, <1>4, <1>5, <1>7 DEF SessionStateIInv, BeforeReady
<1>11. AfterReady'
  BY <1>2, <1>3, <1>5, <1>7 DEF SessionStateIInv, AfterReady, Behind
<1>12. LeasedMarked'
  BY <1>2, <1>3 DEF SessionStateIInv, LeasedMarked
<1> QED BY <1>6, <1>8, <1>9, <1>10, <1>11, <1>12 DEF SessionStateIInv

\* A snapshot takes the place of the stored one, which may be newer.
LEMMA HsetKeeps ==
    ASSUME SessionStateIInv, NEW r \in Visits, Hset(r)
    PROVE SessionStateIInv'
<1>1. visit[r] = "saving" /\ visit' = [visit EXCEPT ![r] = "saved"]
  BY DEF Hset, Turn
<1>2. \A q \in Visits : visit'[q] = IF q = r THEN "saved" ELSE visit[q]
  BY <1>1 DEF SessionStateIInv, SessionStateTypeOK
<1>3. /\ present' = present /\ jar' = jar /\ accepted' = accepted /\ known' =
         known /\ marked' = marked /\ unresolved' = unresolved /\ restarts' = restarts
      /\ stored' = payload[r]
      /\ payload' = [payload EXCEPT ![r] = NoState]
  BY DEF Hset, wrapperVars
<1>4. /\ stored' \in Snapshots /\ stored' # NoState /\ JarOf(stored') = stored'.jar
      /\ carries[r] \subseteq stored'.jar
      /\ ~Ready => stored'.jar \subseteq jar
  BY <1>1, <1>3, NoStateAssumption DEF SessionStateIInv, SavingHolds, BeforeReady, JarOf
<1>5. /\ carries' \in [Visits -> SUBSET Tokens]
      /\ \A q \in Visits : carries'[q] = carries[q] \ (JarOf(stored) \ JarOf(stored'))
  BY <1>3, TakenFrom DEF Hset, SessionStateIInv
<1>6. \A q \in Visits : q # r => payload'[q] = payload[q]
  BY <1>3
<1>7. SessionStateTypeOK'
  <2>1. Export' \in Snapshots
    BY <1>3, ExportTyped, ExportTypedNext DEF SessionStateIInv, SessionStateTypeOK
  <2> QED BY <1>1, <1>3, <1>4, <1>5, <2>1 DEF SessionStateIInv, SessionStateTypeOK, Stations
<1>8. StoredHolds'
  <2> SUFFICES ASSUME NEW q \in Visits, visit'[q] \in Behind
               PROVE carries'[q] \subseteq JarOf(stored')
    BY <1>4 DEF StoredHolds, JarOf
  <2>1. CASE q = r
    BY <1>4, <1>5, <2>1
  <2>2. CASE q # r
    <3>1. carries[q] \subseteq JarOf(stored)
      BY <1>2, <2>2 DEF SessionStateIInv, StoredHolds
    <3> QED BY <1>5, <3>1
  <2> QED BY <2>1, <2>2
<1>9. SavingHolds'
  BY <1>2, <1>3, <1>5, <1>6 DEF SessionStateIInv, SavingHolds
<1>10. Ready'
  BY <1>2 DEF Ready
<1>11. BeforeReady' /\ LeasedMarked'
  BY <1>2, <1>3, <1>10 DEF SessionStateIInv, BeforeReady, LeasedMarked
<1>12. AfterReady'
  <2> SUFFICES ASSUME NEW q \in Visits, visit'[q] \in Behind
               PROVE carries'[q] \subseteq jar
    BY <1>3 DEF AfterReady
  <2>1. CASE q = r
    BY <1>1, <1>5, <2>1 DEF SessionStateIInv, SavingHolds
  <2>2. CASE q # r /\ Ready
    BY <1>2, <1>5, <2>2 DEF SessionStateIInv, AfterReady
  <2>3. CASE ~Ready
    BY <1>4, <1>8, <2>3 DEF StoredHolds
  <2> QED BY <2>1, <2>2, <2>3
<1> QED BY <1>7, <1>8, <1>9, <1>11, <1>12 DEF SessionStateIInv

\* Redis answers with the stored snapshot.
LEMMA HgetKeeps ==
    ASSUME SessionStateIInv, NEW r \in Visits, Hget(r)
    PROVE SessionStateIInv'
<1>1. visit[r] = "asking" /\ visit' = [visit EXCEPT ![r] = "answered"]
  BY DEF Hget, Turn
<1>2. \A q \in Visits : visit'[q] = IF q = r THEN "answered" ELSE visit[q]
  BY <1>1 DEF SessionStateIInv, SessionStateTypeOK
<1>3. /\ present' = present /\ jar' = jar /\ accepted' = accepted /\ known' =
         known /\ marked' = marked /\ stored' = stored /\ carries' = carries /\
         unresolved' = unresolved /\ restarts' = restarts
      /\ payload' = [payload EXCEPT ![r] = stored]
  BY DEF Hget, wrapperVars
<1>4. \A q \in Visits : payload'[q] = IF q = r THEN stored ELSE payload[q]
  BY <1>3 DEF SessionStateIInv, SessionStateTypeOK
<1>5. SessionStateTypeOK'
  <2>1. Export' \in Snapshots
    BY <1>3, ExportTyped, ExportTypedNext DEF SessionStateIInv, SessionStateTypeOK
  <2> QED BY <1>1, <1>3, <2>1 DEF SessionStateIInv, SessionStateTypeOK, Stations
<1>6. Ready' <=> Ready
  BY <1>1, <1>2, <1>3 DEF Ready
<1>7. StoredHolds' /\ SavingHolds' /\ LeasedMarked'
  BY <1>1, <1>2, <1>3, <1>4 DEF SessionStateIInv, StoredHolds, SavingHolds,
         LeasedMarked, JarOf, Behind
<1>8. BeforeReady' /\ AfterReady'
  BY <1>1, <1>2, <1>3, <1>4, <1>6 DEF SessionStateIInv, BeforeReady, AfterReady, Behind
<1> QED BY <1>5, <1>7, <1>8 DEF SessionStateIInv

\* The reply is applied to the wrapper, however old it is.
LEMMA RestoreKeeps ==
    ASSUME SessionStateIInv, NEW r \in Visits, Restore(r)
    PROVE SessionStateIInv'
<1>1. visit[r] = "answered" /\ visit' = [visit EXCEPT ![r] = "leased"]
  BY DEF Restore, Turn
<1>2. \A q \in Visits : visit'[q] = IF q = r THEN "leased" ELSE visit[q]
  BY <1>1 DEF SessionStateIInv, SessionStateTypeOK
<1>3. /\ stored' = stored /\ unresolved' = unresolved /\ restarts' = restarts /\ marked' = TRUE
      /\ payload' = [payload EXCEPT ![r] = NoState]
  BY DEF Restore
<1>4. payload[r] \in Snapshots \cup {NoState}
  BY DEF SessionStateIInv, SessionStateTypeOK
<1>5. \A q \in Visits : q # r => payload'[q] = payload[q]
  BY <1>3
<1>6. Ready'
  BY <1>3 DEF Ready
<1>7. CASE payload[r] = NoState
  <2>1. /\ carries' = carries /\ jar' = jar /\ present' = present
        /\ accepted' = accepted /\ known' = known
    BY <1>7 DEF Restore, wrapperVars
  <2>2. Ready
    BY <1>1, <1>7 DEF SessionStateIInv, BeforeReady, StoredHolds, Behind
  <2>3. SessionStateTypeOK'
    <3>1. Export' \in Snapshots
      BY <2>1, ExportTyped, ExportTypedNext DEF SessionStateIInv, SessionStateTypeOK
    <3> QED BY <1>1, <1>3, <2>1, <3>1 DEF SessionStateIInv, SessionStateTypeOK, Stations
  <2>4. StoredHolds' /\ SavingHolds' /\ LeasedMarked'
    BY <1>1, <1>2, <1>3, <1>5, <2>1 DEF SessionStateIInv, StoredHolds, SavingHolds,
           LeasedMarked, JarOf, Behind
  <2>5. BeforeReady' /\ AfterReady'
    BY <1>1, <1>2, <1>6, <2>1, <2>2 DEF SessionStateIInv, BeforeReady, AfterReady, Behind
  <2> QED BY <2>3, <2>4, <2>5 DEF SessionStateIInv
<1>8. CASE payload[r] # NoState
  <2> DEFINE new == payload[r]
  <2>1. /\ new.jar \in SUBSET Tokens /\ new.accepted \in SUBSET Hints /\ new.known \in SUBSET Hints
        /\ JarOf(new) = new.jar
    BY <1>4, <1>8 DEF Snapshots, JarOf
  <2>2. /\ jar' = new.jar /\ accepted' = new.accepted /\ known' = new.known /\ present' = TRUE
        /\ Taken(jar \ new.jar)
    BY <1>8, <2>1 DEF Restore, Import, ImportCookies, ImportHints
  <2>3. /\ carries' \in [Visits -> SUBSET Tokens]
        /\ \A q \in Visits : carries'[q] = carries[q] \ (jar \ new.jar)
    BY <2>2, TakenFrom DEF SessionStateIInv
  <2>4. SessionStateTypeOK'
    <3>1. Export' \in Snapshots
      BY <2>1, <2>2, ExportTypedNext
    <3> QED BY <1>1, <1>3, <2>2, <2>3, <3>1 DEF SessionStateIInv, SessionStateTypeOK, Stations
  <2>5. StoredHolds'
    BY <1>1, <1>2, <1>3, <2>3 DEF SessionStateIInv, StoredHolds, JarOf, Behind
  <2>6. SavingHolds'
    BY <1>2, <1>5, <2>2, <2>3 DEF SessionStateIInv, SavingHolds
  <2>7. ~Ready => new = stored
    BY <1>1 DEF SessionStateIInv, BeforeReady
  <2>8. AfterReady'
    <3> SUFFICES ASSUME NEW q \in Visits, visit[q] \in Behind
                 PROVE carries'[q] \subseteq new.jar
      BY <1>1, <1>2, <2>2 DEF AfterReady, Behind
    <3>1. CASE Ready
      BY <2>3, <3>1 DEF SessionStateIInv, AfterReady
    <3>2. CASE ~Ready
      BY <2>1, <2>3, <2>7, <3>2 DEF SessionStateIInv, StoredHolds
    <3> QED BY <3>1, <3>2
  <2>9. BeforeReady' /\ LeasedMarked'
    BY <1>3, <1>6 DEF BeforeReady, LeasedMarked
  <2> QED BY <2>4, <2>5, <2>6, <2>8, <2>9 DEF SessionStateIInv
<1> QED BY <1>7, <1>8

\* A hint is resolved: no cookie, no snapshot and no request moves.
LEMMA ResolveKeeps ==
    ASSUME SessionStateIInv, NEW r \in Visits, NEW h \in Hints, Resolve(r, h)
    PROVE SessionStateIInv'
<1>1. /\ present' = present /\ jar' = jar /\ marked' = marked /\ stored' = stored
      /\ visit' = visit /\ payload' = payload /\ carries' = carries /\ restarts' = restarts
  BY DEF Resolve
<1>2. unresolved' \in [Visits -> SUBSET Hints]
  BY DEF Resolve, SessionStateIInv, SessionStateTypeOK
<1>3. accepted' \in SUBSET Hints /\ known' \in SUBSET Hints
  BY ExportTyped DEF Resolve, ImportHints, ExportHints, SetRuntimeValue,
         SessionStateIInv, SessionStateTypeOK
<1>4. SessionStateTypeOK'
  <2>1. Export' \in Snapshots
    BY <1>1, <1>3, ExportTyped, ExportTypedNext DEF SessionStateIInv, SessionStateTypeOK
  <2> QED BY <1>1, <1>2, <2>1 DEF SessionStateIInv, SessionStateTypeOK
<1> QED BY <1>1, <1>4 DEF SessionStateIInv, StoredHolds, SavingHolds,
       BeforeReady, AfterReady, LeasedMarked, Ready, JarOf

\* The process ends; what it leaves in the queue was stored, and a snapshot
\* is left behind when one was.
LEMMA LeaveKeeps ==
    ASSUME SessionStateIInv, NEW back, NEW last, Leave(back, last),
           last \in Snapshots \cup {NoState}, last = NoState => stored = NoState,
           back \subseteq Behind
    PROVE SessionStateIInv'
<1>1. /\ restarts' = restarts + 1 /\ restarts < MaxRestarts /\ stored' = last
      /\ present' = FALSE /\ jar' = {} /\ accepted' = {} /\ known' = {} /\ marked' = FALSE
      /\ payload' = [r \in Visits |-> NoState] /\ unresolved' = [r \in Visits |-> {}]
      /\ Taken(JarOf(stored) \ JarOf(last))
  BY DEF Leave
<1>2. visit' = [r \in Visits |->
                    IF visit[r] \in {"new", "queued", "lost"} THEN visit[r]
                    ELSE IF visit[r] \in back THEN "queued" ELSE "lost"]
  BY DEF Leave
<1>3. \A r \in Visits :
        /\ visit'[r] \in {"new", "queued", "lost"}
        /\ visit'[r] = "queued" => visit[r] \in Behind
  BY <1>2 DEF Behind
<1>4. /\ carries' \in [Visits -> SUBSET Tokens]
      /\ \A q \in Visits : carries'[q] = carries[q] \ (JarOf(stored) \ JarOf(last))
  BY <1>1, TakenFrom DEF SessionStateIInv
<1>5. SessionStateTypeOK'
  <2>1. Export' \in Snapshots
    BY <1>1, ExportTypedNext
  <2>2. visit' \in [Visits -> Stations]
    BY <1>2, <1>3 DEF Stations
  <2>3. restarts' \in 0 .. MaxRestarts
    BY <1>1, SessionStateAssumption DEF SessionStateIInv, SessionStateTypeOK
  <2> QED BY <1>1, <1>4, <2>1, <2>2, <2>3 DEF SessionStateIInv, SessionStateTypeOK
<1>6. StoredHolds'
  <2> SUFFICES ASSUME NEW r \in Visits, visit'[r] \in Behind
               PROVE last # NoState /\ carries'[r] \subseteq JarOf(last)
    BY <1>1 DEF StoredHolds, JarOf
  <2>1. stored # NoState /\ carries[r] \subseteq JarOf(stored)
    BY <1>3 DEF SessionStateIInv, StoredHolds, Behind
  <2> QED BY <1>4, <2>1
<1>7. ~Ready'
  BY <1>1, <1>3 DEF Ready
<1>8. SavingHolds' /\ BeforeReady' /\ AfterReady' /\ LeasedMarked'
  BY <1>3, <1>7 DEF SavingHolds, BeforeReady, AfterReady, LeasedMarked
<1> QED BY <1>5, <1>6, <1>8 DEF SessionStateIInv

\* A crash leaves what was stored, a shutdown the wrapper's cookies too.
LEMMA EndsKeep ==
    ASSUME SessionStateIInv, Crash \/ ShutDown
    PROVE SessionStateIInv'
<1> DEFINE last == IF present THEN Export ELSE stored
<1>1. /\ Export \in Snapshots /\ Export # NoState
      /\ stored \in Snapshots \cup {NoState}
  BY ExportTyped, NoStateAssumption DEF SessionStateIInv, SessionStateTypeOK
<1>2. CASE Crash
  BY <1>1, <1>2, LeaveKeeps DEF Crash
<1>3. CASE ShutDown
  <2>1. last \in Snapshots \cup {NoState} /\ (last = NoState => stored = NoState)
    BY <1>1
  <2>2. Leave({"leased", "sent", "resolving"}, last)
    BY <1>3 DEF ShutDown
  <2> HIDE DEF last
  <2> QED BY <2>1, <2>2, LeaveKeeps DEF Behind
<1> QED BY <1>2, <1>3

\* The inductive invariant holds at first and every step keeps it.
THEOREM SessionStateInductive ==
    /\ SessionStateInit => SessionStateIInv
    /\ SessionStateIInv /\ [SessionStateNext]_sessionStateVars => SessionStateIInv'
<1>1. SessionStateInit => SessionStateIInv
  <2> SUFFICES ASSUME SessionStateInit PROVE SessionStateIInv
    OBVIOUS
  <2>1. Export \in Snapshots
    BY ExportTyped DEF SessionStateInit
  <2>2. restarts \in 0 .. MaxRestarts
    BY SessionStateAssumption DEF SessionStateInit
  <2>3. SessionStateTypeOK
    BY <2>1, <2>2, Zenon DEF SessionStateInit, SessionStateTypeOK, Stations
  <2> QED BY <2>3 DEF SessionStateInit, SessionStateIInv, StoredHolds,
         SavingHolds, BeforeReady, AfterReady, LeasedMarked, Behind
<1>2. SessionStateIInv /\ [SessionStateNext]_sessionStateVars => SessionStateIInv'
  <2> SUFFICES ASSUME SessionStateIInv, [SessionStateNext]_sessionStateVars
               PROVE SessionStateIInv'
    OBVIOUS
  <2>1. CASE UNCHANGED sessionStateVars
    BY <2>1 DEF sessionStateVars, SessionStateIInv, SessionStateTypeOK,
           Export, ExportCookies, ExportHints, StoredHolds, SavingHolds,
           BeforeReady, AfterReady, LeasedMarked, Ready, JarOf
  <2> QED BY <2>1, EndsKeep, MovesKeep, SaveKeeps, HsetKeeps, HgetKeeps,
         RestoreKeeps, ResolveKeeps DEF SessionStateNext
<1> QED BY <1>1, <1>2

\* A leased request finds the cookies the session had when it was put, but
\* for those an older snapshot took away, for any number of scheduler loops,
\* concurrent saves and restarts (_request_to_bytes, restore_session).
THEOREM CookiesCarried == SessionStateSpec => []CarriedKnown
<1>1. SessionStateIInv => CarriedKnown
  BY DEF SessionStateIInv, CarriedKnown, AfterReady, LeasedMarked, Ready, Behind
<1> QED BY <1>1, SessionStateInductive, PTL DEF SessionStateSpec

---------------------------------------------------------------------------
(* Leases.                                                                 *)

\* Where a request is in memory and not stored yet, or again.
Live == {"start", "child", "popped", "leased", "failed"}
LiveIn(i, r) == object[i].item = r /\ object[i].stage \in Live
AtProducer(m) == m \in Messages /\ (ingress[m] = 1 \/ hand = m)

Slots == [item : Items \cup {NoItem}, stage : Stages]

\* A slot is empty exactly when it is free; a start request was made from a
\* message, and what was not yielded yet is nowhere.
SlotsUsed ==
    /\ \A i \in Ids : /\ object[i].item = NoItem <=> object[i].stage = "free"
                      /\ object[i].item = NoItem <=> object[i] = Free
    /\ \A i \in Ids : object[i].stage = "start" => object[i].item \in Messages
    /\ \A i \in Ids : object[i].stage = "child" => object[i].item \in Children
    /\ \A c \in Children \ spawned : queue[c] = 0 /\ \A i \in Ids : object[i].item # c

\* There is one copy of a request: in one slot, with the producer, or in the
\* queue; and one record of a message, once the producer has handled it.
OneSlot == \A i, j \in Ids, r \in Items : LiveIn(i, r) /\ LiveIn(j, r) => i = j
CopiesApart ==
    /\ \A i \in Ids, r \in Items : LiveIn(i, r) => queue[r] = 0 /\ ~AtProducer(r)
    /\ \A m \in Messages : queue[m] = 1 => hand # m /\ (crawl = "running" => ingress[m] = 0)
    /\ hand # NoItem => ingress[hand] = 0
OneRecord ==
    /\ \A i \in Ids : startRequests[i] # NoItem =>
            hand # startRequests[i] /\ ingress[startRequests[i]] = 0
    /\ \A i, j \in Ids : startRequests[i] = startRequests[j] /\ startRequests[i] # NoItem => i = j

\* What is recorded under the id of a request is its own message, until the
\* request is stored; a stream entry that its user acknowledges is not recorded
\* and stays pending.
Manual == backend.stream /\ ~backend.autoAck
OwnRecorded ==
    /\ Manual => \A i \in Ids : startRequests[i] = NoItem
    /\ \A i \in Ids :
          /\ object[i].stage = "start" =>
                IF Manual THEN object[i].item \in pending ELSE startRequests[i] = object[i].item
          /\ object[i].stage = "pushed" => startRequests[i] \in {NoItem, object[i].item}
          /\ object[i].stage \in {"child", "popped", "leased", "failed"} => startRequests[i] = NoItem
HandPending == hand # NoItem /\ backend.stream => hand \in pending

\* A request that was pushed is in the queue or went on from there.
PushedStored ==
    \A i \in Ids : object[i].stage = "pushed" =>
        \/ object[i].item \in Settled \/ queue[object[i].item] = 1
        \/ \E j \in Ids : /\ object[j].item = object[i].item
                          /\ object[j].stage \in {"popped", "leased", "failed"}

\* A callback whose child is not stored yet is under way, or was ended by the
\* push of another child.
ParentWaits ==
    \A j \in Ids : object[j].stage = "child" =>
        \E i \in Ids : /\ object[i].item = ParentOf[object[j].item]
                       /\ object[i].stage \in {"leased", "failed"}

\* Once the tasks are cancelled there are only requests to return.
OnlyLeased ==
    /\ crawl # "running" => hand = NoItem /\ \A i \in Ids : object[i] = Free \/ i \in inflight
    /\ crawl = "closed" => Owed = {}

\* Where an unsettled message is, and an unsettled child.
MessageKept(m) ==
    \/ m \in Settled \/ queue[m] = 1 \/ ingress[m] = 1 \/ m \in pending \/ hand = m
    \/ \E i \in Ids : startRequests[i] = m \/ LiveIn(i, m)
ParentKept(c) ==
    \/ \E i \in Ids : /\ object[i].item = ParentOf[c]
                      /\ \/ object[i].stage = "failed"
                         \/ crawl # "running" /\ i \in inflight
    \/ crawl # "running" /\ queue[ParentOf[c]] = 1
    \/ ParentOf[c] \in lost
ChildKept(c) ==
    \/ c \in Settled \/ queue[c] = 1 \/ ParentKept(c)
    \/ \E i \in Ids : LiveIn(i, c)
WorkFound ==
    crawl # "closed" \/ backend.persist =>
        /\ \A m \in Messages : MessageKept(m)
        /\ \A c \in spawned : ChildKept(c)

LeasesIInv ==
    /\ LeasesTypeOK /\ SlotsUsed /\ OneSlot /\ CopiesApart /\ OneRecord /\ OwnRecorded
    /\ HandPending /\ PushedStored /\ ParentWaits /\ OnlyLeased /\ WorkFound

\* The types, with the records folded.
LEMMA LeasesTypes ==
    /\ LeasesTypeOK => /\ object \in [Ids -> Slots] /\ inflight \subseteq Ids
                       /\ \A i \in Ids : /\ object[i].item \in Items \cup {NoItem}
                                         /\ object[i].stage \in Stages
                                         /\ i \in inflight <=> object[i].stage \in {"leased", "failed"}
                       /\ \A r \in Items : queue[r] \in {0, 1}
                       /\ \A m \in Messages : ingress[m] \in {0, 1}
                       /\ \A i \in Ids : startRequests[i] \in Messages \cup {NoItem}
    /\ Messages \subseteq Items /\ Children \subseteq Items /\ NoItem \notin Items
    /\ \A c \in Children : ParentOf[c] \in Messages /\ c \notin Messages
BY LeasesAssumption DEF LeasesTypeOK, Slots, Items

\* The type invariant of the next state, part by part.
LEMMA LeasesTyped ==
    LeasesTypeOK' <=>
        /\ backend' \in Backends
        /\ queue' \in [Items -> 0 .. 1]
        /\ ingress' \in [Messages -> 0 .. 1]
        /\ pending' \subseteq Messages
        /\ hand' \in Messages \cup {NoItem}
        /\ object' \in [Ids -> Slots]
        /\ inflight' = {i \in Ids : object'[i].stage \in {"leased", "failed"}}
        /\ startRequests' \in [Ids -> Messages \cup {NoItem}]
        /\ spawned' \subseteq Children
        /\ done' \subseteq Items /\ dropped' \subseteq Items /\ lost' \subseteq Items
        /\ crawl' \in {"running", "requeueing", "again", "closed"}
        /\ faults' \in 0 .. MaxFaults
BY DEF LeasesTypeOK, Slots

\* A start message is popped: its copy is the one the scheduler holds.
LEMMA PopStartKeeps ==
    ASSUME LeasesIInv, NEW m \in Messages, PopStart(m)
    PROVE LeasesIInv'
<1>1. /\ LeasesTypeOK /\ SlotsUsed /\ OneSlot /\ CopiesApart /\ OneRecord
      /\ OwnRecorded /\ HandPending /\ PushedStored /\ ParentWaits /\ OnlyLeased
      /\ WorkFound
  BY DEF LeasesIInv
<1>2. /\ crawl = "running" /\ hand = NoItem /\ ingress[m] = 1
      /\ hand' = m
      /\ pending' = IF backend.stream THEN pending \cup {m} ELSE pending
      /\ UNCHANGED <<backend, queue, object, inflight, startRequests, spawned, done,
                      dropped, lost, crawl, faults>>
  BY <1>1, LeasesTypes DEF PopStart, memory, ledger, Fault, Allocatable,
         Requeueing
<1>3. /\ \A n \in Messages : ingress'[n] = IF n = m THEN 0 ELSE ingress[n]
      /\ ingress' \in [Messages -> 0 .. 1]
  BY <1>1, <1>2, LeasesTypes DEF PopStart, memory, ledger, Add, Take,
         Forget, Stage, Fault, Allocatable, Requeueing, Slots, Stages, Free,
         LeasesTypeOK
<1>4. LeasesTypeOK'
  <2>1. inflight' = {k \in Ids : object'[k].stage \in {"leased", "failed"}}
    BY <1>1, <1>2, <1>3, LeasesTypes DEF LeasesTypeOK
  <2> QED
    BY <1>1, <1>2, <1>3, <2>1, LeasesTypes, LeasesTyped DEF LeasesTypeOK
<1>5. SlotsUsed'
  BY <1>1, <1>2, <1>3, LeasesTypes DEF SlotsUsed, Free
<1>6. OneSlot'
  BY <1>1, <1>2, <1>3, LeasesTypes DEF OneSlot, LiveIn, Live
<1>7. CopiesApart'
  BY <1>1, <1>2, <1>3, LeasesTypes DEF CopiesApart, LiveIn, Live, AtProducer
<1>8. OneRecord'
  BY <1>1, <1>2, <1>3, LeasesTypes DEF OneRecord
<1>9. OwnRecorded'
  BY <1>1, <1>2, <1>3, LeasesTypes DEF OwnRecorded, Manual
<1>10. HandPending'
  BY <1>1, <1>2, <1>3, LeasesTypes DEF HandPending
<1>11. PushedStored'
  BY <1>1, <1>2, <1>3, LeasesTypes DEF PushedStored, Settled, LiveIn, Live
<1>12. ParentWaits'
  BY <1>1, <1>2, <1>3, LeasesTypes DEF ParentWaits
<1>13. OnlyLeased'
  BY <1>1, <1>2, <1>3, LeasesTypes DEF OnlyLeased, Owed
<1>14. WorkFound'
  <2> SUFFICES ASSUME crawl' # "closed" \/ backend'.persist
               PROVE  (\A mm \in Messages : MessageKept(mm)') /\ (\A cc \in spawned' : ChildKept(cc)')
    BY DEF WorkFound
  <2>0. (\A mm \in Messages : MessageKept(mm)) /\ (\A cc \in spawned : ChildKept(cc))
    BY <1>1, <1>2 DEF WorkFound, OnlyLeased
  <2>1. ASSUME NEW mm \in Messages PROVE MessageKept(mm)'
    BY <2>0, LeasesTypes, <1>1, <1>2, <1>3 DEF MessageKept, LiveIn, Live,
           Settled, PushedStored, OwnRecorded, Manual, SlotsUsed, OnlyLeased, Owed
  <2>2. ASSUME NEW cc \in spawned' PROVE ChildKept(cc)'
    BY <2>0, LeasesTypes, <1>1, <1>2, <1>3 DEF ChildKept, ParentKept,
           LiveIn, Live, Settled, PushedStored, ParentWaits, SlotsUsed,
           OnlyLeased, Owed, LeasesTypeOK
  <2> QED BY <2>1, <2>2
<1> QED
  BY <1>4, <1>5, <1>6, <1>7, <1>8, <1>9, <1>10, <1>11, <1>12, <1>13, <1>14
         DEF LeasesIInv

\* The request of a start message gets an id of its own.
LEMMA MakeRequestKeeps ==
    ASSUME LeasesIInv, ~RecycleIds, NEW i \in Ids, MakeRequest(i)
    PROVE LeasesIInv'
<1>1. /\ LeasesTypeOK /\ SlotsUsed /\ OneSlot /\ CopiesApart /\ OneRecord
      /\ OwnRecorded /\ HandPending /\ PushedStored /\ ParentWaits /\ OnlyLeased
      /\ WorkFound
  BY DEF LeasesIInv
<1>2. /\ crawl = "running" /\ hand # NoItem /\ hand \in Messages
      /\ hand' = NoItem
      /\ object[i].stage = "free" /\ startRequests[i] = NoItem
      /\ UNCHANGED <<backend, queue, ingress, pending, inflight, spawned, done,
                      dropped, lost, crawl, faults>>
  BY <1>1, LeasesTypes DEF MakeRequest, memory, ledger, Fault,
         Allocatable, Requeueing, LeasesTypeOK
<1>3. /\ object'[i].item = hand /\ object'[i].stage = "start"
      /\ \A k \in Ids : k # i => object'[k] = object[k]
      /\ object' \in [Ids -> Slots]
      /\ startRequests'[i] = IF Manual THEN NoItem ELSE hand
      /\ \A k \in Ids : k # i => startRequests'[k] = startRequests[k]
      /\ startRequests' \in [Ids -> Messages \cup {NoItem}]
  BY <1>1, <1>2, LeasesTypes DEF MakeRequest, memory, ledger, Add, Take,
         Forget, Stage, Fault, Allocatable, Requeueing, Slots, Stages, Free,
         LeasesTypeOK, Manual
<1>4. LeasesTypeOK'
  <2>1. inflight' = {k \in Ids : object'[k].stage \in {"leased", "failed"}}
    BY <1>1, <1>2, <1>3, LeasesTypes DEF LeasesTypeOK
  <2> QED
    BY <1>1, <1>2, <1>3, <2>1, LeasesTypes, LeasesTyped DEF LeasesTypeOK
<1>5. SlotsUsed'
  BY <1>1, <1>2, <1>3, LeasesTypes DEF SlotsUsed, Free
<1>6. OneSlot'
  BY <1>1, <1>2, <1>3, LeasesTypes DEF OneSlot, LiveIn, Live, CopiesApart,
         AtProducer, SlotsUsed
<1>7. CopiesApart'
  BY <1>1, <1>2, <1>3, LeasesTypes DEF CopiesApart, LiveIn, Live, AtProducer
<1>8. OneRecord'
  BY <1>1, <1>2, <1>3, LeasesTypes DEF OneRecord, CopiesApart, LiveIn,
         Live, AtProducer
<1>9. OwnRecorded'
  BY <1>1, <1>2, <1>3, LeasesTypes DEF OwnRecorded, Manual, CopiesApart,
         LiveIn, Live, AtProducer, SlotsUsed, HandPending, OneRecord
<1>10. HandPending'
  BY <1>1, <1>2, <1>3, LeasesTypes DEF HandPending
<1>11. PushedStored'
  BY <1>1, <1>2, <1>3, LeasesTypes DEF PushedStored, Settled, LiveIn, Live
<1>12. ParentWaits'
  BY <1>1, <1>2, <1>3, LeasesTypes DEF ParentWaits
<1>13. OnlyLeased'
  BY <1>1, <1>2, <1>3, LeasesTypes DEF OnlyLeased, Owed
<1>14. WorkFound'
  <2> SUFFICES ASSUME crawl' # "closed" \/ backend'.persist
               PROVE  (\A mm \in Messages : MessageKept(mm)') /\ (\A cc \in spawned' : ChildKept(cc)')
    BY DEF WorkFound
  <2>0. (\A mm \in Messages : MessageKept(mm)) /\ (\A cc \in spawned : ChildKept(cc))
    BY <1>1, <1>2 DEF WorkFound, OnlyLeased
  <2>1. ASSUME NEW mm \in Messages PROVE MessageKept(mm)'
    BY <2>0, LeasesTypes, <1>1, <1>2, <1>3 DEF MessageKept, LiveIn, Live,
           Settled, PushedStored, OwnRecorded, Manual, SlotsUsed, OnlyLeased, Owed
  <2>2. ASSUME NEW cc \in spawned' PROVE ChildKept(cc)'
    <3>0. cc \in Children /\ ParentOf[cc] \in Messages
      BY <2>2, LeasesTypes, <1>1, <1>2, <1>3 DEF LeasesTypeOK
    <3>1. ASSUME ParentKept(cc) PROVE ChildKept(cc)'
      BY <3>0, <3>1, LeasesTypes, <1>1, <1>2, <1>3 DEF ChildKept,
             ParentKept, Settled, SlotsUsed
    <3>2. ASSUME NEW k \in Ids, LiveIn(k, cc) PROVE ChildKept(cc)'
      BY <3>0, <3>2, LeasesTypes, <1>1, <1>1, <1>2, <1>3 DEF ChildKept,
             ParentKept, LiveIn, Live, Settled, SlotsUsed, ParentWaits,
             OnlyLeased
    <3> QED
      BY <2>0, <2>2, <3>0, <3>1, <3>2, LeasesTypes, <1>1, <1>2, <1>3 DEF
             ChildKept, Settled, LiveIn, Live
  <2> QED BY <2>1, <2>2
<1> QED
  BY <1>4, <1>5, <1>6, <1>7, <1>8, <1>9, <1>10, <1>11, <1>12, <1>13, <1>14
         DEF LeasesIInv

\* A start message that makes no request is acknowledged and answered for.
LEMMA DiscardStartKeeps ==
    ASSUME LeasesIInv, DiscardStart
    PROVE LeasesIInv'
<1>1. /\ LeasesTypeOK /\ SlotsUsed /\ OneSlot /\ CopiesApart /\ OneRecord
      /\ OwnRecorded /\ HandPending /\ PushedStored /\ ParentWaits /\ OnlyLeased
      /\ WorkFound
  BY DEF LeasesIInv
<1>2. /\ crawl = "running" /\ hand # NoItem /\ hand \in Messages
      /\ hand' = NoItem
      /\ pending' = IF backend.autoAck THEN pending \ {hand} ELSE pending
      /\ dropped' = dropped \cup {hand}
      /\ UNCHANGED <<backend, queue, ingress, object, inflight, startRequests, spawned,
                      done, lost, crawl, faults>>
  BY <1>1, LeasesTypes DEF DiscardStart, memory, ledger, Fault,
         Allocatable, Requeueing, LeasesTypeOK
<1>3. LeasesTypeOK'
  <2>1. inflight' = {k \in Ids : object'[k].stage \in {"leased", "failed"}}
    BY <1>1, <1>2, LeasesTypes DEF LeasesTypeOK
  <2> QED
    BY <1>1, <1>2, <2>1, LeasesTypes, LeasesTyped DEF LeasesTypeOK
<1>4. SlotsUsed'
  BY <1>1, <1>2, LeasesTypes DEF SlotsUsed, Free
<1>5. OneSlot'
  BY <1>1, <1>2, LeasesTypes DEF OneSlot, LiveIn, Live
<1>6. CopiesApart'
  BY <1>1, <1>2, LeasesTypes DEF CopiesApart, LiveIn, Live, AtProducer
<1>7. OneRecord'
  BY <1>1, <1>2, LeasesTypes DEF OneRecord
<1>8. OwnRecorded'
  BY <1>1, <1>2, LeasesTypes DEF OwnRecorded, Manual, CopiesApart, LiveIn,
         Live, AtProducer, SlotsUsed, HandPending, OneRecord
<1>9. HandPending'
  BY <1>1, <1>2, LeasesTypes DEF HandPending
<1>10. PushedStored'
  BY <1>1, <1>2, LeasesTypes DEF PushedStored, Settled, LiveIn, Live
<1>11. ParentWaits'
  BY <1>1, <1>2, LeasesTypes DEF ParentWaits
<1>12. OnlyLeased'
  BY <1>1, <1>2, LeasesTypes DEF OnlyLeased, Owed
<1>13. WorkFound'
  <2> SUFFICES ASSUME crawl' # "closed" \/ backend'.persist
               PROVE  (\A mm \in Messages : MessageKept(mm)') /\ (\A cc \in spawned' : ChildKept(cc)')
    BY DEF WorkFound
  <2>0. (\A mm \in Messages : MessageKept(mm)) /\ (\A cc \in spawned : ChildKept(cc))
    BY <1>1, <1>2 DEF WorkFound, OnlyLeased
  <2>1. ASSUME NEW mm \in Messages PROVE MessageKept(mm)'
    BY <2>0, LeasesTypes, <1>1, <1>2 DEF MessageKept, LiveIn, Live,
           Settled, PushedStored, OwnRecorded, Manual, SlotsUsed, OnlyLeased, Owed
  <2>2. ASSUME NEW cc \in spawned' PROVE ChildKept(cc)'
    BY <2>0, LeasesTypes, <1>1, <1>2 DEF ChildKept, ParentKept, LiveIn,
           Live, Settled, PushedStored, ParentWaits, SlotsUsed, OnlyLeased, Owed,
           LeasesTypeOK
  <2> QED BY <2>1, <2>2
<1> QED
  BY <1>3, <1>4, <1>5, <1>6, <1>7, <1>8, <1>9, <1>10, <1>11, <1>12, <1>13
         DEF LeasesIInv

\* The entry that the producer held is lost.
LEMMA StartFailsKeeps ==
    ASSUME LeasesIInv, StartFails
    PROVE LeasesIInv'
<1>1. /\ LeasesTypeOK /\ SlotsUsed /\ OneSlot /\ CopiesApart /\ OneRecord
      /\ OwnRecorded /\ HandPending /\ PushedStored /\ ParentWaits /\ OnlyLeased
      /\ WorkFound
  BY DEF LeasesIInv
<1>2. /\ crawl = "running" /\ hand # NoItem /\ hand \in Messages
      /\ hand' = NoItem
      /\ lost' = lost \cup {hand} /\ faults' \in 0 .. MaxFaults
      /\ UNCHANGED <<backend, queue, ingress, pending, object, inflight, startRequests,
                      spawned, done, dropped, crawl>>
  BY <1>1, LeasesTypes, LeasesAssumption DEF StartFails, memory, ledger, Fault,
         Allocatable, Requeueing, LeasesTypeOK
<1>3. LeasesTypeOK'
  <2>1. inflight' = {k \in Ids : object'[k].stage \in {"leased", "failed"}}
    BY <1>1, <1>2, LeasesTypes DEF LeasesTypeOK
  <2> QED
    BY <1>1, <1>2, <2>1, LeasesTypes, LeasesTyped DEF LeasesTypeOK
<1>4. SlotsUsed'
  BY <1>1, <1>2, LeasesTypes DEF SlotsUsed, Free
<1>5. OneSlot'
  BY <1>1, <1>2, LeasesTypes DEF OneSlot, LiveIn, Live
<1>6. CopiesApart'
  BY <1>1, <1>2, LeasesTypes DEF CopiesApart, LiveIn, Live, AtProducer
<1>7. OneRecord'
  BY <1>1, <1>2, LeasesTypes DEF OneRecord
<1>8. OwnRecorded'
  BY <1>1, <1>2, LeasesTypes DEF OwnRecorded, Manual, CopiesApart, LiveIn,
         Live, AtProducer, SlotsUsed, HandPending, OneRecord
<1>9. HandPending'
  BY <1>1, <1>2, LeasesTypes DEF HandPending
<1>10. PushedStored'
  BY <1>1, <1>2, LeasesTypes DEF PushedStored, Settled, LiveIn, Live
<1>11. ParentWaits'
  BY <1>1, <1>2, LeasesTypes DEF ParentWaits
<1>12. OnlyLeased'
  BY <1>1, <1>2, LeasesTypes DEF OnlyLeased, Owed
<1>13. WorkFound'
  <2> SUFFICES ASSUME crawl' # "closed" \/ backend'.persist
               PROVE  (\A mm \in Messages : MessageKept(mm)') /\ (\A cc \in spawned' : ChildKept(cc)')
    BY DEF WorkFound
  <2>0. (\A mm \in Messages : MessageKept(mm)) /\ (\A cc \in spawned : ChildKept(cc))
    BY <1>1, <1>2 DEF WorkFound, OnlyLeased
  <2>1. ASSUME NEW mm \in Messages PROVE MessageKept(mm)'
    BY <2>0, LeasesTypes, <1>1, <1>2 DEF MessageKept, LiveIn, Live,
           Settled, PushedStored, OwnRecorded, Manual, SlotsUsed, OnlyLeased, Owed
  <2>2. ASSUME NEW cc \in spawned' PROVE ChildKept(cc)'
    BY <2>0, LeasesTypes, <1>1, <1>2 DEF ChildKept, ParentKept, LiveIn,
           Live, Settled, PushedStored, ParentWaits, SlotsUsed, OnlyLeased, Owed,
           LeasesTypeOK
  <2> QED BY <2>1, <2>2
<1> QED
  BY <1>3, <1>4, <1>5, <1>6, <1>7, <1>8, <1>9, <1>10, <1>11, <1>12, <1>13
         DEF LeasesIInv

\* A request the filter refuses, or an interceptor drops, is answered for.
LEMMA RejectKeeps ==
    ASSUME LeasesIInv, NEW i \in Ids, Reject(i)
    PROVE LeasesIInv'
<1>1. /\ LeasesTypeOK /\ SlotsUsed /\ OneSlot /\ CopiesApart /\ OneRecord
      /\ OwnRecorded /\ HandPending /\ PushedStored /\ ParentWaits /\ OnlyLeased
      /\ WorkFound
  BY DEF LeasesIInv
<1>2. /\ object[i].stage \in {"start", "child"} /\ object[i].item \in Items
      /\ dropped' = dropped \cup {object[i].item}
      /\ UNCHANGED <<backend, queue, ingress, pending, hand, inflight, startRequests,
                      spawned, done, lost, crawl, faults>>
  BY <1>1, LeasesTypes DEF Reject, memory, ledger, Fault, Allocatable,
         Requeueing, SlotsUsed
<1>3. /\ object'[i].item = NoItem /\ object'[i].stage = "free" /\ object'[i] = Free
      /\ \A k \in Ids : k # i => object'[k] = object[k]
      /\ object' \in [Ids -> Slots]
  BY <1>1, <1>2, LeasesTypes DEF Reject, memory, ledger, Add, Take,
         Forget, Stage, Fault, Allocatable, Requeueing, Slots, Stages, Free,
         LeasesTypeOK
<1>4. LeasesTypeOK'
  <2>1. inflight' = {k \in Ids : object'[k].stage \in {"leased", "failed"}}
    BY <1>1, <1>2, <1>3, LeasesTypes DEF LeasesTypeOK
  <2> QED
    BY <1>1, <1>2, <1>3, <2>1, LeasesTypes, LeasesTyped DEF LeasesTypeOK
<1>5. SlotsUsed'
  BY <1>1, <1>2, <1>3, LeasesTypes DEF SlotsUsed, Free
<1>6. OneSlot'
  BY <1>1, <1>2, <1>3, LeasesTypes DEF OneSlot, LiveIn, Live
<1>7. CopiesApart'
  BY <1>1, <1>2, <1>3, LeasesTypes DEF CopiesApart, LiveIn, Live, AtProducer
<1>8. OneRecord'
  BY <1>1, <1>2, <1>3, LeasesTypes DEF OneRecord
<1>9. OwnRecorded'
  BY <1>1, <1>2, <1>3, LeasesTypes DEF OwnRecorded, Manual
<1>10. HandPending'
  BY <1>1, <1>2, <1>3, LeasesTypes DEF HandPending
<1>11. PushedStored'
  BY <1>1, <1>2, <1>3, LeasesTypes DEF PushedStored, Settled, LiveIn, Live
<1>12. ParentWaits'
  BY <1>1, <1>2, <1>3, LeasesTypes DEF ParentWaits
<1>13. OnlyLeased'
  BY <1>1, <1>2, <1>3, LeasesTypes DEF OnlyLeased, Owed
<1>14. WorkFound'
  <2> SUFFICES ASSUME crawl' # "closed" \/ backend'.persist
               PROVE  (\A mm \in Messages : MessageKept(mm)') /\ (\A cc \in spawned' : ChildKept(cc)')
    BY DEF WorkFound
  <2>0. (\A mm \in Messages : MessageKept(mm)) /\ (\A cc \in spawned : ChildKept(cc))
    BY <1>1, <1>2 DEF WorkFound, OnlyLeased
  <2>1. ASSUME NEW mm \in Messages PROVE MessageKept(mm)'
    BY <2>0, LeasesTypes, <1>1, <1>2, <1>3 DEF MessageKept, LiveIn, Live,
           Settled, PushedStored, OwnRecorded, Manual, SlotsUsed, OnlyLeased, Owed
  <2>2. ASSUME NEW cc \in spawned' PROVE ChildKept(cc)'
    <3>0. cc \in Children /\ ParentOf[cc] \in Messages
      BY <2>2, LeasesTypes, <1>1, <1>2, <1>3 DEF LeasesTypeOK
    <3>1. ASSUME ParentKept(cc) PROVE ChildKept(cc)'
      BY <3>0, <3>1, LeasesTypes, <1>1, <1>2, <1>3 DEF ChildKept,
             ParentKept, Settled, SlotsUsed
    <3>2. ASSUME NEW k \in Ids, LiveIn(k, cc) PROVE ChildKept(cc)'
      BY <3>0, <3>2, LeasesTypes, <1>1, <1>1, <1>2, <1>3 DEF ChildKept,
             ParentKept, LiveIn, Live, Settled, SlotsUsed, ParentWaits,
             OnlyLeased
    <3> QED
      BY <2>0, <2>2, <3>0, <3>1, <3>2, LeasesTypes, <1>1, <1>2, <1>3 DEF
             ChildKept, Settled, LiveIn, Live
  <2> QED BY <2>1, <2>2
<1> QED
  BY <1>4, <1>5, <1>6, <1>7, <1>8, <1>9, <1>10, <1>11, <1>12, <1>13, <1>14
         DEF LeasesIInv

\* A request is stored, recorded under its id if it came from the start queue.
LEMMA PushKeeps ==
    ASSUME LeasesIInv, NEW i \in Ids, Push(i)
    PROVE LeasesIInv'
<1>1. /\ LeasesTypeOK /\ SlotsUsed /\ OneSlot /\ CopiesApart /\ OneRecord
      /\ OwnRecorded /\ HandPending /\ PushedStored /\ ParentWaits /\ OnlyLeased
      /\ WorkFound
  BY DEF LeasesIInv
<1>2. /\ object[i].stage \in {"start", "child"} /\ object[i].item \in Items /\ queue[object[i].item] = 0
      /\ UNCHANGED <<backend, ingress, pending, hand, inflight, startRequests, spawned,
                      done, dropped, lost, crawl, faults>>
  BY <1>1, LeasesTypes DEF Push, memory, ledger, Fault, Allocatable,
         Requeueing, SlotsUsed, CopiesApart, LiveIn, Live
<1>3. /\ object'[i].item = object[i].item /\ object'[i].stage = "pushed"
      /\ \A k \in Ids : k # i => object'[k] = object[k]
      /\ object' \in [Ids -> Slots]
      /\ \A s \in Items : queue'[s] = IF s = object[i].item THEN 1 ELSE queue[s]
      /\ queue' \in [Items -> 0 .. 1]
  BY <1>1, <1>2, LeasesTypes DEF Push, memory, ledger, Add, Take, Forget,
         Stage, Fault, Allocatable, Requeueing, Slots, Stages, Free, LeasesTypeOK
<1>4. LeasesTypeOK'
  <2>1. inflight' = {k \in Ids : object'[k].stage \in {"leased", "failed"}}
    BY <1>1, <1>2, <1>3, LeasesTypes DEF LeasesTypeOK
  <2> QED
    BY <1>1, <1>2, <1>3, <2>1, LeasesTypes, LeasesTyped DEF LeasesTypeOK
<1>5. SlotsUsed'
  BY <1>1, <1>2, <1>3, LeasesTypes DEF SlotsUsed, Free
<1>6. OneSlot'
  BY <1>1, <1>2, <1>3, LeasesTypes DEF OneSlot, LiveIn, Live
<1>7. CopiesApart'
  BY <1>1, <1>2, <1>3, LeasesTypes DEF CopiesApart, LiveIn, Live,
         AtProducer, OneSlot, OneRecord, OnlyLeased, SlotsUsed
<1>8. OneRecord'
  BY <1>1, <1>2, <1>3, LeasesTypes DEF OneRecord
<1>9. OwnRecorded'
  BY <1>1, <1>2, <1>3, LeasesTypes DEF OwnRecorded, Manual, CopiesApart,
         LiveIn, Live, AtProducer, SlotsUsed, HandPending, OneRecord
<1>10. HandPending'
  BY <1>1, <1>2, <1>3, LeasesTypes DEF HandPending
<1>11. PushedStored'
  BY <1>1, <1>2, <1>3, LeasesTypes DEF PushedStored, Settled, LiveIn,
         Live, SlotsUsed, OwnRecorded, CopiesApart, OneSlot
<1>12. ParentWaits'
  BY <1>1, <1>2, <1>3, LeasesTypes DEF ParentWaits
<1>13. OnlyLeased'
  BY <1>1, <1>2, <1>3, LeasesTypes DEF OnlyLeased, Owed, SlotsUsed
<1>14. WorkFound'
  <2> SUFFICES ASSUME crawl' # "closed" \/ backend'.persist
               PROVE  (\A mm \in Messages : MessageKept(mm)') /\ (\A cc \in spawned' : ChildKept(cc)')
    BY DEF WorkFound
  <2>0. (\A mm \in Messages : MessageKept(mm)) /\ (\A cc \in spawned : ChildKept(cc))
    BY <1>1, <1>2 DEF WorkFound, OnlyLeased
  <2>1. ASSUME NEW mm \in Messages PROVE MessageKept(mm)'
    BY <2>0, LeasesTypes, <1>1, <1>2, <1>3 DEF MessageKept, LiveIn, Live,
           Settled, PushedStored, OwnRecorded, Manual, SlotsUsed, OnlyLeased, Owed
  <2>2. ASSUME NEW cc \in spawned' PROVE ChildKept(cc)'
    <3>0. cc \in Children /\ ParentOf[cc] \in Messages
      BY <2>2, LeasesTypes, <1>1, <1>2, <1>3 DEF LeasesTypeOK
    <3>1. ASSUME ParentKept(cc) PROVE ChildKept(cc)'
      BY <3>0, <3>1, LeasesTypes, <1>1, <1>2, <1>3 DEF ChildKept,
             ParentKept, Settled, SlotsUsed
    <3>2. ASSUME NEW k \in Ids, LiveIn(k, cc) PROVE ChildKept(cc)'
      BY <3>0, <3>2, LeasesTypes, <1>1, <1>1, <1>2, <1>3 DEF ChildKept,
             ParentKept, LiveIn, Live, Settled, SlotsUsed, ParentWaits,
             OnlyLeased
    <3> QED
      BY <2>0, <2>2, <3>0, <3>1, <3>2, LeasesTypes, <1>1, <1>2, <1>3 DEF
             ChildKept, Settled, LiveIn, Live
  <2> QED BY <2>1, <2>2
<1> QED
  BY <1>4, <1>5, <1>6, <1>7, <1>8, <1>9, <1>10, <1>11, <1>12, <1>13, <1>14
         DEF LeasesIInv

\* The push of a request fails before or after the broker stored it.
LEMMA PushFailsKeeps ==
    ASSUME LeasesIInv, NEW i \in Ids, PushFails(i)
    PROVE LeasesIInv'
<1>1. /\ LeasesTypeOK /\ SlotsUsed /\ OneSlot /\ CopiesApart /\ OneRecord
      /\ OwnRecorded /\ HandPending /\ PushedStored /\ ParentWaits /\ OnlyLeased
      /\ WorkFound
  BY DEF LeasesIInv
<1>2. /\ object[i].stage \in {"start", "child"} /\ object[i].item \in Items /\ queue[object[i].item] = 0
      /\ faults' \in 0 .. MaxFaults
      /\ UNCHANGED <<backend, ingress, pending, hand, inflight, startRequests, spawned,
                      done, dropped, lost, crawl>>
  BY <1>1, LeasesTypes, LeasesAssumption DEF PushFails, memory, ledger, Fault, Allocatable,
         Requeueing, SlotsUsed, CopiesApart, LiveIn, Live, LeasesTypeOK
<1>3. /\ object'[i] = Free /\ object'[i].item = NoItem /\ object'[i].stage = "free"
      /\ object' \in [Ids -> Slots]
      /\ \A k \in Ids : k # i => object'[k].item = object[k].item
      /\ \A k \in Ids : k # i =>
            (object'[k] = object[k] \/ (object[k].stage = "leased" /\ object'[k].stage = "failed"))
      /\ \A k \in Ids :
            (object[i].stage = "child" /\ object[k].stage = "leased"
                /\ object[k].item = ParentOf[object[i].item]) => object'[k].stage = "failed"
  <2>1. object' = [j \in Ids |->
                    IF j = i THEN Free
                    ELSE IF /\ object[i].stage = "child"
                            /\ object[j].stage = "leased"
                            /\ object[j].item = ParentOf[object[i].item]
                         THEN [object[j] EXCEPT !.stage = "failed"]
                         ELSE object[j]]
    BY DEF PushFails
  <2>2. \A k \in Ids : object[k] \in Slots /\ [object[k] EXCEPT !.stage = "failed"] \in Slots
    BY <1>1, LeasesTypes DEF Slots, Stages
  <2>3. Free \in Slots
    BY DEF Free, Slots, Stages
  <2>4. \A k \in Ids : k # i =>
            object'[k] \in {object[k]} \cup (IF object[k].stage = "leased"
                                           THEN {[object[k] EXCEPT !.stage = "failed"]} ELSE {})
    BY <2>1, Zenon
  <2>5. \A k \in Ids :
            (object[i].stage = "child" /\ object[k].stage = "leased"
                /\ object[k].item = ParentOf[object[i].item])
                    => object'[k] = [object[k] EXCEPT !.stage = "failed"]
    <3> SUFFICES ASSUME NEW k \in Ids, object[i].stage = "child", object[k].stage = "leased",
                        object[k].item = ParentOf[object[i].item]
                 PROVE  object'[k] = [object[k] EXCEPT !.stage = "failed"]
      OBVIOUS
    <3>1. k # i
      OBVIOUS
    <3> QED BY <2>1, <3>1, Zenon
  <2>6. object' \in [Ids -> Slots]
    BY <2>1, <2>2, <2>3, Zenon
  <2>7. object'[i] = Free
    BY <2>1
  <2> QED BY <2>2, <2>4, <2>5, <2>6, <2>7 DEF Free, Slots
<1>4. /\ \A s \in Items : s # object[i].item => queue'[s] = queue[s]
      /\ queue' \in [Items -> 0 .. 1]
  BY <1>1, <1>2, LeasesTypes DEF PushFails, Add, LeasesTypeOK
<1>5. LeasesTypeOK'
  <2>1. inflight' = {k \in Ids : object'[k].stage \in {"leased", "failed"}}
    BY <1>1, <1>2, <1>3, <1>4, LeasesTypes DEF LeasesTypeOK
  <2> QED
    BY <1>1, <1>2, <1>3, <1>4, <2>1, LeasesTypes, LeasesTyped DEF LeasesTypeOK
<1>6. SlotsUsed'
  BY SMTT(40), <1>1, <1>2, <1>3, <1>4, LeasesTypes DEF SlotsUsed, Slots, Free
<1>7. OneSlot'
  BY <1>1, <1>2, <1>3, LeasesTypes DEF OneSlot, LiveIn, Live
<1>8. CopiesApart'
  BY <1>1, <1>2, <1>3, <1>4, LeasesTypes DEF CopiesApart, LiveIn, Live,
         AtProducer, OneSlot, OneRecord, OnlyLeased, SlotsUsed
<1>9. OneRecord'
  BY <1>1, <1>2, <1>3, LeasesTypes DEF OneRecord
<1>10. OwnRecorded'
  BY <1>1, <1>2, <1>3, LeasesTypes DEF OwnRecorded, Manual
<1>11. HandPending'
  BY <1>1, <1>2, <1>3, LeasesTypes DEF HandPending
<1>12. PushedStored'
  BY <1>1, <1>2, <1>3, <1>4, LeasesTypes DEF PushedStored, SlotsUsed,
         Settled, LiveIn, Live
<1>13. ParentWaits'
  BY <1>1, <1>2, <1>3, LeasesTypes DEF ParentWaits
<1>14. OnlyLeased'
  BY <1>1, <1>2, <1>3, LeasesTypes DEF OnlyLeased, Owed
<1>15. WorkFound'
  <2> SUFFICES ASSUME crawl' # "closed" \/ backend'.persist
               PROVE  (\A mm \in Messages : MessageKept(mm)') /\ (\A cc \in spawned' : ChildKept(cc)')
    BY DEF WorkFound
  <2>0. (\A mm \in Messages : MessageKept(mm)) /\ (\A cc \in spawned : ChildKept(cc))
    BY <1>1, <1>2 DEF WorkFound, OnlyLeased
  <2>1. ASSUME NEW mm \in Messages PROVE MessageKept(mm)'
    BY <2>0, LeasesTypes, <1>1, <1>2, <1>3, <1>4 DEF MessageKept, LiveIn,
           Live, Settled, PushedStored, OwnRecorded, Manual, SlotsUsed, OnlyLeased,
           Owed
  <2>2. ASSUME NEW cc \in spawned' PROVE ChildKept(cc)'
    <3>0. cc \in Children /\ ParentOf[cc] \in Messages
      BY <2>2, LeasesTypes, <1>1, <1>2, <1>3, <1>4 DEF LeasesTypeOK
    <3>1. ASSUME ParentKept(cc) PROVE ChildKept(cc)'
      BY <3>0, <3>1, LeasesTypes, <1>1, <1>2, <1>3, <1>4 DEF ChildKept,
             ParentKept, Settled, SlotsUsed
    <3>2. ASSUME NEW k \in Ids, LiveIn(k, cc) PROVE ChildKept(cc)'
      BY <3>0, <3>2, LeasesTypes, <1>1, <1>1, <1>2, <1>3, <1>4 DEF
             ChildKept, ParentKept, LiveIn, Live, Settled, SlotsUsed,
             ParentWaits, OnlyLeased
    <3> QED
      BY <2>0, <2>2, <3>0, <3>1, <3>2, LeasesTypes, <1>1, <1>2, <1>3, <1>4
             DEF ChildKept, Settled, LiveIn, Live
  <2> QED BY <2>1, <2>2
<1> QED
  BY <1>5, <1>6, <1>7, <1>8, <1>9, <1>10, <1>11, <1>12, <1>13, <1>14,
         <1>15 DEF LeasesIInv

\* The start message of a stored request is completed.
LEMMA CompleteStartKeeps ==
    ASSUME LeasesIInv, NEW i \in Ids, CompleteStart(i)
    PROVE LeasesIInv'
<1>1. /\ LeasesTypeOK /\ SlotsUsed /\ OneSlot /\ CopiesApart /\ OneRecord
      /\ OwnRecorded /\ HandPending /\ PushedStored /\ ParentWaits /\ OnlyLeased
      /\ WorkFound
  BY DEF LeasesIInv
<1>2. /\ object[i].stage = "pushed" /\ startRequests[i] \in {NoItem, object[i].item}
      /\ pending' \in {pending, pending \ {startRequests[i]}}
      /\ faults' \in 0 .. MaxFaults
      /\ UNCHANGED <<backend, queue, ingress, hand, inflight, spawned, done, dropped,
                      lost, crawl>>
  BY <1>1, LeasesTypes, LeasesAssumption DEF CompleteStart, memory, ledger, Fault,
         Allocatable, Requeueing, OwnRecorded, LeasesTypeOK
<1>3. /\ object'[i].item = NoItem /\ object'[i].stage = "free" /\ object'[i] = Free
      /\ \A k \in Ids : k # i => object'[k] = object[k]
      /\ object' \in [Ids -> Slots]
      /\ \A k \in Ids : startRequests'[k] = IF k = i THEN NoItem ELSE startRequests[k]
      /\ startRequests' \in [Ids -> Messages \cup {NoItem}]
  BY <1>1, <1>2, LeasesTypes DEF CompleteStart, memory, ledger, Add, Take,
         Forget, Stage, Fault, Allocatable, Requeueing, Slots, Stages, Free,
         LeasesTypeOK
<1>4. LeasesTypeOK'
  <2>1. inflight' = {k \in Ids : object'[k].stage \in {"leased", "failed"}}
    BY <1>1, <1>2, <1>3, LeasesTypes DEF LeasesTypeOK
  <2> QED
    BY <1>1, <1>2, <1>3, <2>1, LeasesTypes, LeasesTyped DEF LeasesTypeOK
<1>5. SlotsUsed'
  BY <1>1, <1>2, <1>3, LeasesTypes DEF SlotsUsed, Free
<1>6. OneSlot'
  BY <1>1, <1>2, <1>3, LeasesTypes DEF OneSlot, LiveIn, Live
<1>7. CopiesApart'
  BY <1>1, <1>2, <1>3, LeasesTypes DEF CopiesApart, LiveIn, Live, AtProducer
<1>8. OneRecord'
  BY <1>1, <1>2, <1>3, LeasesTypes DEF OneRecord
<1>9. OwnRecorded'
  BY <1>1, <1>2, <1>3, LeasesTypes DEF OwnRecorded, Manual, CopiesApart,
         LiveIn, Live, AtProducer, SlotsUsed, HandPending, OneRecord
<1>10. HandPending'
  BY <1>1, <1>2, <1>3, LeasesTypes DEF HandPending, OwnRecorded, CopiesApart,
         LiveIn, Live, AtProducer, OneRecord
<1>11. PushedStored'
  BY <1>1, <1>2, <1>3, LeasesTypes DEF PushedStored, Settled, LiveIn, Live
<1>12. ParentWaits'
  BY <1>1, <1>2, <1>3, LeasesTypes DEF ParentWaits
<1>13. OnlyLeased'
  BY <1>1, <1>2, <1>3, LeasesTypes DEF OnlyLeased, Owed
<1>14. WorkFound'
  <2> SUFFICES ASSUME crawl' # "closed" \/ backend'.persist
               PROVE  (\A mm \in Messages : MessageKept(mm)') /\ (\A cc \in spawned' : ChildKept(cc)')
    BY DEF WorkFound
  <2>0. (\A mm \in Messages : MessageKept(mm)) /\ (\A cc \in spawned : ChildKept(cc))
    BY <1>1, <1>2 DEF WorkFound, OnlyLeased
  <2>1. ASSUME NEW mm \in Messages PROVE MessageKept(mm)'
    BY <2>0, LeasesTypes, <1>1, <1>2, <1>3 DEF MessageKept, LiveIn, Live,
           Settled, PushedStored, OwnRecorded, Manual, SlotsUsed, OnlyLeased, Owed
  <2>2. ASSUME NEW cc \in spawned' PROVE ChildKept(cc)'
    <3>0. cc \in Children /\ ParentOf[cc] \in Messages
      BY <2>2, LeasesTypes, <1>1, <1>2, <1>3 DEF LeasesTypeOK
    <3>1. ASSUME ParentKept(cc) PROVE ChildKept(cc)'
      BY <3>0, <3>1, LeasesTypes, <1>1, <1>2, <1>3 DEF ChildKept,
             ParentKept, Settled, SlotsUsed
    <3>2. ASSUME NEW k \in Ids, LiveIn(k, cc) PROVE ChildKept(cc)'
      BY <3>0, <3>2, LeasesTypes, <1>1, <1>1, <1>2, <1>3 DEF ChildKept,
             ParentKept, LiveIn, Live, Settled, SlotsUsed, ParentWaits,
             OnlyLeased
    <3> QED
      BY <2>0, <2>2, <3>0, <3>1, <3>2, LeasesTypes, <1>1, <1>2, <1>3 DEF
             ChildKept, Settled, LiveIn, Live
  <2> QED BY <2>1, <2>2
<1> QED
  BY <1>4, <1>5, <1>6, <1>7, <1>8, <1>9, <1>10, <1>11, <1>12, <1>13, <1>14
         DEF LeasesIInv

\* A request is popped: the message is no longer in the queue.
LEMMA GetKeeps ==
    ASSUME LeasesIInv, ~RecycleIds, NEW i \in Ids, NEW r \in Items, Get(i, r)
    PROVE LeasesIInv'
<1>1. /\ LeasesTypeOK /\ SlotsUsed /\ OneSlot /\ CopiesApart /\ OneRecord
      /\ OwnRecorded /\ HandPending /\ PushedStored /\ ParentWaits /\ OnlyLeased
      /\ WorkFound
  BY DEF LeasesIInv
<1>2. /\ crawl = "running" /\ queue[r] = 1
      /\ object[i].stage = "free" /\ startRequests[i] = NoItem
      /\ UNCHANGED <<backend, ingress, pending, hand, inflight, startRequests, spawned,
                      done, dropped, lost, crawl, faults>>
  BY <1>1, LeasesTypes DEF Get, memory, ledger, Fault, Allocatable, Requeueing
<1>3. /\ object'[i].item = r /\ object'[i].stage = "popped"
      /\ \A k \in Ids : k # i => object'[k] = object[k]
      /\ object' \in [Ids -> Slots]
      /\ \A s \in Items : queue'[s] = IF s = r THEN 0 ELSE queue[s]
      /\ queue' \in [Items -> 0 .. 1]
  BY <1>1, <1>2, LeasesTypes DEF Get, memory, ledger, Add, Take, Forget,
         Stage, Fault, Allocatable, Requeueing, Slots, Stages, Free, LeasesTypeOK
<1>4. LeasesTypeOK'
  <2>1. inflight' = {k \in Ids : object'[k].stage \in {"leased", "failed"}}
    BY <1>1, <1>2, <1>3, LeasesTypes DEF LeasesTypeOK
  <2> QED
    BY <1>1, <1>2, <1>3, <2>1, LeasesTypes, LeasesTyped DEF LeasesTypeOK
<1>5. SlotsUsed'
  BY <1>1, <1>2, <1>3, LeasesTypes DEF SlotsUsed, Free
<1>6. OneSlot'
  BY <1>1, <1>2, <1>3, LeasesTypes DEF OneSlot, LiveIn, Live, CopiesApart,
         AtProducer, SlotsUsed
<1>7. CopiesApart'
  BY <1>1, <1>2, <1>3, LeasesTypes DEF CopiesApart, LiveIn, Live, AtProducer
<1>8. OneRecord'
  BY <1>1, <1>2, <1>3, LeasesTypes DEF OneRecord
<1>9. OwnRecorded'
  BY <1>1, <1>2, <1>3, LeasesTypes DEF OwnRecorded, Manual
<1>10. HandPending'
  BY <1>1, <1>2, <1>3, LeasesTypes DEF HandPending
<1>11. PushedStored'
  BY <1>1, <1>2, <1>3, LeasesTypes DEF PushedStored, Settled, LiveIn,
         Live, SlotsUsed, OwnRecorded, CopiesApart, OneSlot
<1>12. ParentWaits'
  BY <1>1, <1>2, <1>3, LeasesTypes DEF ParentWaits
<1>13. OnlyLeased'
  BY <1>1, <1>2, <1>3, LeasesTypes DEF OnlyLeased, Owed
<1>14. WorkFound'
  <2> SUFFICES ASSUME crawl' # "closed" \/ backend'.persist
               PROVE  (\A mm \in Messages : MessageKept(mm)') /\ (\A cc \in spawned' : ChildKept(cc)')
    BY DEF WorkFound
  <2>0. (\A mm \in Messages : MessageKept(mm)) /\ (\A cc \in spawned : ChildKept(cc))
    BY <1>1, <1>2 DEF WorkFound, OnlyLeased
  <2>1. ASSUME NEW mm \in Messages PROVE MessageKept(mm)'
    BY <2>0, LeasesTypes, <1>1, <1>2, <1>3 DEF MessageKept, LiveIn, Live,
           Settled, PushedStored, OwnRecorded, Manual, SlotsUsed, OnlyLeased, Owed
  <2>2. ASSUME NEW cc \in spawned' PROVE ChildKept(cc)'
    <3>0. cc \in Children /\ ParentOf[cc] \in Messages
      BY <2>2, LeasesTypes, <1>1, <1>2, <1>3 DEF LeasesTypeOK
    <3>1. ASSUME ParentKept(cc) PROVE ChildKept(cc)'
      BY <3>0, <3>1, LeasesTypes, <1>1, <1>2, <1>3 DEF ChildKept,
             ParentKept, Settled, SlotsUsed
    <3>2. ASSUME NEW k \in Ids, LiveIn(k, cc) PROVE ChildKept(cc)'
      BY <3>0, <3>2, LeasesTypes, <1>1, <1>1, <1>2, <1>3 DEF ChildKept,
             ParentKept, LiveIn, Live, Settled, SlotsUsed, ParentWaits,
             OnlyLeased
    <3> QED
      BY <2>0, <2>2, <3>0, <3>1, <3>2, LeasesTypes, <1>1, <1>2, <1>3 DEF
             ChildKept, Settled, LiveIn, Live
  <2> QED BY <2>1, <2>2
<1> QED
  BY <1>4, <1>5, <1>6, <1>7, <1>8, <1>9, <1>10, <1>11, <1>12, <1>13, <1>14
         DEF LeasesIInv

\* What was popped is lost before its lease.
LEMMA GetRaisesKeeps ==
    ASSUME LeasesIInv, NEW i \in Ids, GetRaises(i)
    PROVE LeasesIInv'
<1>1. /\ LeasesTypeOK /\ SlotsUsed /\ OneSlot /\ CopiesApart /\ OneRecord
      /\ OwnRecorded /\ HandPending /\ PushedStored /\ ParentWaits /\ OnlyLeased
      /\ WorkFound
  BY DEF LeasesIInv
<1>2. /\ object[i].stage = "popped" /\ object[i].item \in Items
      /\ lost' = lost \cup {object[i].item} /\ faults' \in 0 .. MaxFaults
      /\ UNCHANGED <<backend, queue, ingress, pending, hand, inflight, startRequests,
                      spawned, done, dropped, crawl>>
  BY <1>1, LeasesTypes, LeasesAssumption DEF GetRaises, memory, ledger, Fault, Allocatable,
         Requeueing, SlotsUsed, LeasesTypeOK
<1>3. /\ object'[i].item = NoItem /\ object'[i].stage = "free" /\ object'[i] = Free
      /\ \A k \in Ids : k # i => object'[k] = object[k]
      /\ object' \in [Ids -> Slots]
  BY <1>1, <1>2, LeasesTypes DEF GetRaises, memory, ledger, Add, Take,
         Forget, Stage, Fault, Allocatable, Requeueing, Slots, Stages, Free,
         LeasesTypeOK
<1>4. LeasesTypeOK'
  <2>1. inflight' = {k \in Ids : object'[k].stage \in {"leased", "failed"}}
    BY <1>1, <1>2, <1>3, LeasesTypes DEF LeasesTypeOK
  <2> QED
    BY <1>1, <1>2, <1>3, <2>1, LeasesTypes, LeasesTyped DEF LeasesTypeOK
<1>5. SlotsUsed'
  BY <1>1, <1>2, <1>3, LeasesTypes DEF SlotsUsed, Free
<1>6. OneSlot'
  BY <1>1, <1>2, <1>3, LeasesTypes DEF OneSlot, LiveIn, Live
<1>7. CopiesApart'
  BY <1>1, <1>2, <1>3, LeasesTypes DEF CopiesApart, LiveIn, Live, AtProducer
<1>8. OneRecord'
  BY <1>1, <1>2, <1>3, LeasesTypes DEF OneRecord
<1>9. OwnRecorded'
  BY <1>1, <1>2, <1>3, LeasesTypes DEF OwnRecorded, Manual
<1>10. HandPending'
  BY <1>1, <1>2, <1>3, LeasesTypes DEF HandPending
<1>11. PushedStored'
  BY <1>1, <1>2, <1>3, LeasesTypes DEF PushedStored, Settled, LiveIn, Live
<1>12. ParentWaits'
  BY <1>1, <1>2, <1>3, LeasesTypes DEF ParentWaits
<1>13. OnlyLeased'
  BY <1>1, <1>2, <1>3, LeasesTypes DEF OnlyLeased, Owed
<1>14. WorkFound'
  <2> SUFFICES ASSUME crawl' # "closed" \/ backend'.persist
               PROVE  (\A mm \in Messages : MessageKept(mm)') /\ (\A cc \in spawned' : ChildKept(cc)')
    BY DEF WorkFound
  <2>0. (\A mm \in Messages : MessageKept(mm)) /\ (\A cc \in spawned : ChildKept(cc))
    BY <1>1, <1>2 DEF WorkFound, OnlyLeased
  <2>1. ASSUME NEW mm \in Messages PROVE MessageKept(mm)'
    BY <2>0, LeasesTypes, <1>1, <1>2, <1>3 DEF MessageKept, LiveIn, Live,
           Settled, PushedStored, OwnRecorded, Manual, SlotsUsed, OnlyLeased, Owed
  <2>2. ASSUME NEW cc \in spawned' PROVE ChildKept(cc)'
    <3>0. cc \in Children /\ ParentOf[cc] \in Messages
      BY <2>2, LeasesTypes, <1>1, <1>2, <1>3 DEF LeasesTypeOK
    <3>1. ASSUME ParentKept(cc) PROVE ChildKept(cc)'
      BY <3>0, <3>1, LeasesTypes, <1>1, <1>2, <1>3 DEF ChildKept,
             ParentKept, Settled, SlotsUsed
    <3>2. ASSUME NEW k \in Ids, LiveIn(k, cc) PROVE ChildKept(cc)'
      BY <3>0, <3>2, LeasesTypes, <1>1, <1>1, <1>2, <1>3 DEF ChildKept,
             ParentKept, LiveIn, Live, Settled, SlotsUsed, ParentWaits,
             OnlyLeased
    <3> QED
      BY <2>0, <2>2, <3>0, <3>1, <3>2, LeasesTypes, <1>1, <1>2, <1>3 DEF
             ChildKept, Settled, LiveIn, Live
  <2> QED BY <2>1, <2>2
<1> QED
  BY <1>4, <1>5, <1>6, <1>7, <1>8, <1>9, <1>10, <1>11, <1>12, <1>13, <1>14
         DEF LeasesIInv

\* The popped message is recorded under the id of its request.
LEMMA LeaseRequestKeeps ==
    ASSUME LeasesIInv, NEW i \in Ids, LeaseRequest(i)
    PROVE LeasesIInv'
<1>1. /\ LeasesTypeOK /\ SlotsUsed /\ OneSlot /\ CopiesApart /\ OneRecord
      /\ OwnRecorded /\ HandPending /\ PushedStored /\ ParentWaits /\ OnlyLeased
      /\ WorkFound
  BY DEF LeasesIInv
<1>2. /\ crawl = "running" /\ object[i].stage = "popped"
      /\ inflight' = inflight \cup {i}
      /\ UNCHANGED <<backend, queue, ingress, pending, hand, startRequests, spawned,
                      done, dropped, lost, crawl, faults>>
  BY <1>1, LeasesTypes DEF LeaseRequest, memory, ledger, Fault,
         Allocatable, Requeueing
<1>3. /\ object'[i].item = object[i].item /\ object'[i].stage = "leased"
      /\ \A k \in Ids : k # i => object'[k] = object[k]
      /\ object' \in [Ids -> Slots]
  BY <1>1, <1>2, LeasesTypes DEF LeaseRequest, memory, ledger, Add, Take,
         Forget, Stage, Fault, Allocatable, Requeueing, Slots, Stages, Free,
         LeasesTypeOK
<1>4. LeasesTypeOK'
  <2>1. inflight' = {k \in Ids : object'[k].stage \in {"leased", "failed"}}
    BY <1>1, <1>2, <1>3, LeasesTypes DEF LeasesTypeOK
  <2> QED
    BY <1>1, <1>2, <1>3, <2>1, LeasesTypes, LeasesTyped DEF LeasesTypeOK
<1>5. SlotsUsed'
  BY <1>1, <1>2, <1>3, LeasesTypes DEF SlotsUsed, Free
<1>6. OneSlot'
  BY <1>1, <1>2, <1>3, LeasesTypes DEF OneSlot, LiveIn, Live
<1>7. CopiesApart'
  BY <1>1, <1>2, <1>3, LeasesTypes DEF CopiesApart, LiveIn, Live, AtProducer
<1>8. OneRecord'
  BY <1>1, <1>2, <1>3, LeasesTypes DEF OneRecord
<1>9. OwnRecorded'
  BY <1>1, <1>2, <1>3, LeasesTypes DEF OwnRecorded, Manual
<1>10. HandPending'
  BY <1>1, <1>2, <1>3, LeasesTypes DEF HandPending
<1>11. PushedStored'
  BY <1>1, <1>2, <1>3, LeasesTypes DEF PushedStored, Settled, LiveIn, Live
<1>12. ParentWaits'
  BY <1>1, <1>2, <1>3, LeasesTypes DEF ParentWaits
<1>13. OnlyLeased'
  BY <1>1, <1>2, <1>3, LeasesTypes DEF OnlyLeased, Owed
<1>14. WorkFound'
  <2> SUFFICES ASSUME crawl' # "closed" \/ backend'.persist
               PROVE  (\A mm \in Messages : MessageKept(mm)') /\ (\A cc \in spawned' : ChildKept(cc)')
    BY DEF WorkFound
  <2>0. (\A mm \in Messages : MessageKept(mm)) /\ (\A cc \in spawned : ChildKept(cc))
    BY <1>1, <1>2 DEF WorkFound, OnlyLeased
  <2>1. ASSUME NEW mm \in Messages PROVE MessageKept(mm)'
    BY <2>0, LeasesTypes, <1>1, <1>2, <1>3 DEF MessageKept, LiveIn, Live,
           Settled, PushedStored, OwnRecorded, Manual, SlotsUsed, OnlyLeased, Owed
  <2>2. ASSUME NEW cc \in spawned' PROVE ChildKept(cc)'
    BY SMTT(40), <2>0, LeasesTypes, <1>1, <1>2, <1>3 DEF ChildKept, ParentKept,
           LiveIn, Live, Settled, PushedStored, ParentWaits, SlotsUsed,
           OnlyLeased, Owed, LeasesTypeOK
  <2> QED BY <2>1, <2>2
<1> QED
  BY <1>4, <1>5, <1>6, <1>7, <1>8, <1>9, <1>10, <1>11, <1>12, <1>13, <1>14
         DEF LeasesIInv

\* A callback makes a child: it has an id that nothing is recorded under.
LEMMA YieldKeeps ==
    ASSUME LeasesIInv, ~RecycleIds, NEW i \in Ids, NEW j \in Ids, NEW c \in Children, Yield(i, j, c)
    PROVE LeasesIInv'
<1>1. /\ LeasesTypeOK /\ SlotsUsed /\ OneSlot /\ CopiesApart /\ OneRecord
      /\ OwnRecorded /\ HandPending /\ PushedStored /\ ParentWaits /\ OnlyLeased
      /\ WorkFound
  BY DEF LeasesIInv
<1>2. /\ crawl = "running" /\ object[i].item = ParentOf[c] /\ object[i].stage = "leased"
      /\ c \notin spawned
      /\ spawned' = spawned \cup {c}
      /\ object[j].stage = "free" /\ startRequests[j] = NoItem
      /\ UNCHANGED <<backend, queue, ingress, pending, hand, inflight, startRequests,
                      done, dropped, lost, crawl, faults>>
  BY <1>1, LeasesTypes DEF Yield, memory, ledger, Fault, Allocatable, Requeueing
<1>3. /\ object'[j].item = c /\ object'[j].stage = "child"
      /\ \A k \in Ids : k # j => object'[k] = object[k]
      /\ object' \in [Ids -> Slots]
  BY <1>1, <1>2, LeasesTypes DEF Yield, memory, ledger, Add, Take, Forget,
         Stage, Fault, Allocatable, Requeueing, Slots, Stages, Free, LeasesTypeOK
<1>4. LeasesTypeOK'
  <2>1. inflight' = {k \in Ids : object'[k].stage \in {"leased", "failed"}}
    BY <1>1, <1>2, <1>3, LeasesTypes DEF LeasesTypeOK
  <2> QED
    BY <1>1, <1>2, <1>3, <2>1, LeasesTypes, LeasesTyped DEF LeasesTypeOK
<1>5. SlotsUsed'
  BY <1>1, <1>2, <1>3, LeasesTypes DEF SlotsUsed, Free
<1>6. OneSlot'
  BY <1>1, <1>2, <1>3, LeasesTypes DEF OneSlot, LiveIn, Live, CopiesApart,
         AtProducer, SlotsUsed
<1>7. CopiesApart'
  BY <1>1, <1>2, <1>3, LeasesTypes DEF CopiesApart, LiveIn, Live,
         AtProducer, OneSlot, OneRecord, OnlyLeased, SlotsUsed
<1>8. OneRecord'
  BY <1>1, <1>2, <1>3, LeasesTypes DEF OneRecord
<1>9. OwnRecorded'
  BY <1>1, <1>2, <1>3, LeasesTypes DEF OwnRecorded, Manual
<1>10. HandPending'
  BY <1>1, <1>2, <1>3, LeasesTypes DEF HandPending
<1>11. PushedStored'
  BY <1>1, <1>2, <1>3, LeasesTypes DEF PushedStored, Settled, LiveIn, Live
<1>12. ParentWaits'
  BY <1>1, <1>2, <1>3, LeasesTypes DEF ParentWaits
<1>13. OnlyLeased'
  BY <1>1, <1>2, <1>3, LeasesTypes DEF OnlyLeased, Owed
<1>14. WorkFound'
  <2> SUFFICES ASSUME crawl' # "closed" \/ backend'.persist
               PROVE  (\A mm \in Messages : MessageKept(mm)') /\ (\A cc \in spawned' : ChildKept(cc)')
    BY DEF WorkFound
  <2>0. (\A mm \in Messages : MessageKept(mm)) /\ (\A cc \in spawned : ChildKept(cc))
    BY <1>1, <1>2 DEF WorkFound, OnlyLeased
  <2>1. ASSUME NEW mm \in Messages PROVE MessageKept(mm)'
    BY <2>0, LeasesTypes, <1>1, <1>2, <1>3 DEF MessageKept, LiveIn, Live,
           Settled, PushedStored, OwnRecorded, Manual, SlotsUsed, OnlyLeased, Owed
  <2>2. ASSUME NEW cc \in spawned' PROVE ChildKept(cc)'
    <3>0. cc \in Children /\ ParentOf[cc] \in Messages
      BY <2>2, LeasesTypes, <1>1, <1>2, <1>3 DEF LeasesTypeOK
    <3>1. ASSUME ParentKept(cc) PROVE ChildKept(cc)'
      BY <3>0, <3>1, LeasesTypes, <1>1, <1>2, <1>3 DEF ChildKept,
             ParentKept, Settled, SlotsUsed
    <3>2. ASSUME NEW k \in Ids, LiveIn(k, cc) PROVE ChildKept(cc)'
      BY <3>0, <3>2, LeasesTypes, <1>1, <1>1, <1>2, <1>3 DEF ChildKept,
             ParentKept, LiveIn, Live, Settled, SlotsUsed, ParentWaits,
             OnlyLeased
    <3>3. ASSUME cc \notin spawned PROVE ChildKept(cc)'
      BY <3>0, <3>3, <2>2, LeasesTypes, <1>1, <1>2, <1>3 DEF ChildKept,
             ParentKept, LiveIn, Live, Settled
    <3> QED
      BY <2>0, <2>2, <3>0, <3>1, <3>2, LeasesTypes, <3>3, <1>1, <1>2, <1>3
             DEF ChildKept, Settled, LiveIn, Live
  <2> QED BY <2>1, <2>2
<1> QED
  BY <1>4, <1>5, <1>6, <1>7, <1>8, <1>9, <1>10, <1>11, <1>12, <1>13, <1>14
         DEF LeasesIInv

\* A request is completed: what is recorded under its id is acknowledged.
LEMMA CompleteKeeps ==
    ASSUME LeasesIInv, NEW i \in Ids, Complete(i)
    PROVE LeasesIInv'
<1>1. /\ LeasesTypeOK /\ SlotsUsed /\ OneSlot /\ CopiesApart /\ OneRecord
      /\ OwnRecorded /\ HandPending /\ PushedStored /\ ParentWaits /\ OnlyLeased
      /\ WorkFound
  BY DEF LeasesIInv
<1>2. /\ crawl = "running" /\ object[i].stage = "leased" /\ object[i].item \in Items
      /\ \A j \in Ids : object[j].stage = "child" => ParentOf[object[j].item] # object[i].item
      /\ inflight' = inflight \ {i}
      /\ done' = done \cup {object[i].item}
      /\ UNCHANGED <<backend, queue, ingress, pending, hand, startRequests, spawned,
                      dropped, lost, crawl, faults>>
  BY <1>1, LeasesTypes DEF Complete, memory, ledger, Fault, Allocatable,
         Requeueing, BoundaryCrossed, SlotsUsed
<1>3. /\ object'[i].item = NoItem /\ object'[i].stage = "free" /\ object'[i] = Free
      /\ \A k \in Ids : k # i => object'[k] = object[k]
      /\ object' \in [Ids -> Slots]
  BY <1>1, <1>2, LeasesTypes DEF Complete, memory, ledger, Add, Take,
         Forget, Stage, Fault, Allocatable, Requeueing, Slots, Stages, Free,
         LeasesTypeOK
<1>4. LeasesTypeOK'
  <2>1. inflight' = {k \in Ids : object'[k].stage \in {"leased", "failed"}}
    BY <1>1, <1>2, <1>3, LeasesTypes DEF LeasesTypeOK
  <2> QED
    BY <1>1, <1>2, <1>3, <2>1, LeasesTypes, LeasesTyped DEF LeasesTypeOK
<1>5. SlotsUsed'
  BY <1>1, <1>2, <1>3, LeasesTypes DEF SlotsUsed, Free
<1>6. OneSlot'
  BY <1>1, <1>2, <1>3, LeasesTypes DEF OneSlot, LiveIn, Live
<1>7. CopiesApart'
  BY <1>1, <1>2, <1>3, LeasesTypes DEF CopiesApart, LiveIn, Live,
         AtProducer, OneSlot, OneRecord, OnlyLeased, SlotsUsed
<1>8. OneRecord'
  BY <1>1, <1>2, <1>3, LeasesTypes DEF OneRecord
<1>9. OwnRecorded'
  BY <1>1, <1>2, <1>3, LeasesTypes DEF OwnRecorded, Manual
<1>10. HandPending'
  BY <1>1, <1>2, <1>3, LeasesTypes DEF HandPending
<1>11. PushedStored'
  BY <1>1, <1>2, <1>3, LeasesTypes DEF PushedStored, Settled, LiveIn,
         Live, SlotsUsed, OwnRecorded, CopiesApart, OneSlot
<1>12. ParentWaits'
  BY <1>1, <1>2, <1>3, LeasesTypes DEF ParentWaits, SlotsUsed, OneSlot
<1>13. OnlyLeased'
  BY <1>1, <1>2, <1>3, LeasesTypes DEF OnlyLeased, Owed
<1>14. WorkFound'
  <2> SUFFICES ASSUME crawl' # "closed" \/ backend'.persist
               PROVE  (\A mm \in Messages : MessageKept(mm)') /\ (\A cc \in spawned' : ChildKept(cc)')
    BY DEF WorkFound
  <2>0. (\A mm \in Messages : MessageKept(mm)) /\ (\A cc \in spawned : ChildKept(cc))
    BY <1>1, <1>2 DEF WorkFound, OnlyLeased
  <2>1. ASSUME NEW mm \in Messages PROVE MessageKept(mm)'
    BY <2>0, LeasesTypes, <1>1, <1>2, <1>3 DEF MessageKept, LiveIn, Live,
           Settled, PushedStored, OwnRecorded, Manual, SlotsUsed, OnlyLeased, Owed
  <2>2. ASSUME NEW cc \in spawned' PROVE ChildKept(cc)'
    <3>0. cc \in Children /\ ParentOf[cc] \in Messages
      BY <2>2, LeasesTypes, <1>1, <1>2, <1>3 DEF LeasesTypeOK
    <3>1. ASSUME ParentKept(cc) PROVE ChildKept(cc)'
      BY <3>0, <3>1, LeasesTypes, <1>1, <1>2, <1>3 DEF ChildKept,
             ParentKept, Settled, OnlyLeased, Owed, SlotsUsed
    <3>2. ASSUME NEW k \in Ids, LiveIn(k, cc) PROVE ChildKept(cc)'
      BY <3>0, <3>2, LeasesTypes, <1>1, <1>1, <1>2, <1>3 DEF ChildKept,
             ParentKept, LiveIn, Live, Settled, SlotsUsed, ParentWaits,
             OnlyLeased
    <3> QED
      BY <2>0, <2>2, <3>0, <3>1, <3>2, LeasesTypes, <1>1, <1>2, <1>3 DEF
             ChildKept, Settled, LiveIn, Live
  <2> QED BY <2>1, <2>2
<1> QED
  BY <1>4, <1>5, <1>6, <1>7, <1>8, <1>9, <1>10, <1>11, <1>12, <1>13, <1>14
         DEF LeasesIInv

\* Shutdown cancels the tasks: what is leased stays recorded, the rest is let go.
LEMMA CancelTasksKeeps ==
    ASSUME LeasesIInv, CancelTasks
    PROVE LeasesIInv'
<1>1. /\ LeasesTypeOK /\ SlotsUsed /\ OneSlot /\ CopiesApart /\ OneRecord
      /\ OwnRecorded /\ HandPending /\ PushedStored /\ ParentWaits /\ OnlyLeased
      /\ WorkFound
  BY DEF LeasesIInv
<1>2. /\ crawl = "running" /\ crawl' = "requeueing" /\ hand' = NoItem
      /\ lost \subseteq lost' /\ lost' \subseteq Items
      /\ \A k \in Ids : object[k].stage = "popped" => object[k].item \in lost'
      /\ UNCHANGED <<backend, queue, pending, inflight, startRequests, spawned, done,
                      dropped, faults>>
  BY <1>1, LeasesTypes DEF CancelTasks, memory, ledger, Fault,
         Allocatable, Requeueing, LeasesTypeOK, SlotsUsed
<1>3. /\ \A k \in Ids : object'[k] = IF k \in inflight THEN object[k] ELSE Free
      /\ object' \in [Ids -> Slots]
      /\ \A n \in Messages : n # hand => ingress'[n] = ingress[n]
      /\ ingress' \in [Messages -> 0 .. 1]
      /\ hand # NoItem => ingress'[hand] = 1 \/ hand \in lost'
  BY <1>1, <1>2, LeasesTypes DEF CancelTasks, memory, ledger, Add, Take,
         Forget, Stage, Fault, Allocatable, Requeueing, Slots, Stages, Free,
         LeasesTypeOK, CopiesApart
<1>4. LeasesTypeOK'
  <2>1. inflight' = {k \in Ids : object'[k].stage \in {"leased", "failed"}}
    BY <1>1, <1>2, <1>3, LeasesTypes DEF LeasesTypeOK, Free
  <2> QED
    BY <1>1, <1>2, <1>3, <2>1, LeasesTypes, LeasesTyped DEF LeasesTypeOK
<1>5. SlotsUsed'
  BY <1>1, <1>2, <1>3, LeasesTypes DEF SlotsUsed, Free, Free
<1>6. OneSlot'
  BY <1>1, <1>2, <1>3, LeasesTypes DEF OneSlot, LiveIn, Live, CopiesApart,
         AtProducer, SlotsUsed, Free
<1>7. CopiesApart'
  BY <1>1, <1>2, <1>3, LeasesTypes DEF CopiesApart, LiveIn, Live,
         AtProducer, OneSlot, OneRecord, OnlyLeased, SlotsUsed, Free
<1>8. OneRecord'
  BY <1>1, <1>2, <1>3, LeasesTypes DEF OneRecord, Free
<1>9. OwnRecorded'
  BY <1>1, <1>2, <1>3, LeasesTypes DEF OwnRecorded, Manual, CopiesApart,
         LiveIn, Live, AtProducer, SlotsUsed, HandPending, OneRecord, Free
<1>10. HandPending'
  BY <1>1, <1>2, <1>3, LeasesTypes DEF HandPending, Free
<1>11. PushedStored'
  BY <1>1, <1>2, <1>3, LeasesTypes DEF PushedStored, Settled, LiveIn,
         Live, SlotsUsed, OwnRecorded, CopiesApart, OneSlot, Free
<1>12. ParentWaits'
  BY <1>1, <1>2, <1>3, LeasesTypes DEF ParentWaits, SlotsUsed, OneSlot, Free
<1>13. OnlyLeased'
  BY <1>1, <1>2, <1>3, LeasesTypes DEF OnlyLeased, Owed, Free
<1>14. WorkFound'
  <2> SUFFICES ASSUME crawl' # "closed" \/ backend'.persist
               PROVE  (\A mm \in Messages : MessageKept(mm)') /\ (\A cc \in spawned' : ChildKept(cc)')
    BY DEF WorkFound
  <2>0. (\A mm \in Messages : MessageKept(mm)) /\ (\A cc \in spawned : ChildKept(cc))
    BY <1>1, <1>2 DEF WorkFound, OnlyLeased
  <2>1. ASSUME NEW mm \in Messages PROVE MessageKept(mm)'
    BY <2>0, LeasesTypes, <1>1, <1>2, <1>3 DEF MessageKept, LiveIn, Live,
           Settled, PushedStored, OwnRecorded, Manual, SlotsUsed, OnlyLeased, Owed
  <2>2. ASSUME NEW cc \in spawned' PROVE ChildKept(cc)'
    <3>0. cc \in Children /\ ParentOf[cc] \in Messages
      BY <2>2, LeasesTypes, <1>1, <1>2, <1>3 DEF LeasesTypeOK
    <3>1. ASSUME ParentKept(cc) PROVE ChildKept(cc)'
      BY <3>0, <3>1, LeasesTypes, <1>1, <1>2, <1>3 DEF ChildKept,
             ParentKept, Settled, OnlyLeased, Owed, SlotsUsed, Free
    <3>2. ASSUME NEW k \in Ids, LiveIn(k, cc) PROVE ChildKept(cc)'
      BY <3>0, <3>2, LeasesTypes, <1>1, <1>1, <1>2, <1>3 DEF ChildKept,
             ParentKept, LiveIn, Live, Settled, SlotsUsed, ParentWaits,
             OnlyLeased, Free, Owed
    <3> QED
      BY <2>0, <2>2, <3>0, <3>1, <3>2, LeasesTypes, <1>1, <1>2, <1>3 DEF
             ChildKept, Settled, LiveIn, Live
  <2> QED BY <2>1, <2>2
<1> QED
  BY <1>4, <1>5, <1>6, <1>7, <1>8, <1>9, <1>10, <1>11, <1>12, <1>13, <1>14
         DEF LeasesIInv

\* A recorded request goes back to its queue.
LEMMA RequeueRequestKeeps ==
    ASSUME LeasesIInv, NEW i \in Ids, RequeueRequest(i)
    PROVE LeasesIInv'
<1>1. /\ LeasesTypeOK /\ SlotsUsed /\ OneSlot /\ CopiesApart /\ OneRecord
      /\ OwnRecorded /\ HandPending /\ PushedStored /\ ParentWaits /\ OnlyLeased
      /\ WorkFound
  BY DEF LeasesIInv
<1>2. /\ hand = NoItem /\ \A k \in Ids : object[k] = Free \/ object[k].stage \in {"leased", "failed"}
      /\ crawl \in {"requeueing", "again"} /\ i \in inflight /\ object[i].item \in Items /\ queue[object[i].item] = 0
      /\ inflight' = inflight \ {i}
      /\ UNCHANGED <<backend, ingress, pending, hand, startRequests, spawned, done,
                      dropped, lost, crawl, faults>>
  BY <1>1, LeasesTypes DEF RequeueRequest, memory, ledger, Fault,
         Allocatable, Requeueing, SlotsUsed, CopiesApart, LiveIn, Live,
         OnlyLeased
<1>3. /\ object'[i].item = NoItem /\ object'[i].stage = "free" /\ object'[i] = Free
      /\ \A k \in Ids : k # i => object'[k] = object[k]
      /\ object' \in [Ids -> Slots]
      /\ \A s \in Items : queue'[s] = IF s = object[i].item THEN 1 ELSE queue[s]
      /\ queue' \in [Items -> 0 .. 1]
  BY <1>1, <1>2, LeasesTypes DEF RequeueRequest, memory, ledger, Add,
         Take, Forget, Stage, Fault, Allocatable, Requeueing, Slots, Stages,
         Free, LeasesTypeOK
<1>4. LeasesTypeOK'
  <2>1. inflight' = {k \in Ids : object'[k].stage \in {"leased", "failed"}}
    BY <1>1, <1>2, <1>3, LeasesTypes DEF LeasesTypeOK, Free
  <2> QED
    BY <1>1, <1>2, <1>3, <2>1, LeasesTypes, LeasesTyped DEF LeasesTypeOK
<1>5. SlotsUsed'
  BY <1>1, <1>2, <1>3, LeasesTypes DEF SlotsUsed, Free, Free
<1>6. OneSlot'
  BY <1>1, <1>2, <1>3, LeasesTypes DEF OneSlot, LiveIn, Live, Free
<1>7. CopiesApart'
  BY <1>1, <1>2, <1>3, LeasesTypes DEF CopiesApart, LiveIn, Live,
         AtProducer, OneSlot, OneRecord, OnlyLeased, SlotsUsed, Free
<1>8. OneRecord'
  BY <1>1, <1>2, <1>3, LeasesTypes DEF OneRecord, Free
<1>9. OwnRecorded'
  BY <1>1, <1>2, <1>3, LeasesTypes DEF OwnRecorded, Manual, Free
<1>10. HandPending'
  BY <1>1, <1>2, <1>3, LeasesTypes DEF HandPending, Free
<1>11. PushedStored'
  BY <1>1, <1>2, <1>3, LeasesTypes DEF PushedStored, Settled, LiveIn,
         Live, SlotsUsed, OwnRecorded, CopiesApart, OneSlot, Free
<1>12. ParentWaits'
  BY <1>1, <1>2, <1>3, LeasesTypes DEF ParentWaits, SlotsUsed, OneSlot, Free
<1>13. OnlyLeased'
  BY <1>1, <1>2, <1>3, LeasesTypes DEF OnlyLeased, Owed, Free
<1>14. WorkFound'
  <2> SUFFICES ASSUME crawl' # "closed" \/ backend'.persist
               PROVE  (\A mm \in Messages : MessageKept(mm)') /\ (\A cc \in spawned' : ChildKept(cc)')
    BY DEF WorkFound
  <2>0. (\A mm \in Messages : MessageKept(mm)) /\ (\A cc \in spawned : ChildKept(cc))
    BY <1>1, <1>2 DEF WorkFound, OnlyLeased
  <2>1. ASSUME NEW mm \in Messages PROVE MessageKept(mm)'
    BY <2>0, LeasesTypes, <1>1, <1>2, <1>3 DEF MessageKept, LiveIn, Live,
           Settled, PushedStored, OwnRecorded, Manual, SlotsUsed, OnlyLeased, Owed
  <2>2. ASSUME NEW cc \in spawned' PROVE ChildKept(cc)'
    <3>0. cc \in Children /\ ParentOf[cc] \in Messages
      BY <2>2, LeasesTypes, <1>1, <1>2, <1>3 DEF LeasesTypeOK
    <3>1. ASSUME ParentKept(cc) PROVE ChildKept(cc)'
      BY <3>0, <3>1, LeasesTypes, <1>1, <1>2, <1>3 DEF ChildKept,
             ParentKept, Settled, OnlyLeased, Owed, SlotsUsed, Free
    <3>2. ASSUME NEW k \in Ids, LiveIn(k, cc) PROVE ChildKept(cc)'
      BY <3>0, <3>2, LeasesTypes, <1>1, <1>1, <1>2, <1>3 DEF ChildKept,
             ParentKept, LiveIn, Live, Settled, SlotsUsed, ParentWaits,
             OnlyLeased, Free, Owed
    <3> QED
      BY <2>0, <2>2, <3>0, <3>1, <3>2, LeasesTypes, <1>1, <1>2, <1>3 DEF
             ChildKept, Settled, LiveIn, Live
  <2> QED BY <2>1, <2>2
<1> QED
  BY <1>4, <1>5, <1>6, <1>7, <1>8, <1>9, <1>10, <1>11, <1>12, <1>13, <1>14
         DEF LeasesIInv

\* A recorded start message goes back to its queue.
LEMMA RequeueStartKeeps ==
    ASSUME LeasesIInv, NEW i \in Ids, RequeueStart(i)
    PROVE LeasesIInv'
<1>1. /\ LeasesTypeOK /\ SlotsUsed /\ OneSlot /\ CopiesApart /\ OneRecord
      /\ OwnRecorded /\ HandPending /\ PushedStored /\ ParentWaits /\ OnlyLeased
      /\ WorkFound
  BY DEF LeasesIInv
<1>2. /\ hand = NoItem /\ \A k \in Ids : object[k] = Free \/ object[k].stage \in {"leased", "failed"}
      /\ crawl \in {"requeueing", "again"} /\ inflight = {} /\ startRequests[i] \in Messages /\ ingress[startRequests[i]] = 0
      /\ pending' = pending \ {startRequests[i]}
      /\ UNCHANGED <<backend, queue, hand, object, inflight, spawned, done, dropped,
                      lost, crawl, faults>>
  BY <1>1, LeasesTypes DEF RequeueStart, memory, ledger, Fault,
         Allocatable, Requeueing, OneRecord, OnlyLeased
<1>3. /\ \A n \in Messages : ingress'[n] = IF n = startRequests[i] THEN 1 ELSE ingress[n]
      /\ ingress' \in [Messages -> 0 .. 1]
      /\ \A k \in Ids : startRequests'[k] = IF k = i THEN NoItem ELSE startRequests[k]
      /\ startRequests' \in [Ids -> Messages \cup {NoItem}]
  BY <1>1, <1>2, LeasesTypes DEF RequeueStart, memory, ledger, Add, Take,
         Forget, Stage, Fault, Allocatable, Requeueing, Slots, Stages, Free,
         LeasesTypeOK
<1>4. LeasesTypeOK'
  <2>1. inflight' = {k \in Ids : object'[k].stage \in {"leased", "failed"}}
    BY <1>1, <1>2, <1>3, LeasesTypes DEF LeasesTypeOK, Free
  <2> QED
    BY <1>1, <1>2, <1>3, <2>1, LeasesTypes, LeasesTyped DEF LeasesTypeOK
<1>5. SlotsUsed'
  BY <1>1, <1>2, <1>3, LeasesTypes DEF SlotsUsed, Free, Free
<1>6. OneSlot'
  BY <1>1, <1>2, <1>3, LeasesTypes DEF OneSlot, LiveIn, Live, Free
<1>7. CopiesApart'
  BY <1>1, <1>2, <1>3, LeasesTypes DEF CopiesApart, LiveIn, Live,
         AtProducer, OneSlot, OneRecord, OnlyLeased, SlotsUsed, Free
<1>8. OneRecord'
  BY <1>1, <1>2, <1>3, LeasesTypes DEF OneRecord, Free
<1>9. OwnRecorded'
  BY <1>1, <1>2, <1>3, LeasesTypes DEF OwnRecorded, Manual, CopiesApart,
         LiveIn, Live, AtProducer, SlotsUsed, HandPending, OneRecord, Free
<1>10. HandPending'
  BY <1>1, <1>2, <1>3, LeasesTypes DEF HandPending, OwnRecorded, CopiesApart,
         LiveIn, Live, AtProducer, OneRecord, Free
<1>11. PushedStored'
  BY <1>1, <1>2, <1>3, LeasesTypes DEF PushedStored, Settled, LiveIn, Live, Free
<1>12. ParentWaits'
  BY <1>1, <1>2, <1>3, LeasesTypes DEF ParentWaits, Free
<1>13. OnlyLeased'
  BY <1>1, <1>2, <1>3, LeasesTypes DEF OnlyLeased, Owed, Free
<1>14. WorkFound'
  <2> SUFFICES ASSUME crawl' # "closed" \/ backend'.persist
               PROVE  (\A mm \in Messages : MessageKept(mm)') /\ (\A cc \in spawned' : ChildKept(cc)')
    BY DEF WorkFound
  <2>0. (\A mm \in Messages : MessageKept(mm)) /\ (\A cc \in spawned : ChildKept(cc))
    BY <1>1, <1>2 DEF WorkFound, OnlyLeased
  <2>1. ASSUME NEW mm \in Messages PROVE MessageKept(mm)'
    BY <2>0, LeasesTypes, <1>1, <1>2, <1>3 DEF MessageKept, LiveIn, Live,
           Settled, PushedStored, OwnRecorded, Manual, SlotsUsed, OnlyLeased, Owed
  <2>2. ASSUME NEW cc \in spawned' PROVE ChildKept(cc)'
    <3>0. cc \in Children /\ ParentOf[cc] \in Messages
      BY <2>2, LeasesTypes, <1>1, <1>2, <1>3 DEF LeasesTypeOK
    <3>1. ASSUME ParentKept(cc) PROVE ChildKept(cc)'
      BY <3>0, <3>1, LeasesTypes, <1>1, <1>2, <1>3 DEF ChildKept,
             ParentKept, Settled, OnlyLeased, Owed, SlotsUsed, Free
    <3>2. ASSUME NEW k \in Ids, LiveIn(k, cc) PROVE ChildKept(cc)'
      BY <3>0, <3>2, LeasesTypes, <1>1, <1>1, <1>2, <1>3 DEF ChildKept,
             ParentKept, LiveIn, Live, Settled, SlotsUsed, ParentWaits,
             OnlyLeased, Free, Owed
    <3> QED
      BY <2>0, <2>2, <3>0, <3>1, <3>2, LeasesTypes, <1>1, <1>2, <1>3 DEF
             ChildKept, Settled, LiveIn, Live
  <2> QED BY <2>1, <2>2
<1> QED
  BY <1>4, <1>5, <1>6, <1>7, <1>8, <1>9, <1>10, <1>11, <1>12, <1>13, <1>14
         DEF LeasesIInv

\* A requeue fails: it is tried once more, then what was owed is lost.
LEMMA RequeueFailsKeeps ==
    ASSUME LeasesIInv, RequeueFails
    PROVE LeasesIInv'
<1>1. /\ LeasesTypeOK /\ SlotsUsed /\ OneSlot /\ CopiesApart /\ OneRecord
      /\ OwnRecorded /\ HandPending /\ PushedStored /\ ParentWaits /\ OnlyLeased
      /\ WorkFound
  BY DEF LeasesIInv
<1>2. /\ hand = NoItem /\ \A k \in Ids : object[k] = Free \/ object[k].stage \in {"leased", "failed"}
      /\ crawl \in {"requeueing", "again"}
      /\ faults' \in 0 .. MaxFaults
      /\ UNCHANGED <<backend, queue, ingress, pending, hand, spawned, done, dropped>>
  BY <1>1, LeasesTypes, LeasesAssumption DEF RequeueFails, memory, ledger, Fault,
         Allocatable, Requeueing, LeasesTypeOK, OnlyLeased
<1>3. /\ \/ /\ crawl' = "again"
            /\ UNCHANGED <<object, inflight, startRequests, lost>>
         \/ /\ crawl' = "closed" /\ inflight' = {} /\ lost' = lost \cup Owed
            /\ \A k \in Ids : object'[k] = Free /\ object'[k].stage = "free" /\ object'[k].item = NoItem /\ startRequests'[k] = NoItem
      /\ object' \in [Ids -> Slots]
      /\ startRequests' \in [Ids -> Messages \cup {NoItem}]
      /\ Owed \subseteq Items
  BY <1>1, <1>2, LeasesTypes DEF RequeueFails, memory, ledger, Add, Take,
         Forget, Stage, Fault, Allocatable, Requeueing, Slots, Stages, Free,
         LeasesTypeOK, Owed, SlotsUsed
<1>4. LeasesTypeOK'
  <2>1. inflight' = {k \in Ids : object'[k].stage \in {"leased", "failed"}}
    BY <1>1, <1>2, <1>3, LeasesTypes DEF LeasesTypeOK, Free
  <2> QED
    BY <1>1, <1>2, <1>3, <2>1, LeasesTypes, LeasesTyped DEF LeasesTypeOK
<1>5. SlotsUsed'
  BY <1>1, <1>2, <1>3, LeasesTypes DEF SlotsUsed, Free, Free
<1>6. OneSlot'
  BY <1>1, <1>2, <1>3, LeasesTypes DEF OneSlot, LiveIn, Live, Free
<1>7. CopiesApart'
  BY <1>1, <1>2, <1>3, LeasesTypes DEF CopiesApart, LiveIn, Live, AtProducer,
         Free
<1>8. OneRecord'
  BY <1>1, <1>2, <1>3, LeasesTypes DEF OneRecord, Free
<1>9. OwnRecorded'
  BY <1>1, <1>2, <1>3, LeasesTypes DEF OwnRecorded, Manual, Free
<1>10. HandPending'
  BY <1>1, <1>2, <1>3, LeasesTypes DEF HandPending, Free
<1>11. PushedStored'
  BY <1>1, <1>2, <1>3, LeasesTypes DEF PushedStored, Settled, LiveIn, Live, Free
<1>12. ParentWaits'
  BY <1>1, <1>2, <1>3, LeasesTypes DEF ParentWaits, Free
<1>13. OnlyLeased'
  BY <1>1, <1>2, <1>3, LeasesTypes DEF OnlyLeased, Owed, Free
<1>14. WorkFound'
  <2> SUFFICES ASSUME crawl' # "closed" \/ backend'.persist
               PROVE  (\A mm \in Messages : MessageKept(mm)') /\ (\A cc \in spawned' : ChildKept(cc)')
    BY DEF WorkFound
  <2>0. (\A mm \in Messages : MessageKept(mm)) /\ (\A cc \in spawned : ChildKept(cc))
    BY <1>1, <1>2 DEF WorkFound, OnlyLeased
  <2>1. ASSUME NEW mm \in Messages PROVE MessageKept(mm)'
    BY <2>0, LeasesTypes, <1>1, <1>2, <1>3 DEF MessageKept, LiveIn, Live,
           Settled, PushedStored, OwnRecorded, Manual, SlotsUsed, OnlyLeased, Owed
  <2>2. ASSUME NEW cc \in spawned' PROVE ChildKept(cc)'
    <3>0. cc \in Children /\ ParentOf[cc] \in Messages
      BY <2>2, LeasesTypes, <1>1, <1>2, <1>3 DEF LeasesTypeOK
    <3>1. ASSUME ParentKept(cc) PROVE ChildKept(cc)'
      BY <3>0, <3>1, LeasesTypes, <1>1, <1>2, <1>3 DEF ChildKept,
             ParentKept, Settled, OnlyLeased, Owed, SlotsUsed, Free
    <3>2. ASSUME NEW k \in Ids, LiveIn(k, cc) PROVE ChildKept(cc)'
      BY <3>0, <3>2, LeasesTypes, <1>1, <1>1, <1>2, <1>3 DEF ChildKept,
             ParentKept, LiveIn, Live, Settled, SlotsUsed, ParentWaits,
             OnlyLeased, Free, Owed
    <3> QED
      BY <2>0, <2>2, <3>0, <3>1, <3>2, LeasesTypes, <1>1, <1>2, <1>3 DEF
             ChildKept, Settled, LiveIn, Live
  <2> QED BY <2>1, <2>2
<1> QED
  BY <1>4, <1>5, <1>6, <1>7, <1>8, <1>9, <1>10, <1>11, <1>12, <1>13, <1>14
         DEF LeasesIInv

\* Cleanup keeps the queues or deletes them.
LEMMA CleanupKeeps ==
    ASSUME LeasesIInv, Cleanup
    PROVE LeasesIInv'
<1>1. /\ LeasesTypeOK /\ SlotsUsed /\ OneSlot /\ CopiesApart /\ OneRecord
      /\ OwnRecorded /\ HandPending /\ PushedStored /\ ParentWaits /\ OnlyLeased
      /\ WorkFound
  BY DEF LeasesIInv
<1>2. /\ hand = NoItem /\ \A k \in Ids : object[k] = Free \/ object[k].stage \in {"leased", "failed"}
      /\ crawl \in {"requeueing", "again"} /\ crawl' = "closed" /\ Owed = {}
      /\ UNCHANGED <<backend, hand, object, inflight, startRequests, spawned, done,
                      dropped, lost, faults>>
  BY <1>1, LeasesTypes DEF Cleanup, memory, ledger, Fault, Allocatable,
         Requeueing, OnlyLeased
<1>3. /\ backend.persist => queue' = queue /\ ingress' = ingress /\ pending' = pending
      /\ ~backend.persist => /\ \A s \in Items : queue'[s] = 0
                            /\ \A n \in Messages : ingress'[n] = 0
                            /\ pending' = {}
      /\ queue' \in [Items -> 0 .. 1]
      /\ ingress' \in [Messages -> 0 .. 1]
      /\ pending' \subseteq Messages
  BY <1>1, <1>2, LeasesTypes DEF Cleanup, memory, ledger, Add, Take,
         Forget, Stage, Fault, Allocatable, Requeueing, Slots, Stages, Free,
         LeasesTypeOK
<1>4. LeasesTypeOK'
  BY <1>1, <1>2, <1>3 DEF LeasesTypeOK
<1>5. SlotsUsed'
  BY <1>1, <1>2, <1>3, LeasesTypes DEF Owed, SlotsUsed, Free, Free
<1>6. OneSlot'
  BY <1>1, <1>2, <1>3, LeasesTypes DEF Owed, OneSlot, LiveIn, Live, Free
<1>7. CopiesApart'
  BY <1>1, <1>2, <1>3, LeasesTypes DEF CopiesApart, LiveIn, Live,
         AtProducer, OneSlot, OneRecord, OnlyLeased, SlotsUsed, Free
<1>8. OneRecord'
  BY <1>1, <1>2, <1>3, LeasesTypes DEF Owed, OneRecord, Free
<1>9. OwnRecorded'
  BY <1>1, <1>2, <1>3, LeasesTypes DEF OwnRecorded, Manual, CopiesApart,
         LiveIn, Live, AtProducer, SlotsUsed, HandPending, OneRecord, Free
<1>10. HandPending'
  BY <1>1, <1>2, <1>3, LeasesTypes DEF HandPending, OwnRecorded, CopiesApart,
         LiveIn, Live, AtProducer, OneRecord, Free
<1>11. PushedStored'
  BY <1>1, <1>2, <1>3, LeasesTypes DEF PushedStored, Settled, LiveIn,
         Live, SlotsUsed, OwnRecorded, CopiesApart, OneSlot, Free
<1>12. ParentWaits'
  BY <1>1, <1>2, <1>3, LeasesTypes DEF ParentWaits, SlotsUsed, OneSlot, Free
<1>13. OnlyLeased'
  BY <1>1, <1>2, <1>3, LeasesTypes DEF OnlyLeased, Owed, Free
<1>14. WorkFound'
  <2> SUFFICES ASSUME crawl' # "closed" \/ backend'.persist
               PROVE  (\A mm \in Messages : MessageKept(mm)') /\ (\A cc \in spawned' : ChildKept(cc)')
    BY DEF WorkFound
  <2>0. (\A mm \in Messages : MessageKept(mm)) /\ (\A cc \in spawned : ChildKept(cc))
    BY <1>1, <1>2 DEF WorkFound, OnlyLeased
  <2>1. ASSUME NEW mm \in Messages PROVE MessageKept(mm)'
    BY <2>0, LeasesTypes, <1>1, <1>2, <1>3 DEF MessageKept, LiveIn, Live,
           Settled, PushedStored, OwnRecorded, Manual, SlotsUsed, OnlyLeased, Owed
  <2>2. ASSUME NEW cc \in spawned' PROVE ChildKept(cc)'
    <3>0. cc \in Children /\ ParentOf[cc] \in Messages
      BY <2>2, LeasesTypes, <1>1, <1>2, <1>3 DEF LeasesTypeOK
    <3>1. ASSUME ParentKept(cc) PROVE ChildKept(cc)'
      BY <3>0, <3>1, LeasesTypes, <1>1, <1>2, <1>3 DEF ChildKept,
             ParentKept, Settled, OnlyLeased, Owed, SlotsUsed, Free
    <3>2. ASSUME NEW k \in Ids, LiveIn(k, cc) PROVE ChildKept(cc)'
      BY <3>0, <3>2, LeasesTypes, <1>1, <1>1, <1>2, <1>3 DEF ChildKept,
             ParentKept, LiveIn, Live, Settled, SlotsUsed, ParentWaits,
             OnlyLeased, Free, Owed
    <3> QED
      BY <2>0, <2>2, <3>0, <3>1, <3>2, LeasesTypes, <1>1, <1>2, <1>3 DEF
             ChildKept, Settled, LiveIn, Live
  <2> QED BY <2>1, <2>2
<1> QED
  BY <1>4, <1>5, <1>6, <1>7, <1>8, <1>9, <1>10, <1>11, <1>12, <1>13, <1>14
         DEF LeasesIInv

\* A step of another component keeps the invariant.
LEMMA LeasesStays ==
    ASSUME LeasesIInv, UNCHANGED leasesVars
    PROVE LeasesIInv'
BY SMTT(40) DEF LeasesIInv, leasesVars, memory, ledger, LeasesTypeOK, SlotsUsed, OneSlot, CopiesApart,
       OneRecord, OwnRecorded, Manual, HandPending, PushedStored, ParentWaits, OnlyLeased, WorkFound,
       LiveIn, AtProducer, Settled, Owed, MessageKept, ChildKept, ParentKept

\* It holds when the run begins.
LEMMA LeasesBegins == LeasesInit => LeasesIInv
<1> SUFFICES ASSUME LeasesInit PROVE LeasesIInv
  OBVIOUS
<1>1. LeasesTypeOK
  BY LeasesAssumption DEF LeasesInit, LeasesTypeOK, Items, Stages, Free
<1>2. SlotsUsed /\ OneSlot /\ CopiesApart /\ OneRecord /\ OwnRecorded
  BY LeasesAssumption DEF LeasesInit, SlotsUsed, OneSlot, CopiesApart, OneRecord, OwnRecorded, Items,
         Free, LiveIn, Live, AtProducer
<1>3. HandPending /\ PushedStored /\ ParentWaits /\ OnlyLeased /\ WorkFound
  BY LeasesAssumption DEF LeasesInit, HandPending, PushedStored, ParentWaits, OnlyLeased, WorkFound,
         Items, Free, MessageKept
<1> QED BY <1>1, <1>2, <1>3 DEF LeasesIInv

\* Every step of the lease bookkeeping keeps it, as long as ids are not used again.
LEMMA LeasesKeeps ==
    ASSUME LeasesIInv, ~RecycleIds, [LeasesNext]_leasesVars
    PROVE LeasesIInv'
<1>1. CASE UNCHANGED leasesVars
  BY <1>1, LeasesStays
<1>2. CASE ShutdownStep
  BY <1>2, RequeueFailsKeeps, CleanupKeeps, RequeueRequestKeeps, RequeueStartKeeps DEF ShutdownStep
<1>3. CASE \E m \in Messages : PopStart(m)
  BY <1>3, PopStartKeeps
<1>4. CASE DiscardStart \/ StartFails \/ CancelTasks
  BY <1>4, DiscardStartKeeps, StartFailsKeeps, CancelTasksKeeps
<1>5. CASE \E i \in Ids : \/ MakeRequest(i) \/ Reject(i) \/ Push(i) \/ PushFails(i)
                         \/ CompleteStart(i) \/ GetRaises(i) \/ LeaseRequest(i) \/ Complete(i)
  BY <1>5, MakeRequestKeeps, RejectKeeps, PushKeeps, PushFailsKeeps, CompleteStartKeeps,
     GetRaisesKeeps, LeaseRequestKeeps, CompleteKeeps
<1>6. CASE \E i \in Ids : \/ \E r \in Items : Get(i, r)
                         \/ \E j \in Ids, c \in Children : Yield(i, j, c)
  BY <1>6, GetKeeps, YieldKeeps
<1> QED BY <1>1, <1>2, <1>3, <1>4, <1>5, <1>6 DEF LeasesNext

\* It implies the property that the run checks.
LEMMA LeasesImplies == LeasesIInv => WorkKept
<1> SUFFICES ASSUME LeasesIInv PROVE WorkKept
  OBVIOUS
<1>1. LeasesTypeOK /\ SlotsUsed /\ OnlyLeased /\ WorkFound
  BY DEF LeasesIInv
<1>2. ASSUME NEW m \in Messages, MessageKept(m)
      PROVE  \/ m \in Settled \/ Stored(m) \/ m = hand \/ m \in Owed
             \/ \E i \in Ids : object[i].item = m
  BY <1>2, LeasesTypes DEF MessageKept, Stored, Owed, LiveIn
<1>3. ASSUME NEW c \in spawned, ChildKept(c)
      PROVE  \/ c \in Settled \/ Stored(c)
             \/ \E i \in Ids : object[i].item = c
             \/ ParentOf[c] \in Owed \cup lost
             \/ Stored(ParentOf[c])
  <2>1. c \in Children /\ ParentOf[c] \in Messages
    BY <1>1, LeasesTypes DEF LeasesTypeOK
  <2> QED BY <1>1, <1>3, <2>1, LeasesTypes DEF ChildKept, ParentKept, Stored, Owed, LiveIn
<1>4. KeptWhileRunning
  <2> SUFFICES ASSUME crawl # "closed", NEW r \in Messages \cup spawned
               PROVE  \/ r \in Settled \/ Stored(r) \/ r = hand \/ r \in Owed
                      \/ \E i \in Ids : object[i].item = r
                      \/ r \in spawned /\ ParentOf[r] \in Owed \cup lost
                      \/ r \in spawned /\ Stored(ParentOf[r])
    BY DEF KeptWhileRunning
  <2> QED BY <1>1, <1>2, <1>3 DEF WorkFound
<1>5. ReturnedAtShutdown
  <2> SUFFICES ASSUME crawl = "closed", backend.persist, NEW r \in Messages \cup spawned
               PROVE  \/ r \in Settled \/ Stored(r)
                      \/ r \in spawned /\ (Stored(ParentOf[r]) \/ ParentOf[r] \in lost)
    BY DEF ReturnedAtShutdown
  <2>1. /\ hand = NoItem /\ Owed = {}
        /\ \A i \in Ids : object[i].item \notin Items
    <3>1. /\ hand = NoItem /\ Owed = {}
          /\ \A i \in Ids : object[i] = Free \/ i \in inflight
      BY <1>1 DEF OnlyLeased
    <3>2. \A i \in Ids : i \notin inflight
      BY <3>1 DEF Owed
    <3>3. \A i \in Ids : object[i].item = NoItem
      BY <3>1, <3>2 DEF Free
    <3> QED BY <3>1, <3>3, LeasesTypes
  <2>2. r \in Items /\ r # NoItem
    BY <1>1, LeasesTypes DEF LeasesTypeOK
  <2> QED BY <1>1, <1>2, <1>3, <2>1, <2>2 DEF WorkFound
<1> QED BY <1>1, <1>4, <1>5 DEF WorkKept

---------------------------------------------------------------------------
(* KafkaHandover.                                                          *)

\* The types of the two logs, and of the rest.
LogTypes ==
    \A t \in Topics :
       /\ topicLog[t] \in Seq(WorkItems)
       /\ fetchFrom[t] \in 1 .. Len(topicLog[t]) + 1
       /\ committedTo[t] \in 0 .. Len(topicLog[t])
       /\ leasedOf[t] \in Seq([offset : 1 .. Len(topicLog[t]), acked : BOOLEAN])
CellTypes == [item : WorkItems \cup {0}, stage : CellStages, yielded : BOOLEAN]
RestTypes ==
    /\ taken \in 0 .. StartMessages /\ yieldedStarts \in 0 .. StartLimit
    /\ cell \in [Cells -> CellTypes]
    /\ startMessages \in [Cells -> 0 .. StartMessages]
    /\ inflightMessages \in [Cells -> 0 .. Len(topicLog["work"])]
    /\ processed \subseteq 1 .. Len(topicLog["work"])
    /\ refused \subseteq WorkItems
    /\ life \in {"running", "down", "deleted"}
    /\ outages \in 0 .. MaxOutages /\ reruns \in 0 .. MaxReruns

\* The state is a function of the topics; the start topic is given.
Logged ==
    /\ topicLog = [t \in Topics |-> topicLog[t]]
    /\ fetchFrom = [t \in Topics |-> fetchFrom[t]]
    /\ leasedOf = [t \in Topics |-> leasedOf[t]]
    /\ committedTo = [t \in Topics |-> committedTo[t]]
    /\ topicLog["start"] = [m \in 1 .. StartMessages |-> m]

\* The leases are the records between the commit and the fetch position.
LeasesRun ==
    \A t \in Topics :
        /\ Len(leasedOf[t]) = fetchFrom[t] - 1 - committedTo[t]
        /\ \A k \in 1 .. Len(leasedOf[t]) : leasedOf[t][k].offset = committedTo[t] + k

Logs == LogTypes /\ Logged /\ LeasesRun

\* What became of a message, and of what a processed request yielded.
Carried(m) == m \in refused \/ Copies(m) # {}
Acknowledged(t) == {leasedOf[t][k].offset : k \in {j \in 1 .. Len(leasedOf[t]) : leasedOf[t][j].acked}}
AckedDone ==
    /\ \A m \in Acknowledged("start") : Carried(m)
    /\ Acknowledged("work") \subseteq processed

\* A message is taken before the limit of the starts is reached.
StartsLeft == taken # 0 => yieldedStarts < StartLimit

\* What is recorded under the id of a request is its own message or record.
CellsRecorded ==
    \A c \in Cells :
        /\ cell[c].stage = "free" <=> cell[c].item = 0
        /\ cell[c].stage \in {"made", "stored"} => startMessages[c] \in {0, cell[c].item}
        /\ cell[c].stage = "stored" => Copies(cell[c].item) # {}
        /\ cell[c].stage = "leased" => /\ inflightMessages[c] # 0
                                       /\ topicLog["work"][inflightMessages[c]] = cell[c].item

\* What a callback has yielded is on its way, as long as the callback runs.
YieldedCarried ==
    \A c \in Cells, m \in Fruitful :
        cell[c].stage = "leased" /\ cell[c].yielded /\ cell[c].item = m =>
            \/ Carried(Child(m))
            \/ \E d \in Cells : cell[d].stage = "made" /\ cell[d].item = Child(m)

\* The requests an item may still become: a message to be fetched, taken, or made
\* into a request; for its child, a copy of it to be fetched, or fetched.
One(condition) == IF condition THEN 1 ELSE 0
Made(item) == {c \in Cells : cell[c].stage = "made" /\ cell[c].item = item}
Fetchable(m) == {o \in Copies(m) : fetchFrom["work"] <= o}
Called(m) == {c \in Cells : cell[c].stage = "leased" /\ cell[c].item = m /\ ~cell[c].yielded}
Coming(m) == One(taken = m) + One(fetchFrom["start"] <= m) + Cardinality(Made(m))
Attempts == 1 + outages + reruns
Begun(m) == Cardinality(Copies(m)) + Coming(m)
Borne(m) == Cardinality(Copies(Child(m))) + Cardinality(Made(Child(m)))
               + Cardinality(Fetchable(m)) + Cardinality(Called(m)) + Coming(m)
Repeats ==
    \A m \in 1 .. StartMessages :
        Begun(m) <= Attempts /\ Borne(m) <= Attempts * Attempts

HandoverIInv ==
    /\ Logs /\ RestTypes /\ StartsLeft /\ AckedDone /\ StartCarriedOver
    /\ WorkCarriedOut /\ CellsRecorded /\ YieldedCarried /\ Repeats

\* The two topics.
LEMMA Topical == "start" \in Topics /\ "work" \in Topics /\ \A t \in Topics : t = "start" \/ t = "work"
BY DEF Topics

\* The types, topic by topic and cell by cell.
LEMMA HandoverTyped == HandoverTypeOK <=> LogTypes /\ RestTypes
BY DEF HandoverTypeOK, LogTypes, RestTypes, CellTypes

\* What the types of one log amount to.
Lease(n) == [offset : 1 .. n, acked : BOOLEAN]

\* What a topic's log and the consumer's two positions are.
LEMMA LogFacts ==
    ASSUME Logs, NEW t \in Topics
    PROVE  /\ topicLog[t] \in Seq(WorkItems) /\ Len(topicLog[t]) \in Nat
           /\ fetchFrom[t] \in Nat /\ fetchFrom[t] \in 1 .. Len(topicLog[t]) + 1
           /\ committedTo[t] \in Nat /\ committedTo[t] \in 0 .. Len(topicLog[t])
           /\ leasedOf[t] \in Seq(Lease(Len(topicLog[t]))) /\ Len(leasedOf[t]) \in Nat
           /\ Len(leasedOf[t]) = fetchFrom[t] - 1 - committedTo[t]
           /\ \A k \in 1 .. Len(leasedOf[t]) :
                 /\ leasedOf[t][k] \in Lease(Len(topicLog[t]))
                 /\ leasedOf[t][k].offset = committedTo[t] + k
<1>1. /\ topicLog[t] \in Seq(WorkItems)
      /\ fetchFrom[t] \in 1 .. Len(topicLog[t]) + 1
      /\ committedTo[t] \in 0 .. Len(topicLog[t])
      /\ leasedOf[t] \in Seq(Lease(Len(topicLog[t])))
  BY DEF Logs, LogTypes, Lease
<1>2. /\ Len(leasedOf[t]) = fetchFrom[t] - 1 - committedTo[t]
      /\ \A k \in 1 .. Len(leasedOf[t]) : leasedOf[t][k].offset = committedTo[t] + k
  BY DEF Logs, LeasesRun
<1>3. Len(topicLog[t]) \in Nat /\ Len(leasedOf[t]) \in Nat
  BY <1>1
<1>4. \A k \in 1 .. Len(leasedOf[t]) : leasedOf[t][k] \in Lease(Len(topicLog[t]))
  BY <1>1, ElementOfSeq
<1>5. fetchFrom[t] \in Nat /\ committedTo[t] \in Nat
  BY <1>1, <1>3
<1> QED BY <1>1, <1>2, <1>3, <1>4, <1>5

\* A pop leases the next record.
LEMMA PopLogs ==
    ASSUME Logs, NEW t \in Topics, Pop(t)
    PROVE  /\ Logs' /\ topicLog' = topicLog /\ committedTo' = committedTo
           /\ \A u \in Topics : Acknowledged(u)' = Acknowledged(u)
           /\ fetchFrom[t] \in 1 .. Len(topicLog[t])
           /\ \A u \in Topics : fetchFrom'[u] = IF u = t THEN fetchFrom[u] + 1 ELSE fetchFrom[u]
<1> DEFINE E == Lease(Len(topicLog[t]))
           e == [offset |-> fetchFrom[t], acked |-> FALSE]
<1>1. /\ topicLog' = topicLog /\ committedTo' = committedTo
      /\ fetchFrom[t] <= Len(topicLog[t])
  BY DEF Pop
<1>2. Logged
  BY DEF Logs
<1>3. /\ \A u \in Topics : fetchFrom'[u] = IF u = t THEN fetchFrom[u] + 1 ELSE fetchFrom[u]
      /\ fetchFrom' = [u \in Topics |-> fetchFrom'[u]]
  BY <1>2 DEF Pop, Logged
<1>4. /\ \A u \in Topics : u # t => leasedOf'[u] = leasedOf[u]
      /\ leasedOf'[t] = Append(leasedOf[t], e)
      /\ leasedOf' = [u \in Topics |-> leasedOf'[u]]
  BY <1>2 DEF Pop, Logged
<1>5. /\ topicLog[t] \in Seq(WorkItems) /\ Len(topicLog[t]) \in Nat
      /\ fetchFrom[t] \in Nat /\ fetchFrom[t] \in 1 .. Len(topicLog[t]) + 1
      /\ committedTo[t] \in Nat /\ committedTo[t] \in 0 .. Len(topicLog[t])
      /\ leasedOf[t] \in Seq(E) /\ Len(leasedOf[t]) \in Nat
      /\ Len(leasedOf[t]) = fetchFrom[t] - 1 - committedTo[t]
      /\ \A k \in 1 .. Len(leasedOf[t]) : leasedOf[t][k].offset = committedTo[t] + k
  BY LogFacts
<1>6. e \in E /\ fetchFrom[t] \in 1 .. Len(topicLog[t])
  BY <1>1, <1>5 DEF Lease
<1> HIDE DEF E, e
<1>7. /\ leasedOf'[t] \in Seq(E) /\ Len(leasedOf'[t]) = Len(leasedOf[t]) + 1
      /\ leasedOf'[t][Len(leasedOf[t]) + 1] = e
      /\ \A k \in 1 .. Len(leasedOf[t]) : leasedOf'[t][k] = leasedOf[t][k]
  BY <1>4, <1>5, <1>6, AppendProperties
<1>8. Logged'
  BY <1>1, <1>2, <1>3, <1>4 DEF Logged
<1>9. ASSUME NEW u \in Topics
      PROVE  /\ topicLog'[u] \in Seq(WorkItems)
             /\ fetchFrom'[u] \in 1 .. Len(topicLog'[u]) + 1
             /\ committedTo'[u] \in 0 .. Len(topicLog'[u])
             /\ leasedOf'[u] \in Seq(Lease(Len(topicLog'[u])))
             /\ Len(leasedOf'[u]) = fetchFrom'[u] - 1 - committedTo'[u]
             /\ \A k \in 1 .. Len(leasedOf'[u]) : leasedOf'[u][k].offset = committedTo'[u] + k
             /\ Acknowledged(u)' = Acknowledged(u)
  <2>1. CASE u # t
    <3>1. Acknowledged(u)' = Acknowledged(u)
      BY <1>4, <2>1 DEF Acknowledged
    <3> QED BY <1>1, <1>3, <1>4, <2>1, <3>1, LogFacts
  <2>2. CASE u = t
    <3>1. leasedOf'[t] \in Seq(Lease(Len(topicLog'[t])))
      BY <1>1, <1>7 DEF E
    <3>2. ASSUME NEW k \in 1 .. Len(leasedOf'[t])
          PROVE  leasedOf'[t][k].offset = committedTo'[t] + k
      <4>1. CASE k = Len(leasedOf[t]) + 1
        BY <1>1, <1>5, <1>7, <4>1 DEF e
      <4>2. CASE k \in 1 .. Len(leasedOf[t])
        BY <1>1, <1>5, <1>7, <4>2
      <4> QED BY <1>5, <1>7, <4>1, <4>2
    <3>3. {j \in 1 .. Len(leasedOf'[t]) : leasedOf'[t][j].acked}
             = {j \in 1 .. Len(leasedOf[t]) : leasedOf[t][j].acked}
      BY SMTT(40), <1>5, <1>7 DEF e
    <3>4. Acknowledged(t)' = Acknowledged(t)
      BY <1>7, <3>3 DEF Acknowledged
    <3>5. Len(leasedOf'[t]) = fetchFrom'[t] - 1 - committedTo'[t]
      BY <1>1, <1>3, <1>5, <1>7
    <3>6. fetchFrom'[t] \in 1 .. Len(topicLog'[t]) + 1 /\ committedTo'[t] \in 0 .. Len(topicLog'[t])
      <4>1. topicLog'[t] = topicLog[t] /\ committedTo'[t] = committedTo[t] /\ fetchFrom'[t] = fetchFrom[t] + 1
        BY <1>1, <1>3
      <4> QED BY <1>5, <1>6, <4>1
    <3> QED BY <1>1, <1>5, <2>2, <3>1, <3>2, <3>4, <3>5, <3>6
  <2> QED BY <2>1, <2>2
<1>10. Logs'
  <2>1. LogTypes'
    BY <1>9 DEF LogTypes, Lease
  <2>2. LeasesRun'
    BY <1>9 DEF LeasesRun
  <2> QED BY <1>8, <2>1, <2>2 DEF Logs
<1> QED BY <1>1, <1>3, <1>6, <1>9, <1>10

\* The positions up to which everything holds are a run from the first on.
LEMMA FirstRun ==
    ASSUME NEW n \in Nat, NEW P \in SUBSET (1 .. n), \A k \in P : 1 .. k \subseteq P
    PROVE  Cardinality(P) \in 0 .. n /\ P = 1 .. Cardinality(P)
<1>1. IsFiniteSet(1 .. n) /\ Cardinality(1 .. n) = n
  BY FS_Interval
<1>2. IsFiniteSet(P) /\ Cardinality(P) <= n
  BY <1>1, FS_Subset
<1>3. Cardinality(P) \in Nat
  BY <1>2, FS_CardinalityType
<1> DEFINE c == Cardinality(P)
<1>4. ASSUME NEW k \in P PROVE k <= c
  <2>1. k \in Nat
    OBVIOUS
  <2>2. Cardinality(1 .. k) = k
    BY <2>1, FS_Interval
  <2> QED BY <1>2, <2>2, FS_Subset
<1>5. P \subseteq 1 .. c
  BY <1>3, <1>4
<1>6. IsFiniteSet(1 .. c) /\ Cardinality(1 .. c) = c
  BY <1>3, FS_Interval
<1>7. P = 1 .. c
  BY <1>5, <1>6, FS_Subset
<1> QED BY <1>2, <1>3, <1>7

\* An acknowledgement marks one lease and commits an acknowledged prefix.
LEMMA AckLogs ==
    ASSUME Logs, NEW t \in Topics, NEW o \in Nat, Ack(t, o)
    PROVE  /\ Logs' /\ topicLog' = topicLog /\ fetchFrom' = fetchFrom
           /\ \A u \in Topics :
                 u # t => Acknowledged(u)' = Acknowledged(u) /\ committedTo'[u] = committedTo[u]
           /\ Acknowledged(t)' \subseteq Acknowledged(t) \cup ({o} \ {0})
           /\ 1 .. committedTo'[t] \subseteq
                 (1 .. committedTo[t]) \cup Acknowledged(t) \cup ({o} \ {0})
<1> DEFINE L == leasedOf[t]
           E == Lease(Len(topicLog[t]))
           stamped == [k \in DOMAIN L |-> IF L[k].offset = o THEN [offset |-> o, acked |-> TRUE] ELSE L[k]]
           P == {k \in DOMAIN stamped : \A j \in 1 .. k : stamped[j].acked}
           n == Cardinality(P)
<1>1. /\ L \in Seq(E) /\ Len(L) \in Nat
      /\ topicLog[t] \in Seq(WorkItems) /\ Len(topicLog[t]) \in Nat
      /\ committedTo[t] \in Nat /\ fetchFrom[t] \in Nat
      /\ committedTo[t] <= Len(topicLog[t]) /\ fetchFrom[t] <= Len(topicLog[t]) + 1
      /\ Len(L) = fetchFrom[t] - 1 - committedTo[t]
      /\ \A k \in 1 .. Len(L) : L[k].offset = committedTo[t] + k /\ L[k] \in E
  BY LogFacts
<1>2. DOMAIN L = 1 .. Len(L)
  BY <1>1
<1>3. Logged
  BY DEF Logs
<1>4. /\ topicLog' = topicLog /\ fetchFrom' = fetchFrom
      /\ leasedOf' = [leasedOf EXCEPT ![t] = SubSeq(stamped, n + 1, Len(stamped))]
      /\ committedTo' = [committedTo EXCEPT ![t] = IF n = 0 THEN @ ELSE stamped[n].offset]
  BY DEF Ack
<1>5. \A k \in 1 .. Len(L) : /\ stamped[k].offset = committedTo[t] + k
                             /\ stamped[k].acked => L[k].acked \/ L[k].offset = o
                             /\ stamped[k] \in E
  <2> SUFFICES ASSUME NEW k \in 1 .. Len(L)
               PROVE  /\ stamped[k].offset = committedTo[t] + k
                      /\ stamped[k].acked => L[k].acked \/ L[k].offset = o
                      /\ stamped[k] \in E
    OBVIOUS
  <2>1. L[k].offset = committedTo[t] + k /\ L[k] \in E
    BY <1>1
  <2>2. stamped[k] = IF L[k].offset = o THEN [offset |-> o, acked |-> TRUE] ELSE L[k]
    BY <1>2
  <2>3. committedTo[t] + k \in 1 .. Len(topicLog[t])
    BY <1>1
  <2> HIDE DEF stamped
  <2>4. CASE L[k].offset = o
    BY <2>1, <2>2, <2>3, <2>4 DEF Lease
  <2>5. CASE L[k].offset # o
    BY <2>1, <2>2, <2>5
  <2> QED BY <2>4, <2>5
<1>6. DOMAIN stamped = 1 .. Len(L) /\ stamped = [k \in 1 .. Len(L) |-> stamped[k]]
  BY <1>2
<1> HIDE DEF stamped, E
<1>7. stamped \in Seq(E) /\ Len(stamped) = Len(L)
  <2>1. stamped \in [1 .. Len(L) -> E]
    BY <1>5, <1>6
  <2>2. stamped \in Seq(E)
    BY <1>1, <2>1, SeqDef
  <2>3. Len(stamped) = Len(L)
    BY <1>1, <1>6, <2>2, LenProperties
  <2> QED BY <2>2, <2>3
<1>8. n \in 0 .. Len(L) /\ P = 1 .. n
  <2>1. P = {k \in 1 .. Len(L) : \A j \in 1 .. k : stamped[j].acked}
    BY <1>6
  <2>2. P \in SUBSET (1 .. Len(L))
    BY <2>1
  <2>3. ASSUME NEW k \in P, NEW i \in 1 .. k PROVE i \in P
    <3>1. k \in 1 .. Len(L) /\ i \in 1 .. Len(L)
      BY <1>1, <2>2, <2>3
    <3>2. \A j \in 1 .. k : stamped[j].acked
      BY <2>1
    <3>3. \A j \in 1 .. i : j \in 1 .. k
      BY <3>1
    <3> QED BY <2>1, <3>1, <3>2, <3>3
  <2>4. \A k \in P : 1 .. k \subseteq P
    BY <2>3
  <2> HIDE DEF P
  <2> QED BY <1>1, <2>2, <2>4, FirstRun
<1>9. \A j \in 1 .. n : stamped[j].acked
  BY <1>8
<1> HIDE DEF P, n
<1>10. /\ leasedOf'[t] = SubSeq(stamped, n + 1, Len(L))
       /\ \A u \in Topics : u # t => leasedOf'[u] = leasedOf[u]
       /\ leasedOf' = [u \in Topics |-> leasedOf'[u]]
  BY <1>3, <1>4, <1>7 DEF Logged
<1>11. /\ committedTo'[t] = IF n = 0 THEN committedTo[t] ELSE stamped[n].offset
       /\ \A u \in Topics : u # t => committedTo'[u] = committedTo[u]
       /\ committedTo' = [u \in Topics |-> committedTo'[u]]
  BY <1>3, <1>4 DEF Logged
<1>12. committedTo'[t] = committedTo[t] + n
  BY <1>1, <1>5, <1>8, <1>11
<1>13. /\ leasedOf'[t] \in Seq(E) /\ Len(leasedOf'[t]) = Len(L) - n
       /\ \A k \in 1 .. Len(L) - n : leasedOf'[t][k] = stamped[k + n] /\ k + n \in 1 .. Len(L)
  <2>1. n + 1 \in 1 .. Len(stamped) + 1 /\ Len(stamped) \in Nat /\ Len(L) \in 0 .. Len(stamped)
    BY <1>1, <1>7, <1>8
  <2>2. /\ SubSeq(stamped, n + 1, Len(L)) \in Seq(E)
        /\ Len(SubSeq(stamped, n + 1, Len(L))) = IF n + 1 <= Len(L) THEN Len(L) - (n + 1) + 1 ELSE 0
        /\ \A k \in 1 .. Len(L) - (n + 1) + 1 :
              SubSeq(stamped, n + 1, Len(L))[k] = stamped[n + 1 + k - 1]
    BY <1>7, <2>1, SubSeqProperties
  <2>3. /\ Len(L) - (n + 1) + 1 = Len(L) - n
        /\ n + 1 > Len(L) => Len(L) - n = 0
        /\ \A k \in 1 .. Len(L) - n : n + 1 + k - 1 = k + n /\ k + n \in 1 .. Len(L)
    BY <1>1, <1>8
  <2> DEFINE S == SubSeq(stamped, n + 1, Len(L))
  <2> HIDE DEF S
  <2>4. Len(S) = Len(L) - n
    BY <1>1, <1>8, <2>2, <2>3 DEF S
  <2>5. \A k \in 1 .. Len(L) - n : S[k] = stamped[k + n]
    BY <2>2, <2>3 DEF S
  <2> QED BY <1>10, <2>2, <2>3, <2>4, <2>5 DEF S
<1>14. Logged'
  BY <1>3, <1>4, <1>10, <1>11 DEF Logged
<1>15. ASSUME NEW k \in 1 .. Len(leasedOf'[t])
       PROVE  /\ leasedOf'[t][k] = stamped[k + n] /\ k + n \in 1 .. Len(L)
              /\ leasedOf'[t][k].offset = committedTo[t] + (k + n)
  BY <1>5, <1>13
<1>16. ASSUME NEW u \in Topics
       PROVE  /\ topicLog'[u] \in Seq(WorkItems)
              /\ fetchFrom'[u] \in 1 .. Len(topicLog'[u]) + 1
              /\ committedTo'[u] \in 0 .. Len(topicLog'[u])
              /\ leasedOf'[u] \in Seq(Lease(Len(topicLog'[u])))
              /\ Len(leasedOf'[u]) = fetchFrom'[u] - 1 - committedTo'[u]
              /\ \A k \in 1 .. Len(leasedOf'[u]) : leasedOf'[u][k].offset = committedTo'[u] + k
  <2>1. CASE u # t
    BY <1>4, <1>10, <1>11, <2>1, LogFacts
  <2>2. CASE u = t
    <3>1. leasedOf'[t] \in Seq(Lease(Len(topicLog'[t])))
      BY <1>4, <1>13 DEF E
    <3>2. committedTo'[t] \in 0 .. Len(topicLog'[t])
      BY <1>1, <1>4, <1>8, <1>12
    <3>3. Len(leasedOf'[t]) = fetchFrom'[t] - 1 - committedTo'[t]
      BY SMTT(40), <1>1, <1>4, <1>8, <1>12, <1>13
    <3>4. fetchFrom'[t] \in 1 .. Len(topicLog'[t]) + 1
      BY <1>4, LogFacts
    <3>5. \A k \in 1 .. Len(leasedOf'[t]) : leasedOf'[t][k].offset = committedTo'[t] + k
      <4> SUFFICES ASSUME NEW k \in 1 .. Len(leasedOf'[t])
                   PROVE  leasedOf'[t][k].offset = committedTo'[t] + k
        OBVIOUS
      <4>1. leasedOf'[t][k].offset = committedTo[t] + (k + n)
        BY <1>15
      <4>2. k \in Int /\ n \in Int /\ committedTo[t] \in Int
        BY <1>1, <1>8, <1>13
      <4> QED BY <1>12, <4>1, <4>2
    <3> QED BY <1>1, <1>4, <2>2, <3>1, <3>2, <3>3, <3>4, <3>5
  <2> QED BY <2>1, <2>2
<1>17. Logs'
  <2>1. LogTypes'
    BY <1>16 DEF LogTypes, Lease
  <2>2. LeasesRun'
    BY <1>16 DEF LeasesRun
  <2> QED BY <1>14, <2>1, <2>2 DEF Logs
<1>18. Acknowledged(t)' \subseteq Acknowledged(t) \cup ({o} \ {0})
  <2> SUFFICES ASSUME NEW k \in 1 .. Len(leasedOf'[t]), leasedOf'[t][k].acked
               PROVE  leasedOf'[t][k].offset \in Acknowledged(t) \cup ({o} \ {0})
    BY DEF Acknowledged
  <2>1. /\ leasedOf'[t][k] = stamped[k + n] /\ k + n \in 1 .. Len(L)
        /\ leasedOf'[t][k].offset = committedTo[t] + (k + n)
    BY <1>15
  <2>2. L[k + n].acked \/ L[k + n].offset = o
    BY <1>5, <2>1
  <2>3. L[k + n].offset = committedTo[t] + (k + n) /\ committedTo[t] + (k + n) # 0
    BY SMTT(40), <1>1, <2>1
  <2> QED BY <2>1, <2>2, <2>3 DEF Acknowledged
<1>19. 1 .. committedTo'[t] \subseteq (1 .. committedTo[t]) \cup Acknowledged(t) \cup ({o} \ {0})
  <2> SUFFICES ASSUME NEW x \in 1 .. committedTo'[t], x > committedTo[t]
               PROVE  x \in Acknowledged(t) \cup ({o} \ {0})
    BY <1>1, <1>8, <1>12
  <2> DEFINE y == x - committedTo[t]
  <2>1. y \in 1 .. n /\ y \in 1 .. Len(L) /\ committedTo[t] + y = x /\ x # 0
    BY <1>1, <1>8, <1>12
  <2> HIDE DEF y
  <2>2. stamped[y].acked
    BY <1>9, <2>1
  <2>3. L[y].offset = x
    BY <1>1, <2>1
  <2>4. L[y].acked \/ L[y].offset = o
    BY <1>5, <2>1, <2>2
  <2> QED BY <2>1, <2>3, <2>4 DEF Acknowledged
<1>20. \A u \in Topics : u # t => Acknowledged(u)' = Acknowledged(u)
  BY <1>10 DEF Acknowledged
<1> QED BY <1>4, <1>11, <1>17, <1>18, <1>19, <1>20

\* A new client starts at the commits.
LEMMA RefetchLogs ==
    ASSUME Logs, Refetch
    PROVE  /\ Logs' /\ topicLog' = topicLog /\ committedTo' = committedTo
           /\ \A u \in Topics : Acknowledged(u)' = {}
           /\ \A u \in Topics : fetchFrom'[u] = committedTo[u] + 1
<1>1. /\ topicLog' = topicLog /\ committedTo' = committedTo
      /\ fetchFrom' = [u \in Topics |-> committedTo[u] + 1] /\ leasedOf' = [u \in Topics |-> <<>>]
      /\ \A u \in Topics : fetchFrom'[u] = committedTo[u] + 1 /\ leasedOf'[u] = <<>>
  BY DEF Refetch
<1>2. Logged'
  BY <1>1 DEF Logs, Logged
<1>3. ASSUME NEW u \in Topics
      PROVE  /\ topicLog'[u] \in Seq(WorkItems)
             /\ fetchFrom'[u] \in 1 .. Len(topicLog'[u]) + 1
             /\ committedTo'[u] \in 0 .. Len(topicLog'[u])
             /\ leasedOf'[u] \in Seq(Lease(Len(topicLog'[u])))
             /\ Len(leasedOf'[u]) = fetchFrom'[u] - 1 - committedTo'[u]
             /\ \A k \in 1 .. Len(leasedOf'[u]) : leasedOf'[u][k].offset = committedTo'[u] + k
  <2>1. /\ topicLog[u] \in Seq(WorkItems) /\ Len(topicLog[u]) \in Nat
        /\ committedTo[u] \in Nat /\ committedTo[u] \in 0 .. Len(topicLog[u])
    BY LogFacts
  <2>2. leasedOf'[u] = <<>> /\ Len(leasedOf'[u]) = 0
    BY <1>1
  <2>3. leasedOf'[u] \in Seq(Lease(Len(topicLog'[u])))
    BY <2>2
  <2> QED BY <1>1, <2>1, <2>2, <2>3
<1>4. Logs'
  <2>1. LogTypes'
    BY <1>3 DEF LogTypes, Lease
  <2>2. LeasesRun'
    BY <1>3 DEF LeasesRun
  <2> QED BY <1>2, <2>1, <2>2 DEF Logs
<1>5. \A u \in Topics : Acknowledged(u)' = {}
  BY <1>1 DEF Acknowledged
<1> QED BY <1>1, <1>4, <1>5

\* A push appends a copy of the item.
LEMMA StoreLogs ==
    ASSUME Logs, NEW item \in WorkItems, Store(item)
    PROVE  /\ Logs' /\ committedTo' = committedTo /\ fetchFrom' = fetchFrom
           /\ \A u \in Topics : Acknowledged(u)' = Acknowledged(u)
           /\ Len(topicLog["work"]) \in Nat
           /\ Len(topicLog'["work"]) = Len(topicLog["work"]) + 1
           /\ \A o \in 1 .. Len(topicLog["work"]) : topicLog'["work"][o] = topicLog["work"][o]
           /\ topicLog'["work"][Len(topicLog["work"]) + 1] = item
           /\ topicLog'["start"] = topicLog["start"]
           /\ \A x \in WorkItems :
                 Copies(x)' = Copies(x) \cup (IF x = item THEN {Len(topicLog["work"]) + 1} ELSE {})
<1> DEFINE N == Len(topicLog["work"])
<1>1. /\ committedTo' = committedTo /\ fetchFrom' = fetchFrom /\ leasedOf' = leasedOf
      /\ topicLog' = [topicLog EXCEPT !["work"] = Append(@, item)]
  BY DEF Store
<1>2. Logged
  BY DEF Logs
<1>3. /\ topicLog'["work"] = Append(topicLog["work"], item)
      /\ topicLog'["start"] = topicLog["start"]
      /\ topicLog' = [t \in Topics |-> topicLog'[t]]
  BY <1>1, <1>2, Topical DEF Logged
<1>4. topicLog["work"] \in Seq(WorkItems) /\ N \in Nat
  BY Topical, LogFacts
<1>5. /\ topicLog'["work"] \in Seq(WorkItems)
      /\ Len(topicLog'["work"]) = N + 1
      /\ topicLog'["work"][N + 1] = item
      /\ \A o \in 1 .. N : topicLog'["work"][o] = topicLog["work"][o]
  BY <1>3, <1>4, AppendProperties
<1>6. Logged'
  BY <1>1, <1>2, <1>3 DEF Logged
<1>7. ASSUME NEW u \in Topics
      PROVE  /\ topicLog'[u] \in Seq(WorkItems)
             /\ fetchFrom'[u] \in 1 .. Len(topicLog'[u]) + 1
             /\ committedTo'[u] \in 0 .. Len(topicLog'[u])
             /\ leasedOf'[u] \in Seq(Lease(Len(topicLog'[u])))
             /\ Len(leasedOf'[u]) = fetchFrom'[u] - 1 - committedTo'[u]
             /\ \A k \in 1 .. Len(leasedOf'[u]) : leasedOf'[u][k].offset = committedTo'[u] + k
  <2>1. /\ topicLog[u] \in Seq(WorkItems) /\ Len(topicLog[u]) \in Nat
        /\ fetchFrom[u] \in 1 .. Len(topicLog[u]) + 1
        /\ committedTo[u] \in 0 .. Len(topicLog[u])
        /\ leasedOf[u] \in Seq(Lease(Len(topicLog[u])))
        /\ Len(leasedOf[u]) = fetchFrom[u] - 1 - committedTo[u]
        /\ \A k \in 1 .. Len(leasedOf[u]) :
              /\ leasedOf[u][k] \in Lease(Len(topicLog[u]))
              /\ leasedOf[u][k].offset = committedTo[u] + k
    BY LogFacts
  <2>2. u = "work" \/ u = "start"
    BY Topical
  <2>3. topicLog'[u] \in Seq(WorkItems) /\ Len(topicLog'[u]) >= Len(topicLog[u])
    <3>1. CASE u = "work"
      BY <1>4, <1>5, <3>1
    <3>2. CASE u = "start"
      BY <1>3, <2>1, <3>2
    <3> QED BY <2>2, <3>1, <3>2
  <2>4. Len(topicLog'[u]) \in Nat
    BY <2>3
  <2>5. \A x \in Lease(Len(topicLog[u])) : x \in Lease(Len(topicLog'[u]))
    BY <2>1, <2>3, <2>4 DEF Lease
  <2>6. leasedOf[u] \in Seq(Lease(Len(topicLog'[u])))
    <3> HIDE DEF Lease
    <3> QED BY <2>1, <2>5
  <2> QED BY <1>1, <2>1, <2>3, <2>4, <2>6
<1>8. Logs'
  <2>1. LogTypes'
    BY <1>7 DEF LogTypes, Lease
  <2>2. LeasesRun'
    BY <1>7 DEF LeasesRun
  <2> QED BY <1>6, <2>1, <2>2 DEF Logs
<1>9. \A u \in Topics : Acknowledged(u)' = Acknowledged(u)
  BY <1>1 DEF Acknowledged
<1>10. ASSUME NEW x \in WorkItems
       PROVE  Copies(x)' = Copies(x) \cup (IF x = item THEN {N + 1} ELSE {})
  BY <1>4, <1>5 DEF Copies
<1> QED BY <1>1, <1>3, <1>4, <1>5, <1>8, <1>9, <1>10

\* The items of the two topics.
LEMMA ItemFacts ==
    /\ StartMessages \in Nat /\ Fruitful \subseteq 1 .. StartMessages
    /\ MaxOutages \in Nat /\ MaxReruns \in Nat /\ StartLimit \in Nat /\ IsFiniteSet(Cells)
    /\ 0 \notin WorkItems
    /\ \A m \in 1 .. StartMessages : m \in WorkItems /\ Child(m) \in WorkItems /\ m # 0
    /\ \A m, n \in 1 .. StartMessages : Child(m) # n /\ (Child(m) = Child(n) => m = n)
<1>1. StartMessages \in Nat /\ Fruitful \subseteq 1 .. StartMessages
  BY HandoverAssumption
<1> QED BY <1>1, HandoverAssumption DEF WorkItems, Child

\* What the logs have acknowledged and committed are items and records.
LEMMA AckedFacts ==
    ASSUME Logs
    PROVE  /\ Len(topicLog["start"]) = StartMessages
           /\ 1 .. committedTo["start"] \subseteq 1 .. StartMessages
           /\ Acknowledged("start") \subseteq 1 .. StartMessages
           /\ 1 .. committedTo["work"] \subseteq 1 .. Len(topicLog["work"])
           /\ Acknowledged("work") \subseteq 1 .. Len(topicLog["work"])
           /\ Len(topicLog["work"]) \in Nat /\ "start" # "work"
<1>1. Len(topicLog["start"]) = StartMessages
  BY ItemFacts DEF Logs, Logged
<1>2. ASSUME NEW t \in Topics
      PROVE  /\ 1 .. committedTo[t] \subseteq 1 .. Len(topicLog[t])
             /\ Acknowledged(t) \subseteq 1 .. Len(topicLog[t])
             /\ Len(topicLog[t]) \in Nat
  <2>1. /\ Len(topicLog[t]) \in Nat /\ committedTo[t] \in Nat /\ committedTo[t] \in 0 .. Len(topicLog[t])
        /\ \A k \in 1 .. Len(leasedOf[t]) : leasedOf[t][k] \in Lease(Len(topicLog[t]))
    BY LogFacts
  <2> QED BY <2>1 DEF Acknowledged, Lease
<1> QED BY <1>1, <1>2, Topical

\* The cells.
LEMMA CellFacts ==
    ASSUME RestTypes, NEW c \in Cells
    PROVE  /\ cell[c] \in CellTypes
           /\ cell[c].item \in WorkItems \cup {0} /\ cell[c].stage \in CellStages
           /\ cell[c].yielded \in BOOLEAN
           /\ startMessages[c] \in 0 .. StartMessages
           /\ inflightMessages[c] \in 0 .. Len(topicLog["work"])
<1>1. cell[c] \in CellTypes
  BY DEF RestTypes
<1> QED BY <1>1 DEF RestTypes, CellTypes

\* Counting: a part of a finite set, with an element more, and with one less.
LEMMA AtMost ==
    ASSUME NEW T, IsFiniteSet(T), NEW S, S \subseteq T
    PROVE  /\ IsFiniteSet(S) /\ Cardinality(S) \in Nat /\ Cardinality(T) \in Nat
           /\ Cardinality(S) <= Cardinality(T)
BY FS_Subset, FS_CardinalityType

\* One element more.
LEMMA OneMore ==
    ASSUME NEW T, IsFiniteSet(T), NEW x, NEW S, S \subseteq T \cup {x}
    PROVE  /\ IsFiniteSet(S) /\ Cardinality(S) \in Nat /\ Cardinality(T) \in Nat
           /\ Cardinality(S) <= Cardinality(T) + 1
<1>1. /\ IsFiniteSet(T \cup {x}) /\ Cardinality(T) \in Nat
      /\ Cardinality(T \cup {x}) = IF x \in T THEN Cardinality(T) ELSE Cardinality(T) + 1
  BY FS_AddElement, FS_CardinalityType
<1>2. /\ IsFiniteSet(S) /\ Cardinality(S) \in Nat
      /\ Cardinality(S) <= Cardinality(T \cup {x})
  BY <1>1, AtMost
<1> QED BY <1>1, <1>2

\* One element less.
LEMMA OneLess ==
    ASSUME NEW T, IsFiniteSet(T), NEW x \in T, NEW S, S \subseteq T \ {x}
    PROVE  /\ IsFiniteSet(S) /\ Cardinality(S) \in Nat /\ Cardinality(T) \in Nat
           /\ Cardinality(S) + 1 <= Cardinality(T)
<1>1. /\ IsFiniteSet(T \ {x}) /\ Cardinality(T) \in Nat
      /\ Cardinality(T \ {x}) = Cardinality(T) - 1
  BY FS_RemoveElement, FS_CardinalityType
<1>2. /\ IsFiniteSet(S) /\ Cardinality(S) \in Nat
      /\ Cardinality(S) <= Cardinality(T \ {x})
  BY <1>1, AtMost
<1> QED BY <1>1, <1>2

\* Everything counted is finite.
LEMMA Counted ==
    ASSUME Logs, RestTypes
    PROVE  /\ \A x \in WorkItems : /\ IsFiniteSet(Copies(x)) /\ Cardinality(Copies(x)) \in Nat
                                   /\ IsFiniteSet(Made(x)) /\ Cardinality(Made(x)) \in Nat
           /\ \A m \in 1 .. StartMessages :
                 /\ IsFiniteSet(Fetchable(m)) /\ Cardinality(Fetchable(m)) \in Nat
                 /\ IsFiniteSet(Called(m)) /\ Cardinality(Called(m)) \in Nat
           /\ Attempts \in Nat
<1>1. IsFiniteSet(1 .. Len(topicLog["work"])) /\ IsFiniteSet(Cells)
  BY SMTT(40), Topical, LogFacts, ItemFacts, FS_Interval
<1>2. ASSUME NEW x \in WorkItems
      PROVE  /\ IsFiniteSet(Copies(x)) /\ Cardinality(Copies(x)) \in Nat
             /\ IsFiniteSet(Made(x)) /\ Cardinality(Made(x)) \in Nat
  <2>1. Copies(x) \subseteq 1 .. Len(topicLog["work"]) /\ Made(x) \subseteq Cells
    BY DEF Copies, Made
  <2> QED BY <1>1, <2>1, AtMost
<1>3. ASSUME NEW m \in 1 .. StartMessages
      PROVE  /\ IsFiniteSet(Fetchable(m)) /\ Cardinality(Fetchable(m)) \in Nat
             /\ IsFiniteSet(Called(m)) /\ Cardinality(Called(m)) \in Nat
  <2>1. Fetchable(m) \subseteq Copies(m) /\ Called(m) \subseteq Cells /\ m \in WorkItems
    BY ItemFacts DEF Fetchable, Called
  <2> QED BY <1>1, <1>2, <2>1, AtMost
<1>4. Attempts \in Nat
  BY ItemFacts DEF RestTypes, Attempts
<1> QED BY <1>2, <1>3, <1>4

\* The square of the next number of attempts.
LEMMA NextSquare == \A a \in Nat : (a + 1) * (a + 1) = a * a + 2 * a + 1 /\ a * a \in Nat
OBVIOUS

\* A step that makes nothing more possible.
Offered(m) == One(taken = m) + One(fetchFrom["start"] <= m)

\* What is still to come of a start message is counted with natural numbers.
LEMMA OfferedNat == \A m : Offered(m) \in Nat /\ Coming(m) = Offered(m) + Cardinality(Made(m))
BY DEF Offered, Coming, One

\* A step that adds no copy and no call keeps the counts within their bounds.
LEMMA NoMore ==
    ASSUME Logs, RestTypes, Repeats, Attempts' = Attempts \/ Attempts' = Attempts + 1,
           \A m \in 1 .. StartMessages :
              /\ Copies(m)' \subseteq Copies(m) /\ Copies(Child(m))' \subseteq Copies(Child(m))
              /\ Made(m)' \subseteq Made(m) /\ Made(Child(m))' \subseteq Made(Child(m))
              /\ Fetchable(m)' \subseteq Fetchable(m) /\ Called(m)' \subseteq Called(m)
              /\ Offered(m)' \in Nat /\ Offered(m)' <= Offered(m)
    PROVE  Repeats'
<1> SUFFICES ASSUME NEW m \in 1 .. StartMessages
             PROVE  Begun(m)' <= Attempts' /\ Borne(m)' <= Attempts' * Attempts'
  BY DEF Repeats
<1> DEFINE k == Child(m)
<1>1. m \in WorkItems /\ k \in WorkItems
  BY ItemFacts
<1>2. /\ IsFiniteSet(Copies(m)) /\ IsFiniteSet(Copies(k)) /\ IsFiniteSet(Made(m)) /\ IsFiniteSet(Made(k))
      /\ IsFiniteSet(Fetchable(m)) /\ IsFiniteSet(Called(m)) /\ Attempts \in Nat
  BY <1>1, Counted
<1>3. Cardinality(Copies(m)') <= Cardinality(Copies(m)) /\ Cardinality(Copies(m)') \in Nat /\ Cardinality(Copies(m)) \in Nat
  BY <1>2, AtMost
<1>4. Cardinality(Copies(k)') <= Cardinality(Copies(k)) /\ Cardinality(Copies(k)') \in Nat /\ Cardinality(Copies(k)) \in Nat
  BY <1>2, AtMost
<1>5. Cardinality(Made(m)') <= Cardinality(Made(m)) /\ Cardinality(Made(m)') \in Nat /\ Cardinality(Made(m)) \in Nat
  BY <1>2, AtMost
<1>6. Cardinality(Made(k)') <= Cardinality(Made(k)) /\ Cardinality(Made(k)') \in Nat /\ Cardinality(Made(k)) \in Nat
  BY <1>2, AtMost
<1>7. Cardinality(Fetchable(m)') <= Cardinality(Fetchable(m)) /\ Cardinality(Fetchable(m)') \in Nat /\ Cardinality(Fetchable(m)) \in Nat
  BY <1>2, AtMost
<1>8. Cardinality(Called(m)') <= Cardinality(Called(m)) /\ Cardinality(Called(m)') \in Nat /\ Cardinality(Called(m)) \in Nat
  BY <1>2, AtMost
<1>9. /\ Offered(m)' <= Offered(m) /\ Offered(m)' \in Nat /\ Offered(m) \in Nat
      /\ Coming(m) = Offered(m) + Cardinality(Made(m))
      /\ Coming(m)' = Offered(m)' + Cardinality(Made(m)')
  BY OfferedNat DEF Offered, Coming
<1>10. Begun(m) <= Attempts /\ Borne(m) <= Attempts * Attempts
  BY DEF Repeats
<1>11. Begun(m)' <= Begun(m) /\ Borne(m)' <= Borne(m) /\ Begun(m)' \in Nat /\ Borne(m)' \in Nat
       /\ Begun(m) \in Nat /\ Borne(m) \in Nat
  BY <1>3, <1>4, <1>5, <1>6, <1>7, <1>8, <1>9 DEF Begun, Borne
<1>12. Attempts * Attempts <= Attempts' * Attempts' /\ Attempts <= Attempts'
       /\ Attempts * Attempts \in Nat /\ Attempts' * Attempts' \in Nat /\ Attempts' \in Nat
  BY <1>2, NextSquare
<1> QED BY <1>2, <1>10, <1>11, <1>12

\* A request made from a message or by a callback is stored: it becomes a copy.
LEMMA StoreRepeats ==
    ASSUME Logs, RestTypes, Repeats, Attempts' = Attempts \/ Attempts' = Attempts + 1,
           NEW c \in Cells, NEW x \in WorkItems, c \in Made(x), NEW n,
           \A y \in WorkItems : /\ Copies(y)' \subseteq Copies(y) \cup (IF y = x THEN {n} ELSE {})
                                /\ Made(y)' \subseteq Made(y) \ {c},
           \A m \in 1 .. StartMessages :
              /\ Fetchable(m)' \subseteq Fetchable(m) \cup (IF m = x THEN {n} ELSE {})
              /\ Called(m)' \subseteq Called(m)
              /\ Offered(m)' = Offered(m)
    PROVE  Repeats'
<1> SUFFICES ASSUME NEW m \in 1 .. StartMessages
             PROVE  Begun(m)' <= Attempts' /\ Borne(m)' <= Attempts' * Attempts'
  BY DEF Repeats
<1> DEFINE k == Child(m)
<1>1. m \in WorkItems /\ k \in WorkItems /\ m # k
  BY ItemFacts
<1>2. /\ IsFiniteSet(Copies(m)) /\ IsFiniteSet(Copies(k)) /\ IsFiniteSet(Made(m)) /\ IsFiniteSet(Made(k))
      /\ IsFiniteSet(Fetchable(m)) /\ IsFiniteSet(Called(m)) /\ Attempts \in Nat
  BY <1>1, Counted
<1>3. /\ Cardinality(Copies(m)') <= Cardinality(Copies(m)) + One(m = x)
      /\ Cardinality(Copies(m)') \in Nat /\ Cardinality(Copies(m)) \in Nat
  <2>1. CASE m = x
    <3>1. Copies(m)' \subseteq Copies(m) \cup {n}
      BY <1>1, <2>1
    <3> QED BY <1>2, <2>1, <3>1, OneMore DEF One
  <2>2. CASE m # x
    <3>1. Copies(m)' \subseteq Copies(m)
      BY <1>1, <2>2
    <3> QED BY <1>2, <2>2, <3>1, AtMost DEF One
  <2> QED BY <2>1, <2>2
<1>4. /\ Cardinality(Copies(k)') <= Cardinality(Copies(k)) + One(k = x)
      /\ Cardinality(Copies(k)') \in Nat /\ Cardinality(Copies(k)) \in Nat
  <2>1. CASE k = x
    <3>1. Copies(k)' \subseteq Copies(k) \cup {n}
      BY <1>1, <2>1
    <3> QED BY <1>2, <2>1, <3>1, OneMore DEF One
  <2>2. CASE k # x
    <3>1. Copies(k)' \subseteq Copies(k)
      BY <1>1, <2>2
    <3> QED BY <1>2, <2>2, <3>1, AtMost DEF One
  <2> QED BY <2>1, <2>2
<1>5. /\ Cardinality(Made(m)') + One(m = x) <= Cardinality(Made(m))
      /\ Cardinality(Made(m)') \in Nat /\ Cardinality(Made(m)) \in Nat
  <2>1. CASE m = x
    <3>1. Made(m)' \subseteq Made(m) \ {c} /\ c \in Made(m)
      BY <1>1, <2>1
    <3> QED BY <1>2, <2>1, <3>1, OneLess DEF One
  <2>2. CASE m # x
    <3>1. Made(m)' \subseteq Made(m)
      BY <1>1
    <3> QED BY <1>2, <2>2, <3>1, AtMost DEF One
  <2> QED BY <2>1, <2>2
<1>6. /\ Cardinality(Made(k)') + One(k = x) <= Cardinality(Made(k))
      /\ Cardinality(Made(k)') \in Nat /\ Cardinality(Made(k)) \in Nat
  <2>1. CASE k = x
    <3>1. Made(k)' \subseteq Made(k) \ {c} /\ c \in Made(k)
      BY <1>1, <2>1
    <3> QED BY <1>2, <2>1, <3>1, OneLess DEF One
  <2>2. CASE k # x
    <3>1. Made(k)' \subseteq Made(k)
      BY <1>1
    <3> QED BY <1>2, <2>2, <3>1, AtMost DEF One
  <2> QED BY <2>1, <2>2
<1>7. /\ Cardinality(Fetchable(m)') <= Cardinality(Fetchable(m)) + One(m = x)
      /\ Cardinality(Fetchable(m)') \in Nat /\ Cardinality(Fetchable(m)) \in Nat
  <2>1. CASE m = x
    <3>1. Fetchable(m)' \subseteq Fetchable(m) \cup {n}
      BY <2>1
    <3> QED BY <1>2, <2>1, <3>1, OneMore DEF One
  <2>2. CASE m # x
    <3>1. Fetchable(m)' \subseteq Fetchable(m)
      BY <2>2
    <3> QED BY <1>2, <2>2, <3>1, AtMost DEF One
  <2> QED BY <2>1, <2>2
<1>8. Cardinality(Called(m)') <= Cardinality(Called(m)) /\ Cardinality(Called(m)') \in Nat /\ Cardinality(Called(m)) \in Nat
  BY <1>2, AtMost
<1>9. /\ Offered(m)' = Offered(m) /\ Offered(m) \in Nat
      /\ Coming(m) = Offered(m) + Cardinality(Made(m))
      /\ Coming(m)' = Offered(m)' + Cardinality(Made(m)')
  BY OfferedNat DEF Offered, Coming
<1>10. Begun(m) <= Attempts /\ Borne(m) <= Attempts * Attempts
  BY DEF Repeats
<1>11. One(m = x) \in Nat /\ One(k = x) \in Nat
  BY DEF One
<1>12. /\ Begun(m)' <= Begun(m) /\ Borne(m)' <= Borne(m) /\ Begun(m)' \in Nat /\ Borne(m)' \in Nat
       /\ Begun(m) \in Nat /\ Borne(m) \in Nat
  <2> HIDE DEF k
  <2>1. /\ Begun(m) = Cardinality(Copies(m)) + Coming(m)
        /\ Begun(m)' = Cardinality(Copies(m)') + Coming(m)'
    BY DEF Begun
  <2>2. /\ Borne(m) = Cardinality(Copies(k)) + Cardinality(Made(k))
                        + Cardinality(Fetchable(m)) + Cardinality(Called(m)) + Coming(m)
        /\ Borne(m)' = Cardinality(Copies(k)') + Cardinality(Made(k)')
                        + Cardinality(Fetchable(m)') + Cardinality(Called(m)') + Coming(m)'
    BY DEF Borne, k
  <2> QED BY <1>3, <1>4, <1>5, <1>6, <1>7, <1>8, <1>9, <1>11, <2>1, <2>2
<1>13. Attempts * Attempts <= Attempts' * Attempts' /\ Attempts <= Attempts'
       /\ Attempts * Attempts \in Nat /\ Attempts' * Attempts' \in Nat /\ Attempts' \in Nat
  BY <1>2, NextSquare
<1> QED BY <1>2, <1>10, <1>12, <1>13

\* A new client fetches again from the committed position: one attempt more.
LEMMA ReplaceClientKeeps ==
    ASSUME HandoverIInv, ReplaceClient
    PROVE HandoverIInv'
<1>1. /\ Logs /\ RestTypes /\ StartsLeft /\ AckedDone /\ StartCarriedOver
      /\ WorkCarriedOut /\ CellsRecorded /\ YieldedCarried /\ Repeats
  BY DEF HandoverIInv
<1>2. /\ life = "running" /\ life' = "running"
      /\ outages' = outages + 1 /\ reruns' = reruns
      /\ outages < MaxOutages /\ Refetch
      /\ taken' = taken /\ yieldedStarts' = yieldedStarts
      /\ cell' = cell /\ startMessages' = startMessages /\ inflightMessages' = inflightMessages
      /\ processed' = processed /\ refused' = refused
  BY <1>1 DEF ReplaceClient, Outage, producer, records, outcomes
<1>3. /\ Logs' /\ topicLog' = topicLog /\ committedTo' = committedTo
      /\ \A u \in Topics : Acknowledged(u)' = {}
      /\ \A u \in Topics : fetchFrom'[u] = committedTo[u] + 1
  BY <1>1, <1>2, RefetchLogs
<1>4. \A x \in WorkItems : Carried(x)' <=> Carried(x)
  BY <1>2, <1>3 DEF Carried, Copies
<1>5. Logs'
  BY <1>3
<1>6. RestTypes'
  BY <1>1, <1>2, <1>3, ItemFacts DEF RestTypes
<1>7. StartsLeft'
  BY <1>1, <1>2 DEF StartsLeft
<1>8. AckedDone'
  BY <1>3, Topical DEF AckedDone
<1>9. StartCarriedOver'
  BY <1>1, <1>2, <1>3 DEF StartCarriedOver, Copies
<1>10. WorkCarriedOut'
  BY <1>1, <1>2, <1>3 DEF WorkCarriedOut, Copies
<1>11. CellsRecorded'
  BY <1>1, <1>2, <1>3 DEF CellsRecorded, Copies
<1>12. YieldedCarried'
  BY <1>1, <1>2, <1>3 DEF YieldedCarried, Carried, Copies
<1>13. Repeats'
  <2> SUFFICES ASSUME NEW m \in 1 .. StartMessages
               PROVE  Begun(m)' <= Attempts' /\ Borne(m)' <= Attempts' * Attempts'
    BY DEF Repeats
  <2> DEFINE k == Child(m)
  <2>1. m \in WorkItems /\ k \in WorkItems
    BY ItemFacts
  <2>2. /\ Copies(m)' = Copies(m) /\ Copies(k)' = Copies(k) /\ Made(m)' = Made(m)
        /\ Made(k)' = Made(k) /\ Called(m)' = Called(m)
    BY <1>2, <1>3 DEF Copies, Made, Called
  <2>3. /\ IsFiniteSet(Copies(m)) /\ Cardinality(Copies(m)) \in Nat /\ Cardinality(Made(m)) \in Nat
        /\ Cardinality(Copies(k)) \in Nat /\ Cardinality(Made(k)) \in Nat
        /\ Cardinality(Called(m)) \in Nat /\ Cardinality(Fetchable(m)) \in Nat /\ Attempts \in Nat
    BY <1>1, <2>1, Counted
  <2>4. Fetchable(m)' \subseteq Copies(m)
    BY <2>2 DEF Fetchable
  <2>5. Cardinality(Fetchable(m)') \in Nat /\ Cardinality(Fetchable(m)') <= Cardinality(Copies(m))
    BY <2>3, <2>4, AtMost
  <2>6. /\ Coming(m) \in Nat /\ Coming(m)' \in Nat /\ Coming(m)' <= Coming(m) + 1
    BY <1>2, <2>2, <2>3 DEF Coming, One
  <2>7. Attempts' = Attempts + 1
    BY <1>1, <1>2, ItemFacts DEF Attempts, RestTypes
  <2>8. Begun(m) <= Attempts /\ Borne(m) <= Attempts * Attempts
    BY <1>1 DEF Repeats
  <2>9. /\ Begun(m) = Cardinality(Copies(m)) + Coming(m)
        /\ Begun(m)' = Cardinality(Copies(m)) + Coming(m)'
    BY <2>2 DEF Begun
  <2>10. /\ Borne(m)' <= Borne(m) + Attempts + 1 /\ Borne(m) \in Nat /\ Borne(m)' \in Nat
    BY <2>2, <2>3, <2>5, <2>6, <2>8, <2>9 DEF Borne
  <2>11. Attempts' * Attempts' = Attempts * Attempts + 2 * Attempts + 1 /\ Attempts * Attempts \in Nat
    BY <2>3, <2>7, NextSquare
  <2> QED BY <2>3, <2>6, <2>7, <2>8, <2>9, <2>10, <2>11
<1> QED
  BY <1>5, <1>6, <1>7, <1>8, <1>9, <1>10, <1>11, <1>12, <1>13 DEF HandoverIInv

\* A new run fetches again from the committed position: one attempt more.
LEMMA RerunKeeps ==
    ASSUME HandoverIInv, Rerun
    PROVE HandoverIInv'
<1>1. /\ Logs /\ RestTypes /\ StartsLeft /\ AckedDone /\ StartCarriedOver
      /\ WorkCarriedOut /\ CellsRecorded /\ YieldedCarried /\ Repeats
  BY DEF HandoverIInv
<1>2. /\ life = "down" /\ life' = "running"
      /\ reruns' = reruns + 1 /\ outages' = outages
      /\ reruns < MaxReruns /\ Refetch
      /\ taken' = taken /\ yieldedStarts' = yieldedStarts
      /\ cell' = cell /\ startMessages' = startMessages /\ inflightMessages' = inflightMessages
      /\ processed' = processed /\ refused' = refused
  BY <1>1 DEF Rerun, Outage, producer, records, outcomes
<1>3. /\ Logs' /\ topicLog' = topicLog /\ committedTo' = committedTo
      /\ \A u \in Topics : Acknowledged(u)' = {}
      /\ \A u \in Topics : fetchFrom'[u] = committedTo[u] + 1
  BY <1>1, <1>2, RefetchLogs
<1>4. \A x \in WorkItems : Carried(x)' <=> Carried(x)
  BY <1>2, <1>3 DEF Carried, Copies
<1>5. Logs'
  BY <1>3
<1>6. RestTypes'
  BY <1>1, <1>2, <1>3, ItemFacts DEF RestTypes
<1>7. StartsLeft'
  BY <1>1, <1>2 DEF StartsLeft
<1>8. AckedDone'
  BY <1>3, Topical DEF AckedDone
<1>9. StartCarriedOver'
  BY <1>1, <1>2, <1>3 DEF StartCarriedOver, Copies
<1>10. WorkCarriedOut'
  BY <1>1, <1>2, <1>3 DEF WorkCarriedOut, Copies
<1>11. CellsRecorded'
  BY <1>1, <1>2, <1>3 DEF CellsRecorded, Copies
<1>12. YieldedCarried'
  BY <1>1, <1>2, <1>3 DEF YieldedCarried, Carried, Copies
<1>13. Repeats'
  <2> SUFFICES ASSUME NEW m \in 1 .. StartMessages
               PROVE  Begun(m)' <= Attempts' /\ Borne(m)' <= Attempts' * Attempts'
    BY DEF Repeats
  <2> DEFINE k == Child(m)
  <2>1. m \in WorkItems /\ k \in WorkItems
    BY ItemFacts
  <2>2. /\ Copies(m)' = Copies(m) /\ Copies(k)' = Copies(k) /\ Made(m)' = Made(m)
        /\ Made(k)' = Made(k) /\ Called(m)' = Called(m)
    BY <1>2, <1>3 DEF Copies, Made, Called
  <2>3. /\ IsFiniteSet(Copies(m)) /\ Cardinality(Copies(m)) \in Nat /\ Cardinality(Made(m)) \in Nat
        /\ Cardinality(Copies(k)) \in Nat /\ Cardinality(Made(k)) \in Nat
        /\ Cardinality(Called(m)) \in Nat /\ Cardinality(Fetchable(m)) \in Nat /\ Attempts \in Nat
    BY <1>1, <2>1, Counted
  <2>4. Fetchable(m)' \subseteq Copies(m)
    BY <2>2 DEF Fetchable
  <2>5. Cardinality(Fetchable(m)') \in Nat /\ Cardinality(Fetchable(m)') <= Cardinality(Copies(m))
    BY <2>3, <2>4, AtMost
  <2>6. /\ Coming(m) \in Nat /\ Coming(m)' \in Nat /\ Coming(m)' <= Coming(m) + 1
    BY <1>2, <2>2, <2>3 DEF Coming, One
  <2>7. Attempts' = Attempts + 1
    BY <1>1, <1>2, ItemFacts DEF Attempts, RestTypes
  <2>8. Begun(m) <= Attempts /\ Borne(m) <= Attempts * Attempts
    BY <1>1 DEF Repeats
  <2>9. /\ Begun(m) = Cardinality(Copies(m)) + Coming(m)
        /\ Begun(m)' = Cardinality(Copies(m)) + Coming(m)'
    BY <2>2 DEF Begun
  <2>10. /\ Borne(m)' <= Borne(m) + Attempts + 1 /\ Borne(m) \in Nat /\ Borne(m)' \in Nat
    BY <2>2, <2>3, <2>5, <2>6, <2>8, <2>9 DEF Borne
  <2>11. Attempts' * Attempts' = Attempts * Attempts + 2 * Attempts + 1 /\ Attempts * Attempts \in Nat
    BY <2>3, <2>7, NextSquare
  <2> QED BY <2>3, <2>6, <2>7, <2>8, <2>9, <2>10, <2>11
<1> QED
  BY <1>5, <1>6, <1>7, <1>8, <1>9, <1>10, <1>11, <1>12, <1>13 DEF HandoverIInv

\* A start message is fetched and leased.
LEMMA GetStartReqKeeps ==
    ASSUME HandoverIInv, GetStartReq
    PROVE HandoverIInv'
<1>1. /\ Logs /\ RestTypes /\ StartsLeft /\ AckedDone /\ StartCarriedOver
      /\ WorkCarriedOut /\ CellsRecorded /\ YieldedCarried /\ Repeats
  BY DEF HandoverIInv
<1>2. /\ life = "running" /\ life' = life /\ outages' = outages /\ reruns' = reruns
      /\ taken = 0 /\ taken' = fetchFrom["start"] /\ yieldedStarts' = yieldedStarts /\ Pop("start")
      /\ yieldedStarts < StartLimit
      /\ cell' = cell /\ startMessages' = startMessages /\ inflightMessages' = inflightMessages
      /\ processed' = processed /\ refused' = refused
  BY <1>1 DEF GetStartReq, records, outcomes
<1>3. /\ Logs' /\ topicLog' = topicLog /\ committedTo' = committedTo
      /\ \A u \in Topics : Acknowledged(u)' = Acknowledged(u)
      /\ fetchFrom["start"] \in 1 .. Len(topicLog["start"])
      /\ \A u \in Topics : fetchFrom'[u] = IF u = "start" THEN fetchFrom[u] + 1 ELSE fetchFrom[u]
  BY <1>1, <1>2, Topical, PopLogs
<1>4. Len(topicLog["start"]) = StartMessages
  BY <1>1, ItemFacts DEF Logs, Logged
<1>5. Logs'
  BY <1>3
<1>6. RestTypes'
  BY <1>1, <1>2, <1>3, <1>4, ItemFacts DEF RestTypes
<1>7. StartsLeft'
  BY <1>1, <1>2 DEF StartsLeft
<1>8. AckedDone'
  BY <1>1, <1>2, <1>3, Topical DEF AckedDone, Carried, Copies
<1>9. StartCarriedOver'
  BY <1>1, <1>2, <1>3 DEF StartCarriedOver, Copies
<1>10. WorkCarriedOut'
  BY <1>1, <1>2, <1>3 DEF WorkCarriedOut, Copies
<1>11. CellsRecorded'
  BY <1>1, <1>2, <1>3 DEF CellsRecorded, Copies
<1>12. YieldedCarried'
  BY <1>1, <1>2, <1>3 DEF YieldedCarried, Carried, Copies
<1>13. Repeats'
  <2>1. ASSUME NEW m \in 1 .. StartMessages
        PROVE  /\ Copies(m)' \subseteq Copies(m) /\ Copies(Child(m))' \subseteq Copies(Child(m))
               /\ Made(m)' \subseteq Made(m) /\ Made(Child(m))' \subseteq Made(Child(m))
               /\ Fetchable(m)' \subseteq Fetchable(m) /\ Called(m)' \subseteq Called(m)
               /\ Offered(m)' \in Nat /\ Offered(m)' <= Offered(m)
    <3>1. /\ Copies(m)' = Copies(m) /\ Copies(Child(m))' = Copies(Child(m))
      BY <1>2, <1>3 DEF Copies
    <3>2. /\ Made(m)' \subseteq Made(m) /\ Made(Child(m))' \subseteq Made(Child(m))
          /\ Called(m)' \subseteq Called(m)
      BY <1>2, ItemFacts DEF Made, Called, Vacant, Holding
    <3>3. Fetchable(m)' \subseteq Fetchable(m)
      BY <1>1, <1>3, <3>1, Topical, LogFacts DEF Fetchable, Copies
    <3>4. Offered(m)' \in Nat /\ Offered(m)' <= Offered(m)
      <4>1. fetchFrom["start"] \in Nat /\ fetchFrom'["start"] \in {fetchFrom["start"], fetchFrom["start"] + 1}
        BY <1>1, <1>3, Topical, LogFacts, AckedFacts
      <4> QED BY <1>2, <1>3, <4>1, Topical, ItemFacts DEF Offered, One
    <3> QED BY <3>1, <3>2, <3>3, <3>4
  <2>2. Attempts' = Attempts \/ Attempts' = Attempts + 1
    BY <1>1, <1>2, ItemFacts DEF Attempts, RestTypes
  <2> QED BY <1>1, <2>1, <2>2, NoMore
<1> QED
  BY <1>5, <1>6, <1>7, <1>8, <1>9, <1>10, <1>11, <1>12, <1>13 DEF HandoverIInv

\* A start message that makes no request is acknowledged.
LEMMA AckStartReqKeeps ==
    ASSUME HandoverIInv, AckStartReq
    PROVE HandoverIInv'
<1>1. /\ Logs /\ RestTypes /\ StartsLeft /\ AckedDone /\ StartCarriedOver
      /\ WorkCarriedOut /\ CellsRecorded /\ YieldedCarried /\ Repeats
  BY DEF HandoverIInv
<1>2. /\ life = "running" /\ life' = life /\ outages' = outages /\ reruns' = reruns
      /\ taken # 0 /\ taken' = 0 /\ yieldedStarts' = yieldedStarts /\ Ack("start", taken)
      /\ cell' = cell /\ startMessages' = startMessages /\ inflightMessages' = inflightMessages
      /\ processed' = processed /\ refused' = refused \cup {taken}
      /\ taken \in Nat /\ taken \in 1 .. StartMessages /\ taken \in WorkItems
  BY <1>1, ItemFacts DEF AckStartReq, records, RestTypes
<1>3. /\ Logs' /\ topicLog' = topicLog /\ fetchFrom' = fetchFrom
      /\ \A u \in Topics :
            u # "start" => Acknowledged(u)' = Acknowledged(u) /\ committedTo'[u] = committedTo[u]
      /\ Acknowledged("start")' \subseteq Acknowledged("start") \cup ({taken} \ {0})
      /\ 1 .. committedTo'["start"] \subseteq
            (1 .. committedTo["start"]) \cup Acknowledged("start") \cup ({taken} \ {0})
  BY <1>1, <1>2, Topical, ItemFacts, AckLogs
<1>4. \A x \in WorkItems : Carried(x) => Carried(x)'
  BY <1>2, <1>3 DEF Carried, Copies
<1>5. Acknowledged("start") \subseteq WorkItems
  BY <1>1, AckedFacts, ItemFacts
<1>6. Logs'
  BY <1>3
<1>7. RestTypes'
  BY <1>1, <1>2, <1>3, ItemFacts DEF RestTypes
<1>8. StartsLeft'
  BY <1>1, <1>2 DEF StartsLeft
<1>9. AckedDone'
  <2>1. taken \in refused'
    BY <1>2
  <2> QED BY <1>1, <1>2, <1>3, <1>4, <1>5, <2>1, Topical, AckedFacts DEF AckedDone, Carried
<1>10. StartCarriedOver'
  <2>1. taken \in refused'
    BY <1>2
  <2>2. \A m \in 1 .. committedTo["start"] : Carried(m) /\ m \in WorkItems
    BY <1>1, AckedFacts, ItemFacts DEF StartCarriedOver, Carried
  <2>3. \A m \in 1 .. committedTo'["start"] : Carried(m)'
    <3> SUFFICES ASSUME NEW m \in 1 .. committedTo'["start"]
                 PROVE  Carried(m)'
      OBVIOUS
    <3>1. m \in 1 .. committedTo["start"] \/ m \in Acknowledged("start") \/ m = taken
      BY <1>3
    <3>2. m = taken => Carried(m)'
      BY <2>1 DEF Carried
    <3>3. m \in 1 .. committedTo["start"] \/ m \in Acknowledged("start") => Carried(m) /\ m \in WorkItems
      BY <1>1, <1>5, <2>2 DEF AckedDone
    <3> QED BY <1>4, <3>1, <3>2, <3>3
  <2> QED BY <2>3 DEF StartCarriedOver, Carried
<1>11. WorkCarriedOut'
  <2>1. /\ committedTo'["work"] = committedTo["work"] /\ processed' = processed
        /\ topicLog'["work"] = topicLog["work"]
    BY <1>1, <1>2, <1>3, Topical, AckedFacts
  <2>2. \A o \in processed, m \in Fruitful : topicLog["work"][o] = m => Carried(Child(m))
    BY <1>1 DEF WorkCarriedOut, Carried
  <2>3. \A o \in processed, m \in Fruitful : topicLog["work"][o] = m => Carried(Child(m))'
    BY <1>4, <2>2, ItemFacts
  <2>4. 1 .. committedTo'["work"] \subseteq processed'
    BY <1>1, <2>1 DEF WorkCarriedOut
  <2> QED BY <2>1, <2>3, <2>4 DEF WorkCarriedOut, Carried
<1>12. CellsRecorded'
  BY <1>1, <1>2, <1>3 DEF CellsRecorded, Copies
<1>13. YieldedCarried'
  BY <1>1, <1>2, <1>3 DEF YieldedCarried, Carried, Copies
<1>14. Repeats'
  <2>1. ASSUME NEW m \in 1 .. StartMessages
        PROVE  /\ Copies(m)' \subseteq Copies(m) /\ Copies(Child(m))' \subseteq Copies(Child(m))
               /\ Made(m)' \subseteq Made(m) /\ Made(Child(m))' \subseteq Made(Child(m))
               /\ Fetchable(m)' \subseteq Fetchable(m) /\ Called(m)' \subseteq Called(m)
               /\ Offered(m)' \in Nat /\ Offered(m)' <= Offered(m)
    <3>1. /\ Copies(m)' = Copies(m) /\ Copies(Child(m))' = Copies(Child(m))
      BY <1>2, <1>3 DEF Copies
    <3>2. /\ Made(m)' \subseteq Made(m) /\ Made(Child(m))' \subseteq Made(Child(m))
          /\ Called(m)' \subseteq Called(m)
      BY <1>2, ItemFacts DEF Made, Called, Vacant, Holding
    <3>3. Fetchable(m)' \subseteq Fetchable(m)
      BY <1>1, <1>3, <3>1, Topical, LogFacts DEF Fetchable, Copies
    <3>4. Offered(m)' \in Nat /\ Offered(m)' <= Offered(m)
      <4>1. fetchFrom["start"] \in Nat /\ fetchFrom'["start"] \in {fetchFrom["start"], fetchFrom["start"] + 1}
        BY <1>1, <1>3, Topical, LogFacts, AckedFacts
      <4> QED BY <1>2, <1>3, <4>1, Topical, ItemFacts DEF Offered, One
    <3> QED BY <3>1, <3>2, <3>3, <3>4
  <2>2. Attempts' = Attempts \/ Attempts' = Attempts + 1
    BY <1>1, <1>2, ItemFacts DEF Attempts, RestTypes
  <2> QED BY <1>1, <2>1, <2>2, NoMore
<1> QED
  BY <1>6, <1>7, <1>8, <1>9, <1>10, <1>11, <1>12, <1>13, <1>14 DEF HandoverIInv

\* A stored request is fetched and leased, and no request is made of it.
LEMMA GetFailsKeeps ==
    ASSUME HandoverIInv, GetFails
    PROVE HandoverIInv'
<1>1. /\ Logs /\ RestTypes /\ StartsLeft /\ AckedDone /\ StartCarriedOver
      /\ WorkCarriedOut /\ CellsRecorded /\ YieldedCarried /\ Repeats
  BY DEF HandoverIInv
<1>2. /\ life = "running" /\ life' = life /\ outages' = outages + 1 /\ outages < MaxOutages /\ reruns' = reruns
      /\ taken' = taken /\ yieldedStarts' = yieldedStarts /\ Pop("work")
      /\ cell' = cell /\ startMessages' = startMessages /\ inflightMessages' = inflightMessages
      /\ processed' = processed /\ refused' = refused
  BY <1>1 DEF GetFails, Outage, producer, records, outcomes
<1>3. /\ Logs' /\ topicLog' = topicLog /\ committedTo' = committedTo
      /\ \A u \in Topics : Acknowledged(u)' = Acknowledged(u)
      /\ fetchFrom["work"] \in 1 .. Len(topicLog["work"])
      /\ \A u \in Topics : fetchFrom'[u] = IF u = "work" THEN fetchFrom[u] + 1 ELSE fetchFrom[u]
  BY <1>1, <1>2, Topical, PopLogs
<1>4. Logs'
  BY <1>3
<1>5. RestTypes'
  BY <1>1, <1>2, <1>3, ItemFacts DEF RestTypes
<1>6. StartsLeft'
  BY <1>1, <1>2 DEF StartsLeft
<1>7. AckedDone'
  BY <1>1, <1>2, <1>3, Topical DEF AckedDone, Carried, Copies
<1>8. StartCarriedOver'
  BY <1>1, <1>2, <1>3 DEF StartCarriedOver, Copies
<1>9. WorkCarriedOut'
  BY <1>1, <1>2, <1>3 DEF WorkCarriedOut, Copies
<1>10. CellsRecorded'
  BY <1>1, <1>2, <1>3 DEF CellsRecorded, Copies
<1>11. YieldedCarried'
  BY <1>1, <1>2, <1>3 DEF YieldedCarried, Carried, Copies
<1>12. Repeats'
  <2>1. ASSUME NEW m \in 1 .. StartMessages
        PROVE  /\ Copies(m)' \subseteq Copies(m) /\ Copies(Child(m))' \subseteq Copies(Child(m))
               /\ Made(m)' \subseteq Made(m) /\ Made(Child(m))' \subseteq Made(Child(m))
               /\ Fetchable(m)' \subseteq Fetchable(m) /\ Called(m)' \subseteq Called(m)
               /\ Offered(m)' \in Nat /\ Offered(m)' <= Offered(m)
    <3>1. /\ Copies(m)' = Copies(m) /\ Copies(Child(m))' = Copies(Child(m))
      BY <1>2, <1>3 DEF Copies
    <3>2. /\ Made(m)' \subseteq Made(m) /\ Made(Child(m))' \subseteq Made(Child(m))
          /\ Called(m)' \subseteq Called(m)
      BY <1>2, ItemFacts DEF Made, Called, Vacant, Holding
    <3>3. Fetchable(m)' \subseteq Fetchable(m)
      BY <1>1, <1>3, <3>1, Topical, LogFacts DEF Fetchable, Copies
    <3>4. Offered(m)' \in Nat /\ Offered(m)' <= Offered(m)
      <4>1. fetchFrom["start"] \in Nat /\ fetchFrom'["start"] \in {fetchFrom["start"], fetchFrom["start"] + 1}
        BY <1>1, <1>3, Topical, LogFacts, AckedFacts
      <4> QED BY <1>2, <1>3, <4>1, Topical, ItemFacts DEF Offered, One
    <3> QED BY <3>1, <3>2, <3>3, <3>4
  <2>2. Attempts' = Attempts \/ Attempts' = Attempts + 1
    BY <1>1, <1>2, ItemFacts DEF Attempts, RestTypes
  <2> QED BY <1>1, <2>1, <2>2, NoMore
<1> QED
  BY <1>4, <1>5, <1>6, <1>7, <1>8, <1>9, <1>10, <1>11, <1>12 DEF HandoverIInv

\* The process ends: what it held in memory is gone, the logs are not.
LEMMA StopCrawlerKeeps ==
    ASSUME HandoverIInv, StopCrawler
    PROVE HandoverIInv'
<1>1. /\ Logs /\ RestTypes /\ StartsLeft /\ AckedDone /\ StartCarriedOver
      /\ WorkCarriedOut /\ CellsRecorded /\ YieldedCarried /\ Repeats
  BY DEF HandoverIInv
<1>2. /\ life = "running" /\ life' \in {"down", "deleted"} /\ outages' = outages /\ reruns' = reruns
      /\ taken' = 0 /\ yieldedStarts' = 0
      /\ \A d \in Cells : cell'[d] = Vacant /\ startMessages'[d] = 0 /\ inflightMessages'[d] = 0
      /\ cell' = [d \in Cells |-> Vacant] /\ startMessages' = [d \in Cells |-> 0]
      /\ inflightMessages' = [d \in Cells |-> 0]
      /\ processed' = processed /\ refused' = refused
  BY <1>1 DEF StopCrawler, outcomes
<1>3. /\ Logs' /\ topicLog' = topicLog /\ committedTo' = committedTo /\ fetchFrom' = fetchFrom
      /\ \A u \in Topics : Acknowledged(u)' = Acknowledged(u)
  <2>1. /\ topicLog' = topicLog /\ committedTo' = committedTo /\ fetchFrom' = fetchFrom
        /\ leasedOf' = leasedOf
    BY <1>1 DEF StopCrawler, logs
  <2>2. LogTypes' /\ LeasesRun'
    BY <1>1, <2>1 DEF Logs, LogTypes, LeasesRun
  <2>3. Logged'
    BY <1>1, <2>1 DEF Logs, Logged
  <2>4. \A u \in Topics : Acknowledged(u)' = Acknowledged(u)
    BY <2>1 DEF Acknowledged
  <2> QED BY <2>1, <2>2, <2>3, <2>4 DEF Logs
<1>4. Logs'
  BY <1>3
<1>5. RestTypes'
  <2>1. Len(topicLog["work"]) \in Nat
    BY <1>1, Topical, LogFacts
  <2>2. Vacant \in CellTypes
    BY DEF Vacant, Holding, CellTypes, CellStages
  <2> QED BY <1>1, <1>2, <1>3, <2>1, <2>2, ItemFacts DEF RestTypes
<1>6. StartsLeft'
  BY <1>1, <1>2 DEF StartsLeft
<1>7. AckedDone'
  BY <1>1, <1>2, <1>3, Topical DEF AckedDone, Carried, Copies
<1>8. StartCarriedOver'
  BY <1>1, <1>2, <1>3 DEF StartCarriedOver, Copies
<1>9. WorkCarriedOut'
  BY <1>1, <1>2, <1>3 DEF WorkCarriedOut, Copies
<1>10. CellsRecorded'
  BY <1>2 DEF CellsRecorded, Vacant, Holding
<1>11. YieldedCarried'
  BY <1>2 DEF YieldedCarried, Vacant, Holding
<1>12. Repeats'
  <2>1. ASSUME NEW m \in 1 .. StartMessages
        PROVE  /\ Copies(m)' \subseteq Copies(m) /\ Copies(Child(m))' \subseteq Copies(Child(m))
               /\ Made(m)' \subseteq Made(m) /\ Made(Child(m))' \subseteq Made(Child(m))
               /\ Fetchable(m)' \subseteq Fetchable(m) /\ Called(m)' \subseteq Called(m)
               /\ Offered(m)' \in Nat /\ Offered(m)' <= Offered(m)
    <3>1. /\ Copies(m)' = Copies(m) /\ Copies(Child(m))' = Copies(Child(m))
      BY <1>2, <1>3 DEF Copies
    <3>2. /\ Made(m)' \subseteq Made(m) /\ Made(Child(m))' \subseteq Made(Child(m))
          /\ Called(m)' \subseteq Called(m)
      BY <1>2, ItemFacts DEF Made, Called, Vacant, Holding
    <3>3. Fetchable(m)' \subseteq Fetchable(m)
      BY <1>1, <1>3, <3>1, Topical, LogFacts DEF Fetchable, Copies
    <3>4. Offered(m)' \in Nat /\ Offered(m)' <= Offered(m)
      <4>1. fetchFrom["start"] \in Nat /\ fetchFrom'["start"] \in {fetchFrom["start"], fetchFrom["start"] + 1}
        BY <1>1, <1>3, Topical, LogFacts, AckedFacts
      <4> QED BY <1>2, <1>3, <4>1, Topical, ItemFacts DEF Offered, One
    <3> QED BY <3>1, <3>2, <3>3, <3>4
  <2>2. Attempts' = Attempts \/ Attempts' = Attempts + 1
    BY <1>1, <1>2, ItemFacts DEF Attempts, RestTypes
  <2> QED BY <1>1, <2>1, <2>2, NoMore
<1> QED
  BY <1>4, <1>5, <1>6, <1>7, <1>8, <1>9, <1>10, <1>11, <1>12 DEF HandoverIInv

\* A request is made of the leased start message.
LEMMA AttachStartReqKeeps ==
    ASSUME HandoverIInv, NEW c \in Cells, AttachStartReq(c)
    PROVE HandoverIInv'
<1>1. /\ Logs /\ RestTypes /\ StartsLeft /\ AckedDone /\ StartCarriedOver
      /\ WorkCarriedOut /\ CellsRecorded /\ YieldedCarried /\ Repeats
  BY DEF HandoverIInv
<1>2. /\ life = "running" /\ life' = life /\ outages' = outages /\ reruns' = reruns
      /\ taken # 0 /\ taken' = 0 /\ yieldedStarts' = yieldedStarts + 1
      /\ inflightMessages' = inflightMessages
      /\ processed' = processed /\ refused' = refused
      /\ cell[c].stage = "free"
      /\ \A x \in Cells : cell'[x] = IF x = c THEN [item |-> taken, stage |-> "made", yielded |-> FALSE] ELSE cell[x]
      /\ \A x \in Cells : startMessages'[x] = IF x = c THEN taken ELSE startMessages[x]
      /\ cell' = [cell EXCEPT ![c] = [item |-> taken, stage |-> "made", yielded |-> FALSE]]
      /\ startMessages' = [startMessages EXCEPT ![c] = taken]
      /\ taken \in 1 .. StartMessages /\ taken \in WorkItems
  <2> DEFINE v == [item |-> taken, stage |-> "made", yielded |-> FALSE]
  <2>1. Holding(taken, "made") = v
    BY DEF Holding, v
  <2> HIDE DEF v
  <2>2. /\ cell' = [cell EXCEPT ![c] = v] /\ startMessages' = [startMessages EXCEPT ![c] = taken]
        /\ cell[c].stage = "free" /\ taken # 0
    BY <1>1, <2>1 DEF AttachStartReq, Usable
  <2>3. /\ \A x \in Cells : cell'[x] = IF x = c THEN v ELSE cell[x]
        /\ \A x \in Cells : startMessages'[x] = IF x = c THEN taken ELSE startMessages[x]
        /\ taken \in 1 .. StartMessages /\ taken \in WorkItems
    BY <1>1, <2>2, ItemFacts DEF RestTypes
  <2> QED BY <1>1, <2>2, <2>3 DEF AttachStartReq, outcomes, v
<1>3. /\ Logs' /\ topicLog' = topicLog /\ committedTo' = committedTo /\ fetchFrom' = fetchFrom
      /\ \A u \in Topics : Acknowledged(u)' = Acknowledged(u)
  <2>1. /\ topicLog' = topicLog /\ committedTo' = committedTo /\ fetchFrom' = fetchFrom
        /\ leasedOf' = leasedOf
    BY <1>1 DEF AttachStartReq, logs
  <2>2. LogTypes' /\ LeasesRun'
    BY <1>1, <2>1 DEF Logs, LogTypes, LeasesRun
  <2>3. Logged'
    BY <1>1, <2>1 DEF Logs, Logged
  <2>4. \A u \in Topics : Acknowledged(u)' = Acknowledged(u)
    BY <2>1 DEF Acknowledged
  <2> QED BY <2>1, <2>2, <2>3, <2>4 DEF Logs
<1>4. \A x \in WorkItems : Carried(x) => Carried(x)'
  BY <1>2, <1>3 DEF Carried, Copies
<1>5. yieldedStarts < StartLimit
  BY <1>1, <1>2 DEF StartsLeft
<1>6. Logs'
  BY <1>3
<1>7. RestTypes'
  <2>1. cell' \in [Cells -> CellTypes]
    BY <1>1, <1>2 DEF RestTypes, CellTypes, CellStages
  <2>2. startMessages' \in [Cells -> 0 .. StartMessages]
    BY <1>1, <1>2, ItemFacts DEF RestTypes
  <2> QED BY <1>1, <1>2, <1>3, <1>5, <2>1, <2>2, ItemFacts DEF RestTypes
<1>8. StartsLeft'
  BY <1>1, <1>2 DEF StartsLeft
<1>9. AckedDone'
  BY <1>1, <1>2, <1>3, Topical DEF AckedDone, Carried, Copies
<1>10. StartCarriedOver'
  BY <1>1, <1>2, <1>3 DEF StartCarriedOver, Copies
<1>11. WorkCarriedOut'
  BY <1>1, <1>2, <1>3 DEF WorkCarriedOut, Copies
<1>12. CellsRecorded'
  BY <1>1, <1>2, <1>3, ItemFacts DEF CellsRecorded, Copies
<1>13. YieldedCarried'
  <2>1. \A x \in Cells : cell'[x].stage = "leased" => cell'[x] = cell[x]
    BY <1>2
  <2>2. \A x \in Cells : cell[x].stage = "made" => cell'[x] = cell[x]
    BY <1>2
  <2> QED BY <1>1, <1>2, <1>3, <2>1, <2>2 DEF YieldedCarried, Carried, Copies
<1>14. Repeats'
  <2> SUFFICES ASSUME NEW m \in 1 .. StartMessages
               PROVE  Begun(m)' <= Attempts' /\ Borne(m)' <= Attempts' * Attempts'
    BY DEF Repeats
  <2> DEFINE k == Child(m)
  <2>1. m \in WorkItems /\ k \in WorkItems /\ m # k
    BY ItemFacts
  <2>2. /\ IsFiniteSet(Copies(m)) /\ IsFiniteSet(Copies(k)) /\ IsFiniteSet(Made(m)) /\ IsFiniteSet(Made(k))
        /\ IsFiniteSet(Fetchable(m)) /\ IsFiniteSet(Called(m)) /\ Attempts \in Nat
        /\ Cardinality(Copies(m)) \in Nat /\ Cardinality(Copies(k)) \in Nat
        /\ Cardinality(Made(m)) \in Nat /\ Cardinality(Made(k)) \in Nat
        /\ Cardinality(Fetchable(m)) \in Nat /\ Cardinality(Called(m)) \in Nat
    BY <1>1, <2>1, Counted
  <2>3. Copies(m)' = Copies(m) /\ Copies(k)' = Copies(k)
    BY <1>3 DEF Copies
  <2>4. /\ Offered(m)' \in Nat /\ Offered(m) \in Nat
        /\ Coming(m) = Offered(m) + Cardinality(Made(m))
        /\ Coming(m)' = Offered(m)' + Cardinality(Made(m)')
    BY OfferedNat DEF Offered, Coming, One
  <2>5. Attempts' = Attempts /\ Begun(m) <= Attempts /\ Borne(m) <= Attempts * Attempts
    BY <1>1, <1>2 DEF Attempts, Repeats
  <2>6. Attempts * Attempts \in Nat
    BY <2>2
  <2>7. Made(k)' \subseteq Made(k) /\ Called(m)' \subseteq Called(m) /\ Fetchable(m)' \subseteq Fetchable(m)
    BY <1>2, <1>3, <2>3, ItemFacts DEF Made, Called, Fetchable
  <2>8. /\ Cardinality(Made(k)') <= Cardinality(Made(k)) /\ Cardinality(Made(k)') \in Nat
        /\ Cardinality(Called(m)') <= Cardinality(Called(m)) /\ Cardinality(Called(m)') \in Nat
        /\ Cardinality(Fetchable(m)') <= Cardinality(Fetchable(m)) /\ Cardinality(Fetchable(m)') \in Nat
    BY <2>2, <2>7, AtMost
  <2>9. /\ Offered(m)' + Cardinality(Made(m)') <= Offered(m) + Cardinality(Made(m))
        /\ Cardinality(Made(m)') \in Nat
    <3>1. CASE m = taken
      <4>1. Made(m)' \subseteq Made(m) \cup {c}
        BY <1>2 DEF Made
      <4>2. Cardinality(Made(m)') <= Cardinality(Made(m)) + 1 /\ Cardinality(Made(m)') \in Nat
        BY <2>2, <4>1, OneMore
      <4>3. Offered(m)' + 1 = Offered(m)
        BY <1>2, <1>3, <3>1 DEF Offered, One
      <4> QED BY <2>2, <2>4, <4>2, <4>3
    <3>2. CASE m # taken
      <4>1. Made(m)' \subseteq Made(m)
        BY <1>2, <3>2 DEF Made
      <4>2. Cardinality(Made(m)') <= Cardinality(Made(m)) /\ Cardinality(Made(m)') \in Nat
        BY <2>2, <4>1, AtMost
      <4>3. Offered(m)' = Offered(m)
        BY <1>2, <1>3, <3>2 DEF Offered, One
      <4> QED BY <2>2, <2>4, <4>2, <4>3
    <3> QED BY <3>1, <3>2
  <2>20. /\ Begun(m) = Cardinality(Copies(m)) + Coming(m)
         /\ Begun(m)' = Cardinality(Copies(m)') + Coming(m)'
    BY DEF Begun
  <2>21. /\ Borne(m) = Cardinality(Copies(k)) + Cardinality(Made(k))
                         + Cardinality(Fetchable(m)) + Cardinality(Called(m)) + Coming(m)
         /\ Borne(m)' = Cardinality(Copies(k)') + Cardinality(Made(k)')
                         + Cardinality(Fetchable(m)') + Cardinality(Called(m)') + Coming(m)'
    BY DEF Borne
  <2> HIDE DEF k
  <2>22. Begun(m)' <= Begun(m) /\ Begun(m)' \in Nat /\ Begun(m) \in Nat
    BY <2>2, <2>3, <2>4, <2>8, <2>9, <2>20
  <2>23. Borne(m)' <= Borne(m) /\ Borne(m)' \in Nat /\ Borne(m) \in Nat
    BY <2>2, <2>3, <2>4, <2>8, <2>9, <2>21
  <2> QED BY <2>2, <2>5, <2>6, <2>22, <2>23
<1> QED
  BY <1>6, <1>7, <1>8, <1>9, <1>10, <1>11, <1>12, <1>13, <1>14 DEF HandoverIInv

\* The filter refuses a request: what it came from stays leased.
LEMMA PutRefusedKeeps ==
    ASSUME HandoverIInv, NEW c \in Cells, PutRefused(c)
    PROVE HandoverIInv'
<1>1. /\ Logs /\ RestTypes /\ StartsLeft /\ AckedDone /\ StartCarriedOver
      /\ WorkCarriedOut /\ CellsRecorded /\ YieldedCarried /\ Repeats
  BY DEF HandoverIInv
<1>2. /\ life = "running" /\ life' = life /\ outages' = outages /\ reruns' = reruns
      /\ taken' = taken /\ yieldedStarts' = yieldedStarts
      /\ startMessages' = startMessages /\ inflightMessages' = inflightMessages
      /\ processed' = processed /\ refused' = refused \cup {cell[c].item}
      /\ cell[c].stage = "made"
      /\ \A x \in Cells : cell'[x] = IF x = c THEN Vacant ELSE cell[x]
      /\ cell' = [cell EXCEPT ![c] = Vacant]
  BY <1>1 DEF PutRefused, producer, RestTypes
<1>3. /\ Logs' /\ topicLog' = topicLog /\ committedTo' = committedTo /\ fetchFrom' = fetchFrom
      /\ \A u \in Topics : Acknowledged(u)' = Acknowledged(u)
  <2>1. /\ topicLog' = topicLog /\ committedTo' = committedTo /\ fetchFrom' = fetchFrom
        /\ leasedOf' = leasedOf
    BY <1>1 DEF PutRefused, logs
  <2>2. LogTypes' /\ LeasesRun'
    BY <1>1, <2>1 DEF Logs, LogTypes, LeasesRun
  <2>3. Logged'
    BY <1>1, <2>1 DEF Logs, Logged
  <2>4. \A u \in Topics : Acknowledged(u)' = Acknowledged(u)
    BY <2>1 DEF Acknowledged
  <2> QED BY <2>1, <2>2, <2>3, <2>4 DEF Logs
<1>4. \A x \in WorkItems : Carried(x) => Carried(x)'
  BY <1>2, <1>3 DEF Carried, Copies
<1>5. cell[c].item \in WorkItems
  BY <1>1, <1>2, CellFacts DEF CellsRecorded
<1>6. Logs'
  BY <1>3
<1>7. RestTypes'
  <2>1. cell' \in [Cells -> CellTypes]
    BY <1>1, <1>2 DEF RestTypes, CellTypes, CellStages, Vacant, Holding
  <2> QED BY <1>1, <1>2, <1>3, <1>5, <2>1 DEF RestTypes
<1>8. StartsLeft'
  BY <1>1, <1>2 DEF StartsLeft
<1>9. AckedDone'
  BY <1>1, <1>2, <1>3, Topical DEF AckedDone, Carried, Copies
<1>10. StartCarriedOver'
  BY <1>1, <1>2, <1>3 DEF StartCarriedOver, Copies
<1>11. WorkCarriedOut'
  <2>1. /\ committedTo'["work"] = committedTo["work"] /\ processed' = processed
        /\ topicLog'["work"] = topicLog["work"]
    BY <1>1, <1>2, <1>3, Topical, AckedFacts
  <2>2. \A o \in processed, m \in Fruitful : topicLog["work"][o] = m => Carried(Child(m))
    BY <1>1 DEF WorkCarriedOut, Carried
  <2>3. \A o \in processed, m \in Fruitful : topicLog["work"][o] = m => Carried(Child(m))'
    BY <1>4, <2>2, ItemFacts
  <2>4. 1 .. committedTo'["work"] \subseteq processed'
    BY <1>1, <2>1 DEF WorkCarriedOut
  <2> QED BY <2>1, <2>3, <2>4 DEF WorkCarriedOut, Carried
<1>12. CellsRecorded'
  BY <1>1, <1>2, <1>3 DEF CellsRecorded, Copies, Vacant, Holding
<1>13. YieldedCarried'
  <2> SUFFICES ASSUME NEW x \in Cells, NEW m \in Fruitful,
                      cell'[x].stage = "leased", cell'[x].yielded, cell'[x].item = m
               PROVE  \/ Carried(Child(m))'
                      \/ \E d \in Cells : cell'[d].stage = "made" /\ cell'[d].item = Child(m)
    BY DEF YieldedCarried
  <2>1. x # c /\ cell'[x] = cell[x]
    BY <1>2 DEF Vacant, Holding
  <2>2. Child(m) \in WorkItems
    BY ItemFacts
  <2>3. Carried(Child(m)) \/ \E d \in Cells : cell[d].stage = "made" /\ cell[d].item = Child(m)
    BY <1>1, <2>1 DEF YieldedCarried
  <2>4. CASE Carried(Child(m))
    BY <1>4, <2>2, <2>4
  <2>5. CASE Child(m) \in refused'
    BY <2>5 DEF Carried
  <2>6. ASSUME NEW d \in Cells, cell[d].stage = "made", cell[d].item = Child(m), d # c
        PROVE  \E e \in Cells : cell'[e].stage = "made" /\ cell'[e].item = Child(m)
    BY <1>2, <2>6
  <2> QED BY <1>2, <2>3, <2>4, <2>5, <2>6
<1>14. Repeats'
  <2>1. ASSUME NEW m \in 1 .. StartMessages
        PROVE  /\ Copies(m)' \subseteq Copies(m) /\ Copies(Child(m))' \subseteq Copies(Child(m))
               /\ Made(m)' \subseteq Made(m) /\ Made(Child(m))' \subseteq Made(Child(m))
               /\ Fetchable(m)' \subseteq Fetchable(m) /\ Called(m)' \subseteq Called(m)
               /\ Offered(m)' \in Nat /\ Offered(m)' <= Offered(m)
    <3>1. /\ Copies(m)' = Copies(m) /\ Copies(Child(m))' = Copies(Child(m))
      BY <1>2, <1>3 DEF Copies
    <3>2. /\ Made(m)' \subseteq Made(m) /\ Made(Child(m))' \subseteq Made(Child(m))
          /\ Called(m)' \subseteq Called(m)
      BY <1>2, ItemFacts DEF Made, Called, Vacant, Holding
    <3>3. Fetchable(m)' \subseteq Fetchable(m)
      BY <1>1, <1>3, <3>1, Topical, LogFacts DEF Fetchable, Copies
    <3>4. Offered(m)' \in Nat /\ Offered(m)' <= Offered(m)
      <4>1. fetchFrom["start"] \in Nat /\ fetchFrom'["start"] \in {fetchFrom["start"], fetchFrom["start"] + 1}
        BY <1>1, <1>3, Topical, LogFacts, AckedFacts
      <4> QED BY <1>2, <1>3, <4>1, Topical, ItemFacts DEF Offered, One
    <3> QED BY <3>1, <3>2, <3>3, <3>4
  <2>2. Attempts' = Attempts \/ Attempts' = Attempts + 1
    BY <1>1, <1>2, ItemFacts DEF Attempts, RestTypes
  <2> QED BY <1>1, <2>1, <2>2, NoMore
<1> QED
  BY <1>6, <1>7, <1>8, <1>9, <1>10, <1>11, <1>12, <1>13, <1>14 DEF HandoverIInv

\* A request is stored: the message is one copy more.
LEMMA PutPushKeeps ==
    ASSUME HandoverIInv, NEW c \in Cells, PutPush(c)
    PROVE HandoverIInv'
<1>1. /\ Logs /\ RestTypes /\ StartsLeft /\ AckedDone /\ StartCarriedOver
      /\ WorkCarriedOut /\ CellsRecorded /\ YieldedCarried /\ Repeats
  BY DEF HandoverIInv
<1>2. /\ life = "running" /\ life' = life /\ outages' = outages /\ reruns' = reruns
      /\ taken' = taken /\ yieldedStarts' = yieldedStarts
      /\ startMessages' = startMessages /\ inflightMessages' = inflightMessages
      /\ processed' = processed /\ refused' = refused
      /\ cell[c].stage = "made" /\ Store(cell[c].item)
      /\ \A x \in Cells : cell'[x] = IF x = c THEN [cell[c] EXCEPT !.stage = "stored"] ELSE cell[x]
      /\ cell' = [cell EXCEPT ![c].stage = "stored"]
  BY <1>1 DEF PutPush, producer, outcomes, RestTypes
<1>3. /\ Logs' /\ committedTo' = committedTo /\ fetchFrom' = fetchFrom
      /\ \A u \in Topics : Acknowledged(u)' = Acknowledged(u)
      /\ Len(topicLog["work"]) \in Nat
      /\ Len(topicLog'["work"]) = Len(topicLog["work"]) + 1
      /\ \A o \in 1 .. Len(topicLog["work"]) : topicLog'["work"][o] = topicLog["work"][o]
      /\ topicLog'["start"] = topicLog["start"]
      /\ \A x \in WorkItems :
            Copies(x)' = Copies(x) \cup (IF x = cell[c].item THEN {Len(topicLog["work"]) + 1} ELSE {})
  <2>1. cell[c].item \in WorkItems
    BY <1>1, <1>2, CellFacts DEF CellsRecorded
  <2> QED BY <1>1, <1>2, <2>1, StoreLogs
<1>4. \A x \in WorkItems : Carried(x) => Carried(x)'
  BY <1>2, <1>3 DEF Carried
<1>5. /\ cell[c].item \in WorkItems
      /\ \A x \in WorkItems : x = cell[c].item => Copies(x)' # {} /\ Carried(x)'
  <2>1. cell[c].item \in WorkItems
    BY <1>1, <1>2, CellFacts DEF CellsRecorded
  <2>2. \A x \in WorkItems : x = cell[c].item => Copies(x)' # {}
    BY <1>3
  <2> QED BY <2>1, <2>2 DEF Carried
<1>6. /\ cell'[c].stage = "stored" /\ cell'[c].item = cell[c].item /\ cell'[c].yielded = cell[c].yielded
      /\ cell'[c] \in CellTypes
  <2>1. cell[c] \in CellTypes
    BY <1>1, CellFacts
  <2> QED BY <1>2, <2>1 DEF CellTypes, CellStages
<1>7. Logs'
  BY <1>3
<1>8. RestTypes'
  <2>1. cell' \in [Cells -> CellTypes]
    BY <1>1, <1>2, <1>6 DEF RestTypes
  <2>2. /\ inflightMessages' \in [Cells -> 0 .. Len(topicLog'["work"])]
        /\ processed' \subseteq 1 .. Len(topicLog'["work"])
    BY <1>1, <1>2, <1>3 DEF RestTypes
  <2> QED BY <1>1, <1>2, <2>1, <2>2 DEF RestTypes
<1>9. StartsLeft'
  BY <1>1, <1>2 DEF StartsLeft
<1>10. AckedDone'
  <2>1. \A m \in Acknowledged("start") : Carried(m)'
    BY <1>1, <1>4, AckedFacts, ItemFacts DEF AckedDone
  <2> QED BY <1>1, <1>2, <1>3, <2>1, Topical DEF AckedDone
<1>11. StartCarriedOver'
  <2>1. \A m \in 1 .. committedTo["start"] : Carried(m)'
    BY <1>1, <1>4, AckedFacts, ItemFacts DEF StartCarriedOver, Carried
  <2> QED BY <1>3, <2>1 DEF StartCarriedOver, Carried
<1>12. WorkCarriedOut'
  <2>1. processed \subseteq 1 .. Len(topicLog["work"])
    BY <1>1 DEF RestTypes
  <2>2. \A o \in processed, m \in Fruitful : topicLog["work"][o] = m => Carried(Child(m))
    BY <1>1 DEF WorkCarriedOut, Carried
  <2>3. \A o \in processed, m \in Fruitful : topicLog'["work"][o] = m => Carried(Child(m))'
    BY <1>3, <1>4, <2>1, <2>2, ItemFacts
  <2>4. 1 .. committedTo'["work"] \subseteq processed'
    BY <1>1, <1>2, <1>3 DEF WorkCarriedOut
  <2> QED BY <1>2, <2>3, <2>4 DEF WorkCarriedOut, Carried
<1>13. CellsRecorded'
  <2>1. \A x \in WorkItems : Copies(x) # {} => Copies(x)' # {}
    BY <1>3
  <2> SUFFICES ASSUME NEW x \in Cells
               PROVE  /\ cell'[x].stage = "free" <=> cell'[x].item = 0
                      /\ cell'[x].stage \in {"made", "stored"} => startMessages'[x] \in {0, cell'[x].item}
                      /\ cell'[x].stage = "stored" => \A y \in WorkItems : y = cell'[x].item => Copies(y)' # {}
                      /\ cell'[x].stage = "stored" => cell'[x].item \in WorkItems
                      /\ cell'[x].stage = "leased" => /\ inflightMessages'[x] # 0
                                                      /\ topicLog'["work"][inflightMessages'[x]] = cell'[x].item
    BY DEF CellsRecorded, Copies
  <2>2. CASE x = c
    BY <1>1, <1>2, <1>5, <1>6, <2>2, ItemFacts DEF CellsRecorded
  <2>3. CASE x # c
    <3>1. cell'[x] = cell[x] /\ inflightMessages[x] \in 0 .. Len(topicLog["work"]) /\ cell[x].item \in WorkItems \cup {0}
      BY <1>1, <1>2, <2>3, CellFacts
    <3>2. cell[x].stage = "leased" => topicLog'["work"][inflightMessages'[x]] = topicLog["work"][inflightMessages[x]]
      BY <1>1, <1>2, <1>3, <3>1 DEF CellsRecorded
    <3> QED BY <1>1, <1>2, <2>1, <3>1, <3>2 DEF CellsRecorded
  <2> QED BY <2>2, <2>3
<1>14. YieldedCarried'
  <2> SUFFICES ASSUME NEW x \in Cells, NEW m \in Fruitful,
                      cell'[x].stage = "leased", cell'[x].yielded, cell'[x].item = m
               PROVE  \/ Carried(Child(m))'
                      \/ \E d \in Cells : cell'[d].stage = "made" /\ cell'[d].item = Child(m)
    BY DEF YieldedCarried
  <2>1. x # c /\ cell'[x] = cell[x]
    BY <1>2, <1>6
  <2>2. Child(m) \in WorkItems
    BY ItemFacts
  <2>3. Carried(Child(m)) \/ \E d \in Cells : cell[d].stage = "made" /\ cell[d].item = Child(m)
    BY <1>1, <2>1 DEF YieldedCarried
  <2>4. CASE Carried(Child(m))
    BY <1>4, <2>2, <2>4
  <2>5. CASE Child(m) = cell[c].item
    BY <1>5, <2>2, <2>5
  <2>6. ASSUME NEW d \in Cells, cell[d].stage = "made", cell[d].item = Child(m), d # c
        PROVE  \E e \in Cells : cell'[e].stage = "made" /\ cell'[e].item = Child(m)
    BY <1>2, <2>6
  <2> QED BY <2>3, <2>4, <2>5, <2>6
<1>15. Repeats'
  <2>1. Repeats'
    <3>1. cell[c].item \in WorkItems /\ c \in Made(cell[c].item)
      BY <1>1, <1>2, CellFacts DEF CellsRecorded, Made
    <3>2. ASSUME NEW y \in WorkItems
          PROVE  /\ Copies(y)' \subseteq Copies(y) \cup (IF y = cell[c].item THEN {Len(topicLog["work"]) + 1} ELSE {})
                 /\ Made(y)' \subseteq Made(y) \ {c}
      BY <1>2, <1>3, <1>6 DEF Made, Vacant, Holding
    <3>3. ASSUME NEW m \in 1 .. StartMessages
          PROVE  /\ Fetchable(m)' \subseteq Fetchable(m) \cup (IF m = cell[c].item THEN {Len(topicLog["work"]) + 1} ELSE {})
                 /\ Called(m)' \subseteq Called(m)
                 /\ Offered(m)' = Offered(m)
      <4>1. m \in WorkItems
        BY ItemFacts
      <4>2. Called(m)' \subseteq Called(m) /\ Offered(m)' = Offered(m)
        BY <1>2, <1>3, <1>6 DEF Called, Offered, Vacant, Holding
      <4> QED BY <3>2, <4>1, <4>2, <1>2, <1>3, <1>6 DEF Fetchable
    <3>4. Attempts' = Attempts \/ Attempts' = Attempts + 1
      BY <1>1, <1>2, ItemFacts DEF Attempts, RestTypes
    <3> QED BY <1>1, <3>1, <3>2, <3>3, <3>4, StoreRepeats
  <2> QED BY <2>1
<1> QED
  BY <1>7, <1>8, <1>9, <1>10, <1>11, <1>12, <1>13, <1>14, <1>15 DEF HandoverIInv

\* The push fails, stored or not: what the request came from stays leased.
LEMMA PutFailsKeeps ==
    ASSUME HandoverIInv, NEW c \in Cells, PutFails(c)
    PROVE HandoverIInv'
<1>1. /\ Logs /\ RestTypes /\ StartsLeft /\ AckedDone /\ StartCarriedOver
      /\ WorkCarriedOut /\ CellsRecorded /\ YieldedCarried /\ Repeats
  BY DEF HandoverIInv
<1>2. /\ life = "running" /\ life' = life /\ outages' = outages + 1 /\ outages < MaxOutages /\ reruns' = reruns
      /\ taken' = taken /\ yieldedStarts' = yieldedStarts
      /\ startMessages' = startMessages /\ inflightMessages' = inflightMessages
      /\ processed' = processed /\ refused' = refused
      /\ cell[c].stage = "made" /\ (Store(cell[c].item) \/ UNCHANGED logs)
      /\ \A x \in Cells : cell'[x] = IF x = c \/ (cell[x].stage = "leased" /\ Child(cell[x].item) = cell[c].item)
                                       THEN Vacant ELSE cell[x]
      /\ cell' = [x \in Cells |-> cell'[x]]
  BY <1>1 DEF PutFails, Outage, producer, outcomes
<1>3. \/ /\ Logs' /\ committedTo' = committedTo /\ fetchFrom' = fetchFrom
         /\ \A u \in Topics : Acknowledged(u)' = Acknowledged(u)
         /\ Len(topicLog["work"]) \in Nat
         /\ Len(topicLog'["work"]) = Len(topicLog["work"]) + 1
         /\ \A o \in 1 .. Len(topicLog["work"]) : topicLog'["work"][o] = topicLog["work"][o]
         /\ topicLog'["start"] = topicLog["start"]
         /\ \A x \in WorkItems :
               Copies(x)' = Copies(x) \cup (IF x = cell[c].item THEN {Len(topicLog["work"]) + 1} ELSE {})
      \/ /\ Logs' /\ committedTo' = committedTo /\ fetchFrom' = fetchFrom
         /\ \A u \in Topics : Acknowledged(u)' = Acknowledged(u)
         /\ topicLog' = topicLog
  <2>1. cell[c].item \in WorkItems
    BY <1>1, <1>2, CellFacts DEF CellsRecorded
  <2>2. CASE Store(cell[c].item)
    BY <1>1, <2>1, <2>2, StoreLogs
  <2>3. CASE UNCHANGED logs
    <3>1. /\ topicLog' = topicLog /\ committedTo' = committedTo /\ fetchFrom' = fetchFrom
          /\ leasedOf' = leasedOf
      BY <2>3 DEF logs
    <3>2. LogTypes' /\ LeasesRun'
      BY <1>1, <3>1 DEF Logs, LogTypes, LeasesRun
    <3>3. Logged'
      BY <1>1, <3>1 DEF Logs, Logged
    <3>4. \A u \in Topics : Acknowledged(u)' = Acknowledged(u)
      BY <3>1 DEF Acknowledged
    <3> QED BY <3>1, <3>2, <3>3, <3>4 DEF Logs
  <2> QED BY <1>2, <2>2, <2>3
<1>4. /\ Logs' /\ committedTo' = committedTo /\ fetchFrom' = fetchFrom
      /\ \A u \in Topics : Acknowledged(u)' = Acknowledged(u)
      /\ Len(topicLog["work"]) \in Nat /\ Len(topicLog'["work"]) \in Nat
      /\ Len(topicLog["work"]) <= Len(topicLog'["work"])
      /\ \A o \in 1 .. Len(topicLog["work"]) : topicLog'["work"][o] = topicLog["work"][o]
      /\ topicLog'["start"] = topicLog["start"]
  <2>1. Len(topicLog["work"]) \in Nat
    BY <1>1, AckedFacts
  <2> QED BY <1>3, <2>1
<1>5. \A x \in WorkItems : Copies(x) \subseteq Copies(x)'
  <2>1. CASE topicLog' = topicLog
    BY <2>1 DEF Copies
  <2> QED BY <1>3, <2>1
<1>6. \A x \in WorkItems : Carried(x) => Carried(x)'
  BY <1>2, <1>5 DEF Carried
<1>7. cell[c].item \in WorkItems /\ cell[c].item # 0
  BY <1>1, <1>2, CellFacts, ItemFacts DEF CellsRecorded
<1>8. ASSUME NEW x \in Cells
      PROVE  /\ cell'[x] = Vacant \/ cell'[x] = cell[x]
             /\ x = c => cell'[x] = Vacant
             /\ x # c /\ cell[x].stage # "leased" => cell'[x] = cell[x]
             /\ cell[x].stage = "leased" /\ Child(cell[x].item) = cell[c].item => cell'[x] = Vacant
  BY <1>2
<1>9. Vacant.item = 0 /\ Vacant.stage = "free" /\ Vacant \in CellTypes
  BY DEF Vacant, Holding, CellTypes, CellStages
<1>10. Logs'
  BY <1>4
<1>11. RestTypes'
  <2>1. cell' \in [Cells -> CellTypes]
    BY <1>1, <1>2, <1>8, <1>9 DEF RestTypes
  <2>2. /\ inflightMessages' \in [Cells -> 0 .. Len(topicLog'["work"])]
        /\ processed' \subseteq 1 .. Len(topicLog'["work"])
    BY <1>1, <1>2, <1>4 DEF RestTypes
  <2> QED BY <1>1, <1>2, <2>1, <2>2, ItemFacts DEF RestTypes
<1>12. StartsLeft'
  BY <1>1, <1>2 DEF StartsLeft
<1>13. AckedDone'
  <2>1. \A m \in Acknowledged("start") : Carried(m)'
    BY <1>1, <1>6, AckedFacts, ItemFacts DEF AckedDone
  <2> QED BY <1>1, <1>2, <1>4, <2>1, Topical DEF AckedDone
<1>14. StartCarriedOver'
  <2>1. \A m \in 1 .. committedTo["start"] : Carried(m)'
    BY <1>1, <1>6, AckedFacts, ItemFacts DEF StartCarriedOver, Carried
  <2> QED BY <1>4, <2>1 DEF StartCarriedOver, Carried
<1>15. WorkCarriedOut'
  <2>1. processed \subseteq 1 .. Len(topicLog["work"])
    BY <1>1 DEF RestTypes
  <2>2. \A o \in processed, m \in Fruitful : topicLog["work"][o] = m => Carried(Child(m))
    BY <1>1 DEF WorkCarriedOut, Carried
  <2>3. \A o \in processed, m \in Fruitful : topicLog'["work"][o] = m => Carried(Child(m))'
    BY <1>4, <1>6, <2>1, <2>2, ItemFacts
  <2>4. 1 .. committedTo'["work"] \subseteq processed'
    BY <1>1, <1>2, <1>4 DEF WorkCarriedOut
  <2> QED BY <1>2, <2>3, <2>4 DEF WorkCarriedOut, Carried
<1>16. CellsRecorded'
  <2> SUFFICES ASSUME NEW x \in Cells
               PROVE  /\ cell'[x].stage = "free" <=> cell'[x].item = 0
                      /\ cell'[x].stage \in {"made", "stored"} => startMessages'[x] \in {0, cell'[x].item}
                      /\ cell'[x].stage = "stored" => \A y \in WorkItems : y = cell'[x].item => Copies(y)' # {}
                      /\ cell'[x].stage = "stored" => cell'[x].item \in WorkItems
                      /\ cell'[x].stage = "leased" => /\ inflightMessages'[x] # 0
                                                      /\ topicLog'["work"][inflightMessages'[x]] = cell'[x].item
    BY DEF CellsRecorded, Copies
  <2>1. CASE cell'[x] = Vacant
    BY <1>9, <2>1
  <2>2. CASE cell'[x] = cell[x]
    <3>1. inflightMessages[x] \in 0 .. Len(topicLog["work"]) /\ cell[x].item \in WorkItems \cup {0}
      BY <1>1, CellFacts
    <3>2. cell[x].stage = "leased" => topicLog'["work"][inflightMessages'[x]] = topicLog["work"][inflightMessages[x]]
      BY <1>1, <1>2, <1>4, <3>1 DEF CellsRecorded
    <3>3. cell[x].stage = "stored" => \A y \in WorkItems : y = cell[x].item => Copies(y)' # {}
      BY <1>1, <1>5 DEF CellsRecorded
    <3> QED BY <1>1, <1>2, <2>2, <3>1, <3>2, <3>3 DEF CellsRecorded
  <2> QED BY <1>8, <2>1, <2>2
<1>17. YieldedCarried'
  <2> SUFFICES ASSUME NEW x \in Cells, NEW m \in Fruitful,
                      cell'[x].stage = "leased", cell'[x].yielded, cell'[x].item = m
               PROVE  \/ Carried(Child(m))'
                      \/ \E d \in Cells : cell'[d].stage = "made" /\ cell'[d].item = Child(m)
    BY DEF YieldedCarried
  <2>1. cell'[x] = cell[x] /\ cell'[x] # Vacant
    BY <1>8, <1>9
  <2>2. Child(m) # cell[c].item
    BY <1>8, <2>1
  <2>3. Child(m) \in WorkItems
    BY ItemFacts
  <2>4. Carried(Child(m)) \/ \E d \in Cells : cell[d].stage = "made" /\ cell[d].item = Child(m)
    BY <1>1, <2>1 DEF YieldedCarried
  <2>5. CASE Carried(Child(m))
    BY <1>6, <2>3, <2>5
  <2>6. ASSUME NEW d \in Cells, cell[d].stage = "made", cell[d].item = Child(m)
        PROVE  \E e \in Cells : cell'[e].stage = "made" /\ cell'[e].item = Child(m)
    BY <1>8, <2>2, <2>6
  <2> QED BY <2>4, <2>5, <2>6
<1>18. Repeats'
  <2> DEFINE n == Len(topicLog["work"]) + 1
  <2>1. cell[c].item \in WorkItems /\ c \in Made(cell[c].item)
    BY <1>2, <1>7 DEF Made
  <2>2. ASSUME NEW y \in WorkItems
        PROVE  /\ Copies(y)' \subseteq Copies(y) \cup (IF y = cell[c].item THEN {n} ELSE {})
               /\ Made(y)' \subseteq Made(y) \ {c}
    <3>1. Made(y)' \subseteq Made(y) \ {c}
      BY <1>8, <1>9 DEF Made
    <3>2. CASE topicLog' = topicLog
      BY <3>1, <3>2 DEF Copies
    <3> QED BY <1>3, <3>1, <3>2
  <2>3. ASSUME NEW m \in 1 .. StartMessages
        PROVE  /\ Fetchable(m)' \subseteq Fetchable(m) \cup (IF m = cell[c].item THEN {n} ELSE {})
               /\ Called(m)' \subseteq Called(m)
               /\ Offered(m)' = Offered(m)
    <3>1. m \in WorkItems
      BY ItemFacts
    <3>2. Called(m)' \subseteq Called(m)
      BY <1>8, <1>9 DEF Called
    <3>3. Offered(m)' = Offered(m)
      BY <1>2, <1>4 DEF Offered
    <3> QED BY <1>4, <2>2, <3>1, <3>2, <3>3 DEF Fetchable
  <2>4. Attempts' = Attempts \/ Attempts' = Attempts + 1
    BY <1>1, <1>2, ItemFacts DEF Attempts, RestTypes
  <2> QED BY <1>1, <2>1, <2>2, <2>3, <2>4, StoreRepeats
<1> QED
  BY <1>10, <1>11, <1>12, <1>13, <1>14, <1>15, <1>16, <1>17, <1>18 DEF
         HandoverIInv

\* The start message of a stored request is acknowledged.
LEMMA PutAckKeeps ==
    ASSUME HandoverIInv, NEW c \in Cells, PutAck(c)
    PROVE HandoverIInv'
<1>1. /\ Logs /\ RestTypes /\ StartsLeft /\ AckedDone /\ StartCarriedOver
      /\ WorkCarriedOut /\ CellsRecorded /\ YieldedCarried /\ Repeats
  BY DEF HandoverIInv
<1>2. /\ life = "running" /\ life' = life /\ outages' = outages /\ reruns' = reruns
      /\ taken' = taken /\ yieldedStarts' = yieldedStarts
      /\ inflightMessages' = inflightMessages
      /\ processed' = processed /\ refused' = refused
      /\ cell[c].stage = "stored" /\ Ack("start", startMessages[c])
      /\ \A x \in Cells : cell'[x] = IF x = c THEN Vacant ELSE cell[x]
      /\ \A x \in Cells : startMessages'[x] = IF x = c THEN 0 ELSE startMessages[x]
      /\ cell' = [cell EXCEPT ![c] = Vacant] /\ startMessages' = [startMessages EXCEPT ![c] = 0]
      /\ startMessages[c] \in Nat
  BY <1>1, CellFacts, ItemFacts DEF PutAck, producer, outcomes, RestTypes
<1>3. /\ Logs' /\ topicLog' = topicLog /\ fetchFrom' = fetchFrom
      /\ \A u \in Topics :
            u # "start" => Acknowledged(u)' = Acknowledged(u) /\ committedTo'[u] = committedTo[u]
      /\ Acknowledged("start")' \subseteq Acknowledged("start") \cup ({startMessages[c]} \ {0})
      /\ 1 .. committedTo'["start"] \subseteq
            (1 .. committedTo["start"]) \cup Acknowledged("start") \cup ({startMessages[c]} \ {0})
  BY <1>1, <1>2, Topical, ItemFacts, AckLogs
<1>4. \A x \in WorkItems : Carried(x) => Carried(x)'
  BY <1>2, <1>3 DEF Carried, Copies
<1>5. startMessages[c] # 0 => Carried(startMessages[c]) /\ startMessages[c] \in WorkItems
  BY <1>1, <1>2, CellFacts, ItemFacts DEF CellsRecorded, Carried
<1>6. Acknowledged("start") \subseteq WorkItems /\ 1 .. committedTo["start"] \subseteq WorkItems
  BY <1>1, AckedFacts, ItemFacts
<1>7. Logs'
  BY <1>3
<1>8. RestTypes'
  <2>1. cell' \in [Cells -> CellTypes]
    BY <1>1, <1>2 DEF RestTypes, CellTypes, CellStages, Vacant, Holding
  <2>2. startMessages' \in [Cells -> 0 .. StartMessages]
    BY <1>1, <1>2, ItemFacts DEF RestTypes
  <2> QED BY <1>1, <1>2, <1>3, <2>1, <2>2 DEF RestTypes
<1>9. StartsLeft'
  BY <1>1, <1>2 DEF StartsLeft
<1>10. AckedDone'
  <2>1. \A m \in Acknowledged("start")' : Carried(m)'
    BY <1>1, <1>3, <1>4, <1>5, <1>6 DEF AckedDone
  <2> QED BY <1>1, <1>2, <1>3, <2>1, Topical, AckedFacts DEF AckedDone
<1>11. StartCarriedOver'
  <2>1. \A m \in 1 .. committedTo["start"] : Carried(m)
    BY <1>1 DEF StartCarriedOver, Carried
  <2>2. \A m \in 1 .. committedTo'["start"] : Carried(m)'
    BY <1>1, <1>3, <1>4, <1>5, <1>6, <2>1 DEF AckedDone
  <2> QED BY <2>2 DEF StartCarriedOver, Carried
<1>12. WorkCarriedOut'
  <2>1. /\ committedTo'["work"] = committedTo["work"] /\ processed' = processed
        /\ topicLog'["work"] = topicLog["work"]
    BY <1>1, <1>2, <1>3, Topical, AckedFacts
  <2>2. \A o \in processed, m \in Fruitful : topicLog["work"][o] = m => Carried(Child(m))
    BY <1>1 DEF WorkCarriedOut, Carried
  <2>3. \A o \in processed, m \in Fruitful : topicLog["work"][o] = m => Carried(Child(m))'
    BY <1>4, <2>2, ItemFacts
  <2>4. 1 .. committedTo'["work"] \subseteq processed'
    BY <1>1, <2>1 DEF WorkCarriedOut
  <2> QED BY <2>1, <2>3, <2>4 DEF WorkCarriedOut, Carried
<1>13. CellsRecorded'
  BY <1>1, <1>2, <1>3 DEF CellsRecorded, Copies, Vacant, Holding
<1>14. YieldedCarried'
  <2>1. \A x \in Cells : cell'[x].stage \in {"made", "leased"} => cell'[x] = cell[x]
    BY <1>2 DEF Vacant, Holding
  <2>2. \A x \in Cells : cell[x].stage = "made" => cell'[x] = cell[x]
    BY <1>2
  <2> QED BY <1>1, <1>2, <1>3, <2>1, <2>2 DEF YieldedCarried, Carried, Copies
<1>15. Repeats'
  <2>1. ASSUME NEW m \in 1 .. StartMessages
        PROVE  /\ Copies(m)' \subseteq Copies(m) /\ Copies(Child(m))' \subseteq Copies(Child(m))
               /\ Made(m)' \subseteq Made(m) /\ Made(Child(m))' \subseteq Made(Child(m))
               /\ Fetchable(m)' \subseteq Fetchable(m) /\ Called(m)' \subseteq Called(m)
               /\ Offered(m)' \in Nat /\ Offered(m)' <= Offered(m)
    <3>1. /\ Copies(m)' = Copies(m) /\ Copies(Child(m))' = Copies(Child(m))
      BY <1>2, <1>3 DEF Copies
    <3>2. /\ Made(m)' \subseteq Made(m) /\ Made(Child(m))' \subseteq Made(Child(m))
          /\ Called(m)' \subseteq Called(m)
      BY <1>2, ItemFacts DEF Made, Called, Vacant, Holding
    <3>3. Fetchable(m)' \subseteq Fetchable(m)
      BY <1>1, <1>3, <3>1, Topical, LogFacts DEF Fetchable, Copies
    <3>4. Offered(m)' \in Nat /\ Offered(m)' <= Offered(m)
      <4>1. fetchFrom["start"] \in Nat /\ fetchFrom'["start"] \in {fetchFrom["start"], fetchFrom["start"] + 1}
        BY <1>1, <1>3, Topical, LogFacts, AckedFacts
      <4> QED BY <1>2, <1>3, <4>1, Topical, ItemFacts DEF Offered, One
    <3> QED BY <3>1, <3>2, <3>3, <3>4
  <2>2. Attempts' = Attempts \/ Attempts' = Attempts + 1
    BY <1>1, <1>2, ItemFacts DEF Attempts, RestTypes
  <2> QED BY <1>1, <2>1, <2>2, NoMore
<1> QED
  BY <1>7, <1>8, <1>9, <1>10, <1>11, <1>12, <1>13, <1>14, <1>15 DEF HandoverIInv

\* A stored request is fetched and leased.
LEMMA GetRequestKeeps ==
    ASSUME HandoverIInv, NEW c \in Cells, GetRequest(c)
    PROVE HandoverIInv'
<1>1. /\ Logs /\ RestTypes /\ StartsLeft /\ AckedDone /\ StartCarriedOver
      /\ WorkCarriedOut /\ CellsRecorded /\ YieldedCarried /\ Repeats
  BY DEF HandoverIInv
<1>2. /\ life = "running" /\ life' = life /\ outages' = outages /\ reruns' = reruns
      /\ taken' = taken /\ yieldedStarts' = yieldedStarts
      /\ startMessages' = startMessages
      /\ processed' = processed /\ refused' = refused
      /\ cell[c].stage = "free" /\ Pop("work")
      /\ \A x \in Cells : cell'[x] = IF x = c THEN [item |-> topicLog["work"][fetchFrom["work"]], stage |-> "leased", yielded |-> FALSE] ELSE cell[x]
      /\ \A x \in Cells : inflightMessages'[x] = IF x = c THEN fetchFrom["work"] ELSE inflightMessages[x]
      /\ cell' = [cell EXCEPT ![c] = [item |-> topicLog["work"][fetchFrom["work"]], stage |-> "leased", yielded |-> FALSE]]
      /\ inflightMessages' = [inflightMessages EXCEPT ![c] = fetchFrom["work"]]
  <2> DEFINE o == fetchFrom["work"]
             v == [item |-> topicLog["work"][o], stage |-> "leased", yielded |-> FALSE]
  <2>1. Holding(topicLog["work"][o], "leased") = v
    BY DEF Holding, v
  <2> HIDE DEF v
  <2>2. /\ cell' = [cell EXCEPT ![c] = v] /\ inflightMessages' = [inflightMessages EXCEPT ![c] = o]
        /\ cell[c].stage = "free"
    BY <1>1, <2>1 DEF GetRequest, Usable
  <2>3. /\ \A x \in Cells : cell'[x] = IF x = c THEN v ELSE cell[x]
        /\ \A x \in Cells : inflightMessages'[x] = IF x = c THEN o ELSE inflightMessages[x]
    BY <1>1, <2>2 DEF RestTypes
  <2> QED BY <1>1, <2>2, <2>3 DEF GetRequest, outcomes, producer, v
<1>3. /\ Logs' /\ topicLog' = topicLog /\ committedTo' = committedTo
      /\ \A u \in Topics : Acknowledged(u)' = Acknowledged(u)
      /\ fetchFrom["work"] \in 1 .. Len(topicLog["work"])
      /\ \A u \in Topics : fetchFrom'[u] = IF u = "work" THEN fetchFrom[u] + 1 ELSE fetchFrom[u]
  BY <1>1, <1>2, Topical, PopLogs
<1>4. \A x \in WorkItems : Carried(x) => Carried(x)'
  BY <1>2, <1>3 DEF Carried, Copies
<1>5. topicLog["work"][fetchFrom["work"]] \in WorkItems
  <2>1. topicLog["work"] \in Seq(WorkItems)
    BY <1>1, Topical, LogFacts
  <2> QED BY <1>3, <2>1, ElementOfSeq
<1>6. Logs'
  BY <1>3
<1>7. RestTypes'
  <2>1. cell' \in [Cells -> CellTypes]
    BY <1>1, <1>2, <1>5 DEF RestTypes, CellTypes, CellStages
  <2>2. inflightMessages' \in [Cells -> 0 .. Len(topicLog'["work"])]
    BY <1>1, <1>2, <1>3, AckedFacts DEF RestTypes
  <2> QED BY <1>1, <1>2, <1>3, <2>1, <2>2 DEF RestTypes
<1>8. StartsLeft'
  BY <1>1, <1>2 DEF StartsLeft
<1>9. AckedDone'
  BY <1>1, <1>2, <1>3, Topical DEF AckedDone, Carried, Copies
<1>10. StartCarriedOver'
  BY <1>1, <1>2, <1>3 DEF StartCarriedOver, Copies
<1>11. WorkCarriedOut'
  BY <1>1, <1>2, <1>3 DEF WorkCarriedOut, Copies
<1>12. CellsRecorded'
  BY <1>1, <1>2, <1>3, <1>5, AckedFacts, ItemFacts DEF CellsRecorded, Copies
<1>13. YieldedCarried'
  <2>1. \A x \in Cells : cell'[x].stage = "leased" /\ cell'[x].yielded => cell'[x] = cell[x]
    BY <1>2
  <2>2. \A x \in Cells : cell[x].stage = "made" => cell'[x] = cell[x]
    BY <1>2
  <2> QED BY <1>1, <1>2, <1>3, <2>1, <2>2 DEF YieldedCarried, Carried, Copies
<1>14. Repeats'
  <2> SUFFICES ASSUME NEW m \in 1 .. StartMessages
               PROVE  Begun(m)' <= Attempts' /\ Borne(m)' <= Attempts' * Attempts'
    BY DEF Repeats
  <2> DEFINE k == Child(m)
  <2>1. m \in WorkItems /\ k \in WorkItems /\ m # k
    BY ItemFacts
  <2>2. /\ IsFiniteSet(Copies(m)) /\ IsFiniteSet(Copies(k)) /\ IsFiniteSet(Made(m)) /\ IsFiniteSet(Made(k))
        /\ IsFiniteSet(Fetchable(m)) /\ IsFiniteSet(Called(m)) /\ Attempts \in Nat
        /\ Cardinality(Copies(m)) \in Nat /\ Cardinality(Copies(k)) \in Nat
        /\ Cardinality(Made(m)) \in Nat /\ Cardinality(Made(k)) \in Nat
        /\ Cardinality(Fetchable(m)) \in Nat /\ Cardinality(Called(m)) \in Nat
    BY <1>1, <2>1, Counted
  <2>3. Copies(m)' = Copies(m) /\ Copies(k)' = Copies(k)
    BY <1>3 DEF Copies
  <2>4. /\ Offered(m)' \in Nat /\ Offered(m) \in Nat
        /\ Coming(m) = Offered(m) + Cardinality(Made(m))
        /\ Coming(m)' = Offered(m)' + Cardinality(Made(m)')
    BY OfferedNat DEF Offered, Coming, One
  <2>5. Attempts' = Attempts /\ Begun(m) <= Attempts /\ Borne(m) <= Attempts * Attempts
    BY <1>1, <1>2 DEF Attempts, Repeats
  <2>6. Attempts * Attempts \in Nat
    BY <2>2
  <2>7. Made(k)' \subseteq Made(k) /\ Made(m)' \subseteq Made(m)
    BY <1>2 DEF Made
  <2>8. /\ Cardinality(Made(k)') <= Cardinality(Made(k)) /\ Cardinality(Made(k)') \in Nat
        /\ Cardinality(Made(m)') <= Cardinality(Made(m)) /\ Cardinality(Made(m)') \in Nat
    BY <2>2, <2>7, AtMost
  <2>9. Offered(m)' = Offered(m)
    BY <1>1, <1>2, <1>3, Topical, AckedFacts DEF Offered, One
  <2>10. /\ Cardinality(Fetchable(m)') + Cardinality(Called(m)') <= Cardinality(Fetchable(m)) + Cardinality(Called(m))
         /\ Cardinality(Fetchable(m)') \in Nat /\ Cardinality(Called(m)') \in Nat
    <3>1. fetchFrom'["work"] = fetchFrom["work"] + 1 /\ fetchFrom["work"] \in Nat
      BY <1>1, <1>3, Topical, LogFacts
    <3>2. Fetchable(m)' \subseteq Fetchable(m) \ {fetchFrom["work"]}
      BY <1>1, <2>3, <3>1, AckedFacts DEF Fetchable, Copies
    <3>3. CASE m = topicLog["work"][fetchFrom["work"]]
      <4>1. fetchFrom["work"] \in Fetchable(m)
        BY <1>3, <3>1, <3>3 DEF Fetchable, Copies
      <4>2. Called(m)' \subseteq Called(m) \cup {c}
        BY <1>2 DEF Called
      <4>3. Cardinality(Fetchable(m)') + 1 <= Cardinality(Fetchable(m)) /\ Cardinality(Fetchable(m)') \in Nat
        BY <2>2, <3>2, <4>1, OneLess
      <4>4. Cardinality(Called(m)') <= Cardinality(Called(m)) + 1 /\ Cardinality(Called(m)') \in Nat
        BY <2>2, <4>2, OneMore
      <4> QED BY <2>2, <4>3, <4>4
    <3>4. CASE m # topicLog["work"][fetchFrom["work"]]
      <4>1. Fetchable(m)' \subseteq Fetchable(m)
        BY <3>2
      <4>2. Called(m)' \subseteq Called(m)
        BY <1>2, <3>4 DEF Called
      <4>3. Cardinality(Fetchable(m)') <= Cardinality(Fetchable(m)) /\ Cardinality(Fetchable(m)') \in Nat
        BY <2>2, <4>1, AtMost
      <4>4. Cardinality(Called(m)') <= Cardinality(Called(m)) /\ Cardinality(Called(m)') \in Nat
        BY <2>2, <4>2, AtMost
      <4> QED BY <2>2, <4>3, <4>4
    <3> QED BY <3>3, <3>4
  <2>20. /\ Begun(m) = Cardinality(Copies(m)) + Coming(m)
         /\ Begun(m)' = Cardinality(Copies(m)') + Coming(m)'
    BY DEF Begun
  <2>21. /\ Borne(m) = Cardinality(Copies(k)) + Cardinality(Made(k))
                         + Cardinality(Fetchable(m)) + Cardinality(Called(m)) + Coming(m)
         /\ Borne(m)' = Cardinality(Copies(k)') + Cardinality(Made(k)')
                         + Cardinality(Fetchable(m)') + Cardinality(Called(m)') + Coming(m)'
    BY DEF Borne
  <2> HIDE DEF k
  <2>22. Begun(m)' <= Begun(m) /\ Begun(m)' \in Nat /\ Begun(m) \in Nat
    BY <2>2, <2>3, <2>4, <2>8, <2>9, <2>10, <2>20
  <2>23. Borne(m)' <= Borne(m) /\ Borne(m)' \in Nat /\ Borne(m) \in Nat
    BY <2>2, <2>3, <2>4, <2>8, <2>9, <2>10, <2>21
  <2> QED BY <2>2, <2>5, <2>6, <2>22, <2>23
<1> QED
  BY <1>6, <1>7, <1>8, <1>9, <1>10, <1>11, <1>12, <1>13, <1>14 DEF HandoverIInv

\* A request is completed and acknowledged: its children have been yielded.
LEMMA CompleteRequestKeeps ==
    ASSUME HandoverIInv, NEW c \in Cells, CompleteRequest(c)
    PROVE HandoverIInv'
<1>1. /\ Logs /\ RestTypes /\ StartsLeft /\ AckedDone /\ StartCarriedOver
      /\ WorkCarriedOut /\ CellsRecorded /\ YieldedCarried /\ Repeats
  BY DEF HandoverIInv
<1>2. /\ life = "running" /\ life' = life /\ outages' = outages /\ reruns' = reruns
      /\ taken' = taken /\ yieldedStarts' = yieldedStarts
      /\ startMessages' = startMessages
      /\ refused' = refused /\ processed' = processed \cup {inflightMessages[c]}
      /\ cell[c].stage = "leased" /\ Ack("work", inflightMessages[c])
      /\ cell[c].item \in Fruitful => cell[c].yielded
      /\ \A x \in Cells : cell'[x] = IF x = c THEN Vacant ELSE cell[x]
      /\ \A x \in Cells : inflightMessages'[x] = IF x = c THEN 0 ELSE inflightMessages[x]
      /\ cell' = [cell EXCEPT ![c] = Vacant] /\ inflightMessages' = [inflightMessages EXCEPT ![c] = 0]
      /\ inflightMessages[c] \in Nat
  BY <1>1, AckedFacts, CellFacts, ItemFacts DEF CompleteRequest, producer, outcomes, RestTypes
<1>3. /\ Logs' /\ topicLog' = topicLog /\ fetchFrom' = fetchFrom
      /\ \A u \in Topics :
            u # "work" => Acknowledged(u)' = Acknowledged(u) /\ committedTo'[u] = committedTo[u]
      /\ Acknowledged("work")' \subseteq Acknowledged("work") \cup ({inflightMessages[c]} \ {0})
      /\ 1 .. committedTo'["work"] \subseteq
            (1 .. committedTo["work"]) \cup Acknowledged("work") \cup ({inflightMessages[c]} \ {0})
  BY <1>1, <1>2, Topical, ItemFacts, AckLogs
<1>4. \A x \in WorkItems : Carried(x) => Carried(x)'
  BY <1>2, <1>3 DEF Carried, Copies
<1>5. /\ inflightMessages[c] \in 1 .. Len(topicLog["work"])
      /\ topicLog["work"][inflightMessages[c]] = cell[c].item
  BY <1>1, <1>2, CellFacts, AckedFacts DEF CellsRecorded
<1>6. cell[c].item \in Fruitful => Carried(Child(cell[c].item))
  BY <1>1, <1>2 DEF CompleteRequest, YieldedCarried
<1>7. Logs'
  BY <1>3
<1>8. RestTypes'
  <2>1. cell' \in [Cells -> CellTypes]
    BY <1>1, <1>2 DEF RestTypes, CellTypes, CellStages, Vacant, Holding
  <2>2. inflightMessages' \in [Cells -> 0 .. Len(topicLog'["work"])]
    BY <1>1, <1>2, <1>3, AckedFacts DEF RestTypes
  <2> QED BY <1>1, <1>2, <1>3, <1>5, <2>1, <2>2 DEF RestTypes
<1>9. StartsLeft'
  BY <1>1, <1>2 DEF StartsLeft
<1>10. AckedDone'
  <2>1. \A m \in Acknowledged("start")' : Carried(m)'
    BY <1>1, <1>3, <1>4, Topical, AckedFacts, ItemFacts DEF AckedDone
  <2> QED BY <1>1, <1>2, <1>3, <2>1, Topical, AckedFacts DEF AckedDone
<1>11. StartCarriedOver'
  <2>1. committedTo'["start"] = committedTo["start"]
    BY <1>1, <1>3, Topical, AckedFacts
  <2> QED BY <1>1, <1>2, <1>3, <2>1 DEF StartCarriedOver, Copies
<1>12. WorkCarriedOut'
  <2>1. 1 .. committedTo'["work"] \subseteq processed'
    BY <1>1, <1>2, <1>3 DEF WorkCarriedOut, AckedDone
  <2>2. \A o \in processed, m \in Fruitful : topicLog["work"][o] = m => Carried(Child(m))
    BY <1>1 DEF WorkCarriedOut, Carried
  <2>3. \A o \in processed', m \in Fruitful : topicLog["work"][o] = m => Carried(Child(m))'
    BY <1>2, <1>4, <1>5, <1>6, <2>2, ItemFacts
  <2> QED BY <1>3, <2>1, <2>3 DEF WorkCarriedOut, Carried
<1>13. CellsRecorded'
  BY <1>1, <1>2, <1>3 DEF CellsRecorded, Copies, Vacant, Holding
<1>14. YieldedCarried'
  <2>1. \A x \in Cells : cell'[x].stage \in {"made", "leased"} => cell'[x] = cell[x]
    BY <1>2 DEF Vacant, Holding
  <2>2. \A x \in Cells : cell[x].stage = "made" => cell'[x] = cell[x]
    BY <1>2
  <2> QED BY <1>1, <1>2, <1>3, <2>1, <2>2 DEF YieldedCarried, Carried, Copies
<1>15. Repeats'
  <2>1. ASSUME NEW m \in 1 .. StartMessages
        PROVE  /\ Copies(m)' \subseteq Copies(m) /\ Copies(Child(m))' \subseteq Copies(Child(m))
               /\ Made(m)' \subseteq Made(m) /\ Made(Child(m))' \subseteq Made(Child(m))
               /\ Fetchable(m)' \subseteq Fetchable(m) /\ Called(m)' \subseteq Called(m)
               /\ Offered(m)' \in Nat /\ Offered(m)' <= Offered(m)
    <3>1. /\ Copies(m)' = Copies(m) /\ Copies(Child(m))' = Copies(Child(m))
      BY <1>2, <1>3 DEF Copies
    <3>2. /\ Made(m)' \subseteq Made(m) /\ Made(Child(m))' \subseteq Made(Child(m))
          /\ Called(m)' \subseteq Called(m)
      BY <1>2, ItemFacts DEF Made, Called, Vacant, Holding
    <3>3. Fetchable(m)' \subseteq Fetchable(m)
      BY <1>1, <1>3, <3>1, Topical, LogFacts DEF Fetchable, Copies
    <3>4. Offered(m)' \in Nat /\ Offered(m)' <= Offered(m)
      <4>1. fetchFrom["start"] \in Nat /\ fetchFrom'["start"] \in {fetchFrom["start"], fetchFrom["start"] + 1}
        BY <1>1, <1>3, Topical, LogFacts, AckedFacts
      <4> QED BY <1>2, <1>3, <4>1, Topical, ItemFacts DEF Offered, One
    <3> QED BY <3>1, <3>2, <3>3, <3>4
  <2>2. Attempts' = Attempts \/ Attempts' = Attempts + 1
    BY <1>1, <1>2, ItemFacts DEF Attempts, RestTypes
  <2> QED BY <1>1, <2>1, <2>2, NoMore
<1> QED
  BY <1>7, <1>8, <1>9, <1>10, <1>11, <1>12, <1>13, <1>14, <1>15 DEF HandoverIInv

\* A callback yields a child, in a cell that no lease is attached to.
LEMMA YieldChildKeeps ==
    ASSUME HandoverIInv, ~RecycleCells, NEW c \in Cells, NEW d \in Cells, YieldChild(c, d)
    PROVE HandoverIInv'
<1>1. /\ Logs /\ RestTypes /\ StartsLeft /\ AckedDone /\ StartCarriedOver
      /\ WorkCarriedOut /\ CellsRecorded /\ YieldedCarried /\ Repeats
  BY DEF HandoverIInv
<1>2. /\ life = "running" /\ life' = life /\ outages' = outages /\ reruns' = reruns
      /\ taken' = taken /\ yieldedStarts' = yieldedStarts
      /\ startMessages' = startMessages /\ inflightMessages' = inflightMessages
      /\ processed' = processed /\ refused' = refused
      /\ cell[c].stage = "leased" /\ cell[c].item \in Fruitful /\ ~cell[c].yielded
      /\ cell[d].stage = "free" /\ startMessages[d] = 0 /\ c # d
      /\ \A x \in Cells : x # c /\ x # d => cell'[x] = cell[x]
      /\ cell'[d] = [item |-> Child(cell[c].item), stage |-> "made", yielded |-> FALSE]
      /\ cell'[c] = [cell[c] EXCEPT !.yielded = TRUE]
      /\ cell' = [x \in Cells |-> cell'[x]]
  <2> DEFINE v == [item |-> Child(cell[c].item), stage |-> "made", yielded |-> FALSE]
  <2>1. Holding(Child(cell[c].item), "made") = v
    BY DEF Holding
  <2> HIDE DEF v
  <2>2. /\ cell' = [cell EXCEPT ![c].yielded = TRUE, ![d] = v]
        /\ cell[c].stage = "leased" /\ cell[c].item \in Fruitful /\ ~cell[c].yielded
        /\ cell[d].stage = "free" /\ startMessages[d] = 0 /\ c # d
    BY <1>1, <2>1 DEF YieldChild, Usable
  <2>3. /\ \A x \in Cells : x # c /\ x # d => cell'[x] = cell[x]
        /\ cell'[d] = v
        /\ cell'[c] = [cell[c] EXCEPT !.yielded = TRUE]
        /\ cell' = [x \in Cells |-> cell'[x]]
    BY <1>1, <2>2 DEF RestTypes
  <2> QED BY <1>1, <2>2, <2>3 DEF YieldChild, producer, outcomes, v
<1>3. /\ Logs' /\ topicLog' = topicLog /\ committedTo' = committedTo /\ fetchFrom' = fetchFrom
      /\ \A u \in Topics : Acknowledged(u)' = Acknowledged(u)
  <2>1. /\ topicLog' = topicLog /\ committedTo' = committedTo /\ fetchFrom' = fetchFrom
        /\ leasedOf' = leasedOf
    BY <1>1 DEF YieldChild, logs
  <2>2. LogTypes' /\ LeasesRun'
    BY <1>1, <2>1 DEF Logs, LogTypes, LeasesRun
  <2>3. Logged'
    BY <1>1, <2>1 DEF Logs, Logged
  <2>4. \A u \in Topics : Acknowledged(u)' = Acknowledged(u)
    BY <2>1 DEF Acknowledged
  <2> QED BY <2>1, <2>2, <2>3, <2>4 DEF Logs
<1>4. \A x \in WorkItems : Carried(x) => Carried(x)'
  BY <1>2, <1>3 DEF Carried, Copies
<1>5. cell[c].item \in 1 .. StartMessages /\ Child(cell[c].item) \in WorkItems
  BY <1>2, ItemFacts
<1>6. /\ cell'[c].stage = "leased" /\ cell'[c].item = cell[c].item /\ cell'[c].yielded = TRUE
      /\ cell'[c] \in CellTypes
  <2>1. cell[c] \in CellTypes
    BY <1>1, CellFacts
  <2> QED BY <1>2, <2>1 DEF CellTypes, CellStages
<1>7. /\ cell'[d].stage = "made" /\ cell'[d].item = Child(cell[c].item) /\ cell'[d].yielded = FALSE
      /\ cell'[d] \in CellTypes
  BY <1>2, <1>5 DEF CellTypes, CellStages
<1>8. \A x \in Cells : \/ x = c \/ x = d \/ cell'[x] = cell[x]
  BY <1>2
<1>9. Logs'
  BY <1>3
<1>10. RestTypes'
  <2>1. cell' \in [Cells -> CellTypes]
    BY <1>1, <1>2, <1>6, <1>7 DEF RestTypes
  <2> QED BY <1>1, <1>2, <1>3, <2>1 DEF RestTypes
<1>11. StartsLeft'
  BY <1>1, <1>2 DEF StartsLeft
<1>12. AckedDone'
  BY <1>1, <1>2, <1>3, Topical DEF AckedDone, Carried, Copies
<1>13. StartCarriedOver'
  BY <1>1, <1>2, <1>3 DEF StartCarriedOver, Copies
<1>14. WorkCarriedOut'
  BY <1>1, <1>2, <1>3 DEF WorkCarriedOut, Copies
<1>15. CellsRecorded'
  <2> SUFFICES ASSUME NEW x \in Cells
               PROVE  /\ cell'[x].stage = "free" <=> cell'[x].item = 0
                      /\ cell'[x].stage \in {"made", "stored"} => startMessages'[x] \in {0, cell'[x].item}
                      /\ cell'[x].stage = "stored" => Copies(cell[x].item) # {} /\ cell'[x].item = cell[x].item
                      /\ cell'[x].stage = "leased" => /\ inflightMessages'[x] # 0
                                                      /\ topicLog'["work"][inflightMessages'[x]] = cell'[x].item
    BY <1>3 DEF CellsRecorded, Copies
  <2>1. CASE x = c
    BY <1>1, <1>2, <1>3, <1>6, <2>1 DEF CellsRecorded
  <2>2. CASE x = d
    BY <1>1, <1>2, <1>5, <1>7, <2>2, ItemFacts
  <2>3. CASE cell'[x] = cell[x]
    BY <1>1, <1>2, <1>3, <2>3 DEF CellsRecorded
  <2> QED BY <1>8, <2>1, <2>2, <2>3
<1>16. YieldedCarried'
  <2> SUFFICES ASSUME NEW x \in Cells, NEW m \in Fruitful,
                      cell'[x].stage = "leased", cell'[x].yielded, cell'[x].item = m
               PROVE  \/ Carried(Child(m))'
                      \/ \E e \in Cells : cell'[e].stage = "made" /\ cell'[e].item = Child(m)
    BY DEF YieldedCarried
  <2>1. CASE x = c
    BY <1>6, <1>7, <2>1
  <2>2. CASE x # c
    <3>1. cell'[x] = cell[x]
      BY <1>7, <1>8, <2>2
    <3>2. Child(m) \in WorkItems
      BY ItemFacts
    <3>3. Carried(Child(m)) \/ \E e \in Cells : cell[e].stage = "made" /\ cell[e].item = Child(m)
      BY <1>1, <3>1 DEF YieldedCarried
    <3>4. ASSUME NEW e \in Cells, cell[e].stage = "made", cell[e].item = Child(m)
          PROVE  \E f \in Cells : cell'[f].stage = "made" /\ cell'[f].item = Child(m)
      BY <1>2, <1>8, <3>4
    <3> QED BY <1>4, <3>2, <3>3, <3>4
  <2> QED BY <2>1, <2>2
<1>17. Repeats'
  <2> SUFFICES ASSUME NEW m \in 1 .. StartMessages
               PROVE  Begun(m)' <= Attempts' /\ Borne(m)' <= Attempts' * Attempts'
    BY DEF Repeats
  <2> DEFINE k == Child(m)
  <2>1. m \in WorkItems /\ k \in WorkItems /\ m # k
    BY ItemFacts
  <2>2. /\ IsFiniteSet(Copies(m)) /\ IsFiniteSet(Copies(k)) /\ IsFiniteSet(Made(m)) /\ IsFiniteSet(Made(k))
        /\ IsFiniteSet(Fetchable(m)) /\ IsFiniteSet(Called(m)) /\ Attempts \in Nat
        /\ Cardinality(Copies(m)) \in Nat /\ Cardinality(Copies(k)) \in Nat
        /\ Cardinality(Made(m)) \in Nat /\ Cardinality(Made(k)) \in Nat
        /\ Cardinality(Fetchable(m)) \in Nat /\ Cardinality(Called(m)) \in Nat
    BY <1>1, <2>1, Counted
  <2>3. Copies(m)' = Copies(m) /\ Copies(k)' = Copies(k)
    BY <1>3 DEF Copies
  <2>4. /\ Offered(m)' \in Nat /\ Offered(m) \in Nat
        /\ Coming(m) = Offered(m) + Cardinality(Made(m))
        /\ Coming(m)' = Offered(m)' + Cardinality(Made(m)')
    BY OfferedNat DEF Offered, Coming, One
  <2>5. Attempts' = Attempts /\ Begun(m) <= Attempts /\ Borne(m) <= Attempts * Attempts
    BY <1>1, <1>2 DEF Attempts, Repeats
  <2>6. Attempts * Attempts \in Nat
    BY <2>2
  <2>7. Made(m)' \subseteq Made(m) /\ Fetchable(m)' \subseteq Fetchable(m)
    BY <1>3, <1>5, <1>6, <1>7, <1>8, <2>3, ItemFacts DEF Made, Fetchable
  <2>8. /\ Cardinality(Made(m)') <= Cardinality(Made(m)) /\ Cardinality(Made(m)') \in Nat
        /\ Cardinality(Fetchable(m)') <= Cardinality(Fetchable(m)) /\ Cardinality(Fetchable(m)') \in Nat
    BY <2>2, <2>7, AtMost
  <2>9. Offered(m)' = Offered(m)
    BY <1>2, <1>3 DEF Offered
  <2>10. /\ Cardinality(Made(k)') + Cardinality(Called(m)') <= Cardinality(Made(k)) + Cardinality(Called(m))
         /\ Cardinality(Made(k)') \in Nat /\ Cardinality(Called(m)') \in Nat
    <3>1. CASE m = cell[c].item
      <4>1. c \in Called(m) /\ Called(m)' \subseteq Called(m) \ {c}
        BY <1>2, <1>6, <1>7, <1>8, <3>1 DEF Called
      <4>2. Made(k)' \subseteq Made(k) \cup {d}
        BY <1>6, <1>8 DEF Made
      <4>3. Cardinality(Called(m)') + 1 <= Cardinality(Called(m)) /\ Cardinality(Called(m)') \in Nat
        BY <2>2, <4>1, OneLess
      <4>4. Cardinality(Made(k)') <= Cardinality(Made(k)) + 1 /\ Cardinality(Made(k)') \in Nat
        BY <2>2, <4>2, OneMore
      <4> QED BY <2>2, <4>3, <4>4
    <3>2. CASE m # cell[c].item
      <4>1. Called(m)' \subseteq Called(m)
        BY <1>6, <1>7, <1>8 DEF Called
      <4>2. Made(k)' \subseteq Made(k)
        BY <1>5, <1>6, <1>7, <1>8, <3>2, ItemFacts DEF Made
      <4>3. Cardinality(Called(m)') <= Cardinality(Called(m)) /\ Cardinality(Called(m)') \in Nat
        BY <2>2, <4>1, AtMost
      <4>4. Cardinality(Made(k)') <= Cardinality(Made(k)) /\ Cardinality(Made(k)') \in Nat
        BY <2>2, <4>2, AtMost
      <4> QED BY <2>2, <4>3, <4>4
    <3> QED BY <3>1, <3>2
  <2>20. /\ Begun(m) = Cardinality(Copies(m)) + Coming(m)
         /\ Begun(m)' = Cardinality(Copies(m)') + Coming(m)'
    BY DEF Begun
  <2>21. /\ Borne(m) = Cardinality(Copies(k)) + Cardinality(Made(k))
                         + Cardinality(Fetchable(m)) + Cardinality(Called(m)) + Coming(m)
         /\ Borne(m)' = Cardinality(Copies(k)') + Cardinality(Made(k)')
                         + Cardinality(Fetchable(m)') + Cardinality(Called(m)') + Coming(m)'
    BY DEF Borne
  <2> HIDE DEF k
  <2>22. Begun(m)' <= Begun(m) /\ Begun(m)' \in Nat /\ Begun(m) \in Nat
    BY <2>2, <2>3, <2>4, <2>8, <2>9, <2>10, <2>20
  <2>23. Borne(m)' <= Borne(m) /\ Borne(m)' \in Nat /\ Borne(m) \in Nat
    BY <2>2, <2>3, <2>4, <2>8, <2>9, <2>10, <2>21
  <2> QED BY <2>2, <2>5, <2>6, <2>22, <2>23
<1> QED
  BY <1>9, <1>10, <1>11, <1>12, <1>13, <1>14, <1>15, <1>16, <1>17 DEF
         HandoverIInv

\* A step of another component.
LEMMA HandoverStays ==
    ASSUME HandoverIInv, UNCHANGED handoverVars
    PROVE  HandoverIInv'
<1>1. /\ Logs /\ RestTypes /\ StartsLeft /\ AckedDone /\ StartCarriedOver
      /\ WorkCarriedOut /\ CellsRecorded /\ YieldedCarried /\ Repeats
  BY DEF HandoverIInv
<1>2. /\ topicLog' = topicLog /\ committedTo' = committedTo /\ fetchFrom' = fetchFrom
      /\ leasedOf' = leasedOf
      /\ taken' = taken /\ yieldedStarts' = yieldedStarts
      /\ cell' = cell /\ startMessages' = startMessages /\ inflightMessages' = inflightMessages
      /\ processed' = processed /\ refused' = refused
      /\ life' = life /\ outages' = outages /\ reruns' = reruns
  BY DEF handoverVars, logs, producer, records, outcomes
<1>3. Logs'
  <2>1. LogTypes' /\ LeasesRun'
    BY <1>1, <1>2 DEF Logs, LogTypes, LeasesRun
  <2>2. Logged'
    BY <1>1, <1>2 DEF Logs, Logged
  <2> QED BY <2>1, <2>2 DEF Logs
<1>4. RestTypes' /\ StartsLeft'
  BY <1>1, <1>2 DEF RestTypes, StartsLeft
<1>5. AckedDone'
  BY <1>1, <1>2 DEF AckedDone, Acknowledged, Carried, Copies
<1>6. StartCarriedOver' /\ WorkCarriedOut'
  BY <1>1, <1>2 DEF StartCarriedOver, WorkCarriedOut, Copies
<1>7. CellsRecorded' /\ YieldedCarried'
  BY <1>1, <1>2 DEF CellsRecorded, YieldedCarried, Carried, Copies
<1>8. Repeats'
  <2>1. ASSUME NEW m \in 1 .. StartMessages
        PROVE  Begun(m)' = Begun(m) /\ Borne(m)' = Borne(m) /\ Attempts' = Attempts
    BY <1>2 DEF Begun, Borne, Coming, Copies, Made, Fetchable, Called, One, Attempts
  <2> QED BY <1>1, <2>1 DEF Repeats
<1> QED BY <1>3, <1>4, <1>5, <1>6, <1>7, <1>8 DEF HandoverIInv

\* At the start nothing is in the work topic, and each message is still to be fetched.
LEMMA HandoverBegins == HandoverInit => HandoverIInv
<1> SUFFICES ASSUME HandoverInit PROVE HandoverIInv
  OBVIOUS
<1>1. /\ topicLog["work"] = <<>> /\ Len(topicLog["work"]) = 0
      /\ topicLog["start"] = [m \in 1 .. StartMessages |-> m]
      /\ fetchFrom["start"] = 1 /\ fetchFrom["work"] = 1
      /\ committedTo["start"] = 0 /\ committedTo["work"] = 0
      /\ leasedOf["start"] = <<>> /\ leasedOf["work"] = <<>>
  BY Topical DEF HandoverInit
<1>2. /\ taken = 0 /\ yieldedStarts = 0 /\ processed = {} /\ refused = {} /\ life = "running"
      /\ outages = 0 /\ reruns = 0
      /\ \A c \in Cells : cell[c] = Vacant /\ startMessages[c] = 0 /\ inflightMessages[c] = 0
      /\ cell = [c \in Cells |-> Vacant]
      /\ startMessages = [c \in Cells |-> 0] /\ inflightMessages = [c \in Cells |-> 0]
  BY DEF HandoverInit
<1>3. Vacant.item = 0 /\ Vacant.stage = "free" /\ Vacant \in CellTypes
  BY DEF Vacant, Holding, CellTypes, CellStages
<1>4. topicLog["start"] \in Seq(WorkItems) /\ Len(topicLog["start"]) = StartMessages
  <2>1. topicLog["start"] \in [1 .. StartMessages -> WorkItems]
    BY <1>1, ItemFacts
  <2>2. topicLog["start"] \in Seq(WorkItems)
    BY <2>1, ItemFacts, SeqDef
  <2> QED BY <1>1, <2>2, ItemFacts, LenProperties
<1>5. Logs
  <2>1. ASSUME NEW t \in Topics
        PROVE  /\ topicLog[t] \in Seq(WorkItems)
               /\ fetchFrom[t] \in 1 .. Len(topicLog[t]) + 1
               /\ committedTo[t] \in 0 .. Len(topicLog[t])
               /\ leasedOf[t] \in Seq(Lease(Len(topicLog[t])))
               /\ Len(leasedOf[t]) = fetchFrom[t] - 1 - committedTo[t]
               /\ \A k \in 1 .. Len(leasedOf[t]) : leasedOf[t][k].offset = committedTo[t] + k
    <3>1. /\ topicLog[t] \in Seq(WorkItems) /\ Len(topicLog[t]) \in Nat
          /\ fetchFrom[t] = 1 /\ committedTo[t] = 0 /\ leasedOf[t] = <<>>
      <4>1. CASE t = "start"
        BY <1>1, <1>4, <4>1, ItemFacts
      <4>2. CASE t = "work"
        BY <1>1, <4>2, EmptySeq
      <4> QED BY <4>1, <4>2, Topical
    <3>2. Len(leasedOf[t]) = 0 /\ leasedOf[t] \in Seq(Lease(Len(topicLog[t])))
      BY <3>1, EmptySeq
    <3> HIDE DEF Lease
    <3> QED BY <3>1, <3>2
  <2>2. LogTypes
    BY <2>1 DEF LogTypes, Lease
  <2>3. LeasesRun
    BY <2>1 DEF LeasesRun
  <2>4. Logged
    BY <1>1 DEF HandoverInit, Logged
  <2> QED BY <2>2, <2>3, <2>4 DEF Logs
<1>6. RestTypes /\ StartsLeft
  BY <1>1, <1>2, <1>3, ItemFacts DEF RestTypes, StartsLeft
<1>7. AckedDone
  BY <1>1 DEF AckedDone, Acknowledged
<1>8. StartCarriedOver /\ WorkCarriedOut
  BY <1>1, <1>2 DEF StartCarriedOver, WorkCarriedOut
<1>9. CellsRecorded /\ YieldedCarried
  BY <1>2, <1>3 DEF CellsRecorded, YieldedCarried
<1>10. Repeats
  <2> SUFFICES ASSUME NEW m \in 1 .. StartMessages
               PROVE  Begun(m) <= Attempts /\ Borne(m) <= Attempts * Attempts
    BY DEF Repeats
  <2>1. /\ \A x : Copies(x) = {}
        /\ Made(m) = {} /\ Made(Child(m)) = {} /\ Called(m) = {}
    BY <1>1, <1>2, <1>3 DEF Copies, Made, Called
  <2>2. Fetchable(m) = {}
    BY <2>1 DEF Fetchable
  <2>3. Cardinality({}) = 0
    BY FS_EmptySet
  <2>4. One(taken = m) = 0 /\ One(fetchFrom["start"] <= m) \in 0 .. 1
    BY <1>2 DEF One
  <2>5. Coming(m) \in 0 .. 1
    BY <2>1, <2>3, <2>4 DEF Coming
  <2>6. Begun(m) <= 1 /\ Borne(m) <= 1
    BY <2>1, <2>2, <2>3, <2>5 DEF Begun, Borne
  <2>7. Attempts = 1 /\ Attempts * Attempts = 1
    BY <1>2 DEF Attempts
  <2> QED BY <2>6, <2>7
<1> QED BY <1>5, <1>6, <1>7, <1>8, <1>9, <1>10 DEF HandoverIInv

\* Every step, when the id of a request that is recorded is not given to another.
LEMMA HandoverKeeps ==
    ASSUME HandoverIInv, ~RecycleCells, [HandoverNext]_handoverVars
    PROVE  HandoverIInv'
<1>1. CASE ReplaceClient \/ GetStartReq \/ AckStartReq \/ GetFails \/ StopCrawler \/ Rerun
  BY <1>1, ReplaceClientKeeps, GetStartReqKeeps, AckStartReqKeeps, GetFailsKeeps,
     StopCrawlerKeeps, RerunKeeps
<1>2. ASSUME NEW c \in Cells,
             AttachStartReq(c) \/ PutRefused(c) \/ PutPush(c) \/ PutFails(c)
                \/ PutAck(c) \/ GetRequest(c) \/ CompleteRequest(c)
      PROVE  HandoverIInv'
  BY <1>2, AttachStartReqKeeps, PutRefusedKeeps, PutPushKeeps, PutFailsKeeps, PutAckKeeps,
     GetRequestKeeps, CompleteRequestKeeps
<1>3. ASSUME NEW c \in Cells, NEW d \in Cells, YieldChild(c, d) PROVE HandoverIInv'
  BY <1>3, YieldChildKeeps
<1>4. CASE UNCHANGED handoverVars
  BY <1>4, HandoverStays
<1> QED BY <1>1, <1>2, <1>3, <1>4 DEF HandoverNext

\* What is checked follows.
LEMMA HandoverImplies == HandoverIInv => HandoverKept
<1> SUFFICES ASSUME HandoverIInv PROVE HandoverKept
  OBVIOUS
<1>1. /\ Logs /\ RestTypes /\ StartsLeft /\ AckedDone /\ StartCarriedOver
      /\ WorkCarriedOut /\ CellsRecorded /\ YieldedCarried /\ Repeats
  BY DEF HandoverIInv
<1>2. HandoverTypeOK
  BY <1>1, HandoverTyped DEF Logs
<1>3. ASSUME NEW m \in 1 .. StartMessages
      PROVE  /\ Cardinality(Copies(m)) <= Attempts
             /\ Cardinality(Copies(Child(m))) <= Attempts * Attempts
  <2>1. m \in WorkItems /\ Child(m) \in WorkItems
    BY ItemFacts
  <2>2. /\ Cardinality(Copies(m)) \in Nat /\ Cardinality(Made(m)) \in Nat
        /\ Cardinality(Copies(Child(m))) \in Nat /\ Cardinality(Made(Child(m))) \in Nat
        /\ Cardinality(Fetchable(m)) \in Nat /\ Cardinality(Called(m)) \in Nat /\ Attempts \in Nat
    BY <1>1, <2>1, Counted
  <2>3. Coming(m) \in Nat
    BY <2>2 DEF Coming, One
  <2>4. Begun(m) <= Attempts /\ Borne(m) <= Attempts * Attempts /\ Attempts * Attempts \in Nat
    BY <1>1, <2>2 DEF Repeats
  <2>5. Begun(m) \in Nat /\ Cardinality(Copies(m)) <= Begun(m)
    BY <2>2, <2>3 DEF Begun
  <2>6. Borne(m) \in Nat /\ Cardinality(Copies(Child(m))) <= Borne(m)
    BY <2>2, <2>3 DEF Borne
  <2> QED BY <2>2, <2>4, <2>5, <2>6
<1>4. RepeatedByFailuresOnly
  BY <1>3 DEF RepeatedByFailuresOnly, Attempts
<1> QED BY <1>1, <1>2, <1>4 DEF HandoverKept

---------------------------------------------------------------------------
(* EventStream.                                                            *)

SseValues == {ln.value : ln \in SseLines}
SseEvents == [data : Seq(SseValues), event : SseValues \cup {"message"},
              id : SseValues \cup {"none"}, retry : {"none", "digits"}]
SseParsers == [data : Seq(SseValues), event : SseValues \cup {"message"},
               id : SseValues \cup {"none"}, retry : {"none", "digits"}, size : Nat]

\* What the parser holds is the event of the lines since the last empty one.
ParserCurrent ==
    streamEnd = "open" => EventOf(received, Len(received) + 1, SseEvent(parser))

EventStreamIInv ==
    /\ received \in Seq(SseLines) /\ yielded \in Seq(SseEvents) /\ parser \in SseParsers
    /\ streamEnd \in {"open", "ended", "raised"}
    /\ ParserCurrent
    /\ SseExact

\* One position more, behind those that f goes through.
LEMMA ThroughMore ==
    ASSUME NEW n \in Nat, NEW S, S \subseteq Nat, NEW p \in Nat, \A j \in S : j < p,
           NEW f \in [1 .. n -> S], Through(f, S),
           NEW g, g = [k \in 1 .. n + 1 |-> IF k <= n THEN f[k] ELSE p]
    PROVE  g \in [1 .. n + 1 -> S \cup {p}] /\ Through(g, S \cup {p})
<1>1. \A k \in 1 .. n + 1 : g[k] = IF k <= n THEN f[k] ELSE p
  OBVIOUS
<1>2. \A k \in 1 .. n : k \in 1 .. n + 1 /\ f[k] \in S /\ g[k] = f[k]
  BY <1>1
<1>3. n + 1 \in 1 .. n + 1 /\ g[n + 1] = p
  BY <1>1
<1>4. \A k \in 1 .. n + 1 : k \in 1 .. n \/ k = n + 1
  OBVIOUS
<1>5. g \in [1 .. n + 1 -> S \cup {p}]
  BY <1>1
<1>6. ASSUME NEW j \in 1 .. n + 1, NEW k \in 1 .. n + 1, j < k PROVE g[j] < g[k]
  <2>1. j \in 1 .. n
    BY <1>6
  <2>2. CASE k \in 1 .. n
    BY <1>2, <1>6, <2>1, <2>2 DEF Through
  <2>3. CASE k = n + 1
    BY <1>2, <1>3, <2>1, <2>3
  <2> QED BY <1>4, <2>2, <2>3
<1>7. ASSUME NEW i \in S \cup {p} PROVE \E k \in 1 .. n + 1 : g[k] = i
  <2>1. CASE i \in S
    BY <1>2, <2>1 DEF Through
  <2>2. CASE i = p
    BY <1>3, <2>2
  <2> QED BY <2>1, <2>2
<1> QED BY <1>5, <1>6, <1>7 DEF Through

\* Nothing is gone through in no steps.
LEMMA ThroughNone ==
    ASSUME NEW lines
    PROVE  InOrder(lines, {}, <<>>)
<1> DEFINE f == [k \in 1 .. 0 |-> 0]
<1>1. f \in [1 .. Len(<<>>) -> {}] /\ Through(f, {}) /\ 1 .. Len(<<>>) = {}
  BY DEF Through
<1> QED BY <1>1 DEF InOrder

\* A list of values is empty just when it is that of no lines.
LEMMA EmptyOrder ==
    ASSUME NEW lines, NEW S, NEW values \in Seq(SseValues), InOrder(lines, S, values)
    PROVE  values = <<>> <=> S = {}
<1>1. PICK f \in [1 .. Len(values) -> S] : Through(f, S)
  BY DEF InOrder
<1>2. CASE values = <<>>
  BY <1>1, <1>2 DEF Through
<1>3. CASE S = {}
  BY <1>1, <1>3
<1> QED BY <1>2, <1>3

\* One line more: the lines before it are the same lines.
LEMMA LinesBefore ==
    ASSUME NEW lines \in Seq(SseLines), NEW ln \in SseLines, NEW more,
           more = Append(lines, ln)
    PROVE  /\ more \in Seq(SseLines) /\ Len(more) = Len(lines) + 1 /\ Len(lines) \in Nat
           /\ more[Len(lines) + 1] = ln
           /\ \A j \in 1 .. Len(lines) : more[j] = lines[j]
OBVIOUS

\* What was a block stays it.
LEMMA EarlierBlocks ==
    ASSUME NEW lines \in Seq(SseLines), NEW ln \in SseLines, NEW more,
           more = Append(lines, ln), NEW i \in 1 .. Len(lines) + 1
    PROVE  /\ \A j \in 1 .. i - 1 : more[j] = lines[j]
           /\ Block(more, i) = Block(lines, i) /\ Block(lines, i) \subseteq 1 .. i - 1
           /\ WithName(more, Block(more, i), "data") = WithName(lines, Block(lines, i), "data")
<1>1. \A j \in 1 .. i - 1 : more[j] = lines[j]
  BY LinesBefore
<1>2. Block(more, i) = Block(lines, i) /\ Block(lines, i) \subseteq 1 .. i - 1
  BY <1>1 DEF Block
<1>3. WithName(more, Block(more, i), "data") = WithName(lines, Block(lines, i), "data")
  BY <1>1, <1>2 DEF WithName
<1> QED BY <1>1, <1>2, <1>3

\* What was the event of a block stays it.
LEMMA EarlierEvents ==
    ASSUME NEW lines \in Seq(SseLines), NEW ln \in SseLines, NEW more,
           more = Append(lines, ln), NEW i \in 1 .. Len(lines) + 1, NEW e,
           EventOf(lines, i, e)
    PROVE  EventOf(more, i, e)
<1>1. \A j \in 1 .. i - 1 : more[j] = lines[j]
  BY EarlierBlocks
<1>2. Block(more, i) = Block(lines, i) /\ Block(lines, i) \subseteq 1 .. i - 1
  BY EarlierBlocks
<1>3. \A S, field : S \subseteq 1 .. i - 1 => WithName(more, S, field) = WithName(lines, S, field)
  BY <1>1 DEF WithName
<1>4. ASSUME NEW S, S \subseteq 1 .. i - 1, NEW values, InOrder(lines, S, values)
      PROVE  InOrder(more, S, values)
  <2>1. PICK f \in [1 .. Len(values) -> S] :
          Through(f, S) /\ \A k \in 1 .. Len(values) : values[k] = lines[f[k]].value
    BY <1>4 DEF InOrder
  <2>2. \A k \in 1 .. Len(values) : values[k] = more[f[k]].value
    BY <1>1, <1>4, <2>1
  <2> QED BY <2>1, <2>2 DEF InOrder
<1>5. ASSUME NEW S, S \subseteq 1 .. i - 1, NEW default, NEW v, LatestIs(lines, S, default, v)
      PROVE  LatestIs(more, S, default, v)
  BY <1>1, <1>5 DEF LatestIs
<1>6. EventOf(more, i, e)
  <2> DEFINE block == Block(lines, i)
             told == {j \in WithName(lines, block, "retry") : lines[j].value = "digits"}
  <2>1. \A field : /\ WithName(more, block, field) = WithName(lines, block, field)
                   /\ WithName(lines, block, field) \subseteq 1 .. i - 1
    BY <1>2, <1>3 DEF WithName
  <2>2. told = {j \in WithName(more, block, "retry") : more[j].value = "digits"} /\ told \subseteq 1 .. i - 1
    BY <1>1, <2>1
  <2>3. InOrder(more, WithName(more, block, "data"), e.data)
    BY <1>4, <2>1 DEF EventOf
  <2>4. /\ e.event # ""
        /\ \/ LatestIs(more, WithName(more, block, "event"), "message", e.event)
           \/ e.event = "message" /\ LatestIs(more, WithName(more, block, "event"), "message", "")
    BY <1>5, <2>1 DEF EventOf
  <2>5. LatestIs(more, IdLines(more, i - 1), "none", e.id)
    <3>1. IdLines(more, i - 1) = IdLines(lines, i - 1) /\ IdLines(lines, i - 1) \subseteq 1 .. i - 1
      BY <1>1 DEF IdLines
    <3>2. LatestIs(lines, IdLines(lines, i - 1), "none", e.id)
      BY DEF EventOf
    <3> QED BY <1>5, <3>1, <3>2
  <2>6. LatestIs(more, told, "none", e.retry)
    BY <1>5, <2>2 DEF EventOf
  <2> HIDE DEF told
  <2> QED BY <1>2, <2>2, <2>3, <2>4, <2>5, <2>6 DEF EventOf, told
<1> QED BY <1>6

\* Which blocks have ended: with a line more.
LEMMA EndsMore ==
    ASSUME NEW lines \in Seq(SseLines), NEW ln \in SseLines, NEW more,
           more = Append(lines, ln), NEW to \in {"open", "raised"}
    PROVE  Ends(more, to) =
             IF /\ ln.field = "blank"
                /\ WithName(lines, Block(lines, Len(lines) + 1), "data") # {}
             THEN Ends(lines, "open") \cup {Len(lines) + 1}
             ELSE Ends(lines, "open")
<1> DEFINE n == Len(lines)
           Has(i) == WithName(lines, Block(lines, i), "data") # {}
<1>1. n \in Nat /\ Len(more) = n + 1 /\ more[n + 1] = ln
      /\ \A j \in 1 .. n : more[j] = lines[j]
  BY LinesBefore
<1>2. \A i \in 1 .. n + 1 : WithName(more, Block(more, i), "data") = WithName(lines, Block(lines, i), "data")
  BY EarlierBlocks
<1> HIDE DEF Has
<1>3. Ends(more, to) = {i \in 1 .. n + 1 : more[i].field = "blank" /\ Has(i)}
  BY <1>1, <1>2 DEF Ends, Has
<1>4. Ends(lines, "open") = {i \in 1 .. n : lines[i].field = "blank" /\ Has(i)}
  BY <1>1 DEF Ends, Has
<1>5. Ends(more, to) = IF ln.field = "blank" /\ Has(n + 1) THEN Ends(lines, "open") \cup {n + 1}
                       ELSE Ends(lines, "open")
  <2> HIDE DEF n
  <2>1. \A i \in 1 .. n : i \in Ends(more, to) <=> i \in Ends(lines, "open")
    BY <1>1, <1>3, <1>4
  <2>2. n + 1 \in Ends(more, to) <=> (ln.field = "blank" /\ Has(n + 1))
    BY <1>1, <1>3
  <2>3. 1 .. n + 1 = 1 .. n \cup {n + 1}
    BY <1>1
  <2>4. Ends(more, to) \subseteq 1 .. n + 1 /\ Ends(lines, "open") \subseteq 1 .. n
    BY <1>3, <1>4
  <2> QED
    <3> HIDE DEF Has
    <3>1. CASE ln.field = "blank" /\ Has(n + 1)
      BY <2>1, <2>2, <2>3, <2>4, <3>1
    <3>2. CASE ~(ln.field = "blank" /\ Has(n + 1))
      <4>1. Ends(more, to) = Ends(lines, "open")
        <5>1. n + 1 \notin Ends(more, to)
          BY <2>2, <3>2
        <5> QED BY <2>1, <2>3, <2>4, <5>1
      <4> QED BY <3>2, <4>1
    <3> QED BY <3>1, <3>2
<1> QED BY <1>5 DEF Has

\* With the stream.
LEMMA EndsOver ==
    ASSUME NEW lines \in Seq(SseLines)
    PROVE  Ends(lines, "ended") =
             IF WithName(lines, Block(lines, Len(lines) + 1), "data") # {}
             THEN Ends(lines, "open") \cup {Len(lines) + 1}
             ELSE Ends(lines, "open")
<1> DEFINE n == Len(lines)
           Has(i) == WithName(lines, Block(lines, i), "data") # {}
<1>1. n \in Nat
  OBVIOUS
<1>2. Ends(lines, "ended") = {i \in 1 .. n + 1 : (i <= n => lines[i].field = "blank") /\ Has(i)}
  BY <1>1 DEF Ends
<1>3. Ends(lines, "open") = {i \in 1 .. n : lines[i].field = "blank" /\ Has(i)}
  BY <1>1 DEF Ends
<1> HIDE DEF Has
<1>4. Ends(lines, "ended") = IF Has(n + 1) THEN Ends(lines, "open") \cup {n + 1} ELSE Ends(lines, "open")
  <2> HIDE DEF n
  <2>1. \A i \in 1 .. n : i \in Ends(lines, "ended") <=> i \in Ends(lines, "open")
    BY <1>1, <1>2, <1>3
  <2>2. n + 1 \in Ends(lines, "ended") <=> Has(n + 1)
    BY <1>1, <1>2
  <2>3. 1 .. n + 1 = 1 .. n \cup {n + 1} /\ n + 1 \notin 1 .. n
    BY <1>1
  <2>4. Ends(lines, "ended") \subseteq 1 .. n + 1 /\ Ends(lines, "open") \subseteq 1 .. n
    BY <1>2, <1>3
  <2> QED BY <2>1, <2>2, <2>3, <2>4
<1> QED BY <1>4 DEF Has

\* The exactness of one moment as a fact about any lines and events.
Exact(lines, events, end) ==
    \E f \in [1 .. Len(events) -> end] :
        Through(f, end) /\ \A k \in 1 .. Len(events) : EventOf(lines, f[k], events[k])

\* It stays exact when a line is read.
LEMMA ExactLater ==
    ASSUME NEW lines \in Seq(SseLines), NEW ln \in SseLines, NEW events,
           NEW E, E \subseteq 1 .. Len(lines) + 1, Exact(lines, events, E)
    PROVE  Exact(Append(lines, ln), events, E)
<1>1. PICK f \in [1 .. Len(events) -> E] :
        Through(f, E) /\ \A k \in 1 .. Len(events) : EventOf(lines, f[k], events[k])
  BY DEF Exact
<1>2. \A k \in 1 .. Len(events) : EventOf(Append(lines, ln), f[k], events[k])
  BY <1>1, EarlierEvents
<1> QED BY <1>1, <1>2 DEF Exact

\* It is exact with one event more.
LEMMA ExactMore ==
    ASSUME NEW lines \in Seq(SseLines), NEW events \in Seq(SseEvents), NEW e \in SseEvents,
           Exact(lines, events, Ends(lines, "open")), EventOf(lines, Len(lines) + 1, e)
    PROVE  Exact(lines, Append(events, e), Ends(lines, "open") \cup {Len(lines) + 1})
<1> DEFINE E == Ends(lines, "open")
           n == Len(events)
           p == Len(lines) + 1
<1>1. PICK f \in [1 .. n -> E] : Through(f, E) /\ \A k \in 1 .. n : EventOf(lines, f[k], events[k])
  BY DEF Exact
<1>2. E \subseteq Nat /\ p \in Nat /\ \A j \in E : j < p
  BY DEF Ends
<1>3. n \in Nat
  OBVIOUS
<1> DEFINE g == [k \in 1 .. n + 1 |-> IF k <= n THEN f[k] ELSE p]
<1>4. g \in [1 .. n + 1 -> E \cup {p}] /\ Through(g, E \cup {p})
  <2> HIDE DEF E, n, p
  <2> QED BY <1>1, <1>2, <1>3, ThroughMore
<1>5. Len(Append(events, e)) = n + 1 /\ Append(events, e)[n + 1] = e
      /\ \A k \in 1 .. n : Append(events, e)[k] = events[k]
  OBVIOUS
<1>6. \A k \in 1 .. n + 1 : EventOf(lines, g[k], Append(events, e)[k])
  <2> SUFFICES ASSUME NEW k \in 1 .. n + 1 PROVE EventOf(lines, g[k], Append(events, e)[k])
    OBVIOUS
  <2>1. CASE k \in 1 .. n
    <3>1. g[k] = f[k] /\ Append(events, e)[k] = events[k]
      BY <1>3, <1>5, <2>1
    <3> QED BY <1>1, <2>1, <3>1
  <2>2. CASE k = n + 1
    <3>1. g[k] = p /\ Append(events, e)[k] = e
      BY <1>3, <1>5, <2>2
    <3> QED BY <3>1
  <2> QED BY <1>3, <2>1, <2>2
<1> HIDE DEF g, E, n, p
<1>7. Exact(lines, Append(events, e), E \cup {p})
  BY <1>4, <1>5, <1>6 DEF Exact
<1> QED BY <1>7 DEF E, p

\* What the parser holds is handed over if it has data.
LEMMA FlushExact ==
    ASSUME EventStreamIInv, streamEnd = "open", NEW to, Flush(to)
    PROVE  /\ parser' \in SseParsers /\ yielded' \in Seq(SseEvents) /\ streamEnd' = to
           /\ Exact(received, yielded',
                 IF WithName(received, Block(received, Len(received) + 1), "data") # {}
                 THEN Ends(received, "open") \cup {Len(received) + 1}
                 ELSE Ends(received, "open"))
<1> DEFINE S == WithName(received, Block(received, Len(received) + 1), "data")
           e == SseEvent(parser)
<1>1. received \in Seq(SseLines) /\ yielded \in Seq(SseEvents) /\ parser \in SseParsers
      /\ EventOf(received, Len(received) + 1, e)
      /\ Exact(received, yielded, Ends(received, "open"))
  BY DEF EventStreamIInv, ParserCurrent, SseExact, Exact
<1>2. e \in SseEvents /\ e.data = parser.data /\ e.data \in Seq(SseValues)
  BY <1>1 DEF SseParsers, SseEvents, SseEvent
<1>3. parser.data = <<>> <=> S = {}
  <2>1. InOrder(received, S, e.data)
    BY <1>1 DEF EventOf
  <2> HIDE DEF S, e
  <2> QED BY <1>2, <2>1, EmptyOrder
<1>4. yielded' = IF parser.data = <<>> THEN yielded ELSE Append(yielded, e)
  BY DEF Flush
<1>5. parser' \in SseParsers /\ streamEnd' = to
  BY <1>1 DEF Flush, NewEvent, SseParsers
<1>6. yielded' \in Seq(SseEvents)
  <2> HIDE DEF e
  <2> QED BY <1>1, <1>2, <1>4
<1>7. Exact(received, yielded', IF S # {} THEN Ends(received, "open") \cup {Len(received) + 1}
                                ELSE Ends(received, "open"))
  <2> HIDE DEF e, S
  <2>1. CASE S = {}
    BY <1>1, <1>3, <1>4, <2>1
  <2>2. CASE S # {}
    BY <1>1, <1>2, <1>3, <1>4, <2>2, ExactMore
  <2> QED BY <2>1, <2>2
<1> QED BY <1>5, <1>6, <1>7

\* The stream ends: the last block is an event if it has data.
LEMMA EndOfStreamKeeps ==
    ASSUME EventStreamIInv, EndOfStream
    PROVE  EventStreamIInv'
<1>1. received' = received /\ streamEnd = "open" /\ Flush("ended") /\ received \in Seq(SseLines)
  BY DEF EndOfStream, EventStreamIInv
<1>2. /\ parser' \in SseParsers /\ yielded' \in Seq(SseEvents) /\ streamEnd' = "ended"
      /\ Exact(received, yielded', Ends(received, "ended"))
  BY <1>1, FlushExact, EndsOver
<1>3. SseExact'
  BY <1>1, <1>2 DEF SseExact, Exact
<1> QED BY <1>1, <1>2, <1>3 DEF EventStreamIInv, ParserCurrent

\* The lines of a block, with one line more.
LEMMA BlockMore ==
    ASSUME NEW lines \in Seq(SseLines), NEW ln \in SseLines
    PROVE  /\ ln.field = "blank" => Block(Append(lines, ln), Len(lines) + 2) = {}
           /\ ln.field # "blank" => Block(Append(lines, ln), Len(lines) + 2) =
                                        Block(lines, Len(lines) + 1) \cup {Len(lines) + 1}
           /\ Block(lines, Len(lines) + 1) \subseteq 1 .. Len(lines)
<1> DEFINE n == Len(lines)
           more == Append(lines, ln)
<1>1. n \in Nat /\ more[n + 1] = ln /\ \A j \in 1 .. n : more[j] = lines[j]
  OBVIOUS
<1> HIDE DEF n, more
<1>2. Block(lines, n + 1) = {j \in 1 .. n : \A k \in j .. n : lines[k].field # "blank"}
  BY <1>1 DEF Block
<1>3. Block(more, n + 2) = {j \in 1 .. n + 1 : \A k \in j .. n + 1 : more[k].field # "blank"}
  BY <1>1 DEF Block
<1>4. ASSUME ln.field = "blank" PROVE Block(more, n + 2) = {}
  <2>1. \A j \in 1 .. n + 1 : n + 1 \in j .. n + 1
    BY <1>1
  <2> QED BY <1>1, <1>3, <1>4, <2>1
<1>5. ASSUME ln.field # "blank" PROVE Block(more, n + 2) = Block(lines, n + 1) \cup {n + 1}
  <2>1. ASSUME NEW j \in 1 .. n PROVE j \in Block(more, n + 2) <=> j \in Block(lines, n + 1)
    <3>1. j .. n + 1 = j .. n \cup {n + 1} /\ j .. n \subseteq 1 .. n /\ j \in 1 .. n + 1
      BY <1>1
    <3> QED BY <1>1, <1>2, <1>3, <1>5, <3>1
  <2>2. n + 1 \in Block(more, n + 2)
    <3>1. n + 1 .. n + 1 = {n + 1} /\ n + 1 \in 1 .. n + 1
      BY <1>1
    <3> QED BY <1>1, <1>3, <1>5, <3>1
  <2>3. 1 .. n + 1 = 1 .. n \cup {n + 1}
    BY <1>1
  <2>4. Block(more, n + 2) \subseteq 1 .. n + 1 /\ Block(lines, n + 1) \subseteq 1 .. n
    BY <1>2, <1>3
  <2> QED BY <2>1, <2>2, <2>3, <2>4
<1>6. Block(lines, n + 1) \subseteq 1 .. n
  BY <1>2
<1> QED BY <1>4, <1>5, <1>6 DEF n, more

\* Those of a name, with one line more.
LEMMA NamedMore ==
    ASSUME NEW lines \in Seq(SseLines), NEW ln \in SseLines, NEW S, S \subseteq 1 .. Len(lines)
    PROVE  \A field :
             /\ ln.field = field => WithName(Append(lines, ln), S \cup {Len(lines) + 1}, field)
                                        = WithName(lines, S, field) \cup {Len(lines) + 1}
             /\ ln.field # field => WithName(Append(lines, ln), S \cup {Len(lines) + 1}, field)
                                        = WithName(lines, S, field)
<1> DEFINE n == Len(lines)
           more == Append(lines, ln)
<1>1. n \in Nat /\ more[n + 1] = ln /\ \A j \in S : more[j] = lines[j]
  OBVIOUS
<1> HIDE DEF n, more
<1>2. ASSUME NEW field
      PROVE  /\ ln.field = field => WithName(more, S \cup {n + 1}, field) = WithName(lines, S, field) \cup {n + 1}
             /\ ln.field # field => WithName(more, S \cup {n + 1}, field) = WithName(lines, S, field)
  BY <1>1 DEF WithName
<1> QED BY <1>2 DEF n, more

\* The values at some lines, with one line more, named among them or not.
LEMMA ValuesMore ==
    ASSUME NEW lines \in Seq(SseLines), NEW ln \in SseLines, NEW more,
           more = Append(lines, ln), NEW n, n = Len(lines), NEW S, S \subseteq 1 .. n
    PROVE  /\ \A values \in Seq(SseValues) : InOrder(lines, S, values) =>
                /\ InOrder(more, S, values)
                /\ InOrder(more, S \cup {n + 1}, Append(values, ln.value))
           /\ \A default, v : LatestIs(lines, S, default, v) => LatestIs(more, S, default, v)
           /\ \A default : LatestIs(more, S \cup {n + 1}, default, ln.value)
<1>1. n \in Nat /\ more[n + 1] = ln /\ \A j \in S : more[j] = lines[j]
  BY LinesBefore
<1>2. ASSUME NEW values \in Seq(SseValues), InOrder(lines, S, values)
      PROVE  /\ InOrder(more, S, values)
             /\ InOrder(more, S \cup {n + 1}, Append(values, ln.value))
  <2> DEFINE m == Len(values)
  <2>1. PICK f \in [1 .. m -> S] : Through(f, S) /\ \A k \in 1 .. m : values[k] = lines[f[k]].value
    BY <1>2 DEF InOrder
  <2>2. m \in Nat /\ S \subseteq Nat /\ n + 1 \in Nat /\ \A j \in S : j < n + 1
    BY <1>1
  <2>3. \A k \in 1 .. m : f[k] \in S /\ values[k] = more[f[k]].value
    BY <1>1, <2>1
  <2>4. /\ Len(Append(values, ln.value)) = m + 1 /\ Append(values, ln.value)[m + 1] = ln.value
        /\ \A k \in 1 .. m : Append(values, ln.value)[k] = values[k]
    OBVIOUS
  <2> DEFINE g == [k \in 1 .. m + 1 |-> IF k <= m THEN f[k] ELSE n + 1]
  <2>5. g \in [1 .. m + 1 -> S \cup {n + 1}] /\ Through(g, S \cup {n + 1})
    <3> HIDE DEF m
    <3> QED BY <2>1, <2>2, ThroughMore
  <2>6. \A k \in 1 .. m + 1 : Append(values, ln.value)[k] = more[g[k]].value
    <3> SUFFICES ASSUME NEW k \in 1 .. m + 1 PROVE Append(values, ln.value)[k] = more[g[k]].value
      OBVIOUS
    <3>1. CASE k \in 1 .. m
      <4>1. g[k] = f[k]
        BY <2>2, <3>1
      <4> QED BY <2>3, <2>4, <3>1, <4>1
    <3>2. CASE k = m + 1
      <4>1. g[k] = n + 1
        BY <2>2, <3>2
      <4> QED BY <1>1, <2>4, <3>2, <4>1
    <3>3. k \in 1 .. m \/ k = m + 1
      <4> HIDE DEF m
      <4> QED BY <2>2
    <3> QED BY <3>1, <3>2, <3>3
  <2> HIDE DEF g, m
  <2>7. InOrder(more, S, values)
    BY <2>1, <2>3 DEF InOrder, m
  <2>8. InOrder(more, S \cup {n + 1}, Append(values, ln.value))
    BY <2>4, <2>5, <2>6 DEF InOrder
  <2> QED BY <2>7, <2>8
<1>3. \A default, v : LatestIs(lines, S, default, v) => LatestIs(more, S, default, v)
  BY <1>1 DEF LatestIs
<1>4. \A k \in S \cup {n + 1} : k <= n + 1
  <2>1. n \in Nat
    BY <1>1
  <2>2. \A k \in 1 .. n : k <= n + 1
    BY <2>1
  <2>3. n + 1 <= n + 1
    BY <2>1
  <2> QED BY <2>2, <2>3
<1>5. \A default : LatestIs(more, S \cup {n + 1}, default, ln.value)
  BY <1>1, <1>4 DEF LatestIs
<1> QED BY <1>2, <1>3, <1>5

\* q is p after a line: what the line changes of the parser.
Takes(p, ln, q) ==
    /\ q.data = IF ln.field = "data" THEN Append(p.data, ln.value) ELSE p.data
    /\ q.event = IF ln.field = "event"
                 THEN (IF ln.value = "" THEN "message" ELSE ln.value) ELSE p.event
    /\ q.id = IF ln.field = "id" /\ ln.value # "nul" THEN ln.value ELSE p.id
    /\ q.retry = IF ln.field = "retry" /\ ln.value = "digits" THEN "digits" ELSE p.retry

\* A line with a field does so.
LEMMA WithFieldParts ==
    ASSUME NEW p \in SseParsers, NEW ln \in SseLines, NEW size \in Nat,
           NEW q, q = [WithField(p, ln) EXCEPT !.size = size]
    PROVE  q \in SseParsers /\ Takes(p, ln, q)
<1>1. ln.value \in SseValues
  BY DEF SseValues
<1>2. p = [data |-> p.data, event |-> p.event, id |-> p.id, retry |-> p.retry, size |-> p.size]
      /\ p.data \in Seq(SseValues) /\ Append(p.data, ln.value) \in Seq(SseValues)
      /\ p.event \in SseValues \cup {"message"} /\ p.id \in SseValues \cup {"none"}
      /\ p.retry \in {"none", "digits"}
  BY <1>1 DEF SseParsers
<1>3. CASE ln.field = "data"
  <2>1. q = [p EXCEPT !.data = Append(@, ln.value), !.size = size]
    BY <1>2, <1>3 DEF WithField
  <2> QED BY <1>1, <1>2, <1>3, <2>1 DEF SseParsers, Takes
<1>4. CASE ln.field = "event"
  <2>1. q = [p EXCEPT !.event = IF ln.value = "" THEN "message" ELSE ln.value, !.size = size]
    BY <1>2, <1>4 DEF WithField
  <2> QED BY <1>1, <1>2, <1>4, <2>1 DEF SseParsers, Takes
<1>5. CASE ln.field = "id" /\ ln.value # "nul"
  <2>1. q = [p EXCEPT !.id = ln.value, !.size = size]
    BY <1>2, <1>5 DEF WithField
  <2> QED BY <1>1, <1>2, <1>5, <2>1 DEF SseParsers, Takes
<1>6. CASE ln.field = "retry" /\ ln.value = "digits"
  <2>1. q = [p EXCEPT !.retry = ln.value, !.size = size]
    BY <1>2, <1>6 DEF WithField
  <2> QED BY <1>1, <1>2, <1>6, <2>1 DEF SseParsers, Takes
<1>7. CASE /\ ln.field \notin {"data", "event"} /\ ~(ln.field = "id" /\ ln.value # "nul")
           /\ ~(ln.field = "retry" /\ ln.value = "digits")
  <2>1. q = [p EXCEPT !.size = size]
    BY <1>2, <1>7 DEF WithField
  <2> QED BY <1>1, <1>2, <1>7, <2>1 DEF SseParsers, Takes
<1> QED BY <1>3, <1>4, <1>5, <1>6, <1>7

\* A line that is not empty belongs to the block that the parser holds.
LEMMA LineTold ==
    ASSUME NEW lines \in Seq(SseLines), NEW ln \in SseLines, ln.field # "blank",
           NEW more, more = Append(lines, ln), NEW n, n = Len(lines),
           NEW p \in SseParsers, NEW q \in SseParsers,
           EventOf(lines, n + 1, SseEvent(p)),
           Takes(p, ln, q)
    PROVE  EventOf(more, n + 2, SseEvent(q))
<1> DEFINE block == Block(lines, n + 1)
           Told(l, S) == {j \in WithName(l, S, "retry") : l[j].value = "digits"}
<1>1. n \in Nat /\ more[n + 1] = ln /\ \A j \in 1 .. n : more[j] = lines[j]
  BY LinesBefore
<1>2. Block(more, n + 2) = block \cup {n + 1} /\ block \subseteq 1 .. n
      /\ \A S, field : S \subseteq 1 .. n =>
           /\ ln.field = field => WithName(more, S \cup {n + 1}, field) = WithName(lines, S, field) \cup {n + 1}
           /\ ln.field # field => WithName(more, S \cup {n + 1}, field) = WithName(lines, S, field)
  <2>1. Block(more, n + 2) = block \cup {n + 1} /\ block \subseteq 1 .. n
    BY BlockMore
  <2>2. ASSUME NEW S, S \subseteq 1 .. n
        PROVE  \A field :
                 /\ ln.field = field => WithName(more, S \cup {n + 1}, field) = WithName(lines, S, field) \cup {n + 1}
                 /\ ln.field # field => WithName(more, S \cup {n + 1}, field) = WithName(lines, S, field)
    <3>1. \A field :
            /\ ln.field = field => WithName(Append(lines, ln), S \cup {Len(lines) + 1}, field)
                                       = WithName(lines, S, field) \cup {Len(lines) + 1}
            /\ ln.field # field => WithName(Append(lines, ln), S \cup {Len(lines) + 1}, field)
                                       = WithName(lines, S, field)
      <4>1. S \subseteq 1 .. Len(lines)
        BY <2>2
      <4> QED BY ONLY <4>1, lines \in Seq(SseLines), ln \in SseLines, NamedMore
    <3> QED BY <3>1
  <2> HIDE DEF block
  <2> QED BY <2>1, <2>2
<1>3. /\ SseEvent(p).data = p.data /\ SseEvent(p).event = p.event
      /\ SseEvent(p).id = p.id /\ SseEvent(p).retry = p.retry
      /\ SseEvent(q).data = q.data /\ SseEvent(q).event = q.event
      /\ SseEvent(q).id = q.id /\ SseEvent(q).retry = q.retry
  BY DEF SseEvent
<1>4. (n + 2) - 1 = n + 1 /\ (n + 1) - 1 = n /\ 1 .. n + 1 = 1 .. n \cup {n + 1} /\ n + 1 \notin 1 .. n
  BY <1>1
<1>5. \A field : WithName(lines, block, field) \subseteq 1 .. n
  BY <1>2 DEF WithName
<1>6. Told(lines, block) \subseteq 1 .. n
  BY <1>5
<1>7. Told(more, block \cup {n + 1}) =
        Told(lines, block) \cup (IF ln.field = "retry" /\ ln.value = "digits" THEN {n + 1} ELSE {})
  <2>1. \A j \in WithName(lines, block, "retry") : more[j] = lines[j] /\ j # n + 1
    BY <1>1, <1>4, <1>5
  <2>2. WithName(more, block \cup {n + 1}, "retry") =
          WithName(lines, block, "retry") \cup (IF ln.field = "retry" THEN {n + 1} ELSE {})
    BY <1>2
  <2>3. \A j \in WithName(more, block \cup {n + 1}, "retry") :
          j \in WithName(lines, block, "retry") \/ (j = n + 1 /\ ln.field = "retry")
    BY <2>2
  <2>4. \A j \in WithName(lines, block, "retry") : j \in WithName(more, block \cup {n + 1}, "retry")
    BY <2>2
  <2>5. ln.field = "retry" => n + 1 \in WithName(more, block \cup {n + 1}, "retry")
    BY <2>2
  <2>6. more[n + 1] = ln
    BY <1>1
  <2>7. ASSUME NEW j
        PROVE  j \in Told(more, block \cup {n + 1}) <=>
                 j \in Told(lines, block)
                 \/ (ln.field = "retry" /\ ln.value = "digits" /\ j = n + 1)
    <3>1. CASE j \in WithName(lines, block, "retry")
      BY <2>1, <2>4, <3>1
    <3>2. CASE j \notin WithName(lines, block, "retry")
      BY <2>3, <2>5, <2>6, <3>2
    <3> QED BY <3>1, <3>2
  <2> HIDE DEF Told
  <2> QED BY <2>7
<1>8. /\ InOrder(lines, WithName(lines, block, "data"), p.data)
      /\ p.event # ""
      /\ \/ LatestIs(lines, WithName(lines, block, "event"), "message", p.event)
         \/ p.event = "message" /\ LatestIs(lines, WithName(lines, block, "event"), "message", "")
      /\ LatestIs(lines, IdLines(lines, n), "none", p.id)
      /\ LatestIs(lines, Told(lines, block), "none", p.retry)
  BY <1>3, <1>4 DEF EventOf
<1>9. p.data \in Seq(SseValues)
  BY DEF SseParsers
<1> HIDE DEF block, Told
<1>11. InOrder(more, WithName(more, block \cup {n + 1}, "data"), q.data)
  <2> DEFINE S == WithName(lines, block, "data")
  <2>1. /\ InOrder(more, S, p.data)
        /\ InOrder(more, S \cup {n + 1}, Append(p.data, ln.value))
    <3> HIDE DEF S
    <3>1. S \subseteq 1 .. n /\ InOrder(lines, S, p.data)
      BY <1>5, <1>8 DEF S
    <3> QED BY <1>9, <3>1, ValuesMore
  <2>2. WithName(more, block \cup {n + 1}, "data") = S \cup (IF ln.field = "data" THEN {n + 1} ELSE {})
    BY <1>2
  <2> HIDE DEF S
  <2> QED BY <2>1, <2>2 DEF Takes
<1>12. /\ q.event # ""
       /\ \/ LatestIs(more, WithName(more, block \cup {n + 1}, "event"), "message", q.event)
          \/ /\ q.event = "message"
             /\ LatestIs(more, WithName(more, block \cup {n + 1}, "event"), "message", "")
  <2> DEFINE S == WithName(lines, block, "event")
  <2>1. /\ \A default, v : LatestIs(lines, S, default, v) => LatestIs(more, S, default, v)
        /\ \A default : LatestIs(more, S \cup {n + 1}, default, ln.value)
    <3> HIDE DEF S
    <3>1. S \subseteq 1 .. n
      BY <1>5 DEF S
    <3> QED BY <3>1, ValuesMore
  <2>2. WithName(more, block \cup {n + 1}, "event") = S \cup (IF ln.field = "event" THEN {n + 1} ELSE {})
    BY <1>2
  <2>3. \/ LatestIs(lines, S, "message", p.event)
        \/ p.event = "message" /\ LatestIs(lines, S, "message", "")
    BY <1>8
  <2> HIDE DEF S
  <2>4. CASE ln.field = "event"
    <3>1. WithName(more, block \cup {n + 1}, "event") = S \cup {n + 1}
      BY <2>2, <2>4
    <3> QED BY <2>1, <2>4, <3>1 DEF Takes
  <2>5. CASE ln.field # "event"
    <3>1. WithName(more, block \cup {n + 1}, "event") = S
      BY <2>2, <2>5
    <3> QED BY <1>8, <2>1, <2>3, <2>5, <3>1 DEF Takes
  <2> QED BY <2>4, <2>5
<1>13. LatestIs(more, IdLines(more, n + 1), "none", q.id)
  <2> DEFINE S == IdLines(lines, n)
             told == ln.field = "id" /\ ln.value # "nul"
  <2>1. /\ \A default, v : LatestIs(lines, S, default, v) => LatestIs(more, S, default, v)
        /\ \A default : LatestIs(more, S \cup {n + 1}, default, ln.value)
    <3> HIDE DEF S
    <3>1. S \subseteq 1 .. n
      BY DEF S, IdLines
    <3> QED BY <3>1, ValuesMore
  <2>2. IdLines(more, n + 1) = S \cup (IF told THEN {n + 1} ELSE {})
    BY <1>1, <1>4 DEF IdLines
  <2>3. q.id = IF told THEN ln.value ELSE p.id
    BY DEF Takes
  <2> HIDE DEF S, told
  <2> QED BY <1>8, <2>1, <2>2, <2>3 DEF S
<1>14. LatestIs(more, Told(more, block \cup {n + 1}), "none", q.retry)
  <2> DEFINE S == Told(lines, block)
  <2>1. /\ \A default, v : LatestIs(lines, S, default, v) => LatestIs(more, S, default, v)
        /\ \A default : LatestIs(more, S \cup {n + 1}, default, ln.value)
    <3> HIDE DEF S
    <3>1. S \subseteq 1 .. n
      BY <1>6 DEF S
    <3> QED BY <3>1, ValuesMore
  <2> QED BY <1>7, <1>8, <2>1 DEF Takes
<1>15. EventOf(more, n + 2, SseEvent(q))
  BY <1>2, <1>3, <1>4, <1>11, <1>12, <1>13, <1>14 DEF EventOf, Told
<1> QED BY <1>15

\* A line is read: an empty one ends a block, another belongs to the one begun.
LEMMA ReadLineKeeps ==
    ASSUME EventStreamIInv, NEW ln \in SseLines, ReadLine(ln)
    PROVE  EventStreamIInv'
<1> DEFINE n == Len(received)
           E == Ends(received, "open")
<1>1. /\ received \in Seq(SseLines) /\ yielded \in Seq(SseEvents) /\ parser \in SseParsers
      /\ streamEnd = "open" /\ EventOf(received, n + 1, SseEvent(parser))
      /\ Exact(received, yielded, E)
      /\ received' = Append(received, ln)
  BY DEF ReadLine, EventStreamIInv, ParserCurrent, SseExact, Exact
<1>2. /\ received' \in Seq(SseLines) /\ Len(received') = n + 1 /\ n \in Nat
      /\ E \subseteq 1 .. n + 1 /\ (n + 1) + 1 = n + 2
  BY <1>1, LinesBefore DEF Ends
<1>3. ASSUME ln.field # "blank"
      PROVE  Ends(received', "open") = E /\ Ends(received', "raised") = E
             /\ Exact(received', yielded, E)
  BY <1>1, <1>2, <1>3, EndsMore, ExactLater
<1>4. CASE ln.field = "blank" /\ Flush("open")
  <2> DEFINE F == IF WithName(received, Block(received, n + 1), "data") # {} THEN E \cup {n + 1} ELSE E
             e == SseEvent(parser')
  <2>1. /\ parser' \in SseParsers /\ yielded' \in Seq(SseEvents) /\ streamEnd' = "open"
        /\ Exact(received, yielded', F)
    BY <1>1, <1>4, FlushExact
  <2>2. Ends(received', "open") = F
    BY <1>1, <1>4, EndsMore
  <2>3. F \subseteq 1 .. n + 1
    BY <1>2
  <2> HIDE DEF F
  <2>4. Exact(received', yielded', F)
    BY <1>1, <2>1, <2>3, ExactLater
  <2>5. SseExact'
    BY <2>1, <2>2, <2>4 DEF SseExact, Exact
  <2>6. Block(received', n + 2) = {}
    BY <1>1, <1>4, BlockMore
  <2>7. e.data = <<>> /\ e.event = "message" /\ e.id = parser.id /\ e.retry = "none"
    BY <1>4 DEF Flush, NewEvent, SseEvent
  <2>8. LatestIs(received', IdLines(received', n + 1), "none", parser.id)
    <3> DEFINE S == IdLines(received, n)
    <3>1. S \subseteq 1 .. n /\ LatestIs(received, S, "none", parser.id)
      <4>1. SseEvent(parser).id = parser.id /\ (n + 1) - 1 = n
        BY <1>2 DEF SseEvent
      <4>2. LatestIs(received, S, "none", parser.id)
        BY <1>1, <4>1 DEF EventOf
      <4> QED BY <4>2 DEF IdLines
    <3>2. IdLines(received', n + 1) = S
      <4>1. received'[n + 1] = ln /\ \A j \in 1 .. n : received'[j] = received[j]
        BY <1>1, LinesBefore
      <4>2. 1 .. n + 1 = 1 .. n \cup {n + 1}
        BY <1>2
      <4> QED BY <1>4, <4>1, <4>2 DEF IdLines
    <3> HIDE DEF S
    <3>3. LatestIs(received', S, "none", parser.id)
      BY <1>1, <3>1, ValuesMore
    <3> QED BY <3>2, <3>3
  <2>9. \A field : WithName(received', {}, field) = {}
    BY DEF WithName
  <2> HIDE DEF e
  <2>10. EventOf(received', n + 2, e)
    <3>1. InOrder(received', {}, <<>>)
      BY ThroughNone
    <3>2. LatestIs(received', {}, "message", "message") /\ LatestIs(received', {}, "none", "none")
      BY DEF LatestIs
    <3>3. (n + 2) - 1 = n + 1
      BY <1>2
    <3>4. {j \in WithName(received', {}, "retry") : received'[j].value = "digits"} = {}
      BY <2>9
    <3> QED BY <2>6, <2>7, <2>8, <2>9, <3>1, <3>2, <3>3, <3>4 DEF EventOf
  <2> QED BY <1>2, <2>1, <2>5, <2>10 DEF EventStreamIInv, ParserCurrent, e
<1>5. CASE ln.field = "comment" /\ UNCHANGED <<parser, yielded, streamEnd>>
  <2>1. Takes(parser, ln, parser)
    BY <1>5 DEF Takes
  <2>2. EventOf(received', n + 2, SseEvent(parser))
    BY <1>1, <1>5, <2>1, LineTold
  <2>3. SseExact'
    BY <1>1, <1>3, <1>5 DEF SseExact, Exact
  <2> QED BY <1>1, <1>2, <1>5, <2>2, <2>3 DEF EventStreamIInv, ParserCurrent
<1>6. CASE ln.field \notin {"blank", "comment"} /\ streamEnd' = "raised" /\ UNCHANGED <<parser, yielded>>
  <2>1. SseExact'
    BY <1>3, <1>6 DEF SseExact, Exact
  <2> QED BY <1>1, <1>2, <1>6, <2>1 DEF EventStreamIInv, ParserCurrent
<1>7. CASE /\ ln.field \notin {"blank", "comment"}
           /\ parser' = [WithField(parser, ln) EXCEPT !.size = parser.size + SizeOf(ln)]
           /\ UNCHANGED <<yielded, streamEnd>>
  <2>1. parser.size + SizeOf(ln) \in Nat
    BY <1>1, EventStreamAssumption DEF SseParsers
  <2>2. parser' \in SseParsers /\ Takes(parser, ln, parser')
    BY <1>1, <1>7, <2>1, WithFieldParts
  <2>3. EventOf(received', n + 2, SseEvent(parser'))
    BY <1>1, <1>7, <2>2, LineTold
  <2>4. SseExact'
    BY <1>1, <1>3, <1>7 DEF SseExact, Exact
  <2> QED BY <1>1, <1>2, <1>7, <2>2, <2>3, <2>4 DEF EventStreamIInv, ParserCurrent
<1> QED BY <1>4, <1>5, <1>6, <1>7 DEF ReadLine

\* It holds when the stream opens: there is nothing to go through.
LEMMA EventStreamBegins == EventStreamInit => EventStreamIInv
<1> SUFFICES ASSUME EventStreamInit PROVE EventStreamIInv
  OBVIOUS
<1>1. received = <<>> /\ parser = NewEvent("none") /\ yielded = <<>> /\ streamEnd = "open"
  BY DEF EventStreamInit
<1>2. <<>> \in Seq(SseLines) /\ <<>> \in Seq(SseEvents) /\ <<>> \in Seq(SseValues)
      /\ Len(<<>>) = 0 /\ 1 .. 0 = {} /\ (0 + 1) - 1 = 0
  OBVIOUS
<1>3. parser \in SseParsers
  BY <1>1, <1>2 DEF NewEvent, SseParsers
<1>4. /\ \A S, field : S = {} => WithName(received, S, field) = {}
      /\ IdLines(received, 0) = {}
  BY <1>2 DEF WithName, IdLines
<1>5. Block(received, 0 + 1) = {}
  BY <1>2 DEF Block
<1>6. ParserCurrent
  <2> DEFINE e == SseEvent(parser)
  <2>1. e.data = <<>> /\ e.event = "message" /\ e.id = "none" /\ e.retry = "none"
    BY <1>1 DEF NewEvent, SseEvent
  <2>2. InOrder(received, {}, <<>>)
    BY ThroughNone
  <2>3. LatestIs(received, {}, "message", "message") /\ LatestIs(received, {}, "none", "none")
    BY DEF LatestIs
  <2>4. {j \in WithName(received, {}, "retry") : received[j].value = "digits"} = {}
    BY <1>4
  <2> HIDE DEF e
  <2>5. EventOf(received, 0 + 1, e)
    BY <1>2, <1>4, <1>5, <2>1, <2>2, <2>3, <2>4 DEF EventOf
  <2> QED BY <1>1, <1>2, <2>5 DEF ParserCurrent, e
<1>7. Ends(received, streamEnd) = {}
  <2>1. Ends(received, streamEnd) \subseteq {0 + 1}
    BY <1>1, <1>2 DEF Ends
  <2>2. WithName(received, Block(received, 0 + 1), "data") = {}
    BY <1>4, <1>5
  <2> QED BY <2>1, <2>2 DEF Ends
<1>8. SseExact
  <2> DEFINE f == [k \in 1 .. 0 |-> 0]
  <2>1. f \in [1 .. Len(yielded) -> {}] /\ Through(f, {}) /\ 1 .. Len(yielded) = {}
    BY <1>1, <1>2 DEF Through
  <2> QED BY <1>7, <2>1 DEF SseExact
<1> QED BY <1>1, <1>2, <1>3, <1>6, <1>8 DEF EventStreamIInv

\* Every step of the reader keeps it.
LEMMA EventStreamKeeps ==
    ASSUME EventStreamIInv, [EventStreamNext]_eventStreamVars
    PROVE  EventStreamIInv'
<1>1. CASE UNCHANGED eventStreamVars
  BY <1>1 DEF EventStreamIInv, ParserCurrent, SseExact, eventStreamVars
<1> QED BY <1>1, EndOfStreamKeeps, ReadLineKeeps DEF EventStreamNext

---------------------------------------------------------------------------
(* Politeness.                                                             *)

\* No two sites share a host name, and with it the entry of the cache.
OneSitePerHost == \A s, r \in Sites : HostOf[s] = HostOf[r] => s = r

\* No site names several agents for one group of rules: the parser gives such
\* a group to the last of them alone.
OneAgentPerGroup ==
    \A s \in Sites : \A file \in Texts[s] : \A i \in 1 .. Len(file) - 1 :
        ~(IsAgent(file[i]) /\ IsAgent(file[i + 1]))

\* The files asked for are those of the allowed sites, and the engines run
\* when all of them have been.
AllLoaded == /\ \A s \in Sites : fetch[s] = "unasked" <=> s \notin allowed
             /\ crawling => \A s \in Sites : fetch[s] # "loading"

\* What the cache knows of a host is what the fetch of its site has brought.
CacheTold ==
    \A s \in Sites :
        LET entry == cache[HostOf[s]]
        IN /\ fetch[s] \notin {"loading", "unasked"} => entry.known
           /\ fetch[s] = "read" => entry.rules = ParseRobots(text[s])
           /\ fetch[s] = "failed" =>
                 entry.rules = {[rule |-> [key |-> "disallow", value |-> <<>>],
                                 block |-> 1, line |-> 1]}

\* What the interceptor has let through came from the allowed domains, and
\* was allowed by the rules it had; only a host of no site has none.
AnswerJudged ==
    answer.verdict = "passed" /\ ~answer.start =>
        /\ crawling /\ answer.path \in RobotPaths
        /\ FromAllowed(answer.host) /\ RobotAllows(answer.host, answer.path)
        /\ answer.host \in Hosts => answer.site \in Sites /\ answer.host = HostOf[answer.site]

PolitenessIInv ==
    /\ text \in [Sites -> UNION {Texts[s] : s \in Sites}]
    /\ \A s \in Sites : text[s] \in Texts[s]
    /\ allowed \subseteq Sites
    /\ fetch \in [Sites -> {"unasked", "loading", "read", "absent", "failed"}]
    /\ DOMAIN cache = Hosts
    /\ AllLoaded /\ CacheTold /\ AnswerJudged

\* A set of natural numbers that is not empty has a least element.
LEMMA LeastNatural ==
    ASSUME NEW T, T \subseteq Nat, T # {}
    PROVE \E x \in T : \A y \in T : x <= y
<1> DEFINE R == OpToRel(<, Nat)
<1>1. IsWellFoundedOn(R, Nat)
  BY NatLessThanWellFounded
<1>2. \A x, y \in Nat : y < x => <<y, x>> \in R
  BY DEF OpToRel
<1> HIDE DEF R
<1>3. \E x \in T : \A y \in T : ~ (<<y, x>> \in R)
  BY <1>1, WFMin
<1>4. PICK x \in T : \A y \in T : ~ (<<y, x>> \in R)
  BY <1>3
<1>5. \A y \in T : ~ (y < x)
  BY <1>2, <1>4
<1>6. \A y \in T : x <= y
  BY ONLY <1>5, T \subseteq Nat, x \in T
<1> QED BY <1>6, Zenon

\* A line of a file.
RobotLine == [key : {"user-agent"}, value : STRING] \cup
             [key : {"allow", "disallow"}, value : RobotPaths]

\* A rule of the file that the parser keeps is one of its lines, in the block
\* of an agent that is heeded; and each such line is kept.
LEMMA RuleKept ==
    ASSUME NEW file \in Seq(RobotLine)
    PROVE  /\ \A x \in ParseRobots(file) :
                 /\ x.line \in DOMAIN file /\ x.block \in DOMAIN file
                 /\ x.rule = file[x.line] /\ ~IsAgent(x.rule)
                 /\ OpensBlock(file, x.block) /\ InBlock(file, x.block, x.line)
                 /\ file[x.block].value \in Heeded(file)
           /\ \A b, i \in DOMAIN file :
                 OpensBlock(file, b) /\ InBlock(file, b, i) /\ file[b].value \in Heeded(file)
                    => [rule |-> file[i], block |-> b, line |-> i] \in ParseRobots(file)
<1>1. ASSUME NEW x \in ParseRobots(file)
      PROVE  /\ x.line \in DOMAIN file /\ x.block \in DOMAIN file
             /\ x.rule = file[x.line] /\ ~IsAgent(x.rule)
             /\ OpensBlock(file, x.block) /\ InBlock(file, x.block, x.line)
             /\ file[x.block].value \in Heeded(file)
  <2>1. PICK y \in (DOMAIN file) \X (DOMAIN file) :
            /\ OpensBlock(file, y[1]) /\ InBlock(file, y[1], y[2])
            /\ file[y[1]].value \in Heeded(file)
            /\ x = [rule |-> file[y[2]], block |-> y[1], line |-> y[2]]
    BY DEF ParseRobots
  <2>2. x.line = y[2] /\ x.block = y[1] /\ x.rule = file[y[2]]
    BY <2>1
  <2>3. y[1] \in DOMAIN file /\ y[2] \in DOMAIN file
    OBVIOUS
  <2>4. ~IsAgent(file[y[2]])
    BY <2>1 DEF InBlock
  <2> QED BY <2>1, <2>2, <2>3, <2>4
<1>2. ASSUME NEW b \in DOMAIN file, NEW i \in DOMAIN file,
             OpensBlock(file, b), InBlock(file, b, i), file[b].value \in Heeded(file)
      PROVE  [rule |-> file[i], block |-> b, line |-> i] \in ParseRobots(file)
  <2>1. /\ <<b, i>> \in (DOMAIN file) \X (DOMAIN file)
        /\ <<b, i>>[1] = b /\ <<b, i>>[2] = i
    OBVIOUS
  <2> QED BY <1>2, <2>1 DEF ParseRobots
<1> QED BY <1>1, <1>2, Zenon

\* The block of an agent is opened by the first line that names it.
LEMMA BlockOpened ==
    ASSUME NEW file \in Seq(RobotLine), NEW j \in DOMAIN file, IsAgent(file[j])
    PROVE  \E b \in DOMAIN file : OpensBlock(file, b) /\ file[b].value = file[j].value
<1> DEFINE T == {k \in DOMAIN file : IsAgent(file[k]) /\ file[k].value = file[j].value}
<1>1. DOMAIN file = 1 .. Len(file) /\ Len(file) \in Nat
  OBVIOUS
<1>2. T \subseteq Nat /\ j \in T
  BY <1>1
<1>3. PICK b \in T : \A k \in T : b <= k
  BY <1>2, LeastNatural
<1>4. ASSUME NEW k \in 1 .. b - 1, IsAgent(file[k]), file[k].value = file[b].value PROVE FALSE
  <2>1. b \in 1 .. Len(file) /\ k \in DOMAIN file /\ file[b].value = file[j].value
    BY <1>1, <1>3
  <2>2. k \in T
    BY <1>4, <2>1
  <2>3. b <= k
    BY <1>3, <2>2
  <2> QED BY <1>1, <2>1, <2>3
<1> QED BY <1>3, <1>4 DEF OpensBlock

\* A rule is in the block of an agent exactly if it governs that agent, when
\* no two agents share a group.
LEMMA BlockGoverns ==
    ASSUME NEW file \in Seq(RobotLine), NEW i \in DOMAIN file, NEW b \in DOMAIN file,
           OpensBlock(file, b), ~IsAgent(file[i]),
           \A k \in 1 .. Len(file) - 1 : ~(IsAgent(file[k]) /\ IsAgent(file[k + 1]))
    PROVE  InBlock(file, b, i) <=> Governs(file, i, file[b].value)
<1>1. DOMAIN file = 1 .. Len(file) /\ Len(file) \in Nat
  OBVIOUS
<1>2. ASSUME InBlock(file, b, i) PROVE Governs(file, i, file[b].value)
  <2>1. PICK j \in 1 .. i - 1 :
          /\ IsAgent(file[j]) /\ file[j].value = file[b].value
          /\ \A k \in j + 1 .. i - 1 : ~IsAgent(file[k])
    BY <1>2 DEF InBlock
  <2>2. j \in j .. i - 1 /\ \A l \in j .. j : l = j
    BY <1>1
  <2>3. \A l \in j .. j : IsAgent(file[l])
    BY <2>1, <2>2
  <2> QED BY <2>1, <2>2, <2>3 DEF Governs
<1>3. ASSUME Governs(file, i, file[b].value) PROVE InBlock(file, b, i)
  <2>0. PICK j \in 1 .. i - 1 :
          /\ IsAgent(file[j]) /\ file[j].value = file[b].value
          /\ \E k \in j .. i - 1 : /\ \A l \in j .. k : IsAgent(file[l])
                                  /\ \A l \in k + 1 .. i - 1 : ~IsAgent(file[l])
    BY <1>3 DEF Governs
  <2>1. PICK k \in j .. i - 1 :
          /\ \A l \in j .. k : IsAgent(file[l])
          /\ \A l \in k + 1 .. i - 1 : ~IsAgent(file[l])
    BY <2>0
  <2>2. k = j
    <3> SUFFICES ASSUME k # j PROVE FALSE
      OBVIOUS
    <3>1. j \in j .. k /\ j + 1 \in j .. k /\ j \in 1 .. Len(file) - 1
      BY <1>1
    <3> QED BY <2>1, <3>1
  <2> QED BY <2>0, <2>1, <2>2 DEF InBlock
<1> QED BY <1>2, <1>3

\* Of the rules that match a path, those that are longest hold one that comes
\* before the others: it decides.
LEMMA OneDecides ==
    ASSUME NEW file \in Seq(RobotLine), NEW path \in RobotPaths,
           NEW S, S \subseteq ParseRobots(file), S # {}
    PROVE  \E x \in S : \A y \in S : ~Earlier(y, x)
<1>1. DOMAIN file = 1 .. Len(file) /\ Len(file) \in Nat
  OBVIOUS
<1>2. \A x \in S : x.block \in Nat /\ x.line \in Nat
  BY <1>1, RuleKept
<1> DEFINE B == {x.block : x \in S}
<1>3. B \subseteq Nat /\ B # {}
  BY <1>2
<1>4. PICK b \in B : \A c \in B : b <= c
  BY <1>3, LeastNatural
<1> DEFINE L == {x.line : x \in {y \in S : y.block = b}}
<1>5. L \subseteq Nat /\ L # {}
  BY <1>2, <1>4
<1>6. PICK l \in L : \A m \in L : l <= m
  BY <1>5, LeastNatural
<1>7. PICK x \in S : x.block = b /\ x.line = l
  BY <1>6
<1>8. ASSUME NEW y \in S, Earlier(y, x) PROVE FALSE
  <2>1. b <= y.block
    BY <1>4
  <2>2. y.block = b => l <= y.line
    BY <1>6
  <2>3. b \in Nat /\ l \in Nat /\ y.block \in Nat /\ y.line \in Nat
    BY <1>2, <1>3, <1>4, <1>5, <1>6
  <2>4. y.block < b \/ (y.block = b /\ y.line < l)
    BY <1>7, <1>8 DEF Earlier
  <2> QED BY <2>1, <2>2, <2>3, <2>4
<1> QED BY <1>7, <1>8, Zenon

\* What the parsed rules allow, the file permits.
LEMMA ParserExact ==
    ASSUME NEW file \in Seq(RobotLine), NEW path \in RobotPaths,
           \A k \in 1 .. Len(file) - 1 : ~(IsAgent(file[k]) /\ IsAgent(file[k + 1])),
           RulesAllow(ParseRobots(file), path)
    PROVE  Permitted(file, path)
<1>1. DOMAIN file = 1 .. Len(file) /\ Len(file) \in Nat
  OBVIOUS
<1>2. \A i \in DOMAIN file : ~IsAgent(file[i]) =>
          /\ file[i].key \in {"allow", "disallow"} /\ file[i].value \in RobotPaths
          /\ Len(file[i].value) \in Nat
  BY PolitenessAssumption DEF RobotLine, IsAgent
<1> DEFINE hits == {i \in DOMAIN file : /\ ~IsAgent(file[i]) /\ IsPrefix(file[i].value, path)
                                       /\ \E a \in Heeded(file) : Governs(file, i, a)}
           best == {i \in hits : \A j \in hits : Len(file[j].value) <= Len(file[i].value)}
           longest == {x \in Hits(ParseRobots(file), path) : x.line \in best}
<1>3. \A x \in Hits(ParseRobots(file), path) : /\ x.line \in hits /\ x.rule = file[x.line]
                                               /\ x \in ParseRobots(file)
  <2> SUFFICES ASSUME NEW x \in Hits(ParseRobots(file), path)
               PROVE  x.line \in hits /\ x.rule = file[x.line] /\ x \in ParseRobots(file)
    OBVIOUS
  <2>1. x \in ParseRobots(file) /\ IsPrefix(x.rule.value, path)
    BY DEF Hits
  <2>2. /\ x.line \in DOMAIN file /\ x.block \in DOMAIN file
        /\ x.rule = file[x.line] /\ ~IsAgent(x.rule)
        /\ OpensBlock(file, x.block) /\ InBlock(file, x.block, x.line)
        /\ file[x.block].value \in Heeded(file)
    BY <2>1, RuleKept
  <2>3. Governs(file, x.line, file[x.block].value)
    BY <2>2, BlockGoverns
  <2> QED BY <2>1, <2>2, <2>3
<1>4. \A i \in hits : \E x \in Hits(ParseRobots(file), path) : x.line = i
  <2> SUFFICES ASSUME NEW i \in hits
               PROVE  \E x \in Hits(ParseRobots(file), path) : x.line = i
    OBVIOUS
  <2>1. PICK a \in Heeded(file) : Governs(file, i, a)
    OBVIOUS
  <2>2. PICK j \in DOMAIN file : IsAgent(file[j]) /\ file[j].value = a
    <3>1. PICK j \in 1 .. i - 1 : IsAgent(file[j]) /\ file[j].value = a
      BY <2>1 DEF Governs
    <3>2. j \in DOMAIN file
      BY <1>1
    <3> QED BY <3>1, <3>2
  <2>3. PICK b \in DOMAIN file : OpensBlock(file, b) /\ file[b].value = a
    BY <2>2, BlockOpened
  <2>4. InBlock(file, b, i)
    BY <2>1, <2>3, BlockGoverns
  <2> DEFINE x == [rule |-> file[i], block |-> b, line |-> i]
  <2>5. x \in ParseRobots(file)
    BY <2>3, <2>4, RuleKept
  <2>6. x.rule = file[i] /\ x.line = i
    OBVIOUS
  <2>7. x \in Hits(ParseRobots(file), path)
    BY <2>5, <2>6 DEF Hits
  <2> QED BY <2>6, <2>7
<1>5. CASE best = {}
  BY <1>5 DEF Permitted
<1>6. CASE best # {}
  <2>1. PICK i \in best : TRUE
    BY <1>6
  <2>2. PICK z \in Hits(ParseRobots(file), path) : z.line = i
    BY <1>4
  <2>3. longest # {} /\ longest \subseteq ParseRobots(file)
    BY <1>3, <2>2
  <2>4. PICK x \in longest : \A y \in longest : ~Earlier(y, x)
    BY <2>3, OneDecides
  <2>5. ASSUME NEW y \in Hits(ParseRobots(file), path)
        PROVE  \/ Len(y.rule.value) < Len(x.rule.value)
               \/ Len(y.rule.value) = Len(x.rule.value) /\ ~Earlier(y, x)
    <3>1. /\ y.line \in hits /\ y.rule = file[y.line]
          /\ x.line \in best /\ x.rule = file[x.line] /\ x.line \in hits
      BY <1>3
    <3>2. /\ Len(file[y.line].value) <= Len(file[x.line].value)
          /\ Len(file[y.line].value) \in Nat /\ Len(file[x.line].value) \in Nat
      BY <1>2, <3>1
    <3>3. CASE Len(file[y.line].value) = Len(file[x.line].value)
      <4>1. y.line \in best
        BY <3>1, <3>3
      <4>2. ~Earlier(y, x)
        BY <2>4, <4>1
      <4> QED BY <3>1, <3>3, <4>2
    <3> QED BY <3>1, <3>2, <3>3
  <2>6. x.rule.key # "disallow"
    BY <2>5 DEF RulesAllow
  <2>7. x.line \in best /\ file[x.line].key = "allow"
    <3>1. x.line \in best /\ x.line \in hits /\ x.rule = file[x.line]
      BY <1>3
    <3> QED BY <1>2, <2>6, <3>1
  <2> QED BY <2>7 DEF Permitted
<1> QED BY <1>5, <1>6

\* Everything is disallowed when the file could not be asked for.
LEMMA AllDisallowed ==
    ASSUME NEW path \in RobotPaths
    PROVE  ~RulesAllow({[rule |-> [key |-> "disallow", value |-> <<>>],
                         block |-> 1, line |-> 1]}, path)
<1> DEFINE x == [rule |-> [key |-> "disallow", value |-> <<>>], block |-> 1, line |-> 1]
<1>1. x.rule.value = <<>> /\ x.rule.key = "disallow" /\ ~Earlier(x, x)
  BY DEF Earlier
<1>2. IsPrefix(<<>>, path)
  <2>1. path \in Seq(STRING) /\ Len(<<>>) = 0
    BY PolitenessAssumption
  <2>2. Len(path) \in Nat /\ SubSeq(path, 1, 0) = <<>> /\ SubSeq(<<>>, 1, 0) = <<>>
    BY <2>1
  <2> QED BY <2>1, <2>2 DEF IsPrefix
<1>3. Hits({x}, path) = {x}
  BY <1>1, <1>2 DEF Hits
<1> HIDE DEF x
<1>4. ~RulesAllow({x}, path)
  <2>1. /\ x \in Hits({x}, path) /\ x.rule.key = "disallow"
        /\ \A y \in Hits({x}, path) : y = x
    BY <1>1, <1>3
  <2>2. \A y \in Hits({x}, path) :
           \/ Len(y.rule.value) < Len(x.rule.value)
           \/ Len(y.rule.value) = Len(x.rule.value) /\ ~Earlier(y, x)
    BY <1>1, <2>1
  <2> QED BY <2>1, <2>2 DEF RulesAllow
<1> QED BY <1>4 DEF x

\* It holds before any file is asked for.
LEMMA PolitenessBegins ==
    ASSUME PolitenessInit
    PROVE PolitenessIInv
<1>1. \A s \in Sites : HostOf[s] \in Hosts
  BY DEF Hosts
<1>2. text \in [Sites -> UNION {Texts[s] : s \in Sites}] /\ \A s \in Sites : text[s] \in Texts[s]
  BY DEF PolitenessInit
<1> QED BY <1>1, <1>2 DEF PolitenessInit, PolitenessIInv, AllLoaded, CacheTold, AnswerJudged,
                         NoAnswer

\* A fetch that ends puts what it has brought into the entry of its site.
LEMMA LoadKeeps ==
    ASSUME PolitenessIInv, OneSitePerHost, NEW s \in Sites,
           NEW how \in {"read", "absent", "failed"}, NEW rules, Load(s, how, rules),
           how = "read" => rules = ParseRobots(text[s]),
           how = "failed" => rules = {[rule |-> [key |-> "disallow", value |-> <<>>],
                                       block |-> 1, line |-> 1]}
    PROVE PolitenessIInv'
<1>1. /\ fetch[s] = "loading" /\ fetch' = [fetch EXCEPT ![s] = how]
      /\ cache' = [cache EXCEPT ![HostOf[s]] = [known |-> TRUE, rules |-> rules]]
      /\ text' = text /\ crawling' = crawling /\ answer' = answer /\ allowed' = allowed
      /\ fetch \in [Sites -> {"unasked", "loading", "read", "absent", "failed"}]
      /\ allowed \subseteq Sites
      /\ DOMAIN cache = Hosts /\ HostOf[s] \in Hosts
      /\ AllLoaded /\ CacheTold /\ AnswerJudged
  BY DEF Load, PolitenessIInv, Hosts
<1>2. ~crawling
  BY <1>1 DEF AllLoaded
<1>3. /\ fetch'[s] = how /\ \A r \in Sites \ {s} : fetch'[r] = fetch[r]
      /\ fetch' \in [Sites -> {"unasked", "loading", "read", "absent", "failed"}]
  BY <1>1
<1>4. /\ DOMAIN cache' = Hosts
      /\ cache'[HostOf[s]].known /\ cache'[HostOf[s]].rules = rules
      /\ \A r \in Sites \ {s} : cache'[HostOf[r]] = cache[HostOf[r]]
  BY <1>1 DEF OneSitePerHost, Hosts
<1>5. CacheTold'
  <2> SUFFICES ASSUME NEW r \in Sites
               PROVE  /\ fetch'[r] \notin {"loading", "unasked"} => cache'[HostOf[r]].known
                      /\ fetch'[r] = "read" => cache'[HostOf[r]].rules = ParseRobots(text'[r])
                      /\ fetch'[r] = "failed" =>
                           cache'[HostOf[r]].rules =
                             {[rule |-> [key |-> "disallow", value |-> <<>>],
                               block |-> 1, line |-> 1]}
    BY DEF CacheTold
  <2>1. CASE r = s
    BY <1>1, <1>3, <1>4, <2>1
  <2>2. CASE r # s
    BY <1>1, <1>3, <1>4, <2>2 DEF CacheTold
  <2> QED BY <2>1, <2>2
<1>6. AllLoaded' /\ AnswerJudged'
  <2>1. ~crawling' /\ answer' = answer
    BY <1>1, <1>2
  <2>2. ~(answer.verdict = "passed" /\ ~answer.start)
    BY <1>1, <1>2 DEF AnswerJudged
  <2>3. \A r \in Sites : fetch'[r] = "unasked" <=> r \notin allowed'
    BY <1>1, <1>3 DEF AllLoaded
  <2> QED BY <2>1, <2>2, <2>3 DEF AllLoaded, AnswerJudged
<1> QED BY <1>1, <1>3, <1>4, <1>5, <1>6 DEF PolitenessIInv

\* Every step keeps the invariant.
LEMMA PolitenessKeeps ==
    ASSUME PolitenessIInv, OneSitePerHost, [PolitenessNext]_politenessVars
    PROVE PolitenessIInv'
<1>1. CASE StartEngines
  BY <1>1 DEF StartEngines, PolitenessIInv, AllLoaded, CacheTold, AnswerJudged, RobotAllows,
              FromAllowed
<1>2. ASSUME NEW s \in Sites, LoadFile(s) \/ LoadNothing(s) \/ LoadRaises(s)
      PROVE PolitenessIInv'
  BY <1>2, LoadKeeps DEF LoadFile, LoadNothing, LoadRaises
<1>3. ASSUME NEW path \in RobotPaths, YieldElsewhere(path)
      PROVE PolitenessIInv'
  <2>1. /\ crawling /\ UNCHANGED <<allowed, text, fetch, cache, crawling>>
        /\ answer'.verdict = Verdict(Elsewhere, path, FALSE)
        /\ answer'.host = Elsewhere /\ answer'.path = path
    BY <1>3 DEF YieldElsewhere
  <2>2. AnswerJudged'
    <3> SUFFICES ASSUME answer'.verdict = "passed"
                 PROVE  /\ FromAllowed(Elsewhere)' /\ RobotAllows(Elsewhere, path)'
                        /\ Elsewhere \notin Hosts
      BY <2>1 DEF AnswerJudged, Hosts
    <3>1. FromAllowed(Elsewhere) /\ RobotAllows(Elsewhere, path)
      BY <2>1 DEF Verdict
    <3> QED BY <2>1, <3>1, PolitenessAssumption DEF FromAllowed, RobotAllows, Hosts
  <2> QED BY <2>1, <2>2 DEF PolitenessIInv, AllLoaded, CacheTold
<1>4. ASSUME NEW path \in RobotPaths, NEW s \in Sites, NEW start \in BOOLEAN,
             YieldRequest(s, path, start)
      PROVE PolitenessIInv'
  <2>1. /\ crawling /\ UNCHANGED <<allowed, text, fetch, cache, crawling>>
        /\ answer'.verdict = Verdict(HostOf[s], path, start) /\ answer'.host = HostOf[s]
        /\ answer'.start = start /\ answer'.site = s /\ answer'.path = path
    BY <1>4 DEF YieldRequest
  <2>2. AnswerJudged'
    <3> SUFFICES ASSUME answer'.verdict = "passed", ~start
                 PROVE  FromAllowed(HostOf[s])' /\ RobotAllows(HostOf[s], path)'
      BY <2>1 DEF AnswerJudged
    <3>1. FromAllowed(HostOf[s]) /\ RobotAllows(HostOf[s], path)
      BY <2>1 DEF Verdict
    <3> QED BY <2>1, <3>1 DEF FromAllowed, RobotAllows
  <2> QED BY <2>1, <2>2 DEF PolitenessIInv, AllLoaded, CacheTold
<1>5. CASE UNCHANGED politenessVars
  BY <1>5 DEF politenessVars, PolitenessIInv, AllLoaded, CacheTold, AnswerJudged, RobotAllows,
              FromAllowed
<1> QED BY <1>1, <1>2, <1>3, <1>4, <1>5 DEF PolitenessNext

\* What has passed is permitted by the file of its own site, or goes to a
\* host whose file nobody had to ask for.
LEMMA PolitenessImplies ==
    ASSUME PolitenessIInv, OneSitePerHost, OneAgentPerGroup
    PROVE RobotsObeyed
<1> SUFFICES ASSUME answer.verdict = "passed", ~answer.start
             PROVE  \/ /\ answer.site \in allowed
                       /\ fetch[answer.site] \in {"read", "absent"}
                       /\ fetch[answer.site] = "read" =>
                             Permitted(text[answer.site], answer.path)
                    \/ /\ \A r \in allowed : HostOf[r] # answer.host
                       /\ allowed # {} =>
                             \E r \in allowed : IsStrictSuffix(HostOf[r], answer.host)
  BY DEF RobotsObeyed
<1> DEFINE s == answer.site
<1>1. /\ crawling /\ answer.path \in RobotPaths /\ allowed \subseteq Sites
      /\ FromAllowed(answer.host) /\ RobotAllows(answer.host, answer.path)
      /\ answer.host \in Hosts => s \in Sites /\ answer.host = HostOf[s]
  BY DEF PolitenessIInv, AnswerJudged
<1>2. CASE \A r \in allowed : HostOf[r] # answer.host
  BY <1>1, <1>2 DEF FromAllowed, IsStrictSuffix
<1>3. CASE \E r \in allowed : HostOf[r] = answer.host
  <2>1. answer.host \in Hosts /\ s \in allowed /\ s \in Sites /\ answer.host = HostOf[s]
    BY <1>1, <1>3 DEF Hosts, OneSitePerHost
  <2>2. cache[HostOf[s]].known /\ fetch[s] \in {"read", "absent", "failed"}
    BY <1>1, <2>1 DEF PolitenessIInv, AllLoaded, CacheTold
  <2>3. RulesAllow(cache[HostOf[s]].rules, answer.path)
    BY <1>1, <2>1, <2>2 DEF RobotAllows
  <2>4. fetch[s] # "failed"
    BY <1>1, <2>1, <2>3, AllDisallowed DEF PolitenessIInv, CacheTold
  <2>5. ASSUME fetch[s] = "read" PROVE Permitted(text[s], answer.path)
    <3>1. RulesAllow(ParseRobots(text[s]), answer.path)
      BY <2>1, <2>3, <2>5 DEF PolitenessIInv, CacheTold
    <3>2. text[s] \in Texts[s] /\ text[s] \in Seq(RobotLine)
      BY <2>1, PolitenessAssumption DEF PolitenessIInv, RobotLine
    <3>3. \A k \in 1 .. Len(text[s]) - 1 : ~(IsAgent(text[s][k]) /\ IsAgent(text[s][k + 1]))
      BY <2>1, <3>2 DEF OneAgentPerGroup
    <3> QED BY <1>1, <3>1, <3>2, <3>3, ParserExact
  <2> QED BY <2>1, <2>2, <2>4, <2>5
<1> QED BY <1>2, <1>3

---------------------------------------------------------------------------
(* What the composed run checks.                                           *)

\* A step of the composition is one of the component in focus, and leaves the
\* others alone.
LEMMA FocusStep ==
    ASSUME [Next]_<<focus, leasesVars, handoverVars, dedupVars, sessionStateVars,
                    monitoringVars, hubStoreVars, politenessVars, eventStreamVars>>
    PROVE  /\ [LeasesNext]_leasesVars /\ [HandoverNext]_handoverVars
           /\ [EventStreamNext]_eventStreamVars /\ [PolitenessNext]_politenessVars
BY DEF Next

\* Work that left a queue is done, stored or recorded, whichever broker holds
\* it, and nothing is repeated without a failure or a restart: when the id of
\* a request that is still recorded is not given to another.
THEOREM DeliveryHolds == ASSUME ~RecycleIds, ~RecycleCells PROVE Spec => []DeliveryKept
<1>1. Init => LeasesIInv /\ HandoverIInv
  BY LeasesBegins, HandoverBegins DEF Init
<1>2. LeasesIInv /\ HandoverIInv /\ [Next]_<<focus, leasesVars, handoverVars, dedupVars,
        sessionStateVars, monitoringVars, hubStoreVars, politenessVars, eventStreamVars>>
          => (LeasesIInv /\ HandoverIInv)'
  BY FocusStep, LeasesKeeps, HandoverKeeps
<1>3. LeasesIInv /\ HandoverIInv => DeliveryKept
  BY LeasesImplies, HandoverImplies DEF DeliveryKept
<1> QED BY <1>1, <1>2, <1>3, PTL DEF Spec

\* The spider has got one event for each block of lines that has data and has
\* ended, in order, with all its data, its own name and retry, and the last id
\* of the whole stream (aiter_sse).
THEOREM StreamsExact == Spec => []SseExact
<1>1. Init => EventStreamIInv
  BY EventStreamBegins DEF Init
<1>2. EventStreamIInv /\ [Next]_<<focus, leasesVars, handoverVars, dedupVars,
        sessionStateVars, monitoringVars, hubStoreVars, politenessVars, eventStreamVars>>
          => EventStreamIInv'
  BY FocusStep, EventStreamKeeps
<1>3. EventStreamIInv => SseExact
  BY DEF EventStreamIInv
<1> QED BY <1>1, <1>2, <1>3, PTL DEF Spec

\* A request that the interceptor lets through, not a start URL, to an entry
\* of allowed_domains is one that its robots.txt permits, and no other host
\* is let through unless it lies below an entry or nothing is listed: for any
\* files, sites, paths and allowed_domains, the empty one included, when a
\* host has one file and a group of rules one agent
\* (RobotSpiderInterceptor.process_spider_output, parse_robots_txt).
THEOREM SitesRespected ==
    ASSUME OneSitePerHost, OneAgentPerGroup PROVE Spec => []RobotsObeyed
<1>1. Init => PolitenessIInv
  BY PolitenessBegins DEF Init
<1>2. PolitenessIInv /\ [Next]_<<focus, leasesVars, handoverVars, dedupVars,
        sessionStateVars, monitoringVars, hubStoreVars, politenessVars, eventStreamVars>>
          => PolitenessIInv'
  BY FocusStep, PolitenessKeeps
<1>3. PolitenessIInv => RobotsObeyed
  BY PolitenessImplies
<1> QED BY <1>1, <1>2, <1>3, PTL DEF Spec
=============================================================================
