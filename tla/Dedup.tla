------------------------------- MODULE Dedup --------------------------------
(***************************************************************************)
(* Duplicate filters shared by several workers: the SET and the bitmap     *)
(* script of repo/redis.py, the filters of dupefilter/ (memory, Redis,     *)
(* Bloom) and the schedulers that push what is new.                        *)
(*                                                                         *)
(* A fingerprint stands for the set of positions it occupies: itself in a  *)
(* SET, its Bloom indices in a bitmap, so one script serves both.  Redis   *)
(* runs a script atomically; its reply may be lost and the call repeated   *)
(* by the repository's retry policy.                                       *)
(***************************************************************************)
EXTENDS Integers, FiniteSets

CONSTANTS
    Discovered,    \* requests, each found by some worker
    Fingerprint,   \* the fingerprint of each request
    Positions,     \* positions of each fingerprint
    ShardOf,       \* shard of each fingerprint (jump hash, one when single)
    DontFilter,    \* requests with dont_filter
    StartUrls,     \* requests yielded by spider.start, start URLs and ingress
    RecordsSeen,   \* the SET script and the memory filter record what they
                   \* answer "seen" too, the bitmap script does not
    MaxLostReplies,\* bound: replies lost in a behaviour
    Ttl            \* DEDUP_TTL > 0: keys may expire

ASSUME DedupAssumption ==
    /\ IsFiniteSet(Discovered)
    /\ DontFilter \subseteq Discovered /\ StartUrls \subseteq Discovered
    /\ RecordsSeen \in BOOLEAN
    /\ MaxLostReplies \in Nat /\ Ttl \in BOOLEAN

Shards == {ShardOf[Fingerprint[q]] : q \in Discovered}
AllPositions == UNION {Positions[Fingerprint[q]] : q \in Discovered}

VARIABLES
    newSeen,   \* per shard: positions recorded when first scheduled
    sentSeen,  \* per shard: positions recorded once answered
    place,     \* where each request is
    flagged,   \* requests whose meta holds is_start_url
    lostReply, \* requests whose verdict was lost once
    expired,   \* shards that forgot something
    recorded     \* requests whose positions the script recorded

dedupVars == <<newSeen, sentSeen, place, flagged, lostReply, expired, recorded>>

Shard(q) == ShardOf[Fingerprint[q]]
Bits(q) == Positions[Fingerprint[q]]

DedupTypeOK ==
    /\ newSeen \in [Shards -> SUBSET AllPositions]
    /\ sentSeen \in [Shards -> SUBSET AllPositions]
    /\ place \in [Discovered -> {"yielded", "found", "checking", "new", "queued",
                                 "dropped", "lost", "taken", "answered"}]
    /\ flagged \subseteq Discovered
    /\ lostReply \subseteq Discovered /\ Cardinality(lostReply) <= MaxLostReplies
    /\ expired \subseteq Shards /\ recorded \subseteq Discovered

DedupInit ==
    /\ newSeen = [s \in Shards |-> {}]
    /\ sentSeen = [s \in Shards |-> {}]
    /\ place = [q \in Discovered |-> "yielded"] /\ flagged = StartUrls
    /\ lostReply = {} /\ expired = {} /\ recorded = {}

Put(q, where) == place' = [place EXCEPT ![q] = where]
KeepSeen == UNCHANGED <<newSeen, sentSeen, lostReply, expired, recorded>>

\* RobotSpiderInterceptor, which every output of a spider meets, pops the flag
\* that get_spider_output gave what start yields, to let it through unchecked.
Intercept(q) ==
    /\ place[q] = "yielded"
    /\ Put(q, "found")
    /\ flagged' = flagged \ {q}
    /\ KeepSeen

\* Scheduler.put: dont_filter, or the flag, skips the filter.
Bypass(q) ==
    /\ place[q] = "found" /\ q \in DontFilter \cup flagged
    /\ Put(q, "new")
    /\ KeepSeen /\ UNCHANGED flagged

Check(q) ==
    /\ place[q] = "found" /\ q \notin DontFilter \cup flagged
    /\ Put(q, "checking")
    /\ KeepSeen /\ UNCHANGED flagged

\* do_filter, do_bloom_filter, MemoryDupeFilter.request_seen: new when not
\* every position was recorded, neither as scheduled nor as answered.
IsNew(q) == ~(Bits(q) \subseteq newSeen[Shard(q)]) /\ ~(Bits(q) \subseteq sentSeen[Shard(q)])

\* What the script records.
Recorded(q) ==
    IF IsNew(q) \/ RecordsSeen
    THEN /\ newSeen' = [newSeen EXCEPT ![Shard(q)] = @ \cup Bits(q)]
         /\ recorded' = recorded \cup {q}
    ELSE UNCHANGED <<newSeen, recorded>>

\* Mutant: the record is left to mark_sent.
FilterUnrecorded(q) ==
    /\ place[q] = "checking"
    /\ Put(q, IF IsNew(q) THEN "new" ELSE "dropped")
    /\ UNCHANGED <<newSeen, recorded>>
    /\ UNCHANGED <<sentSeen, flagged, lostReply, expired>>

\* The script runs and its verdict arrives.
Filter(q) ==
    /\ place[q] = "checking"
    /\ Put(q, IF IsNew(q) THEN "new" ELSE "dropped")
    /\ Recorded(q)
    /\ UNCHANGED <<sentSeen, flagged, lostReply, expired>>

\* The script runs, the reply is lost, the call is repeated.
FilterReplyLost(q) ==
    /\ place[q] = "checking" /\ q \notin lostReply
    /\ Cardinality(lostReply) < MaxLostReplies
    /\ lostReply' = lostReply \cup {q}
    /\ Recorded(q)
    /\ UNCHANGED <<sentSeen, place, flagged, expired>>

\* rpush, or the push that fails after the fingerprint was recorded, or the
\* worker that crashes in between.
Enqueue(q) ==
    /\ place[q] = "new"
    /\ Put(q, "queued") \/ Put(q, "lost")
    /\ KeepSeen /\ UNCHANGED flagged

Fetch(q) ==
    /\ place[q] = "queued"
    /\ Put(q, "taken")
    /\ KeepSeen /\ UNCHANGED flagged

\* put_is_req when the response arrives.
MarkSent(q) ==
    /\ place[q] = "taken"
    /\ Put(q, "answered")
    /\ sentSeen' = [sentSeen EXCEPT ![Shard(q)] = @ \cup
                       IF q \in DontFilter THEN {} ELSE Bits(q)]
    /\ UNCHANGED <<newSeen, flagged, lostReply, expired, recorded>>

\* A key expires; the other one lives on by its own time.
ExpireKey(s) ==
    /\ Ttl
    /\ expired' = expired \cup {s}
    /\ \/ newSeen[s] # {} /\ newSeen' = [newSeen EXCEPT ![s] = {}] /\ UNCHANGED sentSeen
       \/ sentSeen[s] # {} /\ sentSeen' = [sentSeen EXCEPT ![s] = {}] /\ UNCHANGED newSeen
    /\ UNCHANGED <<place, flagged, lostReply, recorded>>

DedupNext ==
    \/ \E q \in Discovered : \/ Intercept(q) \/ Bypass(q) \/ Check(q)
                             \/ Filter(q) \/ FilterReplyLost(q)
                             \/ Enqueue(q) \/ Fetch(q) \/ MarkSent(q)
    \/ \E s \in Shards : ExpireKey(s)

DedupSpec == DedupInit /\ [][DedupNext]_dedupVars

Admitted == {"new", "queued", "lost", "taken", "answered"}

\* Two workers never both schedule a fingerprint that its shard remembers,
\* in whatever order their checks, answers and expiries come.
AdmittedOnce ==
    \A p, q \in Discovered \ DontFilter :
        p # q /\ Fingerprint[p] = Fingerprint[q] /\ Shard(p) \notin expired
            => ~(place[p] \in Admitted /\ place[q] \in Admitted)

\* The requests that answer for what a shard has recorded: the script recorded
\* them and let them in, or lost its reply to them.
Vouchers(s) ==
    {p \in recorded : Shard(p) = s /\ (place[p] \in Admitted \/ p \in lostReply)}

\* Each position of a dropped request belongs to a voucher of its shard, which
\* is the request itself only if its own reply was lost.  So a fingerprint is
\* fetched by nobody in two cases only: the push of the request that recorded
\* it failed (place "lost"), or the script's reply to it did; a Bloom filter may
\* also find every position occupied by requests of other fingerprints.
DroppedForCause ==
    \A q \in Discovered :
        place[q] = "dropped" =>
            Bits(q) \subseteq UNION {Bits(p) : p \in Vouchers(Shard(q))}

\* The types hold; nothing is scheduled twice while its shard remembers, and
\* nothing is dropped but for a request that was let in or lost its verdict.
DedupInv == DedupTypeOK /\ AdmittedOnce /\ DroppedForCause

\* "Ingress / `start_urls` requests carry `meta["is_start_url"]` and bypass
\* dedup": no request of spider.start is dropped as a duplicate.
StartUrlsBypass == \A q \in StartUrls : place[q] # "dropped"
=============================================================================
