--------------------------- MODULE SessionsProofs ---------------------------
(***************************************************************************)
(* The bookkeeping, the wrapper table and the use of sessions, for any     *)
(* ids, groups, users and bounds.                                          *)
(*                                                                         *)
(* The counts are exact because every path of a user moves it in or out of *)
(* the holders of its name together with the count; a re-scheduling        *)
(* releases without a new acquire and is counted apart (Overdrawn).  The   *)
(* set beside the close queue holds as many ids as the queue has places,   *)
(* so no id is queued twice.  Every wrapper made is registered or closed   *)
(* (Owned).  With sessions used as documented (Disciplined) a queued id    *)
(* has ended and has no holder, so the reaper never takes what a fetch     *)
(* works with (UseInv).                                                    *)
(***************************************************************************)
EXTENDS Sessions, FiniteSetTheorems, SequenceTheorems, TLAPS

\* What the wrapper table records: every wrapper made is the registered one or
\* has been closed, and close_all leaves none registered.
Owned ==
    /\ \A s \in Ids : current[s] <= made[s]
    /\ \A w \in closed : w[2] <= made[w[1]]
    /\ \A s \in Ids \ {Default} : \A k \in 1 .. made[s] : k = current[s] \/ <<s, k>> \in closed
    /\ phase = "closed" => \A s \in Ids : ~Live(s)

\* How far users get: none but fetches outlives freeze, none outlives persist, a
\* new one was never re-scheduled, and every name is that of a session or a group.
Stages ==
    /\ phase # "running" => \A u \in Users : user[u] \in {"using", "done"}
    /\ phase \in {"persisted", "closed"} => \A u \in Users : user[u] = "done"
    /\ \A u \in Users : user[u] = "new" => refetched[u] = 0
    /\ \A u \in Users : name[u] \in Ids \/ IsGroup(name[u])

\* The inductive invariant.
IInv == SessionsInv /\ RegisteredOpen /\ Owned /\ Stages

---------------------------------------------------------------------------
(* Sequences.                                                              *)

\* A sequence has at most as many members as places.
LEMMA RangeCounted ==
    ASSUME NEW S, NEW q \in Seq(S)
    PROVE /\ RangeOf(q) \subseteq S /\ IsFiniteSet(RangeOf(q))
          /\ Cardinality(RangeOf(q)) \in Nat /\ Len(q) \in Nat
          /\ Cardinality(RangeOf(q)) <= Len(q)
<1> PICK n : n = Len(q)
  OBVIOUS
<1>1. n \in Nat /\ q \in [1 .. n -> S]
  BY LenProperties
<1>2. IsFiniteSet(1 .. n) /\ Cardinality(1 .. n) = n
  <2>1. 1 \in Int /\ n \in Int
    BY <1>1
  <2>2. IsFiniteSet(1 .. n) /\ Cardinality(1 .. n) = IF 1 > n THEN 0 ELSE n - 1 + 1
    BY <2>1, FS_Interval
  <2> QED BY <2>2, <1>1
<1>3. q \in Surjection(1 .. n, RangeOf(q))
  BY <1>1 DEF RangeOf, Surjection
<1>4. IsFiniteSet(RangeOf(q)) /\ Cardinality(RangeOf(q)) <= Cardinality(1 .. n)
  BY <1>2, <1>3, FS_Surjection DEF ExistsSurjection
<1>5. RangeOf(q) \subseteq S
  BY <1>1 DEF RangeOf
<1>6. Cardinality(RangeOf(q)) \in Nat
  BY <1>4, FS_CardinalityType
<1> QED BY <1>1, <1>2, <1>4, <1>5, <1>6

\* The members of a concatenation.
LEMMA RangeJoined ==
    ASSUME NEW S, NEW q \in Seq(S), NEW d \in Seq(S)
    PROVE /\ RangeOf(q \o d) = RangeOf(q) \cup RangeOf(d)
          /\ q \o d \in Seq(S) /\ Len(q \o d) = Len(q) + Len(d)
<1> PICK n : n = Len(q)
  OBVIOUS
<1> PICK m : m = Len(d)
  OBVIOUS
<1> PICK j : j = q \o d
  OBVIOUS
<1>1. /\ j \in Seq(S) /\ Len(j) = n + m /\ n \in Nat /\ m \in Nat
      /\ \A i \in 1 .. n + m : j[i] = IF i <= n THEN q[i] ELSE d[i - n]
  BY ConcatProperties, LenProperties
<1>2. ASSUME NEW i \in 1 .. n PROVE j[i] = q[i] /\ i \in 1 .. n + m
  BY <1>1
<1>3. ASSUME NEW i \in 1 .. m PROVE j[n + i] = d[i] /\ n + i \in 1 .. n + m
  BY <1>1
<1>4. ASSUME NEW i \in 1 .. n + m
      PROVE (i \in 1 .. n /\ j[i] = q[i]) \/ (i - n \in 1 .. m /\ j[i] = d[i - n])
  BY <1>1
<1>5. RangeOf(j) = RangeOf(q) \cup RangeOf(d)
  <2>1. RangeOf(j) \subseteq RangeOf(q) \cup RangeOf(d)
    BY <1>1, <1>4 DEF RangeOf
  <2>2. RangeOf(q) \subseteq RangeOf(j)
    BY <1>1, <1>2 DEF RangeOf
  <2>3. RangeOf(d) \subseteq RangeOf(j)
    BY <1>1, <1>3 DEF RangeOf
  <2> QED BY <2>1, <2>2, <2>3
<1> QED BY <1>1, <1>5

\* A sequence is its head and its tail.
LEMMA RangeTaken ==
    ASSUME NEW S, NEW q \in Seq(S), q # <<>>
    PROVE /\ Head(q) \in S /\ Tail(q) \in Seq(S) /\ Len(Tail(q)) = Len(q) - 1
          /\ RangeOf(q) = {Head(q)} \cup RangeOf(Tail(q))
<1> PICK n : n = Len(q)
  OBVIOUS
<1> PICK t : t = Tail(q)
  OBVIOUS
<1>1. /\ n \in Nat /\ n # 0 /\ q \in [1 .. n -> S]
  BY LenProperties, EmptySeq
<1>2. /\ Head(q) = q[1] /\ t \in Seq(S) /\ Len(t) = n - 1
      /\ \A i \in 1 .. n - 1 : t[i] = q[i + 1]
  BY <1>1, HeadTailProperties
<1>3. ASSUME NEW i \in 1 .. n PROVE i = 1 \/ (i - 1 \in 1 .. n - 1 /\ t[i - 1] = q[i])
  BY <1>1, <1>2
<1>4. RangeOf(q) \subseteq {q[1]} \cup RangeOf(t)
  BY <1>2, <1>3 DEF RangeOf
<1>5. RangeOf(t) \subseteq RangeOf(q)
  BY <1>1, <1>2 DEF RangeOf
<1>6. q[1] \in RangeOf(q) /\ q[1] \in S
  BY <1>1 DEF RangeOf
<1> QED BY <1>2, <1>4, <1>5, <1>6

\* An order of a set lists each of its members once.
LEMMA OrderListsOnce ==
    ASSUME NEW S, IsFiniteSet(S), NEW q \in Orders(S)
    PROVE q \in Seq(S) /\ RangeOf(q) = S /\ Len(q) = Cardinality(S)
<1> PICK n : n = Cardinality(S)
  OBVIOUS
<1>1. n \in Nat
  BY FS_CardinalityType
<1>2. q \in [1 .. n -> S] /\ \A s \in S : \E i \in 1 .. n : q[i] = s
  BY DEF Orders
<1>3. q \in Seq(S) /\ Len(q) = n
  BY <1>1, <1>2, IsASeq, LenProperties
<1> QED BY <1>2, <1>3 DEF RangeOf

---------------------------------------------------------------------------
(* The dedup set.                                                          *)

InClose(r) == IF r = Idle THEN {} ELSE {r[1]}
Mirrored(q, P, r) ==
    /\ P = RangeOf(q) \cup InClose(r)
    /\ Cardinality(P) = Len(q) + (IF r = Idle THEN 0 ELSE 1)

\* QueueMirrored is about the present queue, set and reaper.
LEMMA MirroredIsQueueMirrored ==
    QueueMirrored <=> Mirrored(closeQueue, pendingClose, reaper)
BY DEF QueueMirrored, Mirrored, InClose

\* Queueing ids that the set does not hold yet, each once.
LEMMA MirroredGrows ==
    ASSUME NEW q \in Seq(Ids), NEW P \in SUBSET Ids, NEW r, Mirrored(q, P, r),
           NEW d \in Seq(Ids), Len(d) = Cardinality(RangeOf(d)), RangeOf(d) \cap P = {}
    PROVE Mirrored(q \o d, P \cup RangeOf(d), r)
<1> PICK n : n = Len(q)
  OBVIOUS
<1> PICK m : m = Len(d)
  OBVIOUS
<1> PICK x : x = IF r = Idle THEN 0 ELSE 1
  OBVIOUS
<1> PICK p : p = Cardinality(P)
  OBVIOUS
<1>1. /\ n \in Nat /\ m \in Nat /\ x \in Nat /\ IsFiniteSet(P) /\ IsFiniteSet(RangeOf(d))
      /\ p \in Nat /\ p = n + x
  BY LenProperties, SessionsAssumption, FS_Subset, FS_CardinalityType, RangeCounted DEF Mirrored
<1>2. Cardinality(P \cup RangeOf(d)) = p + m
  <2>1. Cardinality(P \cup RangeOf(d)) = p + m - Cardinality(P \cap RangeOf(d))
    BY <1>1, FS_Union
  <2>2. Cardinality(P \cap RangeOf(d)) = 0
    BY FS_EmptySet
  <2> QED BY <2>1, <2>2, <1>1
<1>3. Len(q \o d) = n + m /\ RangeOf(q \o d) = RangeOf(q) \cup RangeOf(d)
  BY RangeJoined
<1>4. P \cup RangeOf(d) = RangeOf(q \o d) \cup InClose(r)
  BY <1>3 DEF Mirrored
<1>5. p + m = (n + m) + x
  BY ONLY <1>1
<1> QED BY <1>2, <1>3, <1>4, <1>5 DEF Mirrored

\* Queueing one id.
LEMMA MirroredGrowsByOne ==
    ASSUME NEW q \in Seq(Ids), NEW P \in SUBSET Ids, NEW r, Mirrored(q, P, r),
           NEW s \in Ids, s \notin P
    PROVE Mirrored(q \o <<s>>, P \cup {s}, r)
<1>1. <<s>> \in Seq(Ids) /\ Len(<<s>>) = 1 /\ RangeOf(<<s>>) = {s}
  BY DEF RangeOf
<1>2. Cardinality({s}) = 1
  BY FS_Singleton
<1> QED BY <1>1, <1>2, MirroredGrows

\* The reaper takes the head: it is queued nowhere else, so it leaves the set if
\* it is skipped and is what the reaper closes otherwise.
LEMMA MirroredTaken ==
    ASSUME NEW q \in Seq(Ids), NEW P \in SUBSET Ids, Mirrored(q, P, Idle), q # <<>>
    PROVE /\ Mirrored(Tail(q), P \ {Head(q)}, Idle)
          /\ \A k : Mirrored(Tail(q), P, <<Head(q), k>>)
<1> PICK n : n = Len(q)
  OBVIOUS
<1> PICK s : s = Head(q)
  OBVIOUS
<1> PICK t : t = Tail(q)
  OBVIOUS
<1> PICK c : c = Cardinality(RangeOf(t))
  OBVIOUS
<1>1. n \in Nat /\ P = RangeOf(q) /\ Cardinality(P) = n /\ IsFiniteSet(P)
  BY LenProperties, RangeCounted DEF Mirrored, InClose
<1>2. s \in Ids /\ t \in Seq(Ids) /\ Len(t) = n - 1 /\ P = {s} \cup RangeOf(t)
  BY <1>1, RangeTaken
<1>3. c \in Nat /\ c <= n - 1 /\ IsFiniteSet(RangeOf(t))
  BY <1>2, RangeCounted
<1>4. s \notin RangeOf(t)
  <2> SUFFICES ASSUME s \in RangeOf(t) PROVE FALSE
    OBVIOUS
  <2>1. P = RangeOf(t)
    BY <1>2
  <2> QED BY <2>1, <1>1, <1>3
<1>5. P \ {s} = RangeOf(t)
  BY <1>2, <1>4
<1>6. c = n - 1
  <2>1. s \in P
    BY <1>2
  <2>2. Cardinality(P \ {s}) = Cardinality(P) - 1
    BY <2>1, <1>1, FS_RemoveElement
  <2> QED BY <2>2, <1>1, <1>5
<1>7. Mirrored(t, P \ {s}, Idle)
  <2>1. Cardinality(P \ {s}) = (n - 1) + 0
    <3>1. Cardinality(P \ {s}) = c
      BY ONLY <1>5, c = Cardinality(RangeOf(t))
    <3> QED BY <3>1, <1>1, <1>6
  <2>2. RangeOf(t) = RangeOf(t) \cup {}
    OBVIOUS
  <2> QED BY <2>1, <2>2, <1>2, <1>5 DEF Mirrored, InClose
<1>8. ASSUME NEW k PROVE Mirrored(t, P, <<s, k>>)
  <2>1. <<s, k>> # Idle /\ <<s, k>>[1] = s
    BY DEF Idle
  <2>2. n = (n - 1) + 1
    BY <1>1
  <2> QED BY <2>1, <2>2, <1>1, <1>2 DEF Mirrored, InClose
<1> QED BY <1>7, <1>8

\* The close returns: the id leaves the set, which then is the queue.
LEMMA MirroredDone ==
    ASSUME NEW q \in Seq(Ids), NEW P \in SUBSET Ids, NEW r, r # Idle, Mirrored(q, P, r)
    PROVE Mirrored(q, P \ {r[1]}, Idle)
<1> PICK n : n = Len(q)
  OBVIOUS
<1> PICK c : c = Cardinality(RangeOf(q))
  OBVIOUS
<1>1. n \in Nat /\ c \in Nat /\ c <= n /\ IsFiniteSet(RangeOf(q)) /\ IsFiniteSet(P)
  BY RangeCounted, LenProperties, SessionsAssumption, FS_Subset
<1>2. P = RangeOf(q) \cup {r[1]} /\ Cardinality(P) = n + 1
  BY DEF Mirrored, InClose
<1>3. r[1] \notin RangeOf(q)
  <2> SUFFICES ASSUME r[1] \in RangeOf(q) PROVE FALSE
    OBVIOUS
  <2>1. P = RangeOf(q)
    BY <1>2
  <2> QED BY <2>1, <1>1, <1>2
<1>4. P \ {r[1]} = RangeOf(q)
  BY <1>2, <1>3
<1>5. Cardinality(P \ {r[1]}) = n
  <2>1. r[1] \in P
    BY <1>2
  <2>2. Cardinality(P \ {r[1]}) = Cardinality(P) - 1
    BY <2>1, <1>1, FS_RemoveElement
  <2> QED BY <2>2, <1>1, <1>2
<1> QED BY <1>4, <1>5, <1>1 DEF Mirrored, InClose
---------------------------------------------------------------------------
(* The wrapper table.                                                      *)

\* Wrappers are made only under ids that have none registered.
LEMMA WrappersMade ==
    ASSUME TypeOK, RegisteredOpen, Owned, phase # "closed", phase' = phase,
           NEW S \in SUBSET Ids, \A s \in S : ~Live(s), CreateAll(S)
    PROVE /\ made' \in [Ids -> 0 .. MaxWrappers] /\ current' \in [Ids -> 0 .. MaxWrappers]
          /\ closed' \in SUBSET Wrappers
          /\ \A s \in Ids : Live(s) => current'[s] = current[s]
          /\ RegisteredOpen' /\ Owned'
<1>1. /\ made \in [Ids -> 0 .. MaxWrappers] /\ current \in [Ids -> 0 .. MaxWrappers]
      /\ closed \in SUBSET Wrappers /\ MaxWrappers \in Nat
  BY SessionsAssumption DEF TypeOK
<1>2. /\ \A s \in S : made[s] < MaxWrappers
      /\ made' = [s \in Ids |-> IF s \in S THEN made[s] + 1 ELSE made[s]]
      /\ current' = [s \in Ids |-> IF s \in S THEN made[s] + 1 ELSE current[s]]
      /\ closed' = closed
  BY DEF CreateAll
<1>3. \A s \in S : current[s] = 0
  BY DEF Live, NoWrapper
<1>4. made' \in [Ids -> 0 .. MaxWrappers] /\ current' \in [Ids -> 0 .. MaxWrappers]
  BY <1>1, <1>2
<1>5. \A w \in closed : w[1] \in Ids /\ w[2] \in 0 .. MaxWrappers /\ w[2] <= made[w[1]]
  BY <1>1 DEF Owned, Wrappers
<1>6. RegisteredOpen'
  <2> SUFFICES ASSUME NEW s \in Ids, current'[s] # 0, <<s, current'[s]>> \in closed
               PROVE FALSE
    BY <1>2 DEF RegisteredOpen, Live, NoWrapper
  <2>1. CASE s \in S
    <3>1. current'[s] = made[s] + 1
      BY <2>1, <1>2
    <3>2. made[s] + 1 <= made[s]
      BY <3>1, <1>5
    <3> QED BY <3>2, <1>1
  <2>2. CASE s \notin S
    BY <2>2, <1>2 DEF RegisteredOpen, Live, NoWrapper
  <2> QED BY <2>1, <2>2
<1>7. Owned'
  <2>1. \A s \in Ids : current'[s] <= made'[s]
    BY <1>1, <1>2 DEF Owned
  <2>2. ASSUME NEW w \in closed PROVE w[2] <= made'[w[1]]
    BY <1>1, <1>2, <1>5
  <2>3. ASSUME NEW s \in Ids \ {Default}, NEW k \in 1 .. made'[s]
        PROVE k = current'[s] \/ <<s, k>> \in closed
    <3>1. CASE s \in S
      <4>1. k = made[s] + 1 \/ k \in 1 .. made[s]
        BY <3>1, <1>1, <1>2
      <4> QED BY <4>1, <3>1, <1>1, <1>2, <1>3 DEF Owned
    <3>2. CASE s \notin S
      BY <3>2, <1>2 DEF Owned
    <3> QED BY <3>1, <3>2
  <2> QED BY <2>1, <2>2, <2>3, <1>2 DEF Owned
<1> QED BY <1>1, <1>2, <1>3, <1>4, <1>6, <1>7 DEF Live, NoWrapper

\* Looking a name up.
LEMMA LookedUp ==
    ASSUME TypeOK, RegisteredOpen, Owned, phase # "closed", phase' = phase,
           NEW s \in Ids, GetOrCreate(s)
    PROVE /\ made' \in [Ids -> 0 .. MaxWrappers] /\ current' \in [Ids -> 0 .. MaxWrappers]
          /\ closed' \in SUBSET Wrappers
          /\ \A t \in Ids : Live(t) => current'[t] = current[t]
          /\ RegisteredOpen' /\ Owned'
          /\ Live(s)' /\ <<s, current'[s]>> \in Wrappers
<1> DEFINE S == {s} \ {t \in Ids : Live(t)}
<1>1. S \in SUBSET Ids /\ (\A t \in S : ~Live(t)) /\ CreateAll(S)
  BY DEF GetOrCreate
<1> HIDE DEF S
<1>2. /\ made' \in [Ids -> 0 .. MaxWrappers] /\ current' \in [Ids -> 0 .. MaxWrappers]
      /\ closed' \in SUBSET Wrappers
      /\ \A t \in Ids : Live(t) => current'[t] = current[t]
      /\ RegisteredOpen' /\ Owned'
  BY <1>1, WrappersMade
<1>3. current'[s] # 0
  <2>1. CASE Live(s)
    BY <2>1, <1>2 DEF Live, NoWrapper
  <2>2. CASE ~Live(s)
    BY <2>2, <1>1 DEF S, CreateAll, TypeOK
  <2> QED BY <2>1, <2>2
<1>4. <<s, current'[s]>> \in Wrappers
  BY <1>2 DEF Wrappers
<1> QED BY <1>2, <1>3, <1>4 DEF Live, NoWrapper

\* A name stands for sessions.
LEMMA ResolvedToIds ==
    ASSUME TypeOK, NEW n
    PROVE Resolve(n) \subseteq Ids
<1>1. CASE IsGroup(n)
  <2>1. n \in Groups
    BY <1>1, RangeCounted DEF IsGroup, TypeOK
  <2> QED BY <1>1, <2>1 DEF Resolve, TypeOK
<1>2. CASE ~IsGroup(n)
  BY <1>2 DEF Resolve
<1> QED BY <1>1, <1>2

\* What an end is about: sessions, never the default one.
LEMMA EndedIds ==
    ASSUME TypeOK, NEW n, n \in Ids \/ IsGroup(n)
    PROVE /\ EndTargets(n) \subseteq Ids /\ NowDue(n) \subseteq Ids
          /\ NowDue(n) \subseteq EndTargets(n) /\ NowDue(n) \cap pendingClose = {}
          /\ IsFiniteSet(NowDue(n)) /\ MembersAfterEnd(n) \in [Groups -> SUBSET Ids]
<1>1. EndTargets(n) \subseteq Ids
  <2>1. CASE IsGroup(n)
    <3>1. n \in Groups
      BY <2>1, RangeCounted DEF IsGroup, TypeOK
    <3> QED BY <2>1, <3>1 DEF EndTargets, TypeOK
  <2>2. CASE ~IsGroup(n)
    BY <2>2 DEF EndTargets
  <2> QED BY <2>1, <2>2
<1>2. MembersAfterEnd(n) \in [Groups -> SUBSET Ids]
  <2>1. \A g \in Groups : members[g] \subseteq Ids
    BY DEF TypeOK
  <2> QED BY <2>1 DEF MembersAfterEnd
<1>3. NowDue(n) \subseteq EndTargets(n) /\ NowDue(n) \cap pendingClose = {}
  BY DEF NowDue
<1> QED BY <1>1, <1>2, <1>3, FS_Subset, SessionsAssumption
---------------------------------------------------------------------------
(* Counting.                                                               *)

\* Sets of users and of re-schedulings are finite.
LEMMA CountsFinite ==
    ASSUME NEW n
    PROVE /\ IsFiniteSet(Holders(n)) /\ Cardinality(Holders(n)) \in Nat
          /\ IsFiniteSet(Overdrawn(n)) /\ Cardinality(Overdrawn(n)) \in Nat
<1>1. 1 \in Int /\ MaxRefetch \in Int /\ IsFiniteSet(Users)
  BY SessionsAssumption
<1>2. IsFiniteSet(1 .. MaxRefetch)
  BY <1>1, FS_Interval
<1>3. IsFiniteSet(Users \X (1 .. MaxRefetch))
  BY <1>1, <1>2, FS_Product
<1>4. Overdrawn(n) \subseteq Users \X (1 .. MaxRefetch) /\ Holders(n) \subseteq Users
  BY DEF Overdrawn, Holders
<1>5. IsFiniteSet(Holders(n)) /\ IsFiniteSet(Overdrawn(n))
  BY <1>1, <1>3, <1>4, FS_Subset
<1> QED BY <1>5, FS_CardinalityType

\* Who releases and is done no longer holds its name.
LEMMA HolderLeaves ==
    ASSUME TypeOK, NEW u \in Users, user[u] \in {"acquired", "using", "ending"}, NEW n, n = name[u],
           user' = [user EXCEPT ![u] = "done"], UNCHANGED <<name, refetched>>
    PROVE /\ Holders(n)' = Holders(n) \ {u}
          /\ Cardinality(Holders(n)') = Cardinality(Holders(n)) - 1
          /\ \A m : m # n => Holders(m)' = Holders(m)
          /\ \A m : Overdrawn(m)' = Overdrawn(m)
<1>1. user' \in [Users -> UserStages] /\ user'[u] = "done" /\ \A t \in Users \ {u} : user'[t] = user[t]
  BY DEF TypeOK, UserStages
<1>2. Holders(n)' = Holders(n) \ {u}
  BY <1>1 DEF Holders, Holds
<1>3. ASSUME NEW m, m # n PROVE Holders(m)' = Holders(m)
  BY <1>1, <1>3 DEF Holders, Holds
<1>4. ASSUME NEW m PROVE Overdrawn(m)' = Overdrawn(m)
  BY DEF Overdrawn
<1>5. u \in Holders(n)
  BY DEF Holders, Holds
<1>6. Cardinality(Holders(n)') = Cardinality(Holders(n)) - 1
  BY <1>2, <1>5, CountsFinite, FS_RemoveElement
<1> QED BY <1>2, <1>3, <1>4, <1>6

\* Who acquires a name holds it; whatever name it had before was not held.
LEMMA HolderJoins ==
    ASSUME TypeOK, Stages, NEW u \in Users, user[u] = "new", NEW n \in Names,
           NEW next \in {"acquired", "ending"}, user' = [user EXCEPT ![u] = next],
           name' = [name EXCEPT ![u] = n], refetched' = refetched
    PROVE /\ Cardinality(Holders(n)') = Cardinality(Holders(n)) + 1
          /\ Holders(n)' = Holders(n) \cup {u}
          /\ \A m : m # n => Holders(m)' = Holders(m)
          /\ \A m : Overdrawn(m)' = Overdrawn(m)
<1>1. /\ user'[u] = next /\ \A t \in Users \ {u} : user'[t] = user[t]
      /\ name'[u] = n /\ \A t \in Users \ {u} : name'[t] = name[t]
  BY DEF TypeOK
<1>2. refetched[u] = 0
  BY DEF Stages
<1>3. Holders(n)' = Holders(n) \cup {u}
  BY <1>1 DEF Holders, Holds
<1>4. ASSUME NEW m, m # n PROVE Holders(m)' = Holders(m)
  BY <1>1, <1>4 DEF Holders, Holds
<1>5. ASSUME NEW m PROVE Overdrawn(m)' = Overdrawn(m)
  <2> SUFFICES ASSUME NEW o \in Users \X (1 .. MaxRefetch)
               PROVE name'[o[1]] = m /\ o[2] <= refetched'[o[1]]
                     <=> name[o[1]] = m /\ o[2] <= refetched[o[1]]
    BY DEF Overdrawn
  <2>1. CASE o[1] = u
    <3>1. o[2] \in 1 .. MaxRefetch /\ ~(o[2] <= refetched[o[1]])
      BY <2>1, <1>2
    <3> QED BY <3>1
  <2>2. CASE o[1] # u
    BY <2>2, <1>1
  <2> QED BY <2>1, <2>2
<1>6. u \notin Holders(n)
  BY DEF Holders, Holds
<1>7. Cardinality(Holders(n)') = Cardinality(Holders(n)) + 1
  BY <1>3, <1>6, CountsFinite, FS_AddElement
<1> QED BY <1>3, <1>4, <1>5, <1>7

\* A re-scheduled request goes on holding its name and has overdrawn it by one more.
LEMMA HolderStays ==
    ASSUME TypeOK, NEW u \in Users, user[u] = "using", refetched[u] < MaxRefetch,
           NEW n, n = name[u],
           user' = [user EXCEPT ![u] = "acquired"],
           refetched' = [refetched EXCEPT ![u] = @ + 1], name' = name
    PROVE /\ \A m : Holders(m)' = Holders(m)
          /\ \A m : m # n => Overdrawn(m)' = Overdrawn(m)
          /\ Cardinality(Overdrawn(n)') = Cardinality(Overdrawn(n)) + 1
<1> PICK r : r = refetched[u] + 1
  OBVIOUS
<1>1. /\ user'[u] = "acquired" /\ \A t \in Users \ {u} : user'[t] = user[t]
      /\ refetched'[u] = r /\ \A t \in Users \ {u} : refetched'[t] = refetched[t]
  BY DEF TypeOK
<1>2. /\ \A t \in Users : refetched[t] \in Nat
      /\ MaxRefetch \in Nat /\ r \in 1 .. MaxRefetch
  BY SessionsAssumption DEF TypeOK
<1>3. ASSUME NEW m PROVE Holders(m)' = Holders(m)
  BY <1>1 DEF Holders, Holds
<1>4. ASSUME NEW m, m # n PROVE Overdrawn(m)' = Overdrawn(m)
  BY <1>1, <1>4 DEF Overdrawn
<1>5. Overdrawn(n)' = Overdrawn(n) \cup {<<u, r>>}
  <2> SUFFICES ASSUME NEW t \in Users, NEW i \in 1 .. MaxRefetch
               PROVE name[t] = n /\ i <= refetched'[t]
                     <=> (name[t] = n /\ i <= refetched[t]) \/ <<t, i>> = <<u, r>>
    BY <1>2 DEF Overdrawn
  <2>1. CASE t = u
    BY <2>1, <1>1, <1>2
  <2>2. CASE t # u
    BY <2>2, <1>1
  <2> QED BY <2>1, <2>2
<1>6. <<u, r>> \notin Overdrawn(n)
  BY <1>2 DEF Overdrawn
<1>7. Cardinality(Overdrawn(n)') = Cardinality(Overdrawn(n)) + 1
  BY <1>5, <1>6, CountsFinite, FS_AddElement
<1> QED BY <1>3, <1>4, <1>7

\* release takes one from the count and may queue the id, if it is not queued yet.
LEMMA Released ==
    ASSUME TypeOK, QueueMirrored, NEW n \in Names, Release(n), reaper' = reaper
    PROVE /\ refs' \in [Names -> Int] /\ endFlags' = endFlags
          /\ closeQueue' \in Seq(Ids) /\ pendingClose' \in SUBSET Ids
          /\ QueueMirrored'
          /\ \A m \in Names \ {Default} : refs'[m] = IF m = n THEN refs[m] - 1 ELSE refs[m]
          /\ \A s \in RangeOf(closeQueue') : s \in RangeOf(closeQueue)
                \/ (s = n /\ n # Default /\ n \in endFlags /\ refs[n] - 1 <= 0)
<1>1. refs \in [Names -> Int]
  BY DEF TypeOK
<1>2. refs' \in [Names -> Int]
      /\ \A m \in Names \ {Default} : refs'[m] = IF m = n THEN refs[m] - 1 ELSE refs[m]
  BY <1>1 DEF Release, Counted
<1> DEFINE due == /\ Counted(n) /\ n \in endFlags
                  /\ refs[n] - 1 <= 0 /\ n \notin pendingClose
<1>3. CASE due
  <2>1. n \in Ids /\ n \notin pendingClose
    BY <1>3 DEF TypeOK
  <2>2. closeQueue' = closeQueue \o <<n>> /\ pendingClose' = pendingClose \cup {n}
    BY <1>3, AppendIsConcat DEF Release, TypeOK
  <2>3. Mirrored(closeQueue, pendingClose, reaper)
    BY MirroredIsQueueMirrored
  <2>4. Mirrored(closeQueue', pendingClose', reaper')
    BY <2>1, <2>2, <2>3, MirroredGrowsByOne DEF TypeOK
  <2>5. QueueMirrored'
    BY <2>4 DEF QueueMirrored, Mirrored, InClose
  <2>6. closeQueue' \in Seq(Ids) /\ pendingClose' \in SUBSET Ids
    BY <2>1, <2>2 DEF TypeOK
  <2>7. RangeOf(closeQueue') = RangeOf(closeQueue) \cup {n}
    <3>1. closeQueue \in Seq(Ids) /\ <<n>> \in Seq(Ids) /\ RangeOf(<<n>>) = {n}
      BY <2>1 DEF TypeOK, RangeOf
    <3>2. RangeOf(closeQueue \o <<n>>) = RangeOf(closeQueue) \cup RangeOf(<<n>>)
      BY <3>1, RangeJoined
    <3> QED BY <3>1, <3>2, <2>2
  <2> QED BY <2>5, <2>6, <2>7, <1>2, <1>3 DEF Release, Counted
<1>4. CASE ~due
  <2>1. closeQueue' = closeQueue /\ pendingClose' = pendingClose
    BY <1>4 DEF Release
  <2> QED BY <2>1, <1>2 DEF Release, QueueMirrored, TypeOK
<1> QED BY <1>3, <1>4

\* Queueing what a mark_end finds due.
LEMMA MarkedDue ==
    ASSUME TypeOK, QueueMirrored, NEW n, n \in Ids \/ IsGroup(n), NEW d \in Orders(NowDue(n))
    PROVE /\ closeQueue \o d \in Seq(Ids) /\ pendingClose \cup NowDue(n) \in SUBSET Ids
          /\ Mirrored(closeQueue \o d, pendingClose \cup NowDue(n), reaper)
          /\ RangeOf(closeQueue \o d) = RangeOf(closeQueue) \cup NowDue(n)
<1>1. /\ NowDue(n) \subseteq Ids /\ NowDue(n) \cap pendingClose = {} /\ IsFiniteSet(NowDue(n))
  BY EndedIds
<1>2. d \in Seq(NowDue(n)) /\ RangeOf(d) = NowDue(n) /\ Len(d) = Cardinality(NowDue(n))
  BY <1>1, OrderListsOnce
<1>3. d \in Seq(Ids)
  BY <1>1, <1>2, SeqMonotonic
<1>4. Mirrored(closeQueue, pendingClose, reaper)
  BY MirroredIsQueueMirrored
<1>5. closeQueue \in Seq(Ids) /\ pendingClose \in SUBSET Ids
  BY DEF TypeOK
<1>6. Mirrored(closeQueue \o d, pendingClose \cup NowDue(n), reaper)
  BY <1>1, <1>2, <1>3, <1>4, <1>5, MirroredGrows
<1> QED BY <1>1, <1>2, <1>3, <1>5, <1>6, RangeJoined
---------------------------------------------------------------------------
(* One lemma per action.                                                   *)

\* A new group brings the wrappers of its new members.
LEMMA RegisterGroupKeeps ==
    ASSUME IInv, NEW g \in Groups, RegisterGroup(g)
    PROVE IInv'
<1> DEFINE added == {s \in GroupMembers[g] : ~Live(s)}
<1>1. /\ TypeOK /\ CountsExact /\ QueueMirrored /\ RegisteredOpen /\ Owned /\ Stages
      /\ phase = "running" /\ phase' = phase
  BY DEF IInv, SessionsInv, RegisterGroup, shutdown
<1>2. added \in SUBSET Ids /\ \A s \in added : ~Live(s)
  BY SessionsAssumption
<1>3. CreateAll(added) /\ members' = [members EXCEPT ![g] = added] /\ registered' = Append(registered, g)
  BY DEF RegisterGroup
<1> HIDE DEF added
<1>4. /\ made' \in [Ids -> 0 .. MaxWrappers] /\ current' \in [Ids -> 0 .. MaxWrappers]
      /\ closed' \in SUBSET Wrappers /\ RegisteredOpen' /\ Owned'
  BY <1>1, <1>2, <1>3, WrappersMade
<1>5. /\ refs' = refs /\ endFlags' = endFlags /\ closeQueue' = closeQueue
      /\ pendingClose' = pendingClose /\ reaper' = reaper /\ user' = user /\ name' = name
      /\ handle' = handle /\ refetched' = refetched /\ snapshot' = snapshot
  BY DEF RegisterGroup, closing, userVars, shutdown
<1>6. /\ members' \in [Groups -> SUBSET Ids] /\ registered' \in Seq(Groups)
  BY <1>1, <1>2, <1>3 DEF TypeOK
<1>7. TypeOK'
  BY <1>1, <1>4, <1>5, <1>6 DEF TypeOK, Wrappers
<1>8. CountsExact' /\ QueueMirrored'
  BY <1>1, <1>5 DEF CountsExact, QueueMirrored, Holders, Holds, Overdrawn
<1>9. Stages'
  <2>1. registered \in Seq(Groups) /\ <<g>> \in Seq(Groups) /\ registered' = registered \o <<g>>
    BY <1>1, <1>3, AppendIsConcat DEF TypeOK
  <2>2. RangeOf(registered') = RangeOf(registered) \cup RangeOf(<<g>>)
    BY <2>1, RangeJoined
  <2>3. \A n : IsGroup(n) => IsGroup(n)'
    BY <2>2 DEF IsGroup
  <2> QED BY <1>1, <1>5, <2>3 DEF Stages
<1> QED BY <1>4, <1>7, <1>8, <1>9 DEF IInv, SessionsInv

\* An acquire counts up, adds a holder and may make a wrapper.
LEMMA AcquireKeeps ==
    ASSUME IInv, NEW u \in Users, NEW n \in Names, NEW next \in {"acquired", "ending"},
           Acquire(u, n, next)
    PROVE IInv'
<1>1. /\ TypeOK /\ CountsExact /\ QueueMirrored /\ RegisteredOpen /\ Owned /\ Stages
      /\ phase = "running" /\ phase' = phase /\ user[u] = "new"
  BY DEF IInv, SessionsInv, Acquire, shutdown
<1>2. /\ members' = members /\ registered' = registered /\ endFlags' = endFlags
      /\ closeQueue' = closeQueue /\ pendingClose' = pendingClose /\ reaper' = reaper
      /\ handle' = handle /\ refetched' = refetched /\ snapshot' = snapshot
  BY DEF Acquire, groupVars, closing, shutdown
<1>3. /\ refs' = Acquired(n) /\ user' = [user EXCEPT ![u] = next]
      /\ name' = [name EXCEPT ![u] = n] /\ (n \in Ids \/ IsGroup(n))
  BY DEF Acquire, Usable
<1>4. PICK s \in Resolve(n) : GetOrCreate(s)
  BY DEF Acquire
<1>5. s \in Ids
  BY <1>1, ResolvedToIds
<1>6. /\ made' \in [Ids -> 0 .. MaxWrappers] /\ current' \in [Ids -> 0 .. MaxWrappers]
      /\ closed' \in SUBSET Wrappers /\ RegisteredOpen' /\ Owned'
  BY <1>1, <1>4, <1>5, LookedUp
<1>7. /\ refs' \in [Names -> Int]
      /\ \A m \in Names \ {Default} : refs'[m] = IF m = n THEN refs[m] + 1 ELSE refs[m]
  BY <1>1, <1>3 DEF Acquired, Counted, TypeOK
<1>8. TypeOK'
  <2>1. user' \in [Users -> UserStages] /\ name' \in [Users -> Names]
    BY <1>1, <1>3 DEF TypeOK, UserStages
  <2> QED BY <2>1, <1>1, <1>2, <1>6, <1>7 DEF TypeOK, Wrappers
<1>9. CountsExact'
  <2>1. /\ Cardinality(Holders(n)') = Cardinality(Holders(n)) + 1
        /\ \A m : m # n => Holders(m)' = Holders(m)
        /\ \A m : Overdrawn(m)' = Overdrawn(m)
    BY <1>1, <1>2, <1>3, HolderJoins
  <2> SUFFICES ASSUME NEW m \in Names \ {Default}
               PROVE refs'[m] = Cardinality(Holders(m)') - Cardinality(Overdrawn(m)')
    BY DEF CountsExact
  <2>2. refs[m] = Cardinality(Holders(m)) - Cardinality(Overdrawn(m))
    BY <1>1 DEF CountsExact
  <2>3. Cardinality(Holders(m)) \in Nat /\ Cardinality(Overdrawn(m)) \in Nat
    BY CountsFinite
  <2>4. CASE m = n
    BY <2>1, <2>2, <2>3, <2>4, <1>7
  <2>5. CASE m # n
    BY <2>1, <2>2, <2>5, <1>7
  <2> QED BY <2>4, <2>5
<1>10. QueueMirrored'
  BY <1>1, <1>2 DEF QueueMirrored
<1>11. Stages'
  <2>1. /\ user'[u] = next /\ \A t \in Users \ {u} : user'[t] = user[t]
        /\ name'[u] = n /\ \A t \in Users \ {u} : name'[t] = name[t]
    BY <1>1, <1>3 DEF TypeOK
  <2>2. \A m : IsGroup(m)' = IsGroup(m)
    BY <1>2 DEF IsGroup
  <2> QED BY <2>1, <2>2, <1>1, <1>2, <1>3 DEF Stages
<1> QED BY <1>6, <1>8, <1>9, <1>10, <1>11 DEF IInv, SessionsInv

\* A release by a user that is done with its name: Drop and FinishFetch.
LEMMA LastReleaseKeeps ==
    ASSUME IInv, NEW u \in Users, Drop(u) \/ FinishFetch(u)
    PROVE IInv'
<1> PICK n : n = name[u]
  OBVIOUS
<1>1. /\ TypeOK /\ CountsExact /\ QueueMirrored /\ RegisteredOpen /\ Owned /\ Stages
      /\ phase' = phase /\ user[u] \in {"acquired", "using", "ending"}
  BY DEF IInv, SessionsInv, Drop, FinishFetch, shutdown
<1>2. /\ current' = current /\ made' = made /\ closed' = closed
      /\ members' = members /\ registered' = registered /\ reaper' = reaper
      /\ name' = name /\ handle' = handle /\ refetched' = refetched /\ snapshot' = snapshot
  BY DEF Drop, FinishFetch, table, groupVars, shutdown
<1>3. Release(n) /\ user' = [user EXCEPT ![u] = "done"] /\ n \in Names
  BY <1>1 DEF Drop, FinishFetch, TypeOK
<1>4. /\ refs' \in [Names -> Int] /\ endFlags' = endFlags
      /\ closeQueue' \in Seq(Ids) /\ pendingClose' \in SUBSET Ids /\ QueueMirrored'
      /\ \A m \in Names \ {Default} : refs'[m] = IF m = n THEN refs[m] - 1 ELSE refs[m]
  BY <1>1, <1>2, <1>3, Released
<1>5. TypeOK'
  <2>1. user' \in [Users -> UserStages]
    BY <1>1, <1>3 DEF TypeOK, UserStages
  <2> QED BY <2>1, <1>1, <1>2, <1>4 DEF TypeOK, Wrappers
<1>6. CountsExact'
  <2>1. /\ Cardinality(Holders(n)') = Cardinality(Holders(n)) - 1
        /\ \A m : m # n => Holders(m)' = Holders(m)
        /\ \A m : Overdrawn(m)' = Overdrawn(m)
    BY <1>1, <1>2, <1>3, HolderLeaves
  <2> SUFFICES ASSUME phase = "running", NEW m \in Names \ {Default}
               PROVE refs'[m] = Cardinality(Holders(m)') - Cardinality(Overdrawn(m)')
    BY <1>1 DEF CountsExact
  <2>2. refs[m] = Cardinality(Holders(m)) - Cardinality(Overdrawn(m))
    BY <1>1 DEF CountsExact
  <2>3. Cardinality(Holders(m)) \in Nat /\ Cardinality(Overdrawn(m)) \in Nat
    BY CountsFinite
  <2>4. CASE m = n
    BY <2>1, <2>2, <2>3, <2>4, <1>4
  <2>5. CASE m # n
    BY <2>1, <2>2, <2>5, <1>4
  <2> QED BY <2>4, <2>5
<1>7. Stages'
  <2>1. user'[u] = "done" /\ \A t \in Users \ {u} : user'[t] = user[t]
    BY <1>1, <1>3 DEF TypeOK
  <2>2. \A m : IsGroup(m)' = IsGroup(m)
    BY <1>2 DEF IsGroup
  <2> QED BY <2>1, <2>2, <1>1, <1>2 DEF Stages
<1>8. RegisteredOpen' /\ Owned'
  BY <1>1, <1>2 DEF RegisteredOpen, Owned, Live
<1> QED BY <1>4, <1>5, <1>6, <1>7, <1>8 DEF IInv, SessionsInv

\* A re-scheduling releases once more than the request acquired.
LEMMA RefetchKeeps ==
    ASSUME IInv, NEW u \in Users, Refetch(u)
    PROVE IInv'
<1> PICK n : n = name[u]
  OBVIOUS
<1>1. /\ TypeOK /\ CountsExact /\ QueueMirrored /\ RegisteredOpen /\ Owned /\ Stages
      /\ phase = "running" /\ phase' = phase /\ user[u] = "using" /\ refetched[u] < MaxRefetch
  BY DEF IInv, SessionsInv, Refetch, shutdown
<1>2. /\ current' = current /\ made' = made /\ closed' = closed
      /\ members' = members /\ registered' = registered /\ reaper' = reaper
      /\ name' = name /\ handle' = handle /\ snapshot' = snapshot
  BY DEF Refetch, table, groupVars, shutdown
<1>3. /\ Release(n) /\ user' = [user EXCEPT ![u] = "acquired"] /\ n \in Names
      /\ refetched' = [refetched EXCEPT ![u] = @ + 1]
  BY <1>1 DEF Refetch, TypeOK
<1>4. /\ refs' \in [Names -> Int] /\ endFlags' = endFlags
      /\ closeQueue' \in Seq(Ids) /\ pendingClose' \in SUBSET Ids /\ QueueMirrored'
      /\ \A m \in Names \ {Default} : refs'[m] = IF m = n THEN refs[m] - 1 ELSE refs[m]
  BY <1>1, <1>2, <1>3, Released
<1>5. TypeOK'
  <2>1. user' \in [Users -> UserStages]
    BY <1>1, <1>3 DEF TypeOK, UserStages
  <2>2. refetched' \in [Users -> 0 .. MaxRefetch]
    BY <1>1, <1>3, SessionsAssumption DEF TypeOK
  <2> QED BY <2>1, <2>2, <1>1, <1>2, <1>4 DEF TypeOK, Wrappers
<1>6. CountsExact'
  <2>1. /\ \A m : Holders(m)' = Holders(m)
        /\ \A m : m # n => Overdrawn(m)' = Overdrawn(m)
        /\ Cardinality(Overdrawn(n)') = Cardinality(Overdrawn(n)) + 1
    BY <1>1, <1>2, <1>3, HolderStays
  <2> SUFFICES ASSUME NEW m \in Names \ {Default}
               PROVE refs'[m] = Cardinality(Holders(m)') - Cardinality(Overdrawn(m)')
    BY DEF CountsExact
  <2>2. refs[m] = Cardinality(Holders(m)) - Cardinality(Overdrawn(m))
    BY <1>1 DEF CountsExact
  <2>3. Cardinality(Holders(m)) \in Nat /\ Cardinality(Overdrawn(m)) \in Nat
    BY CountsFinite
  <2>4. CASE m = n
    BY <2>1, <2>2, <2>3, <2>4, <1>4
  <2>5. CASE m # n
    BY <2>1, <2>2, <2>5, <1>4
  <2> QED BY <2>4, <2>5
<1>7. Stages'
  <2>1. user'[u] = "acquired" /\ \A t \in Users \ {u} : user'[t] = user[t] /\ refetched'[t] = refetched[t]
    BY <1>1, <1>3 DEF TypeOK
  <2>2. \A m : IsGroup(m)' = IsGroup(m)
    BY <1>2 DEF IsGroup
  <2> QED BY <2>1, <2>2, <1>1, <1>2 DEF Stages
<1>8. RegisteredOpen' /\ Owned'
  BY <1>1, <1>2 DEF RegisteredOpen, Owned, Live
<1> QED BY <1>4, <1>5, <1>6, <1>7, <1>8 DEF IInv, SessionsInv

\* A fetch looks the wrapper up again; it goes on holding its name.
LEMMA FetchKeeps ==
    ASSUME IInv, NEW u \in Users, Fetch(u)
    PROVE IInv'
<1>1. /\ TypeOK /\ CountsExact /\ QueueMirrored /\ RegisteredOpen /\ Owned /\ Stages
      /\ phase' = phase /\ user[u] = "acquired" /\ phase = "running"
  BY DEF IInv, SessionsInv, Fetch, shutdown, Stages, TypeOK
<1>2. /\ members' = members /\ registered' = registered /\ refs' = refs /\ endFlags' = endFlags
      /\ closeQueue' = closeQueue /\ pendingClose' = pendingClose /\ reaper' = reaper
      /\ name' = name /\ refetched' = refetched /\ snapshot' = snapshot
      /\ user' = [user EXCEPT ![u] = "using"]
  BY DEF Fetch, groupVars, closing, shutdown
<1>3. PICK s \in Resolve(name[u]) :
        GetOrCreate(s) /\ handle' = [handle EXCEPT ![u] = <<s, current'[s]>>]
  BY DEF Fetch
<1>4. s \in Ids
  BY <1>1, ResolvedToIds
<1>5. /\ made' \in [Ids -> 0 .. MaxWrappers] /\ current' \in [Ids -> 0 .. MaxWrappers]
      /\ closed' \in SUBSET Wrappers /\ RegisteredOpen' /\ Owned'
      /\ <<s, current'[s]>> \in Wrappers
  BY <1>1, <1>3, <1>4, LookedUp
<1>6. TypeOK'
  <2>1. user' \in [Users -> UserStages] /\ handle' \in [Users -> Wrappers]
    BY <1>1, <1>2, <1>3, <1>5 DEF TypeOK, UserStages
  <2>2. /\ made' \in [Ids -> 0 .. MaxWrappers] /\ current' \in [Ids -> 0 .. MaxWrappers]
        /\ closed' \in SUBSET Wrappers
    BY <1>5
  <2> QED BY <2>1, <2>2, <1>1, <1>2 DEF TypeOK, Wrappers
<1>7. user'[u] = "using" /\ \A t \in Users \ {u} : user'[t] = user[t]
  BY <1>1, <1>2 DEF TypeOK
<1>8. CountsExact'
  <2>1. ASSUME NEW m PROVE Holders(m)' = Holders(m) /\ Overdrawn(m)' = Overdrawn(m)
    BY <1>1, <1>2, <1>7 DEF Holders, Holds, Overdrawn
  <2> QED BY <2>1, <1>1, <1>2 DEF CountsExact
<1>9. QueueMirrored'
  BY <1>1, <1>2 DEF QueueMirrored
<1>10. Stages'
  <2>1. \A m : IsGroup(m)' = IsGroup(m)
    BY <1>2 DEF IsGroup
  <2> QED BY <2>1, <1>7, <1>1, <1>2 DEF Stages
<1> QED BY <1>5, <1>6, <1>8, <1>9, <1>10 DEF IInv, SessionsInv

\* An answered request goes on counting.
LEMMA AnswerKeeps ==
    ASSUME IInv, NEW u \in Users, Answer(u)
    PROVE IInv'
<1>1. /\ TypeOK /\ CountsExact /\ QueueMirrored /\ RegisteredOpen /\ Owned /\ Stages
      /\ phase' = phase /\ user[u] = "acquired" /\ phase = "running"
  BY DEF IInv, SessionsInv, Answer, shutdown, Stages, TypeOK
<1>2. /\ current' = current /\ made' = made /\ closed' = closed
      /\ members' = members /\ registered' = registered /\ refs' = refs /\ endFlags' = endFlags
      /\ closeQueue' = closeQueue /\ pendingClose' = pendingClose /\ reaper' = reaper
      /\ name' = name /\ handle' = handle /\ refetched' = refetched /\ snapshot' = snapshot
      /\ user' = [user EXCEPT ![u] = "answered"]
  BY DEF Answer, table, groupVars, closing, shutdown
<1>3. user'[u] = "answered" /\ \A t \in Users \ {u} : user'[t] = user[t]
  BY <1>1, <1>2 DEF TypeOK
<1>4. TypeOK'
  <2>1. user' \in [Users -> UserStages]
    BY <1>1, <1>2 DEF TypeOK, UserStages
  <2> QED BY <2>1, <1>1, <1>2 DEF TypeOK, Wrappers
<1>5. CountsExact'
  <2>1. ASSUME NEW m PROVE Holders(m)' = Holders(m) /\ Overdrawn(m)' = Overdrawn(m)
    BY <1>1, <1>2, <1>3 DEF Holders, Holds, Overdrawn
  <2> QED BY <2>1, <1>1, <1>2 DEF CountsExact
<1>6. QueueMirrored' /\ RegisteredOpen' /\ Owned'
  BY <1>1, <1>2 DEF QueueMirrored, RegisteredOpen, Owned, Live
<1>7. Stages'
  <2>1. \A m : IsGroup(m)' = IsGroup(m)
    BY <1>2 DEF IsGroup
  <2> QED BY <2>1, <1>1, <1>2, <1>3 DEF Stages
<1> QED BY <1>4, <1>5, <1>6, <1>7 DEF IInv, SessionsInv

\* mark_end queues what is due, in any order, and shrinks a group.
LEMMA MarkEndKeeps ==
    ASSUME IInv, NEW n \in Names, MarkEnd(n)
    PROVE IInv'
<1>1. /\ TypeOK /\ CountsExact /\ QueueMirrored /\ RegisteredOpen /\ Owned /\ Stages
      /\ phase' = phase /\ (n \in Ids \/ IsGroup(n))
  BY DEF IInv, SessionsInv, MarkEnd, shutdown
<1>2. /\ current' = current /\ made' = made /\ closed' = closed /\ registered' = registered
      /\ refs' = refs /\ reaper' = reaper /\ user' = user /\ name' = name
      /\ handle' = handle /\ refetched' = refetched /\ snapshot' = snapshot
  BY DEF MarkEnd, table, userVars, shutdown
<1>3. /\ endFlags' = endFlags \cup EndTargets(n) /\ members' = MembersAfterEnd(n)
      /\ pendingClose' = pendingClose \cup NowDue(n)
  BY DEF MarkEnd
<1>4. PICK d \in Orders(NowDue(n)) : closeQueue' = closeQueue \o d
  BY DEF MarkEnd
<1>5. /\ closeQueue' \in Seq(Ids) /\ pendingClose' \in SUBSET Ids
      /\ Mirrored(closeQueue', pendingClose', reaper')
  BY <1>1, <1>2, <1>3, <1>4, MarkedDue
<1>6. endFlags' \in SUBSET Ids /\ members' \in [Groups -> SUBSET Ids]
  BY <1>1, <1>3, EndedIds DEF TypeOK
<1>7. TypeOK'
  BY <1>1, <1>2, <1>5, <1>6 DEF TypeOK, Wrappers
<1>8. QueueMirrored'
  BY <1>5 DEF QueueMirrored, Mirrored, InClose
<1>9. CountsExact' /\ RegisteredOpen' /\ Owned'
  BY <1>1, <1>2 DEF CountsExact, Holders, Holds, Overdrawn, RegisteredOpen, Owned, Live
<1>10. Stages'
  <2>1. \A m : IsGroup(m)' = IsGroup(m)
    BY <1>2 DEF IsGroup
  <2> QED BY <2>1, <1>1, <1>2 DEF Stages
<1> QED BY <1>7, <1>8, <1>9, <1>10 DEF IInv, SessionsInv

\* A session_end signal queues what is due, then releases its own name.
LEMMA CloseSignalEndKeeps ==
    ASSUME IInv, NEW u \in Users, CloseSignalEnd(u)
    PROVE IInv'
<1> PICK n : n = name[u]
  OBVIOUS
<1>1. /\ TypeOK /\ CountsExact /\ QueueMirrored /\ RegisteredOpen /\ Owned /\ Stages
      /\ phase' = phase /\ phase = "running" /\ user[u] = "ending"
      /\ n \in Names /\ (n \in Ids \/ IsGroup(n))
  BY DEF IInv, SessionsInv, CloseSignalEnd, shutdown, Stages, TypeOK
<1>2. /\ current' = current /\ made' = made /\ closed' = closed /\ registered' = registered
      /\ reaper' = reaper /\ name' = name
      /\ handle' = handle /\ refetched' = refetched /\ snapshot' = snapshot
      /\ user' = [user EXCEPT ![u] = "done"]
  BY DEF CloseSignalEnd, table, shutdown
<1> DEFINE targets == IF Counted(n) THEN EndTargets(n) ELSE {}
           marked == IF Counted(n) THEN NowDue(n) ELSE {}
           last == /\ Counted(n) /\ n \in endFlags \cup targets /\ refs[n] - 1 <= 0
                   /\ n \notin pendingClose \cup marked
<1>3. /\ endFlags' = endFlags \cup targets
      /\ refs' = [refs EXCEPT ![n] = IF Counted(n) THEN @ - 1 ELSE @]
      /\ pendingClose' = pendingClose \cup marked \cup (IF last THEN {n} ELSE {})
      /\ members' = IF Counted(n) THEN MembersAfterEnd(n) ELSE members
      /\ \E due \in Orders(marked) :
            closeQueue' = closeQueue \o due \o (IF last THEN <<n>> ELSE <<>>)
  BY DEF CloseSignalEnd
<1>4. PICK due \in Orders(marked) :
        closeQueue' = closeQueue \o due \o (IF last THEN <<n>> ELSE <<>>)
  BY <1>3
<1>5. targets \subseteq Ids /\ members' \in [Groups -> SUBSET Ids]
  BY <1>1, <1>3, EndedIds DEF TypeOK
<1>6. /\ closeQueue \o due \in Seq(Ids) /\ pendingClose \cup marked \in SUBSET Ids
      /\ Mirrored(closeQueue \o due, pendingClose \cup marked, reaper)
  <2>1. CASE Counted(n)
    BY <2>1, <1>1, MarkedDue
  <2>2. CASE ~Counted(n)
    <3>1. marked = {} /\ IsFiniteSet(marked) /\ Cardinality(marked) = 0
      BY <2>2, FS_EmptySet
    <3>2. due \in Seq(marked) /\ Len(due) = 0
      BY <3>1, OrderListsOnce
    <3>3. due = <<>>
      BY <3>2, EmptySeq
    <3>4. closeQueue \in Seq(Ids) /\ pendingClose \in SUBSET Ids
      BY <1>1 DEF TypeOK
    <3>5. closeQueue \o due = closeQueue /\ pendingClose \cup marked = pendingClose
      BY <3>1, <3>3, <3>4, ConcatEmptySeq
    <3> QED BY <3>4, <3>5, <1>1, MirroredIsQueueMirrored
  <2> QED BY <2>1, <2>2
<1> HIDE DEF marked
<1>7. /\ closeQueue' \in Seq(Ids) /\ pendingClose' \in SUBSET Ids
      /\ Mirrored(closeQueue', pendingClose', reaper')
  <2> PICK q : q = closeQueue \o due
    OBVIOUS
  <2> PICK P : P = pendingClose \cup marked
    OBVIOUS
  <2>1. q \in Seq(Ids) /\ P \in SUBSET Ids /\ Mirrored(q, P, reaper)
    BY <1>6
  <2>2. CASE last
    <3>1. n \in Ids /\ n \notin P
      BY <2>2, <1>1, <1>5 DEF TypeOK
    <3>2. closeQueue' = q \o <<n>> /\ pendingClose' = P \cup {n}
      BY <2>2, <1>3, <1>4
    <3>3. Mirrored(q \o <<n>>, P \cup {n}, reaper)
      BY <2>1, <3>1, MirroredGrowsByOne
    <3>4. q \o <<n>> \in Seq(Ids)
      BY <2>1, <3>1
    <3> QED BY <2>1, <3>1, <3>2, <3>3, <3>4, <1>2
  <2>3. CASE ~last
    <3>1. closeQueue' = q /\ pendingClose' = P
      BY <2>1, <2>3, <1>3, <1>4, ConcatEmptySeq
    <3> QED BY <2>1, <3>1, <1>2
  <2> QED BY <2>2, <2>3
<1> HIDE DEF last
<1>8. refs' \in [Names -> Int]
      /\ \A m \in Names \ {Default} : refs'[m] = IF m = n THEN refs[m] - 1 ELSE refs[m]
  BY <1>1, <1>3 DEF Counted, TypeOK
<1>9. TypeOK'
  <2>1. user' \in [Users -> UserStages] /\ endFlags' \in SUBSET Ids
    BY <1>1, <1>2, <1>3, <1>5 DEF TypeOK, UserStages
  <2> QED BY <2>1, <1>1, <1>2, <1>5, <1>7, <1>8 DEF TypeOK, Wrappers
<1>10. CountsExact'
  <2>1. /\ Cardinality(Holders(n)') = Cardinality(Holders(n)) - 1
        /\ \A m : m # n => Holders(m)' = Holders(m)
        /\ \A m : Overdrawn(m)' = Overdrawn(m)
    BY <1>1, <1>2, HolderLeaves
  <2> SUFFICES ASSUME NEW m \in Names \ {Default}
               PROVE refs'[m] = Cardinality(Holders(m)') - Cardinality(Overdrawn(m)')
    BY DEF CountsExact
  <2>2. refs[m] = Cardinality(Holders(m)) - Cardinality(Overdrawn(m))
    BY <1>1 DEF CountsExact
  <2>3. Cardinality(Holders(m)) \in Nat /\ Cardinality(Overdrawn(m)) \in Nat
    BY CountsFinite
  <2>4. CASE m = n
    BY <2>1, <2>2, <2>3, <2>4, <1>8
  <2>5. CASE m # n
    BY <2>1, <2>2, <2>5, <1>8
  <2> QED BY <2>4, <2>5
<1>11. QueueMirrored'
  BY <1>7 DEF QueueMirrored, Mirrored, InClose
<1>12. Stages'
  <2>1. user'[u] = "done" /\ \A t \in Users \ {u} : user'[t] = user[t]
    BY <1>1, <1>2 DEF TypeOK
  <2>2. \A m : IsGroup(m)' = IsGroup(m)
    BY <1>2 DEF IsGroup
  <2> QED BY <2>1, <2>2, <1>1, <1>2 DEF Stages
<1>13. RegisteredOpen' /\ Owned'
  BY <1>1, <1>2 DEF RegisteredOpen, Owned, Live
<1> QED BY <1>9, <1>10, <1>11, <1>12, <1>13 DEF IInv, SessionsInv

\* The reaper takes the head of the queue and skips it or closes its wrapper.
LEMMA ReaperTakeKeeps ==
    ASSUME IInv, ReaperTake
    PROVE IInv'
<1> PICK s : s = Head(closeQueue)
  OBVIOUS
<1>1. /\ TypeOK /\ CountsExact /\ QueueMirrored /\ RegisteredOpen /\ Owned /\ Stages
      /\ phase' = phase /\ phase # "closed" /\ reaper = Idle /\ closeQueue # <<>>
  BY DEF IInv, SessionsInv, ReaperTake, shutdown
<1>2. /\ members' = members /\ registered' = registered /\ refs' = refs /\ endFlags' = endFlags
      /\ user' = user /\ name' = name /\ handle' = handle /\ refetched' = refetched
      /\ snapshot' = snapshot /\ closeQueue' = Tail(closeQueue)
  BY DEF ReaperTake, groupVars, userVars, shutdown
<1>3. /\ closeQueue \in Seq(Ids) /\ pendingClose \in SUBSET Ids /\ Mirrored(closeQueue, pendingClose, Idle)
  BY <1>1, MirroredIsQueueMirrored DEF TypeOK
<1>4. s \in Ids /\ Tail(closeQueue) \in Seq(Ids)
  BY <1>1, <1>3, RangeTaken
<1>5. /\ Mirrored(Tail(closeQueue), pendingClose \ {s}, Idle)
      /\ \A k : Mirrored(Tail(closeQueue), pendingClose, <<s, k>>)
  BY <1>1, <1>3, MirroredTaken
<1>6. CountsExact'
  BY <1>1, <1>2 DEF CountsExact, Holders, Holds, Overdrawn
<1>7. Stages'
  <2>1. \A m : IsGroup(m)' = IsGroup(m)
    BY <1>2 DEF IsGroup
  <2> QED BY <2>1, <1>1, <1>2 DEF Stages
<1>8. CASE SafeCloseSkips(s)
  <2>1. /\ current' = current /\ made' = made /\ closed' = closed /\ reaper' = reaper
        /\ pendingClose' = pendingClose \ {s}
    BY <1>8 DEF ReaperTake, table
  <2>2. QueueMirrored'
    BY <2>1, <1>1, <1>2, <1>5 DEF QueueMirrored, Mirrored, InClose
  <2>3. TypeOK'
    BY <2>1, <1>1, <1>2, <1>3, <1>4 DEF TypeOK, Wrappers
  <2>4. RegisteredOpen' /\ Owned'
    BY <2>1, <1>1, <1>2 DEF RegisteredOpen, Owned, Live
  <2> QED BY <2>2, <2>3, <2>4, <1>6, <1>7 DEF IInv, SessionsInv
<1>9. CASE ~SafeCloseSkips(s)
  <2> PICK k : k = current[s]
    OBVIOUS
  <2>1. /\ made' = made /\ pendingClose' = pendingClose /\ reaper' = <<s, k>>
        /\ closed' = closed \cup {<<s, k>>} /\ current' = [current EXCEPT ![s] = 0]
    BY <1>9 DEF ReaperTake, NoWrapper
  <2>2. k \in 0 .. MaxWrappers /\ <<s, k>> \in Wrappers
    BY <1>1, <1>4 DEF TypeOK, Wrappers
  <2>3. /\ current \in [Ids -> 0 .. MaxWrappers] /\ current' \in [Ids -> 0 .. MaxWrappers]
        /\ made \in [Ids -> 0 .. MaxWrappers]
    BY <1>1, <2>1, SessionsAssumption DEF TypeOK
  <2>4. TypeOK'
    <3>1. closed' \in SUBSET Wrappers /\ reaper' \in Wrappers \cup {Idle}
      BY <2>1, <2>2, <1>1 DEF TypeOK
    <3> QED BY <3>1, <2>1, <2>3, <1>1, <1>2, <1>4 DEF TypeOK, Wrappers
  <2>5. QueueMirrored'
    BY <2>1, <1>1, <1>2, <1>5 DEF QueueMirrored, Mirrored, InClose
  <2>6. RegisteredOpen'
    BY <2>1, <2>3, <1>1 DEF RegisteredOpen, Live, NoWrapper
  <2>7. Owned'
    <3>1. ASSUME NEW t \in Ids PROVE current'[t] <= made'[t]
      BY <2>1, <2>3, <1>1 DEF Owned
    <3>2. ASSUME NEW w \in closed' PROVE w[2] <= made'[w[1]]
      <4>1. CASE w \in closed
        BY <4>1, <2>1, <1>1 DEF Owned
      <4>2. CASE w = <<s, k>>
        BY <4>2, <2>1, <1>1, <1>4 DEF Owned
      <4> QED BY <4>1, <4>2, <2>1
    <3>3. ASSUME NEW t \in Ids \ {Default}, NEW j \in 1 .. made'[t]
          PROVE j = current'[t] \/ <<t, j>> \in closed'
      <4>1. j = current[t] \/ <<t, j>> \in closed
        BY <2>1, <1>1 DEF Owned
      <4>2. CASE t = s
        BY <4>1, <4>2, <2>1
      <4>3. CASE t # s
        BY <4>1, <4>3, <2>1, <2>3
      <4> QED BY <4>2, <4>3
    <3> QED BY <3>1, <3>2, <3>3, <1>1 DEF Owned
  <2> QED BY <2>4, <2>5, <2>6, <2>7, <1>6, <1>7 DEF IInv, SessionsInv
<1> QED BY <1>8, <1>9

\* The close returns and its id may be queued again.
LEMMA ReaperDoneKeeps ==
    ASSUME IInv, ReaperDone
    PROVE IInv'
<1>1. /\ TypeOK /\ CountsExact /\ QueueMirrored /\ RegisteredOpen /\ Owned /\ Stages
      /\ phase' = phase /\ reaper # Idle
  BY DEF IInv, SessionsInv, ReaperDone, shutdown
<1>2. /\ current' = current /\ made' = made /\ closed' = closed
      /\ members' = members /\ registered' = registered /\ refs' = refs /\ endFlags' = endFlags
      /\ user' = user /\ name' = name /\ handle' = handle /\ refetched' = refetched
      /\ snapshot' = snapshot /\ closeQueue' = closeQueue
      /\ reaper' = Idle /\ pendingClose' = pendingClose \ {reaper[1]}
  BY DEF ReaperDone, table, groupVars, userVars, shutdown
<1>3. TypeOK'
  BY <1>1, <1>2 DEF TypeOK, Wrappers
<1>4. Mirrored(closeQueue, pendingClose, reaper)
  BY <1>1, MirroredIsQueueMirrored
<1>5. Mirrored(closeQueue, pendingClose \ {reaper[1]}, Idle)
  <2>1. closeQueue \in Seq(Ids) /\ pendingClose \in SUBSET Ids
    BY <1>1 DEF TypeOK
  <2> QED BY <2>1, <1>1, <1>4, MirroredDone
<1>6. QueueMirrored'
  BY <1>2, <1>5 DEF QueueMirrored, Mirrored, InClose
<1>7. CountsExact' /\ RegisteredOpen' /\ Owned'
  BY <1>1, <1>2 DEF CountsExact, Holders, Holds, Overdrawn, RegisteredOpen, Owned, Live
<1>8. Stages'
  <2>1. \A m : IsGroup(m)' = IsGroup(m)
    BY <1>2 DEF IsGroup
  <2> QED BY <2>1, <1>1, <1>2 DEF Stages
<1> QED BY <1>3, <1>6, <1>7, <1>8 DEF IInv, SessionsInv

\* Freeze ends every user but the fetches; persist waits for them.
LEMMA ShutdownKeeps ==
    ASSUME IInv, Freeze \/ Persist
    PROVE IInv'
<1>1. /\ TypeOK /\ QueueMirrored /\ RegisteredOpen /\ Owned /\ Stages
  BY DEF IInv, SessionsInv
<1>2. /\ current' = current /\ made' = made /\ closed' = closed
      /\ members' = members /\ registered' = registered /\ refs' = refs /\ endFlags' = endFlags
      /\ closeQueue' = closeQueue /\ pendingClose' = pendingClose /\ reaper' = reaper
      /\ name' = name /\ handle' = handle /\ refetched' = refetched
      /\ phase' \in {"frozen", "persisted"}
  BY DEF Freeze, Persist, table, groupVars, closing, userVars
<1>3. TypeOK' /\ Stages'
  <2>1. \A m : IsGroup(m)' = IsGroup(m)
    BY <1>2 DEF IsGroup
  <2>2. CASE Freeze
    <3>1. /\ user' \in [Users -> UserStages] /\ snapshot' = snapshot /\ phase' = "frozen"
          /\ \A u \in Users : user'[u] = IF user[u] = "using" THEN "using" ELSE "done"
      BY <2>2 DEF Freeze, UserStages
    <3>2. TypeOK'
      BY <3>1, <1>1, <1>2 DEF TypeOK, Wrappers
    <3> QED BY <2>1, <3>1, <3>2, <1>1, <1>2 DEF Stages
  <2>3. CASE Persist
    <3>1. /\ user' = user /\ phase' = "persisted" /\ snapshot' = {s \in Ids : Live(s)}
          /\ \A u \in Users : user[u] = "done"
      BY <2>3 DEF Persist, userVars
    <3>2. TypeOK'
      BY <3>1, <1>1, <1>2 DEF TypeOK, Wrappers
    <3> QED BY <2>1, <3>1, <3>2, <1>1, <1>2 DEF Stages
  <2> QED BY <2>2, <2>3
<1>4. CountsExact'
  BY <1>2 DEF CountsExact
<1>5. QueueMirrored' /\ RegisteredOpen' /\ Owned'
  BY <1>1, <1>2 DEF QueueMirrored, RegisteredOpen, Owned, Live
<1> QED BY <1>3, <1>4, <1>5 DEF IInv, SessionsInv

\* close_all closes what is registered and forgets everything.
LEMMA CloseAllKeeps ==
    ASSUME IInv, CloseAll
    PROVE IInv'
<1>1. /\ TypeOK /\ RegisteredOpen /\ Owned /\ Stages /\ phase = "persisted"
  BY DEF IInv, SessionsInv, CloseAll
<1>2. /\ phase' = "closed" /\ reaper' = Idle /\ closed' = closed \cup ClosedByCloseAll
      /\ current' = [s \in Ids |-> 0] /\ refs' = [n \in Names |-> 0]
      /\ endFlags' = {} /\ pendingClose' = {} /\ closeQueue' = <<>>
      /\ made' = made /\ members' = members /\ registered' = registered
      /\ user' = user /\ name' = name /\ handle' = handle /\ refetched' = refetched
      /\ snapshot' = snapshot
  BY DEF CloseAll, groupVars, userVars, NoWrapper
<1>3. /\ current \in [Ids -> 0 .. MaxWrappers] /\ made \in [Ids -> 0 .. MaxWrappers]
      /\ MaxWrappers \in Nat
  BY <1>1, SessionsAssumption DEF TypeOK
<1>4. ClosedByCloseAll \subseteq Wrappers
  BY <1>3 DEF ClosedByCloseAll, Wrappers
<1>5. TypeOK'
  <2>1. /\ current' \in [Ids -> 0 .. MaxWrappers] /\ refs' \in [Names -> Int]
        /\ closed' \in SUBSET Wrappers /\ closeQueue' \in Seq(Ids)
    BY <1>1, <1>2, <1>3, <1>4 DEF TypeOK
  <2> QED BY <2>1, <1>1, <1>2 DEF TypeOK, Wrappers
<1>6. QueueMirrored'
  <2>1. RangeOf(closeQueue') = {} /\ Len(closeQueue') = 0
    BY <1>2 DEF RangeOf
  <2> QED BY <2>1, <1>2, FS_EmptySet DEF QueueMirrored
<1>7. CountsExact' /\ RegisteredOpen'
  BY <1>2 DEF CountsExact, RegisteredOpen, Live, NoWrapper
<1>8. Owned'
  <2>1. ASSUME NEW w \in closed' PROVE w[2] <= made'[w[1]]
    <3>1. CASE w \in closed
      BY <3>1, <1>1, <1>2 DEF Owned
    <3>2. CASE w \in ClosedByCloseAll
      <4>1. PICK t \in Ids : w = <<t, current[t]>>
        BY <3>2 DEF ClosedByCloseAll
      <4> QED BY <4>1, <1>1, <1>2 DEF Owned
    <3> QED BY <3>1, <3>2, <1>2
  <2>2. ASSUME NEW s \in Ids \ {Default}, NEW k \in 1 .. made'[s]
        PROVE <<s, k>> \in closed'
    <3>1. k = current[s] \/ <<s, k>> \in closed
      BY <1>1, <1>2 DEF Owned
    <3>2. CASE k = current[s]
      <4>1. current[s] # 0
        BY <3>2, <1>3, <1>2
      <4> QED BY <3>2, <4>1, <1>2 DEF ClosedByCloseAll, Live, NoWrapper
    <3> QED BY <3>1, <3>2, <1>2
  <2> QED BY <2>1, <2>2, <1>2, <1>3 DEF Owned, Live, NoWrapper
<1>9. Stages'
  <2>1. \A m : IsGroup(m)' = IsGroup(m)
    BY <1>2 DEF IsGroup
  <2> QED BY <2>1, <1>1, <1>2 DEF Stages
<1> QED BY <1>5, <1>6, <1>7, <1>8, <1>9 DEF IInv, SessionsInv

---------------------------------------------------------------------------
(* The bookkeeping and the wrappers.                                       *)

\* At the start nothing is registered, counted or queued.
LEMMA Initially ==
    Init => IInv
<1> SUFFICES ASSUME Init PROVE IInv
  OBVIOUS
<1>1. /\ current = [s \in Ids |-> 0] /\ made = [s \in Ids |-> 0] /\ closed = {}
      /\ members = [g \in Groups |-> {}] /\ registered = <<>>
      /\ refs = [n \in Names |-> 0]
      /\ endFlags = {} /\ closeQueue = <<>> /\ pendingClose = {} /\ reaper = Idle
      /\ user = [u \in Users |-> "new"] /\ name = [u \in Users |-> Default]
      /\ handle = [u \in Users |-> <<Default, 0>>]
      /\ refetched = [u \in Users |-> 0] /\ phase = "running" /\ snapshot = {}
  BY DEF Init, NoWrapper
<1>2. Default \in Ids /\ Default \in Names /\ MaxWrappers \in Nat /\ MaxRefetch \in Nat
  BY SessionsAssumption DEF Names
<1>3. TypeOK
  <2>1. 0 \in 0 .. MaxWrappers /\ 0 \in 0 .. MaxRefetch /\ <<Default, 0>> \in Wrappers
    BY <1>2 DEF Wrappers
  <2>2. handle \in [Users -> Wrappers] /\ name \in [Users -> Names]
    BY <1>1, <1>2, <2>1
  <2>3. refetched \in [Users -> 0 .. MaxRefetch] /\ user \in [Users -> UserStages]
    BY <1>1, <2>1 DEF UserStages
  <2>4. registered \in Seq(Groups) /\ closeQueue \in Seq(Ids) /\ reaper \in Wrappers \cup {Idle}
    BY <1>1
  <2> QED BY <1>1, <2>1, <2>2, <2>3, <2>4 DEF TypeOK
<1>4. CountsExact
  <2> SUFFICES ASSUME NEW n \in Names \ {Default}
               PROVE refs[n] = Cardinality(Holders(n)) - Cardinality(Overdrawn(n))
    BY DEF CountsExact
  <2>1. Holders(n) = {} /\ Overdrawn(n) = {}
    BY <1>1, <1>2 DEF Holders, Holds, Overdrawn
  <2> QED BY <2>1, <1>1, FS_EmptySet
<1>5. QueueMirrored
  <2>1. RangeOf(closeQueue) = {} /\ Len(closeQueue) = 0
    BY <1>1 DEF RangeOf
  <2> QED BY <2>1, <1>1, FS_EmptySet DEF QueueMirrored
<1>6. RegisteredOpen /\ Owned /\ Stages
  BY <1>1, <1>2 DEF RegisteredOpen, Owned, Stages, Live, NoWrapper
<1> QED BY <1>3, <1>4, <1>5, <1>6 DEF IInv, SessionsInv

\* A step that changes nothing keeps the invariant.
LEMMA Unchanging ==
    ASSUME IInv, UNCHANGED vars
    PROVE IInv'
<1>1. /\ TypeOK /\ CountsExact /\ QueueMirrored /\ RegisteredOpen /\ Owned /\ Stages
      /\ current' = current /\ made' = made /\ closed' = closed
      /\ members' = members /\ registered' = registered /\ refs' = refs /\ endFlags' = endFlags
      /\ closeQueue' = closeQueue /\ pendingClose' = pendingClose /\ reaper' = reaper
      /\ user' = user /\ name' = name /\ handle' = handle /\ refetched' = refetched
      /\ phase' = phase /\ snapshot' = snapshot
  BY DEF IInv, SessionsInv, vars, table, groupVars, closing, userVars, shutdown
<1>2. TypeOK'
  BY <1>1 DEF TypeOK, Wrappers
<1>3. CountsExact'
  BY <1>1 DEF CountsExact, Holders, Holds, Overdrawn
<1>4. QueueMirrored' /\ RegisteredOpen' /\ Owned' /\ Stages'
  BY <1>1 DEF QueueMirrored, RegisteredOpen, Owned, Stages, Live, IsGroup
<1> QED BY <1>2, <1>3, <1>4 DEF IInv, SessionsInv

\* Every step keeps the invariant.
LEMMA Stepwise ==
    IInv /\ [Next]_vars => IInv'
<1> SUFFICES ASSUME IInv, [Next]_vars PROVE IInv'
  OBVIOUS
<1>1. CASE \E g \in Groups : RegisterGroup(g)
  BY <1>1, RegisterGroupKeeps
<1>2. CASE \E u \in Users, n \in Names : Acquire(u, n, "acquired") \/ Acquire(u, n, "ending")
  BY <1>2, AcquireKeeps
<1>3. CASE \E u \in Users : UserStep(u)
  BY <1>3, LastReleaseKeeps, FetchKeeps, CloseSignalEndKeeps DEF UserStep
<1>4. CASE \E u \in Users : Refetch(u) \/ Answer(u)
  BY <1>4, RefetchKeeps, AnswerKeeps
<1>5. CASE \E n \in Names : MarkEnd(n)
  BY <1>5, MarkEndKeeps
<1>6. CASE ReaperTake \/ ReaperDone
  BY <1>6, ReaperTakeKeeps, ReaperDoneKeeps
<1>7. CASE Freeze \/ Persist \/ CloseAll
  BY <1>7, ShutdownKeeps, CloseAllKeeps
<1>8. CASE Terminated \/ UNCHANGED vars
  BY <1>8, Unchanging DEF Terminated
<1> QED BY <1>1, <1>2, <1>3, <1>4, <1>5, <1>6, <1>7, <1>8 DEF Next

\* The invariant holds in every reachable state.
LEMMA Inductive ==
    Spec => []IInv
<1>1. Init => IInv
  BY Initially
<1>2. IInv /\ [Next]_vars => IInv'
  BY Stepwise
<1> QED BY <1>1, <1>2, PTL DEF Spec

\* Reference counts are exact over every path of a request, an interceptor's
\* answer and re-schedulings included, and the dedup set of the reaper is what is
\* queued or being closed, each id once (acquire, release, mark_end, _reaper_loop).
THEOREM CountsHold == Spec => []SessionsInv
<1>1. IInv => SessionsInv
  BY DEF IInv
<1> QED BY <1>1, Inductive, PTL

\* get_or_create_session never hands out a closed wrapper and close_all leaves no
\* wrapper open that was ever made, the default session's apart.
THEOREM WrappersHold == Spec => []WrappersOwned
<1>1. IInv => WrappersOwned
  <2> SUFFICES ASSUME IInv PROVE WrappersOwned
    OBVIOUS
  <2>1. made \in [Ids -> 0 .. MaxWrappers]
    BY DEF IInv, SessionsInv, TypeOK
  <2>2. NoWrapperLeaked
    <3> SUFFICES ASSUME phase = "closed", NEW s \in Ids \ {Default}, NEW k \in 1 .. made[s]
                 PROVE <<s, k>> \in closed
      BY DEF NoWrapperLeaked
    <3>1. current[s] = 0 /\ k # 0
      BY <2>1 DEF IInv, Owned, Live, NoWrapper
    <3> QED BY <3>1 DEF IInv, Owned
  <2> QED BY <2>2 DEF IInv, WrappersOwned
<1> QED BY <1>1, Inductive, PTL

\* Between freeze and the snapshot no session leaves the table: the reaper skips
\* what it takes (_safe_close) and lookups only add sessions.
THEOREM FrozenHolds == Spec => FrozenKeepsSessions
<1> DEFINE Keep == phase = "frozen" => \A s \in Ids : Live(s) => current'[s] = current[s]
<1>1. IInv /\ [Next]_vars => Keep \/ UNCHANGED vars
  <2> SUFFICES ASSUME IInv, [Next]_vars, phase = "frozen", NEW s \in Ids, Live(s)
               PROVE current'[s] = current[s]
    OBVIOUS
  <2>1. CASE UNCHANGED table
    BY <2>1 DEF table
  <2>2. CASE \E u \in Users : Fetch(u)
    BY <2>2 DEF Fetch, IInv, Stages
  <2>3. CASE ReaperTake
    BY <2>3 DEF ReaperTake, SafeCloseSkips, table
  <2>4. CASE CloseAll
    BY <2>4 DEF CloseAll
  <2>5. CASE \E g \in Groups : RegisterGroup(g)
    BY <2>5 DEF RegisterGroup
  <2>6. CASE \E u \in Users, n \in Names : Acquire(u, n, "acquired") \/ Acquire(u, n, "ending")
    BY <2>6 DEF Acquire
  <2>7. CASE \E u \in Users : Drop(u) \/ FinishFetch(u) \/ CloseSignalEnd(u)
    BY <2>7, <2>1 DEF Drop, FinishFetch, CloseSignalEnd
  <2>8. CASE \E u \in Users : Refetch(u) \/ Answer(u)
    BY <2>8, <2>1 DEF Refetch, Answer
  <2>9. CASE \E n \in Names : MarkEnd(n)
    BY <2>9, <2>1 DEF MarkEnd
  <2>10. CASE ReaperDone \/ Freeze \/ Persist
    BY <2>10, <2>1 DEF ReaperDone, Freeze, Persist
  <2>11. CASE Terminated \/ UNCHANGED vars
    BY <2>11, <2>1 DEF Terminated, vars
  <2> QED BY <2>2, <2>3, <2>4, <2>5, <2>6, <2>7, <2>8, <2>9, <2>10, <2>11 DEF Next, UserStep
<1>2. IInv /\ [Next]_vars
      => [phase = "frozen" => \A s \in Ids : Live(s) => current'[s] = current[s]]_vars
  BY <1>1
<1> QED BY <1>2, Inductive, PTL DEF Spec, FrozenKeepsSessions

---------------------------------------------------------------------------
(* Nothing is closed in use.                                               *)

\* Sessions as the documentation wants them used: not again after their end,
\* without groups, and no request is re-scheduled by a download interceptor.
Disciplined == ~ReuseEnded /\ MaxRefetch = 0 /\ Groups = {}

\* While the crawl runs, who is queued has ended and has no user.
QueuedUnused ==
    phase = "running" =>
        \A s \in RangeOf(closeQueue) : s \in endFlags /\ Holders(s) = {}

\* A fetch works with the wrapper registered under its name.
InUse ==
    \A u \in Users :
        user[u] = "using" => Live(name[u]) /\ handle[u] = <<name[u], current[name[u]]>>

\* The inductive invariant, besides IInv.
UseInv == QueuedUnused /\ InUse /\ Default \notin endFlags

\* Without re-schedulings a count is that of the holders.
LEMMA CountIsHolders ==
    ASSUME IInv, Disciplined, phase = "running", NEW n \in Names \ {Default}
    PROVE /\ refs[n] = Cardinality(Holders(n))
          /\ refs[n] <= 0 => Holders(n) = {}
<1>1. Overdrawn(n) = {}
  BY DEF Overdrawn, Disciplined
<1>2. Cardinality(Overdrawn(n)) = 0
  BY <1>1, FS_EmptySet
<1>3. refs[n] = Cardinality(Holders(n)) - Cardinality(Overdrawn(n))
  BY DEF IInv, SessionsInv, CountsExact
<1>4. Cardinality(Holders(n)) \in Nat /\ IsFiniteSet(Holders(n))
  BY CountsFinite
<1>5. refs[n] = Cardinality(Holders(n))
  BY <1>2, <1>3, <1>4
<1>6. refs[n] <= 0 => Cardinality(Holders(n)) = 0
  BY <1>4, <1>5
<1> QED BY <1>4, <1>5, <1>6, FS_EmptySet

\* Who is the last to release leaves no holder behind.
LEMMA LastHolder ==
    ASSUME IInv, Disciplined, phase = "running", NEW u \in Users,
           user[u] \in {"acquired", "using", "ending"}, NEW n \in Names \ {Default}, n = name[u],
           user' = [user EXCEPT ![u] = "done"], UNCHANGED <<name, refetched>>,
           refs[n] - 1 <= 0
    PROVE Holders(n)' = {}
<1>1. TypeOK
  BY DEF IInv, SessionsInv
<1>2. Holders(n)' = Holders(n) \ {u} /\ Cardinality(Holders(n)') = Cardinality(Holders(n)) - 1
  BY <1>1, HolderLeaves
<1>3. /\ refs[n] = Cardinality(Holders(n)) /\ Cardinality(Holders(n)) \in Nat
      /\ IsFiniteSet(Holders(n))
  BY CountIsHolders, CountsFinite
<1>4. IsFiniteSet(Holders(n)')
  BY <1>2, <1>3, FS_Subset
<1>5. Cardinality(Holders(n)') \in Nat
  BY <1>4, FS_CardinalityType
<1>6. Cardinality(Holders(n)') = 0
  BY <1>2, <1>3, <1>5
<1> QED BY <1>4, <1>6, FS_EmptySet

\* Without groups a name is an id, and an end is about that id alone.
LEMMA Ungrouped ==
    ASSUME IInv, Disciplined, NEW n \in Names
    PROVE n \in Ids /\ ~IsGroup(n) /\ Resolve(n) = {n} /\ EndTargets(n) = {n}
<1>1. RangeOf(registered) = {}
  BY RangeCounted DEF IInv, SessionsInv, TypeOK, Disciplined
<1>2. n \in Ids
  BY DEF Disciplined, Names
<1> QED BY <1>1, <1>2 DEF IsGroup, Resolve, EndTargets

\* An acquired name has not ended, so it is not queued.
LEMMA UseAcquired ==
    ASSUME IInv, UseInv, Disciplined, NEW u \in Users, NEW n \in Names,
           NEW next \in {"acquired", "ending"}, Acquire(u, n, next)
    PROVE UseInv'
<1>1. /\ TypeOK /\ RegisteredOpen /\ Owned /\ Stages
      /\ phase = "running" /\ phase' = phase /\ user[u] = "new"
  BY DEF IInv, SessionsInv, Acquire, shutdown
<1>2. /\ endFlags' = endFlags /\ closeQueue' = closeQueue /\ handle' = handle
      /\ refetched' = refetched
      /\ user' = [user EXCEPT ![u] = next] /\ name' = [name EXCEPT ![u] = n]
      /\ n \in Ids /\ n \notin endFlags /\ GetOrCreate(n)
  BY Ungrouped DEF Acquire, closing, Usable, Disciplined
<1>3. \A t \in Ids : Live(t) => current'[t] = current[t]
  BY <1>1, <1>2, LookedUp
<1>4. \A m : m # n => Holders(m)' = Holders(m)
  BY <1>1, <1>2, HolderJoins
<1>5. QueuedUnused'
  BY <1>1, <1>2, <1>4 DEF UseInv, QueuedUnused
<1>6. InUse'
  <2>1. \A t \in Users \ {u} : user'[t] = user[t] /\ name'[t] = name[t]
    BY <1>1, <1>2 DEF TypeOK
  <2>2. user'[u] # "using"
    BY <1>1, <1>2 DEF TypeOK
  <2>3. \A t \in Users : name[t] \in Ids
    BY <1>1, Ungrouped DEF TypeOK
  <2> QED BY <2>1, <2>2, <2>3, <1>2, <1>3 DEF UseInv, InUse, Live
<1> QED BY <1>2, <1>5, <1>6 DEF UseInv

\* A release queues an ended id only with its last holder.
LEMMA UseReleased ==
    ASSUME IInv, UseInv, Disciplined, NEW u \in Users, Drop(u) \/ FinishFetch(u)
    PROVE UseInv'
<1> PICK n : n = name[u]
  OBVIOUS
<1>1. /\ TypeOK /\ QueueMirrored /\ phase' = phase
      /\ user[u] \in {"acquired", "using", "ending"} /\ n \in Names
  BY DEF IInv, SessionsInv, Drop, FinishFetch, shutdown, TypeOK
<1>2. /\ current' = current /\ reaper' = reaper
      /\ name' = name /\ handle' = handle /\ refetched' = refetched
      /\ user' = [user EXCEPT ![u] = "done"] /\ Release(n)
  BY DEF Drop, FinishFetch, table
<1>3. /\ endFlags' = endFlags
      /\ \A s \in RangeOf(closeQueue') : s \in RangeOf(closeQueue)
                \/ (s = n /\ n # Default /\ n \in endFlags /\ refs[n] - 1 <= 0)
  BY <1>1, <1>2, Released
<1>4. /\ Holders(n)' = Holders(n) \ {u} /\ \A m : m # n => Holders(m)' = Holders(m)
  BY <1>1, <1>2, HolderLeaves
<1>5. QueuedUnused'
  <2> SUFFICES ASSUME phase = "running", NEW s \in RangeOf(closeQueue')
               PROVE s \in endFlags /\ Holders(s)' = {}
    BY <1>1, <1>3 DEF QueuedUnused
  <2>1. CASE s \in RangeOf(closeQueue)
    <3>1. s \in endFlags /\ Holders(s) = {}
      BY <2>1 DEF UseInv, QueuedUnused
    <3> QED BY <3>1, <1>4
  <2>2. CASE s = n /\ n # Default /\ n \in endFlags /\ refs[n] - 1 <= 0
    <3>1. Holders(n)' = {}
      BY <2>2, <1>1, <1>2, LastHolder
    <3> QED BY <3>1, <2>2
  <2> QED BY <2>1, <2>2, <1>3
<1>6. InUse'
  <2>1. user'[u] = "done" /\ \A t \in Users \ {u} : user'[t] = user[t]
    BY <1>1, <1>2 DEF TypeOK
  <2> QED BY <2>1, <1>2 DEF UseInv, InUse, Live
<1> QED BY <1>3, <1>5, <1>6 DEF UseInv

\* A fetch gets the wrapper registered under its name and touches no other.
LEMMA UseFetched ==
    ASSUME IInv, UseInv, Disciplined, NEW u \in Users, Fetch(u)
    PROVE UseInv'
<1> PICK n : n = name[u]
  OBVIOUS
<1>1. /\ TypeOK /\ RegisteredOpen /\ Owned /\ Stages
      /\ phase' = phase /\ user[u] = "acquired" /\ phase = "running" /\ n \in Names
  BY DEF IInv, SessionsInv, Fetch, shutdown, Stages, TypeOK
<1>2. n \in Ids /\ Resolve(n) = {n}
  BY <1>1, Ungrouped
<1>3. /\ endFlags' = endFlags /\ closeQueue' = closeQueue /\ name' = name
      /\ refetched' = refetched /\ user' = [user EXCEPT ![u] = "using"]
      /\ GetOrCreate(n) /\ handle' = [handle EXCEPT ![u] = <<n, current'[n]>>]
  BY <1>2 DEF Fetch, closing
<1>4. (\A t \in Ids : Live(t) => current'[t] = current[t]) /\ Live(n)'
  BY <1>1, <1>2, <1>3, LookedUp
<1>5. user'[u] = "using" /\ \A t \in Users \ {u} : user'[t] = user[t]
  BY <1>1, <1>3 DEF TypeOK
<1>6. QueuedUnused'
  <2>1. ASSUME NEW m PROVE Holders(m)' = Holders(m)
    BY <1>1, <1>3, <1>5 DEF Holders, Holds
  <2> QED BY <2>1, <1>1, <1>3 DEF UseInv, QueuedUnused
<1>7. InUse'
  <2>1. handle'[u] = <<n, current'[n]>> /\ \A t \in Users \ {u} : handle'[t] = handle[t]
    BY <1>1, <1>3 DEF TypeOK
  <2>2. \A t \in Users : name[t] \in Ids
    BY <1>1, Ungrouped DEF TypeOK
  <2> QED BY <2>1, <2>2, <1>3, <1>4, <1>5 DEF UseInv, InUse, Live
<1> QED BY <1>3, <1>6, <1>7 DEF UseInv

\* mark_end queues an id that nobody holds.
LEMMA UseMarked ==
    ASSUME IInv, UseInv, Disciplined, NEW n \in Names, MarkEnd(n)
    PROVE UseInv'
<1>1. TypeOK /\ QueueMirrored /\ phase = "running" /\ phase' = phase /\ n # Default
  BY DEF IInv, SessionsInv, MarkEnd, shutdown, Counted
<1>2. n \in Ids /\ EndTargets(n) = {n}
  BY Ungrouped
<1>3. /\ current' = current /\ user' = user /\ name' = name /\ handle' = handle
      /\ refetched' = refetched /\ endFlags' = endFlags \cup {n}
  BY <1>2 DEF MarkEnd, table, userVars
<1>4. PICK d \in Orders(NowDue(n)) : closeQueue' = closeQueue \o d
  BY DEF MarkEnd
<1>5. RangeOf(closeQueue') = RangeOf(closeQueue) \cup NowDue(n)
  BY <1>1, <1>2, <1>4, MarkedDue
<1>6. QueuedUnused'
  <2> SUFFICES ASSUME NEW s \in RangeOf(closeQueue')
               PROVE s \in endFlags' /\ Holders(s) = {}
    BY <1>3 DEF QueuedUnused, Holders, Holds
  <2>1. CASE s \in RangeOf(closeQueue)
    BY <2>1, <1>1, <1>3 DEF UseInv, QueuedUnused
  <2>2. CASE s \in NowDue(n)
    <3>1. s = n /\ refs[n] <= 0
      BY <2>2, <1>2 DEF NowDue
    <3> QED BY <3>1, <1>1, <1>3, CountIsHolders
  <2> QED BY <2>1, <2>2, <1>5
<1>7. InUse'
  BY <1>3 DEF UseInv, InUse, Live
<1> QED BY <1>1, <1>3, <1>6, <1>7 DEF UseInv

\* A session_end signal queues its id only if it was the last to hold it.
LEMMA UseSignalled ==
    ASSUME IInv, UseInv, Disciplined, NEW u \in Users, CloseSignalEnd(u)
    PROVE UseInv'
<1> PICK n : n = name[u]
  OBVIOUS
<1>1. /\ TypeOK /\ QueueMirrored /\ phase = "running" /\ phase' = phase
      /\ user[u] = "ending" /\ n \in Names
  BY DEF IInv, SessionsInv, CloseSignalEnd, shutdown, Stages, TypeOK
<1>2. n \in Ids /\ EndTargets(n) = {n} /\ ~IsGroup(n)
  BY <1>1, Ungrouped
<1>3. /\ current' = current /\ name' = name /\ handle' = handle /\ refetched' = refetched
      /\ user' = [user EXCEPT ![u] = "done"]
      /\ endFlags' = endFlags \cup (IF Counted(n) THEN {n} ELSE {})
  BY <1>2 DEF CloseSignalEnd, table
<1>4. /\ Holders(n)' = Holders(n) \ {u} /\ \A m : m # n => Holders(m)' = Holders(m)
  BY <1>1, <1>3, HolderLeaves
<1>5. ASSUME NEW s \in RangeOf(closeQueue')
      PROVE s \in RangeOf(closeQueue) \/ (s = n /\ n # Default /\ refs[n] - 1 <= 0)
  <2> DEFINE last == /\ n \in endFlags \cup {n} /\ refs[n] - 1 <= 0
                     /\ n \notin pendingClose \cup NowDue(n)
             added == IF last THEN <<n>> ELSE <<>>
  <2>1. CASE n = Default
    <3>1. PICK due \in Orders({}) : closeQueue' = closeQueue \o due \o <<>>
      BY <2>1 DEF CloseSignalEnd, Counted
    <3>2. due \in Seq({}) /\ Len(due) = 0
      BY <3>1, OrderListsOnce, FS_EmptySet
    <3>3. closeQueue \in Seq(Ids) /\ due = <<>>
      BY <3>2, <1>1, EmptySeq DEF TypeOK
    <3>4. closeQueue' = closeQueue
      BY <3>1, <3>3, ConcatEmptySeq
    <3> QED BY <3>4
  <2>2. CASE n # Default
    <3>1. PICK due \in Orders(NowDue(n)) : closeQueue' = closeQueue \o due \o added
      BY <2>2, <1>2 DEF CloseSignalEnd, Counted
    <3> PICK q : q = closeQueue \o due
      OBVIOUS
    <3>2. q \in Seq(Ids) /\ RangeOf(q) = RangeOf(closeQueue) \cup NowDue(n)
      BY <1>1, <1>2, MarkedDue
    <3> PICK a : a = added
      OBVIOUS
    <3>3. a \in Seq(Ids) /\ \A t \in RangeOf(a) : t = n /\ refs[n] - 1 <= 0
      BY <1>2 DEF RangeOf
    <3>4. RangeOf(q \o a) = RangeOf(q) \cup RangeOf(a)
      <4>1. q \in Seq(Ids) /\ a \in Seq(Ids)
        BY <3>2, <3>3
      <4> QED BY ONLY <4>1, RangeJoined
    <3>5. s \in RangeOf(q) \/ s \in RangeOf(a)
      BY <3>1, <3>4
    <3>6. ASSUME s \in NowDue(n) PROVE s = n /\ refs[n] - 1 <= 0
      <4>1. s = n /\ refs[n] <= 0 /\ refs[n] \in Int
        BY <3>6, <1>1, <1>2 DEF NowDue, TypeOK
      <4> QED BY <4>1
    <3> QED BY <2>2, <3>2, <3>3, <3>5, <3>6
  <2> QED BY <2>1, <2>2
<1>6. QueuedUnused'
  <2> SUFFICES ASSUME NEW s \in RangeOf(closeQueue')
               PROVE s \in endFlags' /\ Holders(s)' = {}
    BY DEF QueuedUnused
  <2>1. CASE s \in RangeOf(closeQueue)
    <3>1. s \in endFlags /\ Holders(s) = {}
      BY <2>1, <1>1 DEF UseInv, QueuedUnused
    <3> QED BY <3>1, <1>3, <1>4
  <2>2. CASE s = n /\ n # Default /\ refs[n] - 1 <= 0
    <3>1. Holders(n)' = {}
      BY <2>2, <1>1, <1>3, LastHolder
    <3> QED BY <3>1, <2>2, <1>3 DEF Counted
  <2> QED BY <2>1, <2>2, <1>5
<1>7. InUse'
  <2>1. user'[u] = "done" /\ \A t \in Users \ {u} : user'[t] = user[t]
    BY <1>1, <1>3 DEF TypeOK
  <2> QED BY <2>1, <1>3 DEF UseInv, InUse, Live
<1>8. Default \notin endFlags'
  BY <1>3 DEF UseInv, Counted
<1> QED BY <1>6, <1>7, <1>8 DEF UseInv

\* The reaper takes an id that has no holder, so no fetch works with its wrapper.
LEMMA UseReaped ==
    ASSUME IInv, UseInv, Disciplined, ReaperTake
    PROVE UseInv'
<1> PICK s : s = Head(closeQueue)
  OBVIOUS
<1>1. /\ TypeOK /\ phase' = phase /\ closeQueue # <<>>
      /\ endFlags' = endFlags /\ user' = user /\ name' = name /\ handle' = handle
      /\ closeQueue' = Tail(closeQueue)
  BY DEF IInv, SessionsInv, ReaperTake, shutdown, userVars
<1>2. closeQueue \in Seq(Ids)
  BY <1>1 DEF TypeOK
<1>3. s \in Ids /\ RangeOf(closeQueue) = {s} \cup RangeOf(closeQueue')
  BY <1>1, <1>2, RangeTaken
<1>4. \A m : Holders(m)' = Holders(m)
  BY <1>1 DEF Holders, Holds
<1>5. QueuedUnused'
  BY <1>1, <1>3, <1>4 DEF UseInv, QueuedUnused
<1>6. InUse'
  <2>1. CASE SafeCloseSkips(s)
    <3>1. current' = current
      BY <2>1 DEF ReaperTake, table
    <3> QED BY <3>1, <1>1 DEF UseInv, InUse, Live
  <2>2. CASE ~SafeCloseSkips(s)
    <3>1. current' = [current EXCEPT ![s] = NoWrapper] /\ phase = "running"
      BY <2>2 DEF ReaperTake, SafeCloseSkips
    <3>2. Holders(s) = {}
      BY <3>1, <1>3 DEF UseInv, QueuedUnused
    <3>3. ASSUME NEW t \in Users, user[t] = "using" PROVE name[t] # s /\ name[t] \in Ids
      <4>1. t \in Holders(name[t])
        BY <3>3 DEF Holders, Holds
      <4> QED BY <4>1, <3>2, <1>1, Ungrouped DEF TypeOK
    <3>4. \A t \in Ids \ {s} : current'[t] = current[t]
      BY <3>1, <1>1 DEF TypeOK
    <3> QED BY <3>3, <3>4, <1>1 DEF UseInv, InUse, Live
  <2> QED BY <2>1, <2>2
<1> QED BY <1>1, <1>5, <1>6 DEF UseInv

\* After freeze nobody is closed before every fetch has ended.
LEMMA UseShutDown ==
    ASSUME IInv, UseInv, Freeze \/ Persist \/ CloseAll
    PROVE UseInv'
<1>1. phase' # "running" /\ (endFlags' = endFlags \/ endFlags' = {})
  BY DEF Freeze, Persist, CloseAll, closing
<1>2. InUse'
  <2>1. CASE Freeze
    BY <2>1 DEF Freeze, table, UseInv, InUse, Live
  <2>2. CASE Persist
    BY <2>2 DEF Persist, table, userVars, UseInv, InUse, Live
  <2>3. CASE CloseAll
    <3>1. user' = user /\ \A u \in Users : user[u] = "done"
      BY <2>3 DEF CloseAll, userVars, IInv, Stages
    <3> QED BY <3>1 DEF InUse
  <2> QED BY <2>1, <2>2, <2>3
<1> QED BY <1>1, <1>2 DEF UseInv, QueuedUnused

\* The end of a close is none of the users' business.
LEMMA UseUnchanged ==
    ASSUME UseInv, UNCHANGED vars \/ ReaperDone
    PROVE UseInv'
<1>1. /\ current' = current /\ endFlags' = endFlags /\ closeQueue' = closeQueue /\ user' = user
      /\ name' = name /\ handle' = handle /\ phase' = phase
  BY DEF ReaperDone, vars, table, closing, userVars, shutdown
<1> QED BY <1>1 DEF UseInv, QueuedUnused, InUse, Live, Holders, Holds

\* Sessions used as documented: the invariant of the use holds throughout.
LEMMA UseInductive ==
    ASSUME Disciplined
    PROVE Spec => []UseInv
<1>1. Init => UseInv
  BY DEF Init, UseInv, QueuedUnused, InUse, RangeOf
<1>2. IInv /\ UseInv /\ [Next]_vars => UseInv'
  <2> SUFFICES ASSUME IInv, UseInv, [Next]_vars PROVE UseInv'
    OBVIOUS
  <2>1. CASE \E g \in Groups : RegisterGroup(g)
    BY <2>1 DEF Disciplined
  <2>2. CASE \E u \in Users, n \in Names : Acquire(u, n, "acquired") \/ Acquire(u, n, "ending")
    BY <2>2, UseAcquired
  <2>3. CASE \E u \in Users : UserStep(u)
    BY <2>3, UseReleased, UseFetched, UseSignalled DEF UserStep
  <2>4. CASE \E u \in Users : Refetch(u) \/ Answer(u)
    <3>1. PICK u \in Users : Refetch(u) \/ Answer(u)
      BY <2>4
    <3>2. refetched[u] \in Nat /\ MaxRefetch = 0
      BY SessionsAssumption DEF IInv, SessionsInv, TypeOK, Disciplined
    <3> QED BY <3>1, <3>2 DEF Refetch, Answer
  <2>5. CASE \E n \in Names : MarkEnd(n)
    BY <2>5, UseMarked
  <2>6. CASE ReaperTake
    BY <2>6, UseReaped
  <2>7. CASE Freeze \/ Persist \/ CloseAll
    BY <2>7, UseShutDown
  <2>8. CASE ReaperDone \/ Terminated \/ UNCHANGED vars
    BY <2>8, UseUnchanged DEF Terminated
  <2> QED BY <2>1, <2>2, <2>3, <2>4, <2>5, <2>6, <2>7, <2>8 DEF Next
<1> QED BY <1>1, <1>2, Inductive, PTL DEF Spec

\* "Ensures sessions are not closed while still in use": with sessions used as the
\* documentation says, the wrapper a fetch works with stays open until the fetch
\* has released it, through the reaper and through shutdown.
THEOREM InUseHolds ==
    ASSUME Disciplined
    PROVE Spec => []NotClosedInUse
<1>1. IInv /\ UseInv => NotClosedInUse
  <2> SUFFICES ASSUME IInv, UseInv, NEW u \in Users, user[u] = "using"
               PROVE handle[u] \notin closed
    BY DEF NotClosedInUse
  <2>1. Live(name[u]) /\ handle[u] = <<name[u], current[name[u]]>>
    BY DEF UseInv, InUse
  <2>2. name[u] \in Ids
    <3>1. name[u] \in Names
      BY DEF IInv, SessionsInv, TypeOK
    <3> QED BY <3>1, Ungrouped
  <2> QED BY <2>1, <2>2 DEF IInv, RegisteredOpen
<1> QED BY <1>1, Inductive, UseInductive, PTL
=============================================================================
