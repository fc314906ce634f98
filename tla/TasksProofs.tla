----------------------------- MODULE TasksProofs -----------------------------
(***************************************************************************)
(* TasksInv for any number of engines, tasks, slots and scheduler loops,   *)
(* any limit, and every way a task ends.                                   *)
(*                                                                         *)
(* The counters are exact because what create adds and what the finally    *)
(* clauses take away are the cardinalities of disjoint parts of the        *)
(* counted tasks; that these parts are disjoint needs that numbers beyond  *)
(* `created` are unused (Unused).  No wake-up is lost because a count of   *)
(* downloads falls only with a task of the engine, whose end wakes every   *)
(* loop of that engine; a loop that gets a slot must not be asleep already *)
(* (AsleepRan).                                                            *)
(***************************************************************************)
EXTENDS Tasks, FiniteSetTheorems, SequenceTheorems, TLAPS

\* A number beyond those given out belongs to no task.
Unused == \A t \in Tasks : t > created => state[t] = "none"

\* Who sleeps has had a slot.
AsleepRan == \A t \in Tasks : at[t] = "blocked" => state[t] \notin {"none", "waiting"}

\* The inductive invariant.
IInv == TasksInv /\ Unused /\ AsleepRan

Running == {t \in Tasks : state[t] = "running"}
OwnedBy(e, S) == {t \in S : owner[t] = e}

---------------------------------------------------------------------------
(* Cardinalities.                                                          *)

\* Sets of tasks are finite.
LEMMA TasksFinite ==
    ASSUME NEW S, S \subseteq Tasks
    PROVE IsFiniteSet(S) /\ Cardinality(S) \in Nat
<1>1. IsFiniteSet(Tasks)
  BY FS_Interval, TasksAssumption DEF Tasks
<1>2. IsFiniteSet(S)
  BY <1>1, FS_Subset
<1> QED BY <1>2, FS_CardinalityType

\* A set of tasks joined by new ones.
LEMMA CardinalityJoined ==
    ASSUME NEW S, NEW N, S \subseteq Tasks, N \subseteq Tasks, S \cap N = {}
    PROVE Cardinality(S \cup N) = Cardinality(S) + Cardinality(N)
<1>1. IsFiniteSet(S) /\ IsFiniteSet(N) /\ Cardinality(S) \in Nat /\ Cardinality(N) \in Nat
  BY TasksFinite
<1>2. Cardinality(S \cup N) = Cardinality(S) + Cardinality(N) - Cardinality(S \cap N)
  BY <1>1, FS_Union
<1>3. Cardinality(S \cap N) = 0
  BY FS_EmptySet
<1> QED BY <1>1, <1>2, <1>3

\* A set of tasks that some leave.
LEMMA CardinalityLeft ==
    ASSUME NEW S, NEW R, S \subseteq Tasks, R \subseteq S
    PROVE Cardinality(S \ R) = Cardinality(S) - Cardinality(R)
<1> PICK T : T = S \ R
  OBVIOUS
<1>1. T \cup R = S /\ T \subseteq Tasks /\ R \subseteq Tasks /\ T \cap R = {}
  OBVIOUS
<1>2. Cardinality(S) = Cardinality(T) + Cardinality(R)
  BY <1>1, CardinalityJoined
<1>3. Cardinality(T) \in Nat /\ Cardinality(R) \in Nat
  BY <1>1, TasksFinite
<1>4. Cardinality(T) = Cardinality(S) - Cardinality(R)
  BY ONLY <1>2, <1>3
<1> QED BY <1>4

\* Tasks are numbered on from `created`, which counts them.
LEMMA CardinalityShifted ==
    ASSUME NEW m \in Nat, NEW n \in Nat, NEW I, I \subseteq 1 .. n,
           NEW N, N = {m + i : i \in I}
    PROVE Cardinality(N) = Cardinality(I)
<1> DEFINE f == [i \in I |-> m + i]
<1>1. IsFiniteSet(I)
  <2>1. 1 \in Int /\ n \in Int
    OBVIOUS
  <2>2. IsFiniteSet(1 .. n)
    BY <2>1, FS_Interval
  <2> QED BY <2>2, FS_Subset
<1>2. f \in Bijection(I, N)
  <2>1. \A i \in I : i \in Int /\ f[i] = m + i
    OBVIOUS
  <2>2. f \in [I -> N]
    OBVIOUS
  <2>3. f \in Injection(I, N)
    BY <2>1, <2>2 DEF Injection, IsInjective
  <2>4. \A y \in N : \E i \in I : f[i] = y
    BY <2>1
  <2>5. f \in Surjection(I, N)
    BY <2>2, <2>4 DEF Surjection
  <2> QED BY <2>3, <2>5 DEF Bijection
<1>3. ExistsBijection(I, N)
  BY <1>2 DEF ExistsBijection
<1> QED BY <1>1, <1>3, FS_Bijection

---------------------------------------------------------------------------
(* create.                                                                 *)

Added(n) == {t \in Tasks : t > created /\ t <= created + n}

\* What create adds to each of the counted sets.
LEMMA CreateCounted ==
    ASSUME IInv, NEW e \in Engines, NEW rs \in Seq(Roles), Create(e, rs)
    PROVE /\ CountedTasks' = CountedTasks \cup Added(Len(rs)) /\ Running' = Running
          /\ \A x \in Engines, r \in Roles :
                Cardinality(Of(x, r, CountedTasks)') = Cardinality(Of(x, r, CountedTasks))
                    + IF x = e THEN Cardinality({i \in 1 .. Len(rs) : rs[i] = r}) ELSE 0
          /\ \A x \in Engines :
                Cardinality(OwnedBy(x, CountedTasks)') = Cardinality(OwnedBy(x, CountedTasks))
                    + IF x = e THEN Len(rs) ELSE 0
          /\ Cardinality(CountedTasks') = Cardinality(CountedTasks) + Len(rs)
<1>0. PICK n : n = Len(rs)
  OBVIOUS
<1> DEFINE New == Added(n)
           NewOf(r) == {t \in New : rs[t - created] = r}
<1>1. n \in Nat /\ created \in Nat /\ MaxTasks \in Nat /\ created + n <= MaxTasks
  BY <1>0, TasksAssumption DEF Create, IInv, TasksInv, TasksTypeOK
<1>2. \A t \in Tasks : t \in New <=> t > created /\ t <= created + n
  BY DEF Added
<1>3. \A t \in Tasks : /\ state'[t] = IF t \in New THEN "waiting" ELSE state[t]
                       /\ role'[t] = IF t \in New THEN rs[t - created] ELSE role[t]
                       /\ owner'[t] = IF t \in New THEN e ELSE owner[t]
  BY <1>0, <1>2 DEF Create
<1>4. \A t \in New : t \in Tasks /\ state[t] = "none"
  BY DEF Added, IInv, Unused
<1>5. CountedTasks' = CountedTasks \cup New /\ CountedTasks \cap New = {} /\ CountedTasks \subseteq Tasks
      /\ New \subseteq Tasks
  BY <1>3, <1>4 DEF CountedTasks
<1>6. Running' = Running
  BY <1>3, <1>4 DEF Running
<1>7. \A i \in 1 .. n : created + i \in New
  <2> SUFFICES ASSUME NEW i \in 1 .. n
               PROVE created + i \in 1 .. MaxTasks /\ created + i > created /\ created + i <= created + n
    BY DEF Added, Tasks
  <2> QED BY <1>1
<1>8. \A t \in New : t - created \in 1 .. n /\ created + (t - created) = t
  BY <1>1 DEF Added, Tasks
<1>9. Cardinality(New) = n
  <2>1. New = {created + i : i \in 1 .. n}
    BY <1>7, <1>8
  <2>2. Cardinality(New) = Cardinality(1 .. n)
    BY <1>1, <2>1, CardinalityShifted
  <2>3. Cardinality(1 .. n) = n
    <3>1. 1 \in Int /\ n \in Int
      BY <1>1
    <3>2. Cardinality(1 .. n) = IF 1 > n THEN 0 ELSE n - 1 + 1
      BY <3>1, FS_Interval
    <3> QED BY <1>1, <3>2
  <2> QED BY <2>2, <2>3
<1>10. ASSUME NEW r \in Roles
       PROVE Cardinality(NewOf(r)) = Cardinality({i \in 1 .. n : rs[i] = r})
  <2> DEFINE I == {i \in 1 .. n : rs[i] = r}
             N == NewOf(r)
  <2>1. N = {created + i : i \in I}
    <3>1. \A i \in I : created + i \in New
      BY <1>7
    <3>2. \A i \in I : (created + i) - created = i
      BY <1>1
    <3> QED BY <1>8, <3>1, <3>2
  <2>2. I \subseteq 1 .. n
    OBVIOUS
  <2> HIDE DEF I, N
  <2>3. Cardinality(N) = Cardinality(I)
    BY <1>1, <2>1, <2>2, CardinalityShifted
  <2> QED BY <2>3 DEF I, N
<1> HIDE DEF New
<1>11. ASSUME NEW x \in Engines, NEW r \in Roles
       PROVE Cardinality(Of(x, r, CountedTasks)') = Cardinality(Of(x, r, CountedTasks))
                 + IF x = e THEN Cardinality({i \in 1 .. n : rs[i] = r}) ELSE 0
  <2> DEFINE S == Of(x, r, CountedTasks)
             N == NewOf(r)
  <2>1. S \subseteq Tasks /\ N \subseteq Tasks /\ S \cap N = {}
    BY <1>5 DEF Of
  <2>2. CASE x = e
    <3>1. Of(x, r, CountedTasks)' = S \cup N
      BY <1>3, <1>5, <2>2 DEF Of
    <3> HIDE DEF S, N
    <3>2. Cardinality(S \cup N) = Cardinality(S) + Cardinality(N)
      BY <2>1, CardinalityJoined
    <3>3. Cardinality(N) = Cardinality({i \in 1 .. n : rs[i] = r})
      BY <1>10 DEF N
    <3> QED BY <2>2, <3>1, <3>2, <3>3 DEF S
  <2>3. CASE x # e
    <3>1. Of(x, r, CountedTasks)' = S
      BY <1>3, <1>5, <2>3 DEF Of
    <3>2. Cardinality(S) \in Nat
      BY <2>1, TasksFinite
    <3> QED BY <2>3, <3>1, <3>2
  <2> QED BY <2>2, <2>3
<1>12. ASSUME NEW x \in Engines
       PROVE Cardinality(OwnedBy(x, CountedTasks)') = Cardinality(OwnedBy(x, CountedTasks))
                 + IF x = e THEN n ELSE 0
  <2> DEFINE S == OwnedBy(x, CountedTasks)
  <2>1. S \subseteq Tasks /\ S \cap New = {}
    BY <1>5 DEF OwnedBy
  <2>2. CASE x = e
    <3>1. OwnedBy(x, CountedTasks)' = S \cup New
      BY <1>3, <1>5, <2>2 DEF OwnedBy
    <3>2. Cardinality(S \cup New) = Cardinality(S) + Cardinality(New)
      BY <1>5, <2>1, CardinalityJoined
    <3> QED BY <1>9, <2>2, <3>1, <3>2
  <2>3. CASE x # e
    <3>1. OwnedBy(x, CountedTasks)' = S
      BY <1>3, <1>5, <2>3 DEF OwnedBy
    <3>2. Cardinality(S) \in Nat
      BY <2>1, TasksFinite
    <3> QED BY <2>3, <3>1, <3>2
  <2> QED BY <2>2, <2>3
<1>13. Cardinality(CountedTasks') = Cardinality(CountedTasks) + n
  BY <1>5, <1>9, CardinalityJoined
<1> QED BY <1>0, <1>5, <1>6, <1>11, <1>12, <1>13 DEF New

\* A loop that a step leaves asleep was asleep before.
LEMMA StillAsleep ==
    ASSUME IInv, NEW E, at' = Woken(E) \/ \E u \in Tasks : at' = [Woken(E) EXCEPT ![u] = "check"]
    PROVE /\ at' \in [Tasks -> {"check", "blocked", "get"}]
          /\ \A t \in Tasks : at'[t] = "blocked" => at[t] = "blocked" /\ owner[t] \notin E
BY DEF Woken, IInv, TasksInv, TasksTypeOK

\* create keeps the invariant, provided it wakes the engine's loops.
LEMMA CreateKeeps ==
    ASSUME IInv, NEW e \in Engines, NEW rs \in Seq(Roles), Create(e, rs),
           at' = Woken({e}) \/ \E u \in Tasks : at' = [Woken({e}) EXCEPT ![u] = "check"],
           engineState' \in [Engines -> {"init", "running", "stopping", "closed"}],
           UNCHANGED <<error, crawl>>
    PROVE IInv'
<1>0. PICK n : n = Len(rs)
  OBVIOUS
<1> DEFINE cnt(r) == Cardinality({i \in 1 .. Len(rs) : rs[i] = r})
<1>1. /\ CountedTasks' = CountedTasks \cup Added(n) /\ Running' = Running
      /\ \A x \in Engines, r \in Roles :
            Cardinality(Of(x, r, CountedTasks)') = Cardinality(Of(x, r, CountedTasks))
                + IF x = e THEN cnt(r) ELSE 0
      /\ \A x \in Engines :
            Cardinality(OwnedBy(x, CountedTasks)') = Cardinality(OwnedBy(x, CountedTasks))
                + IF x = e THEN n ELSE 0
      /\ Cardinality(CountedTasks') = Cardinality(CountedTasks) + n
  BY <1>0, CreateCounted
<1>2. n \in Nat /\ created \in Nat /\ created' = created + n /\ created' \in 0 .. MaxTasks
  BY <1>0 DEF Create, IInv, TasksInv, TasksTypeOK
<1>3. TasksTypeOK /\ CountersExact /\ NoLostWakeup
  BY DEF IInv, TasksInv
<1>4. \A r \in Roles : cnt(r) \in Nat
  <2> SUFFICES ASSUME NEW r \in Roles PROVE cnt(r) \in Nat
    OBVIOUS
  <2>0. 1 \in Int /\ n \in Int
    BY <1>2
  <2>1. IsFiniteSet(1 .. n)
    BY <2>0, FS_Interval
  <2>2. IsFiniteSet({i \in 1 .. Len(rs) : rs[i] = r})
    BY <1>0, <2>1, FS_Subset
  <2> QED BY <2>2, FS_CardinalityType
<1>5. names' = [names EXCEPT ![e] = [r \in Roles |-> @[r] + cnt(r)]]
  BY DEF Create
<1> HIDE DEF cnt
<1>6. \A x \in Engines, r \in Roles : names'[x][r] = names[x][r] + IF x = e THEN cnt(r) ELSE 0
  BY <1>3, <1>4, <1>5 DEF TasksTypeOK
<1>7. names' \in [Engines -> [Roles -> Nat]]
  <2> PICK w : w = [r \in Roles |-> names[e][r] + cnt(r)]
    OBVIOUS
  <2>1. \A r \in Roles : names[e][r] + cnt(r) \in Nat
    BY <1>3, <1>4 DEF TasksTypeOK
  <2>2. w \in [Roles -> Nat]
    BY <2>1
  <2>3. names' = [names EXCEPT ![e] = w]
    BY <1>5
  <2> QED BY <1>3, <2>2, <2>3 DEF TasksTypeOK
<1>8. /\ objects' = [objects EXCEPT ![e] = @ + n]
      /\ objectIdle' = [objectIdle EXCEPT ![e] = FALSE]
      /\ active' = active + n /\ allDone' = FALSE /\ free' = free
  BY <1>0 DEF Create
<1>9. objects' \in [Engines -> Nat] /\ objectIdle' \in [Engines -> BOOLEAN]
  BY <1>2, <1>3, <1>8 DEF TasksTypeOK
<1>10. \A t \in Tasks : t \in Added(n) <=> t > created /\ t <= created + n
  BY DEF Added
<1>11. \A t \in Tasks : /\ state'[t] = IF t \in Added(n) THEN "waiting" ELSE state[t]
                        /\ role'[t] = IF t \in Added(n) THEN rs[t - created] ELSE role[t]
                        /\ owner'[t] = IF t \in Added(n) THEN e ELSE owner[t]
  BY <1>0, <1>10 DEF Create
<1>12. /\ state' \in [Tasks -> {"none", "waiting", "running", "ended", "cut"}]
       /\ role' \in [Tasks -> Roles] /\ owner' \in [Tasks -> Engines]
  <2>1. \A t \in Added(n) : t - created \in 1 .. n
    BY <1>2 DEF Added, Tasks
  <2>2. \A t \in Added(n) : rs[t - created] \in Roles /\ t \in Tasks
    BY <1>0, <2>1 DEF Added
  <2>3. \A t \in Tasks : /\ state'[t] \in {"none", "waiting", "running", "ended", "cut"}
                         /\ role'[t] \in Roles /\ owner'[t] \in Engines
    BY <1>3, <1>11, <2>2 DEF TasksTypeOK
  <2>4. state' = [t \in Tasks |-> state'[t]] /\ role' = [t \in Tasks |-> role'[t]]
        /\ owner' = [t \in Tasks |-> owner'[t]]
    BY DEF Create
  <2> QED BY <2>3, <2>4
<1>13. /\ at' \in [Tasks -> {"check", "blocked", "get"}]
       /\ \A t \in Tasks : at'[t] = "blocked" => at[t] = "blocked" /\ owner[t] # e
  BY StillAsleep
<1>14. TasksTypeOK'
  <2>1. active' \in Nat /\ free' \in 0 .. Slots
    BY <1>2, <1>3, <1>8 DEF TasksTypeOK
  <2>2. allDone' \in BOOLEAN /\ error' \in BOOLEAN
    BY <1>3, <1>8 DEF TasksTypeOK
  <2>3. crawl' \in {"running", "cancelled", "stopped"}
    BY <1>3 DEF TasksTypeOK
  <2> QED BY <1>2, <1>7, <1>9, <1>12, <1>13, <2>1, <2>2, <2>3 DEF TasksTypeOK
<1>15. CountersExact'
  <2>1. active' = Resident + Cardinality(CountedTasks)'
    <3>1. Cardinality(CountedTasks) \in Nat /\ Resident \in Nat
      BY TasksFinite DEF CountedTasks, Resident
    <3>2. active = Resident + Cardinality(CountedTasks)
      BY <1>3 DEF CountersExact
    <3>3. Cardinality(CountedTasks)' = Cardinality(CountedTasks) + n
      BY <1>1
    <3> QED BY <1>2, <1>8, <3>1, <3>2, <3>3
  <2>2. ASSUME NEW x \in Engines, NEW r \in Roles
        PROVE names'[x][r] = Cardinality(Of(x, r, CountedTasks))'
    <3>1. names[x][r] = Cardinality(Of(x, r, CountedTasks))
      BY <1>3 DEF CountersExact
    <3>2. Cardinality(Of(x, r, CountedTasks)') = names[x][r] + IF x = e THEN cnt(r) ELSE 0
      BY <1>1, <3>1
    <3> QED BY <1>6, <3>2
  <2>3. ASSUME NEW x \in Engines
        PROVE /\ objects'[x] = Cardinality({t \in CountedTasks : owner[t] = x})'
              /\ objectIdle'[x] => objects'[x] = 0
    <3>1. objects'[x] = objects[x] + IF x = e THEN n ELSE 0
      BY <1>2, <1>3, <1>8 DEF TasksTypeOK
    <3>2. objects[x] = Cardinality(OwnedBy(x, CountedTasks))
      BY <1>3 DEF CountersExact, OwnedBy
    <3>3. objectIdle'[x] => x # e /\ objectIdle[x]
      BY <1>3, <1>8 DEF TasksTypeOK
    <3>4. objectIdle[x] => objects[x] = 0
      BY <1>3 DEF CountersExact
    <3>5. Cardinality(OwnedBy(x, CountedTasks)') = objects'[x]
      BY <1>1, <3>1, <3>2
    <3> QED BY <3>1, <3>3, <3>4, <3>5 DEF OwnedBy
  <2>4. free' + Cardinality({t \in Tasks : state[t] = "running"})' = Slots
    BY <1>1, <1>3, <1>8 DEF CountersExact, Running
  <2> QED BY <2>1, <2>2, <2>3, <2>4 DEF CountersExact
<1>16. NoLostWakeup'
  <2> SUFFICES ASSUME NEW t \in Tasks, state'[t] = "running", at'[t] = "blocked"
               PROVE names'[owner'[t]]["download"] >= Limit
    BY DEF NoLostWakeup
  <2>1. at[t] = "blocked" /\ owner[t] # e /\ t \notin Added(n)
    BY <1>11, <1>13
  <2>2. owner'[t] = owner[t] /\ state[t] = "running" /\ owner[t] \in Engines
    BY <1>3, <1>11, <2>1 DEF TasksTypeOK
  <2>3. names[owner[t]]["download"] >= Limit /\ "download" \in Roles
    BY <1>3, <2>1, <2>2 DEF NoLostWakeup, Roles, Work
  <2>4. names'[owner[t]] = names[owner[t]]
    BY <1>5, <2>1
  <2> QED BY <2>2, <2>3, <2>4
<1>17. Unused'
  BY <1>2, <1>10, <1>11 DEF Unused, IInv, Tasks
<1>18. AsleepRan'
  BY <1>10, <1>11, <1>13 DEF AsleepRan, IInv, Unused
<1> QED BY <1>14, <1>15, <1>16, <1>17, <1>18 DEF IInv, TasksInv

---------------------------------------------------------------------------
(* The ends of tasks.                                                      *)

\* What leaves each of the counted sets: the tasks that held a slot.
LEMMA OverCounted ==
    ASSUME IInv, NEW S, S \subseteq LiveTasks, Over(S), NEW ran, ran = {t \in S : state[t] = "running"}
    PROVE /\ ran \subseteq Running /\ ran \subseteq CountedTasks
          /\ CountedTasks' = CountedTasks \ ran /\ Running' = Running \ ran
          /\ Cardinality(CountedTasks') = Cardinality(CountedTasks) - Cardinality(ran)
          /\ Cardinality(Running') = Cardinality(Running) - Cardinality(ran)
<1>1. \A t \in Tasks : state'[t] = IF t \in ran THEN "ended"
                                   ELSE IF t \in S THEN "cut" ELSE state[t]
  BY DEF Over
<1>2. S \subseteq Tasks /\ \A t \in S : state[t] \in {"waiting", "running"}
  BY DEF LiveTasks
<1>3. ran \subseteq Running /\ ran \subseteq CountedTasks /\ CountedTasks \subseteq Tasks /\ Running \subseteq Tasks
  BY <1>2 DEF Running, CountedTasks
<1>4. CountedTasks' = CountedTasks \ ran /\ Running' = Running \ ran
  BY <1>1, <1>2 DEF CountedTasks, Running
<1> QED BY <1>3, <1>4, CardinalityLeft

\* What leaves the counted tasks of one function of an engine.
LEMMA OverOf ==
    ASSUME UNCHANGED <<role, owner>>, NEW ran, ran \subseteq CountedTasks, CountedTasks' = CountedTasks \ ran,
           NEW x \in Engines, NEW r \in Roles
    PROVE Cardinality(Of(x, r, CountedTasks)')
              = Cardinality(Of(x, r, CountedTasks)) - Cardinality(Of(x, r, ran))
<1>1. Of(x, r, CountedTasks)' = Of(x, r, CountedTasks) \ Of(x, r, ran)
  BY DEF Of
<1>2. Of(x, r, CountedTasks) \subseteq Tasks /\ Of(x, r, ran) \subseteq Of(x, r, CountedTasks)
  BY DEF Of, CountedTasks
<1> QED BY <1>1, <1>2, CardinalityLeft

\* What leaves the counted tasks of one engine.
LEMMA OverOwned ==
    ASSUME UNCHANGED owner, NEW ran, ran \subseteq CountedTasks, CountedTasks' = CountedTasks \ ran,
           NEW x \in Engines
    PROVE Cardinality(OwnedBy(x, CountedTasks)')
              = Cardinality(OwnedBy(x, CountedTasks)) - Cardinality(OwnedBy(x, ran))
<1>1. OwnedBy(x, CountedTasks)' = OwnedBy(x, CountedTasks) \ OwnedBy(x, ran)
  BY DEF OwnedBy
<1>2. OwnedBy(x, CountedTasks) \subseteq Tasks /\ OwnedBy(x, ran) \subseteq OwnedBy(x, CountedTasks)
  BY DEF OwnedBy, CountedTasks
<1> QED BY <1>1, <1>2, CardinalityLeft

\* The end of any set of live tasks keeps the invariant.
LEMMA OverKeeps ==
    ASSUME IInv, NEW S, S \subseteq LiveTasks, Over(S),
           engineState' \in [Engines -> {"init", "running", "stopping", "closed"}],
           error' \in BOOLEAN, crawl' \in {"running", "cancelled", "stopped"}
    PROVE IInv'
<1>1. PICK ran : ran = {t \in S : state[t] = "running"}
  OBVIOUS
<1>2. /\ ran \subseteq Running /\ ran \subseteq CountedTasks
      /\ CountedTasks' = CountedTasks \ ran /\ Running' = Running \ ran
      /\ Cardinality(CountedTasks') = Cardinality(CountedTasks) - Cardinality(ran)
      /\ Cardinality(Running') = Cardinality(Running) - Cardinality(ran)
  BY <1>1, OverCounted
<1>3. TasksTypeOK /\ CountersExact /\ NoLostWakeup
  BY DEF IInv, TasksInv
<1>4. \A t \in Tasks : state'[t] = IF t \in ran THEN "ended"
                                   ELSE IF t \in S THEN "cut" ELSE state[t]
  BY <1>1 DEF Over
<1>5. /\ created' = created /\ role' = role /\ owner' = owner /\ free' = SlotsAfter(ran)
      /\ at' = Woken({owner[t] : t \in ran}) /\ Lowered(ran)
  BY <1>1 DEF Over
<1>6. \A s \in {CountedTasks, Running} : s \subseteq Tasks
  BY DEF CountedTasks, Running
<1>7. /\ Cardinality(ran) \in Nat /\ Cardinality(CountedTasks) \in Nat /\ Cardinality(CountedTasks') \in Nat
      /\ Cardinality(Running) \in Nat /\ Cardinality(Running') \in Nat
  <2>1. ran \subseteq Tasks /\ CountedTasks' \subseteq Tasks /\ Running' \subseteq Tasks
    BY <1>2, <1>6
  <2> QED BY <1>6, <2>1, TasksFinite
<1>8. active' \in Nat /\ active' = Resident + Cardinality(CountedTasks')
  <2>1. active = Resident + Cardinality(CountedTasks) /\ active' = active - Cardinality(ran)
    BY <1>3, <1>5 DEF CountersExact, Lowered
  <2>2. Resident \in Nat
    BY DEF Resident
  <2>3. Cardinality(CountedTasks') = Cardinality(CountedTasks) - Cardinality(ran)
    BY <1>2
  <2> QED BY ONLY <2>1, <2>2, <2>3, <1>7
<1>9. free' \in 0 .. Slots /\ free' + Cardinality(Running') = Slots
  <2>1. free + Cardinality(Running) = Slots /\ free' = free + Cardinality(ran)
    BY <1>3, <1>5 DEF CountersExact, SlotsAfter, Running
  <2>2. free \in Nat /\ Slots \in Nat
    BY <1>3, TasksAssumption DEF TasksTypeOK
  <2>3. Cardinality(Running') = Cardinality(Running) - Cardinality(ran)
    BY <1>2
  <2> QED BY ONLY <2>1, <2>2, <2>3, <1>7
<1>10. ASSUME NEW x \in Engines, NEW r \in Roles
       PROVE names'[x][r] \in Nat /\ names'[x][r] = Cardinality(Of(x, r, CountedTasks)')
  <2>1. names'[x][r] = names[x][r] - Cardinality(Of(x, r, ran))
    BY <1>5 DEF Lowered
  <2>2. names[x][r] = Cardinality(Of(x, r, CountedTasks))
    BY <1>3 DEF CountersExact
  <2>3. Of(x, r, CountedTasks)' \subseteq Tasks
    BY DEF Of, CountedTasks
  <2>4. Cardinality(Of(x, r, CountedTasks)') \in Nat
    BY <2>3, TasksFinite
  <2>5. Cardinality(Of(x, r, CountedTasks)')
            = Cardinality(Of(x, r, CountedTasks)) - Cardinality(Of(x, r, ran))
    BY <1>2, <1>5, OverOf
  <2> QED BY <2>1, <2>2, <2>4, <2>5
<1>11. names' \in [Engines -> [Roles -> Nat]]
  <2>1. names' = [e \in Engines |-> [r \in Roles |-> names[e][r] - Cardinality(Of(e, r, ran))]]
    BY <1>5 DEF Lowered
  <2>2. \A e \in Engines, r \in Roles : names[e][r] - Cardinality(Of(e, r, ran)) \in Nat
    BY <1>10, <2>1
  <2> QED BY <2>1, <2>2
<1>12. ASSUME NEW x \in Engines
       PROVE /\ objects'[x] \in Nat /\ objects'[x] = Cardinality(OwnedBy(x, CountedTasks)')
             /\ objectIdle'[x] => objects'[x] = 0
  <2>1. objects'[x] = objects[x] - Cardinality(OwnedBy(x, ran))
    BY <1>5 DEF Lowered, OwnedBy
  <2>2. objects[x] = Cardinality(OwnedBy(x, CountedTasks))
    BY <1>3 DEF CountersExact, OwnedBy
  <2>3. OwnedBy(x, CountedTasks)' \subseteq Tasks /\ OwnedBy(x, ran) \subseteq Tasks
    BY <1>2, <1>6 DEF OwnedBy, CountedTasks
  <2>4. Cardinality(OwnedBy(x, CountedTasks)') \in Nat /\ Cardinality(OwnedBy(x, ran)) \in Nat
    BY <2>3, TasksFinite
  <2>5. objects'[x] \in Nat /\ objects'[x] = Cardinality(OwnedBy(x, CountedTasks)')
    <3>1. Cardinality(OwnedBy(x, CountedTasks)')
              = Cardinality(OwnedBy(x, CountedTasks)) - Cardinality(OwnedBy(x, ran))
      BY <1>2, <1>5, OverOwned
    <3> QED BY <2>1, <2>2, <2>4, <3>1
  <2>6. objectIdle'[x] => objectIdle[x] \/ objects'[x] <= 0
    BY <1>5 DEF Lowered
  <2>7. objectIdle[x] => objects[x] = 0
    BY <1>3 DEF CountersExact
  <2> QED BY <2>1, <2>4, <2>5, <2>6, <2>7
<1>13. objects' \in [Engines -> Nat] /\ objectIdle' \in [Engines -> BOOLEAN]
  <2>1. objects' = [e \in Engines |-> objects[e] - Cardinality(OwnedBy(e, ran))]
    BY <1>5 DEF Lowered, OwnedBy
  <2>2. \A e \in Engines : objects[e] - Cardinality(OwnedBy(e, ran)) \in Nat
    BY <1>12, <2>1
  <2>3. objectIdle' \in [Engines -> BOOLEAN]
    BY <1>5, Zenon DEF Lowered
  <2> QED BY <2>1, <2>2, <2>3
<1>14. /\ at' \in [Tasks -> {"check", "blocked", "get"}]
       /\ \A t \in Tasks : at'[t] = "blocked" =>
              at[t] = "blocked" /\ owner[t] \notin {owner[u] : u \in ran}
  BY <1>5, StillAsleep
<1>15. TasksTypeOK'
  <2>1. allDone' \in BOOLEAN
    BY <1>5, Zenon DEF Lowered
  <2>2. state' \in [Tasks -> {"none", "waiting", "running", "ended", "cut"}]
    <3>1. state' = [t \in Tasks |-> state'[t]]
      BY DEF Over
    <3>2. \A t \in Tasks : state'[t] \in {"none", "waiting", "running", "ended", "cut"}
      BY <1>3, <1>4 DEF TasksTypeOK
    <3> QED BY <3>1, <3>2
  <2> QED BY <1>3, <1>5, <1>8, <1>9, <1>11, <1>13, <1>14, <2>1, <2>2 DEF TasksTypeOK
<1>16. CountersExact'
  <2>1. \A x \in Engines : objects'[x] = Cardinality({t \in CountedTasks : owner[t] = x})'
    BY <1>12 DEF OwnedBy
  <2>2. free' + Cardinality({t \in Tasks : state[t] = "running"})' = Slots
    BY <1>9 DEF Running
  <2> QED BY <1>8, <1>10, <1>12, <2>1, <2>2 DEF CountersExact
<1>17. NoLostWakeup'
  <2> SUFFICES ASSUME NEW t \in Tasks, state'[t] = "running", at'[t] = "blocked"
               PROVE names'[owner'[t]]["download"] >= Limit
    BY DEF NoLostWakeup
  <2>1. /\ at[t] = "blocked" /\ state[t] = "running" /\ owner[t] \in Engines
        /\ \A u \in ran : owner[u] # owner[t]
    BY <1>3, <1>4, <1>14 DEF TasksTypeOK
  <2>2. Of(owner[t], "download", ran) = {}
    BY <2>1 DEF Of
  <2>3. names[owner[t]]["download"] >= Limit /\ "download" \in Roles
    BY <1>3, <2>1 DEF NoLostWakeup, Roles, Work
  <2>4. names'[owner[t]]["download"] = names[owner[t]]["download"] - Cardinality({})
    BY <1>5, <2>1, <2>2, <2>3 DEF Lowered
  <2>5. names[owner[t]]["download"] \in Nat
    BY <1>3, <2>1, <2>3 DEF TasksTypeOK
  <2> QED BY <1>5, <2>3, <2>4, <2>5, FS_EmptySet
<1>18. Unused'
  <2>1. S \subseteq Tasks /\ \A t \in S : state[t] \in {"waiting", "running"}
    BY DEF LiveTasks
  <2> QED BY <1>1, <1>4, <1>5, <2>1 DEF IInv, Unused
<1>19. AsleepRan'
  BY <1>4, <1>14 DEF IInv, AsleepRan
<1> QED BY <1>15, <1>16, <1>17, <1>18, <1>19 DEF IInv, TasksInv

---------------------------------------------------------------------------
(* The steps.                                                              *)

\* Steps that neither create nor end a task and leave the loops alone.
LEMMA ControlKeeps ==
    ASSUME IInv, UNCHANGED <<tasks, at, free, active, names, objects, objectIdle>>,
           allDone' \in BOOLEAN, error' \in BOOLEAN,
           engineState' \in [Engines -> {"init", "running", "stopping", "closed"}],
           crawl' \in {"running", "cancelled", "stopped"}
    PROVE IInv'
<1>1. TasksTypeOK'
  BY DEF IInv, TasksInv, TasksTypeOK, tasks
<1>2. CountedTasks' = CountedTasks
  BY DEF CountedTasks, tasks
<1>3. CountersExact' /\ NoLostWakeup'
  BY <1>2 DEF IInv, TasksInv, CountersExact, NoLostWakeup, Of, tasks
<1>4. Unused' /\ AsleepRan'
  BY DEF IInv, Unused, AsleepRan, tasks
<1> QED BY <1>1, <1>3, <1>4 DEF IInv, TasksInv

\* The producer and the loops of an engine are created.
LEMMA StartEngineKeeps ==
    ASSUME IInv, NEW e \in Engines, StartEngine(e)
    PROVE IInv'
<1> DEFINE loops == [i \in 1 .. LoopNum |-> "loop"]
           rs == <<"producer">> \o loops
<1>1. loops \in Seq(Roles)
  BY TasksAssumption DEF Roles
<1>2. <<"producer">> \in Seq(Roles)
  BY DEF Roles
<1> HIDE DEF loops
<1>3. rs \in Seq(Roles)
  BY <1>1, <1>2, ConcatProperties
<1>4. /\ Create(e, rs) /\ at' = Woken({e}) /\ UNCHANGED <<error, crawl>>
      /\ engineState' \in [Engines -> {"init", "running", "stopping", "closed"}]
  BY DEF StartEngine, IInv, TasksInv, TasksTypeOK, loops
<1> HIDE DEF rs
<1> QED BY <1>3, <1>4, CreateKeeps

\* A waiter gets a slot: it is counted as before, and it is awake.
LEMMA StartKeeps ==
    ASSUME IInv, Start
    PROVE IInv'
<1>1. PICK t \in Waiters : state' = [state EXCEPT ![t] = "running"]
  BY DEF Start
<1>2. /\ free > 0 /\ free' = free - 1
      /\ UNCHANGED <<created, role, owner, at, counters, error, engineState, crawl>>
  BY DEF Start
<1>3. t \in Tasks /\ state[t] = "waiting" /\ TasksTypeOK /\ CountersExact /\ NoLostWakeup
  BY DEF Waiters, IInv, TasksInv
<1>4. \A u \in Tasks : state'[u] = IF u = t THEN "running" ELSE state[u]
  BY <1>1, <1>3 DEF TasksTypeOK
<1>5. CountedTasks' = CountedTasks /\ Running' = Running \cup {t} /\ t \notin Running
  BY <1>3, <1>4 DEF CountedTasks, Running
<1>6. free' + Cardinality(Running') = Slots /\ free' \in 0 .. Slots
  <2>1. IsFiniteSet(Running) /\ Cardinality(Running) \in Nat
    BY TasksFinite DEF Running
  <2>2. Cardinality(Running') = Cardinality(Running) + 1
    BY <1>5, <2>1, FS_AddElement
  <2>3. free + Cardinality(Running) = Slots /\ free \in 0 .. Slots /\ Slots \in Nat
    BY <1>3, TasksAssumption DEF CountersExact, Running, TasksTypeOK
  <2> QED BY ONLY <1>2, <2>1, <2>2, <2>3
<1>7. TasksTypeOK'
  BY <1>1, <1>2, <1>3, <1>6 DEF TasksTypeOK, counters
<1>8. CountersExact'
  BY <1>2, <1>3, <1>5, <1>6 DEF CountersExact, counters, Of, Running
<1>9. NoLostWakeup' /\ AsleepRan' /\ Unused'
  BY <1>2, <1>3, <1>4 DEF NoLostWakeup, AsleepRan, Unused, IInv, counters
<1> QED BY <1>7, <1>8, <1>9 DEF IInv, TasksInv

\* A running task creates one or ends; a loop counts, sleeps or takes a request.
LEMMA TaskStepKeeps ==
    ASSUME IInv, NEW t \in Tasks, TaskStep(t)
    PROVE IInv'
<1>1. TasksTypeOK /\ owner[t] \in Engines
  BY DEF IInv, TasksInv, TasksTypeOK
<1>2. CASE Spawn(t)
  <2>1. PICK r \in Child(role[t]) : Create(owner[t], <<r>>)
    BY <1>2 DEF Spawn
  <2>2. role[t] \in Roles
    BY <1>1 DEF TasksTypeOK
  <2>3. r \in Roles
    BY DEF Child, Roles, Work
  <2>4. <<r>> \in Seq(Roles)
    BY <2>3
  <2> QED BY <1>1, <1>2, <2>1, <2>4, CreateKeeps DEF Spawn, TasksTypeOK
<1>3. CASE Finish(t)
  BY <1>1, <1>3, OverKeeps DEF Finish, LiveTasks, TasksTypeOK
<1>4. CASE Fail(t)
  BY <1>1, <1>4, OverKeeps DEF Fail, LiveTasks, TasksTypeOK
<1>5. CASE LoopCheck(t)
  <2>1. PICK w : w = IF names[owner[t]]["download"] < Limit THEN "get" ELSE "blocked"
    OBVIOUS
  <2>2. /\ at' = [at EXCEPT ![t] = w] /\ state[t] = "running"
        /\ UNCHANGED <<tasks, free, counters, error, engineState, crawl>>
    BY <1>5, <2>1 DEF LoopCheck
  <2>3. \A u \in Tasks : at'[u] = IF u = t THEN w ELSE at[u]
    BY <1>1, <2>2 DEF TasksTypeOK
  <2>4. TasksTypeOK'
    BY <1>1, <2>1, <2>2 DEF TasksTypeOK, tasks, counters
  <2>5. CountersExact' /\ Unused'
    BY <2>2 DEF IInv, TasksInv, CountersExact, Unused, CountedTasks, Of, tasks,
           counters
  <2>6. AsleepRan'
    BY <2>2 DEF IInv, AsleepRan, tasks
  <2>7. NoLostWakeup'
    <3>1. names[owner[t]]["download"] \in Nat /\ Limit \in Nat
      BY <1>1, TasksAssumption DEF TasksTypeOK, Roles, Work
    <3>2. w = "blocked" => names[owner[t]]["download"] >= Limit
      BY <2>1, <3>1
    <3> QED BY <2>2, <3>2 DEF IInv, TasksInv, NoLostWakeup, tasks, counters
  <2> QED BY <2>4, <2>5, <2>6, <2>7 DEF IInv, TasksInv
<1>6. CASE LoopGet(t)
  <2>1. /\ at' = [Woken({owner[t]}) EXCEPT ![t] = "check"]
        /\ UNCHANGED <<error, engineState, crawl>>
    BY <1>6 DEF LoopGet
  <2>2. CASE Create(owner[t], <<"chain">>)
    <3>1. <<"chain">> \in Seq(Roles)
      BY DEF Roles, Work
    <3> QED BY <1>1, <2>1, <2>2, <3>1, CreateKeeps DEF TasksTypeOK
  <2>3. CASE UNCHANGED <<tasks, free, counters>>
    <3>1. /\ at' \in [Tasks -> {"check", "blocked", "get"}]
          /\ \A u \in Tasks : at'[u] = "blocked" => at[u] = "blocked"
      BY <2>1, StillAsleep
    <3>2. TasksTypeOK'
      BY <1>1, <2>1, <2>3, <3>1 DEF TasksTypeOK, tasks, counters
    <3>3. CountersExact' /\ Unused'
      BY <2>3 DEF IInv, TasksInv, CountersExact, Unused, CountedTasks, Of, tasks,
             counters
    <3>4. AsleepRan' /\ NoLostWakeup'
      BY <2>3, <3>1 DEF IInv, TasksInv, AsleepRan, NoLostWakeup, tasks, counters
    <3> QED BY <3>2, <3>3, <3>4 DEF IInv, TasksInv
  <2> QED BY <1>6, <2>2, <2>3 DEF LoopGet
<1> QED BY <1>2, <1>3, <1>4, <1>5, <1>6 DEF TaskStep

\* Initially there is no task.
LEMMA InitHolds ==
    ASSUME TasksInit
    PROVE IInv
<1>1. CountedTasks = {} /\ Running = {}
  BY DEF TasksInit, CountedTasks, Running
<1>2. owner \in [Tasks -> Engines]
  BY TasksAssumption DEF TasksInit
<1>3. names \in [Engines -> [Roles -> Nat]] /\ \A e \in Engines, r \in Roles : names[e][r] = 0
  BY DEF TasksInit
<1>4. created \in 0 .. MaxTasks /\ free \in 0 .. Slots /\ active \in Nat /\ Resident \in Nat
  BY TasksAssumption DEF TasksInit, Resident
<1>5. role \in [Tasks -> Roles]
  BY DEF TasksInit, Roles, Work
<1>6. TasksTypeOK
  BY <1>2, <1>4, <1>5 DEF TasksInit, TasksTypeOK
<1>7. CountersExact
  <2>1. \A e \in Engines, r \in Roles : Of(e, r, CountedTasks) = {} /\ {t \in CountedTasks : owner[t] = e} = {}
    BY <1>1 DEF Of
  <2>2. Cardinality({}) = 0
    BY FS_EmptySet
  <2>3. \A e \in Engines : {t \in CountedTasks : owner[t] = e} = {}
    BY <1>1
  <2>4. free + Cardinality({t \in Tasks : state[t] = "running"}) = Slots
    <3>1. {t \in Tasks : state[t] = "running"} = {} /\ free = Slots /\ Slots \in Nat
      BY <1>1, TasksAssumption DEF TasksInit, Running
    <3> QED BY <2>2, <3>1
  <2>5. active = Resident + Cardinality(CountedTasks)
    BY <1>1, <1>4, <2>2 DEF TasksInit
  <2> QED BY <2>1, <2>2, <2>3, <2>4, <2>5 DEF TasksInit, CountersExact
<1>8. NoLostWakeup /\ Unused /\ AsleepRan
  BY DEF TasksInit, NoLostWakeup, Unused, AsleepRan
<1> QED BY <1>6, <1>7, <1>8 DEF IInv, TasksInv

\* Every step keeps the inductive invariant.
THEOREM TasksInductive == IInv /\ [TasksNext]_tasksVars => IInv'
<1> SUFFICES ASSUME IInv, [TasksNext]_tasksVars PROVE IInv'
  OBVIOUS
<1>1. TasksTypeOK
  BY DEF IInv, TasksInv
<1>2. ASSUME NEW e \in Engines, Stop(e) PROVE IInv'
  <2>1. Of(e, "loop", LiveTasks) \cup Of(e, "producer", LiveTasks) \subseteq LiveTasks
    BY DEF Of
  <2> QED BY <1>1, <1>2, <2>1, OverKeeps DEF Stop, TasksTypeOK
<1>3. ASSUME NEW e \in Engines, Close(e) PROVE IInv'
  BY <1>1, <1>3, ControlKeeps DEF Close, TasksTypeOK, counters
<1>4. CASE CancelAll
  BY <1>1, <1>4, OverKeeps DEF CancelAll, TasksTypeOK
<1>5. CASE StopCrawl
  BY <1>1, <1>5, ControlKeeps DEF StopCrawl, TasksTypeOK
<1>6. CASE UNCHANGED tasksVars
  BY <1>1, <1>6, ControlKeeps DEF tasksVars, TasksTypeOK, counters
<1> QED BY <1>2, <1>3, <1>4, <1>5, <1>6, StartEngineKeeps, StartKeeps,
       TaskStepKeeps DEF TasksNext, CrawlOver

\* Every counter of the TaskManager is the number of tasks it stands for, the
\* slots of the semaphore are shared out exactly and no loop sleeps below the
\* limit, for any engines, bounds and order of creations, ends and cancels.
THEOREM TasksHold == TasksSpec => []TasksInv
<1>1. IInv => TasksInv
  BY DEF IInv
<1>2. TasksInit => IInv
  BY InitHolds
<1> QED BY <1>1, <1>2, TasksInductive, PTL DEF TasksSpec
=============================================================================
