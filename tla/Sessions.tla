------------------------------ MODULE Sessions ------------------------------
(***************************************************************************)
(* SessionManager: reference counts, end flags, the close queue and the    *)
(* reaper that closes ended sessions in the background, session groups,    *)
(* and the freeze / snapshot / close_all shutdown, together with the users *)
(* of sessions: requests that are acquired by UpdateRequest, fetched by    *)
(* fetch_http and released, and session_end signals and items.             *)
(*                                                                         *)
(* A wrapper is <<id, k>>, the k-th SessionWrapper created under an id.    *)
(* Everything runs on one event loop; a step below is what happens between *)
(* two suspensions.  Cookies, WebSockets and rate limits are left out, and *)
(* so is the order of the members of a group: they are queued for the      *)
(* reaper in any order.                                                    *)
(***************************************************************************)
EXTENDS Integers, Sequences, FiniteSets

CONSTANTS
    Ids,          \* session ids, Default among them
    Default,      \* _default_session_id, what an empty session_id stands for
    Groups,       \* group ids
    GroupMembers, \* per group: the session ids register_sessions_batch is given
    Users,        \* requests and session_end signals
    ReuseEnded,   \* a spider may go on using a session it has ended
    MaxRefetch,   \* bound: re-schedulings of a fetched request; with 0, download
                  \* interceptors let every request pass
    MaxWrappers   \* bound: wrappers created under one id

ASSUME SessionsAssumption ==
    /\ Default \in Ids /\ Ids \cap Groups = {}
    /\ GroupMembers \in [Groups -> SUBSET (Ids \ {Default})]
    /\ IsFiniteSet(Ids) /\ IsFiniteSet(Users)
    /\ ReuseEnded \in BOOLEAN
    /\ MaxRefetch \in Nat /\ MaxWrappers \in Nat

NoWrapper == 0
Idle == <<>>

VARIABLES
    current,      \* _sessions: the wrapper number registered under each id
    made,         \* wrappers created under each id so far
    closed,       \* wrappers whose close() has begun
    members,      \* _group_sessions of registered groups
    registered,   \* groups in the order of the keys of _group_sessions
    refs,         \* _ref_counts, of ids and of group ids
    endFlags,     \* _end_flags
    closeQueue,   \* _close_queue
    pendingClose, \* _pending_close_set
    reaper,       \* the wrapper the reaper is closing, or Idle
    user,         \* per user: how far it got (UserStages)
    name,         \* per user: the session or group id it was given
    handle,       \* per user: the wrapper its fetch works with
    refetched,    \* per user: re-schedulings so far
    phase,        \* "running", "frozen", "persisted", "closed"
    snapshot      \* ids persist_all wrote

table == <<current, made, closed>>
groupVars == <<members, registered>>
closing == <<endFlags, closeQueue, pendingClose>>
userVars == <<user, name, handle, refetched>>
shutdown == <<phase, snapshot>>
vars == <<table, groupVars, refs, closing, reaper, userVars, shutdown>>

Names == Ids \cup Groups
RangeOf(q) == {q[i] : i \in 1 .. Len(q)}

\* acquired: UpdateRequest counted the request; using: fetch_http works with its
\* wrapper; ending: a session_end signal on its way to the engine; answered: an
\* interceptor answered in place of the downloader.
UserStages == {"new", "acquired", "using", "ending", "answered", "done"}

Init ==
    /\ current = [s \in Ids |-> NoWrapper]
    /\ made = [s \in Ids |-> 0]
    /\ closed = {}
    /\ members = [g \in Groups |-> {}] /\ registered = <<>>
    /\ refs = [n \in Names |-> 0]
    /\ endFlags = {} /\ closeQueue = <<>> /\ pendingClose = {}
    /\ reaper = Idle
    /\ user = [u \in Users |-> "new"]
    /\ name = [u \in Users |-> Default]
    /\ handle = [u \in Users |-> <<Default, NoWrapper>>]
    /\ refetched = [u \in Users |-> 0]
    /\ phase = "running" /\ snapshot = {}

-----------------------------------------------------------------------------
Live(s) == current[s] # NoWrapper

\* get_or_create_session: a group name stands for one of its members.
IsGroup(n) == n \in RangeOf(registered)
Resolve(n) == IF IsGroup(n) THEN members[n] ELSE {n} \cap Ids

\* A new SessionWrapper for every id of S.
CreateAll(S) ==
    /\ \A s \in S : made[s] < MaxWrappers
    /\ made' = [s \in Ids |-> IF s \in S THEN made[s] + 1 ELSE made[s]]
    /\ current' = [s \in Ids |-> IF s \in S THEN made[s] + 1 ELSE current[s]]
    /\ UNCHANGED closed

\* Mutant: a registered wrapper is replaced instead of returned.
CreateAnyway(s) == CreateAll({s})

GetOrCreate(s) == CreateAll({s} \ {t \in Ids : Live(t)})

\* register_sessions_batch: ids that exist already are skipped.
RegisterGroup(g) ==
    LET added == {s \in GroupMembers[g] : ~Live(s)}
    IN  /\ phase = "running" /\ ~IsGroup(g)
        /\ CreateAll(added)
        /\ members' = [members EXCEPT ![g] = added]
        /\ registered' = Append(registered, g)
        /\ UNCHANGED <<refs, closing, reaper, userVars, shutdown>>

\* acquire and release count under the given name, group names included; the
\* default session is not counted.
Counted(n) == n # Default

\* Mutant: the count is set, not incremented.
AcquiredOnce(n) == [refs EXCEPT ![n] = IF Counted(n) THEN 1 ELSE @]

Acquired(n) == [refs EXCEPT ![n] = IF Counted(n) THEN @ + 1 ELSE @]

\* Mutant: the last user of an ended session does not queue it.
ReleaseOnly(n) ==
    /\ refs' = [refs EXCEPT ![n] = IF Counted(n) THEN @ - 1 ELSE @]
    /\ UNCHANGED closing

\* release: the last user of an ended session queues it for the reaper.
Release(n) ==
    LET due == /\ Counted(n) /\ n \in endFlags
               /\ refs[n] - 1 <= 0 /\ n \notin pendingClose
    IN  /\ refs' = [refs EXCEPT ![n] = IF Counted(n) THEN @ - 1 ELSE @]
        /\ closeQueue' = IF due THEN Append(closeQueue, n) ELSE closeQueue
        /\ pendingClose' = IF due THEN pendingClose \cup {n} ELSE pendingClose
        /\ UNCHANGED endFlags

Usable(n) ==
    /\ n \in Ids \/ IsGroup(n)
    /\ ReuseEnded \/ (n \notin endFlags /\ Resolve(n) \cap endFlags = {})

\* UpdateRequest.process_spider_output: a request or a CloseSignal is counted and
\* its wrapper looked up (a group without members raises and ends the run).
Acquire(u, n, next) ==
    /\ phase = "running" /\ user[u] = "new" /\ Usable(n)
    /\ refs' = Acquired(n)
    /\ \E s \in Resolve(n) : GetOrCreate(s)
    /\ user' = [user EXCEPT ![u] = next]
    /\ name' = [name EXCEPT ![u] = n]
    /\ UNCHANGED <<groupVars, closing, reaper, handle, refetched, shutdown>>

\* The request is dropped by the domain filter, robots.txt or the dupefilter, or
\* its fetch fails because the group has no member left.
Drop(u) ==
    /\ user[u] = "acquired"
    /\ Release(name[u])
    /\ user' = [user EXCEPT ![u] = "done"]
    /\ UNCHANGED <<table, groupVars, reaper, name, handle, refetched, shutdown>>

\* fetch_http looks the wrapper up again and works with it ...
Fetch(u) ==
    /\ user[u] = "acquired"
    /\ \E s \in Resolve(name[u]) :
         /\ GetOrCreate(s)
         /\ handle' = [handle EXCEPT ![u] = <<s, current'[s]>>]
    /\ user' = [user EXCEPT ![u] = "using"]
    /\ UNCHANGED <<groupVars, refs, closing, reaper, name, refetched, shutdown>>

\* ... and releases the name when it is done ("finally").  During shutdown this
\* is also how a cancelled fetch ends.
FinishFetch(u) ==
    /\ user[u] = "using"
    /\ Release(name[u])
    /\ user' = [user EXCEPT ![u] = "done"]
    /\ UNCHANGED <<table, groupVars, reaper, name, handle, refetched, shutdown>>

\* An interceptor re-schedules the request: it is not acquired a second time.
Refetch(u) ==
    /\ phase = "running" /\ user[u] = "using"
    /\ refetched[u] < MaxRefetch
    /\ Release(name[u])
    /\ user' = [user EXCEPT ![u] = "acquired"]
    /\ refetched' = [refetched EXCEPT ![u] = @ + 1]
    /\ UNCHANGED <<table, groupVars, reaper, name, handle, shutdown>>

\* A download interceptor answers in place of the downloader: the request is
\* never fetched, so nobody releases what UpdateRequest acquired.
Answer(u) ==
    /\ user[u] = "acquired" /\ MaxRefetch > 0
    /\ user' = [user EXCEPT ![u] = "answered"]
    /\ UNCHANGED <<table, groupVars, refs, closing, reaper, name, handle, refetched, shutdown>>

\* mark_end: a group ends its members, a single id leaves the first group that
\* lists it.
EndTargets(n) == IF IsGroup(n) THEN members[n] ELSE {n}

\* Mutant: ids are queued while they are in use.
NowDueInUse(n) == {s \in EndTargets(n) : s \notin pendingClose}

\* mark_end_single queues an ended id that nobody uses and that is not queued.
NowDue(n) == {s \in EndTargets(n) : refs[s] <= 0 /\ s \notin pendingClose}

\* The sequences that list each member of S once.
Orders(S) ==
    {q \in [1 .. Cardinality(S) -> S] : \A s \in S : \E i \in 1 .. Cardinality(S) : q[i] = s}

FirstGroup(n, i) ==
    /\ i \in DOMAIN registered /\ n \in members[registered[i]]
    /\ \A j \in 1 .. i - 1 : n \notin members[registered[j]]
MembersAfterEnd(n) ==
    [g \in Groups |->
        IF ~IsGroup(n) /\ \E i \in DOMAIN registered : registered[i] = g /\ FirstGroup(n, i)
        THEN members[g] \ {n}
        ELSE members[g]]

\* hooks.session.mark_end(item["session_id"]), from a pipeline.
MarkEnd(n) ==
    /\ phase = "running" /\ Counted(n) /\ (n \in Ids \/ IsGroup(n))
    /\ ReuseEnded \/ ~(EndTargets(n) \subseteq endFlags)
    /\ endFlags' = endFlags \cup EndTargets(n)
    /\ \E marked \in Orders(NowDue(n)) : closeQueue' = closeQueue \o marked
    /\ pendingClose' = pendingClose \cup NowDue(n)
    /\ members' = MembersAfterEnd(n)
    /\ UNCHANGED <<table, registered, refs, reaper, userVars, shutdown>>

\* manager_spiderinterceptors_result SESSION: mark_end, then release the
\* reference the signal itself holds.
CloseSignalEnd(u) ==
    LET n == name[u]
        targets == IF Counted(n) THEN EndTargets(n) ELSE {}
        marked == IF Counted(n) THEN NowDue(n) ELSE {}
        flags == endFlags \cup targets
        last == /\ Counted(n) /\ n \in flags /\ refs[n] - 1 <= 0
                /\ n \notin pendingClose \cup marked
    IN  /\ user[u] = "ending"
        /\ endFlags' = flags
        /\ refs' = [refs EXCEPT ![n] = IF Counted(n) THEN @ - 1 ELSE @]
        /\ \E due \in Orders(marked) :
              closeQueue' = closeQueue \o due \o (IF last THEN <<n>> ELSE <<>>)
        /\ pendingClose' = pendingClose \cup marked \cup (IF last THEN {n} ELSE {})
        /\ members' = IF Counted(n) THEN MembersAfterEnd(n) ELSE members
        /\ user' = [user EXCEPT ![u] = "done"]
        /\ UNCHANGED <<table, registered, reaper, name, handle, refetched, shutdown>>

\* Mutant: a frozen manager goes on closing.
SkipsUnknown(s) == s = Default \/ ~Live(s)

\* _reaper_loop takes an id and _safe_close removes its wrapper from the table
\* without looking at the counts again; a frozen manager keeps the wrapper.  No
\* WebSocket is open, so the wrapper's own close() begins in the same step.
SafeCloseSkips(s) == phase # "running" \/ s = Default \/ ~Live(s)

ReaperTake ==
    LET s == Head(closeQueue)
    IN  /\ phase # "closed" /\ reaper = Idle /\ closeQueue # <<>>
        /\ closeQueue' = Tail(closeQueue)
        /\ IF SafeCloseSkips(s)
           THEN /\ pendingClose' = pendingClose \ {s}
                /\ UNCHANGED <<table, reaper>>
           ELSE /\ reaper' = <<s, current[s]>>
                /\ closed' = closed \cup {<<s, current[s]>>}
                /\ current' = [current EXCEPT ![s] = NoWrapper]
                /\ UNCHANGED <<made, pendingClose>>
        /\ UNCHANGED <<groupVars, refs, endFlags, userVars, shutdown>>

\* The awaited close returns; the id may be queued again from now on.
ReaperDone ==
    /\ phase # "closed" /\ reaper # Idle
    /\ pendingClose' = pendingClose \ {reaper[1]}
    /\ reaper' = Idle
    /\ UNCHANGED <<table, groupVars, refs, endFlags, closeQueue, userVars, shutdown>>

-----------------------------------------------------------------------------
\* Crawler._prepare_shutdown: freeze, then cancel every task; a cancelled fetch
\* releases in its finally clause, other users just end.
Freeze ==
    /\ phase = "running"
    /\ phase' = "frozen"
    /\ user' = [u \in Users |-> IF user[u] = "using" THEN "using" ELSE "done"]
    /\ UNCHANGED <<table, groupVars, refs, closing, reaper, name, handle, refetched, snapshot>>

\* _persist_scheduler_sessions after cancel_all.
Persist ==
    /\ phase = "frozen" /\ \A u \in Users : user[u] = "done"
    /\ phase' = "persisted"
    /\ snapshot' = {s \in Ids : Live(s)}
    /\ UNCHANGED <<table, groupVars, refs, closing, reaper, userVars>>

\* _safe_close of every registered session; it returns early for the default.
ClosedByCloseAll == {<<s, current[s]>> : s \in {t \in Ids \ {Default} : Live(t)}}

\* close_all: cancel the reaper, close what is registered, forget everything.
CloseAll ==
    /\ phase = "persisted"
    /\ phase' = "closed"
    /\ reaper' = Idle
    /\ closed' = closed \cup ClosedByCloseAll
    /\ current' = [s \in Ids |-> NoWrapper]
    /\ refs' = [n \in Names |-> 0]
    /\ endFlags' = {} /\ pendingClose' = {} /\ closeQueue' = <<>>
    /\ UNCHANGED <<made, groupVars, userVars, snapshot>>

\* Nothing happens after close_all.
Terminated == phase = "closed" /\ UNCHANGED vars

UserStep(u) == Drop(u) \/ Fetch(u) \/ FinishFetch(u) \/ CloseSignalEnd(u)

Next ==
    \/ \E g \in Groups : RegisterGroup(g)
    \/ \E u \in Users, n \in Names : Acquire(u, n, "acquired") \/ Acquire(u, n, "ending")
    \/ \E u \in Users : UserStep(u) \/ Refetch(u) \/ Answer(u)
    \/ \E n \in Names : MarkEnd(n)
    \/ ReaperTake \/ ReaperDone
    \/ Freeze \/ Persist \/ CloseAll
    \/ Terminated

Spec == Init /\ [][Next]_vars

\* The event loop runs the reaper and every task; a fetch has a deadline and so
\* ends.  Nobody is forced to start, to end a session or to shut down.
Fairness ==
    /\ \A u \in Users : WF_vars(UserStep(u)) /\ WF_vars(FinishFetch(u))
    /\ WF_vars(ReaperTake) /\ WF_vars(ReaperDone)
    /\ WF_vars(Persist) /\ WF_vars(CloseAll)

FairSpec == Spec /\ Fairness

-----------------------------------------------------------------------------
Wrappers == {<<s, k>> : s \in Ids, k \in 0 .. MaxWrappers}

\* Types of all variables.
TypeOK ==
    /\ made \in [Ids -> 0 .. MaxWrappers]
    /\ current \in [Ids -> 0 .. MaxWrappers]
    /\ closed \in SUBSET Wrappers
    /\ members \in [Groups -> SUBSET Ids] /\ registered \in Seq(Groups)
    /\ refs \in [Names -> Int]
    /\ endFlags \in SUBSET Ids
    /\ closeQueue \in Seq(Ids) /\ pendingClose \in SUBSET Ids
    /\ reaper \in Wrappers \cup {Idle}
    /\ user \in [Users -> UserStages]
    /\ name \in [Users -> Names] /\ handle \in [Users -> Wrappers]
    /\ refetched \in [Users -> 0 .. MaxRefetch]
    /\ phase \in {"running", "frozen", "persisted", "closed"}
    /\ snapshot \in SUBSET Ids

\* "Reference counting: Ensures sessions are not closed while still in use": the
\* wrapper a fetch works with stays open until the fetch has released it.
NotClosedInUse == \A u \in Users : user[u] = "using" => handle[u] \notin closed

\* Who acquired a name and has not released it; each re-scheduling of a request
\* releases once more than it acquired.
Holds(u, n) == name[u] = n /\ user[u] \in {"acquired", "using", "ending"}
Holders(n) == {u \in Users : Holds(u, n) \/ (name[u] = n /\ user[u] = "answered")}
Overdrawn(n) ==
    {again \in Users \X (1 .. MaxRefetch) :
        name[again[1]] = n /\ again[2] <= refetched[again[1]]}

\* acquire and release balance over every path of a request: while the crawl runs
\* a count is off only by the re-scheduled and the answered requests.
CountsExact ==
    phase = "running" => \A n \in Names \ {Default} :
        refs[n] = Cardinality(Holders(n)) - Cardinality(Overdrawn(n))

\* The dedup set mirrors the queue and the close in progress: an id is queued at
\* most once, and never stays behind in the set when nothing will close it.
QueueMirrored ==
    /\ pendingClose = RangeOf(closeQueue) \cup (IF reaper = Idle THEN {} ELSE {reaper[1]})
    /\ Cardinality(pendingClose) = Len(closeQueue) + (IF reaper = Idle THEN 0 ELSE 1)

\* The bookkeeping: types, reference counts and the dedup set of the reaper.
SessionsInv == TypeOK /\ CountsExact /\ QueueMirrored

\* A registered wrapper is open: nobody is ever handed a closed one.
RegisteredOpen == \A s \in Ids : Live(s) => <<s, current[s]>> \notin closed

\* Freezing before the tasks are cancelled keeps every session for the snapshot:
\* none is removed from the table between freeze and persist.
FrozenKeepsSessions ==
    [][phase = "frozen" => \A s \in Ids : Live(s) => current'[s] = current[s]]_vars

\* "Uses a background task (_reaper_loop) to close sessions when no longer
\* needed": an ended session that nobody works with any more is closed.
EndedUnusedCloses ==
    \A s \in Ids :
        (/\ phase = "running" /\ s \in endFlags /\ Live(s)
         /\ \A u \in Users : ~Holds(u, s))
        ~> (phase # "running" \/ ~Live(s))

\* Shutdown closes every wrapper ever created, the ones the table had forgotten
\* included, except those of the default session: _safe_close skips it.
NoWrapperLeaked ==
    phase = "closed" =>
        \A s \in Ids \ {Default} : \A k \in 1 .. made[s] : <<s, k>> \in closed

\* No wrapper is handed out closed, and none is left open at the end.
WrappersOwned == RegisteredOpen /\ NoWrapperLeaked
=============================================================================
