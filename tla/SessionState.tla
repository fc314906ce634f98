----------------------------- MODULE SessionState -----------------------------
(***************************************************************************)
(* The state of one logical session that outlives a worker process: its    *)
(* cookie jar and its Client Hints.  With SCHEDULER_PERSIST_SESSIONS the   *)
(* scheduler writes a snapshot to a Redis hash before a request is pushed  *)
(* (RedisScheduler._request_to_bytes), and a worker that takes a request   *)
(* from the queue restores the snapshot once (restore_session).            *)
(*                                                                         *)
(* One worker process at a time, which may crash, shut down and be started *)
(* again.  Its engine runs MAX_SCHEDULER_LOOP_NUM scheduler loops, `Loops`  *)
(* here, and each restores the session of what it takes; requests are put  *)
(* by concurrent tasks, and each saves it.  No lock orders these, so a     *)
(* snapshot may be overtaken between its making and its taking effect.     *)
(***************************************************************************)
EXTENDS Naturals, FiniteSets

CONSTANTS Visits,      \* requests of the session
          Tokens,      \* cookies a response or a request may add
          Hints,       \* high-entropy Client Hints of the one origin
          Loops,       \* MAX_SCHEDULER_LOOP_NUM, loops that restore the session
          StartsOver,  \* may spider.start use the session after a restart?
          MaxRestarts, \* bound: processes that end in a behaviour
          NoState      \* the hash has no such field

ASSUME SessionStateAssumption ==
    /\ IsFiniteSet(Visits) /\ Loops \in Nat \ {0}
    /\ StartsOver \in BOOLEAN /\ MaxRestarts \in Nat

VARIABLES
    present,   \* the SessionWrapper exists in this process
    jar,       \* its cookies
    accepted,  \* hints the origin asked for (Accept-CH)
    known,     \* hints a value is known for
    marked,    \* the field is in _restored_session_fields
    stored,    \* the snapshot in Redis
    visit,     \* visit[r]: where request r is
    payload,   \* payload[r]: snapshot travelling for r
    carries,   \* carries[r]: cookies the session had when r was put, but for
               \* those a snapshot without them has replaced since
    unresolved,\* unresolved[r]: hints response_intercept still looks at
    restarts   \* processes that ended so far

sessionStateVars == <<present, jar, accepted, known, marked, stored, visit,
                      payload, carries, unresolved, restarts>>

wrapperVars == <<present, jar, accepted, known>>

Snapshots == [jar : SUBSET Tokens, accepted : SUBSET Hints,
              known : SUBSET Hints]

ASSUME NoStateAssumption == NoState \notin Snapshots

Stations == {"new", "put", "saving", "saved", "pushing", "queued", "asking",
             "answered", "leased", "sent", "resolving", "done", "lost"}

SessionStateInit ==
    /\ present = FALSE /\ jar = {} /\ accepted = {} /\ known = {}
    /\ marked = FALSE /\ stored = NoState
    /\ visit = [r \in Visits |-> "new"]
    /\ payload = [r \in Visits |-> NoState]
    /\ carries = [r \in Visits |-> {}]
    /\ unresolved = [r \in Visits |-> {}]
    /\ restarts = 0

(* A snapshot that lacks the cookies `gone` replaces one, or a jar, that had *)
(* them.                                                                   *)
Taken(gone) == carries' = [q \in Visits |-> carries[q] \ gone]
JarOf(s) == IF s = NoState THEN {} ELSE s.jar

Turn(r, from, to) == visit[r] = from /\ visit' = [visit EXCEPT ![r] = to]

(* The snapshot of both parts: every cookie of the jar with its attributes, *)
(* and the hints of every origin (the warnings given stay behind).         *)
ExportCookies == jar
ExportHints == [accepted |-> accepted, known |-> known]
Export == [jar |-> ExportCookies, accepted |-> ExportHints.accepted,
           known |-> ExportHints.known]

(* Both are replaced: the jar is cleared first, the origins are rebuilt.   *)
ImportCookies(s) == jar' = s.jar
ImportHints(s) == accepted' = s.accepted /\ known' = s.known
Import(s) == present' = TRUE /\ ImportCookies(s) /\ ImportHints(s)

-----------------------------------------------------------------------------
(* The spider yields a request of the session, from start or from the      *)
(* callback of an earlier one; the request's cookies go into the jar.      *)
YieldVisit(r) ==
    /\ \/ StartsOver \/ stored = NoState
       \/ \E q \in Visits : visit[q] = "done"
    /\ Turn(r, "new", "put")
    /\ present' = TRUE
    /\ \E new \in SUBSET Tokens : Cardinality(new) <= 1 /\ jar' = jar \cup new
    /\ UNCHANGED <<accepted, known, marked, stored, payload, carries,
                   unresolved, restarts>>

(* Defect: the request is pushed without the snapshot.                     *)
SaveNothing(r) ==
    /\ Turn(r, "put", "pushing")
    /\ carries' = [carries EXCEPT ![r] = jar]
    /\ UNCHANGED <<wrapperVars, marked, stored, payload, unresolved, restarts>>

(* persist_session: the state is exported, hset is under way.  Those that  *)
(* overlap may reach Redis in any order, an older snapshot last.           *)
Save(r) ==
    /\ Turn(r, "put", "saving")
    /\ payload' = [payload EXCEPT ![r] = Export]
    /\ carries' = [carries EXCEPT ![r] = jar]
    /\ UNCHANGED <<wrapperVars, marked, stored, unresolved, restarts>>

(* hset takes effect in Redis; its reply puts the field among the restored *)
(* ones and the request is pushed.                                         *)
Hset(r) ==
    /\ Turn(r, "saving", "saved")
    /\ stored' = payload[r]
    /\ Taken(JarOf(stored) \ JarOf(payload[r]))
    /\ payload' = [payload EXCEPT ![r] = NoState]
    /\ UNCHANGED <<wrapperVars, marked, unresolved, restarts>>

SaveReturns(r) ==
    /\ Turn(r, "saved", "pushing")
    /\ marked' = TRUE
    /\ UNCHANGED <<wrapperVars, stored, payload, carries, unresolved, restarts>>

PushVisit(r) ==
    /\ Turn(r, "pushing", "queued")
    /\ UNCHANGED <<wrapperVars, marked, stored, payload, carries, unresolved,
                   restarts>>

(* get, in a loop that is not restoring: a request is popped;              *)
(* restore_session returns at once when the field is marked and otherwise  *)
(* asks Redis.                                                             *)
Dequeue(r) ==
    /\ Cardinality({q \in Visits : visit[q] \in {"asking", "answered"}}) < Loops
    /\ Turn(r, "queued", IF marked THEN "leased" ELSE "asking")
    /\ UNCHANGED <<wrapperVars, marked, stored, payload, carries, unresolved,
                   restarts>>

Hget(r) ==
    /\ Turn(r, "asking", "answered")
    /\ payload' = [payload EXCEPT ![r] = stored]
    /\ UNCHANGED <<wrapperVars, marked, stored, carries, unresolved, restarts>>

(* The reply is applied, whatever happened to the wrapper meanwhile.       *)
Restore(r) ==
    /\ Turn(r, "answered", "leased")
    /\ marked' = TRUE
    /\ IF payload[r] = NoState THEN UNCHANGED <<wrapperVars, carries>>
       ELSE Import(payload[r]) /\ Taken(jar \ JarOf(payload[r]))
    /\ payload' = [payload EXCEPT ![r] = NoState]
    /\ UNCHANGED <<stored, unresolved, restarts>>

-----------------------------------------------------------------------------
(* request_intercept creates the wrapper if need be and adds the headers   *)
(* of accepted hints whose value is known; the request is on its way.      *)
SendVisit(r) ==
    /\ Turn(r, "leased", "sent")
    /\ present' = TRUE
    /\ UNCHANGED <<jar, accepted, known, marked, stored, payload, carries,
                   unresolved, restarts>>

(* What ClientHintsState does to the hints [accepted, known] of an origin:  *)
(* Clear-Site-Data drops both, Accept-CH replaces the names, and a resolver *)
(* adds a value, which get_value finds from then on.                       *)
ClearOrigin(hints) == [accepted |-> {}, known |-> {}]
ReplaceRequested(hints, names) == [hints EXCEPT !.accepted = names]
SetRuntimeValue(hints, h) == [hints EXCEPT !.known = @ \cup {h}]
HasValue(hints, h) == h \in hints.known

(* The response sets a cookie; response_intercept applies Clear-Site-Data  *)
(* and then Accept-CH, and turns to the names it asks for.                 *)
Respond(r) ==
    /\ \E new \in SUBSET Tokens : Cardinality(new) <= 1 /\ jar' = jar \cup new
    /\ \E clear \in BOOLEAN, asks \in BOOLEAN, names \in SUBSET Hints :
          LET kept == IF clear THEN ClearOrigin(ExportHints) ELSE ExportHints
              hints == IF asks THEN ReplaceRequested(kept, names) ELSE kept
          IN /\ ImportHints(hints)
             /\ unresolved' = [unresolved EXCEPT ![r] =
                                  IF asks THEN names ELSE {}]
    /\ Turn(r, "sent", "resolving")
    /\ UNCHANGED <<present, marked, stored, payload, carries, restarts>>

(* Spider.resolve_client_hint gave a value for h, which had none, or gave   *)
(* none (a warning); meanwhile another response may have changed the hints. *)
Resolve(r, h) ==
    /\ visit[r] = "resolving" /\ h \in unresolved[r]
    /\ unresolved' = [unresolved EXCEPT ![r] = @ \ {h}]
    /\ \/ UNCHANGED <<accepted, known>>
       \/ /\ ~ HasValue(ExportHints, h)
          /\ ImportHints(SetRuntimeValue(ExportHints, h))
    /\ UNCHANGED <<present, jar, marked, stored, visit, payload, carries, restarts>>

(* The callback runs: the resolver is done, or raised.                     *)
CallBack(r) ==
    /\ Turn(r, "resolving", "done")
    /\ unresolved' = [unresolved EXCEPT ![r] = {}]
    /\ UNCHANGED <<wrapperVars, marked, stored, payload, carries, restarts>>

-----------------------------------------------------------------------------
(* The process ends.  A shutdown writes a last snapshot of the sessions    *)
(* that exist (persist_all) and returns leased requests to the queue; a    *)
(* crash does neither.                                                     *)
Leave(back, last) ==
    /\ restarts < MaxRestarts
    /\ restarts' = restarts + 1
    /\ stored' = last /\ Taken(JarOf(stored) \ JarOf(last))
    /\ visit' = [r \in Visits |->
                    IF visit[r] \in {"new", "queued", "lost"} THEN visit[r]
                    ELSE IF visit[r] \in back THEN "queued" ELSE "lost"]
    /\ present' = FALSE /\ jar' = {} /\ accepted' = {} /\ known' = {}
    /\ marked' = FALSE
    /\ payload' = [r \in Visits |-> NoState]
    /\ unresolved' = [r \in Visits |-> {}]

Crash == Leave({}, stored)

ShutDown == Leave({"leased", "sent", "resolving"},
                  IF present THEN Export ELSE stored)

SessionStateNext ==
    \/ Crash \/ ShutDown
    \/ \E r \in Visits :
          \/ YieldVisit(r) \/ Save(r) \/ Hset(r) \/ SaveReturns(r)
          \/ PushVisit(r) \/ Dequeue(r) \/ Hget(r) \/ Restore(r)
          \/ SendVisit(r) \/ Respond(r) \/ CallBack(r)
          \/ \E h \in Hints : Resolve(r, h)

SessionStateSpec == SessionStateInit /\ [][SessionStateNext]_sessionStateVars

-----------------------------------------------------------------------------
SessionStateTypeOK ==
    /\ present \in BOOLEAN /\ marked \in BOOLEAN
    /\ Export \in Snapshots
    /\ stored \in Snapshots \cup {NoState}
    /\ visit \in [Visits -> Stations]
    /\ payload \in [Visits -> Snapshots \cup {NoState}]
    /\ carries \in [Visits -> SUBSET Tokens]
    /\ unresolved \in [Visits -> SUBSET Hints]
    /\ restarts \in 0 .. MaxRestarts

(* A request about to be sent finds every cookie the session had when it   *)
(* was put, in whatever process: the snapshot is written before the push   *)
(* and restored before the lease (_request_to_bytes, get), across crashes. *)
(* Only a snapshot that had no such cookie can take it away: an older one  *)
(* that arrives last, from an overtaken hset or restore, or one of a       *)
(* process that began the session anew.                                    *)
CarriedKnown ==
    /\ SessionStateTypeOK
    /\ \A r \in Visits : visit[r] = "leased" => carries[r] \subseteq jar

(* "A field is loaded only once; current in-process cookies stay           *)
(* authoritative": within a process no restore takes back a cookie.        *)
NeverForgets ==
    [][restarts' = restarts => jar \subseteq jar']_sessionStateVars
=============================================================================
