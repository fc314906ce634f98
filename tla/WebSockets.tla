----------------------------- MODULE WebSockets -----------------------------
(***************************************************************************)
(* WebSocket connections of one session to one URL: WebSocketEntry and     *)
(* WebSocketPool (core/sessions.py), the listener task of the Downloader   *)
(* (core/downloader/fetch.py), and the Engine's connect, send and end      *)
(* requests (core/engine.py).                                              *)
(*                                                                         *)
(* A connect request c makes at most one entry, one listener task and one  *)
(* socket, all three named c.  A step is what runs between two awaits.     *)
(* An entry is closed by its listener, by the task of its connect request  *)
(* ("owner") and by the reaper when the session ends; close() first joins  *)
(* the listener it cancels and then closes the socket it found.            *)
(***************************************************************************)
EXTENDS Integers, FiniteSets

CONSTANTS
    Connects,   \* connect requests, numbered 1, 2, ...
    Sends       \* sends on an existing connection, by websocket_id

ASSUME WebSocketsAssumption ==
    /\ Connects \subseteq Nat \ {0} /\ IsFiniteSet(Connects)
    /\ IsFiniteSet(Sends)

VARIABLES
    pool,      \* the entry _pool holds for the URL, 0 for none
    entry,     \* per entry: task, websocket, ref_count, marked_end, events
    opened,    \* sockets that are connected
    listener,  \* where each listener task is
    cancelled, \* listener tasks that were cancelled
    conn,      \* where each connect request is, and the entry it was given
    closer,    \* per closer: the entry, phase, task and socket of its close()
    sending,   \* where each send is, and the entry it looked up
    signal,    \* where the CloseSignal is, and the entry it acquired
    skewed,    \* entries whose count is off: a reference nobody will give
               \* back, or one given back that nobody had taken
    reaped     \* the session has left the manager

socketVars == <<opened, listener, cancelled>>
requestVars == <<conn, sending, signal, skewed, reaped>>
webSocketVars == <<pool, entry, socketVars, closer, requestVars>>

Fresh == [task |-> 0, websocket |-> 0, refs |-> 0, marked |-> FALSE,
          stopped |-> FALSE, closed |-> FALSE, closedEvent |-> FALSE]
NotClosing == [phase |-> "no", of |-> 0, task |-> 0, websocket |-> 0]

ListenerOf(c) == <<"listener", c>>
OwnerOf(c) == <<"owner", c>>
Reaper == <<"reaper", 0>>
Closers == {ListenerOf(c) : c \in Connects} \cup {OwnerOf(c) : c \in Connects} \cup {Reaper}

WebSocketsTypeOK ==
    /\ pool \in Connects \cup {0}
    /\ entry \in [Connects ->
          [task : Connects \cup {0}, websocket : Connects \cup {0}, refs : Int,
           marked : BOOLEAN, stopped : BOOLEAN, closed : BOOLEAN,
           closedEvent : BOOLEAN]]
    /\ opened \subseteq Connects
    /\ listener \in [Connects -> {"none", "connecting", "listening", "dispatching",
                                  "leaving", "closing", "done"}]
    /\ cancelled \subseteq Connects
    /\ conn \in [Connects -> [at : {"new", "waiting", "leaving", "closing",
                                   "reusing", "done"},
                             of : Connects \cup {0}]]
    /\ closer \in [Closers -> [phase : {"no", "joining", "socket"},
                               of : Connects \cup {0}, task : Connects \cup {0},
                               websocket : Connects \cup {0}]]
    /\ sending \in [Sends -> [at : {"new", "acquired", "sending", "sent", "failed"},
                              of : Connects \cup {0}]]
    /\ signal \in [at : {"new", "held", "done"}, of : Connects \cup {0}]
    /\ skewed \subseteq Connects
    /\ reaped \in BOOLEAN

WebSocketsInit ==
    /\ pool = 0
    /\ entry = [e \in Connects |-> Fresh]
    /\ opened = {}
    /\ listener = [c \in Connects |-> "none"]
    /\ cancelled = {}
    /\ conn = [c \in Connects |-> [at |-> "new", of |-> 0]]
    /\ closer = [x \in Closers |-> NotClosing]
    /\ sending = [s \in Sends |-> [at |-> "new", of |-> 0]]
    /\ signal = [at |-> "new", of |-> 0]
    /\ skewed = {}
    /\ reaped = FALSE

Of(c) == conn[c].of
Listens(c, place) == listener' = [listener EXCEPT ![c] = place]
Conn(c, place) == conn' = [conn EXCEPT ![c].at = place]

---------------------------------------------------------------------------
(* WebSocketEntry.                                                         *)

\* request_stop, also what stop_listening of a response and a failed ping do.
StopRequested(en) == [en EXCEPT !.marked = TRUE, !.stopped = TRUE]

\* Mutant: an ended entry is stopped at once.
ReleasedAtOnce(en) == [en EXCEPT !.refs = @ - 1, !.stopped = @ \/ en.marked]

\* release: the last reference of an ended entry stops its listener.
Released(en) == [en EXCEPT !.refs = @ - 1,
                           !.stopped = @ \/ (en.marked /\ en.refs - 1 <= 0)]

\* mark_end: an entry nobody holds is stopped at once.
MarkedEnd(en) == [en EXCEPT !.marked = TRUE, !.stopped = @ \/ en.refs <= 0]

\* close() by x up to its first await.  A second close returns at once, and
\* its "finally" sets the closed event too.
BeginClose(x, e, self) ==
    IF entry[e].closed
    THEN /\ entry' = [entry EXCEPT ![e].closedEvent = TRUE]
         /\ UNCHANGED <<closer, cancelled>>
    ELSE LET task == entry[e].task
             join == task # 0 /\ task # self /\ listener[task] # "done"
         IN /\ entry' = [entry EXCEPT ![e].closed = TRUE, ![e].stopped = TRUE]
            /\ closer' = [closer EXCEPT ![x] =
                  [phase |-> IF join THEN "joining" ELSE "socket", of |-> e,
                   task |-> IF join THEN task ELSE 0,
                   websocket |-> entry[e].websocket]]
            /\ cancelled' = IF join THEN cancelled \cup {task} ELSE cancelled

\* The cancelled listener has ended.
Joined(x) ==
    /\ closer[x].phase = "joining"
    /\ listener[closer[x].task] = "done"
    /\ closer' = [closer EXCEPT ![x].phase = "socket"]
    /\ UNCHANGED <<pool, entry, socketVars, requestVars>>

\* The socket close() found is closed; a failing close is logged.
SocketClosed(x) ==
    /\ closer' = [closer EXCEPT ![x] = NotClosing]
    /\ entry' = [entry EXCEPT ![closer[x].of].closedEvent = TRUE]
    /\ opened' = opened \ {closer[x].websocket}

---------------------------------------------------------------------------
(* The connect request, and its listener.                                  *)

\* The next connect request is taken up, in a session that holds it.
Turn(c) ==
    /\ conn[c].at = "new"
    /\ \A d \in Connects : d < c => conn[d].at # "new"
    /\ ~reaped

\* process_websocket_request, do_websocket_connect, fetch_websocket: an entry
\* is made for the URL, its listener started and recorded.
Connect(c) ==
    /\ Turn(c) /\ pool = 0
    /\ pool' = c
    /\ conn' = [conn EXCEPT ![c] = [at |-> "waiting", of |-> c]]
    /\ entry' = [entry EXCEPT ![c].task = c]
    /\ Listens(c, "connecting")
    /\ UNCHANGED <<opened, cancelled, closer, sending, signal, skewed, reaped>>

\* A connect request that meets an entry of its URL is a send (send_message
\* is a ping unless the user gives another) and at its end gives a reference
\* back, which the spider interceptor did not take: that is done for requests
\* with a websocket_id and no URL.  On an entry not connected yet nothing is
\* sent.
Reuse(c) ==
    /\ Turn(c) /\ pool # 0
    /\ IF entry[pool].websocket = 0
       THEN /\ conn' = [conn EXCEPT ![c] = [at |-> "done", of |-> pool]]
            /\ entry' = [entry EXCEPT ![pool] = Released(@)]
            /\ skewed' = skewed \cup {pool}
       ELSE /\ conn' = [conn EXCEPT ![c] = [at |-> "reusing", of |-> pool]]
            /\ UNCHANGED <<entry, skewed>>
    /\ UNCHANGED <<pool, socketVars, closer, sending, signal, reaped>>

Reused(c) ==
    /\ conn[c].at = "reusing"
    /\ entry[Of(c)].websocket \in opened
    /\ Conn(c, "done")
    /\ entry' = [entry EXCEPT ![Of(c)] = Released(@)]
    /\ skewed' = skewed \cup {Of(c)}
    /\ UNCHANGED <<pool, socketVars, closer, sending, signal, reaped>>

\* The send raises: the task ends without the release.
ReuseRaises(c) ==
    /\ conn[c].at = "reusing"
    /\ Conn(c, "done")
    /\ UNCHANGED <<pool, entry, socketVars, closer, sending, signal, skewed, reaped>>

\* Mutant: the socket is recorded after the stop was looked at.
ConnectedStopped(c) ==
    /\ listener[c] = "connecting" /\ c \notin cancelled
    /\ opened' = opened \cup {c}
    /\ IF pool = 0 \/ entry[Of(c)].stopped
       THEN Listens(c, "leaving") /\ UNCHANGED entry
       ELSE /\ entry' = [entry EXCEPT ![pool].websocket = c]
            /\ Listens(c, "listening")
    /\ UNCHANGED <<pool, cancelled, closer, requestVars>>

\* The socket goes to the entry the pool holds now; without one the listener
\* fails.  A stopped entry is not listened on.
Connected(c) ==
    /\ listener[c] = "connecting" /\ c \notin cancelled
    /\ opened' = opened \cup {c}
    /\ IF pool = 0
       THEN Listens(c, "leaving") /\ UNCHANGED entry
       ELSE /\ entry' = [entry EXCEPT ![pool].websocket = c]
            /\ Listens(c, IF entry[Of(c)].stopped THEN "leaving" ELSE "listening")
    /\ UNCHANGED <<pool, cancelled, closer, requestVars>>

\* Connecting or receiving fails: an error goes to the errback.
ListenerFails(c) ==
    /\ listener[c] \in {"connecting", "listening", "dispatching"}
    /\ c \notin cancelled
    /\ Listens(c, "leaving")
    /\ UNCHANGED <<pool, entry, opened, cancelled, closer, requestVars>>

\* A message goes through the callback chain before the next one is received.
Message(c) ==
    /\ listener[c] = "listening" /\ c \notin cancelled
    /\ ~entry[Of(c)].stopped
    /\ Listens(c, "dispatching")
    /\ UNCHANGED <<pool, entry, opened, cancelled, closer, requestVars>>

Dispatched(c) ==
    /\ listener[c] = "dispatching" /\ c \notin cancelled
    /\ Listens(c, "listening")
    /\ \/ UNCHANGED entry
       \/ entry' = [entry EXCEPT ![Of(c)] = StopRequested(@)]
    /\ UNCHANGED <<pool, opened, cancelled, closer, requestVars>>

\* The peer closes.
PeerCloses(c) ==
    /\ listener[c] = "listening" /\ c \notin cancelled
    /\ entry' = [entry EXCEPT ![Of(c)] = StopRequested(@)]
    /\ UNCHANGED <<pool, socketVars, closer, requestVars>>

\* _ping_loop: a ping that fails stops its entry, wherever the listener is.
PingFails(e) ==
    /\ entry[e].websocket # 0 /\ ~entry[e].stopped
    /\ entry' = [entry EXCEPT ![e] = StopRequested(@)]
    /\ UNCHANGED <<pool, socketVars, closer, requestVars>>

SeesStop(c) ==
    /\ listener[c] = "listening" /\ c \notin cancelled
    /\ entry[Of(c)].stopped
    /\ Listens(c, "leaving")
    /\ UNCHANGED <<pool, entry, opened, cancelled, closer, requestVars>>

SeesCancel(c) ==
    /\ c \in cancelled
    /\ listener[c] \in {"connecting", "listening", "dispatching"}
    /\ Listens(c, "leaving")
    /\ UNCHANGED <<pool, entry, opened, cancelled, closer, requestVars>>

\* The "finally" of the listener closes its entry.
ListenerCloses(c) ==
    /\ listener[c] = "leaving"
    /\ BeginClose(ListenerOf(c), Of(c), c)
    /\ Listens(c, IF entry[Of(c)].closed THEN "done" ELSE "closing")
    /\ UNCHANGED <<pool, opened, requestVars>>

\* ... and ends; a listener that is cancelled in close() sets the event and
\* leaves the socket.
ListenerDone(c) ==
    /\ listener[c] = "closing"
    /\ closer[ListenerOf(c)].phase = "socket" \/ c \in cancelled
    /\ IF c \in cancelled
       THEN /\ entry' = [entry EXCEPT ![Of(c)].closedEvent = TRUE]
            /\ closer' = [closer EXCEPT ![ListenerOf(c)] = NotClosing]
            /\ UNCHANGED opened
       ELSE SocketClosed(ListenerOf(c))
    /\ Listens(c, "done")
    /\ UNCHANGED <<pool, cancelled, requestVars>>

\* wait_closed returns, or the task of the request is cancelled.
OwnerWakes(c) ==
    /\ conn[c].at = "waiting"
    /\ entry[Of(c)].closedEvent
    /\ Conn(c, "leaving")
    /\ UNCHANGED <<pool, entry, socketVars, closer, sending, signal, skewed, reaped>>

CancelOwner(c) ==
    /\ conn[c].at = "waiting"
    /\ Conn(c, "leaving")
    /\ UNCHANGED <<pool, entry, socketVars, closer, sending, signal, skewed, reaped>>

\* close_websocket: whatever entry the URL has now is closed and removed.
OwnerCloses(c) ==
    /\ conn[c].at = "leaving"
    /\ IF pool = 0
       THEN /\ Conn(c, "done")
            /\ UNCHANGED <<pool, entry, closer, cancelled>>
       ELSE /\ BeginClose(OwnerOf(c), pool, 0)
            /\ IF entry[pool].closed
               THEN Conn(c, "done") /\ pool' = 0
               ELSE Conn(c, "closing") /\ UNCHANGED pool
    /\ UNCHANGED <<opened, listener, sending, signal, skewed, reaped>>

OwnerDone(c) ==
    /\ conn[c].at = "closing"
    /\ closer[OwnerOf(c)].phase = "socket"
    /\ SocketClosed(OwnerOf(c))
    /\ pool' = 0
    /\ Conn(c, "done")
    /\ UNCHANGED <<listener, cancelled, sending, signal, skewed, reaped>>

\* A connect request, a send and an end signal hold the session.
SessionUnused ==
    /\ \A c \in Connects : conn[c].at \notin {"waiting", "reusing"}
    /\ \A s \in Sends : sending[s].at \notin {"acquired", "sending"}
    /\ signal.at # "held"

\* The session ends: it leaves the manager, WebSocketPool.close_all follows.
ReaperCloses ==
    /\ ~reaped /\ SessionUnused
    /\ reaped' = TRUE
    /\ IF pool = 0
       THEN UNCHANGED <<pool, entry, closer, cancelled>>
       ELSE /\ BeginClose(Reaper, pool, 0)
            /\ pool' = IF entry[pool].closed THEN 0 ELSE pool
    /\ UNCHANGED <<opened, listener, conn, sending, signal, skewed>>

ReaperDone ==
    /\ closer[Reaper].phase = "socket"
    /\ SocketClosed(Reaper)
    /\ pool' = 0
    /\ UNCHANGED <<listener, cancelled, requestVars>>

---------------------------------------------------------------------------
(* Sends and the end of a connection.                                      *)

\* UpdateRequest: the entry is looked up and held; a closed connection is an
\* error.
AcquireSend(s) ==
    /\ sending[s].at = "new"
    /\ \E c \in Connects : conn[c].at # "new"
    /\ IF pool = 0 \/ reaped
       THEN sending' = [sending EXCEPT ![s].at = "failed"] /\ UNCHANGED entry
       ELSE /\ sending' = [sending EXCEPT ![s] = [at |-> "acquired", of |-> pool]]
            /\ entry' = [entry EXCEPT ![pool].refs = @ + 1]
    /\ UNCHANGED <<pool, socketVars, closer, conn, signal, skewed, reaped>>

\* process_websocket_request looks the entry up again.  An entry that is gone
\* or not connected yet answers with an error and keeps the reference.
BeginSend(s) ==
    /\ sending[s].at = "acquired"
    /\ IF pool = 0 \/ entry[pool].websocket = 0
       THEN /\ sending' = [sending EXCEPT ![s].at = "failed"]
            /\ skewed' = skewed \cup {sending[s].of}
       ELSE /\ sending' = [sending EXCEPT ![s] = [at |-> "sending", of |-> pool]]
            /\ skewed' = IF pool # sending[s].of
                         THEN skewed \cup {sending[s].of, pool} ELSE skewed
    /\ UNCHANGED <<pool, entry, socketVars, closer, conn, signal, reaped>>

\* Mutant: the send does not give its reference back.
SentUnreleased(s) ==
    /\ sending[s].at = "sending"
    /\ entry[sending[s].of].websocket \in opened
    /\ sending' = [sending EXCEPT ![s].at = "sent"]
    /\ UNCHANGED <<pool, entry, socketVars, closer, conn, signal, skewed, reaped>>

Sent(s) ==
    /\ sending[s].at = "sending"
    /\ entry[sending[s].of].websocket \in opened
    /\ sending' = [sending EXCEPT ![s].at = "sent"]
    /\ entry' = [entry EXCEPT ![sending[s].of] = Released(@)]
    /\ UNCHANGED <<pool, socketVars, closer, conn, signal, skewed, reaped>>

\* The send raises: the task ends without the release.
SendRaises(s) ==
    /\ sending[s].at = "sending"
    /\ sending' = [sending EXCEPT ![s].at = "failed"]
    /\ skewed' = skewed \cup {sending[s].of}
    /\ UNCHANGED <<pool, entry, socketVars, closer, conn, signal, reaped>>

\* CloseSignal(websocket_end_for_key): held by UpdateRequest, then
\* end_websocket marks the entry of the URL and gives the reference back.
HoldSignal ==
    /\ signal.at = "new"
    /\ pool # 0 /\ ~reaped
    /\ signal' = [at |-> "held", of |-> pool]
    /\ entry' = [entry EXCEPT ![pool].refs = @ + 1]
    /\ UNCHANGED <<pool, socketVars, closer, conn, sending, skewed, reaped>>

EndWebSocket ==
    /\ signal.at = "held"
    /\ signal' = [signal EXCEPT !.at = "done"]
    /\ IF pool = 0
       THEN skewed' = skewed \cup {signal.of} /\ UNCHANGED entry
       ELSE /\ entry' = [entry EXCEPT ![pool] = Released(MarkedEnd(@))]
            /\ skewed' = IF pool # signal.of THEN skewed \cup {signal.of, pool}
                                             ELSE skewed
    /\ UNCHANGED <<pool, socketVars, closer, conn, sending, reaped>>

---------------------------------------------------------------------------
ListenerStep(c) == \/ Connected(c) \/ Dispatched(c) \/ SeesStop(c)
                   \/ SeesCancel(c) \/ ListenerCloses(c) \/ ListenerDone(c)
OwnerStep(c) == \/ OwnerWakes(c) \/ OwnerCloses(c) \/ OwnerDone(c)
                \/ Reused(c) \/ ReuseRaises(c)
CloserStep == ReaperDone \/ \E x \in Closers : Joined(x)
SendStep(s) == BeginSend(s) \/ Sent(s) \/ SendRaises(s)

WebSocketsNext ==
    \/ \E c \in Connects :
          \/ Connect(c) \/ Reuse(c) \/ ListenerStep(c) \/ ListenerFails(c) \/ Message(c)
          \/ PeerCloses(c) \/ PingFails(c) \/ OwnerStep(c) \/ CancelOwner(c)
    \/ ReaperCloses \/ CloserStep
    \/ \E s \in Sends : AcquireSend(s) \/ SendStep(s)
    \/ HoldSignal \/ EndWebSocket

\* The loop runs every task that can go on; a connect has a timeout and so
\* ends; nobody has to send, to end or to cancel.
WebSocketsFairness ==
    /\ \A c \in Connects : /\ WF_webSocketVars(ListenerStep(c))
                           /\ WF_webSocketVars(OwnerStep(c))
    /\ WF_webSocketVars(CloserStep) /\ WF_webSocketVars(EndWebSocket)
    /\ \A s \in Sends : WF_webSocketVars(SendStep(s))

WebSocketsSpec == WebSocketsInit /\ [][WebSocketsNext]_webSocketVars
                  /\ WebSocketsFairness

---------------------------------------------------------------------------
(* What is checked.                                                        *)

\* A socket is owned: by the entry in the pool, by a close() under way, or
\* by a listener that will close its entry.  None outlives its request.
NoSocketLeft ==
    \A k \in opened :
        \/ \E x \in Closers : closer[x].websocket = k
        \/ \E e \in Connects : entry[e].websocket = k /\ ~entry[e].closed

\* ref_count counts the sends and the end signal that hold the entry, unless
\* a holder lost its entry to a reconnect or failed before the release, or a
\* connect request used the entry, which takes one from the count.
RefsExact ==
    \A e \in Connects \ skewed :
        entry[e].refs =
            Cardinality({s \in Sends : sending[s].of = e
                                       /\ sending[s].at \in {"acquired", "sending"}})
          + (IF signal = [at |-> "held", of |-> e] THEN 1 ELSE 0)

\* The types, the exact reference counts and no socket without an owner.
WebSocketsInv == WebSocketsTypeOK /\ RefsExact /\ NoSocketLeft

\* A send that holds its entry is served before an end signal by key stops
\* the listener: only a stop from elsewhere comes first, or a signal whose
\* entry was replaced meanwhile or has lost a reference to a connect request.
HeldSendServed ==
    [][\A e \in Connects :
          (/\ ~entry[e].stopped /\ entry'[e].stopped
           /\ signal' # signal /\ e \notin skewed')
              => ~\E s \in Sends : sending[s].of = e
                                   /\ sending[s].at \in {"acquired", "sending"}]_webSocketVars

\* An ended connection is stopped and its request completes, unless a send
\* or a signal kept its reference or a connect request used the entry.
EndHonoured ==
    \A e \in Connects :
        entry[e].marked ~> conn[e].at = "done" \/ e \in skewed
=============================================================================
