---------------------------- MODULE TrafficProofs ----------------------------
(***************************************************************************)
(* Proofs about WebSockets, Transfers and Chains for any number of         *)
(* connects, sends, requests, nodes, permits and parts.                    *)
(*                                                                         *)
(* RefsExact needs the types and that every holder has an entry (Named);   *)
(* HeldSendServed follows from it.  NoSocketLeft is not inductive: a       *)
(* socket that gets connected is owned only because a listener nobody      *)
(* cancelled has an open entry (Running), which the pool still holds       *)
(* (StillOpen), a request that meets an entry makes none (OwnEntry), and a *)
(* close() that begins does not overwrite another one (ClosersBusy).       *)
(*                                                                         *)
(* MediaWhole says what a delivered body is; inductive is what every body  *)
(* under way is: a prefix of the resource, within its known size (Bodies). *)
(* SpacedStarts needs that the ticks to wait and the ticks since the last  *)
(* start make up an interval (Spacing), the attempt budget that whoever    *)
(* may try again has an attempt left (Attempts).                           *)
(*                                                                         *)
(* That no permit is lost needs where a stream may be while it is open     *)
(* (StreamPlaces): a chain that replaces, raises or delivers without       *)
(* closing does so only where it holds none.                               *)
(***************************************************************************)
EXTENDS WebSockets, Chains, Transfers, FiniteSetTheorems, SequenceTheorems, TLAPS

---------------------------------------------------------------------------
(* WebSockets: references.                                                 *)

Held(s) == sending[s].at \in {"acquired", "sending"}

\* What connects, listens, sends or ends has an entry.
Named ==
    /\ \A c \in Connects : /\ conn[c].at # "new" => Of(c) \in Connects
                           /\ listener[c] # "none" => conn[c].at # "new"
    /\ \A s \in Sends : Held(s) => sending[s].of \in Connects
    /\ signal.at = "held" => signal.of \in Connects

RefsInv == WebSocketsTypeOK /\ Named /\ RefsExact

Ids == Connects \cup {0}
Entries == [task : Ids, websocket : Ids, refs : Int, marked : BOOLEAN, stopped : BOOLEAN,
            closed : BOOLEAN, closedEvent : BOOLEAN]
Closings == [phase : {"no", "joining", "socket"}, of : Ids, task : Ids, websocket : Ids]
Conns == [at : {"new", "waiting", "leaving", "closing", "reusing", "done"}, of : Ids]
Sendings == [at : {"new", "acquired", "sending", "sent", "failed"}, of : Ids]
Phases == {"none", "connecting", "listening", "dispatching", "leaving", "closing", "done"}

\* WebSocketsTypeOK with the types of the records folded.
LEMMA WebTypes ==
    WebSocketsTypeOK <=>
          /\ pool \in Ids /\ entry \in [Connects -> Entries]
          /\ opened \subseteq Connects /\ listener \in [Connects -> Phases]
          /\ cancelled \subseteq Connects /\ conn \in [Connects -> Conns]
          /\ closer \in [Closers -> Closings] /\ sending \in [Sends -> Sendings]
          /\ signal \in [at : {"new", "held", "done"}, of : Ids]
          /\ skewed \subseteq Connects /\ reaped \in BOOLEAN
  BY DEF WebSocketsTypeOK, Ids, Entries, Closings, Conns, Sendings, Phases

\* Also after a step.
LEMMA WebTypesAfter ==
    WebSocketsTypeOK' <=>
          /\ pool' \in Ids /\ entry' \in [Connects -> Entries]
          /\ opened' \subseteq Connects /\ listener' \in [Connects -> Phases]
          /\ cancelled' \subseteq Connects /\ conn' \in [Connects -> Conns]
          /\ closer' \in [Closers -> Closings] /\ sending' \in [Sends -> Sendings]
          /\ signal' \in [at : {"new", "held", "done"}, of : Ids]
          /\ skewed' \subseteq Connects /\ reaped' \in BOOLEAN
  BY DEF WebSocketsTypeOK, Ids, Entries, Closings, Conns, Sendings, Phases

\* What the methods of WebSocketEntry do to the types and the references.
LEMMA EntryMethods ==
    ASSUME NEW en \in Entries
    PROVE  /\ StopRequested(en) \in Entries /\ StopRequested(en).refs = en.refs
           /\ MarkedEnd(en) \in Entries /\ MarkedEnd(en).refs = en.refs
           /\ Released(en) \in Entries /\ Released(en).refs = en.refs - 1
  <1>1. StopRequested(en) \in Entries /\ StopRequested(en).refs = en.refs
    BY DEF Entries, StopRequested
  <1>2. MarkedEnd(en) \in Entries /\ MarkedEnd(en).refs = en.refs
    BY DEF Entries, MarkedEnd
  <1>3. Released(en) \in Entries /\ Released(en).refs = en.refs - 1
    <2> DEFINE stops == en.stopped \/ (en.marked /\ en.refs - 1 <= 0)
    <2>1. en.refs - 1 \in Int /\ en.refs \in Int
      BY DEF Entries
    <2>2. stops \in BOOLEAN
      BY Zenon
    <2>3. Released(en) = [en EXCEPT !.refs = @ - 1, !.stopped = stops]
      BY DEF Released
    <2> HIDE DEF stops
    <2> QED BY <2>1, <2>2, <2>3 DEF Entries
  <1> QED BY <1>1, <1>2, <1>3

\* An end signal gives one reference back.
LEMMA EndedEntry ==
    ASSUME NEW en \in Entries
    PROVE  Released(MarkedEnd(en)) \in Entries /\ Released(MarkedEnd(en)).refs = en.refs - 1
  <1>1. MarkedEnd(en) \in Entries /\ MarkedEnd(en).refs = en.refs
    BY EntryMethods
  <1> QED BY <1>1, EntryMethods

\* close() touches one entry and no reference.
LEMMA BeginCloseTypes ==
    ASSUME WebSocketsTypeOK, NEW x \in Closers, NEW e \in Connects, NEW self,
           BeginClose(x, e, self)
    PROVE  /\ entry' \in [Connects -> Entries] /\ closer' \in [Closers -> Closings]
           /\ cancelled' \subseteq Connects
           /\ \A d \in Connects : entry'[d].refs = entry[d].refs
  <1>1. /\ entry \in [Connects -> Entries] /\ closer \in [Closers -> Closings]
        /\ cancelled \subseteq Connects /\ entry[e].task \in Ids /\ entry[e].websocket \in Ids
    BY WebTypes DEF Entries
  <1>2. entry' \in [Connects -> Entries] /\ \A d \in Connects : entry'[d].refs = entry[d].refs
    <2>1. CASE entry' = [entry EXCEPT ![e].closedEvent = TRUE]
      BY <1>1, <2>1 DEF Entries
    <2>2. CASE entry' = [entry EXCEPT ![e].closed = TRUE, ![e].stopped = TRUE]
      BY <1>1, <2>2 DEF Entries
    <2> QED BY <2>1, <2>2 DEF BeginClose
  <1>3. closer' \in [Closers -> Closings]
    BY <1>1 DEF BeginClose, Closings, Ids
  <1>4. cancelled' \subseteq Connects
    BY <1>1 DEF BeginClose, Ids
  <1> QED BY <1>1, <1>2, <1>3, <1>4

\* The end of a close() touches one entry and no reference.
LEMMA SocketClosedTypes ==
    ASSUME WebSocketsTypeOK, NEW x \in Closers, SocketClosed(x)
    PROVE  /\ entry' \in [Connects -> Entries] /\ closer' \in [Closers -> Closings]
           /\ opened' \subseteq Connects
           /\ \A d \in Connects : entry'[d].refs = entry[d].refs
  <1>1. /\ entry \in [Connects -> Entries] /\ closer \in [Closers -> Closings]
        /\ opened \subseteq Connects
    BY WebTypes
  <1>2. entry' \in [Connects -> Entries] /\ \A d \in Connects : entry'[d].refs = entry[d].refs
    BY <1>1 DEF SocketClosed, Entries
  <1> QED BY <1>1, <1>2 DEF SocketClosed, NotClosing, Closings, Ids

Holders(e) == {s \in Sends : sending[s].of = e /\ Held(s)}
Signals(e) == IF signal = [at |-> "held", of |-> e] THEN 1 ELSE 0

\* What RefsExact counts.
LEMMA RefsCounted ==
    /\ RefsExact <=> \A e \in Connects \ skewed :
                        entry[e].refs = Cardinality(Holders(e)) + Signals(e)
    /\ RefsExact' <=> \A e \in Connects \ skewed' :
                         entry'[e].refs = Cardinality(Holders(e)') + Signals(e)'
  BY DEF RefsExact, Holders, Held, Signals

\* The holders of an entry are finitely many, and counting one more or less
\* is exact.
LEMMA HoldersCount ==
    ASSUME NEW e \in Connects
    PROVE  /\ IsFiniteSet(Holders(e)) /\ Cardinality(Holders(e)) \in Nat
           /\ Cardinality(Holders(e)) = 0 => Holders(e) = {}
           /\ \A s \in Sends :
                 /\ s \notin Holders(e)
                       => Cardinality(Holders(e) \cup {s}) = Cardinality(Holders(e)) + 1
                 /\ s \in Holders(e)
                       => Cardinality(Holders(e) \ {s}) = Cardinality(Holders(e)) - 1
  <1>1. Holders(e) \subseteq Sends
    BY DEF Holders
  <1>2. IsFiniteSet(Holders(e))
    BY <1>1, WebSocketsAssumption, FS_Subset
  <1> QED BY <1>2, FS_AddElement, FS_RemoveElement, FS_EmptySet,
         FS_CardinalityType

\* A step that touches no reference and no holder.
LEMMA RefsKept ==
    ASSUME RefsInv, UNCHANGED <<sending, signal, skewed>>,
           \A d \in Connects : entry'[d].refs = entry[d].refs
    PROVE  RefsExact'
  BY DEF RefsInv, RefsExact

\* The closers are distinct.
LEMMA CloserNames ==
    /\ Reaper \in Closers /\ NotClosing.phase = "no"
    /\ \A b, d \in Connects :
          /\ ListenerOf(b) \in Closers /\ OwnerOf(b) \in Closers
          /\ ListenerOf(b) # OwnerOf(d) /\ ListenerOf(b) # Reaper /\ OwnerOf(b) # Reaper
          /\ b # d => ListenerOf(b) # ListenerOf(d) /\ OwnerOf(b) # OwnerOf(d)
  BY DEF Closers, ListenerOf, OwnerOf, Reaper, NotClosing

\* A connect request makes the entry of its URL.
LEMMA ConnectRefs ==
    ASSUME NEW c \in Connects
    PROVE  RefsInv /\ Connect(c) => RefsInv'
  <1> SUFFICES ASSUME RefsInv, Connect(c) PROVE RefsInv'
    OBVIOUS
  <1> USE DEF RefsInv, Connect, Turn, Of, Listens, Conn, socketVars, requestVars
  <1>1. /\ entry \in [Connects -> Entries] /\ conn \in [Connects -> Conns]
        /\ closer \in [Closers -> Closings] /\ listener \in [Connects -> Phases]
        /\ sending \in [Sends -> Sendings] /\ pool \in Ids /\ opened \subseteq Connects
        /\ cancelled \subseteq Connects /\ skewed \subseteq Connects /\ reaped \in BOOLEAN
        /\ signal \in [at : {"new", "held", "done"}, of : Ids]
    BY WebTypes
  <1>2. entry' \in [Connects -> Entries] /\ \A d \in Connects : entry'[d].refs = entry[d].refs
    BY <1>1, WebSocketsAssumption DEF Entries, Ids
  <1>3. WebSocketsTypeOK'
    BY <1>1, <1>2, WebTypesAfter DEF Conns, Phases, Ids
  <1>4. Named'
    BY <1>1, <1>2 DEF Named, Held
  <1>5. RefsExact'
    BY <1>2, RefsKept
  <1> QED BY <1>3, <1>4, <1>5

\* A connect request that meets an entry not connected yet gives back a
\* reference of it that it never took; otherwise it only sends.
LEMMA ReuseRefs ==
    ASSUME NEW c \in Connects
    PROVE  RefsInv /\ Reuse(c) => RefsInv'
  <1> SUFFICES ASSUME RefsInv, Reuse(c) PROVE RefsInv'
    OBVIOUS
  <1> USE DEF RefsInv, Reuse, Turn, Of, Listens, Conn, socketVars, requestVars
  <1>1. /\ entry \in [Connects -> Entries] /\ conn \in [Connects -> Conns]
        /\ closer \in [Closers -> Closings] /\ listener \in [Connects -> Phases]
        /\ sending \in [Sends -> Sendings] /\ pool \in Ids /\ opened \subseteq Connects
        /\ cancelled \subseteq Connects /\ skewed \subseteq Connects /\ reaped \in BOOLEAN
        /\ signal \in [at : {"new", "held", "done"}, of : Ids]
    BY WebTypes
  <1>2. pool \in Connects
    BY <1>1 DEF Ids
  <1>3. /\ entry' \in [Connects -> Entries]
        /\ \A d \in Connects : d # pool => entry'[d].refs = entry[d].refs
        /\ pool \in skewed' \/ entry' = entry
    <2>1. CASE entry[pool].websocket = 0
      <3>1. entry' = [entry EXCEPT ![pool] = Released(@)] /\ skewed' = skewed \cup {pool}
        BY <2>1
      <3>2. Released(entry[pool]) \in Entries /\ entry[pool] \in Entries
        BY <1>1, <1>2, EntryMethods
      <3>3. pool \in skewed'
        BY <3>1
      <3>4. entry' \in [Connects -> Entries]
            /\ \A d \in Connects : d # pool => entry'[d] = entry[d]
        BY <1>1, <1>2, <3>1, <3>2
      <3> QED BY <3>3, <3>4
    <2>2. CASE entry[pool].websocket # 0
      BY <1>1, <2>2
    <2> QED BY <2>1, <2>2
  <1>4. WebSocketsTypeOK'
    BY <1>1, <1>2, <1>3, WebTypesAfter DEF Conns
  <1>5. Named'
    BY <1>1, <1>2 DEF Named, Held, Conns
  <1>6. RefsExact'
    <2>1. \A d \in Connects \ skewed' : entry'[d].refs = entry[d].refs /\ d \notin skewed
      BY <1>3
    <2>2. \A d \in Connects : Holders(d)' = Holders(d) /\ Signals(d)' = Signals(d)
      BY DEF Holders, Held, Signals
    <2> QED BY <2>1, <2>2, RefsCounted
  <1> QED BY <1>4, <1>5, <1>6

\* A connect request that has sent gives back a reference it never took.
LEMMA ReusedRefs ==
    ASSUME NEW c \in Connects
    PROVE  RefsInv /\ Reused(c) => RefsInv'
  <1> SUFFICES ASSUME RefsInv, Reused(c) PROVE RefsInv'
    OBVIOUS
  <1> USE DEF RefsInv, Reused, Of, Listens, Conn, socketVars, requestVars
  <1>1. /\ entry \in [Connects -> Entries] /\ conn \in [Connects -> Conns]
        /\ closer \in [Closers -> Closings] /\ listener \in [Connects -> Phases]
        /\ sending \in [Sends -> Sendings] /\ pool \in Ids /\ opened \subseteq Connects
        /\ cancelled \subseteq Connects /\ skewed \subseteq Connects /\ reaped \in BOOLEAN
        /\ signal \in [at : {"new", "held", "done"}, of : Ids]
    BY WebTypes
  <1>2. Of(c) \in Connects
    BY <1>1 DEF Named
  <1>3. /\ entry' \in [Connects -> Entries]
        /\ \A d \in Connects : d # Of(c) => entry'[d].refs = entry[d].refs
    BY <1>1, <1>2, EntryMethods
  <1>4. WebSocketsTypeOK'
    BY <1>1, <1>2, <1>3, WebTypesAfter DEF Conns
  <1>5. Named'
    BY <1>1 DEF Named, Held, Conns
  <1>6. RefsExact'
    <2>1. \A d \in Connects \ skewed' : entry'[d].refs = entry[d].refs /\ d \notin skewed
      BY <1>3
    <2>2. \A d \in Connects : Holders(d)' = Holders(d) /\ Signals(d)' = Signals(d)
      BY DEF Holders, Held, Signals
    <2> QED BY <2>1, <2>2, RefsCounted
  <1> QED BY <1>4, <1>5, <1>6

\* One that raises gives nothing back.
LEMMA ReuseRaisesRefs ==
    ASSUME NEW c \in Connects
    PROVE  RefsInv /\ ReuseRaises(c) => RefsInv'
  <1> SUFFICES ASSUME RefsInv, ReuseRaises(c) PROVE RefsInv'
    OBVIOUS
  <1> USE DEF RefsInv, ReuseRaises, Of, Listens, Conn, socketVars, requestVars
  <1>1. /\ entry \in [Connects -> Entries] /\ conn \in [Connects -> Conns]
        /\ closer \in [Closers -> Closings] /\ listener \in [Connects -> Phases]
        /\ sending \in [Sends -> Sendings] /\ pool \in Ids /\ opened \subseteq Connects
        /\ cancelled \subseteq Connects /\ skewed \subseteq Connects /\ reaped \in BOOLEAN
        /\ signal \in [at : {"new", "held", "done"}, of : Ids]
    BY WebTypes
  <1>2. WebSocketsTypeOK'
    BY <1>1, WebTypesAfter DEF Conns
  <1>3. Named'
    BY <1>1 DEF Named, Held, Conns
  <1>4. RefsExact'
    BY RefsKept
  <1> QED BY <1>2, <1>3, <1>4

\* The socket goes to the entry the pool holds.
LEMMA ConnectedRefs ==
    ASSUME NEW c \in Connects
    PROVE  RefsInv /\ Connected(c) => RefsInv'
  <1> SUFFICES ASSUME RefsInv, Connected(c) PROVE RefsInv'
    OBVIOUS
  <1> USE DEF RefsInv, Connected, Of, Listens, Conn, socketVars, requestVars
  <1>1. /\ entry \in [Connects -> Entries] /\ conn \in [Connects -> Conns]
        /\ closer \in [Closers -> Closings] /\ listener \in [Connects -> Phases]
        /\ sending \in [Sends -> Sendings] /\ pool \in Ids /\ opened \subseteq Connects
        /\ cancelled \subseteq Connects /\ skewed \subseteq Connects /\ reaped \in BOOLEAN
        /\ signal \in [at : {"new", "held", "done"}, of : Ids]
    BY WebTypes
  <1>2. Of(c) \in Connects
    BY <1>1 DEF Named
  <1>3. entry' \in [Connects -> Entries] /\ \A d \in Connects : entry'[d].refs = entry[d].refs
    BY <1>1 DEF Entries, Ids
  <1>4. WebSocketsTypeOK'
    BY <1>1, <1>3, WebTypesAfter DEF Phases
  <1>5. Named'
    BY <1>1 DEF Named, Held
  <1>6. RefsExact'
    BY <1>3, RefsKept
  <1> QED BY <1>4, <1>5, <1>6

\* A listener that fails leaves.
LEMMA ListenerFailsRefs ==
    ASSUME NEW c \in Connects
    PROVE  RefsInv /\ ListenerFails(c) => RefsInv'
  <1> SUFFICES ASSUME RefsInv, ListenerFails(c) PROVE RefsInv'
    OBVIOUS
  <1> USE DEF RefsInv, ListenerFails, Of, Listens, Conn, socketVars,
         requestVars
  <1>1. /\ entry \in [Connects -> Entries] /\ conn \in [Connects -> Conns]
        /\ closer \in [Closers -> Closings] /\ listener \in [Connects -> Phases]
        /\ sending \in [Sends -> Sendings] /\ pool \in Ids /\ opened \subseteq Connects
        /\ cancelled \subseteq Connects /\ skewed \subseteq Connects /\ reaped \in BOOLEAN
        /\ signal \in [at : {"new", "held", "done"}, of : Ids]
    BY WebTypes
  <1>2. WebSocketsTypeOK'
    BY <1>1, WebTypesAfter DEF Phases
  <1>3. Named'
    BY DEF Named, Held
  <1>4. RefsExact'
    BY RefsKept
  <1> QED BY <1>2, <1>3, <1>4

\* A message is dispatched.
LEMMA MessageRefs ==
    ASSUME NEW c \in Connects
    PROVE  RefsInv /\ Message(c) => RefsInv'
  <1> SUFFICES ASSUME RefsInv, Message(c) PROVE RefsInv'
    OBVIOUS
  <1> USE DEF RefsInv, Message, Of, Listens, Conn, socketVars, requestVars
  <1>1. /\ entry \in [Connects -> Entries] /\ conn \in [Connects -> Conns]
        /\ closer \in [Closers -> Closings] /\ listener \in [Connects -> Phases]
        /\ sending \in [Sends -> Sendings] /\ pool \in Ids /\ opened \subseteq Connects
        /\ cancelled \subseteq Connects /\ skewed \subseteq Connects /\ reaped \in BOOLEAN
        /\ signal \in [at : {"new", "held", "done"}, of : Ids]
    BY WebTypes
  <1>2. WebSocketsTypeOK'
    BY <1>1, WebTypesAfter DEF Phases
  <1>3. Named'
    BY DEF Named, Held
  <1>4. RefsExact'
    BY RefsKept
  <1> QED BY <1>2, <1>3, <1>4

\* A callback may stop its entry.
LEMMA DispatchedRefs ==
    ASSUME NEW c \in Connects
    PROVE  RefsInv /\ Dispatched(c) => RefsInv'
  <1> SUFFICES ASSUME RefsInv, Dispatched(c) PROVE RefsInv'
    OBVIOUS
  <1> USE DEF RefsInv, Dispatched, Of, Listens, Conn, socketVars, requestVars
  <1>1. /\ entry \in [Connects -> Entries] /\ conn \in [Connects -> Conns]
        /\ closer \in [Closers -> Closings] /\ listener \in [Connects -> Phases]
        /\ sending \in [Sends -> Sendings] /\ pool \in Ids /\ opened \subseteq Connects
        /\ cancelled \subseteq Connects /\ skewed \subseteq Connects /\ reaped \in BOOLEAN
        /\ signal \in [at : {"new", "held", "done"}, of : Ids]
    BY WebTypes
  <1>2. Of(c) \in Connects
    BY <1>1 DEF Named
  <1>3. entry' \in [Connects -> Entries] /\ \A d \in Connects : entry'[d].refs = entry[d].refs
    BY <1>1, <1>2, EntryMethods
  <1>4. WebSocketsTypeOK'
    BY <1>1, <1>3, WebTypesAfter DEF Phases
  <1>5. Named'
    BY DEF Named, Held
  <1>6. RefsExact'
    BY <1>3, RefsKept
  <1> QED BY <1>4, <1>5, <1>6

\* The peer stops the entry.
LEMMA PeerClosesRefs ==
    ASSUME NEW c \in Connects
    PROVE  RefsInv /\ PeerCloses(c) => RefsInv'
  <1> SUFFICES ASSUME RefsInv, PeerCloses(c) PROVE RefsInv'
    OBVIOUS
  <1> USE DEF RefsInv, PeerCloses, Of, Listens, Conn, socketVars, requestVars
  <1>1. /\ entry \in [Connects -> Entries] /\ conn \in [Connects -> Conns]
        /\ closer \in [Closers -> Closings] /\ listener \in [Connects -> Phases]
        /\ sending \in [Sends -> Sendings] /\ pool \in Ids /\ opened \subseteq Connects
        /\ cancelled \subseteq Connects /\ skewed \subseteq Connects /\ reaped \in BOOLEAN
        /\ signal \in [at : {"new", "held", "done"}, of : Ids]
    BY WebTypes
  <1>2. Of(c) \in Connects
    BY <1>1 DEF Named
  <1>3. entry' \in [Connects -> Entries] /\ \A d \in Connects : entry'[d].refs = entry[d].refs
    BY <1>1, <1>2, EntryMethods
  <1>4. WebSocketsTypeOK'
    BY <1>1, <1>3, WebTypesAfter
  <1>5. Named'
    BY DEF Named, Held
  <1>6. RefsExact'
    BY <1>3, RefsKept
  <1> QED BY <1>4, <1>5, <1>6

\* A failed ping stops the entry.
LEMMA PingFailsRefs ==
    ASSUME NEW c \in Connects
    PROVE  RefsInv /\ PingFails(c) => RefsInv'
  <1> SUFFICES ASSUME RefsInv, PingFails(c) PROVE RefsInv'
    OBVIOUS
  <1> USE DEF RefsInv, PingFails, Of, Listens, Conn, socketVars, requestVars
  <1>1. /\ entry \in [Connects -> Entries] /\ conn \in [Connects -> Conns]
        /\ closer \in [Closers -> Closings] /\ listener \in [Connects -> Phases]
        /\ sending \in [Sends -> Sendings] /\ pool \in Ids /\ opened \subseteq Connects
        /\ cancelled \subseteq Connects /\ skewed \subseteq Connects /\ reaped \in BOOLEAN
        /\ signal \in [at : {"new", "held", "done"}, of : Ids]
    BY WebTypes
  <1>2. entry' \in [Connects -> Entries] /\ \A d \in Connects : entry'[d].refs = entry[d].refs
    BY <1>1, EntryMethods
  <1>3. WebSocketsTypeOK'
    BY <1>1, <1>2, WebTypesAfter
  <1>4. Named'
    BY DEF Named, Held
  <1>5. RefsExact'
    BY <1>2, RefsKept
  <1> QED BY <1>3, <1>4, <1>5

\* A stopped listener leaves.
LEMMA SeesStopRefs ==
    ASSUME NEW c \in Connects
    PROVE  RefsInv /\ SeesStop(c) => RefsInv'
  <1> SUFFICES ASSUME RefsInv, SeesStop(c) PROVE RefsInv'
    OBVIOUS
  <1> USE DEF RefsInv, SeesStop, Of, Listens, Conn, socketVars, requestVars
  <1>1. /\ entry \in [Connects -> Entries] /\ conn \in [Connects -> Conns]
        /\ closer \in [Closers -> Closings] /\ listener \in [Connects -> Phases]
        /\ sending \in [Sends -> Sendings] /\ pool \in Ids /\ opened \subseteq Connects
        /\ cancelled \subseteq Connects /\ skewed \subseteq Connects /\ reaped \in BOOLEAN
        /\ signal \in [at : {"new", "held", "done"}, of : Ids]
    BY WebTypes
  <1>2. WebSocketsTypeOK'
    BY <1>1, WebTypesAfter DEF Phases
  <1>3. Named'
    BY DEF Named, Held
  <1>4. RefsExact'
    BY RefsKept
  <1> QED BY <1>2, <1>3, <1>4

\* A cancelled listener leaves.
LEMMA SeesCancelRefs ==
    ASSUME NEW c \in Connects
    PROVE  RefsInv /\ SeesCancel(c) => RefsInv'
  <1> SUFFICES ASSUME RefsInv, SeesCancel(c) PROVE RefsInv'
    OBVIOUS
  <1> USE DEF RefsInv, SeesCancel, Of, Listens, Conn, socketVars, requestVars
  <1>1. /\ entry \in [Connects -> Entries] /\ conn \in [Connects -> Conns]
        /\ closer \in [Closers -> Closings] /\ listener \in [Connects -> Phases]
        /\ sending \in [Sends -> Sendings] /\ pool \in Ids /\ opened \subseteq Connects
        /\ cancelled \subseteq Connects /\ skewed \subseteq Connects /\ reaped \in BOOLEAN
        /\ signal \in [at : {"new", "held", "done"}, of : Ids]
    BY WebTypes
  <1>2. WebSocketsTypeOK'
    BY <1>1, WebTypesAfter DEF Phases
  <1>3. Named'
    BY DEF Named, Held
  <1>4. RefsExact'
    BY RefsKept
  <1> QED BY <1>2, <1>3, <1>4

\* A leaving listener begins to close its entry.
LEMMA ListenerClosesRefs ==
    ASSUME NEW c \in Connects
    PROVE  RefsInv /\ ListenerCloses(c) => RefsInv'
  <1> SUFFICES ASSUME RefsInv, ListenerCloses(c) PROVE RefsInv'
    OBVIOUS
  <1> USE DEF RefsInv, ListenerCloses, Of, Listens, Conn, socketVars,
         requestVars
  <1>1. /\ entry \in [Connects -> Entries] /\ conn \in [Connects -> Conns]
        /\ closer \in [Closers -> Closings] /\ listener \in [Connects -> Phases]
        /\ sending \in [Sends -> Sendings] /\ pool \in Ids /\ opened \subseteq Connects
        /\ cancelled \subseteq Connects /\ skewed \subseteq Connects /\ reaped \in BOOLEAN
        /\ signal \in [at : {"new", "held", "done"}, of : Ids]
    BY WebTypes
  <1>2. ListenerOf(c) \in Closers
    BY CloserNames
  <1>3. Of(c) \in Connects
    BY <1>1, <1>2 DEF Named
  <1>4. /\ entry' \in [Connects -> Entries] /\ closer' \in [Closers -> Closings]
        /\ cancelled' \subseteq Connects
        /\ \A d \in Connects : entry'[d].refs = entry[d].refs
    BY <1>1, <1>2, <1>3, BeginCloseTypes
  <1>5. WebSocketsTypeOK'
    BY <1>1, <1>4, WebTypesAfter DEF Phases
  <1>6. Named'
    BY DEF Named, Held
  <1>7. RefsExact'
    BY <1>4, RefsKept
  <1> QED BY <1>5, <1>6, <1>7

\* A closing listener ends.
LEMMA ListenerDoneRefs ==
    ASSUME NEW c \in Connects
    PROVE  RefsInv /\ ListenerDone(c) => RefsInv'
  <1> SUFFICES ASSUME RefsInv, ListenerDone(c) PROVE RefsInv'
    OBVIOUS
  <1> USE DEF RefsInv, ListenerDone, Of, Listens, Conn, socketVars,
         requestVars
  <1>1. /\ entry \in [Connects -> Entries] /\ conn \in [Connects -> Conns]
        /\ closer \in [Closers -> Closings] /\ listener \in [Connects -> Phases]
        /\ sending \in [Sends -> Sendings] /\ pool \in Ids /\ opened \subseteq Connects
        /\ cancelled \subseteq Connects /\ skewed \subseteq Connects /\ reaped \in BOOLEAN
        /\ signal \in [at : {"new", "held", "done"}, of : Ids]
    BY WebTypes
  <1>2. ListenerOf(c) \in Closers
    BY CloserNames
  <1>3. Of(c) \in Connects
    BY <1>1, <1>2 DEF Named
  <1>4. /\ entry' \in [Connects -> Entries] /\ closer' \in [Closers -> Closings]
        /\ opened' \subseteq Connects
        /\ \A d \in Connects : entry'[d].refs = entry[d].refs
    <2>1. CASE c \in cancelled
      <3>1. PICK e \in Connects : e = Of(c)
        BY <1>3
      <3>2. entry' = [entry EXCEPT ![e].closedEvent = TRUE]
        BY <2>1, <3>1
      <3>3. entry' \in [Connects -> Entries] /\ \A d \in Connects : entry'[d].refs = entry[d].refs
        BY ONLY <1>1, <3>2 DEF Entries
      <3> QED BY <1>1, <2>1, <3>3 DEF NotClosing, Closings, Ids
    <2>2. CASE c \notin cancelled
      BY <1>2, <2>2, SocketClosedTypes
    <2> QED BY <2>1, <2>2
  <1>5. WebSocketsTypeOK'
    BY <1>1, <1>4, WebTypesAfter DEF Phases
  <1>6. Named'
    BY DEF Named, Held
  <1>7. RefsExact'
    BY <1>4, RefsKept
  <1> QED BY <1>5, <1>6, <1>7

\* The request wakes.
LEMMA OwnerWakesRefs ==
    ASSUME NEW c \in Connects
    PROVE  RefsInv /\ OwnerWakes(c) => RefsInv'
  <1> SUFFICES ASSUME RefsInv, OwnerWakes(c) PROVE RefsInv'
    OBVIOUS
  <1> USE DEF RefsInv, OwnerWakes, Of, Listens, Conn, socketVars, requestVars
  <1>1. /\ entry \in [Connects -> Entries] /\ conn \in [Connects -> Conns]
        /\ closer \in [Closers -> Closings] /\ listener \in [Connects -> Phases]
        /\ sending \in [Sends -> Sendings] /\ pool \in Ids /\ opened \subseteq Connects
        /\ cancelled \subseteq Connects /\ skewed \subseteq Connects /\ reaped \in BOOLEAN
        /\ signal \in [at : {"new", "held", "done"}, of : Ids]
    BY WebTypes
  <1>2. WebSocketsTypeOK'
    BY <1>1, WebTypesAfter DEF Conns
  <1>3. Named'
    BY DEF Named, Held
  <1>4. RefsExact'
    BY RefsKept
  <1> QED BY <1>2, <1>3, <1>4

\* The request is cancelled.
LEMMA CancelOwnerRefs ==
    ASSUME NEW c \in Connects
    PROVE  RefsInv /\ CancelOwner(c) => RefsInv'
  <1> SUFFICES ASSUME RefsInv, CancelOwner(c) PROVE RefsInv'
    OBVIOUS
  <1> USE DEF RefsInv, CancelOwner, Of, Listens, Conn, socketVars,
         requestVars
  <1>1. /\ entry \in [Connects -> Entries] /\ conn \in [Connects -> Conns]
        /\ closer \in [Closers -> Closings] /\ listener \in [Connects -> Phases]
        /\ sending \in [Sends -> Sendings] /\ pool \in Ids /\ opened \subseteq Connects
        /\ cancelled \subseteq Connects /\ skewed \subseteq Connects /\ reaped \in BOOLEAN
        /\ signal \in [at : {"new", "held", "done"}, of : Ids]
    BY WebTypes
  <1>2. WebSocketsTypeOK'
    BY <1>1, WebTypesAfter DEF Conns
  <1>3. Named'
    BY DEF Named, Held
  <1>4. RefsExact'
    BY RefsKept
  <1> QED BY <1>2, <1>3, <1>4

\* The request begins to close the entry of its URL.
LEMMA OwnerClosesRefs ==
    ASSUME NEW c \in Connects
    PROVE  RefsInv /\ OwnerCloses(c) => RefsInv'
  <1> SUFFICES ASSUME RefsInv, OwnerCloses(c) PROVE RefsInv'
    OBVIOUS
  <1> USE DEF RefsInv, OwnerCloses, Of, Listens, Conn, socketVars,
         requestVars
  <1>1. /\ entry \in [Connects -> Entries] /\ conn \in [Connects -> Conns]
        /\ closer \in [Closers -> Closings] /\ listener \in [Connects -> Phases]
        /\ sending \in [Sends -> Sendings] /\ pool \in Ids /\ opened \subseteq Connects
        /\ cancelled \subseteq Connects /\ skewed \subseteq Connects /\ reaped \in BOOLEAN
        /\ signal \in [at : {"new", "held", "done"}, of : Ids]
    BY WebTypes
  <1>2. OwnerOf(c) \in Closers
    BY CloserNames
  <1>3. pool # 0 => pool \in Connects
    BY <1>1, <1>2 DEF Ids
  <1>4. /\ entry' \in [Connects -> Entries] /\ closer' \in [Closers -> Closings]
        /\ cancelled' \subseteq Connects
        /\ \A d \in Connects : entry'[d].refs = entry[d].refs
    BY <1>1, <1>2, <1>3, BeginCloseTypes
  <1>5. conn' \in [Connects -> Conns] /\ pool' \in Ids
    BY <1>1 DEF Conns, Ids
  <1>6. WebSocketsTypeOK'
    BY <1>1, <1>4, <1>5, WebTypesAfter
  <1>7. Named'
    BY <1>5 DEF Named, Held, Conns
  <1>8. RefsExact'
    BY <1>4, RefsKept
  <1> QED BY <1>6, <1>7, <1>8

\* The request ends and empties the pool.
LEMMA OwnerDoneRefs ==
    ASSUME NEW c \in Connects
    PROVE  RefsInv /\ OwnerDone(c) => RefsInv'
  <1> SUFFICES ASSUME RefsInv, OwnerDone(c) PROVE RefsInv'
    OBVIOUS
  <1> USE DEF RefsInv, OwnerDone, Of, Listens, Conn, socketVars, requestVars
  <1>1. /\ entry \in [Connects -> Entries] /\ conn \in [Connects -> Conns]
        /\ closer \in [Closers -> Closings] /\ listener \in [Connects -> Phases]
        /\ sending \in [Sends -> Sendings] /\ pool \in Ids /\ opened \subseteq Connects
        /\ cancelled \subseteq Connects /\ skewed \subseteq Connects /\ reaped \in BOOLEAN
        /\ signal \in [at : {"new", "held", "done"}, of : Ids]
    BY WebTypes
  <1>2. OwnerOf(c) \in Closers
    BY CloserNames
  <1>3. /\ entry' \in [Connects -> Entries] /\ closer' \in [Closers -> Closings]
        /\ opened' \subseteq Connects
        /\ \A d \in Connects : entry'[d].refs = entry[d].refs
    BY <1>1, <1>2, SocketClosedTypes
  <1>4. WebSocketsTypeOK'
    BY <1>1, <1>3, WebTypesAfter DEF Conns, Ids
  <1>5. Named'
    BY DEF Named, Held
  <1>6. RefsExact'
    BY <1>3, RefsKept
  <1> QED BY <1>4, <1>5, <1>6

\* The reaper begins to close the entry of the URL.
LEMMA ReaperClosesRefs == RefsInv /\ ReaperCloses => RefsInv'
  <1> SUFFICES ASSUME RefsInv, ReaperCloses PROVE RefsInv'
    OBVIOUS
  <1> USE DEF RefsInv, ReaperCloses, Of, Listens, Conn, socketVars,
         requestVars
  <1>1. /\ entry \in [Connects -> Entries] /\ conn \in [Connects -> Conns]
        /\ closer \in [Closers -> Closings] /\ listener \in [Connects -> Phases]
        /\ sending \in [Sends -> Sendings] /\ pool \in Ids /\ opened \subseteq Connects
        /\ cancelled \subseteq Connects /\ skewed \subseteq Connects /\ reaped \in BOOLEAN
        /\ signal \in [at : {"new", "held", "done"}, of : Ids]
    BY WebTypes
  <1>2. Reaper \in Closers
    BY CloserNames
  <1>3. pool # 0 => pool \in Connects
    BY <1>1, <1>2 DEF Ids
  <1>4. /\ entry' \in [Connects -> Entries] /\ closer' \in [Closers -> Closings]
        /\ cancelled' \subseteq Connects
        /\ \A d \in Connects : entry'[d].refs = entry[d].refs
    BY <1>1, <1>2, <1>3, BeginCloseTypes
  <1>5. WebSocketsTypeOK'
    BY <1>1, <1>4, WebTypesAfter DEF Ids
  <1>6. Named'
    BY DEF Named, Held
  <1>7. RefsExact'
    BY <1>4, RefsKept
  <1> QED BY <1>5, <1>6, <1>7

\* The reaper ends and empties the pool.
LEMMA ReaperDoneRefs == RefsInv /\ ReaperDone => RefsInv'
  <1> SUFFICES ASSUME RefsInv, ReaperDone PROVE RefsInv'
    OBVIOUS
  <1> USE DEF RefsInv, ReaperDone, Of, Listens, Conn, socketVars, requestVars
  <1>1. /\ entry \in [Connects -> Entries] /\ conn \in [Connects -> Conns]
        /\ closer \in [Closers -> Closings] /\ listener \in [Connects -> Phases]
        /\ sending \in [Sends -> Sendings] /\ pool \in Ids /\ opened \subseteq Connects
        /\ cancelled \subseteq Connects /\ skewed \subseteq Connects /\ reaped \in BOOLEAN
        /\ signal \in [at : {"new", "held", "done"}, of : Ids]
    BY WebTypes
  <1>2. Reaper \in Closers
    BY CloserNames
  <1>3. /\ entry' \in [Connects -> Entries] /\ closer' \in [Closers -> Closings]
        /\ opened' \subseteq Connects
        /\ \A d \in Connects : entry'[d].refs = entry[d].refs
    BY <1>1, <1>2, SocketClosedTypes
  <1>4. WebSocketsTypeOK'
    BY <1>1, <1>3, WebTypesAfter DEF Ids
  <1>5. Named'
    BY DEF Named, Held
  <1>6. RefsExact'
    BY <1>3, RefsKept
  <1> QED BY <1>4, <1>5, <1>6

\* A close() has joined the listener.
LEMMA JoinedRefs ==
    ASSUME NEW x \in Closers
    PROVE  RefsInv /\ Joined(x) => RefsInv'
  <1> SUFFICES ASSUME RefsInv, Joined(x) PROVE RefsInv'
    OBVIOUS
  <1> USE DEF RefsInv, Joined, Of, Listens, Conn, socketVars, requestVars
  <1>1. /\ entry \in [Connects -> Entries] /\ conn \in [Connects -> Conns]
        /\ closer \in [Closers -> Closings] /\ listener \in [Connects -> Phases]
        /\ sending \in [Sends -> Sendings] /\ pool \in Ids /\ opened \subseteq Connects
        /\ cancelled \subseteq Connects /\ skewed \subseteq Connects /\ reaped \in BOOLEAN
        /\ signal \in [at : {"new", "held", "done"}, of : Ids]
    BY WebTypes
  <1>2. closer' \in [Closers -> Closings]
    BY <1>1 DEF Closings
  <1>3. WebSocketsTypeOK'
    BY <1>1, <1>2, WebTypesAfter DEF Ids
  <1>4. Named'
    BY DEF Named, Held
  <1>5. RefsExact'
    BY RefsKept
  <1> QED BY <1>3, <1>4, <1>5

\* A send holds the entry it looked up.
LEMMA AcquireSendRefs ==
    ASSUME NEW s \in Sends
    PROVE  RefsInv /\ AcquireSend(s) => RefsInv'
  <1> SUFFICES ASSUME RefsInv, AcquireSend(s) PROVE RefsInv'
    OBVIOUS
  <1> USE DEF RefsInv, AcquireSend, Of, Listens, Conn, socketVars,
         requestVars
  <1>1. /\ entry \in [Connects -> Entries] /\ conn \in [Connects -> Conns]
        /\ closer \in [Closers -> Closings] /\ listener \in [Connects -> Phases]
        /\ sending \in [Sends -> Sendings] /\ pool \in Ids /\ opened \subseteq Connects
        /\ cancelled \subseteq Connects /\ skewed \subseteq Connects /\ reaped \in BOOLEAN
        /\ signal \in [at : {"new", "held", "done"}, of : Ids]
    BY WebTypes
  <1>2. pool # 0 => pool \in Connects
    BY <1>1 DEF Ids
  <1>3. /\ entry' \in [Connects -> Entries]
        /\ \A d \in Connects : entry'[d].refs =
              IF d = pool /\ ~reaped THEN entry[d].refs + 1 ELSE entry[d].refs
    BY <1>1, <1>2, WebSocketsAssumption DEF Entries
  <1>4. WebSocketsTypeOK'
    BY <1>1, <1>3, WebTypesAfter DEF Ids, Sendings
  <1>5. Named'
    BY <1>1, <1>2 DEF Named, Held, Sendings
  <1>6. RefsExact'
    <2>1. CASE pool = 0 \/ reaped
      <3>1. \A d \in Connects : Holders(d)' = Holders(d) /\ Signals(d)' = Signals(d)
        BY <1>1, <2>1 DEF Holders, Held, Signals, Sendings
      <3> QED BY <2>1, <3>1, RefsCounted
    <2>2. CASE pool # 0 /\ ~reaped
      <3>1. \A d \in Connects : /\ Holders(d)' = IF d = pool THEN Holders(d) \cup {s} ELSE Holders(d)
                                /\ Signals(d)' = Signals(d) /\ s \notin Holders(d)
                                /\ Signals(d) \in Int
        BY <1>1, <2>2 DEF Holders, Held, Signals
      <3> QED BY <1>3, <2>2, <3>1, RefsCounted, HoldersCount
    <2> QED BY <2>1, <2>2
  <1> QED BY <1>4, <1>5, <1>6

\* A send looks its entry up again.
LEMMA BeginSendRefs ==
    ASSUME NEW s \in Sends
    PROVE  RefsInv /\ BeginSend(s) => RefsInv'
  <1> SUFFICES ASSUME RefsInv, BeginSend(s) PROVE RefsInv'
    OBVIOUS
  <1> USE DEF RefsInv, BeginSend, Of, Listens, Conn, socketVars, requestVars
  <1>1. /\ entry \in [Connects -> Entries] /\ conn \in [Connects -> Conns]
        /\ closer \in [Closers -> Closings] /\ listener \in [Connects -> Phases]
        /\ sending \in [Sends -> Sendings] /\ pool \in Ids /\ opened \subseteq Connects
        /\ cancelled \subseteq Connects /\ skewed \subseteq Connects /\ reaped \in BOOLEAN
        /\ signal \in [at : {"new", "held", "done"}, of : Ids]
    BY WebTypes
  <1>2. sending[s].of \in Connects
    BY <1>1 DEF Named, Held
  <1>3. sending' \in [Sends -> Sendings] /\ skewed' \subseteq Connects
    BY <1>1, <1>2 DEF Sendings, Ids
  <1>4. WebSocketsTypeOK'
    BY <1>1, <1>3, WebTypesAfter
  <1>5. Named'
    BY <1>3 DEF Named, Held, Sendings
  <1>6. RefsExact'
    <2>1. \A d \in Connects \ skewed' : Holders(d)' = Holders(d) /\ Signals(d)' = Signals(d)
      BY <1>1 DEF Holders, Held, Signals, Sendings
    <2> QED BY <2>1, RefsCounted
  <1> QED BY <1>4, <1>5, <1>6

\* A send gives its reference back.
LEMMA SentRefs ==
    ASSUME NEW s \in Sends
    PROVE  RefsInv /\ Sent(s) => RefsInv'
  <1> SUFFICES ASSUME RefsInv, Sent(s) PROVE RefsInv'
    OBVIOUS
  <1> USE DEF RefsInv, Sent, Of, Listens, Conn, socketVars, requestVars
  <1>1. /\ entry \in [Connects -> Entries] /\ conn \in [Connects -> Conns]
        /\ closer \in [Closers -> Closings] /\ listener \in [Connects -> Phases]
        /\ sending \in [Sends -> Sendings] /\ pool \in Ids /\ opened \subseteq Connects
        /\ cancelled \subseteq Connects /\ skewed \subseteq Connects /\ reaped \in BOOLEAN
        /\ signal \in [at : {"new", "held", "done"}, of : Ids]
    BY WebTypes
  <1>2. sending[s].of \in Connects
    BY <1>1 DEF Named, Held
  <1>3. /\ entry' \in [Connects -> Entries]
        /\ \A d \in Connects : entry'[d].refs =
              IF d = sending[s].of THEN entry[d].refs - 1 ELSE entry[d].refs
    BY <1>1, <1>2, EntryMethods
  <1>4. WebSocketsTypeOK'
    BY <1>1, <1>3, WebTypesAfter DEF Sendings
  <1>5. Named'
    BY DEF Named, Held
  <1>6. RefsExact'
    <2>1. \A d \in Connects : /\ Holders(d)' = IF d = sending[s].of THEN Holders(d) \ {s} ELSE Holders(d)
                              /\ Signals(d)' = Signals(d) /\ Signals(d) \in Int
      BY <1>1 DEF Holders, Held, Signals
    <2>2. s \in Holders(sending[s].of)
      BY DEF Holders, Held
    <2> QED BY <1>3, <2>1, <2>2, RefsCounted, HoldersCount
  <1> QED BY <1>4, <1>5, <1>6

\* A send that raises keeps its reference.
LEMMA SendRaisesRefs ==
    ASSUME NEW s \in Sends
    PROVE  RefsInv /\ SendRaises(s) => RefsInv'
  <1> SUFFICES ASSUME RefsInv, SendRaises(s) PROVE RefsInv'
    OBVIOUS
  <1> USE DEF RefsInv, SendRaises, Of, Listens, Conn, socketVars, requestVars
  <1>1. /\ entry \in [Connects -> Entries] /\ conn \in [Connects -> Conns]
        /\ closer \in [Closers -> Closings] /\ listener \in [Connects -> Phases]
        /\ sending \in [Sends -> Sendings] /\ pool \in Ids /\ opened \subseteq Connects
        /\ cancelled \subseteq Connects /\ skewed \subseteq Connects /\ reaped \in BOOLEAN
        /\ signal \in [at : {"new", "held", "done"}, of : Ids]
    BY WebTypes
  <1>2. sending[s].of \in Connects
    BY <1>1 DEF Named, Held
  <1>3. WebSocketsTypeOK'
    BY <1>1, <1>2, WebTypesAfter DEF Sendings
  <1>4. Named'
    BY DEF Named, Held
  <1>5. RefsExact'
    <2>1. \A d \in Connects \ skewed' : Holders(d)' = Holders(d) /\ Signals(d)' = Signals(d)
      BY DEF Holders, Held, Signals
    <2> QED BY <2>1, RefsCounted
  <1> QED BY <1>3, <1>4, <1>5

\* The end signal holds the entry of its key.
LEMMA HoldSignalRefs == RefsInv /\ HoldSignal => RefsInv'
  <1> SUFFICES ASSUME RefsInv, HoldSignal PROVE RefsInv'
    OBVIOUS
  <1> USE DEF RefsInv, HoldSignal, Of, Listens, Conn, socketVars, requestVars
  <1>1. /\ entry \in [Connects -> Entries] /\ conn \in [Connects -> Conns]
        /\ closer \in [Closers -> Closings] /\ listener \in [Connects -> Phases]
        /\ sending \in [Sends -> Sendings] /\ pool \in Ids /\ opened \subseteq Connects
        /\ cancelled \subseteq Connects /\ skewed \subseteq Connects /\ reaped \in BOOLEAN
        /\ signal \in [at : {"new", "held", "done"}, of : Ids]
    BY WebTypes
  <1>2. pool # 0 => pool \in Connects
    BY <1>1 DEF Ids
  <1>3. /\ entry' \in [Connects -> Entries]
        /\ \A d \in Connects : entry'[d].refs =
              IF d = pool THEN entry[d].refs + 1 ELSE entry[d].refs
    BY <1>1, <1>2, WebSocketsAssumption DEF Entries
  <1>4. WebSocketsTypeOK'
    BY <1>1, <1>3, WebTypesAfter
  <1>5. Named'
    BY <1>3 DEF Named, Held
  <1>6. RefsExact'
    <2>1. \A d \in Connects : /\ Holders(d)' = Holders(d) /\ Signals(d) = 0
                              /\ Signals(d)' = IF d = pool THEN 1 ELSE 0
      BY <1>1 DEF Holders, Held, Signals
    <2> QED BY <1>3, <2>1, RefsCounted, HoldersCount
  <1> QED BY <1>4, <1>5, <1>6

\* The end signal marks the entry and gives its reference back.
LEMMA EndWebSocketRefs == RefsInv /\ EndWebSocket => RefsInv'
  <1> SUFFICES ASSUME RefsInv, EndWebSocket PROVE RefsInv'
    OBVIOUS
  <1> USE DEF RefsInv, EndWebSocket, Of, Listens, Conn, socketVars,
         requestVars
  <1>1. /\ entry \in [Connects -> Entries] /\ conn \in [Connects -> Conns]
        /\ closer \in [Closers -> Closings] /\ listener \in [Connects -> Phases]
        /\ sending \in [Sends -> Sendings] /\ pool \in Ids /\ opened \subseteq Connects
        /\ cancelled \subseteq Connects /\ skewed \subseteq Connects /\ reaped \in BOOLEAN
        /\ signal \in [at : {"new", "held", "done"}, of : Ids]
    BY WebTypes
  <1>2. pool # 0 => pool \in Connects
    BY <1>1 DEF Ids
  <1>3. /\ entry' \in [Connects -> Entries]
        /\ \A d \in Connects : entry'[d].refs =
              IF d = pool THEN entry[d].refs - 1 ELSE entry[d].refs
    BY <1>1, <1>2, EndedEntry, WebSocketsAssumption
  <1>4. WebSocketsTypeOK'
    BY <1>1, <1>2, <1>3, WebTypesAfter DEF Named
  <1>5. Named'
    BY DEF Named, Held
  <1>6. RefsExact'
    <2>1. \A d \in Connects : /\ Holders(d)' = Holders(d) /\ Signals(d)' = 0
                              /\ Signals(d) = IF d = signal.of THEN 1 ELSE 0
      BY <1>1 DEF Holders, Held, Signals
    <2>2. \A d \in Connects \ skewed' : d = pool <=> d = signal.of
      BY <1>1, WebSocketsAssumption
    <2> QED BY <1>3, <2>1, RefsCounted, HoldersCount
  <1> QED BY <1>4, <1>5, <1>6

---------------------------------------------------------------------------
(* WebSockets: sockets.                                                    *)

Alive(c) == conn[c].at \in {"waiting", "leaving", "closing"}

\* A request that made an entry; the others were met by one.
Made(c) == conn[c].at # "new" /\ Of(c) = c

\* A request has the entry, the listener and the socket it is named after, or
\* none of them.
OwnEntry ==
    \A c \in Connects :
        /\ entry[c].websocket \in {0, c}
        /\ Made(c) => entry[c].task = c
        /\ ~Made(c) => /\ entry[c].task = 0 /\ entry[c].websocket = 0
                       /\ ~entry[c].closed /\ listener[c] = "none"
                       /\ conn[c].at \in {"new", "reusing", "done"}

\* The pool holds the entry of the request that is under way; once the
\* session was reaped it may hold none.
PoolHeld ==
    /\ pool # 0 => Made(pool)
    /\ \A c \in Connects : /\ Alive(c) => pool = c \/ (pool = 0 /\ reaped)
                           /\ pool = c => Alive(c) \/ reaped

\* An entry that is not closed can still be found; a reaped session, a
\* closing owner and a closing listener leave only closed ones.
StillOpen ==
    \A c \in Connects :
        /\ Made(c) /\ ~entry[c].closed => pool = c /\ ~reaped
        /\ conn[c].at = "closing" => entry[c].closed
        /\ listener[c] = "closing" => entry[c].closed

\* A listener that nobody cancelled has an entry nobody closed.
Running ==
    \A c \in Connects :
        /\ c \in cancelled => entry[c].closed /\ listener[c] # "closing"
        /\ listener[c] \in {"connecting", "listening", "dispatching"} /\ c \notin cancelled
               => ~entry[c].closed

\* A close() belongs to whoever is in it.
ClosersBusy ==
    /\ \A x \in Closers : closer[x].phase = "no" => closer[x] = NotClosing
    /\ \A c \in Connects :
          /\ closer[ListenerOf(c)].phase # "no" => listener[c] = "closing"
          /\ closer[OwnerOf(c)].phase # "no" => conn[c].at = "closing"
    /\ closer[Reaper].phase # "no" => reaped

SocketInv ==
    OwnEntry /\ PoolHeld /\ StillOpen /\ Running /\ ClosersBusy /\ NoSocketLeft

SocketIndInv == RefsInv /\ SocketInv

\* A step that opens, closes and cancels nothing and starts or ends nobody.
LEMMA SocketsKept ==
    ASSUME SocketInv,
           \A e \in Connects : /\ entry'[e].task = entry[e].task
                               /\ entry'[e].websocket = entry[e].websocket
                               /\ entry'[e].closed = entry[e].closed,
           UNCHANGED <<pool, opened, listener, cancelled, closer, conn, reaped>>
    PROVE  SocketInv'
  BY DEF SocketInv, OwnEntry, PoolHeld, StillOpen, Running, ClosersBusy,
         NoSocketLeft, Alive, Made, Of

\* A close() that begins takes over the socket of its entry.
LEMMA BeginCloseEffect ==
    ASSUME WebSocketsTypeOK, NEW x \in Closers, NEW e \in Connects, NEW self,
           BeginClose(x, e, self), closer[x] = NotClosing
    PROVE  /\ \A d \in Connects : /\ entry'[d].task = entry[d].task
                                  /\ entry'[d].websocket = entry[d].websocket
                                  /\ entry'[d].closed <=> entry[d].closed \/ d = e
           /\ \A y \in Closers : y # x => closer'[y] = closer[y]
           /\ entry[e].closed => closer' = closer /\ cancelled' = cancelled
           /\ ~entry[e].closed => /\ closer'[x].phase # "no"
                                 /\ closer'[x].websocket = entry[e].websocket
           /\ NoSocketLeft /\ opened' = opened => NoSocketLeft'
  <1>1. /\ entry \in [Connects -> Entries] /\ closer \in [Closers -> Closings]
        /\ opened \subseteq Connects
    BY WebTypes
  <1>2. \A d \in Connects : /\ entry'[d].task = entry[d].task
                            /\ entry'[d].websocket = entry[d].websocket
                            /\ entry'[d].closed <=> entry[d].closed \/ d = e
    <2>1. CASE entry[e].closed /\ entry' = [entry EXCEPT ![e].closedEvent = TRUE]
      BY <1>1, <2>1 DEF Entries
    <2>2. CASE entry' = [entry EXCEPT ![e].closed = TRUE, ![e].stopped = TRUE]
      BY <1>1, <2>2 DEF Entries
    <2> QED BY <2>1, <2>2 DEF BeginClose
  <1>3. /\ \A y \in Closers : y # x => closer'[y] = closer[y]
        /\ entry[e].closed => closer' = closer /\ cancelled' = cancelled
        /\ ~entry[e].closed => /\ closer'[x].phase # "no"
                              /\ closer'[x].websocket = entry[e].websocket
    BY <1>1 DEF BeginClose, Closings
  <1>4. ASSUME NoSocketLeft, opened' = opened, NEW k \in opened
        PROVE  \/ \E y \in Closers : closer'[y].websocket = k
               \/ \E d \in Connects : entry'[d].websocket = k /\ ~entry'[d].closed
    <2>1. k # 0 /\ closer[x].websocket = 0
      BY <1>1, WebSocketsAssumption DEF NotClosing
    <2>2. CASE \E y \in Closers : closer[y].websocket = k
      BY <1>3, <2>1, <2>2
    <2>3. ASSUME NEW d \in Connects, entry[d].websocket = k, ~entry[d].closed
          PROVE  \/ \E y \in Closers : closer'[y].websocket = k
                 \/ \E b \in Connects : entry'[b].websocket = k /\ ~entry'[b].closed
      BY <1>2, <1>3, <2>3
    <2> QED BY <1>4, <2>2, <2>3 DEF NoSocketLeft
  <1> QED BY <1>2, <1>3, <1>4 DEF NoSocketLeft

\* A close() that ends closes the socket it took over.
LEMMA SocketClosedEffect ==
    ASSUME WebSocketsTypeOK, NEW x \in Closers, SocketClosed(x)
    PROVE  /\ \A d \in Connects : /\ entry'[d].task = entry[d].task
                                  /\ entry'[d].websocket = entry[d].websocket
                                  /\ entry'[d].closed = entry[d].closed
           /\ \A y \in Closers : y # x => closer'[y] = closer[y]
           /\ closer'[x] = NotClosing
           /\ NoSocketLeft => NoSocketLeft'
  <1>1. /\ entry \in [Connects -> Entries] /\ closer \in [Closers -> Closings]
        /\ opened \subseteq Connects
    BY WebTypes
  <1>2. \A d \in Connects : /\ entry'[d].task = entry[d].task
                            /\ entry'[d].websocket = entry[d].websocket
                            /\ entry'[d].closed = entry[d].closed
    BY <1>1 DEF SocketClosed, Entries
  <1>3. /\ \A y \in Closers : y # x => closer'[y] = closer[y]
        /\ closer'[x] = NotClosing
        /\ opened' = opened \ {closer[x].websocket}
    BY <1>1 DEF SocketClosed
  <1>4. NoSocketLeft => NoSocketLeft'
    BY <1>2, <1>3 DEF NoSocketLeft
  <1> QED BY <1>2, <1>3, <1>4

\* A connect request makes the entry of its URL.
LEMMA ConnectSockets ==
    ASSUME NEW c \in Connects
    PROVE  SocketIndInv /\ Connect(c) => SocketInv'
  <1> SUFFICES ASSUME SocketIndInv, Connect(c) PROVE SocketInv'
    OBVIOUS
  <1> USE DEF SocketIndInv, SocketInv, Connect, Turn, Of, Made, Listens, Conn, socketVars,
         requestVars
  <1>1. /\ entry \in [Connects -> Entries] /\ conn \in [Connects -> Conns]
        /\ closer \in [Closers -> Closings] /\ listener \in [Connects -> Phases]
        /\ pool \in Ids /\ opened \subseteq Connects
    BY WebTypes DEF RefsInv
  <1>2. OwnEntry'
    BY <1>1 DEF OwnEntry
  <1>3. PoolHeld'
    BY <1>1, WebSocketsAssumption DEF PoolHeld, Alive
  <1>4. StillOpen'
    BY WebSocketsAssumption DEF StillOpen
  <1>5. Running'
    BY DEF OwnEntry, Running
  <1>6. ClosersBusy'
    BY DEF OwnEntry, ClosersBusy
  <1>7. NoSocketLeft'
    BY DEF StillOpen, NoSocketLeft, Entries
  <1> QED BY <1>2, <1>3, <1>4, <1>5, <1>6, <1>7

\* A request that meets an entry makes none.
LEMMA ReuseSockets ==
    ASSUME NEW c \in Connects
    PROVE  SocketIndInv /\ Reuse(c) => SocketInv'
  <1> SUFFICES ASSUME SocketIndInv, Reuse(c) PROVE SocketInv'
    OBVIOUS
  <1> USE DEF SocketIndInv, SocketInv, Reuse, Turn, Of, Made, Listens, Conn,
         socketVars, requestVars
  <1>1. /\ entry \in [Connects -> Entries] /\ conn \in [Connects -> Conns]
        /\ closer \in [Closers -> Closings] /\ listener \in [Connects -> Phases]
        /\ pool \in Ids /\ opened \subseteq Connects
    BY WebTypes DEF RefsInv
  <1>2. /\ \A d \in Connects : /\ entry'[d].task = entry[d].task
                               /\ entry'[d].websocket = entry[d].websocket
                               /\ entry'[d].closed = entry[d].closed
        /\ UNCHANGED <<pool, opened, listener, cancelled, closer, reaped>>
    <2>1. pool \in Connects
      BY <1>1 DEF Ids
    <2>2. CASE entry[pool].websocket = 0
      <3>1. \A en \in Entries : /\ Released(en).task = en.task
                                 /\ Released(en).websocket = en.websocket
                                 /\ Released(en).closed = en.closed
        BY DEF Entries, Released
      <3> QED BY <1>1, <2>1, <2>2, <3>1
    <2>3. CASE entry[pool].websocket # 0
      BY <2>3
    <2> QED BY <2>2, <2>3
  <1>3. /\ ~Made(c) /\ ~Made(c)' /\ conn[c].at = "new" /\ conn'[c].at \in {"reusing", "done"}
        /\ \A d \in Connects : d # c => conn'[d] = conn[d]
    BY <1>1, WebSocketsAssumption DEF PoolHeld, Conns
  <1>4. OwnEntry'
    BY <1>2, <1>3 DEF OwnEntry
  <1>5. PoolHeld'
    <2>1. pool' = pool /\ pool # c /\ reaped' = reaped
      BY <1>2, <1>3 DEF PoolHeld
    <2>2. pool \in Connects
      BY <1>1 DEF Ids
    <2>3. ~Alive(c)'
      BY <1>3 DEF Alive
    <2> QED BY <1>3, <2>1, <2>2, <2>3 DEF PoolHeld, Alive
  <1>6. StillOpen'
    BY <1>2, <1>3 DEF StillOpen
  <1>7. Running'
    BY <1>2, <1>3 DEF Running
  <1>8. ClosersBusy'
    BY <1>2, <1>3 DEF ClosersBusy
  <1>9. NoSocketLeft'
    BY <1>2 DEF NoSocketLeft
  <1> QED BY <1>4, <1>5, <1>6, <1>7, <1>8, <1>9

\* It ends and leaves every entry as open as it was.
LEMMA ReusedSockets ==
    ASSUME NEW c \in Connects
    PROVE  SocketIndInv /\ Reused(c) => SocketInv'
  <1> SUFFICES ASSUME SocketIndInv, Reused(c) PROVE SocketInv'
    OBVIOUS
  <1> USE DEF SocketIndInv, SocketInv, Reused, Of, Made, Listens, Conn,
         socketVars, requestVars
  <1>1. /\ entry \in [Connects -> Entries] /\ conn \in [Connects -> Conns]
        /\ closer \in [Closers -> Closings] /\ listener \in [Connects -> Phases]
        /\ pool \in Ids /\ opened \subseteq Connects
    BY WebTypes DEF RefsInv
  <1>2. /\ \A d \in Connects : /\ entry'[d].task = entry[d].task
                               /\ entry'[d].websocket = entry[d].websocket
                               /\ entry'[d].closed = entry[d].closed
        /\ UNCHANGED <<pool, opened, listener, cancelled, closer, reaped>>
    BY <1>1 DEF Released
  <1>3. /\ conn[c].at = "reusing" /\ conn'[c].at = "done" /\ conn'[c].of = conn[c].of
        /\ \A d \in Connects : d # c => conn'[d] = conn[d]
    BY <1>1 DEF Conns
  <1>4. OwnEntry'
    BY <1>2, <1>3 DEF OwnEntry
  <1>5. PoolHeld'
    BY <1>1, <1>2, <1>3 DEF PoolHeld, Alive, Conns
  <1>6. StillOpen'
    BY <1>2, <1>3 DEF StillOpen
  <1>7. Running'
    BY <1>2, <1>3 DEF Running
  <1>8. ClosersBusy'
    BY <1>2, <1>3 DEF ClosersBusy
  <1>9. NoSocketLeft'
    BY <1>2 DEF NoSocketLeft
  <1> QED BY <1>4, <1>5, <1>6, <1>7, <1>8, <1>9

\* It fails and leaves every entry as it was.
LEMMA ReuseRaisesSockets ==
    ASSUME NEW c \in Connects
    PROVE  SocketIndInv /\ ReuseRaises(c) => SocketInv'
  <1> SUFFICES ASSUME SocketIndInv, ReuseRaises(c) PROVE SocketInv'
    OBVIOUS
  <1> USE DEF SocketIndInv, SocketInv, ReuseRaises, Of, Made, Listens, Conn,
         socketVars, requestVars
  <1>1. /\ entry \in [Connects -> Entries] /\ conn \in [Connects -> Conns]
        /\ closer \in [Closers -> Closings] /\ listener \in [Connects -> Phases]
        /\ pool \in Ids /\ opened \subseteq Connects
    BY WebTypes DEF RefsInv
  <1>2. /\ \A d \in Connects : /\ entry'[d].task = entry[d].task
                               /\ entry'[d].websocket = entry[d].websocket
                               /\ entry'[d].closed = entry[d].closed
        /\ UNCHANGED <<pool, opened, listener, cancelled, closer, reaped>>
    BY <1>1 DEF Released
  <1>3. /\ conn[c].at = "reusing" /\ conn'[c].at = "done" /\ conn'[c].of = conn[c].of
        /\ \A d \in Connects : d # c => conn'[d] = conn[d]
    BY <1>1 DEF Conns
  <1>4. OwnEntry'
    BY <1>2, <1>3 DEF OwnEntry
  <1>5. PoolHeld'
    BY <1>1, <1>2, <1>3 DEF PoolHeld, Alive, Conns
  <1>6. StillOpen'
    BY <1>2, <1>3 DEF StillOpen
  <1>7. Running'
    BY <1>2, <1>3 DEF Running
  <1>8. ClosersBusy'
    BY <1>2, <1>3 DEF ClosersBusy
  <1>9. NoSocketLeft'
    BY <1>2 DEF NoSocketLeft
  <1> QED BY <1>4, <1>5, <1>6, <1>7, <1>8, <1>9

\* The socket goes to the entry the pool holds.
LEMMA ConnectedSockets ==
    ASSUME NEW c \in Connects
    PROVE  SocketIndInv /\ Connected(c) => SocketInv'
  <1> SUFFICES ASSUME SocketIndInv, Connected(c) PROVE SocketInv'
    OBVIOUS
  <1> USE DEF SocketIndInv, SocketInv, Connected, Of, Made, Listens, Conn,
         socketVars, requestVars
  <1>1. /\ entry \in [Connects -> Entries] /\ conn \in [Connects -> Conns]
        /\ closer \in [Closers -> Closings] /\ listener \in [Connects -> Phases]
        /\ pool \in Ids /\ opened \subseteq Connects
    BY WebTypes DEF RefsInv
  <1>2. pool = c /\ c # 0 /\ Of(c) = c /\ ~entry[c].closed /\ Made(c)
    BY WebSocketsAssumption DEF OwnEntry, StillOpen, Running
  <1>3. \A d \in Connects : /\ entry'[d].task = entry[d].task
                            /\ entry'[d].closed = entry[d].closed
                            /\ entry'[d].websocket = IF d = c THEN c ELSE entry[d].websocket
    BY <1>1, <1>2 DEF Entries
  <1>4. OwnEntry'
    BY <1>1, <1>3 DEF OwnEntry
  <1>5. PoolHeld'
    BY DEF PoolHeld, Alive
  <1>6. StillOpen'
    BY <1>1, <1>3 DEF StillOpen
  <1>7. Running'
    BY <1>1, <1>3 DEF Running
  <1>8. ClosersBusy'
    BY <1>1 DEF ClosersBusy
  <1>9. NoSocketLeft'
    BY <1>1, <1>2, <1>3, WebSocketsAssumption DEF OwnEntry, NoSocketLeft
  <1> QED BY <1>4, <1>5, <1>6, <1>7, <1>8, <1>9

\* A listener that fails leaves.
LEMMA ListenerFailsSockets ==
    ASSUME NEW c \in Connects
    PROVE  SocketIndInv /\ ListenerFails(c) => SocketInv'
  <1> SUFFICES ASSUME SocketIndInv, ListenerFails(c) PROVE SocketInv'
    OBVIOUS
  <1> USE DEF SocketIndInv, SocketInv, ListenerFails, Of, Made, Listens, Conn,
         socketVars, requestVars
  <1>1. /\ entry \in [Connects -> Entries] /\ conn \in [Connects -> Conns]
        /\ closer \in [Closers -> Closings] /\ listener \in [Connects -> Phases]
        /\ pool \in Ids /\ opened \subseteq Connects
    BY WebTypes DEF RefsInv
  <1>2. OwnEntry'
    BY DEF OwnEntry
  <1>3. PoolHeld'
    BY DEF PoolHeld, Alive
  <1>4. StillOpen'
    BY DEF StillOpen
  <1>5. Running'
    BY DEF Running
  <1>6. ClosersBusy'
    BY DEF ClosersBusy
  <1>7. NoSocketLeft'
    BY DEF NoSocketLeft
  <1> QED BY <1>2, <1>3, <1>4, <1>5, <1>6, <1>7

\* A message is dispatched.
LEMMA MessageSockets ==
    ASSUME NEW c \in Connects
    PROVE  SocketIndInv /\ Message(c) => SocketInv'
  <1> SUFFICES ASSUME SocketIndInv, Message(c) PROVE SocketInv'
    OBVIOUS
  <1> USE DEF SocketIndInv, SocketInv, Message, Of, Made, Listens, Conn, socketVars,
         requestVars
  <1>1. /\ entry \in [Connects -> Entries] /\ conn \in [Connects -> Conns]
        /\ closer \in [Closers -> Closings] /\ listener \in [Connects -> Phases]
        /\ pool \in Ids /\ opened \subseteq Connects
    BY WebTypes DEF RefsInv
  <1>2. OwnEntry'
    BY DEF OwnEntry
  <1>3. PoolHeld'
    BY DEF PoolHeld, Alive
  <1>4. StillOpen'
    BY DEF StillOpen
  <1>5. Running'
    BY <1>1 DEF Running
  <1>6. ClosersBusy'
    BY DEF ClosersBusy
  <1>7. NoSocketLeft'
    BY DEF NoSocketLeft
  <1> QED BY <1>2, <1>3, <1>4, <1>5, <1>6, <1>7

\* A callback may stop its entry.
LEMMA DispatchedSockets ==
    ASSUME NEW c \in Connects
    PROVE  SocketIndInv /\ Dispatched(c) => SocketInv'
  <1> SUFFICES ASSUME SocketIndInv, Dispatched(c) PROVE SocketInv'
    OBVIOUS
  <1> USE DEF SocketIndInv, SocketInv, Dispatched, Of, Made, Listens, Conn,
         socketVars, requestVars
  <1>1. /\ entry \in [Connects -> Entries] /\ conn \in [Connects -> Conns]
        /\ closer \in [Closers -> Closings] /\ listener \in [Connects -> Phases]
        /\ pool \in Ids /\ opened \subseteq Connects
    BY WebTypes DEF RefsInv
  <1>2. \A en \in Entries : /\ StopRequested(en).task = en.task
                             /\ StopRequested(en).websocket = en.websocket
                             /\ StopRequested(en).closed = en.closed
    BY DEF Entries, StopRequested
  <1>3. /\ \A d \in Connects : /\ entry'[d].task = entry[d].task
                               /\ entry'[d].websocket = entry[d].websocket
                               /\ entry'[d].closed = entry[d].closed
        /\ UNCHANGED <<pool, opened, cancelled, closer, conn, reaped>>
        /\ listener' = [listener EXCEPT ![c] = "listening"] /\ listener[c] = "dispatching"
    BY <1>1, <1>2
  <1>4. OwnEntry'
    BY <1>3 DEF OwnEntry
  <1>5. PoolHeld'
    BY DEF PoolHeld, Alive
  <1>6. StillOpen'
    BY <1>3 DEF StillOpen
  <1>7. Running'
    BY <1>3 DEF Running
  <1>8. ClosersBusy'
    BY DEF ClosersBusy
  <1>9. NoSocketLeft'
    BY <1>3 DEF NoSocketLeft
  <1> QED BY <1>4, <1>5, <1>6, <1>7, <1>8, <1>9

\* The peer stops the entry.
LEMMA PeerClosesSockets ==
    ASSUME NEW c \in Connects
    PROVE  SocketIndInv /\ PeerCloses(c) => SocketInv'
  <1> SUFFICES ASSUME SocketIndInv, PeerCloses(c) PROVE SocketInv'
    OBVIOUS
  <1> USE DEF SocketIndInv, PeerCloses, Of, Made, Listens, Conn, socketVars,
         requestVars
  <1>1. /\ entry \in [Connects -> Entries] /\ conn \in [Connects -> Conns]
        /\ closer \in [Closers -> Closings] /\ listener \in [Connects -> Phases]
        /\ pool \in Ids /\ opened \subseteq Connects
    BY WebTypes DEF RefsInv
  <1>2. SocketInv'
    BY SocketsKept DEF StopRequested
  <1> QED BY <1>2

\* A failed ping stops the entry.
LEMMA PingFailsSockets ==
    ASSUME NEW c \in Connects
    PROVE  SocketIndInv /\ PingFails(c) => SocketInv'
  <1> SUFFICES ASSUME SocketIndInv, PingFails(c) PROVE SocketInv'
    OBVIOUS
  <1> USE DEF SocketIndInv, PingFails, Of, Made, Listens, Conn, socketVars,
         requestVars
  <1>1. /\ entry \in [Connects -> Entries] /\ conn \in [Connects -> Conns]
        /\ closer \in [Closers -> Closings] /\ listener \in [Connects -> Phases]
        /\ pool \in Ids /\ opened \subseteq Connects
    BY WebTypes DEF RefsInv
  <1>2. SocketInv'
    BY SocketsKept DEF StopRequested
  <1> QED BY <1>2

\* A stopped listener leaves.
LEMMA SeesStopSockets ==
    ASSUME NEW c \in Connects
    PROVE  SocketIndInv /\ SeesStop(c) => SocketInv'
  <1> SUFFICES ASSUME SocketIndInv, SeesStop(c) PROVE SocketInv'
    OBVIOUS
  <1> USE DEF SocketIndInv, SocketInv, SeesStop, Of, Made, Listens, Conn, socketVars,
         requestVars
  <1>1. /\ entry \in [Connects -> Entries] /\ conn \in [Connects -> Conns]
        /\ closer \in [Closers -> Closings] /\ listener \in [Connects -> Phases]
        /\ pool \in Ids /\ opened \subseteq Connects
    BY WebTypes DEF RefsInv
  <1>2. OwnEntry'
    BY DEF OwnEntry
  <1>3. PoolHeld'
    BY DEF PoolHeld, Alive
  <1>4. StillOpen'
    BY DEF StillOpen
  <1>5. Running'
    BY <1>1 DEF Running
  <1>6. ClosersBusy'
    BY DEF ClosersBusy
  <1>7. NoSocketLeft'
    BY DEF NoSocketLeft
  <1> QED BY <1>2, <1>3, <1>4, <1>5, <1>6, <1>7

\* A cancelled listener leaves.
LEMMA SeesCancelSockets ==
    ASSUME NEW c \in Connects
    PROVE  SocketIndInv /\ SeesCancel(c) => SocketInv'
  <1> SUFFICES ASSUME SocketIndInv, SeesCancel(c) PROVE SocketInv'
    OBVIOUS
  <1> USE DEF SocketIndInv, SocketInv, SeesCancel, Of, Made, Listens, Conn,
         socketVars, requestVars
  <1>1. /\ entry \in [Connects -> Entries] /\ conn \in [Connects -> Conns]
        /\ closer \in [Closers -> Closings] /\ listener \in [Connects -> Phases]
        /\ pool \in Ids /\ opened \subseteq Connects
    BY WebTypes DEF RefsInv
  <1>2. OwnEntry'
    BY DEF OwnEntry
  <1>3. PoolHeld'
    BY DEF PoolHeld, Alive
  <1>4. StillOpen'
    BY DEF StillOpen
  <1>5. Running'
    BY DEF Running
  <1>6. ClosersBusy'
    BY DEF ClosersBusy
  <1>7. NoSocketLeft'
    BY DEF NoSocketLeft
  <1> QED BY <1>2, <1>3, <1>4, <1>5, <1>6, <1>7

\* A leaving listener begins to close its entry.
LEMMA ListenerClosesSockets ==
    ASSUME NEW c \in Connects
    PROVE  SocketIndInv /\ ListenerCloses(c) => SocketInv'
  <1> SUFFICES ASSUME SocketIndInv, ListenerCloses(c) PROVE SocketInv'
    OBVIOUS
  <1> USE DEF SocketIndInv, SocketInv, ListenerCloses, Of, Made, Listens, Conn,
         socketVars, requestVars
  <1>1. /\ entry \in [Connects -> Entries] /\ conn \in [Connects -> Conns]
        /\ closer \in [Closers -> Closings] /\ listener \in [Connects -> Phases]
        /\ pool \in Ids /\ opened \subseteq Connects
    BY WebTypes DEF RefsInv
  <1>2. ListenerOf(c) \in Closers
    BY CloserNames
  <1>3. /\ Of(c) = c /\ closer[ListenerOf(c)] = NotClosing /\ Made(c)
        /\ entry[c].task = c
    BY <1>2 DEF OwnEntry, ClosersBusy
  <1>4. /\ BeginClose(ListenerOf(c), c, c) /\ opened' = opened /\ pool' = pool
        /\ listener' = [listener EXCEPT ![c] = IF entry[c].closed THEN "done" ELSE "closing"]
        /\ conn' = conn /\ reaped' = reaped
    BY <1>3
  <1>5. /\ \A d \in Connects : /\ entry'[d].task = entry[d].task
                               /\ entry'[d].websocket = entry[d].websocket
                               /\ entry'[d].closed <=> entry[d].closed \/ d = c
        /\ \A y \in Closers : y # ListenerOf(c) => closer'[y] = closer[y]
        /\ entry[c].closed => closer' = closer
        /\ ~entry[c].closed => closer'[ListenerOf(c)].phase # "no"
        /\ NoSocketLeft'
    BY <1>2, <1>3, BeginCloseEffect DEF RefsInv
  <1>6. cancelled' = cancelled
    BY <1>3, <1>4 DEF BeginClose
  <1>7. OwnEntry'
    BY <1>5 DEF OwnEntry
  <1>8. PoolHeld'
    BY DEF PoolHeld, Alive
  <1>9. StillOpen'
    BY <1>5 DEF StillOpen
  <1>10. Running'
    BY <1>4, <1>5, <1>6 DEF Running
  <1>11. ClosersBusy'
    BY <1>1, <1>3, <1>5, WebSocketsAssumption, CloserNames DEF ClosersBusy
  <1>12. NoSocketLeft'
    BY <1>5
  <1> QED BY <1>7, <1>8, <1>9, <1>10, <1>11, <1>12

\* A closing listener ends.
LEMMA ListenerDoneSockets ==
    ASSUME NEW c \in Connects
    PROVE  SocketIndInv /\ ListenerDone(c) => SocketInv'
  <1> SUFFICES ASSUME SocketIndInv, ListenerDone(c) PROVE SocketInv'
    OBVIOUS
  <1> USE DEF SocketIndInv, SocketInv, ListenerDone, Of, Made, Listens, Conn,
         socketVars, requestVars
  <1>1. /\ entry \in [Connects -> Entries] /\ conn \in [Connects -> Conns]
        /\ closer \in [Closers -> Closings] /\ listener \in [Connects -> Phases]
        /\ pool \in Ids /\ opened \subseteq Connects
    BY WebTypes DEF RefsInv
  <1>2. ListenerOf(c) \in Closers
    BY CloserNames
  <1>3. /\ \A d \in Connects : /\ entry'[d].task = entry[d].task
                               /\ entry'[d].websocket = entry[d].websocket
                               /\ entry'[d].closed = entry[d].closed
        /\ \A y \in Closers : y # ListenerOf(c) => closer'[y] = closer[y]
        /\ closer'[ListenerOf(c)] = NotClosing /\ NoSocketLeft'
    BY <1>2, SocketClosedEffect DEF RefsInv, Running
  <1>4. OwnEntry'
    BY <1>3 DEF OwnEntry
  <1>5. PoolHeld'
    BY DEF PoolHeld, Alive
  <1>6. StillOpen'
    BY <1>3 DEF StillOpen
  <1>7. Running'
    BY <1>3 DEF Running
  <1>8. ClosersBusy'
    BY <1>3, CloserNames DEF ClosersBusy
  <1>9. NoSocketLeft'
    BY <1>3
  <1> QED BY <1>4, <1>5, <1>6, <1>7, <1>8, <1>9

\* The request wakes.
LEMMA OwnerWakesSockets ==
    ASSUME NEW c \in Connects
    PROVE  SocketIndInv /\ OwnerWakes(c) => SocketInv'
  <1> SUFFICES ASSUME SocketIndInv, OwnerWakes(c) PROVE SocketInv'
    OBVIOUS
  <1> USE DEF SocketIndInv, SocketInv, OwnerWakes, Of, Made, Listens, Conn,
         socketVars, requestVars
  <1>1. /\ entry \in [Connects -> Entries] /\ conn \in [Connects -> Conns]
        /\ closer \in [Closers -> Closings] /\ listener \in [Connects -> Phases]
        /\ pool \in Ids /\ opened \subseteq Connects
    BY WebTypes DEF RefsInv
  <1>2. OwnEntry'
    BY DEF OwnEntry
  <1>3. PoolHeld'
    BY DEF PoolHeld, Alive
  <1>4. StillOpen'
    BY DEF StillOpen
  <1>5. Running'
    BY DEF Running
  <1>6. ClosersBusy'
    BY DEF ClosersBusy
  <1>7. NoSocketLeft'
    BY DEF NoSocketLeft
  <1> QED BY <1>2, <1>3, <1>4, <1>5, <1>6, <1>7

\* The request is cancelled.
LEMMA CancelOwnerSockets ==
    ASSUME NEW c \in Connects
    PROVE  SocketIndInv /\ CancelOwner(c) => SocketInv'
  <1> SUFFICES ASSUME SocketIndInv, CancelOwner(c) PROVE SocketInv'
    OBVIOUS
  <1> USE DEF SocketIndInv, SocketInv, CancelOwner, Of, Made, Listens, Conn,
         socketVars, requestVars
  <1>1. /\ entry \in [Connects -> Entries] /\ conn \in [Connects -> Conns]
        /\ closer \in [Closers -> Closings] /\ listener \in [Connects -> Phases]
        /\ pool \in Ids /\ opened \subseteq Connects
    BY WebTypes DEF RefsInv
  <1>2. OwnEntry'
    BY DEF OwnEntry
  <1>3. PoolHeld'
    BY DEF PoolHeld, Alive
  <1>4. StillOpen'
    BY DEF StillOpen
  <1>5. Running'
    BY DEF Running
  <1>6. ClosersBusy'
    BY DEF ClosersBusy
  <1>7. NoSocketLeft'
    BY DEF NoSocketLeft
  <1> QED BY <1>2, <1>3, <1>4, <1>5, <1>6, <1>7

\* The request begins to close the entry of its URL.
LEMMA OwnerClosesSockets ==
    ASSUME NEW c \in Connects
    PROVE  SocketIndInv /\ OwnerCloses(c) => SocketInv'
  <1> SUFFICES ASSUME SocketIndInv, OwnerCloses(c) PROVE SocketInv'
    OBVIOUS
  <1> USE DEF SocketIndInv, SocketInv, OwnerCloses, Of, Made, Listens, Conn,
         socketVars, requestVars
  <1>1. /\ entry \in [Connects -> Entries] /\ conn \in [Connects -> Conns]
        /\ closer \in [Closers -> Closings] /\ listener \in [Connects -> Phases]
        /\ pool \in Ids /\ opened \subseteq Connects
    BY WebTypes DEF RefsInv
  <1>2. OwnerOf(c) \in Closers
    BY CloserNames
  <1>3. closer[OwnerOf(c)] = NotClosing /\ (pool # 0 => pool = c)
    BY <1>2 DEF ClosersBusy, PoolHeld, Alive
  <1>4. pool # 0 => pool \in Connects /\ BeginClose(OwnerOf(c), pool, 0) /\ opened' = opened
    BY <1>1 DEF Ids
  <1>5. pool # 0 =>
          /\ \A d \in Connects : /\ entry'[d].task = entry[d].task
                                 /\ entry'[d].websocket = entry[d].websocket
                                 /\ entry'[d].closed <=> entry[d].closed \/ d = pool
          /\ \A y \in Closers : y # OwnerOf(c) => closer'[y] = closer[y]
          /\ entry[pool].closed => closer' = closer /\ cancelled' = cancelled
          /\ ~entry[pool].closed => closer'[OwnerOf(c)].phase # "no"
          /\ NoSocketLeft'
    BY <1>2, <1>3, BeginCloseEffect DEF RefsInv
  <1>6. pool # 0 /\ ~entry[pool].closed =>
          cancelled' = IF listener[pool] # "done" THEN cancelled \cup {pool} ELSE cancelled
    BY <1>4 DEF BeginClose, OwnEntry, PoolHeld
  <1>7. OwnEntry'
    BY <1>1, <1>3, <1>5, <1>6 DEF OwnEntry, Conns
  <1>8. PoolHeld'
    BY <1>1, WebSocketsAssumption DEF PoolHeld, Alive, Conns
  <1>9. StillOpen'
    <2>1. \A d \in Connects : /\ Made(d)' <=> Made(d)
                              /\ conn'[d].at = "closing" /\ d # c => conn[d].at = "closing"
      BY <1>1 DEF Conns
    <2>2. CASE pool = 0
      <3>1. conn'[c].at = "done" /\ UNCHANGED <<pool, entry, listener, reaped>>
        BY <1>1, <2>2 DEF Conns
      <3> QED BY <2>1, <2>2, <3>1 DEF StillOpen
    <2>3. CASE pool # 0
      <3>1. entry'[c].closed /\ UNCHANGED <<listener, reaped>>
        BY <1>3, <1>5, <2>3
      <3>2. \A d \in Connects : ~entry'[d].closed => ~entry[d].closed /\ d # pool
        BY <1>5, <2>3
      <3> QED BY <1>5, <2>1, <2>3, <3>1, <3>2 DEF StillOpen
    <2> QED BY <2>2, <2>3
  <1>10. Running'
    BY <1>5, <1>6 DEF StillOpen, Running
  <1>11. ClosersBusy'
    <2>1. CASE pool = 0
      BY <1>1, <2>1 DEF ClosersBusy
    <2>2. CASE pool # 0 /\ entry[pool].closed
      BY <1>1, <1>5, <2>2 DEF ClosersBusy
    <2>3. CASE pool # 0 /\ ~entry[pool].closed
      <3>1. conn' = [conn EXCEPT ![c].at = "closing"] /\ UNCHANGED <<listener, reaped>>
        BY <2>3
      <3>2. \A b \in Connects : conn[b].at = "closing" => conn'[b].at = "closing"
        BY <1>1, <3>1 DEF Conns
      <3>3. conn'[c].at = "closing"
        BY <1>1, <3>1 DEF Conns
      <3> QED BY <1>5, <3>2, <3>3, CloserNames DEF ClosersBusy
    <2> QED BY <2>1, <2>2, <2>3
  <1>12. NoSocketLeft'
    BY <1>5 DEF OwnEntry, NoSocketLeft
  <1> QED BY <1>7, <1>8, <1>9, <1>10, <1>11, <1>12

\* The request ends and empties the pool.
LEMMA OwnerDoneSockets ==
    ASSUME NEW c \in Connects
    PROVE  SocketIndInv /\ OwnerDone(c) => SocketInv'
  <1> SUFFICES ASSUME SocketIndInv, OwnerDone(c) PROVE SocketInv'
    OBVIOUS
  <1> USE DEF SocketIndInv, SocketInv, OwnerDone, Of, Made, Listens, Conn,
         socketVars, requestVars
  <1>1. /\ entry \in [Connects -> Entries] /\ conn \in [Connects -> Conns]
        /\ closer \in [Closers -> Closings] /\ listener \in [Connects -> Phases]
        /\ pool \in Ids /\ opened \subseteq Connects
    BY WebTypes DEF RefsInv
  <1>2. OwnerOf(c) \in Closers
    BY CloserNames
  <1>3. /\ \A d \in Connects : /\ entry'[d].task = entry[d].task
                               /\ entry'[d].websocket = entry[d].websocket
                               /\ entry'[d].closed = entry[d].closed
        /\ \A y \in Closers : y # OwnerOf(c) => closer'[y] = closer[y]
        /\ closer'[OwnerOf(c)] = NotClosing /\ NoSocketLeft'
    BY <1>1, <1>2, SocketClosedEffect DEF RefsInv
  <1>4. OwnEntry'
    BY <1>3 DEF OwnEntry
  <1>5. PoolHeld'
    BY <1>1, WebSocketsAssumption DEF PoolHeld, Alive
  <1>6. StillOpen'
    BY <1>3 DEF PoolHeld, StillOpen, Alive
  <1>7. Running'
    BY <1>3 DEF Running
  <1>8. ClosersBusy'
    BY <1>3, CloserNames DEF ClosersBusy
  <1>9. NoSocketLeft'
    BY <1>3
  <1> QED BY <1>4, <1>5, <1>6, <1>7, <1>8, <1>9

\* The reaper begins to close the entry of the URL.
LEMMA ReaperClosesSockets == SocketIndInv /\ ReaperCloses => SocketInv'
  <1> SUFFICES ASSUME SocketIndInv, ReaperCloses PROVE SocketInv'
    OBVIOUS
  <1> USE DEF SocketIndInv, SocketInv, ReaperCloses, Of, Made, Listens, Conn,
         socketVars, requestVars
  <1>1. /\ entry \in [Connects -> Entries] /\ conn \in [Connects -> Conns]
        /\ closer \in [Closers -> Closings] /\ listener \in [Connects -> Phases]
        /\ pool \in Ids /\ opened \subseteq Connects
    BY WebTypes DEF RefsInv
  <1>2. Reaper \in Closers
    BY CloserNames
  <1>3. closer[Reaper] = NotClosing
    BY <1>2 DEF ClosersBusy
  <1>4. pool # 0 => pool \in Connects /\ BeginClose(Reaper, pool, 0) /\ opened' = opened
    BY <1>1 DEF Ids
  <1>5. pool # 0 =>
          /\ \A d \in Connects : /\ entry'[d].task = entry[d].task
                                 /\ entry'[d].websocket = entry[d].websocket
                                 /\ entry'[d].closed <=> entry[d].closed \/ d = pool
          /\ \A y \in Closers : y # Reaper => closer'[y] = closer[y]
          /\ entry[pool].closed => closer' = closer /\ cancelled' = cancelled
          /\ ~entry[pool].closed => closer'[Reaper].phase # "no"
          /\ NoSocketLeft'
    BY <1>2, <1>3, <1>4, BeginCloseEffect DEF RefsInv
  <1>6. pool # 0 /\ ~entry[pool].closed =>
          cancelled' = IF listener[pool] # "done" THEN cancelled \cup {pool} ELSE cancelled
    BY <1>4 DEF BeginClose, OwnEntry, PoolHeld
  <1>7. OwnEntry'
    BY <1>5 DEF OwnEntry, PoolHeld
  <1>8. PoolHeld'
    BY DEF PoolHeld, Alive
  <1>9. StillOpen'
    BY <1>5, WebSocketsAssumption DEF StillOpen, Running
  <1>10. Running'
    <2>1. CASE pool = 0
      BY <2>1 DEF Running
    <2>2. CASE pool # 0 /\ entry[pool].closed
      BY <1>4, <1>5, <2>2 DEF Running
    <2>3. CASE pool # 0 /\ ~entry[pool].closed
      <3>1. listener[pool] # "closing" /\ pool \in Connects
        BY <1>4, <2>3 DEF StillOpen
      <3> QED BY <1>5, <1>6, <3>1 DEF Running
    <2> QED BY <2>1, <2>2, <2>3
  <1>11. ClosersBusy'
    BY <1>5, CloserNames DEF ClosersBusy
  <1>12. NoSocketLeft'
    BY <1>5 DEF NoSocketLeft
  <1> QED BY <1>7, <1>8, <1>9, <1>10, <1>11, <1>12

\* The reaper ends and empties the pool.
LEMMA ReaperDoneSockets == SocketIndInv /\ ReaperDone => SocketInv'
  <1> SUFFICES ASSUME SocketIndInv, ReaperDone PROVE SocketInv'
    OBVIOUS
  <1> USE DEF SocketIndInv, SocketInv, ReaperDone, Of, Made, Listens, Conn,
         socketVars, requestVars
  <1>1. /\ entry \in [Connects -> Entries] /\ conn \in [Connects -> Conns]
        /\ closer \in [Closers -> Closings] /\ listener \in [Connects -> Phases]
        /\ pool \in Ids /\ opened \subseteq Connects
    BY WebTypes DEF RefsInv
  <1>2. Reaper \in Closers
    BY CloserNames
  <1>3. /\ \A d \in Connects : /\ entry'[d].task = entry[d].task
                               /\ entry'[d].websocket = entry[d].websocket
                               /\ entry'[d].closed = entry[d].closed
        /\ \A y \in Closers : y # Reaper => closer'[y] = closer[y]
        /\ closer'[Reaper] = NotClosing /\ NoSocketLeft'
    BY <1>1, <1>2, SocketClosedEffect DEF RefsInv
  <1>4. OwnEntry'
    BY <1>1, <1>3 DEF OwnEntry
  <1>5. PoolHeld'
    BY DEF PoolHeld, ClosersBusy
  <1>6. StillOpen'
    BY <1>3 DEF StillOpen, ClosersBusy
  <1>7. Running'
    BY <1>3 DEF Running
  <1>8. ClosersBusy'
    BY <1>3, CloserNames DEF ClosersBusy
  <1>9. NoSocketLeft'
    BY <1>3
  <1> QED BY <1>4, <1>5, <1>6, <1>7, <1>8, <1>9

\* A close() has joined the listener.
LEMMA JoinedSockets ==
    ASSUME NEW x \in Closers
    PROVE  SocketIndInv /\ Joined(x) => SocketInv'
  <1> SUFFICES ASSUME SocketIndInv, Joined(x) PROVE SocketInv'
    OBVIOUS
  <1> USE DEF SocketIndInv, SocketInv, Joined, Of, Made, Listens, Conn, socketVars,
         requestVars
  <1>1. /\ entry \in [Connects -> Entries] /\ conn \in [Connects -> Conns]
        /\ closer \in [Closers -> Closings] /\ listener \in [Connects -> Phases]
        /\ pool \in Ids /\ opened \subseteq Connects
    BY WebTypes DEF RefsInv
  <1>2. OwnEntry'
    BY DEF OwnEntry
  <1>3. PoolHeld'
    BY DEF PoolHeld, Alive
  <1>4. StillOpen'
    BY DEF StillOpen
  <1>5. Running'
    BY DEF Running
  <1>6. ClosersBusy'
    BY DEF ClosersBusy
  <1>7. NoSocketLeft'
    BY DEF NoSocketLeft
  <1> QED BY <1>2, <1>3, <1>4, <1>5, <1>6, <1>7

\* A send holds the entry it looked up.
LEMMA AcquireSendSockets ==
    ASSUME NEW s \in Sends
    PROVE  SocketIndInv /\ AcquireSend(s) => SocketInv'
  <1> SUFFICES ASSUME SocketIndInv, AcquireSend(s) PROVE SocketInv'
    OBVIOUS
  <1> USE DEF SocketIndInv, AcquireSend, Of, Made, Listens, Conn, socketVars,
         requestVars
  <1>1. /\ entry \in [Connects -> Entries] /\ conn \in [Connects -> Conns]
        /\ closer \in [Closers -> Closings] /\ listener \in [Connects -> Phases]
        /\ pool \in Ids /\ opened \subseteq Connects
    BY WebTypes DEF RefsInv
  <1>2. SocketInv'
    BY <1>1, SocketsKept DEF Entries, Ids
  <1> QED BY <1>2

\* A send looks its entry up again.
LEMMA BeginSendSockets ==
    ASSUME NEW s \in Sends
    PROVE  SocketIndInv /\ BeginSend(s) => SocketInv'
  <1> SUFFICES ASSUME SocketIndInv, BeginSend(s) PROVE SocketInv'
    OBVIOUS
  <1> USE DEF SocketIndInv, BeginSend, Of, Made, Listens, Conn, socketVars,
         requestVars
  <1>1. /\ entry \in [Connects -> Entries] /\ conn \in [Connects -> Conns]
        /\ closer \in [Closers -> Closings] /\ listener \in [Connects -> Phases]
        /\ pool \in Ids /\ opened \subseteq Connects
    BY WebTypes DEF RefsInv
  <1>2. SocketInv'
    BY <1>1, SocketsKept DEF Entries, Ids
  <1> QED BY <1>2

\* A send gives its reference back.
LEMMA SentSockets ==
    ASSUME NEW s \in Sends
    PROVE  SocketIndInv /\ Sent(s) => SocketInv'
  <1> SUFFICES ASSUME SocketIndInv, Sent(s) PROVE SocketInv'
    OBVIOUS
  <1> USE DEF SocketIndInv, Sent, Of, Made, Listens, Conn, socketVars, requestVars
  <1>1. /\ entry \in [Connects -> Entries] /\ conn \in [Connects -> Conns]
        /\ closer \in [Closers -> Closings] /\ listener \in [Connects -> Phases]
        /\ pool \in Ids /\ opened \subseteq Connects
    BY WebTypes DEF RefsInv
  <1>2. SocketInv'
    BY SocketsKept DEF Released
  <1> QED BY <1>2

\* A send that raises keeps its reference.
LEMMA SendRaisesSockets ==
    ASSUME NEW s \in Sends
    PROVE  SocketIndInv /\ SendRaises(s) => SocketInv'
  <1> SUFFICES ASSUME SocketIndInv, SendRaises(s) PROVE SocketInv'
    OBVIOUS
  <1> USE DEF SocketIndInv, SendRaises, Of, Made, Listens, Conn, socketVars,
         requestVars
  <1>1. /\ entry \in [Connects -> Entries] /\ conn \in [Connects -> Conns]
        /\ closer \in [Closers -> Closings] /\ listener \in [Connects -> Phases]
        /\ pool \in Ids /\ opened \subseteq Connects
    BY WebTypes DEF RefsInv
  <1>2. SocketInv'
    BY <1>1, SocketsKept DEF Entries, Ids
  <1> QED BY <1>2

\* The end signal holds the entry of its key.
LEMMA HoldSignalSockets == SocketIndInv /\ HoldSignal => SocketInv'
  <1> SUFFICES ASSUME SocketIndInv, HoldSignal PROVE SocketInv'
    OBVIOUS
  <1> USE DEF SocketIndInv, HoldSignal, Of, Made, Listens, Conn, socketVars,
         requestVars
  <1>1. /\ entry \in [Connects -> Entries] /\ conn \in [Connects -> Conns]
        /\ closer \in [Closers -> Closings] /\ listener \in [Connects -> Phases]
        /\ pool \in Ids /\ opened \subseteq Connects
    BY WebTypes DEF RefsInv
  <1>2. SocketInv'
    BY <1>1, SocketsKept DEF Entries, Ids
  <1> QED BY <1>2

\* The end signal marks the entry and gives its reference back.
LEMMA EndWebSocketSockets == SocketIndInv /\ EndWebSocket => SocketInv'
  <1> SUFFICES ASSUME SocketIndInv, EndWebSocket PROVE SocketInv'
    OBVIOUS
  <1> USE DEF SocketIndInv, EndWebSocket, Of, Made, Listens, Conn, socketVars,
         requestVars
  <1>1. /\ entry \in [Connects -> Entries] /\ conn \in [Connects -> Conns]
        /\ closer \in [Closers -> Closings] /\ listener \in [Connects -> Phases]
        /\ pool \in Ids /\ opened \subseteq Connects
    BY WebTypes DEF RefsInv
  <1>2. \A en \in Entries : /\ Released(MarkedEnd(en)).task = en.task
                             /\ Released(MarkedEnd(en)).websocket = en.websocket
                             /\ Released(MarkedEnd(en)).closed = en.closed
    BY DEF Entries, Released, MarkedEnd
  <1>3. SocketInv'
    BY <1>1, <1>2, SocketsKept DEF Ids
  <1> QED BY <1>2, <1>3

---------------------------------------------------------------------------
(* WebSockets: the specification.                                          *)

\* Nothing has an entry and nobody holds one at first.
LEMMA InitRefs == WebSocketsInit => RefsInv
  <1> SUFFICES ASSUME WebSocketsInit PROVE RefsInv
    OBVIOUS
  <1>1. WebSocketsTypeOK
    <2>1. Fresh \in Entries /\ NotClosing \in Closings
      BY DEF Fresh, NotClosing, Entries, Closings, Ids
    <2>2. [at |-> "new", of |-> 0] \in Conns /\ [at |-> "new", of |-> 0] \in Sendings
      BY DEF Conns, Sendings, Ids
    <2> QED BY <2>1, <2>2, WebTypes DEF WebSocketsInit, Phases, Ids
  <1>2. Named
    BY DEF WebSocketsInit, Named, Held
  <1>3. RefsExact
    <2>1. \A e \in Connects : Holders(e) = {} /\ Signals(e) = 0 /\ entry[e].refs = 0
      BY DEF WebSocketsInit, Holders, Held, Signals, Fresh
    <2>2. \A e \in Connects : Cardinality(Holders(e)) = 0
      BY <2>1, FS_EmptySet
    <2> QED BY <2>1, <2>2, RefsCounted
  <1> QED BY <1>1, <1>2, <1>3 DEF RefsInv

\* Nothing is open and nobody closes at first.
LEMMA InitSockets == WebSocketsInit => SocketInv
  BY CloserNames, WebSocketsAssumption DEF WebSocketsInit, SocketInv,
         OwnEntry, PoolHeld, StillOpen, Running, ClosersBusy, NoSocketLeft,
         Alive, Made, Of, Fresh

\* Every step keeps the reference counts exact, of all but skewed entries.
THEOREM RefsInductive == RefsInv /\ [WebSocketsNext]_webSocketVars => RefsInv'
  <1> SUFFICES ASSUME RefsInv, [WebSocketsNext]_webSocketVars PROVE RefsInv'
    OBVIOUS
  <1>1. CASE WebSocketsNext
    <2>1. ASSUME NEW c \in Connects,
                 \/ Connect(c) \/ Reuse(c) \/ ListenerStep(c) \/ ListenerFails(c) \/ Message(c)
                 \/ PeerCloses(c) \/ PingFails(c) \/ OwnerStep(c) \/ CancelOwner(c)
          PROVE  RefsInv'
      BY <2>1, ConnectRefs, ReuseRefs, ReusedRefs, ReuseRaisesRefs, ConnectedRefs, ListenerFailsRefs, MessageRefs,
             DispatchedRefs, PeerClosesRefs, PingFailsRefs, SeesStopRefs,
             SeesCancelRefs, ListenerClosesRefs, ListenerDoneRefs,
             OwnerWakesRefs, CancelOwnerRefs, OwnerClosesRefs, OwnerDoneRefs DEF
             ListenerStep, OwnerStep
    <2>2. ASSUME NEW s \in Sends, AcquireSend(s) \/ SendStep(s)
          PROVE  RefsInv'
      BY <2>2, AcquireSendRefs, BeginSendRefs, SentRefs, SendRaisesRefs DEF
             SendStep
    <2>3. CASE ReaperCloses \/ CloserStep \/ HoldSignal \/ EndWebSocket
      BY <2>3, ReaperClosesRefs, ReaperDoneRefs, JoinedRefs,
             HoldSignalRefs, EndWebSocketRefs DEF CloserStep
    <2> QED BY <1>1, <2>1, <2>2, <2>3 DEF WebSocketsNext
  <1>2. CASE UNCHANGED webSocketVars
    BY <1>2 DEF webSocketVars, socketVars, requestVars, RefsInv,
           WebSocketsTypeOK, Named, Held, RefsExact, Of
  <1> QED BY <1>1, <1>2

\* Every step keeps the sockets owned.
THEOREM SocketsInductive ==
    SocketIndInv /\ [WebSocketsNext]_webSocketVars => SocketIndInv'
  <1> SUFFICES ASSUME SocketIndInv, [WebSocketsNext]_webSocketVars PROVE SocketInv'
    BY RefsInductive DEF SocketIndInv
  <1>1. CASE WebSocketsNext
    <2>1. ASSUME NEW c \in Connects,
                 \/ Connect(c) \/ Reuse(c) \/ ListenerStep(c) \/ ListenerFails(c) \/ Message(c)
                 \/ PeerCloses(c) \/ PingFails(c) \/ OwnerStep(c) \/ CancelOwner(c)
          PROVE  SocketInv'
      BY <2>1, ConnectSockets, ReuseSockets, ReusedSockets, ReuseRaisesSockets, ConnectedSockets, ListenerFailsSockets,
             MessageSockets, DispatchedSockets, PeerClosesSockets,
             PingFailsSockets, SeesStopSockets, SeesCancelSockets,
             ListenerClosesSockets, ListenerDoneSockets, OwnerWakesSockets,
             CancelOwnerSockets, OwnerClosesSockets, OwnerDoneSockets DEF
             ListenerStep, OwnerStep
    <2>2. ASSUME NEW s \in Sends, AcquireSend(s) \/ SendStep(s)
          PROVE  SocketInv'
      BY <2>2, AcquireSendSockets, BeginSendSockets, SentSockets,
             SendRaisesSockets DEF SendStep
    <2>3. CASE ReaperCloses \/ CloserStep \/ HoldSignal \/ EndWebSocket
      BY <2>3, ReaperClosesSockets, ReaperDoneSockets, JoinedSockets,
             HoldSignalSockets, EndWebSocketSockets DEF CloserStep
    <2> QED BY <1>1, <2>1, <2>2, <2>3 DEF WebSocketsNext
  <1>2. CASE UNCHANGED webSocketVars
    BY <1>2, SocketsKept DEF webSocketVars, socketVars, requestVars,
           SocketIndInv
  <1> QED BY <1>1, <1>2

\* The types, the exact reference counts and no socket without an owner, for
\* any number of connect requests, those that meet a live entry of their URL
\* included, and sends.
THEOREM SocketsOwned == WebSocketsSpec => []WebSocketsInv
  <1>1. WebSocketsInit => SocketIndInv
    BY InitRefs, InitSockets DEF SocketIndInv
  <1>2. SocketIndInv => WebSocketsInv
    BY DEF SocketIndInv, RefsInv, SocketInv, WebSocketsInv
  <1> QED BY <1>1, <1>2, SocketsInductive, PTL DEF WebSocketsSpec

\* ref_count is exact as long as no holder is lost and no connect request
\* uses the entry.
THEOREM RefsAreExact == WebSocketsSpec => []RefsExact
  <1>1. RefsInv => RefsExact
    BY DEF RefsInv
  <1> QED BY <1>1, InitRefs, RefsInductive, PTL DEF WebSocketsSpec

\* An end signal by key stops a listener only when no send holds its entry.
LEMMA EndServes ==
    ASSUME RefsInv, EndWebSocket, NEW e \in Connects \ skewed', ~entry[e].stopped,
           entry'[e].stopped
    PROVE  Holders(e) = {}
  <1>1. /\ entry \in [Connects -> Entries] /\ skewed \subseteq skewed'
        /\ signal \in [at : {"new", "held", "done"}, of : Ids]
    BY WebTypes DEF RefsInv, EndWebSocket
  <1>2. e = pool /\ e = signal.of /\ entry'[e] = Released(MarkedEnd(entry[e]))
    BY <1>1 DEF EndWebSocket
  <1>3. entry[e].refs = Cardinality(Holders(e)) + 1
    <2>1. signal = [at |-> "held", of |-> e]
      BY <1>1, <1>2 DEF EndWebSocket
    <2> QED BY <1>1, <2>1, RefsCounted DEF RefsInv, Signals
  <1>4. entry[e].refs <= 1
    BY <1>1, <1>2 DEF Released, MarkedEnd, Entries
  <1> QED BY <1>3, <1>4, HoldersCount

\* A send that holds its entry is served before an end signal by key stops
\* the listener.
THEOREM HeldSendsAreServed == WebSocketsSpec => HeldSendServed
  <1>1. ASSUME RefsInv, [WebSocketsNext]_webSocketVars, NEW e \in Connects,
               ~entry[e].stopped, entry'[e].stopped, signal' # signal, e \notin skewed'
        PROVE  ~\E s \in Sends : sending[s].of = e
                                 /\ sending[s].at \in {"acquired", "sending"}
    <2>1. HoldSignal \/ EndWebSocket
      BY <1>1 DEF webSocketVars, requestVars, WebSocketsNext,
             ListenerStep, OwnerStep, CloserStep, SendStep, Connect, Reuse, Reused,
             ReuseRaises, Connected,
             ListenerFails, Message, Dispatched, PeerCloses, PingFails, SeesStop,
             SeesCancel, ListenerCloses, ListenerDone, OwnerWakes, CancelOwner,
             OwnerCloses, OwnerDone, ReaperCloses, ReaperDone, Joined,
             AcquireSend, BeginSend, Sent, SendRaises
    <2>2. CASE HoldSignal
      <3>1. entry \in [Connects -> Entries] /\ pool \in Connects
        BY <1>1, <2>2 DEF HoldSignal
      <3> QED BY <1>1, <2>2 DEF HoldSignal
    <2>3. CASE EndWebSocket
      BY <1>1, <2>3, EndServes DEF Holders, Held
    <2> QED BY <2>1, <2>2, <2>3
  <1>2. RefsInv /\ [WebSocketsNext]_webSocketVars =>
          [\A e \in Connects :
             (/\ ~entry[e].stopped /\ entry'[e].stopped
              /\ signal' # signal /\ e \notin skewed')
                 => ~\E s \in Sends : sending[s].of = e
                                      /\ sending[s].at \in {"acquired", "sending"}]_webSocketVars
    BY <1>1
  <1> QED BY <1>2, InitRefs, RefsInductive, PTL DEF WebSocketsSpec,
         HeldSendServed

---------------------------------------------------------------------------
(* Transfers.                                                              *)

Spots == {"idle", "admission", "waiting", "sleeping", "sent", "retrying", "done", "failed"}
Recs == [at : Spots, attempts : 0..MaxAttempts, plain : BOOLEAN]

\* Who may try again has an attempt left.
Attempts ==
    \A r \in Transfers :
        transfer[r].at \in {"idle", "admission", "waiting", "sleeping", "retrying"}
            => transfer[r].attempts < MaxAttempts

\* The next start is scheduled the interval of the last one after it.
Spacing == wait + since >= due

\* What a request has received: a prefix of the resource, within the known and
\* the allowed size, if there is one, all of it when it is done; nothing before
\* a plain representation.
Body(at, plain, d, t, media, capped) ==
    /\ d \in Seq(Int) /\ d = Offsets(0, Len(d) - 1)
    /\ Len(d) <= MaxSize
    /\ capped => Len(d) <= MaxMedia /\ t <= MaxMedia
    /\ t # Unknown => Len(d) <= t
    /\ media /\ at = "done" => t = Len(d)
    /\ media /\ plain => d = <<>>

Bodies ==
    /\ DOMAIN data = Transfers /\ data = [r \in Transfers |-> data[r]]
    /\ \A r \in Transfers :
          Body(transfer[r].at, transfer[r].plain, data[r], total[r], r \in Media, r \in limited)

TransfersIndInv == TransfersTypeOK /\ Attempts /\ Spacing /\ Bodies

\* The types of the transfers, with the records folded.
LEMMA TransferTypes ==
    /\ TransfersTypeOK => transfer \in [Transfers -> Recs]
    /\ TransfersTypeOK' <=> /\ rate' \in 0..Longest /\ due' \in 0..Longest
                            /\ lock' \in Transfers \cup {Nobody}
                            /\ wait' \in 0..Longest /\ since' \in 0..Longest
                            /\ limited' \subseteq Media
                            /\ transfer' \in [Transfers -> Recs]
                            /\ \A r \in Transfers : Len(data'[r]) <= MaxSize
                            /\ total' \in [Transfers -> Sizes \cup {Unknown}]
  BY DEF TransfersTypeOK, Recs, Spots

\* A run of offsets is as long as it should be.
LEMMA OffsetsRun ==
    ASSUME NEW n \in Nat, NEW m \in Int, m >= n - 1
    PROVE  Offsets(n, m) \in Seq(Int) /\ Len(Offsets(n, m)) = m - n + 1
  BY DEF Offsets

\* No offset at all is the empty body.
LEMMA NoOffsets == Offsets(0, 0 - 1) = <<>> /\ Len(<<>>) = 0 /\ <<>> \in Seq(Int)
  BY DEF Offsets

\* The next run appended to a prefix is a longer prefix.
LEMMA OffsetsAppended ==
    ASSUME NEW n \in Nat, NEW m \in Nat, m >= n
    PROVE  Offsets(0, n - 1) \o Offsets(n, m) = Offsets(0, m)
  <1>1. PICK s, t, u : s = Offsets(0, n - 1) /\ t = Offsets(n, m) /\ u = Offsets(0, m)
    OBVIOUS
  <1>2. s \in Seq(Int) /\ Len(s) = n
    <2>1. n - 1 \in Int /\ n - 1 >= 0 - 1 /\ 0 \in Nat
      OBVIOUS
    <2>2. Offsets(0, n - 1) \in Seq(Int) /\ Len(Offsets(0, n - 1)) = (n - 1) - 0 + 1
      BY <2>1, OffsetsRun
    <2> QED BY <1>1, <2>2
  <1>3. t \in Seq(Int) /\ Len(t) = m - n + 1
    <2>1. m \in Int /\ m >= n - 1
      OBVIOUS
    <2>2. Offsets(n, m) \in Seq(Int) /\ Len(Offsets(n, m)) = m - n + 1
      BY <2>1, OffsetsRun
    <2> QED BY <1>1, <2>2
  <1>4. u \in Seq(Int) /\ Len(u) = m + 1
    <2>1. Offsets(0, m) \in Seq(Int) /\ Len(Offsets(0, m)) = m - 0 + 1
      BY OffsetsRun
    <2> QED BY <1>1, <2>1
  <1>5. /\ \A i \in 1..n : s[i] = i - 1
        /\ \A i \in 1..(m - n + 1) : t[i] = n + i - 1
        /\ \A i \in 1..(m + 1) : u[i] = i - 1
    BY <1>1 DEF Offsets
  <1>6. /\ s \o t \in Seq(Int) /\ Len(s \o t) = m + 1
        /\ \A i \in 1..(m + 1) : (s \o t)[i] = IF i <= n THEN s[i] ELSE t[i - n]
    BY <1>2, <1>3, ConcatProperties
  <1>7. \A i \in 1..(m + 1) : (s \o t)[i] = u[i]
    BY <1>5, <1>6
  <1>8. s \o t = u
    BY <1>4, <1>6, <1>7, SeqEqual
  <1> QED BY <1>1, <1>8

\* What is left alone keeps its body.
LEMMA BodiesKept ==
    ASSUME Bodies, NEW r \in Transfers, UNCHANGED <<limited, data, total>>,
           \A q \in Transfers \ {r} : transfer'[q] = transfer[q],
           transfer'[r].plain = transfer[r].plain,
           r \in Media /\ transfer'[r].at = "done" => total[r] = Len(data[r])
    PROVE  Bodies'
  BY DEF Bodies, Body

\* A request that is moved changes its place only.
LEMMA Moved ==
    ASSUME TransfersTypeOK, NEW r \in Transfers, NEW p \in Spots, Move(r, p)
    PROVE  /\ transfer' \in [Transfers -> Recs]
           /\ \A q \in Transfers \ {r} : transfer'[q] = transfer[q]
           /\ transfer'[r].at = p /\ transfer'[r].plain = transfer[r].plain
           /\ transfer'[r].attempts = transfer[r].attempts
  BY TransferTypes DEF Move, Recs

\* An attempt that starts is counted.
LEMMA AttemptCounted ==
    ASSUME TransfersTypeOK, Attempts, NEW r \in Transfers,
           transfer[r].at \in {"admission", "sleeping"},
           transfer' = [transfer EXCEPT ![r].at = "sent", ![r].attempts = @ + 1]
    PROVE  /\ transfer' \in [Transfers -> Recs]
           /\ \A q \in Transfers \ {r} : transfer'[q] = transfer[q]
           /\ transfer'[r].at = "sent" /\ transfer'[r].plain = transfer[r].plain
  <1>1. transfer \in [Transfers -> Recs] /\ transfer[r].attempts < MaxAttempts
    BY TransferTypes DEF Attempts
  <1>2. transfer[r].attempts + 1 \in 0..MaxAttempts
    BY <1>1, TransfersAssumption DEF Recs
  <1> QED BY <1>1, <1>2 DEF Recs, Spots

\* Time passes.
LEMMA TickInv == TransfersIndInv /\ Tick => TransfersIndInv'
  <1> SUFFICES ASSUME TransfersIndInv, Tick PROVE TransfersIndInv'
    OBVIOUS
  <1>1. TransfersTypeOK'
    BY TransfersAssumption DEF TransfersIndInv, TransfersTypeOK, Tick, KeepBody
  <1>2. Attempts' /\ Bodies'
    BY DEF TransfersIndInv, Attempts, Bodies, Body, Tick, KeepBody
  <1>3. Spacing'
    BY TransfersAssumption DEF TransfersIndInv, TransfersTypeOK, Spacing, Tick
  <1> QED BY <1>1, <1>2, <1>3 DEF TransfersIndInv

\* The rate is changed or lifted.
LEMMA ConfigureInv == TransfersIndInv /\ Configure => TransfersIndInv'
  BY DEF TransfersIndInv, TransfersTypeOK, Configure, KeepBody, Attempts, Spacing, Bodies, Body

\* Steps that only move a request, and may change the lock.
LEMMA MoveInv ==
    ASSUME TransfersIndInv, NEW r \in Transfers, NEW p \in Spots, Move(r, p), KeepBody,
           p # "done" \/ r \notin Media, UNCHANGED <<rate, wait, since, due>>,
           lock' \in Transfers \cup {Nobody},
           p \in {"idle", "admission", "waiting", "sleeping", "retrying"}
               => transfer[r].attempts < MaxAttempts
    PROVE  TransfersIndInv'
  <1>1. /\ transfer' \in [Transfers -> Recs]
        /\ \A q \in Transfers \ {r} : transfer'[q] = transfer[q]
        /\ transfer'[r].at = p /\ transfer'[r].plain = transfer[r].plain
        /\ transfer'[r].attempts = transfer[r].attempts
    BY Moved DEF TransfersIndInv
  <1>2. TransfersTypeOK'
    BY <1>1, TransferTypes DEF TransfersIndInv, TransfersTypeOK, KeepBody
  <1>3. Attempts'
    BY <1>1 DEF TransfersIndInv, Attempts
  <1>4. Spacing'
    BY DEF TransfersIndInv, Spacing
  <1>5. Bodies'
    BY <1>1, BodiesKept DEF TransfersIndInv, KeepBody
  <1> QED BY <1>2, <1>3, <1>4, <1>5 DEF TransfersIndInv

\* A request asks for admission, waits for its turn, fails or is cancelled.
LEMMA MovesInv ==
    ASSUME TransfersIndInv, NEW r \in Transfers,
           Start(r) \/ QueueUp(r) \/ Lock(r) \/ AttemptFails(r) \/ Retry(r) \/ CancelTransfer(r)
    PROVE  TransfersIndInv'
  <1>1. /\ lock \in Transfers \cup {Nobody} /\ transfer[r].attempts \in Int
        /\ transfer[r].at \in {"idle", "admission", "waiting", "sleeping", "retrying"}
               => transfer[r].attempts < MaxAttempts
    BY TransferTypes DEF TransfersIndInv, TransfersTypeOK, Attempts, Recs
  <1>2. CASE Start(r)
    BY <1>1, <1>2, MoveInv DEF Start, Is, limiterVars, Spots
  <1>3. CASE Lock(r)
    BY <1>1, <1>3, MoveInv DEF Lock, Is, Spots
  <1>7. CASE QueueUp(r)
    BY <1>1, <1>7, MoveInv DEF QueueUp, Is, limiterVars, Spots
  <1>4. CASE AttemptFails(r)
    BY <1>1, <1>4, MoveInv DEF AttemptFails, Is, limiterVars, Spots
  <1>5. CASE Retry(r)
    BY <1>1, <1>5, MoveInv DEF Retry, Is, limiterVars, Spots
  <1>6. CASE CancelTransfer(r)
    BY <1>1, <1>6, MoveInv DEF CancelTransfer, Spots
  <1> QED BY <1>2, <1>3, <1>4, <1>5, <1>6, <1>7

\* A request is admitted at once, or after its delay.
LEMMA AdmitInv ==
    ASSUME TransfersIndInv, NEW r \in Transfers, Admit(r) \/ Wake(r)
    PROVE  TransfersIndInv'
  <1>1. /\ transfer' \in [Transfers -> Recs]
        /\ \A q \in Transfers \ {r} : transfer'[q] = transfer[q]
        /\ transfer'[r].at = "sent" /\ transfer'[r].plain = transfer[r].plain
    BY AttemptCounted DEF TransfersIndInv, Admit, Wake, Spaced, Is
  <1>2. TransfersTypeOK'
    BY <1>1, TransferTypes, TransfersAssumption DEF TransfersIndInv, TransfersTypeOK, Admit,
       Wake, Spaced, KeepBody, limiterVars
  <1>3. Attempts'
    BY <1>1 DEF TransfersIndInv, Attempts
  <1>4. Spacing'
    BY TransfersAssumption DEF TransfersIndInv, TransfersTypeOK, Spacing, Admit, Wake, Spaced, limiterVars
  <1>5. Bodies'
    BY <1>1, BodiesKept DEF TransfersIndInv, Admit, Wake, Spaced, KeepBody
  <1> QED BY <1>2, <1>3, <1>4, <1>5 DEF TransfersIndInv

\* One request gets a new place, body and size.
LEMMA BodyInv ==
    ASSUME TransfersIndInv, NEW r \in Transfers, UNCHANGED <<limiterVars, limited>>,
           NEW p \in Recs, transfer' = [transfer EXCEPT ![r] = p],
           p.at \in {"idle", "admission", "waiting", "sleeping", "retrying"} => p.attempts < MaxAttempts,
           NEW d \in Seq(Int), data' = [data EXCEPT ![r] = d],
           NEW t \in Sizes \cup {Unknown}, total' = [total EXCEPT ![r] = t],
           Body(p.at, p.plain, d, t, r \in Media, r \in limited)
    PROVE  TransfersIndInv'
  <1>1. /\ transfer \in [Transfers -> Recs] /\ DOMAIN data = Transfers
        /\ total \in [Transfers -> Sizes \cup {Unknown}]
    BY TransferTypes DEF TransfersIndInv, TransfersTypeOK, Bodies
  <1>2. /\ transfer' \in [Transfers -> Recs] /\ total' \in [Transfers -> Sizes \cup {Unknown}]
        /\ transfer'[r] = p /\ data'[r] = d /\ total'[r] = t
        /\ \A q \in Transfers \ {r} : /\ transfer'[q] = transfer[q]
                                      /\ data'[q] = data[q] /\ total'[q] = total[q]
    BY <1>1
  <1>3. Bodies'
    <2>1. DOMAIN data' = Transfers /\ data' = [q \in Transfers |-> data'[q]]
      BY <1>1
    <2>2. ASSUME NEW q \in Transfers
          PROVE  Body(transfer'[q].at, transfer'[q].plain, data'[q], total'[q], q \in Media, q \in limited')
      <3>1. CASE q = r
        BY <1>2, <3>1
      <3>2. CASE q # r
        BY <1>2, <3>2 DEF TransfersIndInv, Bodies
      <3> QED BY <3>1, <3>2
    <2> QED BY <2>1, <2>2 DEF Bodies, Body
  <1>4. TransfersTypeOK'
    BY <1>2, TransferTypes DEF TransfersIndInv, TransfersTypeOK, limiterVars, Body
  <1>5. Attempts'
    BY <1>2 DEF TransfersIndInv, Attempts
  <1>6. Spacing'
    BY DEF TransfersIndInv, Spacing, limiterVars
  <1> QED BY <1>3, <1>4, <1>5, <1>6 DEF TransfersIndInv

\* A transfer that fails keeps what it received.
LEMMA FailsInv ==
    ASSUME TransfersIndInv, NEW r \in Transfers, TransferFails(r),
           UNCHANGED <<limiterVars, limited>>
    PROVE  TransfersIndInv'
  <1>1. lock \in Transfers \cup {Nobody}
    BY DEF TransfersIndInv, TransfersTypeOK
  <1> QED BY <1>1, MoveInv DEF TransferFails, KeepBody, limiterVars, Spots

\* The whole representation arrives.
LEMMA WholeInv ==
    ASSUME TransfersIndInv, NEW r \in Transfers, Whole(r)
    PROVE  TransfersIndInv'
  <1>1. PICK n \in Sizes :
          IF r \notin Media
          THEN Move(r, "done") /\ UNCHANGED <<data, total>>
          ELSE IF IF transfer[r].plain THEN n # 0
                  ELSE \/ total[r] # Unknown /\ n # total[r]
                       \/ r \in limited /\ n > MaxMedia
               THEN TransferFails(r)
               ELSE /\ data' = [data EXCEPT ![r] = Offsets(0, n - 1)]
                    /\ total' = [total EXCEPT ![r] = n]
                    /\ Move(r, "done")
    BY DEF Whole
  <1>2. UNCHANGED <<limiterVars, limited>> /\ lock \in Transfers \cup {Nobody}
        /\ transfer \in [Transfers -> Recs]
    BY TransferTypes DEF Whole, TransfersIndInv, TransfersTypeOK
  <1>3. CASE r \notin Media
    BY <1>1, <1>2, <1>3, MoveInv DEF KeepBody, limiterVars, Spots
  <1>4. CASE TransferFails(r)
    BY <1>2, <1>4, FailsInv
  <1>5. CASE /\ r \in Media /\ (IF transfer[r].plain THEN n = 0 ELSE r \in limited => n <= MaxMedia)
             /\ data' = [data EXCEPT ![r] = Offsets(0, n - 1)]
             /\ total' = [total EXCEPT ![r] = n] /\ Move(r, "done")
    <2>1. /\ n \in Nat /\ n <= MaxSize /\ n # Unknown
          /\ r \in limited => n <= MaxMedia
      BY <1>5, TransfersAssumption DEF Sizes, Unknown
    <2>2. PICK d \in Seq(Int) : d = Offsets(0, n - 1) /\ Len(d) = n
      <3>1. n - 1 \in Int /\ n - 1 >= 0 - 1 /\ 0 \in Nat
        BY <2>1
      <3>2. Offsets(0, n - 1) \in Seq(Int) /\ Len(Offsets(0, n - 1)) = (n - 1) - 0 + 1
        BY <3>1, OffsetsRun
      <3> QED BY <2>1, <3>2
    <2>3. transfer[r].plain => d = <<>>
      BY <1>5, <2>2, NoOffsets
    <2>4. PICK p \in Recs : transfer' = [transfer EXCEPT ![r] = p] /\ p.at = "done"
                            /\ p.plain = transfer[r].plain
      <3>1. transfer' \in [Transfers -> Recs] /\ transfer' = [transfer EXCEPT ![r] = transfer'[r]]
        BY <1>2, <1>5 DEF Move, Recs, Spots
      <3>2. transfer'[r].at = "done" /\ transfer'[r].plain = transfer[r].plain
        BY <1>2, <1>5 DEF Move, Recs
      <3> QED BY <3>1, <3>2
    <2>5. Body(p.at, p.plain, d, n, r \in Media, r \in limited)
      BY <2>1, <2>2, <2>3, <2>4 DEF Body
    <2> QED BY <1>2, <1>5, <2>2, <2>4, <2>5, BodyInv
  <1>6. n \in Int
    BY DEF Sizes
  <1> QED BY <1>1, <1>3, <1>4, <1>5, <1>6, TransfersAssumption

\* The resource ends here, or is asked for as a whole.
LEMMA UnsatisfiedInv ==
    ASSUME TransfersIndInv, NEW r \in Transfers, Unsatisfied(r)
    PROVE  TransfersIndInv'
  <1>1. PICK n \in Sizes :
          IF n # Len(data[r]) \/ (total[r] # Unknown /\ total[r] # n)
          THEN TransferFails(r)
          ELSE /\ total' = [total EXCEPT ![r] = n]
               /\ UNCHANGED data
               /\ transfer' = [transfer EXCEPT ![r] =
                     IF data[r] = <<>>
                     THEN [at |-> "admission", attempts |-> 0, plain |-> TRUE]
                     ELSE [@ EXCEPT !.at = "done"]]
    BY DEF Unsatisfied
  <1>2. UNCHANGED <<limiterVars, limited>> /\ transfer \in [Transfers -> Recs] /\ ~transfer[r].plain
    BY TransferTypes DEF Unsatisfied, TransfersIndInv, TransfersTypeOK
  <1>3. CASE TransferFails(r)
    BY <1>2, <1>3, FailsInv
  <1>4. CASE ~TransferFails(r)
    <2>1. n = Len(data[r]) /\ data' = data /\ total' = [total EXCEPT ![r] = n]
      BY <1>1, <1>4
    <2>2. PICK d \in Seq(Int) : d = data[r] /\ d = Offsets(0, Len(d) - 1)
                                /\ Len(d) <= MaxSize /\ (r \in limited => Len(d) <= MaxMedia)
                                /\ data' = [data EXCEPT ![r] = d]
      BY <2>1 DEF TransfersIndInv, Bodies, Body
    <2>3. PICK p \in Recs : /\ transfer' = [transfer EXCEPT ![r] = p]
                            /\ \/ d = <<>> /\ p.at = "admission" /\ p.attempts = 0
                               \/ p.at = "done" /\ ~p.plain
      <3>1. CASE d = <<>>
        <4>1. PICK p \in Recs : p = [at |-> "admission", attempts |-> 0, plain |-> TRUE]
          <5>1. [at |-> "admission", attempts |-> 0, plain |-> TRUE] \in Recs
            BY TransfersAssumption DEF Recs, Spots
          <5> QED BY <5>1
        <4>2. transfer' = [transfer EXCEPT ![r] = p]
          BY <1>1, <1>4, <2>2, <3>1, <4>1
        <4>3. p.at = "admission" /\ p.attempts = 0
          BY <4>1
        <4> QED BY <3>1, <4>2, <4>3
      <3>2. CASE d # <<>>
        <4>1. [transfer[r] EXCEPT !.at = "done"] \in Recs
          BY <1>2 DEF Recs, Spots
        <4>2. [transfer[r] EXCEPT !.at = "done"].at = "done"
              /\ ~[transfer[r] EXCEPT !.at = "done"].plain
          BY <1>2 DEF Recs
        <4> QED BY <1>1, <1>4, <2>2, <3>2, <4>1, <4>2
      <3> QED BY <3>1, <3>2
    <2>4. Body(p.at, p.plain, d, n, r \in Media, r \in limited)
      BY <2>1, <2>2, <2>3 DEF Body
    <2>5. p.at \in {"idle", "admission", "waiting", "sleeping", "retrying"} => p.attempts < MaxAttempts
      BY <2>3, TransfersAssumption
    <2> QED BY <1>2, <2>1, <2>2, <2>3, <2>4, <2>5, BodyInv
  <1> QED BY <1>3, <1>4

\* A part that is accepted continues the prefix.
LEMMA AppendInv ==
    ASSUME TransfersIndInv, NEW r \in Transfers, UNCHANGED <<limiterVars, limited>>,
           NEW start \in Int, NEW end \in Int, end < MaxSize, NEW length,
           NEW reported \in Sizes \cup {Unknown}, ~transfer[r].plain,
           Accepted(r, start, end, length, reported), Append206(r, start, end, reported)
    PROVE  TransfersIndInv'
  <1> DEFINE size == IF reported # Unknown THEN reported ELSE total[r]
  <1>1. /\ transfer \in [Transfers -> Recs] /\ total[r] \in Sizes \cup {Unknown}
        /\ DOMAIN data = Transfers
        /\ data[r] \in Seq(Int) /\ Len(data[r]) \in Nat /\ data[r] = Offsets(0, Len(data[r]) - 1)
    BY TransferTypes, LenProperties DEF TransfersIndInv, TransfersTypeOK, Bodies, Body
  <1>2. /\ start = Len(data[r]) /\ end \in Nat /\ end >= start
        /\ size \in Sizes \cup {Unknown}
        /\ r \in limited => end < MaxMedia /\ size <= MaxMedia
        /\ size # Unknown => end < size
    BY <1>1, TransfersAssumption DEF Accepted, PartStart, PartEnd, Sizes, Unknown
  <1>3. data[r] \o Offsets(start, end) = Offsets(0, end)
    BY <1>1, <1>2, OffsetsAppended
  <1>4. PICK d \in Seq(Int) : d = Offsets(0, end) /\ Len(d) = end + 1
    <2>1. Offsets(0, end) \in Seq(Int) /\ Len(Offsets(0, end)) = end - 0 + 1
      <3>1. 0 \in Nat /\ end \in Int /\ end >= 0 - 1
        BY <1>2
      <3> QED BY <3>1, OffsetsRun
    <2> QED BY <1>2, <2>1
  <1>5. data' = [data EXCEPT ![r] = d] /\ total' = [total EXCEPT ![r] = size]
    BY <1>3, <1>4 DEF Append206
  <1>6. PICK p \in Recs : /\ transfer' = [transfer EXCEPT ![r] = p]
                          /\ p.at = IF size # Unknown /\ Len(d) >= size THEN "done" ELSE "admission"
                          /\ p.attempts = 0 /\ ~p.plain
    <2>1. PICK place \in Spots :
             /\ place = IF size # Unknown /\ Len(d) >= size THEN "done" ELSE "admission"
             /\ transfer' = [transfer EXCEPT ![r].at = place, ![r].attempts = 0]
      BY <1>3, <1>4 DEF Append206, Spots
    <2>2. transfer' \in [Transfers -> Recs] /\ transfer' = [transfer EXCEPT ![r] = transfer'[r]]
      <3>1. transfer'[r] \in Recs
        <4>1. transfer'[r] = [transfer[r] EXCEPT !.at = place, !.attempts = 0]
          BY <1>1, <2>1
        <4>2. transfer[r] \in Recs /\ 0 \in 0..MaxAttempts
          BY <1>1, TransfersAssumption
        <4> QED BY <4>1, <4>2 DEF Recs
      <3>2. transfer' = [transfer EXCEPT ![r] = transfer'[r]]
        BY <1>1, <2>1
      <3> QED BY <1>1, <3>1, <3>2
    <2>3. transfer'[r].at = place /\ transfer'[r].attempts = 0
          /\ transfer'[r].plain = transfer[r].plain
      BY <1>1, <2>1 DEF Recs
    <2> QED BY <2>1, <2>2, <2>3
  <1>7. Body(p.at, p.plain, d, size, r \in Media, r \in limited)
    <2>1. d = Offsets(0, Len(d) - 1)
      BY <1>2, <1>4
    <2>2. /\ Len(d) <= MaxSize /\ (size # Unknown => Len(d) <= size)
          /\ r \in limited => Len(d) <= MaxMedia /\ size <= MaxMedia
          /\ p.at = "done" => size = Len(d)
      BY <1>2, <1>4, <1>6, TransfersAssumption DEF Sizes, Unknown
    <2> QED BY <1>4, <1>6, <2>1, <2>2 DEF Body
  <1>8. p.at \in {"idle", "admission", "waiting", "sleeping", "retrying"} => p.attempts < MaxAttempts
    BY <1>6, TransfersAssumption
  <1> HIDE DEF size
  <1> QED BY <1>2, <1>4, <1>5, <1>6, <1>7, <1>8, BodyInv

\* A part arrives, with or without its range.
LEMMA PartialInv ==
    ASSUME TransfersIndInv, NEW r \in Transfers, Partial(r) \/ PartialUnlabelled(r)
    PROVE  TransfersIndInv'
  <1>1. UNCHANGED <<limiterVars, limited>> /\ ~transfer[r].plain
    BY DEF Partial, PartialUnlabelled
  <1>2. CASE TransferFails(r)
    BY <1>1, <1>2, FailsInv
  <1>3. CASE Partial(r) /\ ~TransferFails(r)
    <2>1. PICK start, end \in Sizes \ {MaxSize}, length \in Sizes,
               reported \in Sizes \cup {Unknown} :
            /\ Accepted(r, start, end, length, reported)
            /\ Append206(r, start, end, reported)
      BY <1>3 DEF Partial
    <2>2. start \in Int /\ end \in Int /\ end < MaxSize
      BY TransfersAssumption DEF Sizes
    <2> QED BY <1>1, <2>1, <2>2, AppendInv
  <1>4. CASE PartialUnlabelled(r) /\ ~TransferFails(r)
    <2>1. PICK length \in Sizes :
            /\ total[r] # Unknown
            /\ Accepted(r, PartStart(r), PartEnd(r), length, total[r])
            /\ Append206(r, PartStart(r), PartEnd(r), total[r])
      BY <1>4 DEF PartialUnlabelled
    <2>2. /\ total[r] \in Sizes \cup {Unknown} /\ total[r] \in Int
          /\ PartStart(r) \in Int /\ PartEnd(r) \in Int /\ PartEnd(r) < total[r]
      <3>1. total[r] \in Sizes \cup {Unknown} /\ data[r] \in Seq(Int)
        BY DEF TransfersIndInv, TransfersTypeOK, Bodies, Body
      <3>2. Len(data[r]) \in Nat
        BY <3>1, LenProperties
      <3> QED BY <2>1, <3>1, <3>2, TransfersAssumption DEF PartStart, PartEnd, Sizes, Unknown
    <2>3. PartEnd(r) < MaxSize
      BY <2>1, <2>2, TransfersAssumption DEF Sizes
    <2> QED BY <1>1, <2>1, <2>2, <2>3, AppendInv
  <1> QED BY <1>2, <1>3, <1>4

\* Nothing was received at first.
LEMMA TransfersInitInv == TransfersInit => TransfersIndInv
  <1> SUFFICES ASSUME TransfersInit PROVE TransfersIndInv
    OBVIOUS
  <1>1. \A r \in Transfers : /\ data[r] = <<>> /\ transfer[r].at = "idle"
                             /\ transfer[r].attempts = 0
                             /\ total[r] = IF Declared = 0 THEN Unknown ELSE Declared
    BY DEF TransfersInit
  <1>2. TransfersTypeOK
    <2>1. transfer \in [Transfers -> Recs]
      <3>1. \A r \in Transfers : (r \notin Media) \in BOOLEAN
        BY Zenon
      <3> QED BY <3>1, TransfersAssumption DEF TransfersInit, Recs, Spots
    <2>2. total \in [Transfers -> Sizes \cup {Unknown}]
      BY TransfersAssumption DEF TransfersInit, Sizes
    <2>3. \A r \in Transfers : Len(data[r]) <= MaxSize
      BY <1>1, NoOffsets, TransfersAssumption
    <2> QED BY <2>1, <2>2, <2>3, TransfersAssumption DEF TransfersInit, TransfersTypeOK, Recs, Spots
  <1>3. Attempts /\ Spacing
    BY <1>1, TransfersAssumption DEF TransfersInit, Attempts, Spacing
  <1>4. Bodies
    BY <1>1, NoOffsets, TransfersAssumption DEF TransfersInit, Bodies, Body, Unknown
  <1> QED BY <1>2, <1>3, <1>4 DEF TransfersIndInv

\* Every step of a transfer keeps the bodies, the attempts and the spacing.
THEOREM TransfersInductive ==
    TransfersIndInv /\ [TransfersNext]_transfersVars => TransfersIndInv'
  <1> SUFFICES ASSUME TransfersIndInv, [TransfersNext]_transfersVars PROVE TransfersIndInv'
    OBVIOUS
  <1>1. CASE TransfersNext
    BY <1>1, TickInv, ConfigureInv, MovesInv, AdmitInv, WholeInv, UnsatisfiedInv, PartialInv
       DEF TransfersNext, Progress
  <1>2. CASE UNCHANGED transfersVars
    BY <1>2 DEF transfersVars, limiterVars, TransfersIndInv, TransfersTypeOK, Attempts, Spacing,
       Bodies, Body
  <1> QED BY <1>1, <1>2

\* Delivered media is the resource, whatever ranges the server answers with.
THEOREM MediaIsWhole == TransfersSpec => []MediaWhole
  <1>1. TransfersIndInv => MediaWhole
    BY TransfersAssumption DEF TransfersIndInv, Bodies, Body, MediaWhole, Is
  <1> QED BY <1>1, TransfersInitInv, TransfersInductive, PTL DEF TransfersSpec

\* Two spaced starts of a session are as far apart as the interval in force
\* at the earlier one, at whatever rates the session was configured.
THEOREM StartsAreSpaced == TransfersSpec => SpacedStarts
  <1>1. TransfersIndInv /\ [TransfersNext]_transfersVars =>
          [\A r \in Transfers : Is(r, "sleeping") /\ transfer'[r].at = "sent"
              => since >= due]_transfersVars
    <2> SUFFICES ASSUME TransfersIndInv, TransfersNext, NEW r \in Transfers,
                        Is(r, "sleeping"), transfer'[r].at = "sent"
                 PROVE  since >= due
      OBVIOUS
    <2>1. transfer \in [Transfers -> Recs]
      BY TransferTypes DEF TransfersIndInv
    <2>2. ASSUME NEW q \in Transfers,
                 Start(q) \/ (Progress(q) /\ ~Wake(q)) \/ CancelTransfer(q)
          PROVE  FALSE
      <3>1. CASE q # r
        <4>1. transfer'[r] = transfer[r]
          BY <2>1, <2>2, <3>1 DEF Start, Progress, CancelTransfer, Admit, QueueUp, Lock, Retry,
             AttemptFails, Whole, Unsatisfied, Partial, PartialUnlabelled, Append206,
             TransferFails, Move
        <4> QED BY <4>1 DEF Is
      <3>2. CASE q = r
        BY <2>1, <2>2, <3>2 DEF Start, Progress, CancelTransfer, Admit, QueueUp, Lock, Retry,
           AttemptFails, Whole, Unsatisfied, Partial, PartialUnlabelled, Move, Is, Recs
      <3> QED BY <3>1, <3>2
    <2>3. CASE Tick \/ Configure
      BY <2>3 DEF Tick, Configure, Is
    <2>4. CASE wait = 0
      BY <2>4, TransfersAssumption DEF TransfersIndInv, TransfersTypeOK, Spacing
    <2> QED BY <2>2, <2>3, <2>4 DEF TransfersNext, Wake
  <1> QED BY <1>1, TransfersInitInv, TransfersInductive, PTL DEF TransfersSpec, SpacedStarts

---------------------------------------------------------------------------
(* Chains.                                                                 *)

Kinds == {"request", "response", "stream"} \cup Results
Walks == [at : Places \cup Ended, node : 0..(Download + Spider), carries : Kinds,
          task : {"intercept", "fetch", "report", "output"},
          left : 0..MaxOutputs, turns : 0..MaxTurns]

\* Where a request may be while its stream is open: in a chain that carries
\* the stream, in its callback, or cancelled before the callback began.  Only
\* a stream waits for a permit.
Placed(at, carries, state, stop, streams) ==
    /\ at = "permit" => streams
    /\ state = "open" =>
          /\ streams
          /\ \/ at \in {"responseChain", "inputChain", "deliver"} /\ carries = "stream"
             \/ at \in {"created", "output", "outputChain", "spiderException"}
             \/ at \in Ended /\ stop

StreamPlaces ==
    \A r \in Requests :
        Placed(walk[r].at, walk[r].carries, stream[r], stopping, r \in Streams)

ChainsIndInv == ChainsTypeOK /\ PermitsExact /\ StreamPlaces

\* The types of the walks, with the records folded.
LEMMA WalkTypes ==
    /\ ChainsTypeOK <=> /\ walk \in [Requests -> Walks]
                        /\ stream \in [Requests -> {"none", "open", "closed"}]
                        /\ permits \in 0..MaxStreams
                        /\ stopping \in BOOLEAN /\ lost \in BOOLEAN
    /\ ChainsTypeOK' <=> /\ walk' \in [Requests -> Walks]
                         /\ stream' \in [Requests -> {"none", "open", "closed"}]
                         /\ permits' \in 0..MaxStreams
                         /\ stopping' \in BOOLEAN /\ lost' \in BOOLEAN
  BY DEF ChainsTypeOK, Walks, Kinds

\* The permits r holds, in an open under way and in an open stream.
Opening(r) == IF r \in Streams /\ walk[r].at = "opening" THEN 1 ELSE 0
Open(r) == IF r \in Streams /\ stream[r] = "open" THEN 1 ELSE 0

\* A step of r moves permits between r and the semaphore only.
LEMMA PermitsMoved ==
    ASSUME NEW r \in Requests, PermitsExact, permits \in Int, permits' \in Int,
           \A q \in Requests \ {r} : walk'[q] = walk[q] /\ stream'[q] = stream[q],
           permits' + Opening(r)' + Open(r)' = permits + Opening(r) + Open(r)
    PROVE  PermitsExact' /\ permits' <= MaxStreams
  <1> DEFINE A == {q \in Streams : walk[q].at = "opening"}
             B == {q \in Streams : walk'[q].at = "opening"}
             C == {q \in Streams : stream[q] = "open"}
             D == {q \in Streams : stream'[q] = "open"}
  <1>1. IsFiniteSet(A) /\ IsFiniteSet(B) /\ IsFiniteSet(C) /\ IsFiniteSet(D)
    <2>1. IsFiniteSet(Streams)
      BY ChainsAssumption, FS_Subset
    <2> QED BY <2>1, FS_Subset
  <1>2. Cardinality(A) \in Nat /\ Cardinality(B) \in Nat /\ Cardinality(C) \in Nat
        /\ Cardinality(D) \in Nat
    BY <1>1, FS_CardinalityType
  <1>3. Cardinality(B) - Opening(r)' = Cardinality(A) - Opening(r)
    <2>1. Opening(r)' = (IF r \in B THEN 1 ELSE 0) /\ Opening(r) = (IF r \in A THEN 1 ELSE 0)
      BY DEF Opening
    <2>2. A \ {r} = B \ {r}
      BY ChainsAssumption
    <2> HIDE DEF A, B
    <2>3. Cardinality(A \ {r}) = (IF r \in A THEN Cardinality(A) - 1 ELSE Cardinality(A))
      BY <1>1, FS_RemoveElement
    <2>4. Cardinality(B \ {r}) = (IF r \in B THEN Cardinality(B) - 1 ELSE Cardinality(B))
      BY <1>1, FS_RemoveElement
    <2>5. Cardinality(A \ {r}) = Cardinality(A) - Opening(r)
      BY <1>2, <2>1, <2>3
    <2>6. Cardinality(B \ {r}) = Cardinality(B) - Opening(r)'
      BY <1>2, <2>1, <2>4
    <2> QED BY <2>2, <2>5, <2>6
  <1>4. Cardinality(D) - Open(r)' = Cardinality(C) - Open(r)
    <2>1. Open(r)' = (IF r \in D THEN 1 ELSE 0) /\ Open(r) = (IF r \in C THEN 1 ELSE 0)
      BY DEF Open
    <2>2. C \ {r} = D \ {r}
      BY ChainsAssumption
    <2> HIDE DEF C, D
    <2>3. Cardinality(C \ {r}) = (IF r \in C THEN Cardinality(C) - 1 ELSE Cardinality(C))
      BY <1>1, FS_RemoveElement
    <2>4. Cardinality(D \ {r}) = (IF r \in D THEN Cardinality(D) - 1 ELSE Cardinality(D))
      BY <1>1, FS_RemoveElement
    <2>5. Cardinality(C \ {r}) = Cardinality(C) - Open(r)
      BY <1>2, <2>1, <2>3
    <2>6. Cardinality(D \ {r}) = Cardinality(D) - Open(r)'
      BY <1>2, <2>1, <2>4
    <2> QED BY <2>2, <2>5, <2>6
  <1>5. permits + Cardinality(A) + Cardinality(C) = MaxStreams
    BY DEF PermitsExact, At
  <1>6. PermitsExact' <=> permits' + Cardinality(B) + Cardinality(D) = MaxStreams
    BY DEF PermitsExact, At
  <1>7. /\ Opening(r) \in Int /\ Opening(r)' \in Int /\ Open(r) \in Int /\ Open(r)' \in Int
        /\ MaxStreams \in Int
    BY ChainsAssumption DEF Opening, Open
  <1>8. PICK a, b, c, d \in Nat : /\ a = Cardinality(A) /\ b = Cardinality(B)
                                 /\ c = Cardinality(C) /\ d = Cardinality(D)
    BY <1>2
  <1>9. PICK i, j, m, n, p, q \in Int : /\ i = Opening(r) /\ j = Opening(r)'
                                       /\ m = Open(r) /\ n = Open(r)'
                                       /\ p = permits /\ q = permits'
    BY <1>7
  <1>10. /\ b - j = a - i /\ d - n = c - m /\ p + a + c = MaxStreams
         /\ q + j + n = p + i + m
    BY <1>3, <1>4, <1>5, <1>8, <1>9
  <1>11. q + b + d = MaxStreams /\ q <= MaxStreams
    BY ONLY <1>7, <1>10, a \in Nat, b \in Nat, c \in Nat, d \in Nat, i \in Int, j \in Int,
            m \in Int, n \in Int, p \in Int, q \in Int
  <1> QED BY <1>6, <1>8, <1>9, <1>11

\* A step of one request that keeps its permits accounted for.
LEMMA ChainStepInv ==
    ASSUME ChainsIndInv, NEW r \in Requests, NEW w \in Walks,
           walk' = [walk EXCEPT ![r] = w],
           NEW st \in {"none", "open", "closed"}, stream' = [stream EXCEPT ![r] = st],
           Placed(w.at, w.carries, st, stopping, r \in Streams),
           permits' \in Nat,
           permits' + (IF r \in Streams /\ w.at = "opening" THEN 1 ELSE 0)
                    + (IF r \in Streams /\ st = "open" THEN 1 ELSE 0)
               = permits + Opening(r) + Open(r),
           stopping' = stopping, lost' \in BOOLEAN
    PROVE  ChainsIndInv'
  <1>1. /\ walk \in [Requests -> Walks] /\ stream \in [Requests -> {"none", "open", "closed"}]
        /\ permits \in Int /\ stopping \in BOOLEAN
    BY WalkTypes DEF ChainsIndInv, ChainsTypeOK
  <1>2. /\ walk' \in [Requests -> Walks] /\ stream' \in [Requests -> {"none", "open", "closed"}]
        /\ walk'[r] = w /\ stream'[r] = st
        /\ \A q \in Requests \ {r} : walk'[q] = walk[q] /\ stream'[q] = stream[q]
    BY <1>1
  <1>3. permits' + Opening(r)' + Open(r)' = permits + Opening(r) + Open(r)
    BY <1>2 DEF Opening, Open
  <1>4. PermitsExact' /\ permits' <= MaxStreams
    BY <1>1, <1>2, <1>3, PermitsMoved DEF ChainsIndInv
  <1>5. StreamPlaces'
    BY <1>2 DEF ChainsIndInv, StreamPlaces
  <1>6. ChainsTypeOK'
    BY <1>1, <1>2, <1>4, WalkTypes, ChainsAssumption
  <1> QED BY <1>4, <1>5, <1>6 DEF ChainsIndInv

\* A step that leaves the stream alone.
LEMMA KeptInv ==
    ASSUME ChainsIndInv, NEW r \in Requests, NEW w \in Walks,
           walk' = [walk EXCEPT ![r] = w], NotClosed, stopping' = stopping, lost' \in BOOLEAN,
           r \in Streams => walk[r].at # "opening" /\ w.at # "opening",
           Placed(w.at, w.carries, stream[r], stopping, r \in Streams)
    PROVE  ChainsIndInv'
  <1>1. /\ stream \in [Requests -> {"none", "open", "closed"}] /\ permits \in Nat
    BY DEF ChainsIndInv, ChainsTypeOK
  <1>2. stream' = [stream EXCEPT ![r] = stream[r]] /\ permits' = permits
    BY <1>1 DEF NotClosed
  <1>3. permits' + (IF r \in Streams /\ w.at = "opening" THEN 1 ELSE 0)
                 + (IF r \in Streams /\ stream[r] = "open" THEN 1 ELSE 0)
               = permits + Opening(r) + Open(r)
    BY <1>1, <1>2 DEF Opening, Open
  <1> QED BY <1>1, <1>2, <1>3, ChainStepInv

\* A step that closes the stream, if it is open.
LEMMA ClosedInv ==
    ASSUME ChainsIndInv, NEW r \in Requests, NEW w \in Walks,
           walk' = [walk EXCEPT ![r] = w], Closed(r), stopping' = stopping, lost' \in BOOLEAN,
           walk[r].at # "opening", w.at \notin {"opening", "permit"}
    PROVE  ChainsIndInv'
  <1>1. /\ stream \in [Requests -> {"none", "open", "closed"}] /\ permits \in Nat
        /\ stream[r] = "open" => r \in Streams
    BY DEF ChainsIndInv, ChainsTypeOK, StreamPlaces, Placed
  <1>2. PICK st \in {"none", "closed"} : stream' = [stream EXCEPT ![r] = st]
    BY <1>1 DEF Closed
  <1>3. permits' = permits + Open(r) /\ permits' \in Nat
    BY <1>1 DEF Closed, Open
  <1>4. permits' + (IF r \in Streams /\ w.at = "opening" THEN 1 ELSE 0)
                 + (IF r \in Streams /\ st = "open" THEN 1 ELSE 0)
               = permits + Opening(r) + Open(r)
    BY <1>1, <1>3 DEF Opening, Open
  <1> QED BY <1>2, <1>3, <1>4, ChainStepInv DEF Placed

\* What Node, Enter, Go and Report do to a walk.
LEMMA NodeWalk ==
    ASSUME ChainsTypeOK, NEW r \in Requests, NEW k \in 0..(Download + Spider), Node(r, k)
    PROVE  \E w \in Walks : /\ walk' = [walk EXCEPT ![r] = w]
                            /\ w.at = walk[r].at /\ w.carries = walk[r].carries
  <1>1. PICK w : w = [walk[r] EXCEPT !.node = k]
    OBVIOUS
  <1>2. w \in Walks /\ w.at = walk[r].at /\ w.carries = walk[r].carries
    BY <1>1, WalkTypes DEF Walks
  <1>3. walk' = [walk EXCEPT ![r] = w]
    BY <1>1, WalkTypes DEF Node
  <1> QED BY <1>2, <1>3

\* Entering a chain at a node moves one walk there with what it carries.
LEMMA EnterWalk ==
    ASSUME ChainsTypeOK, NEW r \in Requests, NEW chain \in Places,
           NEW k \in 0..(Download + Spider), NEW what \in Kinds, Enter(r, chain, k, what)
    PROVE  \E w \in Walks : /\ walk' = [walk EXCEPT ![r] = w]
                            /\ w.at = chain /\ w.carries = what
  <1>1. PICK w : w = [walk[r] EXCEPT !.at = chain, !.node = k, !.carries = what]
    OBVIOUS
  <1>2. w \in Walks /\ w.at = chain /\ w.carries = what
    BY <1>1, WalkTypes DEF Walks
  <1>3. walk' = [walk EXCEPT ![r] = w]
    BY <1>1, WalkTypes DEF Enter
  <1> QED BY <1>2, <1>3

\* Going on to a place, or to one of the ends, moves one walk there.
LEMMA GoWalk ==
    ASSUME ChainsTypeOK, NEW r \in Requests, NEW place \in Places \cup Ended, Go(r, place)
    PROVE  \E w \in Walks : walk' = [walk EXCEPT ![r] = w] /\ w.at = place
  <1>1. CASE place \in Ended
    <2>1. PICK w : w = [at |-> place, node |-> 0, carries |-> "request",
                        task |-> "output", left |-> 0, turns |-> 0]
      OBVIOUS
    <2>2. w \in Walks /\ w.at = place
      BY <2>1, ChainsAssumption DEF Walks, Kinds
    <2> QED BY <1>1, <2>1, <2>2 DEF Go
  <1>2. CASE place \notin Ended
    <2>1. PICK what \in Kinds : what = IF place = "output" THEN "request" ELSE walk[r].carries
      BY WalkTypes DEF Walks, Kinds
    <2>2. PICK w : w = [walk[r] EXCEPT !.at = place, !.node = 0, !.carries = what]
      OBVIOUS
    <2>3. walk[r] \in Walks /\ 0 \in 0..(Download + Spider)
      BY WalkTypes, ChainsAssumption
    <2>4. w \in Walks /\ w.at = place
      BY <2>2, <2>3 DEF Walks
    <2>5. walk' = [walk EXCEPT ![r] = w]
      BY <1>2, <2>1, <2>2, WalkTypes DEF Go
    <2> QED BY <2>4, <2>5
  <1> QED BY <1>1, <1>2

\* A reported error starts the response chain from its last download interceptor.
LEMMA ReportWalk ==
    ASSUME ChainsTypeOK, NEW r \in Requests, Report(r)
    PROVE  \E w \in Walks : walk' = [walk EXCEPT ![r] = w] /\ w.at = "responseChain"
  <1>1. PICK w : w = [walk[r] EXCEPT !.at = "responseChain", !.node = Download,
                                     !.carries = "error", !.task = "report"]
    OBVIOUS
  <1>2. w \in Walks /\ w.at = "responseChain"
    <2>1. /\ walk[r] \in Walks /\ Download \in 0..(Download + Spider)
          /\ "responseChain" \in Places \cup Ended /\ "error" \in Kinds
      BY WalkTypes, ChainsAssumption DEF Places, Kinds, Results
    <2> QED BY <1>1, <2>1 DEF Walks
  <1>3. walk' = [walk EXCEPT ![r] = w]
    BY <1>1, WalkTypes DEF Report
  <1> QED BY <1>2, <1>3

\* Whatever raises outside an open closes the stream.
LEMMA RaisedInv ==
    ASSUME ChainsIndInv, NEW r \in Requests, walk[r].at # "opening", Raised(r)
    PROVE  ChainsIndInv'
  <1>1. ChainsTypeOK /\ lost' \in BOOLEAN /\ stopping' = stopping /\ Closed(r)
    BY DEF ChainsIndInv, ChainsTypeOK, Raised
  <1>2. CASE Report(r)
    <2>1. PICK w \in Walks : walk' = [walk EXCEPT ![r] = w] /\ w.at = "responseChain"
      BY <1>1, <1>2, ReportWalk
    <2> QED BY <1>1, <2>1, ClosedInv
  <1>3. CASE Go(r, "dropped")
    <2>1. PICK w \in Walks : walk' = [walk EXCEPT ![r] = w] /\ w.at = "dropped"
      BY <1>1, <1>3, GoWalk DEF Ended
    <2> QED BY <1>1, <2>1, ClosedInv
  <1> QED BY <1>2, <1>3 DEF Raised

\* Handing the request to the downloader gives it a fetch task.
LEMMA FetchWalk ==
    ASSUME ChainsTypeOK, NEW r \in Requests,
           walk' = [walk EXCEPT ![r].at = "downloader", ![r].task = "fetch"]
    PROVE  \E w \in Walks : walk' = [walk EXCEPT ![r] = w] /\ w.at = "downloader"
  <1>1. PICK w : w = [walk[r] EXCEPT !.at = "downloader", !.task = "fetch"]
    OBVIOUS
  <1>2. w \in Walks /\ w.at = "downloader"
    <2>1. walk[r] \in Walks /\ "downloader" \in Places \cup Ended
      BY WalkTypes DEF Places
    <2> QED BY <1>1, <2>1 DEF Walks
  <1>3. walk' = [walk EXCEPT ![r] = w]
    BY <1>1, WalkTypes
  <1> QED BY <1>2, <1>3

\* A handled exception starts over as a response.
Turned(r) ==
    walk' = [walk EXCEPT ![r].at = "responseChain", ![r].node = Download,
                         ![r].carries = "response", ![r].task = "intercept", ![r].turns = @ - 1]

\* That restart is one of the turns the walk has left.
LEMMA TurnedWalk ==
    ASSUME ChainsTypeOK, NEW r \in Requests, walk[r].turns > 0, Turned(r)
    PROVE  \E w \in Walks : walk' = [walk EXCEPT ![r] = w] /\ w.at = "responseChain"
  <1>1. PICK w : w = [walk[r] EXCEPT !.at = "responseChain", !.node = Download,
                            !.carries = "response", !.task = "intercept", !.turns = @ - 1]
    OBVIOUS
  <1>2. w \in Walks /\ w.at = "responseChain"
    <2>1. /\ walk[r] \in Walks /\ "responseChain" \in Places \cup Ended /\ "response" \in Kinds
          /\ Download \in 0..(Download + Spider)
      BY WalkTypes, ChainsAssumption DEF Places, Kinds
    <2>2. walk[r].turns - 1 \in 0..MaxTurns
      BY <2>1, ChainsAssumption DEF Walks
    <2> QED BY <1>1, <2>1, <2>2 DEF Walks
  <1>3. walk' = [walk EXCEPT ![r] = w]
    BY <1>1, WalkTypes DEF Turned
  <1> QED BY <1>2, <1>3

\* The callback gets a task.
Created(r) ==
    walk' = [walk EXCEPT ![r].at = "created", ![r].task = "output",
                         ![r].carries = "request", ![r].turns = 0]

\* The walk then stands before its callback.
LEMMA CreatedWalk ==
    ASSUME ChainsTypeOK, NEW r \in Requests, Created(r)
    PROVE  \E w \in Walks : walk' = [walk EXCEPT ![r] = w] /\ w.at = "created"
  <1>1. PICK w : w = [walk[r] EXCEPT !.at = "created", !.task = "output",
                                     !.carries = "request", !.turns = 0]
    OBVIOUS
  <1>2. w \in Walks /\ w.at = "created"
    <2>1. /\ walk[r] \in Walks /\ "created" \in Places \cup Ended /\ "request" \in Kinds
          /\ 0 \in 0..MaxTurns
      BY WalkTypes, ChainsAssumption DEF Places, Kinds
    <2> QED BY <1>1, <2>1 DEF Walks
  <1>3. walk' = [walk EXCEPT ![r] = w]
    BY <1>1, WalkTypes DEF Created
  <1> QED BY <1>2, <1>3

\* What is known of a request before its step.
LEMMA WalkKnown ==
    ASSUME ChainsIndInv, NEW r \in Requests
    PROVE  /\ ChainsTypeOK /\ lost \in BOOLEAN
           /\ walk[r].node \in Int /\ walk[r].node >= 0 /\ walk[r].node <= Download + Spider
           /\ walk[r].carries \in Kinds
           /\ Placed(walk[r].at, walk[r].carries, stream[r], stopping, r \in Streams)
           /\ Download \in Int /\ Download >= 1 /\ Spider \in Int /\ Spider >= 1
           /\ \A k \in Int : k >= 0 /\ k <= Download + Spider => k \in 0..(Download + Spider)
  <1>1. walk[r] \in Walks
    BY WalkTypes DEF ChainsIndInv
  <1> QED BY <1>1, ChainsAssumption DEF ChainsIndInv, ChainsTypeOK, StreamPlaces, Walks

\* A request enters the chain of the download interceptors.
LEMMA ScheduleInv ==
    ASSUME ChainsIndInv, NEW r \in Requests, Schedule(r)
    PROVE  ChainsIndInv'
  <1>1. /\ ChainsTypeOK /\ lost' \in BOOLEAN /\ stopping' = stopping
        /\ Placed(walk[r].at, walk[r].carries, stream[r], stopping, r \in Streams)
    BY WalkKnown DEF Schedule
  <1>2. CASE Enter(r, "requestChain", 1, "request")
    <2>1. PICK w \in Walks : /\ walk' = [walk EXCEPT ![r] = w]
                            /\ w.at = "requestChain"
      BY <1>1, <1>2, WalkKnown, EnterWalk DEF Places, Kinds, Results
    <2> QED BY <1>1, <1>2, <2>1, KeptInv DEF Schedule, At, AtNode, Placed, Ended
  <1> QED BY <1>2 DEF Schedule

\* A download interceptor sees the request.
LEMMA RequestInterceptInv ==
    ASSUME ChainsIndInv, NEW r \in Requests, RequestIntercept(r)
    PROVE  ChainsIndInv'
  <1>1. /\ ChainsTypeOK /\ lost' \in BOOLEAN /\ stopping' = stopping
        /\ Placed(walk[r].at, walk[r].carries, stream[r], stopping, r \in Streams)
    BY WalkKnown DEF RequestIntercept
  <1>2. CASE walk[r].node < Download /\ Node(r, walk[r].node + 1)
    <2>1. PICK w \in Walks : /\ walk' = [walk EXCEPT ![r] = w]
                            /\ w.at = walk[r].at /\ w.carries = walk[r].carries
      BY <1>1, <1>2, WalkKnown, NodeWalk DEF RequestIntercept
    <2> QED BY <1>1, <1>2, <2>1, KeptInv DEF RequestIntercept, At, AtNode, Placed, Ended
  <1>3. CASE walk' = [walk EXCEPT ![r].at = "downloader", ![r].task = "fetch"]
    <2>1. PICK w \in Walks : /\ walk' = [walk EXCEPT ![r] = w]
                            /\ w.at = "downloader"
      BY <1>1, <1>3, WalkKnown, FetchWalk DEF Places, Kinds, Results
    <2> QED BY <1>1, <1>3, <2>1, KeptInv DEF RequestIntercept, At, AtNode, Placed, Ended
  <1>4. CASE Go(r, "rescheduled")
    <2>1. PICK w \in Walks : /\ walk' = [walk EXCEPT ![r] = w]
                            /\ w.at = "rescheduled"
      BY <1>1, <1>4, WalkKnown, GoWalk DEF Ended
    <2> QED BY <1>1, <1>4, <2>1, KeptInv DEF RequestIntercept, At, AtNode, Placed, Ended
  <1>5. CASE Enter(r, "responseChain", Download, "response")
    <2>1. PICK w \in Walks : /\ walk' = [walk EXCEPT ![r] = w]
                            /\ w.at = "responseChain"
      BY <1>1, <1>5, WalkKnown, EnterWalk DEF Places, Kinds, Results
    <2> QED BY <1>1, <1>5, <2>1, KeptInv DEF RequestIntercept, At, AtNode, Placed, Ended
  <1>6. CASE Enter(r, "exceptionChain", Download, "error")
    <2>1. PICK w \in Walks : /\ walk' = [walk EXCEPT ![r] = w]
                            /\ w.at = "exceptionChain"
      BY <1>1, <1>6, WalkKnown, EnterWalk DEF Places, Kinds, Results
    <2> QED BY <1>1, <1>6, <2>1, KeptInv DEF RequestIntercept, At, AtNode, Placed, Ended
  <1> QED BY <1>2, <1>3, <1>4, <1>5, <1>6 DEF RequestIntercept

\* A download interceptor sees the response or its stream.
LEMMA ResponseInterceptInv ==
    ASSUME ChainsIndInv, NEW r \in Requests, ResponseIntercept(r)
    PROVE  ChainsIndInv'
  <1>1. /\ ChainsTypeOK /\ lost' \in BOOLEAN /\ stopping' = stopping
        /\ Placed(walk[r].at, walk[r].carries, stream[r], stopping, r \in Streams)
    BY WalkKnown DEF ResponseIntercept
  <1>2. CASE Node(r, walk[r].node - 1) /\ NotClosed
    <2>1. PICK w \in Walks : /\ walk' = [walk EXCEPT ![r] = w]
                            /\ w.at = walk[r].at /\ w.carries = walk[r].carries
      BY <1>1, <1>2, WalkKnown, NodeWalk DEF ResponseIntercept, AtNode
    <2> QED BY <1>1, <1>2, <2>1, KeptInv DEF ResponseIntercept, At, AtNode, Placed, Ended
  <1>3. CASE Enter(r, "responseChain", walk[r].node - 1, "response") /\ Closed(r)
    <2>1. PICK w \in Walks : /\ walk' = [walk EXCEPT ![r] = w]
                            /\ w.at = "responseChain"
      BY <1>1, <1>3, WalkKnown, EnterWalk DEF Places, Kinds, Results, ResponseIntercept, AtNode
    <2> QED BY <1>1, <1>3, <2>1, ClosedInv DEF ResponseIntercept, At, AtNode, Ended
  <1>4. CASE Go(r, "rescheduled") /\ Closed(r)
    <2>1. PICK w \in Walks : /\ walk' = [walk EXCEPT ![r] = w]
                            /\ w.at = "rescheduled"
      BY <1>1, <1>4, WalkKnown, GoWalk DEF Ended
    <2> QED BY <1>1, <1>4, <2>1, ClosedInv DEF ResponseIntercept, At, AtNode, Ended
  <1>5. CASE Enter(r, "exceptionChain", Download, "error") /\ Closed(r)
    <2>1. PICK w \in Walks : /\ walk' = [walk EXCEPT ![r] = w]
                            /\ w.at = "exceptionChain"
      BY <1>1, <1>5, WalkKnown, EnterWalk DEF Places, Kinds, Results
    <2> QED BY <1>1, <1>5, <2>1, ClosedInv DEF ResponseIntercept, At, AtNode, Ended
  <1> QED BY <1>2, <1>3, <1>4, <1>5 DEF ResponseIntercept

\* The response reaches the spider's chain.
LEMMA ResponseDoneInv ==
    ASSUME ChainsIndInv, NEW r \in Requests, ResponseDone(r)
    PROVE  ChainsIndInv'
  <1>1. /\ ChainsTypeOK /\ lost' \in BOOLEAN /\ stopping' = stopping
        /\ Placed(walk[r].at, walk[r].carries, stream[r], stopping, r \in Streams)
    BY WalkKnown DEF ResponseDone
  <1>2. CASE Enter(r, "inputChain", 1, walk[r].carries)
    <2>1. PICK w \in Walks : /\ walk' = [walk EXCEPT ![r] = w]
                            /\ w.at = "inputChain" /\ w.carries = walk[r].carries
      BY <1>1, <1>2, WalkKnown, EnterWalk DEF Places, Kinds, Results
    <2> QED BY <1>1, <1>2, <2>1, KeptInv DEF ResponseDone, At, AtNode, Placed, Ended
  <1> QED BY <1>2 DEF ResponseDone

\* A download interceptor sees the exception.
LEMMA ExceptionInterceptInv ==
    ASSUME ChainsIndInv, NEW r \in Requests, ExceptionIntercept(r)
    PROVE  ChainsIndInv'
  <1>1. /\ ChainsTypeOK /\ lost' \in BOOLEAN /\ stopping' = stopping
        /\ Placed(walk[r].at, walk[r].carries, stream[r], stopping, r \in Streams)
    BY WalkKnown DEF ExceptionIntercept
  <1>2. CASE Node(r, walk[r].node - 1)
    <2>1. PICK w \in Walks : /\ walk' = [walk EXCEPT ![r] = w]
                            /\ w.at = walk[r].at /\ w.carries = walk[r].carries
      BY <1>1, <1>2, WalkKnown, NodeWalk DEF ExceptionIntercept, AtNode
    <2> QED BY <1>1, <1>2, <2>1, KeptInv DEF ExceptionIntercept, At, AtNode, Placed, Ended
  <1>3. CASE Go(r, "rescheduled")
    <2>1. PICK w \in Walks : /\ walk' = [walk EXCEPT ![r] = w]
                            /\ w.at = "rescheduled"
      BY <1>1, <1>3, WalkKnown, GoWalk DEF Ended
    <2> QED BY <1>1, <1>3, <2>1, KeptInv DEF ExceptionIntercept, At, AtNode, Placed, Ended
  <1>4. CASE walk[r].turns > 0 /\ Turned(r)
    <2>1. PICK w \in Walks : /\ walk' = [walk EXCEPT ![r] = w]
                            /\ w.at = "responseChain"
      BY <1>1, <1>4, WalkKnown, TurnedWalk
    <2> QED BY <1>1, <1>4, <2>1, KeptInv DEF ExceptionIntercept, At, AtNode, Placed, Ended
  <1> QED BY <1>2, <1>3, <1>4 DEF ExceptionIntercept, Turned

\* An exception nobody handled goes to the errback.
LEMMA ExceptionDoneInv ==
    ASSUME ChainsIndInv, NEW r \in Requests, ExceptionDone(r)
    PROVE  ChainsIndInv'
  <1>1. /\ ChainsTypeOK /\ lost' \in BOOLEAN /\ stopping' = stopping
        /\ Placed(walk[r].at, walk[r].carries, stream[r], stopping, r \in Streams)
    BY WalkKnown DEF ExceptionDone
  <1>2. CASE Enter(r, "deliver", 0, "error")
    <2>1. PICK w \in Walks : /\ walk' = [walk EXCEPT ![r] = w]
                            /\ w.at = "deliver"
      BY <1>1, <1>2, WalkKnown, EnterWalk DEF Places, Kinds, Results
    <2> QED BY <1>1, <1>2, <2>1, KeptInv DEF ExceptionDone, At, AtNode, Placed, Ended
  <1> QED BY <1>2 DEF ExceptionDone

\* A spider interceptor sees the response.
LEMMA InputInterceptInv ==
    ASSUME ChainsIndInv, NEW r \in Requests, InputIntercept(r)
    PROVE  ChainsIndInv'
  <1>1. /\ ChainsTypeOK /\ lost' \in BOOLEAN /\ stopping' = stopping
        /\ Placed(walk[r].at, walk[r].carries, stream[r], stopping, r \in Streams)
    BY WalkKnown DEF InputIntercept
  <1>2. CASE walk[r].node < Spider /\ Node(r, walk[r].node + 1) /\ NotClosed
    <2>1. PICK w \in Walks : /\ walk' = [walk EXCEPT ![r] = w]
                            /\ w.at = walk[r].at /\ w.carries = walk[r].carries
      BY <1>1, <1>2, WalkKnown, NodeWalk DEF InputIntercept
    <2> QED BY <1>1, <1>2, <2>1, KeptInv DEF InputIntercept, At, AtNode, Placed, Ended
  <1>3. CASE Enter(r, "deliver", 0, walk[r].carries) /\ NotClosed
    <2>1. PICK w \in Walks : /\ walk' = [walk EXCEPT ![r] = w]
                            /\ w.at = "deliver" /\ w.carries = walk[r].carries
      BY <1>1, <1>3, WalkKnown, EnterWalk DEF Places, Kinds, Results
    <2> QED BY <1>1, <1>3, <2>1, KeptInv DEF InputIntercept, At, AtNode, Placed, Ended
  <1>4. CASE Enter(r, "deliver", 0, "error") /\ walk[r].carries = "stream" /\ Closed(r)
    <2>1. PICK w \in Walks : /\ walk' = [walk EXCEPT ![r] = w]
                            /\ w.at = "deliver"
      BY <1>1, <1>4, WalkKnown, EnterWalk DEF Places, Kinds, Results
    <2> QED BY <1>1, <1>4, <2>1, ClosedInv DEF InputIntercept, At, AtNode, Ended
  <1>5. CASE Enter(r, "deliver", 0, "error") /\ walk[r].carries # "stream" /\ NotClosed
    <2>1. PICK w \in Walks : /\ walk' = [walk EXCEPT ![r] = w]
                            /\ w.at = "deliver"
      BY <1>1, <1>5, WalkKnown, EnterWalk DEF Places, Kinds, Results
    <2> QED BY <1>1, <1>5, <2>1, KeptInv DEF InputIntercept, At, AtNode, Placed, Ended
  <1> QED BY <1>2, <1>3, <1>4, <1>5 DEF InputIntercept

\* The Downloader takes the request.
LEMMA FetchInv ==
    ASSUME ChainsIndInv, NEW r \in Requests, Fetch(r)
    PROVE  ChainsIndInv'
  <1>1. /\ ChainsTypeOK /\ lost' \in BOOLEAN /\ stopping' = stopping
        /\ Placed(walk[r].at, walk[r].carries, stream[r], stopping, r \in Streams)
    BY WalkKnown DEF Fetch
  <1>2. CASE r \in Streams /\ Go(r, "permit")
    <2>1. PICK w \in Walks : /\ walk' = [walk EXCEPT ![r] = w]
                            /\ w.at = "permit"
      BY <1>1, <1>2, WalkKnown, GoWalk DEF Places
    <2> QED BY <1>1, <1>2, <2>1, KeptInv DEF Fetch, At, AtNode, Placed, Ended
  <1>3. CASE r \notin Streams /\ Go(r, "opening")
    <2>1. PICK w \in Walks : /\ walk' = [walk EXCEPT ![r] = w]
                            /\ w.at = "opening"
      BY <1>1, <1>3, WalkKnown, GoWalk DEF Places
    <2> QED BY <1>1, <1>3, <2>1, KeptInv DEF Fetch, At, AtNode, Placed, Ended
  <1> QED BY <1>2, <1>3 DEF Fetch

\* A stream takes a permit.
LEMMA PermitInv ==
    ASSUME ChainsIndInv, NEW r \in Requests, Permit(r)
    PROVE  ChainsIndInv'
  <1>1. /\ ChainsTypeOK /\ lost' \in BOOLEAN /\ stopping' = stopping
        /\ Placed(walk[r].at, walk[r].carries, stream[r], stopping, r \in Streams)
    BY WalkKnown DEF Permit
  <1>2. /\ stream \in [Requests -> {"none", "open", "closed"}] /\ permits \in Nat
        /\ permits' \in Nat /\ permits' = permits - 1
        /\ stream' = [stream EXCEPT ![r] = stream[r]] /\ stream[r] # "open"
    BY <1>1 DEF ChainsTypeOK, Permit, At, Placed, Ended
  <1>3. PICK w \in Walks : walk' = [walk EXCEPT ![r] = w] /\ w.at = "opening"
    BY <1>1, GoWalk DEF Permit, Places
  <1>4. CASE r \in Streams
    <2>1. permits' + (IF r \in Streams /\ w.at = "opening" THEN 1 ELSE 0)
                   + (IF r \in Streams /\ stream[r] = "open" THEN 1 ELSE 0)
                 = permits + Opening(r) + Open(r)
      BY <1>2, <1>3, <1>4 DEF Opening, Open, Permit, At
    <2> QED BY <1>1, <1>2, <1>3, <2>1, ChainStepInv DEF Placed
  <1>5. r \in Streams
    BY <1>1 DEF Permit, At, Placed
  <1> QED BY <1>4, <1>5

\* The response or the stream is there.
LEMMA OpenedInv ==
    ASSUME ChainsIndInv, NEW r \in Requests, Opened(r)
    PROVE  ChainsIndInv'
  <1>1. /\ ChainsTypeOK /\ lost' \in BOOLEAN /\ stopping' = stopping
        /\ Placed(walk[r].at, walk[r].carries, stream[r], stopping, r \in Streams)
    BY WalkKnown DEF Opened
  <1>2. /\ stream \in [Requests -> {"none", "open", "closed"}] /\ permits \in Nat
        /\ permits' = permits /\ stream[r] # "open"
    BY <1>1 DEF ChainsTypeOK, Opened, At, Placed, Ended
  <1>3. PICK st \in {"none", "open", "closed"} :
           /\ st = IF r \in Streams THEN "open" ELSE stream[r]
           /\ stream' = [stream EXCEPT ![r] = st]
    BY <1>2 DEF Opened
  <1>4. PICK w \in Walks : /\ walk' = [walk EXCEPT ![r] = w] /\ w.at = "responseChain"
                           /\ w.carries = IF r \in Streams THEN "stream" ELSE "response"
    BY <1>1, WalkKnown, EnterWalk DEF Opened, Places, Kinds
  <1>5. permits' + (IF r \in Streams /\ w.at = "opening" THEN 1 ELSE 0)
                 + (IF r \in Streams /\ st = "open" THEN 1 ELSE 0)
               = permits + Opening(r) + Open(r)
    BY <1>2, <1>3, <1>4 DEF Opening, Open, Opened, At
  <1>6. Placed(w.at, w.carries, st, stopping, r \in Streams)
    BY <1>2, <1>3, <1>4 DEF Placed
  <1> QED BY <1>1, <1>2, <1>3, <1>4, <1>5, <1>6, ChainStepInv

\* An open that fails gives the permit back.
LEMMA OpenFailsInv ==
    ASSUME ChainsIndInv, NEW r \in Requests, OpenFails(r)
    PROVE  ChainsIndInv'
  <1>1. /\ ChainsTypeOK /\ lost' \in BOOLEAN /\ stopping' = stopping
        /\ Placed(walk[r].at, walk[r].carries, stream[r], stopping, r \in Streams)
    BY WalkKnown DEF OpenFails
  <1>2. /\ stream \in [Requests -> {"none", "open", "closed"}] /\ permits \in Nat
        /\ permits' \in Nat /\ permits' = (IF r \in Streams THEN permits + 1 ELSE permits)
        /\ stream' = [stream EXCEPT ![r] = stream[r]] /\ stream[r] # "open"
    BY <1>1 DEF ChainsTypeOK, OpenFails, At, Placed, Ended
  <1>3. PICK w \in Walks : walk' = [walk EXCEPT ![r] = w] /\ w.at = "responseChain"
    BY <1>1, ReportWalk DEF OpenFails
  <1>4. permits' + (IF r \in Streams /\ w.at = "opening" THEN 1 ELSE 0)
                 + (IF r \in Streams /\ stream[r] = "open" THEN 1 ELSE 0)
               = permits + Opening(r) + Open(r)
    BY <1>2, <1>3 DEF Opening, Open, OpenFails, At
  <1> QED BY <1>1, <1>2, <1>3, <1>4, ChainStepInv DEF Placed

\* The response goes to the callback, or nowhere.
LEMMA DeliverInv ==
    ASSUME ChainsIndInv, NEW r \in Requests, Deliver(r)
    PROVE  ChainsIndInv'
  <1>1. /\ ChainsTypeOK /\ lost' \in BOOLEAN /\ stopping' = stopping
        /\ Placed(walk[r].at, walk[r].carries, stream[r], stopping, r \in Streams)
    BY WalkKnown DEF Deliver
  <1>2. CASE walk[r].carries = "error" /\ Go(r, "completed")
    <2>1. PICK w \in Walks : /\ walk' = [walk EXCEPT ![r] = w]
                            /\ w.at = "completed"
      BY <1>1, <1>2, WalkKnown, GoWalk DEF Ended
    <2> QED BY <1>1, <1>2, <2>1, KeptInv DEF Deliver, At, AtNode, Placed, Ended
  <1>3. CASE stopping /\ Go(r, "stopped")
    <2>1. PICK w \in Walks : /\ walk' = [walk EXCEPT ![r] = w]
                            /\ w.at = "stopped"
      BY <1>1, <1>3, WalkKnown, GoWalk DEF Ended
    <2> QED BY <1>1, <1>3, <2>1, KeptInv DEF Deliver, At, AtNode, Placed, Ended
  <1>4. CASE Created(r)
    <2>1. PICK w \in Walks : /\ walk' = [walk EXCEPT ![r] = w]
                            /\ w.at = "created"
      BY <1>1, <1>4, WalkKnown, CreatedWalk
    <2> QED BY <1>1, <1>4, <2>1, KeptInv DEF Deliver, At, AtNode, Placed, Ended
  <1> QED BY <1>2, <1>3, <1>4 DEF Deliver, Created

\* The callback begins.
LEMMA StartOutputInv ==
    ASSUME ChainsIndInv, NEW r \in Requests, StartOutput(r)
    PROVE  ChainsIndInv'
  <1>1. /\ ChainsTypeOK /\ lost' \in BOOLEAN /\ stopping' = stopping
        /\ Placed(walk[r].at, walk[r].carries, stream[r], stopping, r \in Streams)
    BY WalkKnown DEF StartOutput
  <1>2. CASE Go(r, "output")
    <2>1. PICK w \in Walks : /\ walk' = [walk EXCEPT ![r] = w]
                            /\ w.at = "output"
      BY <1>1, <1>2, WalkKnown, GoWalk DEF Places
    <2> QED BY <1>1, <1>2, <2>1, KeptInv DEF StartOutput, At, AtNode, Placed, Ended
  <1> QED BY <1>2 DEF StartOutput

\* The callback is exhausted.
LEMMA OutputEndsInv ==
    ASSUME ChainsIndInv, NEW r \in Requests, OutputEnds(r)
    PROVE  ChainsIndInv'
  <1>1. /\ ChainsTypeOK /\ lost' \in BOOLEAN /\ stopping' = stopping
        /\ Placed(walk[r].at, walk[r].carries, stream[r], stopping, r \in Streams)
    BY WalkKnown DEF OutputEnds
  <1>2. CASE Go(r, "completed")
    <2>1. PICK w \in Walks : /\ walk' = [walk EXCEPT ![r] = w]
                            /\ w.at = "completed"
      BY <1>1, <1>2, WalkKnown, GoWalk DEF Ended
    <2> QED BY <1>1, <1>2, <2>1, ClosedInv DEF OutputEnds, At, AtNode, Ended
  <1> QED BY <1>2 DEF OutputEnds

\* A result crosses its boundary.
LEMMA OutputDoneInv ==
    ASSUME ChainsIndInv, NEW r \in Requests, OutputDone(r)
    PROVE  ChainsIndInv'
  <1>1. /\ ChainsTypeOK /\ lost' \in BOOLEAN /\ stopping' = stopping
        /\ Placed(walk[r].at, walk[r].carries, stream[r], stopping, r \in Streams)
    BY WalkKnown DEF OutputDone
  <1>2. CASE Go(r, "output")
    <2>1. PICK w \in Walks : /\ walk' = [walk EXCEPT ![r] = w]
                            /\ w.at = "output"
      BY <1>1, <1>2, WalkKnown, GoWalk DEF Places
    <2> QED BY <1>1, <1>2, <2>1, KeptInv DEF OutputDone, At, AtNode, Placed, Ended
  <1> QED BY <1>2 DEF OutputDone

\* A spider interceptor sees an exception.
LEMMA SpiderExceptionInv ==
    ASSUME ChainsIndInv, NEW r \in Requests, SpiderException(r)
    PROVE  ChainsIndInv'
  <1>1. /\ ChainsTypeOK /\ lost' \in BOOLEAN /\ stopping' = stopping
        /\ Placed(walk[r].at, walk[r].carries, stream[r], stopping, r \in Streams)
    BY WalkKnown DEF SpiderException
  <1>2. CASE walk[r].node > 0 /\ Node(r, walk[r].node - 1)
    <2>1. PICK w \in Walks : /\ walk' = [walk EXCEPT ![r] = w]
                            /\ w.at = walk[r].at /\ w.carries = walk[r].carries
      BY <1>1, <1>2, WalkKnown, NodeWalk
    <2> QED BY <1>1, <1>2, <2>1, KeptInv DEF SpiderException, At, AtNode, Placed, Ended
  <1>3. CASE Go(r, "output")
    <2>1. PICK w \in Walks : /\ walk' = [walk EXCEPT ![r] = w]
                            /\ w.at = "output"
      BY <1>1, <1>3, WalkKnown, GoWalk DEF Places
    <2> QED BY <1>1, <1>3, <2>1, KeptInv DEF SpiderException, At, AtNode, Placed, Ended
  <1> QED BY <1>2, <1>3 DEF SpiderException

\* A callback yields a result.
LEMMA OutputInv ==
    ASSUME ChainsIndInv, NEW r \in Requests, Output(r)
    PROVE  ChainsIndInv'
  <1>1. /\ ChainsTypeOK /\ lost' \in BOOLEAN /\ stopping' = stopping /\ NotClosed
        /\ Placed(walk[r].at, walk[r].carries, stream[r], stopping, r \in Streams)
    BY WalkKnown DEF Output
  <1>2. PICK kind \in Results \ {"error"} :
          walk' = [walk EXCEPT ![r].at = "outputChain", ![r].node = Spider,
                               ![r].carries = kind, ![r].left = @ - 1]
    BY DEF Output
  <1>3. PICK w : w = [walk[r] EXCEPT !.at = "outputChain", !.node = Spider,
                                     !.carries = kind, !.left = @ - 1]
    OBVIOUS
  <1>4. w \in Walks /\ w.at = "outputChain"
    <2>1. /\ walk[r] \in Walks /\ "outputChain" \in Places \cup Ended /\ kind \in Kinds
          /\ Spider \in 0..(Download + Spider)
      BY <1>1, WalkTypes, ChainsAssumption DEF Places, Kinds
    <2>2. walk[r].left - 1 \in 0..MaxOutputs
      BY <2>1, ChainsAssumption DEF Walks, Output
    <2> QED BY <1>3, <2>1, <2>2 DEF Walks
  <1>5. walk' = [walk EXCEPT ![r] = w]
    BY <1>1, <1>2, <1>3, WalkTypes
  <1> QED BY <1>1, <1>4, <1>5, KeptInv DEF Output, At, Placed, Ended

\* An interceptor sees a result of the callback.
LEMMA OutputInterceptInv ==
    ASSUME ChainsIndInv, NEW r \in Requests, OutputIntercept(r)
    PROVE  ChainsIndInv'
  <1>1. /\ ChainsTypeOK /\ stopping' = stopping /\ NotClosed
        /\ Placed(walk[r].at, walk[r].carries, stream[r], stopping, r \in Streams)
        /\ walk[r].at = "outputChain" /\ walk[r].node # 0
        /\ walk[r].node - 1 \in 0..(Download + Spider)
    BY WalkKnown DEF OutputIntercept, AtNode
  <1>2. \E w \in Walks : /\ walk' = [walk EXCEPT ![r] = w]
                         /\ w.at \in {"outputChain", "spiderException", "output"}
    <2>1. CASE Node(r, walk[r].node - 1)
      <3>1. \E w \in Walks : walk' = [walk EXCEPT ![r] = w] /\ w.at = walk[r].at
        BY <1>1, <2>1, NodeWalk
      <3> QED BY <1>1, <3>1
    <2>2. CASE Enter(r, "spiderException", Spider, "error")
      <3>1. Spider \in 0..(Download + Spider)
        BY WalkKnown
      <3>2. "spiderException" \in Places /\ "error" \in Kinds
        BY DEF Places, Kinds, Results
      <3>3. \E w \in Walks : walk' = [walk EXCEPT ![r] = w] /\ w.at = "spiderException"
        BY <1>1, <2>2, <3>1, <3>2, EnterWalk
      <3> QED BY <3>3
    <2>3. CASE Go(r, "output")
      <3>1. "output" \in Places \cup Ended
        BY DEF Places
      <3>2. \E w \in Walks : walk' = [walk EXCEPT ![r] = w] /\ w.at = "output"
        BY <1>1, <2>3, <3>1, GoWalk
      <3> QED BY <3>2
    <2>4. ASSUME NEW what \in Kinds,
                 walk' = [walk EXCEPT ![r].node = walk[r].node - 1, ![r].carries = what]
          PROVE  \E w \in Walks : walk' = [walk EXCEPT ![r] = w] /\ w.at = "outputChain"
      <3>1. PICK w : w = [walk[r] EXCEPT !.node = walk[r].node - 1, !.carries = what]
        OBVIOUS
      <3>2. w \in Walks /\ w.at = walk[r].at
        <4>1. walk[r] \in Walks
          BY <1>1, WalkTypes
        <4> QED BY <1>1, <3>1, <4>1 DEF Walks
      <3>3. walk' = [walk EXCEPT ![r] = w]
        BY <1>1, <2>4, <3>1, WalkTypes
      <3> QED BY <1>1, <3>2, <3>3
    <2>5. ASSUME NEW n \in 0..2, NEW out \in [1..n -> Results],
                 walk' = [walk EXCEPT ![r].node = @ - 1,
                                      ![r].carries = IF n = 0 THEN @ ELSE out[n]]
          PROVE  \E w \in Walks : walk' = [walk EXCEPT ![r] = w] /\ w.at = "outputChain"
      <3>1. PICK what \in Kinds : what = IF n = 0 THEN walk[r].carries ELSE out[n]
        <4>1. walk[r].carries \in Kinds /\ Results \subseteq Kinds
          BY WalkKnown DEF Kinds
        <4>2. n = 0 \/ out[n] \in Results
          OBVIOUS
        <4> QED BY <4>1, <4>2
      <3>2. walk' = [walk EXCEPT ![r].node = walk[r].node - 1, ![r].carries = what]
        BY <1>1, <2>5, <3>1, WalkTypes
      <3> QED BY <2>4, <3>2
    <2> QED BY <2>1, <2>2, <2>3, <2>5 DEF OutputIntercept
  <1>3. lost' \in BOOLEAN
    <2>1. lost \in BOOLEAN
      BY WalkKnown
    <2> QED BY <2>1 DEF OutputIntercept
  <1> QED BY <1>1, <1>2, <1>3, KeptInv DEF Placed, Ended

\* The shutdown begins.
LEMMA RequestStopInv == ChainsIndInv /\ RequestStop => ChainsIndInv'
  BY DEF ChainsIndInv, ChainsTypeOK, PermitsExact, At, StreamPlaces, Placed, RequestStop

\* A task is cancelled; one that never began leaves its stream open.
LEMMA CancelInv ==
    ASSUME ChainsIndInv, NEW r \in Requests, Cancel(r)
    PROVE  ChainsIndInv'
  <1>1. /\ ChainsTypeOK /\ lost' \in BOOLEAN /\ stopping' = stopping /\ stopping
        /\ Placed(walk[r].at, walk[r].carries, stream[r], stopping, r \in Streams)
    BY WalkKnown DEF Cancel
  <1>2. PICK w \in Walks : walk' = [walk EXCEPT ![r] = w] /\ w.at = "stopped"
    BY <1>1, GoWalk DEF Cancel, Ended
  <1>3. CASE walk[r].at = "opening" /\ r \in Streams
    <2>1. /\ stream \in [Requests -> {"none", "open", "closed"}] /\ permits \in Nat
          /\ permits' \in Nat /\ permits' = permits + 1
          /\ stream' = [stream EXCEPT ![r] = stream[r]] /\ stream[r] # "open"
      BY <1>1, <1>3 DEF ChainsTypeOK, Cancel, At, Placed, Ended
    <2>2. permits' + (IF r \in Streams /\ w.at = "opening" THEN 1 ELSE 0)
                   + (IF r \in Streams /\ stream[r] = "open" THEN 1 ELSE 0)
                 = permits + Opening(r) + Open(r)
      BY <1>2, <1>3, <2>1 DEF Opening, Open
    <2>3. Placed(w.at, w.carries, stream[r], stopping, r \in Streams)
      BY <1>2, <2>1 DEF Placed
    <2> QED BY <1>1, <1>2, <2>1, <2>2, <2>3, ChainStepInv
  <1>4. CASE walk[r].at = "created"
    <2>1. NotClosed
      BY <1>4 DEF Cancel, At
    <2> QED BY <1>1, <1>2, <1>4, <2>1, KeptInv DEF Placed, Ended
  <1>5. CASE walk[r].at # "created" /\ ~(walk[r].at = "opening" /\ r \in Streams)
    <2>1. Closed(r)
      BY <1>5 DEF Cancel, At
    <2>2. CASE walk[r].at # "opening"
      BY <1>1, <1>2, <2>1, <2>2, ClosedInv
    <2>3. CASE walk[r].at = "opening"
      <3>1. stream[r] # "open" /\ stream \in [Requests -> {"none", "open", "closed"}]
        BY <1>1, <2>3 DEF ChainsTypeOK, Placed, Ended
      <3>2. NotClosed
        BY <2>1, <3>1 DEF Closed, NotClosed
      <3> QED BY <1>1, <1>2, <1>5, <2>3, <3>1, <3>2, KeptInv DEF Placed
    <2> QED BY <2>2, <2>3
  <1> QED BY <1>3, <1>4, <1>5

\* No stream is open and every permit is free at first.
LEMMA ChainsInitInv == ChainsInit => ChainsIndInv
  <1> SUFFICES ASSUME ChainsInit PROVE ChainsIndInv
    OBVIOUS
  <1>1. ChainsTypeOK
    <2>1. walk \in [Requests -> Walks]
      BY ChainsAssumption DEF ChainsInit, Walks, Places, Kinds
    <2>2. stream \in [Requests -> {"none", "open", "closed"}] /\ permits \in 0..MaxStreams
      BY ChainsAssumption DEF ChainsInit
    <2>3. stopping \in BOOLEAN /\ lost \in BOOLEAN
      BY DEF ChainsInit
    <2> QED BY <2>1, <2>2, <2>3, WalkTypes
  <1>2. PermitsExact
    <2>1. {r \in Streams : At(r, "opening")} = {} /\ {r \in Streams : stream[r] = "open"} = {}
      BY ChainsAssumption DEF ChainsInit, At
    <2> QED BY <2>1, FS_EmptySet, ChainsAssumption DEF ChainsInit, PermitsExact
  <1>3. StreamPlaces
    BY DEF ChainsInit, StreamPlaces, Placed
  <1> QED BY <1>1, <1>2, <1>3 DEF ChainsIndInv

\* Every step keeps the permits exact and the open streams with an owner.
THEOREM ChainsInductive == ChainsIndInv /\ [ChainsNext]_chainsVars => ChainsIndInv'
  <1> SUFFICES ASSUME ChainsIndInv, [ChainsNext]_chainsVars PROVE ChainsIndInv'
    OBVIOUS
  <1>1. ASSUME NEW r \in Requests, Schedule(r) \/ Intercept(r)
        PROVE  ChainsIndInv'
    <2>1. CASE InterceptorRaises(r)
      BY <2>1, RaisedInv DEF InterceptorRaises
    <2> QED BY <1>1, <2>1, ScheduleInv, RequestInterceptInv, ResponseInterceptInv,
               ResponseDoneInv, ExceptionInterceptInv, ExceptionDoneInv, InputInterceptInv
            DEF Intercept
  <1>2. ASSUME NEW r \in Requests, Downloading(r) \/ Cancel(r)
        PROVE  ChainsIndInv'
    BY <1>2, FetchInv, PermitInv, OpenedInv, OpenFailsInv, CancelInv DEF Downloading
  <1>3. ASSUME NEW r \in Requests, Delivery(r)
        PROVE  ChainsIndInv'
    <2>1. CASE DeliverRaises(r) \/ OutputRaises(r)
      BY <2>1, RaisedInv DEF DeliverRaises, OutputRaises, At
    <2> QED BY <1>3, <2>1, DeliverInv, StartOutputInv, OutputInv, OutputInterceptInv,
               OutputDoneInv, SpiderExceptionInv, OutputEndsInv
            DEF Delivery
  <1>4. CASE UNCHANGED chainsVars
    BY <1>4 DEF chainsVars, ChainsIndInv, ChainsTypeOK, PermitsExact, At, StreamPlaces
  <1> QED BY <1>1, <1>2, <1>3, <1>4, RequestStopInv DEF ChainsNext

\* The types, the exact permits and no stream without an owner, for any
\* number of requests, interceptors and permits.
THEOREM StreamsKept == ChainsSpec => []ChainsInv
  <1>1. ChainsIndInv => ChainsInv
    BY ChainsAssumption DEF ChainsIndInv, ChainsInv, StreamPlaces, StreamOwned, Placed, Ended
  <1> QED BY <1>1, ChainsInitInv, ChainsInductive, PTL DEF ChainsSpec

=============================================================================
