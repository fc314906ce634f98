------------------------------ MODULE MCTraffic -----------------------------
(***************************************************************************)
(* Small instances of what happens between an engine and a server:         *)
(* WebSocket connections, requests and streams in the interceptor chains,  *)
(* the transfers of one session, and the Protobuf messages in them.        *)
(* A behaviour is one of one component: focus says of which, and the       *)
(* others stay in an initial state.                                        *)
(***************************************************************************)
EXTENDS WebSockets, Chains, Transfers, Protobuf

VARIABLE focus

\* All short byte strings over bytes of every wire type, and sequences of
\* well-formed fields: numbers, fixed, empty, text, nested once and twice.
Fields == {<<8, 1>>, <<16, 1>>, <<13, 7, 9>>, <<17, 1, 2, 3>>, <<10, 0>>,
           <<10, 2, 8, 1>>, <<10, 2, 8, 2>>, <<10, 4, 8, 1, 16, 1>>,
           <<10, 4, 16, 1, 8, 1>>, <<10, 1, 65>>, <<10, 1, 193>>,
           <<10, 4, 10, 2, 8, 1>>, <<10, 2, 10, 0>>, <<10, 6, 8, 1, 16, 1, 8, 1>>}
MCInputs == UNION {[1..n -> {0, 1, 2, 8, 10, 18, 65, 128, 193}] : n \in 0..4}
            \cup {FlattenSeq(s) : s \in UNION {[1..n -> Fields] : n \in 1..3}}
MCCalls == {<<>>, <<<<>>>>, <<<<8, 1>>>>, <<<<8, 1>>, <<>>, <<1, 0, 0>>>>}

Init ==
    /\ focus \in {"websockets", "chains", "transfers", "protobuf"}
    /\ focus = "protobuf" \/ (input = <<>> /\ payloads = <<>>)
    /\ focus = "transfers" \/ (rate = 0 /\ limited = {})
    /\ WebSocketsInit /\ ChainsInit /\ TransfersInit /\ ProtobufInit

Next ==
    /\ UNCHANGED focus
    /\ \/ /\ focus = "websockets" /\ WebSocketsNext
          /\ UNCHANGED <<chainsVars, transfersVars, protobufVars>>
       \/ /\ focus = "chains" /\ ChainsNext
          /\ UNCHANGED <<webSocketVars, transfersVars, protobufVars>>
       \/ /\ focus = "transfers" /\ TransfersNext
          /\ UNCHANGED <<webSocketVars, chainsVars, protobufVars>>
       \/ /\ focus = "protobuf" /\ ProtobufNext
          /\ UNCHANGED <<webSocketVars, chainsVars, transfersVars>>

\* The fairness of the component in focus (WebSocketsFairness, ChainsSpec,
\* TransfersFairness).
Fairness ==
    /\ \A c \in Connects :
          /\ WF_webSocketVars(focus = "websockets" /\ ListenerStep(c))
          /\ WF_webSocketVars(focus = "websockets" /\ OwnerStep(c))
    /\ WF_webSocketVars(focus = "websockets" /\ CloserStep)
    /\ WF_webSocketVars(focus = "websockets" /\ EndWebSocket)
    /\ \A s \in Sends : WF_webSocketVars(focus = "websockets" /\ SendStep(s))
    /\ \A r \in Requests :
          /\ WF_chainsVars(focus = "chains" /\ (Intercept(r) \/ Downloading(r) \/ Delivery(r)))
          /\ WF_chainsVars(focus = "chains" /\ Cancel(r))
    /\ WF_transfersVars(focus = "transfers" /\ Tick)
    /\ \A r \in Transfers :
          /\ WF_transfersVars(focus = "transfers" /\ Progress(r))
          /\ SF_transfersVars(focus = "transfers" /\ Lock(r))

Spec == Init /\ [][Next]_<<focus, webSocketVars, chainsVars, transfersVars, protobufVars>>
             /\ Fairness

---------------------------------------------------------------------------
\* What is fetched ends: every request leaves the chains and every transfer of
\* a session ends (Engine.process_item, fetch.py), with or without a response.
FetchesEnd == RequestsEnd /\ TransfersEnd
=============================================================================
