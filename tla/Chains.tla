------------------------------- MODULE Chains -------------------------------
(***************************************************************************)
(* A request on its way through the interceptor chains (interceptors/      *)
(* chains.py), the Downloader's live streams (core/downloader/fetch.py,    *)
(* StreamResponse of internet/response.py) and the Engine's delivery to    *)
(* the spider (core/engine.py).                                            *)
(*                                                                         *)
(* Interceptors are user code: at every node any result the chain knows is *)
(* possible, and raising too.  walk[r].task says which task runs the       *)
(* request, because that decides who closes its stream when something      *)
(* raises:                                                                 *)
(*   "intercept"  process_downloadInterceptor_chain, nobody catches;       *)
(*   "fetch"      fetch_http, which closes and reports a DownloadError;    *)
(*   "report"     that report, or the one of a failed open;                *)
(*   "output"     get_spider_output, whose "finally" closes.               *)
(***************************************************************************)
EXTENDS Integers, FiniteSets, Sequences

CONSTANTS
    Requests,    \* requests in flight
    Streams,     \* those with stream=True
    Download,    \* number of download interceptors
    Spider,      \* number of spider interceptors
    MaxStreams,  \* MAX_CONCURRENT_REQ, the permits of _stream_semaphore
    MaxOutputs,  \* bound: results a callback yields
    MaxTurns     \* bound: exceptions a request turns back into responses

ASSUME ChainsAssumption ==
    /\ Streams \subseteq Requests /\ IsFiniteSet(Requests)
    /\ Download \in Nat \ {0} /\ Spider \in Nat \ {0} /\ MaxStreams \in Nat \ {0}
    /\ MaxOutputs \in Nat /\ MaxTurns \in Nat

VARIABLES
    walk,      \* per request: place, node, what is carried, task, counters
    stream,    \* per request: its live stream
    permits,   \* free permits of _stream_semaphore
    stopping,  \* the shutdown cancels the tasks and sets stop_event
    lost       \* whether an output chain dropped a result

chainsVars == <<walk, stream, permits, stopping, lost>>

Places == {"new", "requestChain", "downloader", "permit", "opening",
           "responseChain", "exceptionChain", "inputChain", "deliver", "created",
           "output", "outputChain", "spiderException"}
Ended == {"completed", "rescheduled", "dropped", "stopped"}
Results == {"request", "item", "signal", "error"}

ChainsTypeOK ==
    /\ walk \in [Requests ->
          [at : Places \cup Ended, node : 0..(Download + Spider),
           carries : {"request", "response", "stream"} \cup Results,
           task : {"intercept", "fetch", "report", "output"},
           left : 0..MaxOutputs, turns : 0..MaxTurns]]
    /\ stream \in [Requests -> {"none", "open", "closed"}]
    /\ permits \in 0..MaxStreams
    /\ stopping \in BOOLEAN
    /\ lost \in BOOLEAN

ChainsInit ==
    /\ walk = [r \in Requests |->
                  [at |-> "new", node |-> 0, carries |-> "request",
                   task |-> "intercept", left |-> MaxOutputs, turns |-> MaxTurns]]
    /\ stream = [r \in Requests |-> "none"]
    /\ permits = MaxStreams
    /\ stopping = FALSE
    /\ lost = FALSE

At(r, place) == walk[r].at = place
AtNode(r, chain) == walk[r].at = chain /\ walk[r].node # 0

\* The request enters a chain at a node, carrying something.
Enter(r, chain, node, what) ==
    walk' = [walk EXCEPT ![r].at = chain, ![r].node = node, ![r].carries = what]

\* A request that has ended leaves nothing behind in the chains, and one back
\* in its callback no result.
Go(r, place) ==
    walk' = IF place \in Ended
            THEN [walk EXCEPT ![r] = [at |-> place, node |-> 0, carries |-> "request",
                                      task |-> "output", left |-> 0, turns |-> 0]]
            ELSE [walk EXCEPT ![r].at = place, ![r].node = 0,
                              ![r].carries = IF place = "output" THEN "request" ELSE @]
Node(r, k) == walk' = [walk EXCEPT ![r].node = k]

\* StreamResponse.aclose: the first close of a stream gives its permit back,
\* also when closing fails.
Closed(r) ==
    /\ stream' = [stream EXCEPT ![r] = IF @ = "open" THEN "closed" ELSE @]
    /\ permits' = IF stream[r] = "open" THEN permits + 1 ELSE permits

NotClosed == UNCHANGED <<stream, permits>>

\* The Downloader reports an error through the response chain.
Report(r) ==
    walk' = [walk EXCEPT ![r].at = "responseChain", ![r].node = Download,
                         ![r].carries = "error", ![r].task = "report"]

\* Something raised in the task that runs r.
Raised(r) ==
    /\ IF walk[r].task = "fetch" THEN Report(r) ELSE Go(r, "dropped")
    /\ Closed(r)
    /\ UNCHANGED <<stopping, lost>>

---------------------------------------------------------------------------
(* The download interceptors.                                              *)

Schedule(r) ==
    /\ At(r, "new") /\ ~stopping
    /\ Enter(r, "requestChain", 1, "request")
    /\ NotClosed /\ UNCHANGED <<stopping, lost>>

\* request_intercept_chain, head to tail.
RequestIntercept(r) ==
    /\ AtNode(r, "requestChain")
    /\ \/ IF walk[r].node < Download
          THEN Node(r, walk[r].node + 1)
          ELSE walk' = [walk EXCEPT ![r].at = "downloader", ![r].task = "fetch"]
       \/ Go(r, "rescheduled")
       \/ Enter(r, "responseChain", Download, "response")
       \/ Enter(r, "exceptionChain", Download, "error")
    /\ NotClosed /\ UNCHANGED <<stopping, lost>>

\* Mutant: the replaced stream is left open.
ResponseInterceptUnclosed(r) ==
    /\ AtNode(r, "responseChain")
    /\ \/ Node(r, walk[r].node - 1) /\ walk[r].carries # "error" /\ NotClosed
       \/ Enter(r, "responseChain", walk[r].node - 1, "response") /\ NotClosed
       \/ Go(r, "rescheduled") /\ Closed(r)
       \/ Enter(r, "exceptionChain", Download, "error") /\ Closed(r)
    /\ UNCHANGED <<stopping, lost>>

\* response_intercept_chain, tail to head.  A result other than the owned
\* stream closes it.  Returning an error unchanged is an exception result.
ResponseIntercept(r) ==
    /\ AtNode(r, "responseChain")
    /\ \/ Node(r, walk[r].node - 1) /\ NotClosed
       \/ Enter(r, "responseChain", walk[r].node - 1, "response") /\ Closed(r)
       \/ Go(r, "rescheduled") /\ Closed(r)
       \/ Enter(r, "exceptionChain", Download, "error") /\ Closed(r)
    /\ UNCHANGED <<stopping, lost>>

\* All nodes passed: the spider's input chain.
ResponseDone(r) ==
    /\ At(r, "responseChain") /\ walk[r].node = 0
    /\ Enter(r, "inputChain", 1, walk[r].carries)
    /\ NotClosed /\ UNCHANGED <<stopping, lost>>

\* exception_intercept_chain: a response starts over in a task of its own.
ExceptionIntercept(r) ==
    /\ AtNode(r, "exceptionChain")
    /\ \/ Node(r, walk[r].node - 1)
       \/ Go(r, "rescheduled")
       \/ /\ walk[r].turns > 0
          /\ walk' = [walk EXCEPT ![r].at = "responseChain", ![r].node = Download,
                                  ![r].carries = "response", ![r].task = "intercept",
                                  ![r].turns = @ - 1]
    /\ NotClosed /\ UNCHANGED <<stopping, lost>>

\* Nobody handled it; is_across sends it to the errback.
ExceptionDone(r) ==
    /\ At(r, "exceptionChain") /\ walk[r].node = 0
    /\ Enter(r, "deliver", 0, "error")
    /\ NotClosed /\ UNCHANGED <<stopping, lost>>

InterceptorRaises(r) ==
    /\ walk[r].at \in {"requestChain", "responseChain", "exceptionChain", "inputChain"}
    /\ walk[r].node # 0
    /\ Raised(r)

---------------------------------------------------------------------------
(* The Downloader.                                                         *)

\* fetch_http: a stream first takes a permit.
Fetch(r) ==
    /\ At(r, "downloader")
    /\ Go(r, IF r \in Streams THEN "permit" ELSE "opening")
    /\ NotClosed /\ UNCHANGED <<stopping, lost>>

Permit(r) ==
    /\ At(r, "permit") /\ permits > 0
    /\ permits' = permits - 1
    /\ Go(r, "opening")
    /\ UNCHANGED <<stream, stopping, lost>>

\* The response, or the stream, goes to the chains within the fetch task.
Opened(r) ==
    /\ At(r, "opening")
    /\ Enter(r, "responseChain", Download, IF r \in Streams THEN "stream" ELSE "response")
    /\ stream' = [stream EXCEPT ![r] = IF r \in Streams THEN "open" ELSE @]
    /\ UNCHANGED <<permits, stopping, lost>>

\* Mutant: a failed open keeps the permit.
OpenFailsHolding(r) ==
    /\ At(r, "opening")
    /\ Report(r)
    /\ UNCHANGED <<permits, stream, stopping, lost>>

\* Opening fails or runs into the deadline: the permit goes back.
OpenFails(r) ==
    /\ At(r, "opening")
    /\ Report(r)
    /\ permits' = IF r \in Streams THEN permits + 1 ELSE permits
    /\ UNCHANGED <<stream, stopping, lost>>

---------------------------------------------------------------------------
(* The spider.                                                             *)

\* process_spider_input_chain; an exception result goes to the errback.
InputIntercept(r) ==
    /\ AtNode(r, "inputChain")
    /\ \/ /\ IF walk[r].node < Spider THEN Node(r, walk[r].node + 1)
                                      ELSE Enter(r, "deliver", 0, walk[r].carries)
          /\ NotClosed
       \/ /\ Enter(r, "deliver", 0, "error")
          /\ IF walk[r].carries = "stream" THEN Closed(r) ELSE NotClosed
    /\ UNCHANGED <<stopping, lost>>

\* process_response: an error without errback completes the request; else
\* the callback's output gets a task, unless the crawl is stopping.
Deliver(r) ==
    /\ At(r, "deliver")
    /\ \/ walk[r].carries = "error" /\ Go(r, "completed")
       \/ stopping /\ Go(r, "stopped")
       \/ /\ ~stopping
          /\ walk' = [walk EXCEPT ![r].at = "created", ![r].task = "output",
                                  ![r].carries = "request", ![r].turns = 0]
    /\ NotClosed /\ UNCHANGED <<stopping, lost>>

\* put_is_req, the acknowledgement or a plain callback raises.
DeliverRaises(r) == At(r, "deliver") /\ Raised(r)

StartOutput(r) ==
    /\ At(r, "created")
    /\ Go(r, "output")
    /\ NotClosed /\ UNCHANGED <<stopping, lost>>

\* get_spider_output: a result enters the output chain at its tail.
Output(r) ==
    /\ At(r, "output") /\ walk[r].left > 0
    /\ \E kind \in Results \ {"error"} :
          walk' = [walk EXCEPT ![r].at = "outputChain", ![r].node = Spider,
                               ![r].carries = kind, ![r].left = @ - 1]
    /\ NotClosed /\ UNCHANGED <<stopping, lost>>

OutputRaises(r) ==
    /\ walk[r].at \in {"output", "outputChain", "spiderException"}
    /\ Raised(r)

\* The callback is exhausted: the stream is closed, the request completed.
OutputEnds(r) ==
    /\ At(r, "output")
    /\ Go(r, "completed")
    /\ Closed(r)
    /\ UNCHANGED <<stopping, lost>>

\* process_spider_output_chain at one node: None passes the result on; of a
\* sequence, the first error or signal is emitted and ends the chain, and
\* otherwise its last element goes on alone.
OutputIntercept(r) ==
    /\ AtNode(r, "outputChain")
    /\ \/ Node(r, walk[r].node - 1) /\ UNCHANGED lost
       \/ \E n \in 0..2 : \E out \in [1..n -> Results] :
             LET ends == {i \in 1..n : out[i] \in {"error", "signal"}}
                 cut == CHOOSE i \in ends : \A j \in ends : i <= j
             IN IF ends # {}
                THEN /\ IF out[cut] = "error"
                        THEN Enter(r, "spiderException", Spider, "error")
                        ELSE Go(r, "output")
                     /\ lost' = (lost \/ cut > 1)
                ELSE /\ walk' = [walk EXCEPT ![r].node = @ - 1,
                                     ![r].carries = IF n = 0 THEN @ ELSE out[n]]
                     /\ lost' = (lost \/ n > 1)
    /\ NotClosed /\ UNCHANGED stopping

\* The result crosses its boundary: scheduler, pipelines or session.
OutputDone(r) ==
    /\ At(r, "outputChain") /\ walk[r].node = 0
    /\ Go(r, "output")
    /\ NotClosed /\ UNCHANGED <<stopping, lost>>

\* process_spider_exception_chain: a request, an item or an exception result
\* ends it; the second time round the error is only signalled.
SpiderException(r) ==
    /\ At(r, "spiderException")
    /\ \/ walk[r].node > 0 /\ Node(r, walk[r].node - 1)
       \/ Go(r, "output")
    /\ NotClosed /\ UNCHANGED <<stopping, lost>>

---------------------------------------------------------------------------
(* Stopping: tasks are cancelled; one that never started runs no cleanup.   *)

RequestStop ==
    /\ ~stopping
    /\ stopping' = TRUE
    /\ UNCHANGED <<walk, stream, permits, lost>>

Cancel(r) ==
    /\ stopping /\ walk[r].at \notin Ended \cup {"new"}
    /\ Go(r, "stopped")
    /\ IF At(r, "opening") /\ r \in Streams
       THEN permits' = permits + 1 /\ UNCHANGED stream
       ELSE IF At(r, "created") THEN NotClosed ELSE Closed(r)
    /\ UNCHANGED <<stopping, lost>>

---------------------------------------------------------------------------
Intercept(r) == \/ RequestIntercept(r) \/ ResponseIntercept(r) \/ ResponseDone(r)
                \/ ExceptionIntercept(r) \/ ExceptionDone(r) \/ InputIntercept(r)
                \/ InterceptorRaises(r)
Downloading(r) == Fetch(r) \/ Permit(r) \/ Opened(r) \/ OpenFails(r)
Delivery(r) == \/ Deliver(r) \/ DeliverRaises(r) \/ StartOutput(r) \/ Output(r)
               \/ OutputIntercept(r) \/ OutputDone(r) \/ SpiderException(r)
               \/ OutputRaises(r) \/ OutputEnds(r)

ChainsNext ==
    \/ \E r \in Requests : Schedule(r) \/ Intercept(r) \/ Downloading(r)
                           \/ Delivery(r) \/ Cancel(r)
    \/ RequestStop

\* The loop runs every task that can go on, transports have deadlines, user
\* callbacks end, and a shutdown cancels every task.
ChainsSpec ==
    /\ ChainsInit /\ [][ChainsNext]_chainsVars
    /\ \A r \in Requests :
          /\ WF_chainsVars(Intercept(r) \/ Downloading(r) \/ Delivery(r))
          /\ WF_chainsVars(Cancel(r))

---------------------------------------------------------------------------
(* What is checked.                                                        *)

\* A permit is free, with a request that opens a stream, or with a stream
\* that is not closed: none is lost and none is given back twice, whatever
\* raises.
PermitsExact ==
    permits + Cardinality({r \in Streams : At(r, "opening")})
            + Cardinality({r \in Streams : stream[r] = "open"}) = MaxStreams

\* No request of a running crawl ends with its stream open: whichever chain
\* replaces, raises or reschedules, someone closed it.
StreamOwned ==
    \A r \in Streams : stream[r] = "open" /\ ~stopping => walk[r].at \notin Ended

\* The types, the exact permits and no stream without an owner.
ChainsInv == ChainsTypeOK /\ PermitsExact /\ StreamOwned

\* Every request ends, also one that waits for a permit others hold.
RequestsEnd == \A r \in Requests : walk[r].at # "new" ~> walk[r].at \in Ended

\* The docstring of process_spider_output_chain: every result an interceptor
\* returns goes on.
OutputsKept == ~lost
=============================================================================
