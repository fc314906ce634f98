----------------------------- MODULE Transfers ------------------------------
(***************************************************************************)
(* HTTP attempts of one session (core/sessions.py SessionRequestLimiter,   *)
(* SessionWrapper) under the Downloader's deadline (core/downloader/       *)
(* fetch.py): spaced starts, retries, and media assembled from ranges the  *)
(* server answers as it likes.                                             *)
(*                                                                         *)
(* Time is kept relative: wait is how long until _next_start, since how    *)
(* long ago the last spaced start was, due the interval that was in force  *)
(* at it.  A body is the sequence of offsets it carries; a Content-Range   *)
(* that the server sends is taken to be true.                              *)
(***************************************************************************)
EXTENDS Integers, Sequences, FiniteSets

CONSTANTS
    Transfers,    \* concurrent requests of the session
    Media,        \* those that are MediaRequests
    Longest,      \* bound: 1 / the lowest requests_per_second, in ticks
    MaxAttempts,  \* max_retry_times
    PartSize,     \* single_part_size
    MaxMedia,     \* max_media_size, of those that set it
    MaxSize,      \* bound: a server speaks of sizes up to this
    Declared      \* declared media_size, 0 for none; MediaRequest refuses one
                  \* above max_media_size

ASSUME TransfersAssumption ==
    /\ Media \subseteq Transfers /\ IsFiniteSet(Transfers)
    /\ Longest \in Nat \ {0} /\ MaxAttempts \in Nat \ {0}
    /\ PartSize \in Nat \ {0} /\ MaxMedia \in Nat \ {0} /\ Declared \in 0..MaxMedia
    /\ MaxSize \in Nat /\ MaxSize > MaxMedia

Unknown == -1
Nobody == 0  \* not a transfer

Sizes == 0..MaxSize

VARIABLES
    rate,      \* the limiter's interval, 0 for unlimited
    lock,      \* who holds the limiter's lock
    wait,      \* ticks until _next_start
    since,     \* ticks since the last spaced start, up to Longest
    due,       \* the interval when that start took its turn
    limited,   \* media requests with a max_media_size, None by default
    transfer,  \* per request: where it is, attempts used, plain
    data,      \* per request: media_data, or the body returned
    total      \* per request: the size, if known

limiterVars == <<rate, lock, wait, since, due>>
transfersVars == <<limiterVars, limited, transfer, data, total>>

TransfersTypeOK ==
    /\ rate \in 0..Longest /\ due \in 0..Longest
    /\ lock \in Transfers \cup {Nobody}
    /\ wait \in 0..Longest /\ since \in 0..Longest
    /\ limited \subseteq Media
    /\ transfer \in [Transfers ->
          [at : {"idle", "admission", "waiting", "sleeping", "sent", "retrying",
                 "done", "failed"},
           attempts : 0..MaxAttempts, plain : BOOLEAN]]
    /\ \A r \in Transfers : Len(data[r]) <= MaxSize
    /\ total \in [Transfers -> Sizes \cup {Unknown}]

TransfersInit ==
    /\ rate \in 0..Longest
    /\ lock = Nobody
    /\ wait = 0 /\ since = Longest /\ due = 0
    /\ limited \in SUBSET Media
    /\ transfer = [r \in Transfers |->
                      [at |-> "idle", attempts |-> 0, plain |-> r \notin Media]]
    /\ data = [r \in Transfers |-> <<>>]
    /\ total = [r \in Transfers |-> IF Declared = 0 THEN Unknown ELSE Declared]

Is(r, place) == transfer[r].at = place
Move(r, place) == transfer' = [transfer EXCEPT ![r].at = place]
KeepBody == UNCHANGED <<limited, data, total>>

---------------------------------------------------------------------------
(* SessionRequestLimiter.                                                  *)

Tick ==
    /\ wait' = IF wait > 0 THEN wait - 1 ELSE 0
    /\ since' = IF since < Longest THEN since + 1 ELSE Longest
    /\ <<wait, since>>' # <<wait, since>>
    /\ UNCHANGED <<rate, lock, due, transfer>> /\ KeepBody

\* Any other rate, or none; the start already scheduled stays where it is.
Configure ==
    /\ rate' \in (0..Longest) \ {rate}
    /\ UNCHANGED <<lock, wait, since, due, transfer>> /\ KeepBody

Start(r) ==
    /\ Is(r, "idle")
    /\ Move(r, "admission")
    /\ UNCHANGED limiterVars /\ KeepBody

\* An unlimited session admits at once.
Admit(r) ==
    /\ Is(r, "admission") /\ rate = 0
    /\ transfer' = [transfer EXCEPT ![r].at = "sent", ![r].attempts = @ + 1]
    /\ UNCHANGED limiterVars /\ KeepBody

\* A spaced one joins the queue at the lock, whatever the rate is by then.
QueueUp(r) ==
    /\ Is(r, "admission") /\ rate > 0
    /\ Move(r, "waiting")
    /\ UNCHANGED limiterVars /\ KeepBody

Lock(r) ==
    /\ Is(r, "waiting") /\ lock = Nobody
    /\ lock' = r
    /\ Move(r, "sleeping")
    /\ UNCHANGED <<rate, wait, since, due>> /\ KeepBody

\* The next start is the interval now in force on.
Spaced(r) ==
    /\ lock' = Nobody
    /\ wait' = rate /\ since' = 0 /\ due' = rate
    /\ transfer' = [transfer EXCEPT ![r].at = "sent", ![r].attempts = @ + 1]
    /\ UNCHANGED rate /\ KeepBody

\* Mutant: the next start is counted from the request, not from the schedule.
WakeEarly(r) == Is(r, "sleeping") /\ Spaced(r)

\* The delay has passed.
Wake(r) == Is(r, "sleeping") /\ wait = 0 /\ Spaced(r)

---------------------------------------------------------------------------
(* Retries, deadline and cancellation.                                     *)

\* A transport error or a timeout uses up one attempt of this request or,
\* for media, of this range.
AttemptFails(r) ==
    /\ Is(r, "sent")
    /\ Move(r, IF transfer[r].attempts < MaxAttempts THEN "retrying" ELSE "failed")
    /\ UNCHANGED limiterVars /\ KeepBody

Retry(r) ==
    /\ Is(r, "retrying")
    /\ Move(r, "admission")
    /\ UNCHANGED limiterVars /\ KeepBody

\* The deadline of fetch_http, stop_event, or a task cancellation.
CancelTransfer(r) ==
    /\ transfer[r].at \in {"admission", "waiting", "sleeping", "sent", "retrying"}
    /\ Move(r, "failed")
    /\ lock' = IF lock = r THEN Nobody ELSE lock
    /\ UNCHANGED <<rate, wait, since, due>> /\ KeepBody

---------------------------------------------------------------------------
(* media_req.                                                              *)

Offsets(from, to) == [i \in 1..(to - from + 1) |-> from + i - 1]

PartStart(r) == Len(data[r])
PartEnd(r) == LET last == PartStart(r) + PartSize - 1
              IN IF total[r] # Unknown /\ total[r] - 1 < last THEN total[r] - 1 ELSE last

TransferFails(r) == Move(r, "failed") /\ UNCHANGED <<data, total>>

\* The whole representation: a plain request, or a server that ignores Range.
Whole(r) ==
    /\ Is(r, "sent")
    /\ \E n \in Sizes :
          IF r \notin Media
          THEN Move(r, "done") /\ UNCHANGED <<data, total>>
          ELSE IF IF transfer[r].plain THEN n # 0
                  ELSE \/ total[r] # Unknown /\ n # total[r]
                       \/ r \in limited /\ n > MaxMedia
               THEN TransferFails(r)
               ELSE /\ data' = [data EXCEPT ![r] = Offsets(0, n - 1)]
                    /\ total' = [total EXCEPT ![r] = n]
                    /\ Move(r, "done")
    /\ UNCHANGED <<limiterVars, limited>>

\* 416: the resource ends here.  Without any part the ordinary representation
\* is fetched instead.
Unsatisfied(r) ==
    /\ Is(r, "sent") /\ r \in Media /\ ~transfer[r].plain
    /\ \E n \in Sizes :
          IF n # Len(data[r]) \/ (total[r] # Unknown /\ total[r] # n)
          THEN TransferFails(r)
          ELSE /\ total' = [total EXCEPT ![r] = n]
               /\ UNCHANGED data
               /\ transfer' = [transfer EXCEPT ![r] =
                     IF data[r] = <<>>
                     THEN [at |-> "admission", attempts |-> 0, plain |-> TRUE]
                     ELSE [@ EXCEPT !.at = "done"]]
    /\ UNCHANGED <<limiterVars, limited>>

\* Mutant: the start of the answer is not compared with the request.
AcceptedUnaligned(r, start, end, length, reported) ==
    /\ start <= end /\ end <= PartEnd(r)
    /\ length = end - start + 1
    /\ reported # Unknown => /\ reported > end
                             /\ data[r] # <<>> /\ total[r] # Unknown => reported = total[r]
    /\ r \in limited =>
          (IF reported # Unknown THEN reported ELSE total[r]) <= MaxMedia /\ end < MaxMedia

\* What a 206 must satisfy.
Accepted(r, start, end, length, reported) ==
    /\ start = PartStart(r) /\ start <= end /\ end <= PartEnd(r)
    /\ length = end - start + 1
    /\ reported # Unknown => /\ reported > end
                             /\ data[r] # <<>> /\ total[r] # Unknown => reported = total[r]
    /\ r \in limited =>
          (IF reported # Unknown THEN reported ELSE total[r]) <= MaxMedia /\ end < MaxMedia

\* A part is appended and the next one asked for, until the total is reached.
Append206(r, start, end, reported) ==
    LET size == IF reported # Unknown THEN reported ELSE total[r]
        body == data[r] \o Offsets(start, end)
    IN /\ data' = [data EXCEPT ![r] = body]
       /\ total' = [total EXCEPT ![r] = size]
       /\ transfer' = [transfer EXCEPT
             ![r].at = IF size # Unknown /\ Len(body) >= size THEN "done" ELSE "admission",
             ![r].attempts = 0]

\* An answer with a range is refused, a malformed one too, or appended.
Partial(r) ==
    /\ Is(r, "sent") /\ r \in Media /\ ~transfer[r].plain
    /\ \/ TransferFails(r)
       \/ \E start, end \in Sizes \ {MaxSize}, length \in Sizes,
             reported \in Sizes \cup {Unknown} :
                /\ Accepted(r, start, end, length, reported)
                /\ Append206(r, start, end, reported)
    /\ UNCHANGED <<limiterVars, limited>>

\* 206 without Content-Range, for a size that is known.
PartialUnlabelled(r) ==
    /\ Is(r, "sent") /\ r \in Media /\ ~transfer[r].plain
    /\ \/ TransferFails(r)
       \/ \E length \in Sizes :
             /\ total[r] # Unknown
             /\ Accepted(r, PartStart(r), PartEnd(r), length, total[r])
             /\ Append206(r, PartStart(r), PartEnd(r), total[r])
    /\ UNCHANGED <<limiterVars, limited>>

---------------------------------------------------------------------------
Progress(r) == \/ Admit(r) \/ QueueUp(r) \/ Lock(r) \/ Wake(r) \/ Retry(r) \/ AttemptFails(r)
               \/ Whole(r) \/ Unsatisfied(r) \/ Partial(r) \/ PartialUnlabelled(r)

TransfersNext ==
    \/ Tick \/ Configure
    \/ \E r \in Transfers : Start(r) \/ Progress(r) \/ CancelTransfer(r)

\* Time passes, an attempt ends by its timeout, and the limiter's lock is
\* first come first served.
TransfersFairness ==
    /\ WF_transfersVars(Tick)
    /\ \A r \in Transfers : /\ WF_transfersVars(Progress(r))
                            /\ SF_transfersVars(Lock(r))

TransfersSpec == TransfersInit /\ [][TransfersNext]_transfersVars /\ TransfersFairness

---------------------------------------------------------------------------
(* What is checked.                                                        *)

\* Media that is delivered is the resource: every offset once, in order, as
\* many as the size the server declared, and within max_media_size when the
\* request sets it; and the attempts stay within their budget (the types).
MediaWhole ==
    /\ TransfersTypeOK
    /\ \A r \in Media :
          Is(r, "done") => /\ data[r] = Offsets(0, total[r] - 1)
                           /\ r \in limited => total[r] <= MaxMedia

\* Two spaced starts of a session are at least the interval apart that was in
\* force when the earlier one took its turn, whichever of its requests are
\* retried, cancelled while they wait, or admitted at another rate.  A lower
\* rate so applies from the start after the next: configure leaves the one
\* that is scheduled (_next_start) where it is.
SpacedStarts ==
    [][\A r \in Transfers :
          Is(r, "sleeping") /\ transfer'[r].at = "sent" => since >= due]_transfersVars

\* Every transfer ends but media without a max_media_size: a cancelled sleeper
\* does not keep the others waiting, and a server that goes on sending parts
\* meets the allowed size.  (Without one, a server that never tells the total
\* is asked for one part more for ever; no deadline spans the parts.)
TransfersEnd ==
    \A r \in Transfers :
        Is(r, "admission") /\ (r \in Media => r \in limited)
            ~> transfer[r].at \in {"done", "failed"}
=============================================================================
