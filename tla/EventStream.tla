---------------------------- MODULE EventStream -----------------------------
(***************************************************************************)
(* StreamResponse.aiter_sse (core/downloader/internet/response.py): the    *)
(* lines of a text/event-stream body, one after the other, become events.  *)
(* A line is a record of its field and value; the text of a line, and how  *)
(* it is cut at the colon, are left out.  A value counts SizeOf bytes.     *)
(***************************************************************************)
EXTENDS Naturals, Sequences

CONSTANTS
    SseLines,     \* lines the server may send
    SizeOf(_),    \* bytes of a line's value
    MaxEventSize, \* max_event_size
    MaxLines      \* bound: lines of the stream

ASSUME EventStreamAssumption ==
    /\ MaxEventSize \in Nat /\ MaxLines \in Nat
    /\ \A line \in SseLines : SizeOf(line) \in Nat

VARIABLES
    received,  \* the lines so far
    parser,    \* data_lines, event_name, event_id, retry, event_size
    yielded,   \* the events handed to the spider
    streamEnd  \* open, ended, or raised

eventStreamVars == <<received, parser, yielded, streamEnd>>

NewEvent(id) == [data |-> <<>>, event |-> "message", id |-> id, retry |-> "none", size |-> 0]

EventStreamInit ==
    /\ received = <<>>
    /\ parser = NewEvent("none")
    /\ yielded = <<>>
    /\ streamEnd = "open"

SseEvent(p) == [data |-> p.data, event |-> p.event, id |-> p.id, retry |-> p.retry]

\* Mutant: the id ends with its event.
FlushForgetful(to) ==
    /\ yielded' = IF parser.data = <<>> THEN yielded
                  ELSE Append(yielded, SseEvent(parser))
    /\ parser' = NewEvent("none")
    /\ streamEnd' = to

\* An event without data is none; the id outlives the event.
Flush(to) ==
    /\ yielded' = IF parser.data = <<>> THEN yielded
                  ELSE Append(yielded, SseEvent(parser))
    /\ parser' = NewEvent(parser.id)
    /\ streamEnd' = to

\* A field whose value cannot be used (an id with a NUL character, a retry that
\* is no number) changes nothing but the size.
WithField(p, line) ==
    CASE line.field = "data"  -> [p EXCEPT !.data = Append(@, line.value)]
      [] line.field = "event" -> [p EXCEPT !.event = IF line.value = "" THEN "message"
                                                     ELSE line.value]
      [] line.field = "id" /\ line.value # "nul" -> [p EXCEPT !.id = line.value]
      [] line.field = "retry" /\ line.value = "digits" -> [p EXCEPT !.retry = line.value]
      [] OTHER -> p

ReadLine(line) ==
    /\ streamEnd = "open" /\ Len(received) < MaxLines
    /\ received' = Append(received, line)
    /\ \/ line.field = "blank" /\ Flush("open")
       \/ line.field = "comment" /\ UNCHANGED <<parser, yielded, streamEnd>>
       \/ /\ line.field \notin {"blank", "comment"}
          /\ LET size == parser.size + SizeOf(line)
             IN IF size > MaxEventSize
                THEN streamEnd' = "raised" /\ UNCHANGED parser
                ELSE /\ parser' = [WithField(parser, line) EXCEPT !.size = size]
                     /\ UNCHANGED streamEnd
          /\ UNCHANGED yielded

\* The stream ends, after an empty line or not.
EndOfStream ==
    /\ streamEnd = "open"
    /\ Flush("ended")
    /\ UNCHANGED received

EventStreamNext == EndOfStream \/ \E line \in SseLines : ReadLine(line)

EventStreamSpec == EventStreamInit /\ [][EventStreamNext]_eventStreamVars

---------------------------------------------------------------------------
(* What is checked: the events by their definition, not by a state.        *)

\* The lines before position i and after the empty line before it.
Block(lines, i) == {j \in 1 .. i - 1 : \A k \in j .. i - 1 : lines[k].field # "blank"}

WithName(lines, S, field) == {j \in S : lines[j].field = field}

\* Those of the first n lines that give an id.
IdLines(lines, n) == {j \in 1 .. n : lines[j].field = "id" /\ lines[j].value # "nul"}

\* f goes through S in increasing order.
Through(f, S) == /\ \A j, k \in DOMAIN f : j < k => f[j] < f[k]
                 /\ \A i \in S : \E k \in DOMAIN f : f[k] = i

\* values are those of the lines at S, in order.
InOrder(lines, S, values) ==
    \E f \in [1 .. Len(values) -> S] :
        Through(f, S) /\ \A k \in 1 .. Len(values) : values[k] = lines[f[k]].value

\* v is the value of the last of the lines at S.
LatestIs(lines, S, default, v) ==
    \/ S = {} /\ v = default
    \/ \E j \in S : v = lines[j].value /\ \A k \in S : k <= j

\* e is the event of the block before position i: all its data, its own name
\* and retry, and the last id of the whole stream.
EventOf(lines, i, e) ==
    LET block == Block(lines, i)
    IN /\ InOrder(lines, WithName(lines, block, "data"), e.data)
       /\ e.event # ""
       /\ \/ LatestIs(lines, WithName(lines, block, "event"), "message", e.event)
          \/ e.event = "message" /\ LatestIs(lines, WithName(lines, block, "event"), "message", "")
       /\ LatestIs(lines, IdLines(lines, i - 1), "none", e.id)
       /\ LatestIs(lines, {j \in WithName(lines, block, "retry") : lines[j].value = "digits"},
                   "none", e.retry)

\* Where a block that has data ends: at an empty line, or with the stream.
Ends(lines, end) ==
    {i \in 1 .. Len(lines) + 1 :
        /\ IF i <= Len(lines) THEN lines[i].field = "blank" ELSE end = "ended"
        /\ WithName(lines, Block(lines, i), "data") # {}}

\* The spider has got, at every moment, one event for each block of lines that
\* has data and has ended, in their order: all its data in order, the block's
\* own name and retry, and the last id of the whole stream (aiter_sse).
SseExact ==
    \E end \in [1 .. Len(yielded) -> Ends(received, streamEnd)] :
        /\ Through(end, Ends(received, streamEnd))
        /\ \A k \in 1 .. Len(yielded) : EventOf(received, end[k], yielded[k])
=============================================================================
