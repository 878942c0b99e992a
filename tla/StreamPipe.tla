----------------------------- MODULE StreamPipe -----------------------------
(***************************************************************************)
(* One streamed completion.  A producer goroutine (provider.CompleteStream)*)
(* decodes the upstream's SSE lines and sends them into a bounded channel; *)
(* the body-stream writer (translator.StreamEvents) receives, translates   *)
(* and flushes them to the client, and ends with [DONE].  The client may   *)
(* go away at any time (or be cut off by the server's write timeout); the  *)
(* writer notices only through a write error, and nothing cancels the      *)
(* producer.                                                               *)
(*                                                                         *)
(* An event is the kind of what it carries; lines that are not events      *)
(* (comments, bad JSON) change nothing and are not modelled.               *)
(***************************************************************************)
EXTENDS Naturals, SequencesExt

CONSTANTS
    Cap,         \* capacity of the events channel
    MaxEvents,   \* bound: events one upstream response holds
    None         \* the event of a consumer that holds none

ASSUME CapAssumption == Cap \in Nat \ {0}
ASSUME MaxEventsAssumption == MaxEvents \in Nat

ASSUME NoneAssumption == None \notin {"text", "tool", "stop"}

Translators == {"anthropic", "openai", "responses"}
Kinds == {"text", "tool", "stop"}

(* The kinds a translator writes; it skips the others without a write. *)
Shown(t) ==
    CASE t = "anthropic" -> Kinds
      [] t = "openai"    -> {"text", "stop"}
      [] t = "responses" -> {"text", "tool"}

(* The translators whose StreamEvents returns on a write error. *)
StopsOnError(t) == t \in {"anthropic", "openai"}

VARIABLES
    translator,  \* chosen by the route
    decoded,     \* (history) events the producer decoded
    producer,    \* "posting", "scanning", "sending", "done"
    pending,     \* the event the producer is sending
    chan,        \* the buffered events
    closed,      \* close(events) was called
    consumer,    \* "receiving", "writing", "flushing", "marking", "returned", "aborted"
    got,         \* the event the consumer is writing
    sticky,      \* the bufio.Writer has failed: it fails on every write from now on
    conn,        \* "open" or "gone"
    out,         \* events that reached the client
    marked       \* [DONE] reached the client

producerVars == <<decoded, producer, pending>>
clientVars == <<sticky, conn, out, marked>>
vars == <<translator, decoded, producer, pending, chan, closed,
          consumer, got, sticky, conn, out, marked>>

TypeOK ==
    /\ translator \in Translators
    /\ decoded \in Seq(Kinds) /\ Len(decoded) <= MaxEvents
    /\ producer \in {"posting", "scanning", "sending", "done"}
    /\ pending \in Kinds \cup {None}
    /\ chan \in Seq(Kinds) /\ Len(chan) <= Cap
    /\ closed \in BOOLEAN
    /\ consumer \in {"receiving", "writing", "flushing", "marking", "returned", "aborted"}
    /\ got \in Kinds \cup {None}
    /\ sticky \in BOOLEAN
    /\ conn \in {"open", "gone"}
    /\ out \in Seq(Kinds)
    /\ marked \in BOOLEAN

Init ==
    /\ translator \in Translators
    /\ decoded = <<>> /\ producer = "posting" /\ pending = None
    /\ chan = <<>> /\ closed = FALSE
    /\ consumer = "receiving" /\ got = None
    /\ sticky = FALSE /\ conn = "open" /\ out = <<>> /\ marked = FALSE

-----------------------------------------------------------------------------
(* The producer goroutine. *)

(* The upstream answers, with any status: an error body has no data lines. *)
Post ==
    /\ producer = "posting"
    /\ producer' = "scanning"
    /\ UNCHANGED <<translator, decoded, pending, chan, closed, consumer, got, clientVars>>

(* A data line holds an event: the producer goes on to send it. *)
Scan ==
    /\ producer = "scanning"
    /\ Len(decoded) < MaxEvents
    /\ \E kind \in Kinds :
          /\ decoded' = Append(decoded, kind)
          /\ pending' = kind
    /\ producer' = "sending"
    /\ UNCHANGED <<translator, chan, closed, consumer, got, clientVars>>

(* Mutants of Send: a send that ignores the capacity, and a select with a *)
(* default branch, which drops the event when the channel is full.         *)
SendUnbounded ==
    /\ producer = "sending"
    /\ chan' = Append(chan, pending)
    /\ producer' = "scanning" /\ pending' = None
    /\ UNCHANGED <<translator, decoded, closed, consumer, got, clientVars>>

SendOrDrop ==
    /\ producer = "sending"
    /\ chan' = IF Len(chan) < Cap THEN Append(chan, pending) ELSE chan
    /\ producer' = "scanning" /\ pending' = None
    /\ UNCHANGED <<translator, decoded, closed, consumer, got, clientVars>>

(* out <- event: blocks while the channel is full. *)
Send ==
    /\ producer = "sending"
    /\ Len(chan) < Cap
    /\ chan' = Append(chan, pending)
    /\ producer' = "scanning" /\ pending' = None
    /\ UNCHANGED <<translator, decoded, closed, consumer, got, clientVars>>

(* Mutant of Finish: no deferred close. *)
FinishOpen ==
    /\ producer \in {"posting", "scanning"}
    /\ producer' = "done"
    /\ UNCHANGED <<translator, decoded, pending, chan, closed, consumer, got, clientVars>>

(* The request fails, or [DONE], end of body, a cut or the 90s timeout ends *)
(* the scan; the error is only logged, and the deferred close runs.         *)
Finish ==
    /\ producer \in {"posting", "scanning"}
    /\ producer' = "done"
    /\ closed' = TRUE
    /\ UNCHANGED <<translator, decoded, pending, chan, consumer, got, clientVars>>

-----------------------------------------------------------------------------
(* The body-stream writer. *)

Receive ==
    /\ consumer = "receiving"
    /\ chan # <<>>
    /\ chan' = Tail(chan)
    /\ IF Head(chan) \in Shown(translator)
       THEN consumer' = "writing" /\ got' = Head(chan)
       ELSE UNCHANGED <<consumer, got>>
    /\ UNCHANGED <<translator, producerVars, closed, clientVars>>

(* The event goes into the bufio.Writer.  One that does not fit the buffer  *)
(* is written through and meets a lost connection at once; otherwise only   *)
(* an earlier failed flush makes the write fail.                            *)
Write ==
    /\ consumer = "writing"
    /\ \/ /\ ~sticky
          /\ consumer' = "flushing"
          /\ UNCHANGED <<got, sticky>>
       \/ /\ sticky \/ conn = "gone"
          /\ sticky' = TRUE
          /\ IF StopsOnError(translator)
             THEN consumer' = "aborted" /\ got' = None
             ELSE consumer' = "flushing" /\ UNCHANGED got
    /\ UNCHANGED <<translator, producerVars, chan, closed, conn, out, marked>>

(* Flush delivers, or fails and the error is dropped.  A flush after the     *)
(* client went away may still succeed: the bytes sit in a buffer below.      *)
Flush ==
    /\ consumer = "flushing"
    /\ IF conn = "open" /\ ~sticky
       THEN out' = Append(out, got) /\ UNCHANGED sticky
       ELSE sticky' \in {sticky, TRUE} /\ UNCHANGED out
    /\ consumer' = "receiving" /\ got' = None
    /\ UNCHANGED <<translator, producerVars, chan, closed, conn, marked>>

(* Mutant of Drained: the loop watches for the end instead of ranging. *)
DrainedEarly ==
    /\ consumer = "receiving"
    /\ closed
    /\ consumer' = "marking"
    /\ UNCHANGED <<translator, producerVars, chan, closed, got, clientVars>>

(* range ends: the channel is closed and empty. *)
Drained ==
    /\ consumer = "receiving"
    /\ closed /\ chan = <<>>
    /\ consumer' = "marking"
    /\ UNCHANGED <<translator, producerVars, chan, closed, got, clientVars>>

(* [DONE] is written whatever ended the stream. *)
Mark ==
    /\ consumer = "marking"
    /\ marked' = (conn = "open" /\ ~sticky)
    /\ consumer' = "returned"
    /\ UNCHANGED <<translator, producerVars, chan, closed, got, sticky, conn, out>>

Disconnect ==
    /\ conn = "open"
    /\ conn' = "gone"
    /\ UNCHANGED <<translator, producerVars, chan, closed, consumer, got, sticky, out, marked>>

Producer == Post \/ Scan \/ Send \/ Finish
Consumer == Receive \/ Write \/ Flush \/ Drained \/ Mark

Next == Producer \/ Consumer \/ Disconnect

Spec == Init /\ [][Next]_vars

-----------------------------------------------------------------------------
Hold(event) == IF event = None THEN <<>> ELSE <<event>>

(* What a client of the format t sees of an event, and of many. *)
Part(t, event) == IF event \in Shown(t) THEN <<event>> ELSE <<>>

Parts(t, events) == [i \in DOMAIN events |-> Part(t, events[i])]

ShownOf(t, events) == FlattenSeq(Parts(t, events))

(***************************************************************************)
(* While the client is connected, what it received, what the consumer      *)
(* holds, the channel and the event being sent are together exactly what   *)
(* the upstream sent, in order: nothing is lost or repeated on the way.    *)
(***************************************************************************)
NothingLost ==
    conn = "open" =>
        out \o Hold(got) \o ShownOf(translator, chan \o Hold(pending)) = ShownOf(translator, decoded)

(***************************************************************************)
(* The stream implements Relay: an event is dealt with once it has left    *)
(* the producer, the channel and the writer.                               *)
(***************************************************************************)
Held(event) == IF event = None THEN 0 ELSE 1

Taken == Len(decoded) - Held(pending) - Len(chan) - Held(got)

R == INSTANCE Relay WITH
        shown <- Shown(translator),
        produced <- decoded,
        ended <- producer = "done",
        taken <- Taken,
        delivered <- out,
        state <- IF marked THEN "done" ELSE IF conn = "gone" THEN "cut" ELSE "open"

ImplementsRelay == R!Spec

(* A client that stays gets every event of its format, and then [DONE], if *)
(* the pipe runs.                                                          *)
RelayGoesOn == R!Fairness

(***************************************************************************)
(* The Translator interface says of StreamEvents that it reads all events *)
(* from the channel: once it has returned, the channel is empty.           *)
(***************************************************************************)
ReadsAllEvents == consumer \in {"returned", "aborted"} => chan = <<>>
=============================================================================
