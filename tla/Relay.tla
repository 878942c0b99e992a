------------------------------- MODULE Relay -------------------------------
(***************************************************************************)
(* What a client may rely on when it asks for a stream: it receives those  *)
(* events of the upstream that its format shows, in order, each once and   *)
(* none skipped, and the [DONE] marker only after the last of them; or its *)
(* connection is cut and what it got is a prefix.                          *)
(***************************************************************************)
EXTENDS Naturals, Sequences

CONSTANT Kinds

VARIABLES
    shown,      \* the kinds that the client's format shows
    produced,   \* events the upstream sent
    ended,      \* the upstream has no more events
    taken,      \* how many of the events have been dealt with
    delivered,  \* events the client received
    state       \* "open", "done" ([DONE] received) or "cut"

vars == <<shown, produced, ended, taken, delivered, state>>

Init ==
    /\ shown \in SUBSET Kinds
    /\ produced = <<>> /\ ended = FALSE
    /\ taken = 0 /\ delivered = <<>>
    /\ state = "open"

Produce ==
    /\ ~ended
    /\ \E kind \in Kinds : produced' = Append(produced, kind)
    /\ UNCHANGED <<shown, ended, taken, delivered, state>>

End ==
    /\ ~ended
    /\ ended' = TRUE
    /\ UNCHANGED <<shown, produced, taken, delivered, state>>

(* The next event reaches the client, or is one that its format has not. *)
Deliver ==
    /\ state = "open"
    /\ taken < Len(produced)
    /\ taken' = taken + 1
    /\ delivered' = IF produced[taken'] \in shown THEN Append(delivered, produced[taken'])
                                                  ELSE delivered
    /\ UNCHANGED <<shown, produced, ended, state>>

(* The client is gone: its events go nowhere. *)
Discard ==
    /\ state = "cut"
    /\ taken < Len(produced)
    /\ taken' = taken + 1
    /\ UNCHANGED <<shown, produced, ended, delivered, state>>

Finish ==
    /\ state = "open"
    /\ ended /\ taken = Len(produced)
    /\ state' = "done"
    /\ UNCHANGED <<shown, produced, ended, taken, delivered>>

Cut ==
    /\ state = "open"
    /\ state' = "cut"
    /\ UNCHANGED <<shown, produced, ended, taken, delivered>>

Next == Produce \/ End \/ Deliver \/ Discard \/ Finish \/ Cut

Spec == Init /\ [][Next]_vars

(* A client that stays connected gets everything, and then [DONE]. *)
Fairness == WF_vars(Deliver) /\ WF_vars(Finish)
=============================================================================
