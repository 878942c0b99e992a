------------------------------ MODULE Metering ------------------------------
(***************************************************************************)
(* The monthly token counter of each account and everything that touches   *)
(* it: the quota check that admits a request, the completion that spends   *)
(* tokens upstream, the metering goroutine that adds them to the counter   *)
(* after the response was returned, and the calendar that resets it.       *)
(*                                                                         *)
(* The counter is the Redis key usage:<user>.  The goroutine computes the  *)
(* deadline (endOfMonth), then sends INCRBY and EXPIREAT in one pipeline,  *)
(* which is not a transaction: other requests, midnight on the first of    *)
(* the month, or a fault can come between any two of these steps.  A       *)
(* pipeline whose reply is lost is sent again by go-redis as it is, its    *)
(* deadline included.                                                      *)
(*                                                                         *)
(* One slot per request in flight; a slot is held until its metering       *)
(* goroutine, which outlives the handler, is done.                         *)
(***************************************************************************)
EXTENDS Naturals, FiniteSets

CONSTANTS
    Users,      \* accounts that send completions
    Slots,      \* requests in flight at once, metering goroutine included
    Quota,      \* models.PlanQuota of each account's plan
    MaxTokens,  \* the most one completion reports as input plus output
    Faults,     \* which of PossibleFaults may happen
    MaxRepeats, \* bound: INCRBYs sent again after they were executed, per account
    None        \* the user of a free slot

PossibleFaults == {"pipeline", "expireat", "reply", "crash"}

ASSUME SlotsAssumption == IsFiniteSet(Slots)
ASSUME QuotaAssumption == Quota \in [Users -> Nat \ {0}]
ASSUME TokensAssumption == MaxTokens \in Nat
ASSUME FaultsAssumption == Faults \subseteq PossibleFaults
ASSUME RepeatsAssumption == MaxRepeats \in Nat
ASSUME NoneAssumption == None \notin Users

VARIABLES
    usage,   \* value of the counter; 0 while it is absent
    expiry,  \* "absent", "never" (no TTL), or "monthEnd"
    pc,      \* per slot: how far the request and its metering are
    user,    \* per slot: the account that is charged
    tokens,  \* per slot: tokens the upstream spent on the request
    stale,   \* per slot: the deadline it computed lies in a month that is over
    broken,  \* accounts (history) whose counter lost its EXPIREAT and has no TTL
    repeats  \* per account (history): executed INCRBYs that were sent again

slotVars == <<pc, user, tokens, stale>>
vars == <<usage, expiry, pc, user, tokens, stale, broken, repeats>>

(***************************************************************************)
(* upstream: waiting for a blocking completion;  stream: relaying one;     *)
(* queued: go recordUsage spawned;  stamped: endOfMonth() computed;        *)
(* incremented: INCRBY executed;  detached: and the process that sent it   *)
(* is gone;  streamed: the last event of a stream was relayed;  discarded: *)
(* the upstream answered with no usable content.                           *)
(***************************************************************************)
Steps == {"idle", "upstream", "stream", "queued", "stamped", "incremented",
          "detached", "streamed", "discarded"}

TypeOK ==
    /\ usage \in [Users -> Nat]
    /\ expiry \in [Users -> {"absent", "never", "monthEnd"}]
    /\ pc \in [Slots -> Steps]
    /\ user \in [Slots -> Users \cup {None}]
    /\ tokens \in [Slots -> 0 .. MaxTokens]
    /\ stale \in [Slots -> BOOLEAN]
    /\ broken \subseteq Users
    /\ repeats \in [Users -> 0 .. MaxRepeats]
    /\ \A s \in Slots : pc[s] # "idle" => user[s] \in Users
    /\ \A u \in Users : expiry[u] = "absent" => usage[u] = 0

Init ==
    /\ usage = [u \in Users |-> 0]
    /\ expiry = [u \in Users |-> "absent"]
    /\ pc = [s \in Slots |-> "idle"]
    /\ user = [s \in Slots |-> None]
    /\ tokens = [s \in Slots |-> 0]
    /\ stale = [s \in Slots |-> FALSE]
    /\ broken = {}
    /\ repeats = [u \in Users |-> 0]

Goto(s, step) == pc' = [pc EXCEPT ![s] = step]

(* The request is over and its slot is free. *)
Release(s) ==
    /\ Goto(s, "idle")
    /\ user' = [user EXCEPT ![s] = None]
    /\ tokens' = [tokens EXCEPT ![s] = 0]
    /\ stale' = [stale EXCEPT ![s] = FALSE]

(* Redis deletes the counter: at its deadline, or because the deadline it is *)
(* given is already past.                                                    *)
DropCounters(users) ==
    /\ usage' = [u \in Users |-> IF u \in users THEN 0 ELSE usage[u]]
    /\ expiry' = [u \in Users |-> IF u \in users THEN "absent" ELSE expiry[u]]

-----------------------------------------------------------------------------
(* The request path. *)

(* An absent counter reads as 0, for the dashboard and for the quota check. *)
GetUsage(u) == usage[u]

IsQuotaExceeded(u) == GetUsage(u) >= Quota[u]

(* The request takes a slot; the tokens it will spend are unknown, and      *)
(* nothing is reserved for them.                                            *)
Admitting(s, u, stream) ==
    /\ pc[s] = "idle"
    /\ Goto(s, IF stream THEN "stream" ELSE "upstream")
    /\ user' = [user EXCEPT ![s] = u]
    /\ UNCHANGED <<usage, expiry, tokens, stale, broken, repeats>>

(* Mutant of Admit: the comparison off by one. *)
AdmitAtQuota(s, u, stream) == usage[u] <= Quota[u] /\ Admitting(s, u, stream)

(* The quota check passes and the request goes upstream. *)
Admit(s, u, stream) == ~IsQuotaExceeded(u) /\ Admitting(s, u, stream)

(* A bad body, an upstream error or a timeout: nothing was spent. *)
Fail(s) ==
    /\ pc[s] \in {"upstream", "stream"}
    /\ Release(s)
    /\ UNCHANGED <<usage, expiry, broken, repeats>>

(* Mutant of Complete: cached input tokens are counted a second time. *)
CompleteTwice(s) ==
    /\ pc[s] = "upstream"
    /\ \E n \in 0 .. 2 * MaxTokens : tokens' = [tokens EXCEPT ![s] = n]
    /\ Goto(s, "queued")
    /\ UNCHANGED <<usage, expiry, user, stale, broken, repeats>>

(* provider.Complete answers; recordUsage is spawned, the client answered. *)
Complete(s) ==
    /\ pc[s] = "upstream"
    /\ \E n \in 0 .. MaxTokens : tokens' = [tokens EXCEPT ![s] = n]
    /\ Goto(s, "queued")
    /\ UNCHANGED <<usage, expiry, user, stale, broken, repeats>>

(* The upstream spent tokens, and no path from here reaches recordUsage.   *)
SpendUnmetered(s, from, to) ==
    /\ pc[s] = from
    /\ \E n \in 0 .. MaxTokens : tokens' = [tokens EXCEPT ![s] = n]
    /\ Goto(s, to)
    /\ UNCHANGED <<usage, expiry, user, stale, broken, repeats>>

(* A stream ends, whether with [DONE], by a cut connection or an error. *)
StreamEnd(s) == SpendUnmetered(s, "stream", "streamed")

(* parseResponse: "empty response", an error although the upstream worked. *)
EmptyResponse(s) == SpendUnmetered(s, "upstream", "discarded")

FinishUnmetered(s) ==
    /\ pc[s] \in {"streamed", "discarded"}
    /\ Release(s)
    /\ UNCHANGED <<usage, expiry, broken, repeats>>

-----------------------------------------------------------------------------
(* Meter.increment, in its goroutine. *)

(* endOfMonth() is read from the clock while the pipeline is built. *)
Stamp(s) ==
    /\ pc[s] = "queued"
    /\ Goto(s, "stamped")
    /\ UNCHANGED <<usage, expiry, user, tokens, stale, broken, repeats>>

(* Mutants of IncrBy: SET instead of INCRBY, and the two commands swapped, *)
(* so that a first increment creates a counter after its EXPIREAT.         *)
IncrBySet(s) ==
    /\ pc[s] = "stamped"
    /\ usage' = [usage EXCEPT ![user[s]] = tokens[s]]
    /\ expiry' = [expiry EXCEPT ![user[s]] = IF @ = "absent" THEN "never" ELSE @]
    /\ Goto(s, "incremented")
    /\ UNCHANGED <<user, tokens, stale, broken, repeats>>

IncrBySwapped(s) ==
    /\ pc[s] = "stamped"
    /\ usage' = [usage EXCEPT ![user[s]] = @ + tokens[s]]
    /\ expiry' = [expiry EXCEPT ![user[s]] = IF @ = "absent" THEN "never" ELSE "monthEnd"]
    /\ Release(s)
    /\ UNCHANGED <<broken, repeats>>

(* INCRBY creates a missing counter without a TTL and keeps a TTL it finds. *)
IncrBy(s) ==
    /\ pc[s] = "stamped"
    /\ usage' = [usage EXCEPT ![user[s]] = @ + tokens[s]]
    /\ expiry' = [expiry EXCEPT ![user[s]] = IF @ = "absent" THEN "never" ELSE @]
    /\ Goto(s, "incremented")
    /\ UNCHANGED <<user, tokens, stale, broken, repeats>>

(* Mutant of SetDeadline: with the GT flag Redis never gives a TTL to a     *)
(* counter that has none.                                                   *)
SetDeadlineGT(s) ==
    /\ UNCHANGED <<usage, expiry>>
    /\ broken' = broken \ {user[s]}

(* EXPIREAT: nothing on a missing counter; a past deadline deletes it. *)
SetDeadline(s) ==
    /\ IF stale[s]
       THEN DropCounters({user[s]})
       ELSE /\ expiry' = [expiry EXCEPT ![user[s]] = IF @ = "absent" THEN @ ELSE "monthEnd"]
            /\ UNCHANGED usage
    /\ broken' = broken \ {user[s]}

Sent(s) == pc[s] \in {"incremented", "detached"}

ExpireAt(s) ==
    /\ Sent(s)
    /\ SetDeadline(s)
    /\ Release(s)
    /\ UNCHANGED repeats

-----------------------------------------------------------------------------
(* Faults and the calendar. *)

(* The pipeline fails as a whole: the error is logged, the tokens are lost. *)
PipelineLost(s) ==
    /\ "pipeline" \in Faults
    /\ pc[s] = "stamped"
    /\ Release(s)
    /\ UNCHANGED <<usage, expiry, broken, repeats>>

(* The connection or the server fails after INCRBY was executed. *)
MissDeadline(s) ==
    /\ broken' = IF expiry[user[s]] = "never" THEN broken \cup {user[s]} ELSE broken
    /\ UNCHANGED <<usage, expiry>>

(* go-redis gives up, or was never told. *)
ExpireAtLost(s) ==
    /\ "expireat" \in Faults
    /\ Sent(s)
    /\ MissDeadline(s)
    /\ Release(s)
    /\ UNCHANGED repeats

(* The reply is lost, EXPIREAT executed or not, and go-redis sends the same *)
(* pipeline again.                                                          *)
Resend(s) ==
    /\ "reply" \in Faults
    /\ pc[s] = "incremented"
    /\ repeats[user[s]] < MaxRepeats
    /\ repeats' = [repeats EXCEPT ![user[s]] = @ + 1]
    /\ SetDeadline(s) \/ MissDeadline(s)
    /\ Goto(s, "stamped")
    /\ UNCHANGED <<user, tokens, stale>>

(* The process stops; shutdown waits for handlers, not for the goroutines.  *)
(* A pipeline that Redis has begun goes on there: its slot stays.           *)
Crash ==
    /\ "crash" \in Faults
    /\ LET gone == {s \in Slots : ~Sent(s)} IN
       /\ pc' = [s \in Slots |-> IF s \in gone THEN "idle" ELSE "detached"]
       /\ user' = [s \in Slots |-> IF s \in gone THEN None ELSE user[s]]
       /\ tokens' = [s \in Slots |-> IF s \in gone THEN 0 ELSE tokens[s]]
       /\ stale' = [s \in Slots |-> IF s \in gone THEN FALSE ELSE stale[s]]
    /\ UNCHANGED <<usage, expiry, broken, repeats>>

(* Midnight UTC on the first: counters with a TTL are gone, and every       *)
(* deadline computed before lies in the past.                               *)
NewMonth ==
    /\ DropCounters({u \in Users : expiry[u] = "monthEnd"})
    /\ stale' = [s \in Slots |-> pc[s] = "stamped" \/ Sent(s)]
    /\ UNCHANGED <<pc, user, tokens, broken, repeats>>

Request(s) == \E u \in Users, stream \in BOOLEAN : Admit(s, u, stream)

Serve(s) ==
    \/ Fail(s) \/ Complete(s) \/ StreamEnd(s) \/ EmptyResponse(s) \/ FinishUnmetered(s)
    \/ Stamp(s) \/ IncrBy(s) \/ ExpireAt(s)

Fault == (\E s \in Slots : PipelineLost(s) \/ ExpireAtLost(s) \/ Resend(s)) \/ Crash

Next ==
    \/ \E s \in Slots : Request(s) \/ Serve(s)
    \/ Fault
    \/ NewMonth

Spec == Init /\ [][Next]_vars

(* Goroutines run, upstream calls end (the client has a timeout), and the   *)
(* calendar goes on.                                                        *)
Fairness == WF_vars(NewMonth) /\ \A s \in Slots : WF_vars(Serve(s))

FairSpec == Spec /\ Fairness

-----------------------------------------------------------------------------
(* Requests of an account whose tokens may still reach its counter. *)
Outstanding(u) ==
    {s \in Slots : user[s] = u /\ pc[s] \in {"upstream", "stream", "queued", "stamped"}}

(***************************************************************************)
(* The check that admits a request and the increment that charges it are   *)
(* apart, so an account overshoots its quota; but never by more than what  *)
(* the requests in flight at once can spend, whatever interleaves, and one *)
(* completion more for each increment that was executed and sent again.    *)
(***************************************************************************)
OvershootBound ==
    \A u \in Users :
        usage[u] + MaxTokens * Cardinality(Outstanding(u))
            < Quota[u] + MaxTokens * (Cardinality(Slots) + repeats[u])

(***************************************************************************)
(* A counter without a TTL is a transient of the pipeline: its EXPIREAT is *)
(* still to come, or a fault is known to have lost it.                     *)
(***************************************************************************)
ExpiryPending ==
    \A u \in Users : expiry[u] = "never" =>
        \/ u \in broken
        \/ \E s \in Slots : user[s] = u /\ Sent(s)

(***************************************************************************)
(* Within a month a counter goes down only when a pipeline that was built  *)
(* before midnight is executed after it.                                   *)
(***************************************************************************)
Lowered(u) == usage'[u] < usage[u]

OnlyLateIncrementsDrop ==
    [][\A u \in Users : Lowered(u) =>
          \/ NewMonth
          \/ \E s \in Slots : user[s] = u /\ stale[s] /\ (ExpireAt(s) \/ Resend(s))]_vars

(***************************************************************************)
(* An account that used up its quota can send requests again some time     *)
(* later, unless a fault left its counter without a TTL: then nothing in   *)
(* the code ever repairs it, since no request is admitted any more.        *)
(***************************************************************************)
QuotaResets ==
    \A u \in Users : IsQuotaExceeded(u) ~> (~IsQuotaExceeded(u) \/ u \in broken)

(***************************************************************************)
(* meter.go: the counter is kept alive until the end of the current month. *)
(* Once the deadline of a counter is set, no pipeline takes more from it   *)
(* than its own tokens: what other requests counted stays.                 *)
(***************************************************************************)
KeptUntilMonthEnd ==
    [][\A u \in Users, s \in Slots :
          ExpireAt(s) /\ user[s] = u /\ expiry[u] = "monthEnd"
              => usage'[u] + tokens[s] >= usage[u]]_vars
=============================================================================
