----------------------------- MODULE DeviceAuth -----------------------------
(***************************************************************************)
(* The device flow that signs a CLI in: the CLI opens a session and polls  *)
(* it, a dashboard user approves the session's user code, and the approval *)
(* creates an API key in PostgreSQL and puts it into the session in Redis, *)
(* where the next poll finds it.                                           *)
(*                                                                         *)
(* ConfirmDevice is six steps that nothing makes atomic: insert the key,   *)
(* GET the user code, GET the session, look at the clock, look at it again *)
(* for the TTL, SET the session.  A session's deadline is written into its *)
(* value, and Redis drops the value by a TTL of its own, set a little      *)
(* later.  A SET whose reply is lost is sent again by go-redis.            *)
(*                                                                         *)
(* The user code stands for its session: codes of live sessions are taken  *)
(* to be distinct (eight random characters).                               *)
(***************************************************************************)
EXTENDS Naturals

CONSTANTS
    Devices,    \* CLI sign-ins: device code and user code of one session
    Users,      \* dashboard accounts
    Keys,       \* keys GenerateAPIKey can return; a key is never returned twice
    Approvals,  \* ConfirmDevice handlers in flight at once
    None,
    Life,       \* deviceSessionTTL, in ticks
    MaxDelay    \* the most ticks from the deadline's computation to the SET

(* A session's value; user and key are None until it is confirmed. *)
Session == [user : Users \cup {None}, key : Keys \cup {None}]

ASSUME NoneAssumption == None \notin Devices \cup Users \cup Keys /\ None \notin Session
ASSUME LifeAssumption == MaxDelay \in Nat /\ Life \in Nat /\ MaxDelay < Life

(* The TTL of a value that was stored with none. *)
Forever == Life + 1

VARIABLES
    owner,    \* api_keys.user_id of each key, None if never created
    sess,     \* device:code:<d>, None if absent
    ttl,      \* its TTL; Forever if it has none, 0 if it is absent
    codeTTL,  \* TTL of device:user:<c>; 0 if it is absent
    left,     \* ticks to ExpiresAt; 0 when it is past
    cli,      \* "new", "failed", "waiting", "fetched", "authorized", "expired"
    polled,   \* the value the running poll fetched
    pc, who, dev, key, \* per approval: step, account, session, key it created
    copy,     \* per approval: the session as it was read
    until,    \* per approval: the TTL it computed
    stored    \* (history) user and key that were SET into each session

sessionVars == <<sess, ttl, codeTTL, left>>
cliVars == <<cli, polled>>
approvalVars == <<pc, who, dev, key, copy, until>>
vars == <<owner, sess, ttl, codeTTL, left, cli, polled, pc, who, dev, key, copy, until, stored>>

Fresh == [user |-> None, key |-> None]

Confirmed(session) == session.key # None

TypeOK ==
    /\ owner \in [Keys -> Users \cup {None}]
    /\ sess \in [Devices -> Session \cup {None}]
    /\ ttl \in [Devices -> 0 .. Forever]
    /\ codeTTL \in [Devices -> 0 .. Life]
    /\ left \in [Devices -> 0 .. Life]
    /\ cli \in [Devices -> {"new", "failed", "waiting", "fetched", "authorized", "expired"}]
    /\ polled \in [Devices -> Session \cup {None}]
    /\ pc \in [Approvals -> {"idle", "created", "found", "read", "checked", "timed"}]
    /\ who \in [Approvals -> Users \cup {None}]
    /\ dev \in [Approvals -> Devices \cup {None}]
    /\ key \in [Approvals -> Keys \cup {None}]
    /\ copy \in [Approvals -> Session \cup {None}]
    /\ until \in [Approvals -> 0 .. Life]
    /\ stored \in [Devices -> SUBSET [user : Users, key : Keys]]
    /\ \A d \in Devices : sess[d] = None <=> ttl[d] = 0

Init ==
    /\ owner = [k \in Keys |-> None]
    /\ sess = [d \in Devices |-> None]
    /\ ttl = [d \in Devices |-> 0]
    /\ codeTTL = [d \in Devices |-> 0]
    /\ left = [d \in Devices |-> 0]
    /\ cli = [d \in Devices |-> "new"]
    /\ polled = [d \in Devices |-> None]
    /\ pc = [a \in Approvals |-> "idle"]
    /\ who = [a \in Approvals |-> None]
    /\ dev = [a \in Approvals |-> None]
    /\ key = [a \in Approvals |-> None]
    /\ copy = [a \in Approvals |-> None]
    /\ until = [a \in Approvals |-> 0]
    /\ stored = [d \in Devices |-> {}]

-----------------------------------------------------------------------------
(* The CLI: POST /auth/device, then GET /auth/device/token until an answer. *)

(* Create stamps ExpiresAt and sends two SETs in a pipeline that is not a   *)
(* transaction: on failure the CLI gets a 500, and any of the two may have  *)
(* been stored.                                                             *)
Create(d) ==
    /\ cli[d] = "new"
    /\ \E delay \in 0 .. MaxDelay : left' = [left EXCEPT ![d] = Life - delay]
    /\ \E session, code \in BOOLEAN :
          /\ sess' = [sess EXCEPT ![d] = IF session THEN Fresh ELSE None]
          /\ ttl' = [ttl EXCEPT ![d] = IF session THEN Life ELSE 0]
          /\ codeTTL' = [codeTTL EXCEPT ![d] = IF code THEN Life ELSE 0]
          /\ cli' = [cli EXCEPT ![d] = IF session /\ code THEN "waiting" ELSE "failed"]
    /\ UNCHANGED <<owner, polled, approvalVars, stored>>

(* Mutant of PollFetch: a missing session is answered as one not confirmed yet. *)
PollFetchPatient(d) ==
    /\ cli[d] = "waiting"
    /\ sess[d] # None
    /\ cli' = [cli EXCEPT ![d] = "fetched"]
    /\ polled' = [polled EXCEPT ![d] = sess[d]]
    /\ UNCHANGED <<owner, sessionVars, approvalVars, stored>>

(* GetByDeviceCode in PollToken. *)
PollFetch(d) ==
    /\ cli[d] = "waiting"
    /\ IF sess[d] = None
       THEN cli' = [cli EXCEPT ![d] = "expired"] /\ UNCHANGED polled
       ELSE /\ cli' = [cli EXCEPT ![d] = "fetched"]
            /\ polled' = [polled EXCEPT ![d] = sess[d]]
    /\ UNCHANGED <<owner, sessionVars, approvalVars, stored>>

(* Mutant of PollAnswer: Redis is trusted to have dropped expired sessions. *)
PollAnswerUnchecked(d) ==
    /\ cli[d] = "fetched"
    /\ cli' = [cli EXCEPT ![d] = IF Confirmed(polled[d]) THEN "authorized" ELSE "waiting"]
    /\ polled' = [polled EXCEPT ![d] = IF Confirmed(@) THEN @ ELSE None]
    /\ UNCHANGED <<owner, sessionVars, approvalVars, stored>>

(* The rest of PollToken: the deadline in the value decides, then Confirmed. *)
(* The CLI stops at "authorized" and "expired".                              *)
PollAnswer(d) ==
    /\ cli[d] = "fetched"
    /\ cli' = [cli EXCEPT ![d] = IF left[d] = 0 THEN "expired"
                                ELSE IF Confirmed(polled[d]) THEN "authorized" ELSE "waiting"]
    /\ polled' = [polled EXCEPT ![d] = IF left[d] # 0 /\ Confirmed(@) THEN @ ELSE None]
    /\ UNCHANGED <<owner, sessionVars, approvalVars, stored>>

-----------------------------------------------------------------------------
(* ConfirmDevice, for the user code of any session the account was shown.   *)

Answer(a) ==
    /\ pc' = [pc EXCEPT ![a] = "idle"]
    /\ who' = [who EXCEPT ![a] = None]
    /\ dev' = [dev EXCEPT ![a] = None]
    /\ key' = [key EXCEPT ![a] = None]
    /\ copy' = [copy EXCEPT ![a] = None]
    /\ until' = [until EXCEPT ![a] = 0]

(* The key is generated and inserted before the code is looked at. *)
CreateKey(a, u, d, k) ==
    /\ pc[a] = "idle"
    /\ owner[k] = None
    /\ owner' = [owner EXCEPT ![k] = u]
    /\ pc' = [pc EXCEPT ![a] = "created"]
    /\ who' = [who EXCEPT ![a] = u]
    /\ dev' = [dev EXCEPT ![a] = d]
    /\ key' = [key EXCEPT ![a] = k]
    /\ UNCHANGED <<sessionVars, cliVars, copy, until, stored>>

(* GET device:user:<c>: missing, the answer is 404. *)
FindCode(a) ==
    /\ pc[a] = "created"
    /\ IF codeTTL[dev[a]] > 0
       THEN pc' = [pc EXCEPT ![a] = "found"] /\ UNCHANGED <<who, dev, key, copy, until>>
       ELSE Answer(a)
    /\ UNCHANGED <<owner, sessionVars, cliVars, stored>>

(* GET device:code:<d>: missing, the answer is 404. *)
ReadSession(a) ==
    /\ pc[a] = "found"
    /\ IF sess[dev[a]] # None
       THEN /\ pc' = [pc EXCEPT ![a] = "read"]
            /\ copy' = [copy EXCEPT ![a] = sess[dev[a]]]
            /\ UNCHANGED <<who, dev, key, until>>
       ELSE Answer(a)
    /\ UNCHANGED <<owner, sessionVars, cliVars, stored>>

(* time.Now().After(sess.ExpiresAt): the answer is 400. *)
CheckDeadline(a) ==
    /\ pc[a] = "read"
    /\ IF left[dev[a]] > 0
       THEN pc' = [pc EXCEPT ![a] = "checked"] /\ UNCHANGED <<who, dev, key, copy, until>>
       ELSE Answer(a)
    /\ UNCHANGED <<owner, sessionVars, cliVars, stored>>

(* time.Until(sess.ExpiresAt): not positive when the deadline has passed     *)
(* since the check.                                                          *)
ComputeTTL(a) ==
    /\ pc[a] = "checked"
    /\ pc' = [pc EXCEPT ![a] = "timed"]
    /\ until' = [until EXCEPT ![a] = left[dev[a]]]
    /\ UNCHANGED <<owner, sessionVars, cliVars, who, dev, key, copy, stored>>

(* What Confirm writes back: the copy with the approval's account and key. *)
Approved(a) == [copy[a] EXCEPT !.user = who[a], !.key = key[a]]

(* SET.  Its reply arrives, or is lost and go-redis sends it again. *)
Put(a, session, lifetime) ==
    /\ pc[a] = "timed"
    /\ sess' = [sess EXCEPT ![dev[a]] = session]
    /\ ttl' = [ttl EXCEPT ![dev[a]] = lifetime]
    /\ stored' = [stored EXCEPT ![dev[a]] = @ \cup {[user |-> who[a], key |-> key[a]]}]
    /\ Answer(a) \/ UNCHANGED approvalVars
    /\ UNCHANGED <<owner, codeTTL, left, cliVars>>

(* The TTL go-redis sends: none for 0 and below (its KEEPTTL for exactly     *)
(* -1 ns is left out).                                                       *)
Lifetime(duration) == IF duration > 0 THEN duration ELSE Forever

(* Mutants of StoreSession: a TTL that starts anew after the deadline; a    *)
(* fixed TTL of 0, which is none; and a copy that keeps the account of an   *)
(* earlier approval.                                                        *)
StoreSessionExtended(a) == Put(a, Approved(a), until[a] + Life)

StoreSessionForever(a) == Put(a, Approved(a), Forever)

StoreSessionKeepUser(a) ==
    Put(a, [Approved(a) EXCEPT !.user = IF copy[a].user = None THEN @ ELSE copy[a].user],
        Lifetime(until[a]))

StoreSession(a) == Put(a, Approved(a), Lifetime(until[a]))

(* Redis fails (500), or the process stops: whatever was done stays done. *)
Abandon(a) ==
    /\ pc[a] # "idle"
    /\ Answer(a)
    /\ UNCHANGED <<owner, sessionVars, cliVars, stored>>

-----------------------------------------------------------------------------
Tick ==
    /\ left' = [d \in Devices |-> IF left[d] = 0 THEN 0 ELSE left[d] - 1]
    /\ codeTTL' = [d \in Devices |-> IF codeTTL[d] = 0 THEN 0 ELSE codeTTL[d] - 1]
    /\ ttl' = [d \in Devices |-> IF ttl[d] \in {0, Forever} THEN ttl[d] ELSE ttl[d] - 1]
    /\ sess' = [d \in Devices |-> IF ttl[d] = 1 THEN None ELSE sess[d]]
    /\ UNCHANGED <<owner, cliVars, approvalVars, stored>>

Poll(d) == PollFetch(d) \/ PollAnswer(d)

Approve(a) ==
    \/ FindCode(a) \/ ReadSession(a) \/ CheckDeadline(a) \/ ComputeTTL(a)
    \/ StoreSession(a) \/ Abandon(a)

Next ==
    \/ \E d \in Devices : Create(d) \/ Poll(d)
    \/ \E a \in Approvals, u \in Users, d \in Devices, k \in Keys : CreateKey(a, u, d, k)
    \/ \E a \in Approvals : Approve(a)
    \/ Tick

Spec == Init /\ [][Next]_vars

(* Time passes and a waiting CLI keeps polling, as it is told to. *)
FairSpec == Spec /\ WF_vars(Tick) /\ \A d \in Devices : WF_vars(Poll(d))

-----------------------------------------------------------------------------
(***************************************************************************)
(* A session only ever holds a key together with the account that approved *)
(* it and owns the key in PostgreSQL, and so does what a poll answers,     *)
(* whichever approvals of the same code overlap.                           *)
(***************************************************************************)
KeyOfApprover ==
    \A d \in Devices : \A session \in {sess[d], polled[d]} \ {None} :
        Confirmed(session) =>
            /\ owner[session.key] = session.user
            /\ [user |-> session.user, key |-> session.key] \in stored[d]

(***************************************************************************)
(* A session that Redis will never drop is one whose deadline has passed:  *)
(* the confirmation lost the race with the clock.                          *)
(***************************************************************************)
ForeverIsExpired == \A d \in Devices : ttl[d] = Forever => left[d] = 0

(***************************************************************************)
(* No key is handed out after the deadline, although sessions outlive it   *)
(* in Redis (by the delay of Create, or forever).                          *)
(***************************************************************************)
NoLateAuthorization ==
    [][\A d \in Devices : cli[d] # "authorized" /\ cli'[d] = "authorized" => left[d] > 0]_vars

(***************************************************************************)
(* A CLI that polls gets its key or learns that the session expired.       *)
(***************************************************************************)
PollingEnds == \A d \in Devices : cli[d] = "waiting" ~> cli[d] \in {"authorized", "expired"}

(***************************************************************************)
(* What the description of POST /auth/device/confirm says: the key it      *)
(* generates is stored in the session.  Once a request is over, the key it *)
(* created has been stored.                                                *)
(***************************************************************************)
KeyIsStored ==
    \A k \in Keys : owner[k] # None =>
        \/ \E a \in Approvals : key[a] = k
        \/ \E d \in Devices : [user |-> owner[k], key |-> k] \in stored[d]
=============================================================================
