------------------------------ MODULE KeyAuth ------------------------------
(***************************************************************************)
(* API-key validation for /v1/*: PostgreSQL holds the api_keys rows, Redis *)
(* holds a read-through copy of the user behind each key hash, and nothing *)
(* invalidates that copy when a row is deleted or the plan is changed.     *)
(*                                                                         *)
(* One handler per element of Requests runs APIKeyMiddleware; each of its  *)
(* round trips (Redis GET, SQL join, Redis SET, quota GET) is a step of    *)
(* its own, so the dashboard can revoke a key between any two of them.     *)
(*                                                                         *)
(* Time is counted in ticks.  A cache entry lives TTL ticks; MaxLag bounds *)
(* the ticks between the moment a handler reads the credentials and the    *)
(* end of its validation (the requests are never cancelled by the code, so *)
(* this is an assumption about the environment, and a parameter).          *)
(***************************************************************************)
EXTENDS Naturals

CONSTANTS
    Users,      \* the accounts of the dashboard
    Keys,       \* well-formed raw keys; a key and its hash are the same thing here
    BadTokens,  \* bearer tokens that validateKeyFormat rejects
    Plans,      \* values of users.plan
    Free,       \* the plan ResolveUser gives a new account
    Requests,   \* handler slots: requests to /v1/* that may be in flight at once
    None,       \* no row, no cache entry, no credentials
    TTL,        \* apiKeyCacheTTL, in ticks
    MaxLag      \* the slowest validation, in ticks

Credentials == [user : Users, plan : Plans]

ASSUME FreeAssumption == Free \in Plans
ASSUME NoneAssumption == /\ None \notin Users \cup Keys \cup Plans
                         /\ None \notin Credentials
ASSUME TokenAssumption == Keys \cap BadTokens = {}
ASSUME TimeAssumption == TTL \in Nat \ {0} /\ MaxLag \in Nat

(***************************************************************************)
(* The longest time for which credentials that are no longer true can      *)
(* still be used: one lag to fill the cache, the entry's remaining life,   *)
(* one lag from the cache read to the quota check.                         *)
(***************************************************************************)
Window == TTL + 2 * MaxLag - 1

VARIABLES
    plan,    \* users.plan; None while the account has no row
    owner,   \* api_keys.user_id; kept when the row goes, None if never issued
    rows,    \* the keys that have an api_keys row
    used,    \* the rows whose last_used is set
    touch,   \* keys with a pending touchKey goroutine
    cache,   \* Redis auth:key:<hash>
    ttl,     \* ticks left of each cache entry
    pc, key, seen, held,  \* per handler: step, key, credentials, age of the read
    late,    \* per handler (history): its key was already revoked on arrival
    since    \* per key (history): ticks since View last changed, capped

dbVars == <<plan, owner, rows>>
cacheVars == <<cache, ttl>>
handlerVars == <<pc, key, seen, held, late>>
vars == <<plan, owner, rows, used, touch, cache, ttl,
          pc, key, seen, held, late, since>>

Active == {"lookup", "query", "fill", "quota"}
Verdicts == {"accepted", "invalid", "quotaExceeded", "error"}

(* What the join of api_keys and users answers for a key now. *)
View(k) == IF k \in rows THEN [user |-> owner[k], plan |-> plan[owner[k]]] ELSE None

(* The key was issued and its row is gone: it was revoked. *)
Revoked(k) == owner[k] # None /\ k \notin rows

TypeOK ==
    /\ plan \in [Users -> Plans \cup {None}]
    /\ owner \in [Keys -> Users \cup {None}]
    /\ rows \subseteq Keys
    /\ used \subseteq rows
    /\ touch \subseteq Keys
    /\ cache \in [Keys -> Credentials \cup {None}]
    /\ ttl \in [Keys -> 0 .. TTL]
    /\ pc \in [Requests -> Active \cup Verdicts \cup {"idle"}]
    /\ key \in [Requests -> Keys \cup {None}]
    /\ seen \in [Requests -> Credentials \cup {None}]
    /\ held \in [Requests -> 0 .. MaxLag]
    /\ late \in [Requests -> BOOLEAN]
    /\ since \in [Keys -> 0 .. Window + 1]

Init ==
    /\ plan = [u \in Users |-> None]
    /\ owner = [k \in Keys |-> None]
    /\ rows = {} /\ used = {} /\ touch = {}
    /\ cache = [k \in Keys |-> None]
    /\ ttl = [k \in Keys |-> 0]
    /\ pc = [r \in Requests |-> "idle"]
    /\ key = [r \in Requests |-> None]
    /\ seen = [r \in Requests |-> None]
    /\ held = [r \in Requests |-> 0]
    /\ late = [r \in Requests |-> FALSE]
    /\ since = [k \in Keys |-> 0]

-----------------------------------------------------------------------------
(* Dashboard: /api/* handlers and the device flow change PostgreSQL only.   *)

(* Every authenticated /api/* request upserts the account; a known account *)
(* keeps its plan.                                                         *)
ResolveUser(u) == [plan EXCEPT ![u] = IF @ = None THEN Free ELSE @]

SignIn(u) ==
    /\ plan' = ResolveUser(u)
    /\ UNCHANGED <<owner, rows, used, touch, cacheVars, handlerVars, since>>

(* Mutant of CreateAPIKey: a weak generator can repeat a revoked key, which *)
(* the UNIQUE constraint on the live rows does not stop.                   *)
CreateAPIKeyAgain(u, k) ==
    /\ k \notin rows
    /\ plan' = ResolveUser(u)
    /\ owner' = [owner EXCEPT ![k] = u]
    /\ rows' = rows \cup {k}
    /\ since' = [since EXCEPT ![k] = 0]
    /\ UNCHANGED <<used, touch, cacheVars, handlerVars>>

(* POST /api/keys, and /auth/device/confirm: the key is fresh random bytes. *)
CreateAPIKey(u, k) ==
    /\ owner[k] = None
    /\ plan' = ResolveUser(u)
    /\ owner' = [owner EXCEPT ![k] = u]
    /\ rows' = rows \cup {k}
    /\ since' = [since EXCEPT ![k] = 0]
    /\ UNCHANGED <<used, touch, cacheVars, handlerVars>>

(* DELETE /api/keys/:id: only the owner's own row goes, and Redis is left   *)
(* alone.  Another account's id, or an unknown one, deletes nothing (404).  *)
RevokeAPIKey(u, k) ==
    /\ plan' = ResolveUser(u)
    /\ IF k \in rows /\ owner[k] = u
       THEN /\ rows' = rows \ {k}
            /\ used' = used \ {k}
            /\ since' = [since EXCEPT ![k] = 0]
       ELSE UNCHANGED <<rows, used, since>>
    /\ UNCHANGED <<owner, touch, cacheVars, handlerVars>>

(* The UpdateUserPlan query: run by an operator, no handler calls it. *)
UpdateUserPlan(u, p) ==
    /\ plan[u] \notin {None, p}
    /\ plan' = [plan EXCEPT ![u] = p]
    /\ since' = [k \in Keys |-> IF k \in rows /\ owner[k] = u THEN 0 ELSE since[k]]
    /\ UNCHANGED <<owner, rows, used, touch, cacheVars, handlerVars>>

-----------------------------------------------------------------------------
(* APIKeyMiddleware on one request. *)

(* A verdict forgets what the handler read, unless the request goes on. *)
Finish(r, verdict) ==
    /\ pc' = [pc EXCEPT ![r] = verdict]
    /\ held' = [held EXCEPT ![r] = 0]
    /\ seen' = [seen EXCEPT ![r] = IF verdict = "accepted" THEN @ ELSE None]
    /\ UNCHANGED <<key, late>>

(* A request arrives in a free slot; its format is checked with no I/O. *)
Present(r, t) ==
    /\ pc[r] \notin Active
    /\ held' = [held EXCEPT ![r] = 0]
    /\ seen' = [seen EXCEPT ![r] = None]
    /\ IF t \in BadTokens
       THEN /\ pc' = [pc EXCEPT ![r] = "invalid"]
            /\ key' = [key EXCEPT ![r] = None]
            /\ late' = [late EXCEPT ![r] = FALSE]
       ELSE /\ pc' = [pc EXCEPT ![r] = "lookup"]
            /\ key' = [key EXCEPT ![r] = t]
            /\ late' = [late EXCEPT ![r] = Revoked(t)]
    /\ UNCHANGED <<dbVars, used, touch, cacheVars, since>>

(* Mutant of CacheHit: a hit renews the entry (GETEX instead of GET). *)
CacheHitSliding(r) ==
    /\ pc[r] = "lookup"
    /\ cache[key[r]] # None
    /\ pc' = [pc EXCEPT ![r] = "quota"]
    /\ seen' = [seen EXCEPT ![r] = cache[key[r]]]
    /\ ttl' = [ttl EXCEPT ![key[r]] = TTL]
    /\ UNCHANGED <<dbVars, used, touch, cache, key, held, late, since>>

(* fromCache answers: the copy is used as it is. *)
CacheHit(r) ==
    /\ pc[r] = "lookup"
    /\ cache[key[r]] # None
    /\ pc' = [pc EXCEPT ![r] = "quota"]
    /\ seen' = [seen EXCEPT ![r] = cache[key[r]]]
    /\ UNCHANGED <<dbVars, used, touch, cacheVars, key, held, late, since>>

(* fromCache fails: no entry, or any Redis error, which the code treats alike. *)
CacheMiss(r) ==
    /\ pc[r] = "lookup"
    /\ pc' = [pc EXCEPT ![r] = "query"]
    /\ UNCHANGED <<dbVars, used, touch, cacheVars, key, seen, held, late, since>>

(* The SQL join finds the row and spawns touchKey. *)
QueryFound(r) ==
    /\ pc[r] = "query"
    /\ View(key[r]) # None
    /\ pc' = [pc EXCEPT ![r] = "fill"]
    /\ seen' = [seen EXCEPT ![r] = View(key[r])]
    /\ touch' = touch \cup {key[r]}
    /\ UNCHANGED <<dbVars, used, cacheVars, key, held, late, since>>

(* No row, or a PostgreSQL error: both are reported as "invalid api key". *)
QueryFailed(r) ==
    /\ pc[r] = "query"
    /\ Finish(r, "invalid")
    /\ UNCHANGED <<dbVars, used, touch, cacheVars, since>>

(* setCache stores what the join returned, however long ago that was. *)
SetCache(r) ==
    /\ pc[r] = "fill"
    /\ cache' = [cache EXCEPT ![key[r]] = seen[r]]
    /\ ttl' = [ttl EXCEPT ![key[r]] = TTL]
    /\ pc' = [pc EXCEPT ![r] = "quota"]
    /\ UNCHANGED <<dbVars, used, touch, key, seen, held, late, since>>

(* setCache fails and the error is dropped. *)
SetCacheLost(r) ==
    /\ pc[r] = "fill"
    /\ pc' = [pc EXCEPT ![r] = "quota"]
    /\ UNCHANGED <<dbVars, used, touch, cacheVars, key, seen, held, late, since>>

(* The quota check ends the validation; the counter belongs to Metering. *)
CheckQuota(r) ==
    /\ pc[r] = "quota"
    /\ \E verdict \in {"accepted", "quotaExceeded", "error"} : Finish(r, verdict)
    /\ UNCHANGED <<dbVars, used, touch, cacheVars, since>>

(* Mutants of TouchKey: a last-use record kept without looking for the row, *)
(* and a save of the whole row that the lookup had read.                    *)
TouchKeyBlind(k) ==
    /\ k \in touch
    /\ touch' = touch \ {k}
    /\ used' = used \cup {k}
    /\ UNCHANGED <<dbVars, cacheVars, handlerVars, since>>

TouchKeyUpsert(k) ==
    /\ k \in touch
    /\ touch' = touch \ {k}
    /\ rows' = rows \cup {k}
    /\ used' = used \cup {k}
    /\ UNCHANGED <<plan, owner, cacheVars, handlerVars, since>>

(* The goroutine's UPDATE: it touches a row that is still there, and its    *)
(* error is ignored.                                                        *)
TouchKey(k) ==
    /\ k \in touch
    /\ touch' = touch \ {k}
    /\ used' \in {used, used \cup ({k} \cap rows)}
    /\ UNCHANGED <<dbVars, cacheVars, handlerVars, since>>

-----------------------------------------------------------------------------
(* A tick passes; Redis drops the entries whose time is up. *)
Holding(r) == pc[r] \in {"fill", "quota"}

Tick ==
    /\ \A r \in Requests : Holding(r) => held[r] < MaxLag
    /\ ttl' = [k \in Keys |-> IF ttl[k] = 0 THEN 0 ELSE ttl[k] - 1]
    /\ cache' = [k \in Keys |-> IF ttl[k] <= 1 THEN None ELSE cache[k]]
    /\ held' = [r \in Requests |-> IF Holding(r) THEN held[r] + 1 ELSE held[r]]
    /\ since' = [k \in Keys |-> IF since[k] <= Window THEN since[k] + 1 ELSE since[k]]
    /\ UNCHANGED <<dbVars, used, touch, pc, key, seen, late>>

Validate(r) ==
    \/ CacheHit(r) \/ CacheMiss(r)
    \/ QueryFound(r) \/ QueryFailed(r)
    \/ SetCache(r) \/ SetCacheLost(r)
    \/ CheckQuota(r)

Next ==
    \/ \E u \in Users : SignIn(u)
    \/ \E u \in Users, k \in Keys : CreateAPIKey(u, k) \/ RevokeAPIKey(u, k)
    \/ \E u \in Users, p \in Plans : UpdateUserPlan(u, p)
    \/ \E r \in Requests, t \in Keys \cup BadTokens : Present(r, t)
    \/ \E r \in Requests : Validate(r)
    \/ \E k \in Keys : TouchKey(k)
    \/ Tick

Spec == Init /\ [][Next]_vars

(* Time passes, and a handler that runs takes its next step. *)
Fairness == WF_vars(Tick) /\ \A r \in Requests : WF_vars(Validate(r))

FairSpec == Spec /\ Fairness

-----------------------------------------------------------------------------
(***************************************************************************)
(* Credentials that no longer match PostgreSQL, wherever they are kept,    *)
(* stopped matching a bounded time ago: in the cache at most the entry's   *)
(* age plus one lag, in a handler that filled it at most the age of its    *)
(* read, and at the quota check at most Window.  The race of a lookup with *)
(* a revocation (the row is deleted between the join and setCache, and the *)
(* dead row is cached for a full TTL) is inside the bound.                 *)
(***************************************************************************)
FreshCache ==
    \A k \in Keys : cache[k] \notin {None, View(k)} =>
        since[k] + ttl[k] <= TTL + MaxLag

FreshFill ==
    \A r \in Requests : pc[r] = "fill" /\ seen[r] # View(key[r]) =>
        since[key[r]] <= held[r]

FreshVerdict ==
    \A r \in Requests : pc[r] = "quota" /\ seen[r] # View(key[r]) =>
        since[key[r]] < TTL + MaxLag + held[r]

BoundedStaleness == FreshCache /\ FreshFill /\ FreshVerdict

(***************************************************************************)
(* What a client sees of that bound: a request is accepted only with       *)
(* credentials that were PostgreSQL's answer at most Window ticks ago.     *)
(***************************************************************************)
AcceptedRecently ==
    [][\A r \in Requests : pc[r] = "quota" /\ pc'[r] = "accepted" =>
          \/ seen[r] = View(key[r])
          \/ since[key[r]] <= Window]_vars

(***************************************************************************)
(* Whoever is accepted, cached or about to be charged under a key is the   *)
(* account the key was issued to: the cache never mixes the users of two   *)
(* keys and a revoked key never becomes another account's.                 *)
(***************************************************************************)
Attribution ==
    /\ \A k \in Keys : cache[k] # None => cache[k].user = owner[k]
    /\ \A r \in Requests : seen[r] # None => seen[r].user = owner[key[r]]

(***************************************************************************)
(* A key that was revoked stays revoked: neither the pending touchKey of an *)
(* earlier lookup nor a new key can bring its row back.                    *)
(***************************************************************************)
NoResurrection == [][\A k \in Keys : Revoked(k) => Revoked(k)']_vars

(***************************************************************************)
(* A revoked key eventually validates nowhere for good, even under a steady *)
(* stream of requests that present it: hits do not renew the entry.        *)
(***************************************************************************)
Usable(k) ==
    \/ cache[k] # None
    \/ \E r \in Requests : Holding(r) /\ key[r] = k

RevokedDies == \A k \in Keys : Revoked(k) ~> []~Usable(k)

(***************************************************************************)
(* What the description of DELETE /api/keys/{id} says: requests that use a *)
(* revoked key are rejected at once, so no request that arrives after the  *)
(* revocation is accepted.                                                 *)
(***************************************************************************)
ImmediateRejection == \A r \in Requests : pc[r] = "accepted" => ~late[r]
=============================================================================
