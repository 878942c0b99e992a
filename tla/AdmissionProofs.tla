-------------------------- MODULE AdmissionProofs --------------------------
(***************************************************************************)
(* Proofs about KeyAuth, and about Admission, which adds the counters, for *)
(* any accounts, keys, handlers and plans, any TTL and any MaxLag.         *)
(*                                                                         *)
(* IInv adds to the properties of KeyAuth what a step needs to know: an    *)
(* entry is there exactly while it has time left, a handler past the       *)
(* lookup has a key and credentials, and the row of a key belongs to an    *)
(* account that has one.  Key validation with counters is still key        *)
(* validation, so what is proved of KeyAuth holds of Admission.  A verdict *)
(* agrees with the pages because credentials outside the window are        *)
(* PostgreSQL's answer, and because the three copies of the quotas are     *)
(* equal, which is the lemma SameQuotas.                                   *)
(***************************************************************************)
EXTENDS Admission, TLAPS

EntryHasTime == \A k \in Keys : cache[k] # None <=> ttl[k] > 0

RowHasUser == \A k \in rows : owner[k] \in Users /\ plan[owner[k]] \in Plans

HandlerHasKey ==
    \A r \in Requests :
        /\ pc[r] \in Active => key[r] \in Keys
        /\ Holding(r) => seen[r] # None
        /\ seen[r] # None => key[r] \in Keys

IInv ==
    /\ TypeOK
    /\ EntryHasTime
    /\ RowHasUser
    /\ HandlerHasKey
    /\ BoundedStaleness
    /\ Attribution

-----------------------------------------------------------------------------
(* The join answers None or credentials of the key's owner. *)
LEMMA ViewType ==
    ASSUME TypeOK, RowHasUser, NEW k \in Keys
    PROVE  /\ View(k) \in Credentials \cup {None}
           /\ k \in rows => View(k) # None /\ View(k).user = owner[k]
  BY NoneAssumption DEF TypeOK, RowHasUser, View, Credentials

(* Upserting an account gives it a plan and changes no other plan. *)
LEMMA ResolveUserType ==
    ASSUME TypeOK, NEW u \in Users
    PROVE  /\ ResolveUser(u) \in [Users -> Plans \cup {None}]
           /\ ResolveUser(u)[u] \in Plans
           /\ \A v \in Users : plan[v] # None => ResolveUser(u)[v] = plan[v]
  BY FreeAssumption, NoneAssumption DEF TypeOK, ResolveUser

(* So the accounts of the rows keep theirs. *)
Known(u) == \A k \in rows : owner[k] \in Users /\ ResolveUser(u)[owner[k]] \in Plans

LEMMA RowsKeepUser ==
    ASSUME TypeOK, RowHasUser, NEW u \in Users
    PROVE  Known(u)
<1>1. \A k \in rows : owner[k] \in Users /\ plan[owner[k]] \in Plans /\ plan[owner[k]] # None
  BY NoneAssumption DEF RowHasUser
<1> QED
  BY <1>1, ResolveUserType, Zenon DEF Known

-----------------------------------------------------------------------------
(* Types are kept; a handler's key and credentials index the maps safely. *)
LEMMA TypeStep == IInv /\ [Next]_vars => TypeOK'
<1> SUFFICES ASSUME IInv, [Next]_vars PROVE TypeOK'
  OBVIOUS
<1> USE DEF IInv, TypeOK, HandlerHasKey, Active, Holding, Verdicts
<1>1. ASSUME NEW u \in Users, SignIn(u)
      PROVE  TypeOK'
  BY <1>1, ResolveUserType DEF Window, SignIn, cacheVars, handlerVars
<1>2. ASSUME NEW u \in Users, NEW k \in Keys, CreateAPIKey(u, k)
      PROVE  TypeOK'
  BY <1>2, ResolveUserType, TimeAssumption
     DEF Window, CreateAPIKey, cacheVars, handlerVars
<1>3. ASSUME NEW u \in Users, NEW k \in Keys, RevokeAPIKey(u, k)
      PROVE  TypeOK'
  <2>1. plan' \in [Users -> Plans \cup {None}]
    BY <1>3, ResolveUserType DEF RevokeAPIKey
  <2>2. rows' \subseteq Keys /\ used' \subseteq rows' /\ since' \in [Keys -> 0 .. Window + 1]
    <3>1. CASE k \in rows /\ owner[k] = u
      BY <1>3, <3>1, TimeAssumption DEF RevokeAPIKey, TypeOK, Window
    <3>2. CASE ~(k \in rows /\ owner[k] = u)
      BY <1>3, <3>2 DEF RevokeAPIKey, TypeOK
    <3>3. QED BY <3>1, <3>2
  <2>3. QED
    BY <1>3, <2>1, <2>2 DEF RevokeAPIKey, TypeOK, cacheVars, handlerVars
<1>4. ASSUME NEW u \in Users, NEW p \in Plans, UpdateUserPlan(u, p)
      PROVE  TypeOK'
  BY <1>4, TimeAssumption
     DEF Window, UpdateUserPlan, cacheVars, handlerVars
<1>5. ASSUME NEW r \in Requests, NEW t \in Keys \cup BadTokens, Present(r, t)
      PROVE  TypeOK'
  <2>1. /\ held' \in [Requests -> 0 .. MaxLag]
        /\ seen' \in [Requests -> Credentials \cup {None}]
    BY <1>5, TimeAssumption DEF Present, TypeOK
  <2>2. /\ pc' \in [Requests -> Active \cup Verdicts \cup {"idle"}]
        /\ key' \in [Requests -> Keys \cup {None}]
        /\ late' \in [Requests -> BOOLEAN]
    <3>1. CASE t \in BadTokens
      BY <1>5, <3>1 DEF Present, TypeOK, Verdicts
    <3>2. CASE t \notin BadTokens
      <4>1. Revoked(t) \in BOOLEAN
        BY DEF Revoked
      <4>2. QED
        BY <1>5, <3>2, <4>1 DEF Present, TypeOK, Active
    <3>3. QED BY <3>1, <3>2
  <2>3. QED
    BY <1>5, <2>1, <2>2 DEF Present, TypeOK, dbVars, cacheVars
<1>6. ASSUME NEW r \in Requests, CacheHit(r)
      PROVE  TypeOK'
  BY <1>6 DEF CacheHit, dbVars, cacheVars
<1>7. ASSUME NEW r \in Requests, CacheMiss(r)
      PROVE  TypeOK'
  BY <1>7 DEF CacheMiss, dbVars, cacheVars
<1>8. ASSUME NEW r \in Requests, QueryFound(r)
      PROVE  TypeOK'
  BY <1>8, ViewType DEF RowHasUser, QueryFound, dbVars, cacheVars
<1>9. ASSUME NEW r \in Requests, QueryFailed(r)
      PROVE  TypeOK'
  BY <1>9, TimeAssumption DEF QueryFailed, Finish, dbVars, cacheVars
<1>10. ASSUME NEW r \in Requests, SetCache(r)
      PROVE  TypeOK'
  BY <1>10, TimeAssumption DEF SetCache, dbVars
<1>11. ASSUME NEW r \in Requests, SetCacheLost(r)
      PROVE  TypeOK'
  BY <1>11 DEF SetCacheLost, dbVars, cacheVars
<1>12. ASSUME NEW r \in Requests, CheckQuota(r)
      PROVE  TypeOK'
  BY <1>12, TimeAssumption DEF CheckQuota, Finish, dbVars, cacheVars
<1>13. ASSUME NEW k \in Keys, TouchKey(k)
      PROVE  TypeOK'
  BY <1>13 DEF TouchKey, dbVars, cacheVars, handlerVars
<1>14. CASE Tick
  BY <1>14, TimeAssumption DEF Window, Tick, dbVars
<1>15. CASE UNCHANGED vars
  BY <1>15 DEF vars
<1>16. QED
  BY <1>1, <1>2, <1>3, <1>4, <1>5, <1>6, <1>7, <1>8, <1>9, <1>10, <1>11,
     <1>12, <1>13, <1>14, <1>15
     DEF Next, Validate

(* Entries keep their clocks, rows their accounts, handlers their keys. *)
LEMMA StructureStep == IInv /\ [Next]_vars => (EntryHasTime /\ RowHasUser /\ HandlerHasKey)'
<1> SUFFICES ASSUME IInv, [Next]_vars PROVE (EntryHasTime /\ RowHasUser /\ HandlerHasKey)'
  OBVIOUS
<1> USE DEF IInv, TypeOK, EntryHasTime, RowHasUser, HandlerHasKey, Holding, Active
<1>1. ASSUME NEW u \in Users, SignIn(u)
      PROVE  (EntryHasTime /\ RowHasUser /\ HandlerHasKey)'
  BY <1>1, ResolveUserType DEF SignIn, cacheVars, handlerVars
<1>2. ASSUME NEW u \in Users, NEW k \in Keys, CreateAPIKey(u, k)
      PROVE  (EntryHasTime /\ RowHasUser /\ HandlerHasKey)'
  <2>1. UNCHANGED <<cache, ttl, pc, key, seen>>
    BY <1>2 DEF CreateAPIKey, cacheVars, handlerVars
  <2>2. EntryHasTime'
    BY <2>1 DEF EntryHasTime
  <2>3. HandlerHasKey'
    BY <2>1
  <2>4. RowHasUser'
    <3>1. ResolveUser(u)[u] \in Plans
      BY ResolveUserType
    <3>2. /\ rows' = rows \cup {k}
          /\ owner'[k] = u /\ \A x \in Keys : x # k => owner'[x] = owner[x]
          /\ plan' = ResolveUser(u)
      BY <1>2 DEF CreateAPIKey
    <3>3. \A x \in rows' : x # k => x \in rows /\ owner'[x] = owner[x]
      BY <3>2
    <3> QED
      BY <3>1, <3>2, <3>3, RowsKeepUser DEF Known
  <2> QED
    BY <2>2, <2>3, <2>4
<1>3. ASSUME NEW u \in Users, NEW k \in Keys, RevokeAPIKey(u, k)
      PROVE  (EntryHasTime /\ RowHasUser /\ HandlerHasKey)'
  <2>1. UNCHANGED <<cache, ttl, pc, key, seen, owner>> /\ rows' \subseteq rows
    BY <1>3 DEF RevokeAPIKey, cacheVars, handlerVars
  <2>2. EntryHasTime'
    BY <2>1 DEF EntryHasTime
  <2>3. HandlerHasKey'
    BY <2>1
  <2>4. RowHasUser'
    BY <1>3, <2>1, RowsKeepUser DEF Known, RevokeAPIKey
  <2> QED
    BY <2>2, <2>3, <2>4
<1>4. ASSUME NEW u \in Users, NEW p \in Plans, UpdateUserPlan(u, p)
      PROVE  (EntryHasTime /\ RowHasUser /\ HandlerHasKey)'
  BY <1>4, NoneAssumption DEF UpdateUserPlan, cacheVars, handlerVars
<1>5. ASSUME NEW r \in Requests, NEW t \in Keys \cup BadTokens, Present(r, t)
      PROVE  (EntryHasTime /\ RowHasUser /\ HandlerHasKey)'
  BY <1>5 DEF Present, dbVars, cacheVars
<1>6. ASSUME NEW r \in Requests, CacheHit(r)
      PROVE  (EntryHasTime /\ RowHasUser /\ HandlerHasKey)'
  BY <1>6 DEF CacheHit, dbVars, cacheVars
<1>7. ASSUME NEW r \in Requests, CacheMiss(r)
      PROVE  (EntryHasTime /\ RowHasUser /\ HandlerHasKey)'
  BY <1>7 DEF CacheMiss, dbVars, cacheVars
<1>8. ASSUME NEW r \in Requests, QueryFound(r)
      PROVE  (EntryHasTime /\ RowHasUser /\ HandlerHasKey)'
  BY <1>8, ViewType DEF QueryFound, dbVars, cacheVars
<1>9. ASSUME NEW r \in Requests, QueryFailed(r)
      PROVE  (EntryHasTime /\ RowHasUser /\ HandlerHasKey)'
  BY <1>9 DEF Verdicts, QueryFailed, Finish, dbVars, cacheVars
<1>10. ASSUME NEW r \in Requests, SetCache(r)
      PROVE  (EntryHasTime /\ RowHasUser /\ HandlerHasKey)'
  BY <1>10, TimeAssumption, NoneAssumption DEF SetCache, dbVars
<1>11. ASSUME NEW r \in Requests, SetCacheLost(r)
      PROVE  (EntryHasTime /\ RowHasUser /\ HandlerHasKey)'
  BY <1>11 DEF SetCacheLost, dbVars, cacheVars
<1>12. ASSUME NEW r \in Requests, CheckQuota(r)
      PROVE  (EntryHasTime /\ RowHasUser /\ HandlerHasKey)'
  BY <1>12 DEF Verdicts, CheckQuota, Finish, dbVars, cacheVars
<1>13. ASSUME NEW k \in Keys, TouchKey(k)
      PROVE  (EntryHasTime /\ RowHasUser /\ HandlerHasKey)'
  BY <1>13 DEF TouchKey, dbVars, cacheVars, handlerVars
<1>14. CASE Tick
  BY <1>14, TimeAssumption DEF Tick, dbVars
<1>15. CASE UNCHANGED vars
  BY <1>15 DEF vars
<1>16. QED
  BY <1>1, <1>2, <1>3, <1>4, <1>5, <1>6, <1>7, <1>8, <1>9, <1>10, <1>11,
     <1>12, <1>13, <1>14, <1>15
     DEF Next, Validate

(* A step of the database alone keeps every bound, as long as it restarts *)
(* the clock of each key whose credentials it changes.                      *)
LEMMA ChangeResetsClock ==
    ASSUME IInv, UNCHANGED cacheVars, UNCHANGED handlerVars,
           \A x \in Keys : \/ View(x)' = View(x) /\ since'[x] = since[x]
                           \/ since'[x] = 0
    PROVE  BoundedStaleness'
<1> USE DEF IInv, TypeOK, cacheVars, handlerVars
<1>1. FreshCache'
  BY TimeAssumption DEF BoundedStaleness, FreshCache
<1>2. FreshFill'
  BY DEF BoundedStaleness, FreshFill, HandlerHasKey, Active
<1>3. FreshVerdict'
  <2> SUFFICES ASSUME NEW r \in Requests, pc[r] = "quota", seen[r] # View(key[r])'
               PROVE  since'[key[r]] < TTL + MaxLag + held[r]
    BY DEF FreshVerdict
  <2>1. key[r] \in Keys
    BY DEF HandlerHasKey, Active
  <2>2. CASE since'[key[r]] = 0
    <3>1. held[r] \in Nat
      OBVIOUS
    <3> QED
      BY <2>2, <3>1, TimeAssumption
  <2>3. CASE View(key[r])' = View(key[r]) /\ since'[key[r]] = since[key[r]]
    BY <2>3 DEF BoundedStaleness, FreshVerdict
  <2> QED
    BY <2>1, <2>2, <2>3
<1> HIDE DEF IInv, TypeOK, cacheVars, handlerVars
<1>4. QED
  BY <1>1, <1>2, <1>3 DEF BoundedStaleness

(* Ages: only the database makes credentials stale, and it resets the clock *)
(* of the key; only a tick moves a clock, and it ages every reader with it. *)
LEMMA FreshStep == IInv /\ [Next]_vars => BoundedStaleness'
<1> SUFFICES ASSUME IInv, [Next]_vars PROVE BoundedStaleness'
  OBVIOUS
<1> USE DEF IInv, TypeOK, EntryHasTime, RowHasUser, HandlerHasKey, Holding, Active,
            BoundedStaleness, FreshCache, FreshFill, FreshVerdict, View
<1>1. ASSUME NEW u \in Users, SignIn(u)
      PROVE  BoundedStaleness'
  <2>1. \A x \in Keys : View(x)' = View(x) /\ since'[x] = since[x]
    BY <1>1, ResolveUserType, NoneAssumption DEF SignIn, RowHasUser, TypeOK, View
  <2>2. QED
    BY <1>1, <2>1, ChangeResetsClock DEF SignIn
<1>2. ASSUME NEW u \in Users, NEW k \in Keys, CreateAPIKey(u, k)
      PROVE  BoundedStaleness'
  <2>1. \A x \in Keys : \/ View(x)' = View(x) /\ since'[x] = since[x]
                       \/ since'[x] = 0
    BY <1>2, ResolveUserType, NoneAssumption
       DEF CreateAPIKey, RowHasUser, TypeOK, View
  <2>2. QED
    BY <1>2, <2>1, ChangeResetsClock DEF CreateAPIKey
<1>3. ASSUME NEW u \in Users, NEW k \in Keys, RevokeAPIKey(u, k)
      PROVE  BoundedStaleness'
  <2>1. \A x \in Keys : x \in rows => plan'[owner[x]] = plan[owner[x]]
    BY <1>3, ResolveUserType, NoneAssumption DEF RevokeAPIKey, RowHasUser, TypeOK
  <2>2. \A x \in Keys : \/ View(x)' = View(x) /\ since'[x] = since[x]
                       \/ since'[x] = 0
    <3>1. CASE k \in rows /\ owner[k] = u
      BY <1>3, <2>1, <3>1 DEF RevokeAPIKey, TypeOK, View
    <3>2. CASE ~(k \in rows /\ owner[k] = u)
      BY <1>3, <2>1, <3>2 DEF RevokeAPIKey, TypeOK, View
    <3>3. QED BY <3>1, <3>2, Zenon
  <2>3. QED
    BY <1>3, <2>2, ChangeResetsClock DEF RevokeAPIKey
<1>4. ASSUME NEW u \in Users, NEW p \in Plans, UpdateUserPlan(u, p)
      PROVE  BoundedStaleness'
  <2>1. \A x \in Keys : \/ View(x)' = View(x) /\ since'[x] = since[x]
                       \/ since'[x] = 0
    BY <1>4 DEF UpdateUserPlan, RowHasUser, TypeOK, View
  <2>2. QED
    BY <1>4, <2>1, ChangeResetsClock DEF UpdateUserPlan
<1>5. ASSUME NEW r \in Requests, NEW t \in Keys \cup BadTokens, Present(r, t)
      PROVE  BoundedStaleness'
  BY <1>5, TimeAssumption DEF Present, dbVars, cacheVars
<1>6. ASSUME NEW r \in Requests, CacheHit(r)
      PROVE  BoundedStaleness'
  BY <1>6, TimeAssumption DEF CacheHit, dbVars, cacheVars
<1>7. ASSUME NEW r \in Requests, CacheMiss(r)
      PROVE  BoundedStaleness'
  BY <1>7, TimeAssumption DEF CacheMiss, dbVars, cacheVars
<1>8. ASSUME NEW r \in Requests, QueryFound(r)
      PROVE  BoundedStaleness'
  BY <1>8, TimeAssumption DEF QueryFound, dbVars, cacheVars
<1>9. ASSUME NEW r \in Requests, QueryFailed(r)
      PROVE  BoundedStaleness'
  BY <1>9, TimeAssumption
     DEF Verdicts, QueryFailed, Finish, dbVars, cacheVars
<1>10. ASSUME NEW r \in Requests, SetCache(r)
      PROVE  BoundedStaleness'
  BY <1>10, TimeAssumption DEF SetCache, dbVars
<1>11. ASSUME NEW r \in Requests, SetCacheLost(r)
      PROVE  BoundedStaleness'
  BY <1>11, TimeAssumption DEF SetCacheLost, dbVars, cacheVars
<1>12. ASSUME NEW r \in Requests, CheckQuota(r)
      PROVE  BoundedStaleness'
  BY <1>12, TimeAssumption
     DEF Verdicts, CheckQuota, Finish, dbVars, cacheVars
<1>13. ASSUME NEW k \in Keys, TouchKey(k)
      PROVE  BoundedStaleness'
  BY <1>13, TimeAssumption DEF TouchKey, dbVars, cacheVars, handlerVars
<1>14. CASE Tick
  BY <1>14, TimeAssumption DEF Window, Tick, dbVars
<1>15. CASE UNCHANGED vars
  BY <1>15 DEF vars
<1> HIDE DEF IInv, BoundedStaleness
<1>16. QED
  BY <1>1, <1>2, <1>3, <1>4, <1>5, <1>6, <1>7, <1>8, <1>9, <1>10, <1>11,
     <1>12, <1>13, <1>14, <1>15
     DEF Next, Validate

(* Credentials only ever come from the owner's row, and an owner is for good. *)
LEMMA AttributionStep == IInv /\ [Next]_vars => Attribution'
<1> SUFFICES ASSUME IInv, [Next]_vars PROVE Attribution'
  OBVIOUS
<1> USE DEF IInv, TypeOK, Attribution, HandlerHasKey, Active, Holding
<1>1. ASSUME NEW u \in Users, SignIn(u)
      PROVE  Attribution'
  BY <1>1 DEF SignIn, cacheVars, handlerVars
<1>2. ASSUME NEW u \in Users, NEW k \in Keys, CreateAPIKey(u, k)
      PROVE  Attribution'
  BY <1>2, NoneAssumption
     DEF Credentials, EntryHasTime, CreateAPIKey, cacheVars, handlerVars
<1>3. ASSUME NEW u \in Users, NEW k \in Keys, RevokeAPIKey(u, k)
      PROVE  Attribution'
  BY <1>3 DEF RevokeAPIKey, cacheVars, handlerVars
<1>4. ASSUME NEW u \in Users, NEW p \in Plans, UpdateUserPlan(u, p)
      PROVE  Attribution'
  BY <1>4 DEF UpdateUserPlan, cacheVars, handlerVars
<1>5. ASSUME NEW r \in Requests, NEW t \in Keys \cup BadTokens, Present(r, t)
      PROVE  Attribution'
  BY <1>5 DEF Present, dbVars, cacheVars
<1>6. ASSUME NEW r \in Requests, CacheHit(r)
      PROVE  Attribution'
  BY <1>6 DEF CacheHit, dbVars, cacheVars
<1>7. ASSUME NEW r \in Requests, CacheMiss(r)
      PROVE  Attribution'
  BY <1>7 DEF CacheMiss, dbVars, cacheVars
<1>8. ASSUME NEW r \in Requests, QueryFound(r)
      PROVE  Attribution'
  BY <1>8, ViewType, NoneAssumption
     DEF RowHasUser, View, QueryFound, dbVars, cacheVars
<1>9. ASSUME NEW r \in Requests, QueryFailed(r)
      PROVE  Attribution'
  BY <1>9 DEF Verdicts, QueryFailed, Finish, dbVars, cacheVars
<1>10. ASSUME NEW r \in Requests, SetCache(r)
      PROVE  Attribution'
  BY <1>10 DEF SetCache, dbVars
<1>11. ASSUME NEW r \in Requests, SetCacheLost(r)
      PROVE  Attribution'
  BY <1>11 DEF SetCacheLost, dbVars, cacheVars
<1>12. ASSUME NEW r \in Requests, CheckQuota(r)
      PROVE  Attribution'
  BY <1>12 DEF Verdicts, CheckQuota, Finish, dbVars, cacheVars
<1>13. ASSUME NEW k \in Keys, TouchKey(k)
      PROVE  Attribution'
  BY <1>13 DEF TouchKey, dbVars, cacheVars, handlerVars
<1>14. CASE Tick
  BY <1>14 DEF Tick, dbVars
<1>15. CASE UNCHANGED vars
  BY <1>15 DEF vars
<1>16. QED
  BY <1>1, <1>2, <1>3, <1>4, <1>5, <1>6, <1>7, <1>8, <1>9, <1>10, <1>11,
     <1>12, <1>13, <1>14, <1>15
     DEF Next, Validate

(* The invariant holds of the initial state and every step keeps it. *)
LEMMA Invariance == Spec => []IInv
<1>1. Init => IInv
  <2> SUFFICES ASSUME Init PROVE IInv
    OBVIOUS
  <2>1. TypeOK
    BY TimeAssumption DEF Init, TypeOK, Window
  <2>2. EntryHasTime /\ RowHasUser /\ HandlerHasKey
    BY DEF Init, EntryHasTime, RowHasUser, HandlerHasKey, Active, Holding
  <2>3. BoundedStaleness /\ Attribution
    BY DEF Init, BoundedStaleness, FreshCache, FreshFill, FreshVerdict, Attribution
  <2>4. QED
    BY <2>1, <2>2, <2>3 DEF IInv
<1>2. IInv /\ [Next]_vars => IInv'
  BY TypeStep, StructureStep, FreshStep, AttributionStep DEF IInv
<1>3. QED
  BY <1>1, <1>2, PTL DEF Spec

-----------------------------------------------------------------------------
(* The types hold in every state. *)
THEOREM TypeCorrect == Spec => []TypeOK
<1>1. Spec => []IInv
  BY Invariance
<1>2. QED
  BY <1>1, PTL DEF IInv

(* BoundedStaleness: whatever the accounts do, credentials that PostgreSQL  *)
(* no longer answers are used for a bounded time only.                      *)
THEOREM StalenessBound == Spec => []BoundedStaleness
<1>1. Spec => []IInv
  BY Invariance
<1>2. QED
  BY <1>1, PTL DEF IInv

(* Attribution: a key only ever speaks for the account it was issued to. *)
THEOREM AttributionCorrect == Spec => []Attribution
<1>1. Spec => []IInv
  BY Invariance
<1>2. QED
  BY <1>1, PTL DEF IInv

(* AcceptedRecently: what the bound means for the request being accepted. *)
THEOREM AcceptanceWindow == Spec => AcceptedRecently
<1>1. IInv /\ [Next]_vars =>
        [\A r \in Requests : pc[r] = "quota" /\ pc'[r] = "accepted" =>
            \/ seen[r] = View(key[r])
            \/ since[key[r]] <= Window]_vars
  BY TimeAssumption
     DEF IInv, TypeOK, BoundedStaleness, FreshVerdict, HandlerHasKey, Active, Window
<1>2. Spec => []IInv
  BY Invariance
<1>3. QED
  BY <1>1, <1>2, PTL DEF Spec, AcceptedRecently

(* NoResurrection: no step undoes a revocation. *)
THEOREM RevocationFinal == Spec => NoResurrection
<1>1. ASSUME IInv, [Next]_vars, NEW k \in Keys, Revoked(k)
      PROVE  Revoked(k)'
  BY <1>1 DEF IInv, TypeOK, Next, Validate, Revoked, SignIn, CreateAPIKey, RevokeAPIKey,
        UpdateUserPlan, Present, CacheHit, CacheMiss, QueryFound, QueryFailed,
        SetCache, SetCacheLost, CheckQuota, TouchKey, Tick, dbVars, vars
<1>2. IInv /\ [Next]_vars => [\A k \in Keys : Revoked(k) => Revoked(k)']_vars
  BY <1>1
<1>3. Spec => []IInv
  BY Invariance
<1>4. QED
  BY <1>2, <1>3, PTL DEF Spec, NoResurrection

-----------------------------------------------------------------------------
(* A step with counters is a step of the validation, or none. *)
LEMMA StepOfKeyAuth == [AdmissionNext]_admissionVars => [Next]_vars
BY DEF AdmissionNext, admissionVars, Stepped, Spend, StartOver

(* The validation with counters implements the validation. *)
THEOREM AdmissionImplementsKeyAuth == AdmissionSpec => Spec
<1>1. AdmissionInit => Init
  BY DEF AdmissionInit
<1> QED
  BY <1>1, StepOfKeyAuth, PTL DEF AdmissionSpec, Spec

LEMMA CountersStep ==
    budget \in Budgets /\ usage \in [Users -> Nat] /\ [AdmissionNext]_admissionVars
    => (budget \in Budgets /\ usage \in [Users -> Nat])'
<1> SUFFICES ASSUME budget \in Budgets, usage \in [Users -> Nat], [AdmissionNext]_admissionVars
             PROVE  budget' \in Budgets /\ usage' \in [Users -> Nat]
  OBVIOUS
<1>1. CASE Waits \/ UNCHANGED admissionVars
  BY <1>1 DEF Waits, admissionVars
<1>2. ASSUME NEW u \in Users, Spend(u)
      PROVE  budget' \in Budgets /\ usage' \in [Users -> Nat]
  <2>1. budget.levels \subseteq Nat
    BY BudgetsAssumption
  <2> QED
    BY <1>2, <2>1 DEF Spend
<1>3. ASSUME NEW u \in Users, StartOver(u)
      PROVE  budget' \in Budgets /\ usage' \in [Users -> Nat]
  BY <1>3 DEF StartOver
<1> QED
  BY <1>1, <1>2, <1>3 DEF AdmissionNext, Stepped

LEMMA AdmissionInvariant == AdmissionSpec => [](IInv /\ AdmissionTypeOK)
<1> DEFINE CountersOK == budget \in Budgets /\ usage \in [Users -> Nat]
<1>1. AdmissionInit => CountersOK
  BY DEF AdmissionInit
<1>2. CountersOK /\ [AdmissionNext]_admissionVars => CountersOK'
  BY CountersStep
<1>3. IInv /\ CountersOK => AdmissionTypeOK
  BY DEF IInv, AdmissionTypeOK
<1> HIDE DEF CountersOK
<1> QED
  BY <1>1, <1>2, <1>3, AdmissionImplementsKeyAuth, Invariance, PTL DEF AdmissionSpec

(* The types of the validation and of the counters. *)
THEOREM AdmissionTypes == AdmissionSpec => []AdmissionTypeOK
BY AdmissionInvariant, PTL

-----------------------------------------------------------------------------
(* The quotas of a plan are the same wherever they are written down. *)
LEMMA SameQuotas ==
    /\ \A p : PlanQuota(p) = planQuota(p)
    /\ \A p \in DOMAIN TokenQuota : TokenQuota[p] = planQuota(p)
BY DEF PlanQuota, planQuota, TokenQuota

(* At the last check, credentials outside the window are the database's. *)
LEMMA CurrentCredentials ==
    ASSUME IInv, NEW r \in Requests, pc[r] = "quota", ~(since[key[r]] <= Window)
    PROVE  seen[r].user \in Users /\ seen[r].plan = plan[seen[r].user]
<1>1. key[r] \in Keys /\ seen[r] # None
  BY DEF IInv, HandlerHasKey, Active, Holding
<1>2. seen[r] = View(key[r])
  BY <1>1, TimeAssumption DEF IInv, TypeOK, BoundedStaleness, FreshVerdict, Window
<1>3. key[r] \in rows /\ seen[r] = [user |-> owner[key[r]], plan |-> plan[owner[key[r]]]]
  BY <1>1, <1>2 DEF View
<1> QED
  BY <1>3 DEF IInv, RowHasUser

(* A verdict agrees with the usage page, and that with the plan page, but  *)
(* within the window of stale credentials.                                 *)
THEOREM VerdictIsRight == AdmissionSpec => VerdictMatchesPages
<1>1. ASSUME IInv, [AdmissionNext]_admissionVars, NEW r \in Requests, pc[r] = "quota",
             pc'[r] \in {"accepted", "quotaExceeded"}, ~(since[key[r]] <= Window)
      PROVE  PagesSay(seen[r].user, pc'[r] = "quotaExceeded")
  <2> DEFINE u == seen[r].user
  <2>1. seen[r].plan = plan[u]
    BY <1>1, CurrentCredentials
  <2>2. Decided(r)
    BY <1>1 DEF AdmissionNext, admissionVars, vars, Stepped, Spend, StartOver
  <2>3. pc'[r] = "quotaExceeded" <=> Exceeded(GetUsage(seen[r]))
    BY <1>1, <2>2 DEF Decided, QuotaAnswers
  <2>4. GetUsage(seen[r]) = GetCurrentUsage(u)
    BY <2>1, SameQuotas DEF GetUsage, GetCurrentUsage
  <2>5. HasPlanRow(u) => GetUserPlan(u).quota = GetCurrentUsage(u).quota
    BY SameQuotas DEF HasPlanRow, GetUserPlan, GetCurrentUsage
  <2>6. (pc'[r] = "quotaExceeded") = Exceeded(GetCurrentUsage(u))
    BY <2>3, <2>4 DEF Exceeded
  <2> QED
    BY <2>5, <2>6, Zenon DEF PagesSay
<1>2. IInv /\ [AdmissionNext]_admissionVars =>
        [\A r \in Requests : pc[r] = "quota" /\ pc'[r] \in {"accepted", "quotaExceeded"} =>
            \/ PagesSay(seen[r].user, pc'[r] = "quotaExceeded")
            \/ since[key[r]] <= Window]_admissionVars
  BY <1>1
<1>3. AdmissionSpec => []IInv
  BY AdmissionInvariant, PTL
<1> QED
  BY <1>2, <1>3, PTL DEF AdmissionSpec, VerdictMatchesPages
=============================================================================
