-------------------------- MODULE DeviceAuthProofs --------------------------
(***************************************************************************)
(* Proofs about DeviceAuth for any sessions, accounts, keys, approvals in  *)
(* flight, Life and MaxDelay.  The invariant adds to the properties that a *)
(* running approval owns the key it carries, that every pair that was      *)
(* stored is an owner with its key, and that a TTL was computed as none    *)
(* only after the deadline (which a session is given before its code can   *)
(* be found).                                                              *)
(***************************************************************************)
EXTENDS DeviceAuth, TLAPS

ApprovalOwnsKey ==
    \A a \in Approvals : pc[a] # "idle" =>
        /\ who[a] \in Users /\ dev[a] \in Devices /\ key[a] \in Keys
        /\ owner[key[a]] = who[a]
        /\ pc[a] \in {"read", "checked", "timed"} => copy[a] \in Session
        /\ pc[a] # "created" => cli[dev[a]] # "new"
        /\ pc[a] = "timed" /\ until[a] = 0 => left[dev[a]] = 0

PollHasSession ==
    \A d \in Devices :
        /\ cli[d] = "fetched" => polled[d] \in Session
        /\ cli[d] = "new" => codeTTL[d] = 0

IInv == TypeOK /\ ApprovalOwnsKey /\ PollHasSession /\ KeyOfApprover /\ ForeverIsExpired

-----------------------------------------------------------------------------
(* What an approval writes is a session with its own account and key. *)
LEMMA ApprovedType ==
    ASSUME TypeOK, ApprovalOwnsKey, NEW a \in Approvals, pc[a] = "timed"
    PROVE  /\ Approved(a) \in Session
           /\ Approved(a).user = who[a]
           /\ Approved(a).key = key[a]
           /\ dev[a] \in Devices /\ who[a] \in Users /\ key[a] \in Keys
           /\ owner[key[a]] = who[a]
  BY DEF TypeOK, ApprovalOwnsKey, Approved, Session

(* An approval that ends lets go of all it held. *)
LEMMA AnswerKeeps ==
    ASSUME TypeOK, ApprovalOwnsKey, PollHasSession, NEW a \in Approvals, Answer(a),
           UNCHANGED <<owner, sessionVars, cliVars, stored>>
    PROVE  (TypeOK /\ ApprovalOwnsKey /\ PollHasSession)'
<1> USE DEF Answer, sessionVars, cliVars
<1>1. TypeOK'
  BY LifeAssumption DEF TypeOK
<1>2. ApprovalOwnsKey'
  BY DEF TypeOK, ApprovalOwnsKey
<1>3. PollHasSession'
  BY DEF PollHasSession
<1> QED
  BY <1>1, <1>2, <1>3

(* One that goes on keeps it, and has a copy of a session if it says so. *)
LEMMA AdvanceKeeps ==
    ASSUME TypeOK, ApprovalOwnsKey, PollHasSession, NEW a \in Approvals, pc[a] # "idle",
           NEW next \in {"found", "read", "checked"}, pc' = [pc EXCEPT ![a] = next],
           copy' \in [Approvals -> Session \cup {None}], \A b \in Approvals : b # a => copy'[b] = copy[b],
           next # "found" => copy'[a] \in Session, cli[dev[a]] # "new",
           UNCHANGED <<who, dev, key, until, owner, sessionVars, cliVars, stored>>
    PROVE  (TypeOK /\ ApprovalOwnsKey /\ PollHasSession)'
<1> USE DEF sessionVars, cliVars
<1>1. TypeOK'
  BY DEF TypeOK
<1>2. ApprovalOwnsKey'
  BY DEF TypeOK, ApprovalOwnsKey
<1>3. PollHasSession'
  BY DEF PollHasSession
<1> QED
  BY <1>1, <1>2, <1>3

(* A timer that stops at 0 stays in its range. *)
LEMMA Countdown ==
    ASSUME NEW n \in Nat, NEW S, NEW f \in [S -> 0 .. n]
    PROVE  [x \in S |-> IF f[x] = 0 THEN 0 ELSE f[x] - 1] \in [S -> 0 .. n]
  OBVIOUS

(* So does one that also stops at its top. *)
LEMMA CountdownUnless ==
    ASSUME NEW n \in Nat, NEW S, NEW f \in [S -> 0 .. n]
    PROVE  [x \in S |-> IF f[x] \in {0, n} THEN f[x] ELSE f[x] - 1] \in [S -> 0 .. n]
  OBVIOUS

(* Types, and what approvals and polls hold. *)
LEMMA TypeStep == IInv /\ [Next]_vars => (TypeOK /\ ApprovalOwnsKey /\ PollHasSession)'
<1> SUFFICES ASSUME IInv, [Next]_vars
             PROVE  (TypeOK /\ ApprovalOwnsKey /\ PollHasSession)'
  OBVIOUS
<1> DEFINE Good == TypeOK /\ ApprovalOwnsKey /\ PollHasSession
<1> USE NoneAssumption, LifeAssumption DEF IInv, TypeOK, ApprovalOwnsKey, PollHasSession
<1>1. ASSUME NEW d \in Devices, Create(d) PROVE Good'
  <2> USE DEF Create
  <2>1. PICK delay \in 0 .. MaxDelay : left' = [left EXCEPT ![d] = Life - delay]
    BY <1>1
  <2>2. left' \in [Devices -> 0 .. Life]
    <3>1. Life - delay \in 0 .. Life
      OBVIOUS
    <3>2. QED
      BY <2>1, <3>1
  <2>3. PICK session, code \in BOOLEAN :
          /\ sess' = [sess EXCEPT ![d] = IF session THEN Fresh ELSE None]
          /\ ttl' = [ttl EXCEPT ![d] = IF session THEN Life ELSE 0]
          /\ codeTTL' = [codeTTL EXCEPT ![d] = IF code THEN Life ELSE 0]
          /\ cli' = [cli EXCEPT ![d] = IF session /\ code THEN "waiting" ELSE "failed"]
    BY <1>1
  <2>4. Fresh \in Session /\ Fresh # None
    BY DEF Fresh, Session
  <2>5. /\ sess' \in [Devices -> Session \cup {None}]
        /\ ttl' \in [Devices -> 0 .. Forever]
        /\ codeTTL' \in [Devices -> 0 .. Life]
        /\ \A e \in Devices : sess'[e] = None <=> ttl'[e] = 0
    BY <2>3, <2>4 DEF Forever
  <2>6. /\ cli' \in [Devices -> {"new", "failed", "waiting", "fetched", "authorized", "expired"}]
        /\ \A e \in Devices : cli'[e] = "fetched" => cli[e] = "fetched"
        /\ \A e \in Devices : e # d => cli'[e] = cli[e]
        /\ cli[d] = "new" /\ cli'[d] # "new"
    BY <1>1, <2>3
  <2>7. ApprovalOwnsKey'
    <3>1. \A e \in Devices : e # d => left'[e] = left[e]
      BY <2>1
    <3> QED
      BY <1>1, <2>6, <3>1 DEF approvalVars
  <2>8. PollHasSession'
    <3>1. \A e \in Devices : e # d => codeTTL'[e] = codeTTL[e]
      BY <2>3
    <3> QED
      BY <1>1, <2>6, <3>1
  <2>9. QED
    BY <1>1, <2>2, <2>5, <2>6, <2>7, <2>8 DEF approvalVars
<1>2. ASSUME NEW d \in Devices, PollFetch(d) PROVE Good'
  BY <1>2 DEF PollFetch, sessionVars, approvalVars
<1>3. ASSUME NEW d \in Devices, PollAnswer(d) PROVE Good'
  BY <1>3 DEF PollAnswer, sessionVars, approvalVars
<1>4. ASSUME NEW a \in Approvals, NEW u \in Users, NEW d \in Devices, NEW k \in Keys,
             CreateKey(a, u, d, k)
      PROVE  Good'
  BY <1>4 DEF CreateKey, sessionVars, cliVars
<1>5. ASSUME NEW a \in Approvals, FindCode(a) PROVE Good'
  <2>1. CASE Answer(a)
    BY <1>5, <2>1, AnswerKeeps DEF FindCode
  <2>2. CASE codeTTL[dev[a]] > 0
    BY <1>5, <2>2, AdvanceKeeps DEF FindCode
  <2> QED
    BY <1>5, <2>1, <2>2 DEF FindCode
<1>6. ASSUME NEW a \in Approvals, ReadSession(a) PROVE Good'
  <2>1. CASE Answer(a)
    BY <1>6, <2>1, AnswerKeeps DEF ReadSession
  <2>2. CASE sess[dev[a]] # None
    <3>1. sess[dev[a]] \in Session
      BY <1>6, <2>2 DEF ReadSession
    <3>2. /\ copy' \in [Approvals -> Session \cup {None}] /\ copy'[a] \in Session
          /\ \A b \in Approvals : b # a => copy'[b] = copy[b]
      BY <1>6, <2>2, <3>1 DEF ReadSession
    <3>3. /\ pc[a] # "idle" /\ pc' = [pc EXCEPT ![a] = "read"] /\ cli[dev[a]] # "new"
          /\ UNCHANGED <<who, dev, key, until, owner, sessionVars, cliVars, stored>>
      BY <1>6, <2>2 DEF ReadSession
    <3> HIDE DEF IInv, TypeOK, ApprovalOwnsKey, PollHasSession
    <3>4. TypeOK /\ ApprovalOwnsKey /\ PollHasSession
      BY DEF IInv
    <3> QED
      BY <3>2, <3>3, <3>4, AdvanceKeeps
  <2> QED
    BY <1>6, <2>1, <2>2 DEF ReadSession
<1>7. ASSUME NEW a \in Approvals, CheckDeadline(a) PROVE Good'
  <2>1. CASE Answer(a)
    BY <1>7, <2>1, AnswerKeeps DEF CheckDeadline
  <2>2. CASE left[dev[a]] > 0
    BY <1>7, <2>2, AdvanceKeeps DEF CheckDeadline
  <2> QED
    BY <1>7, <2>1, <2>2 DEF CheckDeadline
<1>8. ASSUME NEW a \in Approvals, StoreSession(a) PROVE Good'
  <2> USE DEF StoreSession, Put
  <2>1. /\ Approved(a) \in Session
        /\ dev[a] \in Devices /\ who[a] \in Users /\ key[a] \in Keys
    BY <1>8, ApprovedType
  <2>2. Approved(a) # None
    BY <2>1 DEF Session
  <2>3. Lifetime(until[a]) \in 0 .. Forever /\ Lifetime(until[a]) # 0
    BY DEF Lifetime, Forever
  <2>4. /\ sess' \in [Devices -> Session \cup {None}]
        /\ ttl' \in [Devices -> 0 .. Forever]
        /\ \A e \in Devices : sess'[e] = None <=> ttl'[e] = 0
    BY <1>8, <2>1, <2>2, <2>3
  <2>5. stored' \in [Devices -> SUBSET [user : Users, key : Keys]]
    <3>1. [user |-> who[a], key |-> key[a]] \in [user : Users, key : Keys]
      BY <2>1
    <3>2. QED
      BY <1>8, <2>1, <3>1
  <2>6. CASE Answer(a)
    BY <1>8, <2>4, <2>5, <2>6 DEF Answer, cliVars
  <2>7. CASE UNCHANGED approvalVars
    BY <1>8, <2>4, <2>5, <2>7 DEF approvalVars, cliVars
  <2>8. QED
    BY <1>8, <2>6, <2>7
<1>9. ASSUME NEW a \in Approvals, Abandon(a) PROVE Good'
  BY <1>9, AnswerKeeps DEF Abandon
<1>10. CASE Tick
  <2>1. /\ left' \in [Devices -> 0 .. Life]
        /\ codeTTL' \in [Devices -> 0 .. Life]
    BY <1>10, Countdown DEF Tick
  <2>2. ttl' \in [Devices -> 0 .. Forever]
    <3>1. ttl' = [d \in Devices |-> IF ttl[d] \in {0, Forever} THEN ttl[d] ELSE ttl[d] - 1]
      BY <1>10, Zenon DEF Tick
    <3>2. ttl \in [Devices -> 0 .. Forever]
      OBVIOUS
    <3>3. Forever \in Nat
      BY DEF Forever
    <3> HIDE DEF IInv, TypeOK, ApprovalOwnsKey, PollHasSession
    <3> QED
      BY <3>1, <3>2, <3>3, CountdownUnless, SMT
  <2>3. \A d \in Devices : ttl'[d] = 0 <=> ttl[d] \in {0, 1}
    BY <1>10 DEF Tick, Forever
  <2>4. sess' \in [Devices -> Session \cup {None}]
    BY <1>10 DEF Tick
  <2>5. \A d \in Devices : sess'[d] = None <=> ttl[d] = 1 \/ sess[d] = None
    BY <1>10 DEF Tick
  <2>6. \A a \in Approvals : pc[a] # "idle" /\ left[dev[a]] = 0 => left'[dev[a]] = 0
    BY <1>10 DEF Tick
  <2>7. QED
    BY <1>10, <2>1, <2>2, <2>3, <2>4, <2>5, <2>6 DEF Tick, cliVars, approvalVars
<1>11. CASE UNCHANGED vars
  BY <1>11 DEF vars
<1>12. ASSUME NEW a \in Approvals, ComputeTTL(a) PROVE Good'
  BY <1>12 DEF ComputeTTL, sessionVars, cliVars
<1>13. QED
  BY <1>1, <1>2, <1>3, <1>4, <1>5, <1>6, <1>7, <1>8, <1>9, <1>10, <1>11, <1>12
     DEF Next, Poll, Approve

(* A session is only written by an approval, with the key it owns. *)
LEMMA KeyStep == IInv /\ [Next]_vars => KeyOfApprover'
<1> SUFFICES ASSUME IInv, [Next]_vars PROVE KeyOfApprover'
  OBVIOUS
<1> USE NoneAssumption DEF IInv, TypeOK, KeyOfApprover, Confirmed
<1>1. ASSUME NEW d \in Devices, Create(d) PROVE KeyOfApprover'
  BY <1>1 DEF Create, Fresh
<1>2. ASSUME NEW d \in Devices, PollFetch(d) PROVE KeyOfApprover'
  BY <1>2 DEF PollFetch, sessionVars
<1>3. ASSUME NEW d \in Devices, PollAnswer(d) PROVE KeyOfApprover'
  BY <1>3 DEF PollAnswer, sessionVars
<1>4. ASSUME NEW a \in Approvals, NEW u \in Users, NEW d \in Devices, NEW k \in Keys,
             CreateKey(a, u, d, k)
      PROVE  KeyOfApprover'
  BY <1>4 DEF CreateKey, sessionVars, cliVars, Session
<1>5. ASSUME NEW a \in Approvals, FindCode(a) \/ ReadSession(a) \/ CheckDeadline(a) \/ ComputeTTL(a) \/ Abandon(a)
      PROVE  KeyOfApprover'
  BY <1>5 DEF FindCode, ReadSession, CheckDeadline, ComputeTTL, Abandon, sessionVars, cliVars
<1>6. ASSUME NEW a \in Approvals, StoreSession(a) PROVE KeyOfApprover'
  BY <1>6, ApprovedType DEF StoreSession, Put, cliVars
<1>7. CASE Tick
  BY <1>7 DEF Tick, cliVars
<1>8. CASE UNCHANGED vars
  BY <1>8 DEF vars
<1>9. QED
  BY <1>1, <1>2, <1>3, <1>4, <1>5, <1>6, <1>7, <1>8 DEF Next, Poll, Approve

(* Only a SET after the deadline stores a value without a TTL. *)
LEMMA ForeverStep == IInv /\ [Next]_vars => ForeverIsExpired'
<1> SUFFICES ASSUME IInv, [Next]_vars PROVE ForeverIsExpired'
  OBVIOUS
<1> USE LifeAssumption DEF IInv, TypeOK, ForeverIsExpired, Forever
<1>1. ASSUME NEW d \in Devices, Create(d) PROVE ForeverIsExpired'
  BY <1>1 DEF Create
<1>2. ASSUME NEW a \in Approvals, StoreSession(a) PROVE ForeverIsExpired'
  <2>1. dev[a] \in Devices /\ until[a] \in 0 .. Life /\ (until[a] = 0 => left[dev[a]] = 0)
    BY <1>2 DEF StoreSession, Put, ApprovalOwnsKey
  <2>2. left' = left /\ ttl' = [ttl EXCEPT ![dev[a]] = Lifetime(until[a])]
    BY <1>2 DEF StoreSession, Put
  <2>3. QED
    BY <2>1, <2>2 DEF Lifetime
<1>3. CASE Tick
  BY <1>3 DEF Tick
<1>4. CASE UNCHANGED sessionVars
  BY <1>4 DEF sessionVars
<1>5. QED
  BY <1>1, <1>2, <1>3, <1>4
     DEF Next, Poll, Approve, PollFetch, PollAnswer, CreateKey, FindCode, ReadSession,
         CheckDeadline, ComputeTTL, Abandon, vars, sessionVars

LEMMA Invariance == Spec => []IInv
<1>1. Init => IInv
  BY NoneAssumption, LifeAssumption
     DEF Init, IInv, TypeOK, ApprovalOwnsKey, PollHasSession, KeyOfApprover,
         ForeverIsExpired, Forever
<1>2. IInv /\ [Next]_vars => IInv'
  BY TypeStep, KeyStep, ForeverStep DEF IInv
<1>3. QED
  BY <1>1, <1>2, PTL DEF Spec

-----------------------------------------------------------------------------
(* The types hold in every state. *)
THEOREM TypeCorrect == Spec => []TypeOK
<1>1. Spec => []IInv
  BY Invariance
<1>2. QED
  BY <1>1, PTL DEF IInv

(* KeyOfApprover: whatever approvals overlap, a CLI is only ever given a key *)
(* of an account that approved its code.                                     *)
THEOREM DeliveredKeyOwner == Spec => []KeyOfApprover
<1>1. Spec => []IInv
  BY Invariance
<1>2. QED
  BY <1>1, PTL DEF IInv

(* ForeverIsExpired: the race of a confirmation with the deadline leaves     *)
(* nothing behind but an expired session.                                    *)
THEOREM ImmortalSessionsExpired == Spec => []ForeverIsExpired
<1>1. Spec => []IInv
  BY Invariance
<1>2. QED
  BY <1>1, PTL DEF IInv

(* NoLateAuthorization: no key leaves through a session that has expired. *)
THEOREM AuthorizedInTime == Spec => NoLateAuthorization
<1> DEFINE InTime == \A d \in Devices :
                        cli[d] # "authorized" /\ cli'[d] = "authorized" => left[d] > 0
<1>1. IInv /\ [Next]_vars => [InTime]_vars
  <2> SUFFICES ASSUME IInv, [Next]_vars PROVE [InTime]_vars
    OBVIOUS
  <2> USE DEF IInv, TypeOK
  <2>1. ASSUME NEW d \in Devices, Create(d) \/ PollFetch(d) \/ PollAnswer(d) PROVE InTime
    BY <2>1 DEF Create, PollFetch, PollAnswer
  <2>2. CASE UNCHANGED cli
    BY <2>2
  <2>3. QED
    BY <2>1, <2>2
       DEF Next, Poll, Approve, CreateKey, FindCode, ReadSession, CheckDeadline,
           ComputeTTL, StoreSession, Put, Abandon, Tick, vars, cliVars
<1>2. Spec => []IInv
  BY Invariance
<1>3. QED
  BY <1>1, <1>2, PTL DEF Spec, NoLateAuthorization
=============================================================================
