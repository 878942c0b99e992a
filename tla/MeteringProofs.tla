--------------------------- MODULE MeteringProofs ---------------------------
(***************************************************************************)
(* Proofs about Metering for any accounts, quotas, number of slots, largest *)
(* completion and set of faults.  OvershootBound and ExpiryPending are     *)
(* inductive once the types are known: the first trades a slot's possible  *)
(* tokens (MaxTokens each, counted by Outstanding) for the tokens it adds  *)
(* and a repeated increment for one completion more, the second follows    *)
(* the one slot that created the counter.                                  *)
(***************************************************************************)
EXTENDS Metering, FiniteSetTheorems, TLAPS

IInv == TypeOK /\ OvershootBound /\ ExpiryPending

(* What the quota of an account may be overshot by. *)
Margin(u) == MaxTokens * (Cardinality(Slots) + repeats[u])

-----------------------------------------------------------------------------
(* What the slots of one account can still add, as a number. *)
LEMMA OutstandingBounded ==
    ASSUME NEW u
    PROVE  /\ IsFiniteSet(Outstanding(u))
           /\ Cardinality(Outstanding(u)) \in Nat
           /\ Cardinality(Slots) \in Nat
           /\ Cardinality(Outstanding(u)) <= Cardinality(Slots)
<1>1. Outstanding(u) \subseteq Slots
  BY DEF Outstanding
<1>2. QED
  BY <1>1, SlotsAssumption, FS_Subset, FS_CardinalityType

LEMMA OutstandingBoundedNext ==
    ASSUME NEW u
    PROVE  /\ IsFiniteSet(Outstanding(u)')
           /\ Cardinality(Outstanding(u)') \in Nat
           /\ Cardinality(Outstanding(u)') <= Cardinality(Slots)
<1>1. Outstanding(u)' \subseteq Slots
  BY DEF Outstanding
<1>2. QED
  BY <1>1, SlotsAssumption, FS_Subset, FS_CardinalityType

(* Products with MaxTokens keep the order of their other factor. *)
LEMMA TimesMaxTokens ==
    ASSUME NEW m \in Nat, NEW n \in Nat, m <= n
    PROVE  /\ MaxTokens * m \in Nat
           /\ MaxTokens * m <= MaxTokens * n
           /\ MaxTokens * (m + 1) = MaxTokens * m + MaxTokens
  BY TokensAssumption, Z3

LEMMA MarginType ==
    ASSUME TypeOK, NEW u \in Users
    PROVE  /\ Margin(u) \in Nat
           /\ MaxTokens * Cardinality(Slots) \in Nat
           /\ MaxTokens * Cardinality(Slots) <= Margin(u)
<1>1. Cardinality(Slots) \in Nat
  BY SlotsAssumption, FS_CardinalityType
<1>2. repeats[u] \in Nat
  BY RepeatsAssumption DEF TypeOK
<1>3. Cardinality(Slots) + repeats[u] \in Nat /\ Cardinality(Slots) <= Cardinality(Slots) + repeats[u]
  BY <1>1, <1>2
<1>4. QED
  BY <1>1, <1>3, TimesMaxTokens DEF Margin

(* The bound of one account survives a step that adds nothing to its        *)
(* counter and starts no request for it.                                    *)
LEMMA NothingStarted ==
    ASSUME TypeOK, OvershootBound, NEW u \in Users,
           usage'[u] \in Nat, usage'[u] <= usage[u], repeats'[u] = repeats[u],
           Outstanding(u)' \subseteq Outstanding(u)
    PROVE  usage'[u] + MaxTokens * Cardinality(Outstanding(u)') < Quota[u] + Margin(u)'
<1>1. /\ Cardinality(Outstanding(u)') \in Nat
      /\ Cardinality(Outstanding(u)') <= Cardinality(Outstanding(u))
  BY OutstandingBounded, FS_Subset, FS_CardinalityType
<1>2. /\ MaxTokens * Cardinality(Outstanding(u)') <= MaxTokens * Cardinality(Outstanding(u))
      /\ MaxTokens * Cardinality(Outstanding(u)') \in Nat
      /\ MaxTokens * Cardinality(Outstanding(u)) \in Nat
  BY <1>1, OutstandingBounded, TimesMaxTokens
<1>3. usage[u] + MaxTokens * Cardinality(Outstanding(u)) < Quota[u] + Margin(u)
  BY DEF OvershootBound, Margin
<1>4. Margin(u)' = Margin(u)
  BY DEF Margin
<1>5. QED
  BY <1>2, <1>3, <1>4, MarginType, QuotaAssumption DEF TypeOK

-----------------------------------------------------------------------------
(* Types are kept. *)
LEMMA TypeStep == TypeOK /\ [Next]_vars => TypeOK'
<1> SUFFICES ASSUME TypeOK, [Next]_vars PROVE TypeOK'
  OBVIOUS
<1> USE NoneAssumption, TokensAssumption, RepeatsAssumption DEF TypeOK, Steps, Goto
<1>1. ASSUME NEW s \in Slots, NEW u \in Users, NEW stream \in BOOLEAN, Admit(s, u, stream)
      PROVE  TypeOK'
  BY <1>1 DEF Admit, Admitting
<1>2. ASSUME NEW s \in Slots, Fail(s) PROVE TypeOK'
  BY <1>2 DEF Fail, Release
<1>3. ASSUME NEW s \in Slots, Complete(s) PROVE TypeOK'
  BY <1>3 DEF Complete
<1>4. ASSUME NEW s \in Slots, StreamEnd(s) \/ EmptyResponse(s) PROVE TypeOK'
  BY <1>4 DEF StreamEnd, EmptyResponse, SpendUnmetered
<1>5. ASSUME NEW s \in Slots, FinishUnmetered(s) PROVE TypeOK'
  BY <1>5 DEF FinishUnmetered, Release
<1>6. ASSUME NEW s \in Slots, Stamp(s) PROVE TypeOK'
  BY <1>6 DEF Stamp
<1>7. ASSUME NEW s \in Slots, IncrBy(s) PROVE TypeOK'
  BY <1>7 DEF IncrBy
<1>8. ASSUME NEW s \in Slots, ExpireAt(s) PROVE TypeOK'
  BY <1>8 DEF ExpireAt, Sent, SetDeadline, DropCounters, Release
<1>9. ASSUME NEW s \in Slots, PipelineLost(s) PROVE TypeOK'
  BY <1>9 DEF PipelineLost, Release
<1>10. ASSUME NEW s \in Slots, ExpireAtLost(s) PROVE TypeOK'
  BY <1>10 DEF ExpireAtLost, Sent, MissDeadline, Release
<1>11. CASE Crash
  <2>1. pc' \in [Slots -> Steps] /\ user' \in [Slots -> Users \cup {None}]
    BY <1>11 DEF Crash
  <2>2. tokens' \in [Slots -> 0 .. MaxTokens]
    <3>1. \A s \in Slots : (IF ~Sent(s) THEN 0 ELSE tokens[s]) \in 0 .. MaxTokens
      OBVIOUS
    <3>2. tokens' = [s \in Slots |-> IF ~Sent(s) THEN 0 ELSE tokens[s]]
      BY <1>11 DEF Crash
    <3>3. QED
      BY <3>1, <3>2
  <2>3. stale' \in [Slots -> BOOLEAN]
    <3>1. \A s \in Slots : (IF ~Sent(s) THEN FALSE ELSE stale[s]) \in BOOLEAN
      BY Zenon
    <3>2. stale' = [s \in Slots |-> IF ~Sent(s) THEN FALSE ELSE stale[s]]
      BY <1>11 DEF Crash
    <3>3. QED
      BY <3>1, <3>2, Zenon
  <2>4. \A s \in Slots : pc'[s] # "idle" => user'[s] \in Users
    BY <1>11 DEF Crash, Sent
  <2>5. QED
    BY <1>11, <2>1, <2>2, <2>3, <2>4 DEF Crash
<1>12. CASE NewMonth
  <2>1. \A s \in Slots : (pc[s] = "stamped" \/ Sent(s)) \in BOOLEAN
    BY Zenon
  <2>2. stale' = [s \in Slots |-> pc[s] = "stamped" \/ Sent(s)]
    BY <1>12 DEF NewMonth
  <2>3. stale' \in [Slots -> BOOLEAN]
    BY <2>1, <2>2, Zenon
  <2>4. QED
    BY <1>12, <2>3 DEF NewMonth, DropCounters
<1>13. CASE UNCHANGED vars
  BY <1>13 DEF vars
<1>14. ASSUME NEW s \in Slots, Resend(s) PROVE TypeOK'
  <2>1. repeats' \in [Users -> 0 .. MaxRepeats]
    BY <1>14 DEF Resend
  <2>2. CASE SetDeadline(s)
    BY <1>14, <2>1, <2>2 DEF Resend, SetDeadline, DropCounters
  <2>3. CASE MissDeadline(s)
    BY <1>14, <2>1, <2>3 DEF Resend, MissDeadline
  <2>4. QED
    BY <1>14, <2>2, <2>3 DEF Resend
<1>15. QED
  BY <1>1, <1>2, <1>3, <1>4, <1>5, <1>6, <1>7, <1>8, <1>9, <1>10, <1>11, <1>12, <1>13, <1>14
     DEF Next, Request, Serve, Fault

(* A step that is no admission, no increment and no repetition starts nothing. *)
LEMMA QuietSteps ==
    ASSUME TypeOK, [Next]_vars, NEW u \in Users,
           ~ \E s \in Slots : Request(s) \/ IncrBy(s) \/ Resend(s)
    PROVE  /\ usage'[u] \in Nat
           /\ usage'[u] <= usage[u]
           /\ repeats'[u] = repeats[u]
           /\ Outstanding(u)' \subseteq Outstanding(u)
<1> USE DEF TypeOK, Outstanding, Goto
<1> DEFINE Quiet == /\ usage'[u] \in Nat
                    /\ usage'[u] <= usage[u]
                    /\ repeats'[u] = repeats[u]
                    /\ Outstanding(u)' \subseteq Outstanding(u)
<1>1. ASSUME NEW s \in Slots, Fail(s) \/ Complete(s) \/ Stamp(s) PROVE Quiet
  BY <1>1 DEF Fail, Complete, Stamp, Release
<1>2. ASSUME NEW s \in Slots, StreamEnd(s) \/ EmptyResponse(s) \/ FinishUnmetered(s) PROVE Quiet
  BY <1>2 DEF StreamEnd, EmptyResponse, SpendUnmetered, FinishUnmetered, Release
<1>3. ASSUME NEW s \in Slots, ExpireAt(s) PROVE Quiet
  BY <1>3 DEF ExpireAt, SetDeadline, DropCounters, Release
<1>4. ASSUME NEW s \in Slots, PipelineLost(s) \/ ExpireAtLost(s) PROVE Quiet
  BY <1>4 DEF PipelineLost, ExpireAtLost, MissDeadline, Release
<1>5. CASE Crash
  BY <1>5 DEF Crash
<1>6. CASE NewMonth
  BY <1>6 DEF NewMonth, DropCounters
<1>7. CASE UNCHANGED vars
  BY <1>7 DEF vars
<1>8. QED
  BY <1>1, <1>2, <1>3, <1>4, <1>5, <1>6, <1>7 DEF Next, Serve, Fault

(* The overshoot: an admission needs room below the quota, an increment     *)
(* turns one outstanding request into at most MaxTokens, and a repetition   *)
(* makes its request outstanding again.                                     *)
LEMMA OvershootStep == TypeOK /\ OvershootBound /\ [Next]_vars => OvershootBound'
<1> SUFFICES ASSUME TypeOK, OvershootBound, [Next]_vars, NEW u \in Users
             PROVE  usage'[u] + MaxTokens * Cardinality(Outstanding(u)') < Quota[u] + Margin(u)'
  BY DEF OvershootBound, Margin
<1>a. usage[u] + MaxTokens * Cardinality(Outstanding(u)) < Quota[u] + Margin(u)
  BY DEF OvershootBound, Margin
<1>1. CASE \E s \in Slots : Request(s)
  <2>1. PICK s \in Slots, v \in Users, stream \in BOOLEAN : Admit(s, v, stream)
    BY <1>1 DEF Request
  <2>2. CASE v # u
    BY <2>1, <2>2, NothingStarted, NoneAssumption
       DEF Admit, Admitting, Goto, Outstanding, TypeOK
  <2>3. CASE v = u
    <3>1. usage'[u] \in Nat /\ usage'[u] < Quota[u]
      BY <2>1, <2>3, QuotaAssumption DEF Admit, Admitting, IsQuotaExceeded, GetUsage, TypeOK
    <3>2. /\ MaxTokens * Cardinality(Outstanding(u)') \in Nat
          /\ MaxTokens * Cardinality(Outstanding(u)') <= MaxTokens * Cardinality(Slots)
      BY OutstandingBounded, OutstandingBoundedNext, TimesMaxTokens
    <3>3. Margin(u)' = Margin(u)
      BY <2>1 DEF Admit, Admitting, Margin
    <3>4. QED
      BY <3>1, <3>2, <3>3, MarginType, QuotaAssumption
  <2>4. QED
    BY <2>2, <2>3
<1>2. CASE \E s \in Slots : IncrBy(s)
  <2>1. PICK s \in Slots : IncrBy(s)
    BY <1>2
  <2>2. CASE user[s] # u
    BY <2>1, <2>2, NothingStarted DEF IncrBy, Goto, Outstanding, TypeOK
  <2>3. CASE user[s] = u
    <3>1. s \in Outstanding(u) /\ Outstanding(u)' = Outstanding(u) \ {s}
      BY <2>1, <2>3 DEF IncrBy, Goto, Outstanding, TypeOK
    <3>2. Cardinality(Outstanding(u)) = Cardinality(Outstanding(u)') + 1
      <4>1. Cardinality(Outstanding(u) \ {s}) = Cardinality(Outstanding(u)) - 1
        BY <3>1, OutstandingBounded, FS_RemoveElement
      <4>2. QED
        BY <3>1, <4>1, OutstandingBounded
    <3>3. /\ MaxTokens * Cardinality(Outstanding(u))
               = MaxTokens * Cardinality(Outstanding(u)') + MaxTokens
          /\ MaxTokens * Cardinality(Outstanding(u)') \in Nat
      BY <3>2, OutstandingBoundedNext, TimesMaxTokens
    <3>4. usage'[u] = usage[u] + tokens[s] /\ tokens[s] \in 0 .. MaxTokens /\ usage[u] \in Nat
      BY <2>1, <2>3 DEF IncrBy, TypeOK
    <3>5. Margin(u)' = Margin(u)
      BY <2>1 DEF IncrBy, Margin
    <3>6. QED
      BY <1>a, <3>3, <3>4, <3>5, MarginType, QuotaAssumption, TokensAssumption
  <2>4. QED
    BY <2>2, <2>3
<1>3. CASE \E s \in Slots : Resend(s)
  <2>1. PICK s \in Slots : Resend(s)
    BY <1>3
  <2>2. usage'[u] \in Nat /\ usage'[u] <= usage[u] /\ usage[u] \in Nat
    BY <2>1 DEF Resend, SetDeadline, MissDeadline, DropCounters, TypeOK
  <2>3. CASE user[s] # u
    BY <2>1, <2>2, <2>3, NothingStarted DEF Resend, Goto, Outstanding, TypeOK
  <2>4. CASE user[s] = u
    <3>1. s \notin Outstanding(u) /\ Outstanding(u)' = Outstanding(u) \cup {s}
      BY <2>1, <2>4 DEF Resend, Goto, Outstanding, TypeOK
    <3>2. Cardinality(Outstanding(u)') = Cardinality(Outstanding(u)) + 1
      BY <3>1, OutstandingBounded, FS_AddElement
    <3>3. /\ MaxTokens * Cardinality(Outstanding(u)')
               = MaxTokens * Cardinality(Outstanding(u)) + MaxTokens
          /\ MaxTokens * Cardinality(Outstanding(u)) \in Nat
      BY <3>2, OutstandingBounded, TimesMaxTokens
    <3>4. Margin(u)' = Margin(u) + MaxTokens
      <4>1. repeats[u] \in Nat /\ repeats'[u] = repeats[u] + 1
        BY <2>1, <2>4, RepeatsAssumption DEF Resend, TypeOK
      <4>2. Cardinality(Slots) \in Nat
        BY OutstandingBounded
      <4>3. /\ Cardinality(Slots) + repeats[u] \in Nat
            /\ Cardinality(Slots) + repeats'[u] = (Cardinality(Slots) + repeats[u]) + 1
        BY <4>1, <4>2
      <4>4. QED
        BY <4>3, TimesMaxTokens DEF Margin
    <3>5. QED
      BY <1>a, <2>2, <3>3, <3>4, MarginType, QuotaAssumption, TokensAssumption
  <2>5. QED
    BY <2>3, <2>4
<1>4. CASE ~ \E s \in Slots : Request(s) \/ IncrBy(s) \/ Resend(s)
  BY <1>4, QuietSteps, NothingStarted
<1>5. QED
  BY <1>1, <1>2, <1>3, <1>4

(* A counter without a TTL keeps the slot that will set it, or is broken. *)
LEMMA ExpiryStep == TypeOK /\ ExpiryPending /\ [Next]_vars => ExpiryPending'
<1> SUFFICES ASSUME TypeOK, ExpiryPending, [Next]_vars PROVE ExpiryPending'
  OBVIOUS
<1> USE DEF TypeOK, ExpiryPending, Sent, Goto
<1>1. ASSUME NEW s \in Slots, NEW u \in Users, NEW stream \in BOOLEAN, Admit(s, u, stream)
      PROVE  ExpiryPending'
  BY <1>1 DEF Admit, Admitting
<1>2. ASSUME NEW s \in Slots, Fail(s) \/ Complete(s) \/ Stamp(s) PROVE ExpiryPending'
  BY <1>2 DEF Fail, Complete, Stamp, Release
<1>3. ASSUME NEW s \in Slots, StreamEnd(s) \/ EmptyResponse(s) \/ FinishUnmetered(s)
      PROVE  ExpiryPending'
  BY <1>3 DEF StreamEnd, EmptyResponse, SpendUnmetered, FinishUnmetered, Release
<1>4. ASSUME NEW s \in Slots, IncrBy(s) PROVE ExpiryPending'
  BY <1>4 DEF IncrBy
<1>5. ASSUME NEW s \in Slots, ExpireAt(s) PROVE ExpiryPending'
  BY <1>5 DEF ExpireAt, SetDeadline, DropCounters, Release
<1>6. ASSUME NEW s \in Slots, PipelineLost(s) \/ ExpireAtLost(s) PROVE ExpiryPending'
  BY <1>6 DEF PipelineLost, ExpireAtLost, MissDeadline, Release
<1>7. CASE Crash
  BY <1>7 DEF Crash
<1>8. CASE NewMonth
  BY <1>8 DEF NewMonth, DropCounters
<1>9. CASE UNCHANGED vars
  BY <1>9 DEF vars
<1>10. ASSUME NEW s \in Slots, Resend(s) PROVE ExpiryPending'
  <2>1. CASE SetDeadline(s)
    BY <1>10, <2>1 DEF Resend, SetDeadline, DropCounters
  <2>2. CASE MissDeadline(s)
    BY <1>10, <2>2 DEF Resend, MissDeadline
  <2>3. QED
    BY <1>10, <2>1, <2>2 DEF Resend
<1>11. QED
  BY <1>1, <1>2, <1>3, <1>4, <1>5, <1>6, <1>7, <1>8, <1>9, <1>10 DEF Next, Request, Serve, Fault

-----------------------------------------------------------------------------
LEMMA Initially == Init => IInv
<1> SUFFICES ASSUME Init PROVE IInv
  OBVIOUS
<1>1. TypeOK
  BY TokensAssumption, RepeatsAssumption DEF Init, TypeOK, Steps
<1>2. ExpiryPending
  BY DEF Init, ExpiryPending
<1>3. ASSUME NEW u \in Users
      PROVE  usage[u] + MaxTokens * Cardinality(Outstanding(u)) < Quota[u] + Margin(u)
  <2>1. /\ MaxTokens * Cardinality(Outstanding(u)) \in Nat
        /\ MaxTokens * Cardinality(Outstanding(u)) <= MaxTokens * Cardinality(Slots)
    BY OutstandingBounded, TimesMaxTokens
  <2>2. QED
    BY <1>1, <2>1, MarginType, QuotaAssumption DEF Init
<1>4. QED
  BY <1>1, <1>2, <1>3 DEF IInv, OvershootBound, Margin

LEMMA Invariance == Spec => []IInv
<1>1. IInv /\ [Next]_vars => IInv'
  BY TypeStep, OvershootStep, ExpiryStep DEF IInv
<1>2. QED
  BY Initially, <1>1, PTL DEF Spec

(* The types hold in every state. *)
THEOREM TypeCorrect == Spec => []TypeOK
<1>1. Spec => []IInv
  BY Invariance
<1>2. QED
  BY <1>1, PTL DEF IInv

(* OvershootBound: an account passes its quota by less than one largest     *)
(* completion for each slot and each repeated increment, for every number   *)
(* of slots.                                                                *)
THEOREM OvershootCorrect == Spec => []OvershootBound
<1>1. Spec => []IInv
  BY Invariance
<1>2. QED
  BY <1>1, PTL DEF IInv

(* ExpiryPending: no interleaving of pipelines, only a fault, leaves a      *)
(* counter without a TTL.                                                   *)
THEOREM ExpiryCorrect == Spec => []ExpiryPending
<1>1. Spec => []IInv
  BY Invariance
<1>2. QED
  BY <1>1, PTL DEF IInv

(* OnlyLateIncrementsDrop: whatever lowers a counter is the end of a month  *)
(* or the EXPIREAT of a pipeline built in a month that is over.             *)
THEOREM DropsAreLate == Spec => OnlyLateIncrementsDrop
<1> DEFINE Late == \A u \in Users : Lowered(u) =>
                      \/ NewMonth
                      \/ \E s \in Slots : user[s] = u /\ stale[s] /\ (ExpireAt(s) \/ Resend(s))
<1>1. ASSUME TypeOK, [Next]_vars PROVE [Late]_vars
  <2>1. ASSUME NEW s \in Slots, Request(s) PROVE Late
    BY <1>1, <2>1 DEF TypeOK, Request, Admit, Admitting, Lowered
  <2>2. ASSUME NEW s \in Slots, IncrBy(s) PROVE Late
    BY <1>1, <2>2 DEF TypeOK, IncrBy, Lowered
  <2>3. ASSUME NEW s \in Slots, ExpireAt(s) PROVE Late
    BY <1>1, <2>3 DEF TypeOK, ExpireAt, SetDeadline, DropCounters, Lowered
  <2>4. ASSUME NEW s \in Slots,
               \/ Fail(s) \/ Complete(s) \/ StreamEnd(s) \/ EmptyResponse(s)
               \/ FinishUnmetered(s) \/ Stamp(s) \/ PipelineLost(s) \/ ExpireAtLost(s)
        PROVE  Late
    BY <1>1, <2>4 DEF TypeOK, Fail, Complete, StreamEnd, EmptyResponse, SpendUnmetered,
          FinishUnmetered, Stamp, PipelineLost, ExpireAtLost, MissDeadline, Lowered
  <2>5. CASE Crash
    BY <1>1, <2>5 DEF TypeOK, Crash, Lowered
  <2>6. ASSUME NEW s \in Slots, Resend(s) PROVE Late
    <3>1. ASSUME NEW u \in Users, Lowered(u) PROVE user[s] = u /\ stale[s]
      BY <1>1, <2>6, <3>1 DEF TypeOK, Resend, SetDeadline, MissDeadline, DropCounters, Lowered
    <3>2. QED
      BY <2>6, <3>1
  <2>7. QED
    BY <1>1, <2>1, <2>2, <2>3, <2>4, <2>5, <2>6 DEF Next, Serve, Fault
<1>2. Spec => []TypeOK
  BY TypeCorrect
<1>3. QED
  BY <1>1, <1>2, PTL DEF Spec, OnlyLateIncrementsDrop
=============================================================================
