----------------------------- MODULE Admission -----------------------------
(***************************************************************************)
(* Key validation together with the quota it ends with, and what the pages *)
(* say about both.  The counter usage:<user> is moved by Metering; here it *)
(* only rises and starts over.  The quota of a plan is written down three  *)
(* times: PlanQuota, which the check and the CLI use, the dashboard's own  *)
(* planQuota, and the plans table, which both billing pages show.          *)
(*                                                                         *)
(* The check uses the plan of the credentials, so the plan as it was when  *)
(* they were read; the dashboard reads the plan anew for every page.       *)
(*                                                                         *)
(* Tokens are counted in units of 100,000, the free quota.                 *)
(***************************************************************************)
EXTENDS KeyAuth

CONSTANTS
    Budgets      \* bounds: request slots in use, and values of the counters

ASSUME BudgetsAssumption == Budgets \subseteq [slots : SUBSET Requests, levels : SUBSET Nat]

VARIABLES
    budget,      \* the bounds that hold in this behaviour
    usage        \* Redis usage:<user>, 0 while there is none

admissionVars == <<vars, budget, usage>>

AdmissionTypeOK ==
    /\ TypeOK
    /\ budget \in Budgets
    /\ usage \in [Users -> Nat]

AdmissionInit ==
    /\ Init
    /\ budget \in Budgets
    /\ usage = [u \in Users |-> 0]

-----------------------------------------------------------------------------
(* The quotas. *)

(* Mutant of PlanQuota: a plan is forgotten, and falls to the default. *)
PlanQuotaForgets(p) ==
    CASE p = "pro"  -> 100
      [] p = "team" -> 500
      [] OTHER      -> 1

(* models.PlanQuota *)
PlanQuota(p) ==
    CASE p = "starter" -> 20
      [] p = "pro"     -> 100
      [] p = "team"    -> 500
      [] OTHER         -> 1

(* The dashboard's copy of it. *)
planQuota(p) ==
    CASE p = "starter" -> 20
      [] p = "pro"     -> 100
      [] p = "team"    -> 500
      [] OTHER         -> 1

(* plans.token_quota, as the fourth migration fills the table. *)
TokenQuota == [free |-> 1, starter |-> 20, pro |-> 100, team |-> 500]

(* GET /api/usage *)
GetCurrentUsage(u) == [used |-> usage[u], quota |-> planQuota(plan[u])]

(* GET /v1/usage, for the credentials the middleware has found *)
GetUsage(credentials) ==
    [used |-> usage[credentials.user], quota |-> PlanQuota(credentials.plan)]

(* GET /api/billing/plan and /v1/billing/plan join users and plans: a plan *)
(* without a row is an error.                                              *)
HasPlanRow(u) == plan[u] \in DOMAIN TokenQuota
GetUserPlan(u) == [id |-> plan[u], quota |-> TokenQuota[plan[u]]]

-----------------------------------------------------------------------------
Exceeded(page) == page.used >= page.quota

(* IsQuotaExceeded answers from the counter, or Redis fails. *)
QuotaAnswers(credentials) ==
    {"error", IF Exceeded(GetUsage(credentials)) THEN "quotaExceeded" ELSE "accepted"}

(* The steps of KeyAuth, whose last check the counter decides. *)
Decided(r) == pc[r] = "quota" /\ pc'[r] # "quota" => pc'[r] \in QuotaAnswers(seen[r])

Waits == UNCHANGED <<budget, usage>>

Bounded == \A r \in Requests \ budget.slots : pc'[r] = pc[r]

Stepped == Next /\ Waits /\ Bounded /\ \A r \in Requests : Decided(r)

(* Metering: the tokens of completions under a key of u arrive. *)
Spend(u) ==
    /\ \E k \in Keys : owner[k] = u
    /\ \E n \in budget.levels : n > usage[u] /\ usage' = [usage EXCEPT ![u] = n]
    /\ UNCHANGED <<vars, budget>>

(* Metering: the counter expires, or Redis loses it. *)
StartOver(u) ==
    /\ usage[u] > 0
    /\ usage' = [usage EXCEPT ![u] = 0]
    /\ UNCHANGED <<vars, budget>>

AdmissionNext ==
    \/ Stepped
    \/ \E u \in Users : Spend(u) \/ StartOver(u)

AdmissionSpec == AdmissionInit /\ [][AdmissionNext]_admissionVars

(* As in KeyAuth: time passes, and handlers go on. *)
AdmissionFairSpec ==
    /\ AdmissionSpec
    /\ WF_admissionVars(Tick /\ Waits)
    /\ \A r \in Requests : WF_admissionVars(Validate(r) /\ Decided(r) /\ Waits)

-----------------------------------------------------------------------------
(***************************************************************************)
(* A verdict about the quota agrees with the pages: a request is refused   *)
(* exactly when the usage page shows the quota spent, whose number is the  *)
(* plan page's, unless the key or its owner's plan has changed within the  *)
(* window of stale credentials.                                            *)
(***************************************************************************)
PagesSay(u, exceeded) ==
    /\ exceeded = Exceeded(GetCurrentUsage(u))
    /\ HasPlanRow(u) => GetUserPlan(u).quota = GetCurrentUsage(u).quota

VerdictMatchesPages ==
    [][\A r \in Requests : pc[r] = "quota" /\ pc'[r] \in {"accepted", "quotaExceeded"} =>
          \/ PagesSay(seen[r].user, pc'[r] = "quotaExceeded")
          \/ since[key[r]] <= Window]_admissionVars

(***************************************************************************)
(* An account that keeps its plan and stays below its quota, because it    *)
(* was upgraded or because the month is over, is at last refused no more:  *)
(* no cached plan keeps it out, however steadily its key is used.          *)
(***************************************************************************)
Within(u, p) == plan[u] = p /\ usage[u] < PlanQuota(p)

Refusing(u) ==
    LET refuses(c) == c # None /\ c.user = u /\ Exceeded(GetUsage(c)) IN
    \/ \E k \in Keys : refuses(cache[k])
    \/ \E r \in Requests : Holding(r) /\ refuses(seen[r])

UpgradeHelps ==
    \A u \in Users : \A p \in Plans : <>[]Within(u, p) => <>[]~Refusing(u)
=============================================================================
