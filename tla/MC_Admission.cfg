CONSTANTS
    u1 = u1
    u2 = u2
    k1 = k1
    bad = bad
    r1 = r1
    r2 = r2
    None = None
    Users = {u1, u2}
    Keys = {k1}
    BadTokens = {bad}
    Plans = {"free", "starter"}
    Free = "free"
    Requests = {r1, r2}
    TTL = 2
    MaxLag = 1
    Budgets <- MCBudgets
SPECIFICATION AdmissionFairSpec
INVARIANTS AdmissionTypeOK BoundedStaleness Attribution
PROPERTIES AcceptedRecently NoResurrection RevokedDies VerdictMatchesPages UpgradeHelps
