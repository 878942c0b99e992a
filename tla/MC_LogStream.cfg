SPECIFICATION ServerFairSpec
CONSTANTS
    User = {u1, u2}
    Client = {c1}
    MaxEvents = 2
    MaxBuffer = 2
    None = None
    s1 = s1
    s2 = s2
    Process = {s1, s2}
    Known <- MCKnown
    Budgets <- MCBudgets
INVARIANTS ServerTypeOK LogIsRecorded InPublishOrder ServesCompleteSchema
PROPERTIES GoroutinesEnd InterruptedForGood ShutdownEnds
