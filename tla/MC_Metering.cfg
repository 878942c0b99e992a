CONSTANTS
    u1 = u1
    u2 = u2
    s1 = s1
    s2 = s2
    None = None
    Users = {u1, u2}
    Slots = {s1, s2}
    Quota <- MCQuota
    MaxTokens = 1
    Faults = {"pipeline", "expireat", "reply", "crash"}
    MaxRepeats = 1
SPECIFICATION FairSpec
INVARIANTS TypeOK OvershootBound ExpiryPending
PROPERTIES OnlyLateIncrementsDrop QuotaResets
