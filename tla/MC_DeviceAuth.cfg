CONSTANTS
    d1 = d1
    u1 = u1
    u2 = u2
    k1 = k1
    k2 = k2
    k3 = k3
    a1 = a1
    a2 = a2
    None = None
    Devices = {d1}
    Users = {u1, u2}
    Keys = {k1, k2, k3}
    Approvals = {a1, a2}
    Life = 2
    MaxDelay = 1
SPECIFICATION FairSpec
INVARIANTS TypeOK KeyOfApprover ForeverIsExpired
PROPERTIES NoLateAuthorization PollingEnds
