CONSTANTS
    u1 = u1
    u2 = u2
    k1 = k1
    bad = bad
    free = free
    pro = pro
    r1 = r1
    r2 = r2
    None = None
    Users = {u1, u2}
    Keys = {k1}
    BadTokens = {bad}
    Plans = {free, pro}
    Free = free
    Requests = {r1, r2}
    TTL = 2
    MaxLag = 1
SPECIFICATION Spec
INVARIANTS ImmediateRejection
