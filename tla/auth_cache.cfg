SPECIFICATION Spec
CONSTANTS
    r1 = r1
    r2 = r2
    l1 = l1
    l2 = l2
    v1 = v1
    v2 = v2
    v3 = v3
    None = None
    Replicas = {r1, r2}
    Logins = {l1}
    Visits = {v1, v2, v3}
    Tables = {"data"}
    Wants <- MCWants
    Reach <- MCReach
    TTL = 2
    MaxClock = 3
    MaxResends = 0
INVARIANTS
    TokenOutlivesAccountByTTL
    InvalidationHolds
    NothingLeftBehind
SYMMETRY MCSymmetry
