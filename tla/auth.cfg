SPECIFICATION FairSpec
CONSTANTS
    r1 = r1
    r2 = r2
    l1 = l1
    l2 = l2
    v1 = v1
    v2 = v2
    v3 = v3
    None = None
    Replicas = {r1, r2}
    Logins = {l1, l2}
    Visits = {v2}
    Tables = {"data"}
    Wants <- MCWants
    Reach <- MCReach
    TTL = 1
    MaxClock = 1
    MaxResends = 1
INVARIANTS
    AuthTypeOK
    GrantedSecretWasStored
    DeletedSecretStaysDead
PROPERTY
    TokensAreRevoked
