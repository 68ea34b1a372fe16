SPECIFICATION Spec
CONSTANTS
    k1 = k1
    k2 = k2
    t1 = t1
    t2 = t2
    None = None
    Keys = {k1, k2}
    Tasks = {t1, t2}
    Ops = {"put"}
    Size <- RisingSize
    KeyMax <- MCKeyMax
    Blocked = {}
    Corrupt = {}
    MaxTotal = 2
    MaxRetries = 2
    MaxResends = 0
INVARIANT
    QuotaRespected
