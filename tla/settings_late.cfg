SPECIFICATION Spec
CONSTANTS
    t1 = t1
    t2 = t2
    None = None
    Tasks = {t1, t2}
    Ops = {"put"}
    MaxClock = 2
    MaxRetries = 2
    MaxResends = 1
INVARIANT
    AcknowledgedNeverReturns
