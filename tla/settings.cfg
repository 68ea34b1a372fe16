SPECIFICATION FairSpec
CONSTANTS
    t1 = t1
    t2 = t2
    None = None
    Tasks = {t1, t2}
    Ops = {"head", "get", "put", "delete"}
    MaxClock = 2
    MaxRetries = 2
    MaxResends = 1
INVARIANTS
    SettingsTypeOK
    AckedTagWasStored
    SettledNeverReturns
    SaveExhaustedOnlyUnderContention
    IfMatchLostOnlyByRace
PROPERTY
    EverySettingsRequestAnswered
