SPECIFICATION FairSpec
CONSTANTS
    MaxRequests = 3
    TTL = 1
    MaxFailures = 2
    MaxClock = 2
    MaxEdition = 2
CHECK_DEADLOCK FALSE
INVARIANTS
    LifecycleTypeOK
    AsksOnlyAfterFailuresInARow
    AnswersNeverGoBack
PROPERTIES
    RefreshesAreApart
    OutageStopsServer
    DrainEnds
