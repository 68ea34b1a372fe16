SPECIFICATION FairSpec
CONSTANTS
    r1 = r1
    r2 = r2
    r3 = r3
    Runners = {r1, r2, r3}
    NFiles = 2
    Checksum <- MCChecksum
    None = None
    MaxCrashes <- MCMaxCrashes
INVARIANTS
    MigrationsTypeOK
    RecordsBehindSchema
    StatementsFindTheirObjects
    ServingAgreesWithRecord
PROPERTY
    OneRevisionServes
