SPECIFICATION SyncSpec
CONSTANTS
    k1 = k1
    k2 = k2
    t1 = t1
    t2 = t2
    t3 = t3
    s1 = s1
    None = None
    Keys = {k1, k2}
    Syncs = {s1}
    Tasks <- OneKeyTasks
    Ops = {"put", "delete"}
    Size <- TwoWriterSize
    KeyMax <- MCKeyMax
    Blocked = {k2}
    Corrupt = {}
    MaxTotal = 2
    MaxRetries = 2
    MaxResends = 0
    Pages <- OnePage
    UploadLists <- OneKeyLists
    MaxUploads = 2
INVARIANTS
    SyncTypeOK
    AnswerCoversManifest
    UploadBeatsDownload
    UnseenOverwrittenOnlyByRaceOrDelete
SYMMETRY WriterSymmetry
CONSTRAINTS
    WritersTakeTurns
    WritersWriteOneKey
