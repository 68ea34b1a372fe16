SPECIFICATION SyncSpec
CONSTANTS
    k1 = k1
    k2 = k2
    t1 = t1
    t2 = t2
    t3 = t3
    s1 = s1
    None = None
    Keys = {k1, k2}
    Syncs = {s1}
    Tasks <- TwoKeyTasks
    Ops = {"put", "delete"}
    Size <- LargerSize
    KeyMax <- MCKeyMax
    Blocked = {}
    Corrupt = {}
    MaxTotal = 2
    MaxRetries = 2
    MaxResends = 0
    Pages <- TwoPages
    UploadLists <- TwoKeyLists
    MaxUploads = 2
INVARIANT
    DownloadsOnlyWhatDiffers
