SPECIFICATION Spec
CONSTANTS
    Names <- MCNames
    MaxName = 4
    Values <- MCValues
    MaxSize = 2
    Cap = 2
    None = None
INVARIANTS
    KeysAreCleanPaths
    ReadsBack
    HeldIsWhatWasStored
