SPECIFICATION Spec
CONSTANTS
    Keys <- FullKeys
    KeySize <- FullKeySize
    DataSizes = {243}
    PMax = 4080
    Cursors = {}
    Loads <- FullLoads
    OpKeys = {21}
    MissedStays = FALSE
    MaxOps = 1
INVARIANT NoInternalError
CHECK_DEADLOCK FALSE
