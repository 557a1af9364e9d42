SPECIFICATION Spec
CONSTANTS
    c1 = c1
    Keys <- MCKeys
    KeySize <- MCKeySize
    DataSizes = {4, 16}
    PMax = 80
    Cursors = {c1}
    Loads <- MCLoads
    OpKeys = {1, 5, 9, 14}
    MissedStays = FALSE
    MaxOps = 2
INVARIANTS TreeWellFormed PagesAccounted CursorsOnPath NoInternalError
PROPERTY ImplementsOrderedMap
CHECK_DEADLOCK FALSE
