SPECIFICATION Spec
CONSTANTS
    Threads = {t1, t2}
    Slots = {s1, s2}
    NoThread = NoThread
    NoSlot = NoSlot
    Overlap = TRUE
    MapCanFail = FALSE
    CallbackOpensDb = TRUE
SYMMETRY Sym
CHECK_DEADLOCK FALSE
INVARIANTS TypeOK RemapExclusive TxnOnLiveMap TxCountExact BlockerSingleOwner PanicLeaksNothing DeadlockExplained
PROPERTY ImplementsMapAccess
