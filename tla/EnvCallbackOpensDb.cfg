SPECIFICATION Spec
CONSTANTS
    Threads = {t1, t2}
    Slots = {s1}
    NoThread = NoThread
    NoSlot = NoSlot
    Overlap = FALSE
    MapCanFail = FALSE
    CallbackOpensDb = TRUE
SYMMETRY Sym
CHECK_DEADLOCK FALSE
INVARIANT DeadlockIsDocumented
