SPECIFICATION FairSpec
CONSTANTS
    Threads = {t1, t2}
    Slots = {s1}
    NoThread = NoThread
    NoSlot = NoSlot
    Overlap = FALSE
    MapCanFail = TRUE
    CallbackOpensDb = FALSE
PROPERTIES BlockerLifted GuardAdmitted
INVARIANT NoDeadlock
