SPECIFICATION Spec
CONSTANTS
    Readers = {}
    Writers = {w1, w2}
    Keys = {k1, k2}
    MaxPg = 8
    MaxTxnId = 4
    MaxFaults = 1
    MachineCanCrash = TRUE
    Modes = {"sync", "nometasync", "nosync"}
    MetaWriteCanFail = TRUE
    RestoreCanFail = FALSE
    NoWriter = NoWriter
    NoKey = NoKey
    NoPage = NoPage
    Blank = Blank
    NoView = NoView
INVARIANTS CrashConsistent MetasIntact
SYMMETRY Sym
CHECK_DEADLOCK FALSE
