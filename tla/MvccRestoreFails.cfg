SPECIFICATION Spec
CONSTANTS
    Readers = {}
    Writers = {w1, w2}
    Keys = {k1}
    MaxPg = 8
    MaxTxnId = 4
    MaxFaults = 2
    MachineCanCrash = FALSE
    Modes = {"sync", "nometasync", "nosync"}
    MetaWriteCanFail = TRUE
    RestoreCanFail = TRUE
    NoWriter = NoWriter
    NoKey = NoKey
    NoPage = NoPage
    Blank = Blank
    NoView = NoView
INVARIANT FailedCommitUnused
SYMMETRY Sym
CHECK_DEADLOCK FALSE
