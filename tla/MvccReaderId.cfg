SPECIFICATION Spec
CONSTANTS
    Readers = {r1}
    Writers = {w1}
    Keys = {k1}
    MaxPg = 7
    MaxTxnId = 4
    MaxFaults = 0
    MachineCanCrash = FALSE
    Modes = {"sync"}
    MetaWriteCanFail = FALSE
    RestoreCanFail = FALSE
    NoWriter = NoWriter
    NoKey = NoKey
    NoPage = NoPage
    Blank = Blank
    NoView = NoView
INVARIANT ReaderIdIsSnapshot
CHECK_DEADLOCK FALSE
