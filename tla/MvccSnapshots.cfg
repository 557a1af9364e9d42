SPECIFICATION Spec
CONSTANTS
    Readers = {r1}
    Writers = {w1, w2}
    Keys = {k1}
    MaxPg = 7
    MaxTxnId = 4
    MaxFaults = 2
    MachineCanCrash = FALSE
    Modes = {"sync"}
    MetaWriteCanFail = FALSE
    RestoreCanFail = FALSE
    NoWriter = NoWriter
    NoKey = NoKey
    NoPage = NoPage
    Blank = Blank
    NoView = NoView
INVARIANTS MetasIntact PagesAccounted OldestIsOld
PROPERTY ImplementsSnapshotStore
SYMMETRY Sym
CHECK_DEADLOCK FALSE
