SPECIFICATION Spec
CONSTANTS
    t1 = t1
    t2 = t2
    a = a
    b = b
    Writers = {t1}
    Readers = {t2}
    Openers = {t1}
    Names = {a, b}
    MaxDbs = 2
    Values = {1}
    OpenDuringBegin = FALSE
    DropRaces = FALSE
    MaxDepth = 2
    MaxClearDepth = 1
    MaxChanges = 3
    Absent = Absent
    NoName = NoName
    Nobody = Nobody
INVARIANTS HandleDenotes HandleUsable CommitExact
SYMMETRY NamesAlike
CHECK_DEADLOCK FALSE
