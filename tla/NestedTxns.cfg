SPECIFICATION Spec
CONSTANTS
    Leaves = {a}
    Overflows = {o}
    Values = {v1, v2}
    MaxPg = 7
    MaxDirty = 2
    Need = 1
    MaxDepth = 3
    MaxOps = 4
    SpillFailsAt = {1}
    NoPage = NoPage
    Blank = Blank
    Failed = Failed
INVARIANTS RoomExact PagesAccounted ListsConsistent
PROPERTY ImplementsNestedStore
SYMMETRY Sym
