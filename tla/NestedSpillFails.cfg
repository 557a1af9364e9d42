SPECIFICATION Spec
CONSTANTS
    Leaves = {a}
    Overflows = {o}
    Values = {v1, v2}
    MaxPg = 7
    MaxDirty = 2
    Need = 1
    MaxDepth = 2
    MaxOps = 4
    SpillFailsAt = {2}
    NoPage = NoPage
    Blank = Blank
    Failed = Failed
PROPERTY CommitSavesAll
SYMMETRY Sym
