SPECIFICATION Spec
CONSTANTS
    root = root
    leaf1 = leaf1
    leaf2 = leaf2
    sub = sub
    big1 = big1
    big2 = big2
    big3 = big3
    Nodes <- MCNodes
    Roots = {NoPage, leaf1, root}
    WBuf = 2
    Leaks = {0, 1}
    NoPage = NoPage
    Meta = Meta
    Junk = Junk
INVARIANT CopyFaithful
PROPERTY CopyReturns
CHECK_DEADLOCK FALSE
