SPECIFICATION Spec
CONSTANTS
    p1 = p1
    p2 = p2
    t1 = t1
    t2 = t2
    m = m
    Procs = {p1, p2}
    Threads <- MCThreads
    Managers = {m}
    Slots = 2
    Tls <- MCTls
    OpenBreaks = TRUE
    MaxDeaths = 2
    MaxCommits = 1
    Nobody = Nobody
SYMMETRY ThreadsAlike
INVARIANT RegionCurrent
CHECK_DEADLOCK FALSE
