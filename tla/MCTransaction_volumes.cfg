SPECIFICATION Spec
CONSTANTS
    t1 = t1
    t2 = t2
    t3 = t3
    o1 = o1
    o2 = o2
    o3 = o3
    i1 = i1
    i2 = i2
    Threads = {t1, t2}
    Worker = worker
    Sbs = {v1, v2}
    SnapSbs = {}
    Inodes = {i1}
    Ops = {o1, o2}
    Kinds = {"REG", "SYNC"}
    None = None
    StartsMax = 1
    StartsSlack = 1
    MaxStarts = 2
    MaxXid = 3
SYMMETRY Symmetry
INVARIANT
    PendingHasWork
PROPERTIES
    XidIdentifiesCheckpoint
    AbortIsFinal
