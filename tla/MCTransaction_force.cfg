SPECIFICATION Spec
CONSTANTS
    t1 = t1
    t2 = t2
    t3 = t3
    o1 = o1
    o2 = o2
    o3 = o3
    i1 = i1
    i2 = i2
    Threads = {t1, t2}
    Worker = worker
    Sbs = {v1}
    SnapSbs = {}
    Inodes = {i1, i2}
    Ops = {o1, o2}
    Kinds = {"REG", "CLONE", "SYNC"}
    None = None
    StartsMax = 1
    StartsSlack = 1
    MaxStarts = 3
    MaxXid = 3
SYMMETRY Symmetry
INVARIANT ForceCommitGuaranteed
