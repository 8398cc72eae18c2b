SPECIFICATION Spec
CONSTANTS
    DescBlks = 9
    DataBlks = 12
    MaxMaps = 1
    EphSizes <- Sizes21
    EphLimit = 3
    FirstDesc = 6
    FirstData = 9
    Remounts = "quiet"
    MaxOid = 3
    MaxAttempt = 2
    None = None
INVARIANTS
    TypeOK
    Recoverable
    RingsDontOverlap
    XidIdentifiesContents
PROPERTIES
    NoRollback
    RefinesAtomicCommit
