SPECIFICATION Spec
CONSTANTS
    DescBlks = 8
    DataBlks = 12
    MaxMaps = 1
    EphSizes <- Sizes11
    EphLimit = 2
    FirstDesc = 0
    FirstData = 0
    Remounts = "quiet"
    MaxOid = 2
    MaxAttempt = 3
    None = None
INVARIANT Recoverable
