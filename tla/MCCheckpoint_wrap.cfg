SPECIFICATION Spec
CONSTANTS
    DescBlks = 9
    DataBlks = 9
    MaxMaps = 4
    EphSizes <- Sizes12
    EphLimit = 4
    FirstDesc = 0
    FirstData = 0
    Remounts = "quiet"
    MaxOid = 4
    MaxAttempt = 2
    None = None
INVARIANT Recoverable
