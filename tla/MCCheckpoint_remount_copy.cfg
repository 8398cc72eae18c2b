SPECIFICATION Spec
CONSTANTS
    DescBlks = 9
    DataBlks = 14
    MaxMaps = 2
    EphSizes <- Sizes21
    EphLimit = 3
    FirstDesc = 0
    FirstData = 0
    Remounts = "racing"
    MaxOid = 3
    MaxAttempt = 3
    None = None
INVARIANT Recoverable
