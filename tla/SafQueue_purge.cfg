SPECIFICATION FairSpec
CONSTANTS
    a1 = a1
    a2 = a2
    x = x
    Advices = {a1, a2}
    Invalid = {}
    Malformed = {}
    Reversal = Reversal
    MaxSafs = 2
    SafLimit = 2
    UploadCounts = {1}
    Commands = {"sfp_on", "sfp_off"}
    WordMax = 3
    MaxRecords = 3
    MaxFailures = 0
CHECK_DEADLOCK FALSE
PROPERTY PurgeEnds
