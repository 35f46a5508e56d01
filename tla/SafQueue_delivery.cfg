SPECIFICATION FairSpec
CONSTANTS
    a1 = a1
    a2 = a2
    x = x
    Advices = {a1, a2}
    Invalid = {}
    Malformed = {a2}
    Reversal = Reversal
    MaxSafs = 2
    SafLimit = 2
    UploadCounts = {1}
    Commands = {"sfp_on", "clear", "upgrade", "recount"}
    WordMax = 3
    MaxRecords = 3
    MaxFailures = 1
CHECK_DEADLOCK FALSE
PROPERTY DeliverySpec
PROPERTY QueueDrains
