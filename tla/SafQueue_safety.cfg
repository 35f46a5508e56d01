SPECIFICATION Spec
CONSTANTS
    a1 = a1
    a2 = a2
    x = x
    Advices = {a1, a2, x}
    Invalid = {x}
    Malformed = {}
    Reversal = Reversal
    MaxSafs = 2
    SafLimit = 0
    UploadCounts = {2}
    Commands = {"sfp_on", "sfp_off", "saf_print", "clear", "upgrade", "recount"}
    WordMax = 3
    MaxRecords = 3
    MaxFailures = 1
SYMMETRY Symmetric
CHECK_DEADLOCK FALSE
INVARIANT TypeOK
INVARIANT OriginalOnce
INVARIANT OneRepeatAtHead
INVARIANT SettledIsAccountedFor
INVARIANT AdviceNotLost
INVARIANT CountCoversUnsent
INVARIANT UploadKeepsItsRecord
INVARIANT BatchWithinLimit
