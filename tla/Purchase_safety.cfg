SPECIFICATION FairSpec
CONSTANTS
    MaxSales = 2
    MaxSafs = 1
    Unbuildable = {1}
    IsP400 = TRUE
    MaxRetries = 1
    MaxFailures = 1
CHECK_DEADLOCK FALSE
INVARIANT TypeOK
INVARIANT NoDoubleDebit
INVARIANT DeclinedNotCharged
INVARIANT ApprovedStands
INVARIANT CancelledByPowerFail
INVARIANT ReversalIsOwn
PROPERTY ReversalLeaves
