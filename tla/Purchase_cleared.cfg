SPECIFICATION Spec
CONSTANTS
    MaxSales = 3
    MaxSafs = 3
    Unbuildable = {}
    IsP400 = FALSE
    MaxRetries = 0
    MaxFailures = 1
CHECK_DEADLOCK FALSE
PROPERTY AdviceTakesNoReversal
