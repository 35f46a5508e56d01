SPECIFICATION Spec
CONSTANTS
    MaxQueries = 2
    MaxSessions = 2
    MaxRotations = 1
    MaxSales = 2
    MaxFailures = 1
CHECK_DEADLOCK FALSE
INVARIANT TypeOK
INVARIANT PaidAsTold
INVARIANT RewardsAreOwn
INVARIANT ScannedSessionGiven
