SPECIFICATION Spec
CONSTANTS
    Settings <- Terminals
    MaxLanes = 1
    MaxFailures = 1
INVARIANT TypeOK
INVARIANT LadderFirst
INVARIANT LoggedOnInSession
INVARIANT SaleWhenLoggedOn
INVARIANT SaleInItsLane
