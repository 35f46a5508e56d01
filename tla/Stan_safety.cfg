SPECIFICATION Spec
CONSTANTS
    MaxStan = 60
    FirstStans = {5, 58}
    MaxSales = 2
    MaxAttempts = 2
    MaxLogons = 1
    MaxFailures = 1
CHECK_DEADLOCK FALSE
INVARIANT TypeOK
INVARIANT StanUnique
INVARIANT RepeatKeepsStan
INVARIANT ReversalNamesItsSale
INVARIANT PinUnderItsStan
