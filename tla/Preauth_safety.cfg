SPECIFICATION Spec
CONSTANTS
    MaxPreauths = 3
    Capacity = 2
    MaxFailures = 1
    MaxPurges = 1
    MissingDeleteFails = TRUE
CHECK_DEADLOCK FALSE
INVARIANT TypeOK
INVARIANT StaysCompletable
INVARIANT CompletedIsClosed
PROPERTY CompletesItsOwn
