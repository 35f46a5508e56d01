SPECIFICATION Spec
CONSTANT MaxDocks = 4
INVARIANT TypeOK
INVARIANT OneRequestStands
INVARIANT DeclinedNotCharged
INVARIANT ApprovedChargesOnce
INVARIANT ReadsEnd
