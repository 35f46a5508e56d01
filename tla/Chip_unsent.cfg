SPECIFICATION Spec
CONSTANT MaxDocks = 2
INVARIANT ApprovedIsSavedOrSent
