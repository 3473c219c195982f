CONSTANTS
    MaxAttempts = 3
    MaxStarts = 1
    ClientDtor = TRUE
SPECIFICATION Spec
CHECK_DEADLOCK FALSE
INVARIANT NoAssertionFailure
INVARIANT ConnectingOwnsSocket
PROPERTY StopSettles
