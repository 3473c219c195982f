CONSTANTS
    NULLV = NULLV
    LoopV = LoopV
    NULL <- NULLV
    TheLoop <- LoopV
    MaxSpurious = 2
SPECIFICATION Spec
CHECK_DEADLOCK FALSE
INVARIANT StartLoopReturnsLoop
PROPERTY StartLoopReturns
