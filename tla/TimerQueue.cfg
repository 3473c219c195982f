CONSTANTS
    NoTimerV = NoTimerV
    NoTimer = NoTimerV
    Addrs = {1, 2}
    MaxSeq = 3
    MaxTime = 4
    Delays = {0, 1, 2}
    Intervals = {0, 1}
    MaxCancels = 2
    Bits = 8

SPECIFICATION Spec

\* An idle queue (nothing pending, the clock at its bound) really stops.
CHECK_DEADLOCK FALSE

INVARIANT IndexesAgree
INVARIANT OneShotFiresOnce
INVARIANT CanceledStaysCanceled
INVARIANT NoLostTimer
INVARIANT TimerfdNotLate
PROPERTY AllDueTaken
