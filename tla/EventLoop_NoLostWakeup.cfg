CONSTANTS
    f1 = f1
    f2 = f2
    lt = lt
    Foreign <- MCForeign
    LoopThread = lt
    MaxTasks = 3

SPECIFICATION Spec

\* loop() returning after quit() is a real end state of the loop thread.
CHECK_DEADLOCK FALSE

INVARIANT NoLostWakeup
