CONSTANTS
    Fds <- MCFds
    ReadCb <- MCReadCb

SPECIFICATION Spec

INVARIANT PollerWatchesInterest
