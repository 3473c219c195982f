CONSTANTS
    Fds <- MCFds
    ReadCb <- MCReadCb

SPECIFICATION Spec

\* Every state has a successor (a live channel can always change its mask).
INVARIANT TypeOK
INVARIANT IndexConsistent
