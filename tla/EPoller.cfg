CONSTANTS
    Fds <- MCFds

SPECIFICATION Spec

\* Every state has a successor (poll() can always be called).
INVARIANT TypeOK
INVARIANT InterestListMirrorsTags
INVARIANT NoCtlError
