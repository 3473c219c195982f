CONSTANTS
    kCheapPrepend = 1
    kInitialSize = 2
    kExtraBuf = 1
    Msgs <- MCMsgs
    PeerBytes <- MCPeerBytes

SPECIFICATION Spec

\* The process may end (a crash, or everyone done).
CHECK_DEADLOCK FALSE

INVARIANT NoFatalError
