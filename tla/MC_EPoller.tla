----------------------------- MODULE MC_EPoller -----------------------------
EXTENDS EPoller

\* Three descriptors: enough for one to be removed, closed and reused while
\* the other stays registered.
MCFds == {3, 4, 5}

====
