----------------------------- MODULE MC_Poller -----------------------------
(* Three fds, fd 0 among them (its ignored form is -1); fd 2 stands for a *)
(* Connector channel, which has no read callback.                         *)
EXTENDS Poller

MCFds == {0, 1, 2}
MCReadCb == {0, 1}
=============================================================================
