------------------------------- MODULE EPoller -------------------------------
(***************************************************************************)
(* The epoll(7) backend of src/muduo/EPoll.cpp with the Channel operations *)
(* that drive it.  EventLoop of this build constructs a Poller             *)
(* (EventLoop.cpp:38), so nothing runs EPoller yet; it is checked against  *)
(* its own contract.                                                       *)
(*                                                                         *)
(* The kernel's epoll interest list is a function from fd to the mask     *)
(* registered for it; epoll_ctl ADD fails (EEXIST) on an fd already in it, *)
(* MOD and DEL fail (ENOENT) on an fd not in it, and a failure is only     *)
(* logged by EPoller::update.  Closing an fd drops it from the list.       *)
(* Channel::index_ is the three-state tag kNew / kAdded / kDeleted.        *)
(* Channel users (as in Poller.tla) call disableAll() before               *)
(* removeChannel() and destroy the Channel after it; a socket's fd is      *)
(* closed after its Channel is removed and may then be reused.            *)
(***************************************************************************)
EXTENDS Integers, FiniteSets, Functions, Bitwise, TLC

CONSTANTS
    Fds      \* file descriptors a socket() or timerfd_create() may return

kNew     == -1
kAdded   == 1
kDeleted == 2

\* Channel.cpp masks: kReadEvent = POLLIN/POLLPRI = 1/2 = 0.
kNoneEvent  == 0
kReadEvent  == 1 \div 2
kWriteEvent == 4

Masks == {kNoneEvent, kReadEvent, kWriteEvent}

VARIABLES
    open,       \* fds open in the process
    alive,      \* fds with a live Channel object
    chans,      \* the keys of EPoller::channels_
    index,      \* Channel::index_
    events,     \* Channel::events_
    kernel,     \* the epoll interest list: fd -> registered mask
    ctlFailed,  \* some epoll_ctl call has returned -1 (only logged)
    returned,   \* fds epoll_wait returned in the last poll()
    active      \* the channels the last poll() put in activeChannels

vars == <<open, alive, chans, index, events, kernel, ctlFailed, returned, active>>

TypeOK ==
    /\ open \subseteq Fds /\ alive \subseteq Fds /\ chans \subseteq Fds
    /\ index \in [Fds -> {kNew, kAdded, kDeleted}]
    /\ events \in [Fds -> Masks]
    /\ \E d \in SUBSET Fds : kernel \in [d -> Masks]
    /\ ctlFailed \in BOOLEAN
    /\ returned \subseteq Fds /\ active \subseteq Fds

Init ==
    /\ open = {} /\ alive = {} /\ chans = {}
    /\ index = [f \in Fds |-> kNew]
    /\ events = [f \in Fds |-> kNoneEvent]
    /\ kernel = [f \in {} |-> kNoneEvent]
    /\ ctlFailed = FALSE
    /\ returned = {} /\ active = {}

----------------------------------------------------------------------------
(* EPoller::update: one epoll_ctl call with the channel's events_.         *)

Ctl(op, c, ev) ==
    CASE op = "ADD" -> /\ kernel' = IF c \in DOMAIN kernel THEN kernel
                                    ELSE kernel @@ (c :> ev)
                       /\ ctlFailed' = (ctlFailed \/ c \in DOMAIN kernel)
      [] op = "MOD" -> /\ kernel' = IF c \in DOMAIN kernel
                                    THEN [kernel EXCEPT ![c] = ev] ELSE kernel
                       /\ ctlFailed' = (ctlFailed \/ c \notin DOMAIN kernel)
      [] op = "DEL" -> /\ kernel' = RestrictDomain(kernel, LAMBDA f : f # c)
                       /\ ctlFailed' = (ctlFailed \/ c \notin DOMAIN kernel)

\* updateChannel(c) after the caller set events_ to ev: a new or deleted
\* channel is ADDed (a new one entered in channels_), an added one is
\* DELeted when its mask is empty and MODified otherwise.
UpdateChannel(c, ev) ==
    /\ events' = [events EXCEPT ![c] = ev]
    /\ IF index[c] \in {kNew, kDeleted}
         THEN /\ chans' = chans \cup {c}
              /\ index' = [index EXCEPT ![c] = kAdded]
              /\ Ctl("ADD", c, ev)
         ELSE /\ index' = [index EXCEPT ![c] =
                             IF ev = kNoneEvent THEN kDeleted ELSE kAdded]
              /\ Ctl(IF ev = kNoneEvent THEN "DEL" ELSE "MOD", c, ev)
              /\ UNCHANGED chans

\* Faulty variant: channels_.erase(fd) left out.
RemoveChannelKeepEntry(c) ==
    /\ UNCHANGED chans
    /\ IF index[c] = kAdded THEN Ctl("DEL", c, events[c])
                            ELSE UNCHANGED <<kernel, ctlFailed>>
    /\ index' = [index EXCEPT ![c] = kNew]

\* Faulty variant: EPOLL_CTL_DEL whatever the tag.
RemoveChannelAlwaysDel(c) ==
    /\ chans' = chans \ {c}
    /\ Ctl("DEL", c, events[c])
    /\ index' = [index EXCEPT ![c] = kNew]

\* removeChannel(c): erase from channels_, DEL if added, tag kNew.
RemoveChannel(c) ==
    /\ chans' = chans \ {c}
    /\ IF index[c] = kAdded THEN Ctl("DEL", c, events[c])
                            ELSE UNCHANGED <<kernel, ctlFailed>>
    /\ index' = [index EXCEPT ![c] = kNew]

----------------------------------------------------------------------------
(* Descriptors and channel users.                                          *)

\* socket() / timerfd_create() / accept() returns a free fd.
OpenFd(c) ==
    /\ c \notin open
    /\ open' = open \cup {c}
    /\ UNCHANGED <<alive, chans, index, events, kernel, ctlFailed, returned, active>>

\* ::close(fd) once its Channel is gone; the kernel drops it from the list.
CloseFd(c) ==
    /\ c \in open \ alive
    /\ open' = open \ {c}
    /\ kernel' = RestrictDomain(kernel, LAMBDA f : f # c)
    /\ UNCHANGED <<alive, chans, index, events, ctlFailed, returned, active>>

\* new Channel(loop, fd): index_ = kNew, events_ = 0.
NewChannel(c) ==
    /\ c \in open \ alive
    /\ alive' = alive \cup {c}
    /\ index' = [index EXCEPT ![c] = kNew]
    /\ events' = [events EXCEPT ![c] = kNoneEvent]
    /\ UNCHANGED <<open, chans, kernel, ctlFailed, returned, active>>

SetInterest(c, ev) ==
    /\ c \in alive
    /\ UpdateChannel(c, ev)
    /\ UNCHANGED <<open, alive, returned, active>>

\* enableReading / enableWriting / disableWriting / disableAll.
EnableReading(c)  == SetInterest(c, events[c] | kReadEvent)
EnableWriting(c)  == SetInterest(c, events[c] | kWriteEvent)
\* Faulty variant: events_ -= kWriteEvent, whether or not it was set.
DisableWritingUnmasked(c) == SetInterest(c, events[c] - kWriteEvent)
DisableWriting(c) == SetInterest(c, events[c] - (events[c] & kWriteEvent))
DisableAll(c)     == SetInterest(c, kNoneEvent)

\* disableAll() has run; loop_->removeChannel(); the Channel is destroyed.
Remove(c) ==
    /\ c \in alive
    /\ events[c] = kNoneEvent
    /\ RemoveChannel(c)
    /\ alive' = alive \ {c}
    /\ UNCHANGED <<open, events, returned, active>>

\* poll(): epoll_wait returns the watched fds the kernel finds ready;
\* EPOLLHUP and EPOLLERR are reported whatever the mask, so any subset of
\* the interest list may come back.  It never returns -1: the library
\* installs no signal handler to interrupt it.  The branch that fills
\* activeChannels is taken only when numEvents < 0, so nothing is reported.
Poll ==
    /\ \E r \in SUBSET DOMAIN kernel : returned' = r
    /\ active' = {}
    /\ UNCHANGED <<open, alive, chans, index, events, kernel, ctlFailed>>

Next ==
    \/ Poll
    \/ \E c \in Fds :
        \/ OpenFd(c) \/ CloseFd(c) \/ NewChannel(c)
        \/ EnableReading(c) \/ EnableWriting(c)
        \/ DisableWriting(c) \/ DisableAll(c)
        \/ Remove(c)

Spec == Init /\ [][Next]_vars

----------------------------------------------------------------------------
(* Properties.                                                             *)

\* The kernel's interest list, channels_ and the channels' tags agree: the
\* list holds exactly the live channels tagged kAdded, each with its
\* current events_, and channels_ holds exactly the live channels that
\* have ever been updated.  Checked across every order of enable/disable,
\* removeChannel(), close() and reuse of the fd by a new Channel.
InterestListMirrorsTags ==
    /\ DOMAIN kernel = {c \in alive : index[c] = kAdded}
    /\ \A c \in DOMAIN kernel : kernel[c] = events[c]
    /\ chans = {c \in alive : index[c] # kNew}

\* No epoll_ctl call made by updateChannel() or removeChannel() fails:
\* removing a descriptor and re-adding one with the same number is an ADD,
\* never a MOD of an absent entry or a second ADD (spec 8).
NoCtlError == ~ctlFailed

====
