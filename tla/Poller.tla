------------------------------- MODULE Poller -------------------------------
(***************************************************************************)
(* The poll(2) backend of src/muduo/Poll.cpp with the Channel operations  *)
(* that drive it (Channel.h enable/disable, Channel::handleEvent).         *)
(*                                                                         *)
(* Channels are named by their fd.  pollfds_ is a sequence of pollfd       *)
(* records whose fd is the channel's fd, or -fd-1 while it is ignored;    *)
(* index_ is the channel's 0-based position in pollfds_, -1 when new.     *)
(* A channel user (wakeup and timerfd channels, Connector, TcpConnection) *)
(* calls enableReading/enableWriting/disableWriting/disableAll in any     *)
(* order, and disableAll() then removeChannel() before it destroys the    *)
(* Channel; the fd may then be reused by a new Channel.  One poll round   *)
(* is seen one active channel at a time: handleEvent of one channel does  *)
(* not read the state of another.                                          *)
(***************************************************************************)
EXTENDS Integers, Sequences, FiniteSets, Bitwise, TLC

CONSTANTS
    Fds,       \* file descriptors (non-negative integers)
    ReadCb     \* channels with a read callback (all but Connector's)

ASSUME Fds \subseteq Nat /\ ReadCb \subseteq Fds

\* <poll.h> bits (Linux values) and the masks of Channel.cpp.
POLLIN   == 1
POLLPRI  == 2
POLLOUT  == 4
POLLHUP  == 16
POLLRDHUP == 8192
kNoneEvent  == 0
kReadEvent  == POLLIN \div POLLPRI
kWriteEvent == POLLOUT

\* What the kernel may find ready on a watched fd, as a revents-style mask.
ReadyMasks == {i + o + h : i \in {0, POLLIN}, o \in {0, POLLOUT}, h \in {0, POLLHUP}}

VARIABLES
    pollfds,    \* Poller::pollfds_ : sequence of [fd, events]
    chans,      \* the keys of Poller::channels_
    index,      \* Channel::index_ of each live channel
    events,     \* Channel::events_
    alive,      \* fds with a live Channel object
    handling    \* Channel::eventHandling_

vars == <<pollfds, chans, index, events, alive, handling>>

Masks == {0, kReadEvent, kWriteEvent, kReadEvent | kWriteEvent}

TypeOK ==
    /\ pollfds \in Seq([fd : {f : f \in Fds} \cup {-f - 1 : f \in Fds},
                        events : Masks])
    /\ chans \subseteq Fds
    /\ alive \subseteq Fds
    /\ index \in [Fds -> -1..Cardinality(Fds)]
    /\ events \in [Fds -> Masks]
    /\ handling \in [Fds -> BOOLEAN]

Init ==
    /\ pollfds = <<>>
    /\ chans = {}
    /\ alive = {}
    /\ index = [f \in Fds |-> -1]
    /\ events = [f \in Fds |-> kNoneEvent]
    /\ handling = [f \in Fds |-> FALSE]

----------------------------------------------------------------------------
(* Poller::updateChannel and Poller::removeChannel.                        *)

\* Faulty variant: the swapped pollfd's fd used without undoing -fd-1.
DecodeRaw(fd) == fd

\* removeChannel(): an ignored pollfd's fd is -fd-1; recover the channel.
Decode(fd) == IF fd < 0 THEN -fd - 1 ELSE fd

\* The pollfds_ after updateChannel() of a registered channel c with mask
\* ev: the new mask, and the fd negated when the mask is empty (left as it
\* was otherwise).
Updated(c, ev) ==
    LET i == index[c] + 1 IN
    [pollfds EXCEPT ![i] = [fd |-> IF ev = kNoneEvent THEN -c - 1
                                                      ELSE pollfds[i].fd,
                            events |-> ev]]

\* updateChannel(c) after the caller set events_ to ev.  A new channel is
\* appended with its real fd, whatever its mask.
UpdateChannel(c, ev) ==
    /\ events' = [events EXCEPT ![c] = ev]
    /\ IF index[c] < 0
         THEN /\ pollfds' = Append(pollfds, [fd |-> c, events |-> ev])
              /\ index' = [index EXCEPT ![c] = Len(pollfds)]
              /\ chans' = chans \cup {c}
         ELSE /\ pollfds' = Updated(c, ev)
              /\ UNCHANGED <<index, chans>>

\* removeChannel(c) on the pollfds_ pfds: the assertions on index_ and on
\* the ignored pollfd, erase from channels_, then pop the pollfd, or move
\* the last pollfd into its slot and fix that channel's index.
RemoveChannel(c, pfds) ==
    LET i    == index[c] + 1
        n    == Len(pfds)
        last == pfds[n]
    IN /\ Assert(/\ index[c] \in 0..n - 1
                 /\ pfds[i].fd = -c - 1 /\ pfds[i].events = kNoneEvent
                 /\ c \in chans,
                 "Poller::removeChannel assertion failed")
       /\ chans' = chans \ {c}
       /\ IF i = n
            THEN /\ pollfds' = SubSeq(pfds, 1, n - 1)
                 /\ UNCHANGED index
            ELSE /\ pollfds' = SubSeq([pfds EXCEPT ![i] = last], 1, n - 1)
                 /\ index' = [index EXCEPT ![Decode(last.fd)] = index[c]]

----------------------------------------------------------------------------
(* Channel users.                                                          *)

\* new Channel(loop, fd): index_ = -1, events_ = 0.
NewChannel(c) ==
    /\ c \notin alive
    /\ alive' = alive \cup {c}
    /\ index' = [index EXCEPT ![c] = -1]
    /\ events' = [events EXCEPT ![c] = kNoneEvent]
    /\ handling' = [handling EXCEPT ![c] = FALSE]
    /\ UNCHANGED <<pollfds, chans>>

EnableReading(c) ==
    /\ c \in alive
    /\ UpdateChannel(c, events[c] | kReadEvent)
    /\ UNCHANGED <<alive, handling>>

EnableWriting(c) ==
    /\ c \in alive
    /\ UpdateChannel(c, events[c] | kWriteEvent)
    /\ UNCHANGED <<alive, handling>>

\* Faulty variant: events_ -= kWriteEvent, whether or not it was set.
DisableWritingUnmasked(c) ==
    /\ c \in alive
    /\ UpdateChannel(c, events[c] - kWriteEvent)
    /\ UNCHANGED <<alive, handling>>

\* events_ &= ~kWriteEvent
DisableWriting(c) ==
    /\ c \in alive
    /\ UpdateChannel(c, events[c] - (events[c] & kWriteEvent))
    /\ UNCHANGED <<alive, handling>>

DisableAll(c) ==
    /\ c \in alive
    /\ UpdateChannel(c, kNoneEvent)
    /\ UNCHANGED <<alive, handling>>

\* connectDestroyed / removeAndResetChannel: channel_->disableAll() (events_
\* = 0, update()), then loop_->removeChannel(); the Channel is destroyed
\* afterwards.  Every caller registered the channel first.
Remove(c) ==
    /\ c \in alive
    /\ c \in chans
    /\ events' = [events EXCEPT ![c] = kNoneEvent]
    /\ RemoveChannel(c, Updated(c, kNoneEvent))
    /\ alive' = alive \ {c}
    /\ UNCHANGED handling

\* poll() reports the channel (revents = events & ready, POLLHUP always)
\* and the loop calls handleEvent(): eventHandling_ = true, then the read
\* branch returns readCallback_(...) without resetting it.
Dispatch(c) ==
    /\ c \in chans
    /\ pollfds[index[c] + 1].fd >= 0
    /\ \E ready \in ReadyMasks :
         LET rev == (pollfds[index[c] + 1].events & ready) | (ready & POLLHUP)
             readBranch == (rev & (POLLIN | (POLLPRI \div POLLRDHUP))) # 0
                             /\ c \in ReadCb
         IN /\ rev # 0
            /\ handling' = [handling EXCEPT ![c] = readBranch]
    /\ UNCHANGED <<pollfds, chans, index, events, alive>>

Next ==
    \E c \in Fds :
        \/ NewChannel(c)
        \/ EnableReading(c) \/ EnableWriting(c)
        \/ DisableWriting(c) \/ DisableAll(c)
        \/ Remove(c)
        \/ Dispatch(c)

Spec == Init /\ [][Next]_vars

----------------------------------------------------------------------------
(* Properties.                                                             *)

\* pollfds_, channels_ and every channel's index_ agree: each registered
\* channel's index_ points at a pollfd that holds its own fd (possibly as
\* -fd-1) and its current mask, and there is no other pollfd.  The
\* swap-with-last of removeChannel() must re-point the moved channel,
\* decoding an ignored fd, across any order of updates, removals and fd
\* reuse (spec 4.3).
IndexConsistent ==
    /\ chans \subseteq alive
    /\ Len(pollfds) = Cardinality(chans)
    /\ \A c \in chans :
         /\ index[c] \in 0..Len(pollfds) - 1
         /\ Decode(pollfds[index[c] + 1].fd) = c
         /\ pollfds[index[c] + 1].events = events[c]

\* A registered channel with a non-empty interest mask is watched by
\* poll(): its pollfd carries its real fd (spec 4.3: the backend reports
\* readiness for the registered interest).
PollerWatchesInterest ==
    \A c \in chans :
        events[c] # kNoneEvent => pollfds[index[c] + 1].fd = c

====
