------------------------------ MODULE Connector ------------------------------
(***************************************************************************)
(* Connector of src/muduo/net/Connector.cpp inside its EventLoop, with     *)
(* the calls TcpClient makes on it (connect -> start, stop, and the        *)
(* destructor's stop + runAfter(1, removeConnector)).                      *)
(*                                                                         *)
(* The loop is one thread that repeats: poll and handle one event (a due  *)
(* timer or the connecting socket's channel), swap pendingFunctors_, run   *)
(* the batch (EventLoop.tla checks that machinery).  The user thread's    *)
(* start()/stop() reach the loop through queueInLoop.  Timers fire as the *)
(* TimerQueue contract says (TimerQueue.tla): a timer cancelled before it *)
(* fires never fires, and the order of two armed timers is not fixed.     *)
(* Each connect() creates a fresh socket; at most MaxAttempts of them     *)
(* connect, later ones meet an unexpected errno and are closed.           *)
(***************************************************************************)
EXTENDS Naturals, Sequences

CONSTANTS
    MaxAttempts,   \* sockets whose connect() may progress or be retried
    MaxStarts,     \* start() calls the user thread makes
    ClientDtor     \* whether the user destroys the TcpClient

kInitRetryDelayMs == 500
kMaxRetryDelayMs  == 30000

States == {"kDisconnected", "kConnecting", "kConnected"}

\* Functors queued on the loop for this Connector.
Functors == {[op |-> "start"], [op |-> "reset"], [op |-> "grace"]}
            \cup [op : {"cancel"}, id : 0..MaxAttempts + MaxStarts]

VARIABLES
    connect,     \* connect_
    state,       \* state_
    chan,        \* channel_: "none", "live" (registered) or "removed"
    sockOpen,    \* the Connector owns an open socket
    retryDelay,  \* retryDelayMs_
    timerId,     \* timerId_: the attempt whose retry timer it names, 0 = none
    armed,       \* retry timers in the TimerQueue, by attempt
    graceArmed,  \* removeConnector's 1 s timer is in the TimerQueue
    destroyed,   \* ~Connector() has run
    pending,     \* pendingFunctors_
    batch,       \* the swapped-out functors being run
    lpc,         \* where the loop is: "poll", "swap" or "run"
    attempts,    \* sockets created so far
    starts,      \* start() calls so far
    running,     \* the user called start() and not stop() since
    handed,      \* a connected socket was passed to newConnectionCallback_
    clientGone,  \* ~TcpClient() has run
    aborted      \* an assert() in a Connector handler failed

vars == <<connect, state, chan, sockOpen, retryDelay, timerId, armed,
          graceArmed, destroyed, pending, batch, lpc, attempts, starts,
          running, handed, clientGone, aborted>>

TypeOK ==
    /\ connect \in BOOLEAN
    /\ state \in States
    /\ chan \in {"none", "live", "removed"}
    /\ sockOpen \in BOOLEAN
    /\ retryDelay \in kInitRetryDelayMs..kMaxRetryDelayMs
    /\ timerId \in 0..MaxAttempts + MaxStarts
    /\ armed \subseteq 1..MaxAttempts + MaxStarts
    /\ graceArmed \in BOOLEAN
    /\ destroyed \in BOOLEAN
    /\ pending \in Seq(Functors)
    /\ batch \in Seq(Functors)
    /\ lpc \in {"poll", "swap", "run"}
    /\ attempts \in 0..MaxAttempts + MaxStarts
    /\ starts \in 0..MaxStarts
    /\ running \in BOOLEAN
    /\ handed \in BOOLEAN
    /\ clientGone \in BOOLEAN
    /\ aborted \in BOOLEAN

Init ==
    /\ connect = FALSE
    /\ state = "kDisconnected"
    /\ chan = "none"
    /\ sockOpen = FALSE
    /\ retryDelay = kInitRetryDelayMs
    /\ timerId = 0
    /\ armed = {}
    /\ graceArmed = FALSE
    /\ destroyed = FALSE
    /\ pending = <<>>
    /\ batch = <<>>
    /\ lpc = "poll"
    /\ attempts = 0
    /\ starts = 0
    /\ running = FALSE
    /\ handed = FALSE
    /\ clientGone = FALSE
    /\ aborted = FALSE

\* The process has stopped: a Connector assert() failed, or ~Connector()
\* found channel_ still set (assert(!channel_)).
Halted == aborted \/ (destroyed /\ chan # "none")

----------------------------------------------------------------------------
(* The Connector's loop-thread code.  Each operator below is a fragment  *)
(* of one loop step; the step's action fixes the remaining variables.     *)

\* An assert() fails: the process aborts.
Abort ==
    /\ aborted' = TRUE
    /\ UNCHANGED <<state, chan, sockOpen, retryDelay, timerId, handed>>

\* Faulty variant: retry() leaves state_ as it was.
RetryKeepState(id, base) ==
    /\ sockOpen' = FALSE
    /\ UNCHANGED state
    /\ IF connect
         THEN /\ timerId' = id
              /\ armed' = base \cup {id}
              /\ retryDelay' = IF retryDelay * 2 < kMaxRetryDelayMs
                                 THEN retryDelay * 2 ELSE kMaxRetryDelayMs
         ELSE /\ armed' = base
              /\ UNCHANGED <<timerId, retryDelay>>

\* retry(sockfd): close it, kDisconnected, and if connect_ arm a retry
\* timer named timerId_ and double the delay (capped).  base is the set of
\* armed timers at this point of the step.
Retry(id, base) ==
    /\ sockOpen' = FALSE
    /\ state' = "kDisconnected"
    /\ IF connect
         THEN /\ timerId' = id
              /\ armed' = base \cup {id}
              /\ retryDelay' = IF retryDelay * 2 < kMaxRetryDelayMs
                                 THEN retryDelay * 2 ELSE kMaxRetryDelayMs
         ELSE /\ armed' = base
              /\ UNCHANGED <<timerId, retryDelay>>

\* connecting(sockfd): kConnecting, assert(!channel_), a new Channel with
\* enableWriting().
Connecting(base) ==
    IF chan # "none"
      THEN Abort /\ armed' = base
      ELSE /\ state' = "kConnecting"
           /\ chan' = "live"
           /\ sockOpen' = TRUE
           /\ armed' = base
           /\ UNCHANGED <<retryDelay, timerId, handed, aborted>>

\* Outcomes of ::connect() on a fresh non-blocking socket, by errno class.
Outcomes == {"progress", "retryable", "unexpected"}

\* connect(): createNonblockingOrDie, ::connect, switch (savedErrno).
Connect(base) ==
    /\ attempts' = attempts + 1
    /\ \E o \in IF attempts < MaxAttempts THEN Outcomes ELSE {"unexpected"} :
         CASE o = "progress"  -> Connecting(base)
           [] o = "retryable" -> Retry(attempts + 1, base)
                                 /\ UNCHANGED <<chan, handed, aborted>>
           [] OTHER -> /\ armed' = base
                       /\ UNCHANGED <<state, chan, sockOpen, retryDelay,
                                      timerId, handed, aborted>>

\* startInLoop(): assert(state_ == kDisconnected); connect() if connect_.
StartInLoop(base) ==
    CASE state # "kDisconnected" -> Abort /\ UNCHANGED <<armed, attempts>>
      [] connect -> Connect(base)
      [] OTHER -> /\ armed' = base
                  /\ UNCHANGED <<state, chan, sockOpen, retryDelay, timerId,
                                 attempts, handed, aborted>>


\* Faulty variant: resetChannel() is not queued; channel_ is never reset.
RemoveAndResetChannelNoReset ==
    /\ chan' = "removed"
    /\ UNCHANGED pending

\* removeAndResetChannel(): disableAll(), removeChannel(), then
\* queueInLoop(resetChannel) so the Channel outlives its handleEvent().
RemoveAndResetChannel ==
    /\ chan' = "removed"
    /\ pending' = Append(pending, [op |-> "reset"])

\* Faulty variant: the socket of a connect that succeeded after stop() is
\* not closed.
HandleWriteNoClose(err) ==
    IF state = "kConnecting"
      THEN /\ RemoveAndResetChannel
           /\ IF err
                THEN Retry(attempts, armed) /\ UNCHANGED <<handed, aborted>>
                ELSE /\ state' = "kConnected"
                     /\ sockOpen' = ~connect
                     /\ handed' = (handed \/ connect)
                     /\ UNCHANGED <<retryDelay, timerId, armed, aborted>>
      ELSE /\ IF state = "kDisconnected"
                THEN UNCHANGED <<state, chan, sockOpen, retryDelay, timerId,
                                 armed, handed, aborted>>
                ELSE Abort /\ UNCHANGED <<chan, armed>>
           /\ UNCHANGED pending

\* handleWrite(): if kConnecting, remove the channel and read SO_ERROR
\* (err): retry on error, else kConnected and hand the socket to
\* newConnectionCallback_ if connect_, or close it.  Otherwise
\* assert(state_ == kDisconnected).
HandleWrite(err) ==
    IF state = "kConnecting"
      THEN /\ RemoveAndResetChannel
           /\ IF err
                THEN Retry(attempts, armed) /\ UNCHANGED <<handed, aborted>>
                ELSE /\ state' = "kConnected"
                     /\ sockOpen' = FALSE
                     /\ handed' = (handed \/ connect)
                     /\ UNCHANGED <<retryDelay, timerId, armed, aborted>>
      ELSE /\ IF state = "kDisconnected"
                THEN UNCHANGED <<state, chan, sockOpen, retryDelay, timerId,
                                 armed, handed, aborted>>
                ELSE Abort /\ UNCHANGED <<chan, armed>>
           /\ UNCHANGED pending

\* handleError(): assert(state_ == kConnecting), remove the channel, retry.
HandleError ==
    IF state = "kConnecting"
      THEN /\ RemoveAndResetChannel
           /\ Retry(attempts, armed)
           /\ UNCHANGED <<handed, aborted>>
      ELSE Abort /\ UNCHANGED <<chan, armed, pending>>

----------------------------------------------------------------------------
(* Loop steps.                                                             *)

\* A retry timer fires: the TimerQueue drops it and runs startInLoop().
FireRetry ==
    /\ ~Halted
    /\ lpc = "poll"
    /\ \E t \in armed : StartInLoop(armed \ {t})
    /\ lpc' = "swap"
    /\ UNCHANGED <<connect, graceArmed, destroyed, pending, batch, starts,
                   running, clientGone>>

\* removeConnector's timer fires: its callback does nothing, and deleting
\* the one-shot Timer drops the last ConnectorPtr: ~Connector() cancels
\* timerId_ (inline, in the loop thread) and asserts !channel_.
FireGrace ==
    /\ ~Halted
    /\ lpc = "poll"
    /\ graceArmed
    /\ graceArmed' = FALSE
    /\ destroyed' = TRUE
    /\ armed' = armed \ {timerId}
    /\ lpc' = "swap"
    /\ UNCHANGED <<connect, state, chan, sockOpen, retryDelay, timerId, pending,
                   batch, attempts, starts, running, handed, clientGone, aborted>>

\* poll() reports the connecting socket's channel; handleEvent() runs
\* handleWrite for POLLOUT, or handleError for POLLERR (the handleWrite
\* that follows for POLLOUT then sees kDisconnected and returns).
ChannelEvent ==
    /\ ~Halted
    /\ lpc = "poll"
    /\ chan = "live"
    /\ \/ \E err \in BOOLEAN : HandleWrite(err)
       \/ HandleError
    /\ lpc' = "swap"
    /\ UNCHANGED <<connect, graceArmed, destroyed, batch, attempts, starts,
                   running, clientGone>>

\* poll() returns with nothing for this Connector (timeout or wakeup).
PollReturn ==
    /\ ~Halted
    /\ lpc = "poll"
    /\ lpc' = "swap"
    /\ UNCHANGED <<connect, state, chan, sockOpen, retryDelay, timerId, armed,
                   graceArmed, destroyed, pending, batch, attempts, starts,
                   running, handed, clientGone, aborted>>

\* dePendingFunctors(): swap pendingFunctors_ out.
Swap ==
    /\ ~Halted
    /\ lpc = "swap"
    /\ batch' = pending
    /\ pending' = <<>>
    /\ lpc' = "run"
    /\ UNCHANGED <<connect, state, chan, sockOpen, retryDelay, timerId, armed,
                   graceArmed, destroyed, attempts, starts, running, handed,
                   clientGone, aborted>>

\* Run the next swapped functor: startInLoop, cancelInLoop(timerId),
\* resetChannel, or addTimerInLoop for removeConnector's timer.
RunFunctor ==
    /\ ~Halted
    /\ lpc = "run"
    /\ batch # <<>>
    /\ batch' = Tail(batch)
    /\ LET f == Head(batch) IN
       \/ /\ f.op = "start"
          /\ StartInLoop(armed)
          /\ UNCHANGED <<graceArmed, pending>>
       \/ /\ f.op = "cancel"
          /\ armed' = armed \ {f.id}
          /\ UNCHANGED <<state, chan, sockOpen, retryDelay, timerId, attempts,
                         handed, aborted, graceArmed, pending>>
       \/ /\ f.op = "reset"
          /\ chan' = "none"
          /\ UNCHANGED <<state, sockOpen, retryDelay, timerId, armed, attempts,
                         handed, aborted, graceArmed, pending>>
       \/ /\ f.op = "grace"
          /\ graceArmed' = TRUE
          /\ UNCHANGED <<state, chan, sockOpen, retryDelay, timerId, armed,
                         attempts, handed, aborted, pending>>
    /\ UNCHANGED <<connect, destroyed, lpc, starts, running, clientGone>>

EndRun ==
    /\ ~Halted
    /\ lpc = "run"
    /\ batch = <<>>
    /\ lpc' = "poll"
    /\ UNCHANGED <<connect, state, chan, sockOpen, retryDelay, timerId, armed,
                   graceArmed, destroyed, pending, batch, attempts, starts,
                   running, handed, clientGone, aborted>>

----------------------------------------------------------------------------
(* The user thread: TcpClient::connect(), stop(), ~TcpClient().          *)

\* connector_->start(): connect_ = true; runInLoop(startInLoop).
Start ==
    /\ ~Halted
    /\ ~clientGone
    /\ ~running
    /\ starts < MaxStarts
    /\ connect' = TRUE
    /\ running' = TRUE
    /\ starts' = starts + 1
    /\ pending' = Append(pending, [op |-> "start"])
    /\ UNCHANGED <<state, chan, sockOpen, retryDelay, timerId, armed,
                   graceArmed, destroyed, batch, lpc, attempts, handed,
                   clientGone, aborted>>

\* connector_->stop(): connect_ = false; cancel(timerId_), read here.
Stop ==
    /\ ~Halted
    /\ ~clientGone
    /\ running
    /\ connect' = FALSE
    /\ running' = FALSE
    /\ pending' = Append(pending, [op |-> "cancel", id |-> timerId])
    /\ UNCHANGED <<state, chan, sockOpen, retryDelay, timerId, armed,
                   graceArmed, destroyed, batch, lpc, attempts, starts, handed,
                   clientGone, aborted>>

\* ~TcpClient() with no connection_: connector_->stop(), then
\* runAfter(1, removeConnector(connector_)).
ClientDestroy ==
    /\ ~Halted
    /\ ClientDtor
    /\ ~clientGone
    /\ starts > 0
    /\ clientGone' = TRUE
    /\ connect' = FALSE
    /\ running' = FALSE
    /\ pending' = pending \o <<[op |-> "cancel", id |-> timerId], [op |-> "grace"]>>
    /\ UNCHANGED <<state, chan, sockOpen, retryDelay, timerId, armed,
                   graceArmed, destroyed, batch, lpc, attempts, starts, handed,
                   aborted>>

Loop == FireRetry \/ FireGrace \/ ChannelEvent \/ PollReturn \/ Swap
        \/ RunFunctor \/ EndRun

User == Start \/ Stop \/ ClientDestroy

Next == Loop \/ User

\* The loop thread always proceeds; poll() returns within kPollTimeMs when
\* functors are pending; a due timer and a resolved connect are reported
\* by some poll round (they are enabled in every "poll" phase).  The user
\* need not call anything.
Spec ==
    /\ Init /\ [][Next]_vars
    /\ WF_vars(Swap) /\ WF_vars(RunFunctor) /\ WF_vars(EndRun)
    /\ WF_vars(PollReturn /\ pending # <<>>)
    /\ SF_vars(FireRetry) /\ SF_vars(FireGrace) /\ SF_vars(ChannelEvent)

----------------------------------------------------------------------------
(* Properties.                                                             *)

\* No assert() of startInLoop, connecting, handleWrite or handleError
\* fails, however the retry timers, the queued start/cancel functors and
\* the socket's completion interleave with the user's start() and stop().
NoAssertionFailure == ~aborted

\* The Connector owns an open socket, and a registered Channel for it,
\* exactly while it is kConnecting: every path out of connecting
\* (SO_ERROR, POLLERR, success, success after stop()) closes or hands
\* over the socket and removes the channel.
ConnectingOwnsSocket ==
    /\ sockOpen <=> (state = "kConnecting")
    /\ (chan = "live") <=> (state = "kConnecting")

\* Nothing of this Connector is left in flight after it was stopped.
Quiet ==
    /\ state # "kConnecting"
    /\ chan = "none"
    /\ armed = {}
    /\ ~sockOpen

\* After stop() (or ~TcpClient()), the Connector eventually holds no
\* socket, no Channel and no retry timer, unless it is destroyed first.
StopSettles == (starts > 0 /\ ~running) ~> (Quiet \/ destroyed)

\* ~Connector() runs with channel_ reset (its assert(!channel_)): the
\* TcpClient destructor's one-second grace outlasts any connect attempt.
ConnectorIdleAtDestroy == destroyed => chan = "none"

====
