# TLA+ models of muduo_cpp11_std

This directory holds TLA+ models of the reactor library under `src/muduo/`,
the TLC configurations that check them, and `PROJECT.json`, which maps every
modelled definition to the source lines it translates and lists the runs,
mutants, findings and hazards.

## The system

The library is a single-threaded reactor, with other threads that hand work to it.

* **EventLoop** (`EventLoop.cpp`): the loop runs `loop()`, which repeats
  `poll → handleEvent of active channels → dePendingFunctors()` while
  `!quit_`. Other threads call `queueInLoop()`/`runInLoop()`, which push a
  functor onto `pendingFunctors_` under `mutex_` and call `wakeup()`,
  meant to make the eventfd readable. `quit()` sets `quit_` and calls
  `wakeup()` too. **`wakeup()` writes a 4-byte `int`, which an eventfd
  refuses (EINVAL), so no wakeup is ever delivered.**
* **Channel** (`Channel.cpp`): one fd, its interest mask (`events_`) and
  callbacks. `enableReading()` ORs `kReadEvent` into the mask.
  **`kReadEvent` is `POLLIN/POLLPRI`, an integer division that equals 0.**
* **Poller** (`Poll.cpp`): the `poll(2)` backend. It keeps `pollfds_` and
  `channels_`. **EPoller** (`EPoll.cpp`) is an `epoll` backend that nothing uses.
* **TimerQueue** (`TimerQueue.cpp`, `Timer.*`): timers indexed twice. The
  set `timers_` holds `<expiration, Timer*>`, and the set `activeTimers_`
  holds `<Timer*, sequence>`. One timerfd is armed to the earliest
  expiration. `addTimer`/`cancel` go through `runInLoop`. `handleRead` runs
  the due timers, then `reset` re-inserts the repeating ones.
* **EventLoopThread / EventLoopThreadPool**: a thread that builds an
  EventLoop on its stack, publishes it and runs `loop()`. The pool
  distributes the loops round robin. `setThreadNum` is empty, so the pool is
  always empty.
* **Connector, TcpConnection, TcpServer, TcpClient** (`net/`): the connection
  layer on top of the loop. It calls `runInLoop`, `runAfter` and channel
  enable/disable.
* **Buffer, Timestamp, thread/**: a byte buffer, time values, and wrappers
  around pthreads.

## Modules

| module | models | state ↔ code |
|---|---|---|
| `EventLoop` | `EventLoop::loop`, `queueInLoop`, `wakeup`, `quit`, `dePendingFunctors`, `handleRead`; the channel masks and `Poller::poll` as seen by the loop | `pending` = `pendingFunctors_`, `functors` = the local vector swapped out, `wakeupFd` = eventfd counter non-zero, `active` = `activeChannels_`, `quit`/`calling`/`looping` = the members, `lpc` = position in `loop()`, `fpc` = a foreign thread between its push and its `wakeup()` |
| `MC_EventLoop` | two foreign threads and the loop thread as model values | |
| `Executor` | the promise of `queueInLoop` (spec 4.1): a FIFO executor; a running task may submit one | `queue`, `done`, `issued`; `EventLoop` instantiates it as `FIFO` |
| `TimerQueue` | `TimerQueue` and `Timer` entirely; `EventLoop::runAt/runAfter/runEvery/cancel` as inputs | `heap` = the Timer objects by address, `timers`/`activeTimers`/`cancelingTimers`/`callingExpiredTimers` = the members, `expired`+`nRun`+`batchNow` = the running `handleRead()`, `tfdDeadline`/`tfdReadable` = the timerfd, `pendingOps` = the `addTimerInLoop`/`cancelInLoop` functors queued by foreign threads |
| `MC_TimerQueue` | addresses {1,2}, the `NoTimer` model value | |
| `Poller` | `Poller::updateChannel`, `Poller::removeChannel`, the Channel enable/disable calls and `Channel::handleEvent`'s `eventHandling_` | `pollfds` = `pollfds_` (records with `fd`, possibly `-fd-1`, and `events`), `chans` = keys of `channels_`, `index`/`events`/`handling` = each Channel's `index_`/`events_`/`eventHandling_`, `alive` = fds with a live Channel object |
| `MC_Poller` | fds {0,1,2} (fd 0 is ignored as -1), fd 2 without a read callback | |
| `LoopThread` | `EventLoopThread::startLoop`, `threadFunc`, `~EventLoopThread`, with `Condition::wait`/`notify` and `Thread::join`; `EventLoop::loop`/`quit` reduced to `quit_` | `opc`/`cpc` = position of the owner and the child thread, `mu` = `mutex_` as in `Mutex`, `th` = `thread_` as in `Thread`, `loopPtr` = `loop_`, `quit` = the child loop's `quit_`, `result` = what `startLoop()` returned, `spurious` = spurious wakeups so far, `otherQuit` = a foreign `quit()` happened |
| `Mutex` | `MutexLock` (constructor, `lock`, `unlock`) and `Condition::wait` of `thread/Mutex.h`, `Condition.h`, as operators on a value | `locked` = the thread holding the pthread mutex, `holder` = `holder_` (0 = none) |
| `Atomic` | `detail::AtomicIntegerT` of `thread/Atomic.h` (every member function) as operators on `value_`, with the width of `int` (both `AtomicInt32` and `AtomicInt64` are `AtomicIntegerT<int>`) | a counter is its `value_`, a Bits-bit two's-complement integer; an operation that returns a value gives `<<result, value_'>>`. `TimerQueue` takes `s_numCreated_` from it |
| `Thread` | `muduo::Thread` of `thread/Thread.cpp` (constructor, `start`, `join`, `~Thread`, `runInThread`'s tid publication, `startThread`'s delete), as operators on a value | `started`/`joined` = the flags, `detached` = `~Thread` detached it, `tid` = `*tid_`, `data` = the `ThreadData`'s life |
| `MC_LoopThread` | `NULL` and the loop as model values | |
| `ThreadPool` | `EventLoopThreadPool::setThreadNum`, `start`, `getNextLoop` | `numThreads`/`started`/`loops`/`next` = the members; `asked` = the argument of the last `setThreadNum`, `got` = loops handed out |
| `MC_ThreadPool` | the base loop as a model value | |
| `Connector` | `Connector::start/startInLoop/connect/connecting/retry/handleWrite/handleError/removeAndResetChannel/resetChannel/stop/~Connector`, with `TcpClient::connect/stop/~TcpClient` as the user and one loop iteration split into its phases | `connect`/`state`/`retryDelay`/`timerId` = the members; `chan` = `channel_` (none, registered, removed but not yet reset); `sockOpen` = the socket fd; `armed`/`graceArmed` = timers in the TimerQueue; `pending`/`batch`/`lpc` = `pendingFunctors_`, the swapped batch and the loop phase; `aborted` = an `assert` failed |
| `MC_Connector` | the constants only | |
| `EPoller` | `EPoller::updateChannel`, `removeChannel`, `update`, `poll`, the Channel enable/disable calls, and the fds behind the channels (open, close, reuse) | `chans` = keys of `channels_`, `index` = `Channel::index_` (kNew/kAdded/kDeleted), `kernel` = the kernel's epoll interest list (fd → mask), `ctlFailed` = some `epoll_ctl` returned -1 (only logged), `returned`/`active` = what `epoll_wait` returned and what `poll` reported |
| `MC_EPoller` | fds {3,4,5} | |
| `Buffer` | `Buffer` (constructor, `readableBytes`/`writableBytes`/`prependableBytes`, `peek`, `retrieve`, `retrieveAll`, `append`, `ensureWritableBytes`, `makeSpace`, `hasWritten`) and `Buffer::readfd`, as operators on a value | a buffer is `[buf, r, w]` = `buffer_`, `readIndex`, `writeIndex`; no variables |
| `TcpConnection` | one connection from `TcpServer::newConnection` to its destruction: `connectEstablished`, `send`/`sendInLoop`, `shutdown`/`shutdownInLoop`, `handleRead`, `handleWrite`, `handleClose`, `TcpServer::removeConnection(InLoop)`, `connectDestroyed`, with `Channel::handleEvent`'s dispatch and `eventHandling_` | `state` = `state_`, `reading`/`writing` = the channel's interest, `registered` = in the Poller, `out`/`in` = the two Buffers, `pending` = the loop's queued functors for it, `inServer` = in `connections_`, `userRef` = the user holds a `TcpConnectionPtr`, `handling` = `eventHandling_`; the socket is `written`/`wrShut` (what the kernel took, write half shut) and `sockIn`/`peerSent`/`peerClosed` (the peer's side); `accepted`/`delivered` = bytes `sendInLoop` ran for and bytes `messageCallback` took; `crash` = what ended the process |
| `MC_TcpConnection` | buffers scaled to `kCheapPrepend = 1`, `kInitialSize = 2`, a 1-byte extrabuf; messages `<<1,2>>`, `<<3>>`; peer bytes `<<5,6,7>>` | |

**EventLoop.** There is one action per step of `loop()`: `Loop` (entry, `quit_ = false`),
`Exit`, `Poll`, `HandleEvents`, `SwapPending`, `RunFunctor` and `FinishPending`.
The foreign threads also have actions: `QueueInLoop` (the push under the lock),
`Wakeup` (the write after the lock) and `Quit`. Both write the eventfd
through `WakeupWrite`, which is `eventfd(2)`'s rule: a write shorter than
8 bytes fails and leaves the counter as it was, so `wakeupFd` stays false. `Poll` computes each
channel's `revents` as the real `poll(2)` would, `events & ready`. It uses the
integer masks of `Channel.cpp`, so the wakeup channel's mask is `0 | (1 \div 2) = 0`.
A second channel waits for writability, as `Connector::connecting` and
`TcpConnection::sendInLoop` set up. Its write callback may queue a functor from the
loop thread, as `TcpConnection::handleWrite` does. A functor may
queue another functor or call `quit()`.

**TimerQueue.** `ForeignAddTimer`/`ForeignCancel` run `addTimer`/`cancel` on another
thread. They allocate the Timer and append the queued functor. `DrainOp` is the loop
running that functor. `LoopAddTimer`/`LoopCancel` run the same calls on the loop thread,
inline. `handleRead` is split at the user callbacks:

* `HandleRead` covers `now`, `readTimerfd`, `getExpired` and `callingExpiredTimers_ = true`.
* `RunExpired` runs one callback. The callback may itself add or cancel a timer.
* `Reset` covers `callingExpiredTimers_ = false` and `reset()`.

The environment has two actions. `Tick` advances the clock. `TimerfdExpire` is the
kernel marking the timerfd readable at its deadline.

**Poller.** A channel user may create a Channel on a free fd (`NewChannel`).
It may call `enableReading`, `enableWriting`, `disableWriting` or `disableAll`
in any order. Each call sets `events_` and then runs `updateChannel`. It may
also `Remove` the channel: `disableAll`, then `removeChannel` (with its
assertions on `index_` and the ignored pollfd, as TLC `Assert`s), then the
Channel is destroyed, as `TcpConnection::connectDestroyed` and
`Connector::removeAndResetChannel` do. The fd can then be reused.
`Dispatch` is `poll` reporting one channel (`revents = events & ready`, with
`POLLHUP` always reported), followed by `handleEvent`. That sets
`eventHandling_` and returns early when it takes the read branch.

**LoopThread.** The owner thread runs `StartLoop` (`thread_.start()`), `OwnerLock`,
`OwnerCheck` (the `while (loop_ == nullptr)` test; waiting releases the mutex
in the same step, as `pthread_cond_wait` does), `OwnerRelock` (the wait
returning) and `OwnerUnlock` (return `loop_`). Later it runs the destructor:
`DtorQuit`, `DtorJoin` (`thread_.join()`) and `DtorMembers` (the members'
destructors: `~MutexLock`, `~Thread`). The child thread runs `ChildRunInThread`
(`runInThread` writes the child's tid into `tid_`), `ChildConstruct`, `ChildLock`,
`ChildPublish` (`loop_ = &loop; cond_.notify()`, which wakes the owner only if it
is waiting), `ChildUnlock`, `ChildLoopEnter` (`quit_ = false`), `ChildLoopExit` and
`ChildFinish` (`startThread` deletes the `ThreadData`; the thread ends).
The mutex is `Mutex.tla`'s pair of the pthread mutex and `holder_`:
`lock()` sets both, `unlock()` clears both, and `Condition::wait` releases
and retakes the pthread mutex without touching `holder_`. So while the owner
waits `holder_` still names it, and after the child's `unlock()` it is 0
although the owner holds the mutex again. `thread_` is `Thread.tla`'s value.
`DtorMembers` evaluates `~MutexLock`'s `assert(holder_ == 0)` as a TLC
`Assert`, so every run stops with an error if it ever fails.
`SpuriousWake` is a wait returning without a signal. `OtherQuit` is a holder of
the returned pointer calling `quit()`.

**ThreadPool.** `SetThreadNum` records the requested count and changes nothing,
because the body is empty. `Start` creates `numThreads_` threads; that count is
always 0. `GetNextLoop` is the round robin with its wrap-around.

**Connector.** The user thread runs `Start` (`TcpClient::connect` → `start()`:
`connect_ = true`, `runInLoop(startInLoop)` queued), `Stop` (`connect_ = false`,
`loop_->cancel(timerId_)` — `TimerQueue::cancel` queues `cancelInLoop`) and
`ClientDestroy` (`~TcpClient` without a connection: `stop()`, then
`runAfter(1, removeConnector)`, which keeps the last `ConnectorPtr` alive).
The loop runs one iteration at a time: `PollReturn`, then at most one event
(`FireRetry`: the retry timer calls `startInLoop`; `FireGrace`: the grace timer
drops the Connector, whose destructor cancels `timerId_` and asserts
`!channel_`; `ChannelEvent`: the connecting socket becomes writable or fails and
`handleWrite`/`handleError` run), then `Swap` and `RunFunctor` over the batch,
then `EndRun`. `connect()` meets one of three outcomes: progress
(`connecting`: a channel with write interest), a retryable errno (`retry`: close,
`runAfter(retryDelay)`, double the delay up to 30 s), or an unexpected errno
(close). After `MaxAttempts` sockets only the unexpected outcome remains,
which bounds the retries. Timers fire as the TimerQueue contract says, and the
order of two armed timers is free. In this build no timer and no channel
read event fires at all (`kReadEvent == 0`; see the disagreements below), so this
module checks Connector as if the reactor under it worked.

**EPoller.** The channel users act as in Poller. Three more actions model the fd:
`OpenFd` (`socket()`, `timerfd_create()`, `accept()`), `CloseFd` (after the Channel
is gone; the kernel drops the fd from the interest list) and fd reuse by a
new Channel. `Ctl` is `update()`: `epoll_ctl` ADD fails with EEXIST on a listed
fd, MOD and DEL fail with ENOENT on an absent one, and a failure is only logged.
`Poll` is `epoll_wait` returning any subset of the interest list (EPOLLHUP and
EPOLLERR ignore the mask). The code then takes the `numEvents < 0` branch only,
so nothing reaches `activeChannels`. EventLoop constructs a Poller
(`EventLoop.cpp:38`), so EPoller is checked against its own contract.

**Buffer.** Each member function is an operator from a buffer value to a
buffer value, so the connection's handlers compose them exactly as the code
calls them (`ReadFd` = `readv` into the writable space, then `append` of the
extrabuf part; `AppendBytes` = `ensureWritableBytes`, copy, `hasWritten`).
`MakeSpace` keeps both branches: resize to `writeIndex + len`, or move the
readable bytes down to `kCheapPrepend`. **`Buffer()` sets `writeIndex` to
`kInitialSize`, not `kCheapPrepend`**, so a fresh buffer holds
`kInitialSize - kCheapPrepend` readable zero bytes (1016 in the code): the
first `send` transmits them before the message, and the first
`messageCallback` receives them before the peer's data. The stream properties
below state the streams with that prefix.

**TcpConnection.** The loop thread has three actions: `RunFunctor` (the next
queued functor: `connectEstablished`, `sendInLoop(m)` or `shutdownInLoop`;
a functor bound to the raw `this` of a destroyed connection is a use after
free), `ReadEvent` (`handleEvent`'s read branch: `handleRead`, which on end
of stream runs `handleClose` → `removeConnection` → `removeConnectionInLoop`
→ `connectDestroyed`, all inline because `runInLoop` on the loop thread calls
directly; the branch returns without clearing `eventHandling_`) and
`WriteEvent` (the write branch, taken only when the socket is not readable:
`handleWrite`). The user thread runs `UserSendCheck` (the `state_ ==
kConnected` test of `send`), `UserSendQueue` (the `runInLoop` of
`sendInLoop`), `UserShutdown` and `UserDrop`; `send` is split there because
the test and the queueing are separate reads of shared state. The peer
writes bytes (`PeerWrite`) and closes (`PeerClose`). `::write` returns any
prefix length, `-1` with `EWOULDBLOCK` (taken as 0), or raises SIGPIPE once
the write half is shut or the peer has gone; nothing in the library ignores
SIGPIPE. The reactor is taken to report readiness as its contract says
(with `kReadEvent == 0` this build would report no read at all).

In TimerQueue, the two structures that matter for correctness are modelled as
the code has them:

* Timer addresses are small integers, and a freed address can be reused. The
  ordered pair `<exp, address>` is the order of `std::set<Entry>`.
* `Timer::restart(now)` uses the handling time.

## Runs

| run | cfg | expect | what it shows |
|---|---|---|---|
| `eventloop_functors` | `EventLoop.cfg` | pass | `ImplementsExecutor`: the loop implements the abstract FIFO executor of `Executor.tla` under the mapping queue = swapped batch ⧺ `pendingFunctors_`, done = functors run, issued = functors queued; so every functor runs once, in the global order of the pushes, across threads, the swap and pushes from inside a running batch (this subsumes "each functor in exactly one place" and per-thread FIFO). `TaskEventuallyRuns`: a queued functor eventually runs unless `quit()` is called; in this build that is through the poll timeout, since no wakeup is delivered. |
| `eventloop_lost_wakeup` | `EventLoop_NoLostWakeup.cfg` | violation | `NoLostWakeup`: a foreign `queueInLoop` pushes and calls `wakeup()`; the 4-byte write to the eventfd fails, and the loop goes back to `poll` with the functor pending and nothing to report, so it waits for the 10 s timeout (spec 4.1 says the wakeup breaks the wait). `kReadEvent == 0` would hide the wakeup channel even if the write succeeded. |
| `timerqueue` | `TimerQueue.cfg` | pass | `IndexesAgree`: `timers_` and `activeTimers_` hold the same timers, with current keys. `AllDueTaken`: `getExpired(now)` takes every timer due at `now`, including those due exactly now at any address (the sentry is `<now, UINTPTR_MAX>`). `OneShotFiresOnce`: a one-shot timer fires at most once. `CanceledStaysCanceled`: a timer cancelled during its own expiry batch is not rescheduled by `reset()`. `NoLostTimer`: a live timer is always active, in the batch or queued for insertion, even when a stale id's address has been reused. `TimerfdNotLate`: the timerfd is never armed later than the earliest timer. |
| `poller_index` | `Poller.cfg` | pass | `TypeOK`: masks, indexes and pollfds keep their types (its mutant is a `disableWriting` that subtracts an unset bit). `IndexConsistent`: `pollfds_`, `channels_` and every `index_` agree, with the swap-with-last fixup decoding `-fd-1`, across any order of updates, removals and fd reuse; `removeChannel`'s assertions hold on every removal. |
| `poller_reenable_ignored` | `Poller_PollerWatchesInterest.cfg` | violation | a channel whose mask became empty keeps the negated fd when interest is enabled again, so `poll` never watches it. For a TcpConnection this happens at the second partial `send` after `handleWrite`'s `disableWriting()`. |
| `loopthread` | `LoopThread.cfg` | pass | `StartLoopReturnsLoop`: `startLoop()` never returns `nullptr`, even after spurious wakeups, and by then `thread_.tid()` names the child. `StartLoopReturns`: it always returns, because the notify cannot fall between the owner's test and its wait. `~MutexLock`'s `assert(holder_ == 0)` is checked as an `Assert` on every path and holds. |
| `loopthread_dtor_hang` | `LoopThread_DestructorCompletes.cfg` | violation | `startLoop()` returns once `loop_` is published, before the child enters `loop()`. A destructor that runs then sets `quit_`, `loop()` clears it, and `join()` waits forever. |
| `connector` | `Connector.cfg` | pass | `NoAssertionFailure`: for one `start()`, with `stop()` and `~TcpClient()` at any point, retry timers, queued start/cancel/reset functors and socket completions never trip a Connector `assert`. `ConnectingOwnsSocket`: the socket and its registered channel exist exactly while `kConnecting`. `StopSettles`: after `stop()` the Connector eventually holds no socket, channel or retry timer, unless it was destroyed first |
| `connector_destroy_connecting` | `Connector_ConnectorIdleAtDestroy.cfg` | violation | `~TcpClient()` during a pending connect: `stop()` does not abandon the connect, so `removeConnector`'s one-second timer can drop the last `ConnectorPtr` while `channel_` is set, and `~Connector`'s `assert(!channel_)` fails |
| `epoller` | `EPoller.cfg` | pass | `InterestListMirrorsTags`: the kernel interest list holds exactly the live channels tagged kAdded, with their current masks, and `channels_` exactly the ever-updated live ones. `NoCtlError`: no `epoll_ctl` call fails, so removing an fd and re-adding one with the same number is an ADD (spec 8). Both hold across every order of interest changes, removals, closes and fd reuse |
| `tcpconnection` | `TcpConnection.cfg` | pass | `StreamIntact`: the bytes the kernel took plus `outputBuffer_` are exactly the accepted messages, in order, through direct, partial and buffered writes and both branches of `makeSpace`. `DeliveredInOrder`: what `messageCallback` took, `inputBuffer_` and the socket are exactly the peer's bytes, through `readfd`'s extrabuf split. `AcceptedDrainedAtShutdown`: while open, the write half is shut only with no accepted byte buffered. `PeerCloseHandled`: a peer close eventually removes the connection and its channel. `OutputDrains`: write interest is eventually dropped. `AcceptedEventuallyWritten`: every accepted byte is eventually handed to the kernel, however short the direct write in `sendInLoop` was. (Each unless the process died first.) 8.6k states. |
| `tcpconnection_fatal` | `TcpConnection_NoFatalError.cfg` | violation | `NoFatalError`: the user calls `shutdown()` and drops its pointer, the peer closes, and the read event's `handleClose` destroys the connection inside `handleEvent`; `~Channel` asserts `!eventHandling_`. Had the user kept the pointer, dropping it later fails the same assert, since the read branch returns without clearing the flag. The same model also reaches SIGPIPE (`send`, `send`, `shutdown`: `handleWrite` drains the first message, sees `kDisconnecting` and shuts the write half before the second `sendInLoop` writes), a `sendInLoop` on a freed connection, and `Poller::updateChannel`'s assert for `enableWriting` on a removed channel |

Other disagreements showed up while modelling. They are listed as hazards in
`PROJECT.json`, with a note, but are not kept as runs:

* `loop()` can return with functors still pending.
* `Timer::restart` drifts.
* Timers with equal expirations fire in address order, not creation order.
* A new channel with an empty mask is still polled for `POLLHUP`.
* A second `start()` after `stop()` can meet the first attempt's retry
  timer or socket and trip `assert(state_ == kDisconnected)` in
  `startInLoop`/`retry`. `Connector.tla` shows it with `MaxStarts = 2`.
* `EPoller::poll` fills `activeChannels` only when `epoll_wait` fails.
* `TcpClient` never calls `connector_->setNewConnectionCallback`, so a
  connect that succeeds calls an empty `std::function`.
* `MutexLock::holder_` is documented as the thread holding the lock, but
  `Condition::wait` leaves it alone: it names the waiting owner while the
  mutex is free, and is 0 while the owner holds the mutex after the wait.
  `isLockedByThisThread`/`assertLocked` would answer wrongly there; nothing
  calls them, so only `~MutexLock`'s assertion depends on it, and that holds.
* The destructor of an `EventLoopThread` whose loop was already quit writes
  into the destroyed EventLoop.
* `kReadEvent` is `POLLIN/POLLPRI == 0`, so `poll` never reports the wakeup
  eventfd, the timerfd or a socket's input; a wakeup from another thread
  takes effect only at the 10 s poll timeout (spec 4.1 says it breaks the
  wait). `EventLoop.tla`'s `Poll` uses the code's masks; the
  `eventloop_lost_wakeup` run shows the lost wakeup, which the failing
  eventfd write causes on its own.
* A `cancel()` does not stop a timer whose insert is still queued behind a
  foreign `addTimer`, nor one already taken into the running expiry batch.
  Spec 4.4 and spec 5 allow both (only the reschedule of a timer cancelled
  in its batch is suppressed, which `CanceledStaysCanceled` checks), so
  they are not findings.
* `EventLoopThreadPool::setThreadNum` has an empty body, so after
  `setThreadNum(4)` and `start()` every `getNextLoop()` returns the base
  loop (spec 9 expects workers 0,1,2,3,0,...). `ThreadPool.tla` reaches
  this; the run that showed it gave its place to TcpConnection.
* `Buffer()` leaves `kInitialSize - kCheapPrepend` zero bytes readable (see
  Buffer above).
* `Buffer::shrink` copies the readable bytes to `kCheapPrepend` of a new
  vector but leaves `readIndex` and `writeIndex` as they were, so after a
  retrieve the readable range is wrong, and `writeIndex` can lie past the
  new end. Nothing calls `shrink`, so no module models it.
* `Timer::s_numCreated_` is declared `AtomicInt64`, but that typedef is
  `AtomicIntegerT<int>`: sequences are 32-bit and repeat after 2^32 timers
  (spec.md's Timer entity calls it a monotonically increasing integer, and
  says a TimerId of a fired one-shot timer is inert). A
  `TimerId` kept from a freed timer then matches a new timer at the same
  address, and `cancel()` removes the wrong one. `TimerQueue.tla` takes
  sequences from `Atomic`'s wrapping `incrementAndGet`, but its runs create
  three timers with `Bits = 8`, so the wrap is out of their reach.

Each property of a passing run has a mutant in `PROJECT.json`. A mutant is
a faulty variant of one mapped definition, written just before that definition,
and TLC finds the property violated when it is substituted in. The variants are:

* the swap copies instead of moving, or reverses, or loses the batch (the
  first two break `ImplementsExecutor`);
* `getExpired` forgets `activeTimers_`, or builds its sentry with a null `Timer*`;
* `reset` ignores `repeat()`, or ignores `cancelingTimers_`;
* `cancelInLoop` matches by address only;
* `insert` reports a new earliest timer only when the set was empty;
* `removeChannel` uses the moved pollfd's fd without decoding `-fd-1`;
* `disableWriting` subtracts the bit whether or not it is set;
* `startLoop` waits with `if` instead of `while`;
* `threadFunc` publishes `loop_` without `notify()`;
* `retry` leaves `state_` at `kConnecting`;
* `handleWrite` leaves the socket open after success;
* `removeAndResetChannel` does not queue `resetChannel`;
* `removeChannel` keeps the `channels_` entry, or issues `EPOLL_CTL_DEL`
  whatever the tag;
* `EPoller`'s `disableWriting` subtracts the bit whether or not it is set;
* `retrieve` advances one byte too far (the type invariant);
* `makeSpace` copies from `begin()` instead of `begin() + readIndex`;
* `readfd` drops the part that went to extrabuf;
* `shutdownInLoop` shuts the write half even while writing;
* `handleRead` ignores a read of 0 bytes;
* `handleWrite` keeps write interest after the buffer drains.
* `sendInLoop` buffers the rest of a short write without enabling write
  interest.

## Bounds

* **Poller:** three fds, enough for a swap-with-last that moves an ignored
  pollfd and for reuse of a removed fd. The run has 1.2k states. Every state has a
  successor, so deadlock is checked.
* **EventLoop:** two foreign threads and `MaxTasks = 3`. That is enough for
  two producers to interleave with a loop-thread push, and for a push to
  happen during `dePendingFunctors`. The run has 8k states.
* **LoopThread:** one owner, one child, and at most two spurious wakeups. With the `Mutex` and `Thread` layers the run has 156 distinct states, and every order of the owner's wait against the child's `lock`/`unlock` is among them.
  Two spurious wakeups are enough for one both before and after the child
  takes the mutex.
* **ThreadPool:** requested counts {0, 4} and three `getNextLoop()` calls
  (no run at present).
* **Connector:** `MaxAttempts = 3` sockets, so a retry can follow a retry
  and the backoff doubles twice; one `start()`; `ClientDtor = TRUE`, so
  the destructor and its grace timer race everything else. The run has
  621 states.
* **EPoller:** three fds, enough for one fd to be removed, closed and
  reused while the others are registered, deleted or new. The run has
  1.7k states. `Poll` is always enabled, so deadlock is checked.
* **TcpConnection:** `kCheapPrepend = 1`, `kInitialSize = 2` and a one-byte
  extrabuf keep the code's shape (a fresh buffer with one stale readable
  byte and one writable byte): the two-byte first message needs
  `makeSpace` to grow the buffer, a later append after a partial
  `handleWrite` takes the move branch (its mutant is found), and three peer
  bytes overflow into extrabuf. Two messages are the fewest for the
  send/shutdown race. One user thread is enough for every crash the model
  records. 8.6k states, under 10 s.
* **TimerQueue:** two addresses and three timers, so an address is reused by
  the third timer. Delays {0,1,2} and intervals {0,1} give a timer due
  immediately, a repeating timer, equal expirations, and a new timer earlier
  than the current earliest that still lies beyond the 100us floor. The clock
  runs to 4 and there are at most 2 cancels. The run has 1.8M states and
  takes about a minute.

Deadlock is not checked for EventLoop, TimerQueue, LoopThread, Connector and TcpConnection. For LoopThread, the
owner's `done` is the end of the destructor. `loop()` returning (`lpc = "exited"`) is a real end
state of the loop thread. An idle timer queue, with nothing pending and the
clock at its bound, has nothing left to do. A Connector whose attempts and
starts are spent, or which has been destroyed, has nothing left to do either.
A TcpConnection ends when the process dies or when it is closed, drained
and dropped.

## Fairness

`EventLoop` assumes weak fairness on the loop thread's steps. The loop thread
is never blocked forever: `poll` returns after `kPollTimeMs` even with no
event, so every enabled loop step is eventually taken. No fairness is assumed
for foreign threads, since they may stop calling. `TimerQueue` states safety
properties only. `LoopThread` assumes weak fairness on each of the two
threads, because the OS schedules both. Spurious wakeups and a foreign `quit()`
are not fair: they may or may not happen.

`Connector` assumes weak fairness on the loop's swap, functor and end-of-run
steps, and on returning from `poll` when functors are pending (the wakeup
write would, but in this build only the poll timeout ends the wait). Firing a due timer and
delivering the socket's completion get strong fairness. Those steps are
enabled only in the poll phase of an iteration, so they are enabled
intermittently, and `poll` does report a ready fd in a later round. The
user thread gets no fairness.

`TcpConnection` assumes weak fairness on `RunFunctor`, `ReadEvent` and
`WriteEvent`: the loop runs queued functors every iteration, and `poll`
reports a readable or writable socket with that interest in the next
round. The user thread and the peer get none; they may stop at any point.

The wakeup eventfd is never written (`wakeup()`'s write is too short) and
would never be reported (`kReadEvent == 0`), so `TaskEventuallyRuns` holds
only through the poll timeout, which the weak fairness of the loop thread
stands for.

## Not modelled, and the plan

1. Done: **Poller + Channel**. The order of `fillActiveChannels` within one
   round is not modelled, because the callbacks of different channels share
   no state in these modules.
2. Done: **EPoller** (kNew/kAdded/kDeleted, `epoll_ctl` failures, fd
   reuse, the inverted `numEvents < 0` test). Left: a refinement to an
   abstract "interest set" spec that both backends should implement.
3. **Reactor**: EventLoop composed with Poller and TimerQueue. With
   `kReadEvent == 0` the timerfd channel is never reported, so a timer never
   fires. TimerQueue is checked standalone here, with the timerfd readable
   when it expires.
4. Done: **EventLoopThread / Pool**. The use-after-move in `start()` is
   unreachable while `setThreadNum` is empty, and is left as a hazard.
5. Done: **Connector** with TcpClient's `connect`/`stop`/destructor.
   Left: the backoff values themselves (`retryDelayMs_` is only bounded).
6. Done: **TcpConnection**, with TcpServer's `newConnection` (the initial
   state) and `removeConnection` (the close path). Left: a connection on a
   loop of its own (a pool), where `removeConnection` and
   `connectDestroyed` are queued across threads. Nothing in this build
   creates a TcpConnection. `Acceptor` has no
   implementation and its `setNewConnectionCallback` is empty,
   `TcpServer::threadPool_` is never constructed, and `TcpClient` never
   wires the Connector's callback. So the model checks the connection
   against its own contract.
7. Done: **Buffer**, as operators used by TcpConnection; the stream
   properties are its check against a plain byte sequence. `prepend`,
   `retrieveUntil`, `shrink` and `swap_demo` have no caller and are left
   out.

Out of reach or pure I/O: sockets (`Socket.h`, `InetAddress.h`, `Acceptor.h`
has declarations only), logging and time formatting. Of the pthread
wrappers, `Condition::waitForSeconds` and `notifyAll` are never called,
`pthread_create` failing aborts the process, thread names and `afterFork`
only feed logging, and `AtomicInt32` only counts `Thread::numCreated_`,
which nothing reads. `Atomic.tla` models `AtomicIntegerT` itself; a 32-bit
width is out of TLC's integers (2^32 does not fit), so runs use `Bits = 8`,
which no run's counter comes near. Outside `LoopThread` a region under `MutexLockGuard` is one
atomic step.

What stays partly modelled, and why no further module would be faithful:
`Timestamp` converts seconds given as `double` to microseconds in an
`int64_t`, which neither TLC's 32-bit integers nor an identity conversion
can stand for, so time stays a discrete clock. `TcpClient`'s
`newConnection`, `removeConnection` and `disconnect` only act on a
`connection_` that nothing ever sets. `EventLoopThreadPool` has no run: its
one behaviour, `getNextLoop` always returning the base loop, is recorded
above. The 32-bit wrap of timer sequences needs 2^32 timers or a
width small enough to reach it in its own run.

Two simplifications:

* In `TimerQueue`, functors queued by foreign threads are executed one at a
  time (`DrainOp`) rather than in swapped batches. That is the functor order
  `EventLoop` checks.
* A timer callback is one of three things: it does nothing, it cancels a
  timer, or it adds a timer.
