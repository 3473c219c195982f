----------------------------- MODULE EventLoop -----------------------------
(***************************************************************************)
(* The reactor loop of src/muduo/EventLoop.cpp: one loop thread running    *)
(* EventLoop::loop() and foreign threads that call queueInLoop() and      *)
(* quit().  The pending functor queue pendingFunctors_ is the only state   *)
(* written by several threads (under mutex_); the wakeup eventfd is the    *)
(* signal that should break the loop out of Poller::poll().               *)
(*                                                                         *)
(* Interest masks are the integers of Channel.cpp, so the wakeup channel's *)
(* mask is what enableReading() really stores: kReadEvent is               *)
(* POLLIN/POLLPRI, an integer division.                                    *)
(***************************************************************************)
EXTENDS Integers, Sequences, FiniteSets, Bitwise

CONSTANTS
    Foreign,      \* foreign threads (model values)
    LoopThread,   \* the loop's own thread (model value), producer of tasks
    MaxTasks      \* bound on the number of functors ever queued

ASSUME /\ LoopThread \notin Foreign
       /\ MaxTasks \in Nat \ {0}

\* <poll.h> bits and the masks of Channel.cpp.
POLLIN  == 1
POLLPRI == 2
POLLOUT == 4
kNoneEvent  == 0
kReadEvent  == POLLIN \div POLLPRI
kWriteEvent == POLLOUT

\* The wakeup channel after EventLoop() ran wakeupChannel_->enableReading().
WakeupEvents == kNoneEvent | kReadEvent
\* An I/O channel of a collaborator that waits for writability
\* (Connector::connecting, TcpConnection::sendInLoop call enableWriting()).
IoEvents == kNoneEvent | kWriteEvent

Producers == Foreign \cup {LoopThread}
TaskIds   == 1..MaxTasks

VARIABLES
    looping,        \* looping_
    quit,           \* quit_
    calling,        \* callingPendingFunctors
    pending,        \* pendingFunctors_ : sequence of task ids
    functors,       \* the local vector swapped out in dePendingFunctors()
    wakeupFd,       \* the eventfd counter is non-zero (readable)
    active,         \* activeChannels_ : subset of {"wakeup", "io"}
    lpc,            \* where the loop thread is in loop()
    fpc,            \* foreign thread: "idle" or "pushed" (between push and wakeup)
    nextTask,       \* next task id (history)
    producer,       \* producer of each queued task (history)
    ran             \* ids of executed functors, in execution order (history)

vars == <<looping, quit, calling, pending, functors, wakeupFd, active, lpc,
          fpc, nextTask, producer, ran>>

LoopStates == {"constructed", "check", "dispatch", "swap", "running", "exited"}

TypeOK ==
    /\ looping \in BOOLEAN
    /\ quit \in BOOLEAN
    /\ calling \in BOOLEAN
    /\ pending \in Seq(TaskIds)
    /\ functors \in Seq(TaskIds)
    /\ wakeupFd \in BOOLEAN
    /\ active \subseteq {"wakeup", "io"}
    /\ lpc \in LoopStates
    /\ fpc \in [Foreign -> {"idle", "pushed"}]
    /\ nextTask \in 1..MaxTasks + 1
    /\ producer \in [TaskIds -> Producers \cup {LoopThread}]
    /\ ran \in Seq(TaskIds)

Init ==
    /\ looping = FALSE
    /\ quit = FALSE
    /\ calling = FALSE
    /\ pending = <<>>
    /\ functors = <<>>
    /\ wakeupFd = FALSE
    /\ active = {}
    /\ lpc = "constructed"
    /\ fpc = [f \in Foreign |-> "idle"]
    /\ nextTask = 1
    /\ producer = [t \in TaskIds |-> LoopThread]
    /\ ran = <<>>

----------------------------------------------------------------------------
(* Helpers for queueInLoop(): the push under mutex_ and the new task id.   *)

Push(p) ==
    /\ nextTask <= MaxTasks
    /\ pending' = Append(pending, nextTask)
    /\ producer' = [producer EXCEPT ![nextTask] = p]
    /\ nextTask' = nextTask + 1

\* eventfd(2): write() adds an 8-byte value to the counter; a buffer of
\* fewer than 8 bytes fails with EINVAL and leaves the counter alone.
EventfdWrite(nonZero, nbytes) == nonZero \/ nbytes = 8

\* wakeup(): int one = 1; ::write(wakeupFd_, &one, sizeof one).  The
\* short write is only logged.
SizeofInt == 4
WakeupWrite(nonZero) == EventfdWrite(nonZero, SizeofInt)

\* queueInLoop(): if(!isInLoopThread() || callingPendingFunctors) wakeup();
QueueWakes(inLoopThread) == ~inLoopThread \/ calling

\* Faulty variants of the swap: the batch taken in reverse, the batch
\* lost, pendingFunctors_ copied instead of swapped.
BatchReversed(p) == [i \in 1..Len(p) |-> p[Len(p) - i + 1]]
BatchDropped(p) == <<>>
RemainingKept(p) == p

\* dePendingFunctors(): functors.swap(pendingFunctors_).  Batch is what
\* the loop thread takes, Remaining what it leaves in pendingFunctors_.
Batch(p) == p
Remaining(p) == <<>>

----------------------------------------------------------------------------
(* Foreign threads.                                                        *)

\* queueInLoop() from a foreign thread, first half: push under the lock.
QueueInLoop(f) ==
    /\ fpc[f] = "idle"
    /\ Push(f)
    /\ fpc' = [fpc EXCEPT ![f] = "pushed"]
    /\ UNCHANGED <<looping, quit, calling, functors, wakeupFd, active, lpc,
                   ran>>

\* queueInLoop() second half: !isInLoopThread() holds, so wakeup() is
\* called.
Wakeup(f) ==
    /\ fpc[f] = "pushed"
    /\ wakeupFd' = IF QueueWakes(FALSE) THEN WakeupWrite(wakeupFd) ELSE wakeupFd
    /\ fpc' = [fpc EXCEPT ![f] = "idle"]
    /\ UNCHANGED <<looping, quit, calling, pending, functors, active, lpc,
                   nextTask, producer, ran>>

\* quit() from a foreign thread: quit_ = true, then wakeup().
Quit(f) ==
    /\ fpc[f] = "idle"
    /\ ~quit
    /\ quit' = TRUE
    /\ wakeupFd' = WakeupWrite(wakeupFd)
    /\ UNCHANGED <<looping, calling, pending, functors, active, lpc, fpc,
                   nextTask, producer, ran>>

----------------------------------------------------------------------------
(* The loop thread.                                                        *)

\* loop(): looping_ = true; quit_ = false.
Loop ==
    /\ lpc = "constructed"
    /\ looping' = TRUE
    /\ quit' = FALSE
    /\ lpc' = "check"
    /\ UNCHANGED <<calling, pending, functors, wakeupFd, active, fpc,
                   nextTask, producer, ran>>

\* while(!quit_) fails: leave the loop.
Exit ==
    /\ lpc = "check"
    /\ quit
    /\ looping' = FALSE
    /\ lpc' = "exited"
    /\ UNCHANGED <<quit, calling, pending, functors, wakeupFd, active, fpc,
                   nextTask, producer, ran>>

\* activeChannels_.clear(); poller_->poll(kPollTimeMs, ...).  poll(2) sets
\* revents = events & ready; a channel is active when revents is non-zero.
\* poll returns on readiness or after kPollTimeMs, so it may always return.
Poll ==
    /\ lpc = "check"
    /\ ~quit
    /\ \E ioWritable \in BOOLEAN :
         active' = { c \in {"wakeup", "io"} :
                       \/ c = "wakeup" /\ wakeupFd /\ (WakeupEvents & POLLIN) # 0
                       \/ c = "io" /\ ioWritable /\ (IoEvents & POLLOUT) # 0 }
    /\ lpc' = "dispatch"
    /\ UNCHANGED <<looping, quit, calling, pending, functors, wakeupFd, fpc,
                   nextTask, producer, ran>>

\* handleEvent() of every active channel.  The wakeup channel's read
\* callback is EventLoop::handleRead(), which drains the eventfd.  The io
\* channel's write callback may queueInLoop() from the loop thread (as
\* TcpConnection::handleWrite does with writeCompleteCallback_); outside
\* dePendingFunctors() that does not call wakeup().
HandleEvents ==
    /\ lpc = "dispatch"
    /\ LET drained == wakeupFd /\ "wakeup" \notin active IN
       \/ /\ "io" \in active
          /\ Push(LoopThread)
          /\ wakeupFd' = IF QueueWakes(TRUE) THEN WakeupWrite(drained)
                                             ELSE drained
       \/ /\ wakeupFd' = drained
          /\ UNCHANGED <<pending, producer, nextTask>>
    /\ lpc' = "swap"
    /\ UNCHANGED <<looping, quit, calling, functors, active, fpc, ran>>

\* dePendingFunctors(): callingPendingFunctors = true, then swap under lock.
SwapPending ==
    /\ lpc = "swap"
    /\ calling' = TRUE
    /\ functors' = Batch(pending)
    /\ pending' = Remaining(pending)
    /\ lpc' = "running"
    /\ UNCHANGED <<looping, quit, wakeupFd, active, fpc, nextTask, producer,
                   ran>>

\* functors[i]() for the next functor.  A functor is arbitrary code on the
\* loop thread: it may queueInLoop() (callingPendingFunctors is true, so it
\* calls wakeup()) or quit() (in the loop thread, so no wakeup).
RunFunctor ==
    /\ lpc = "running"
    /\ functors # <<>>
    /\ ran' = Append(ran, Head(functors))
    /\ functors' = Tail(functors)
    /\ \/ UNCHANGED <<pending, producer, nextTask, wakeupFd, quit>>
       \/ /\ Push(LoopThread)
          /\ wakeupFd' = IF QueueWakes(TRUE) THEN WakeupWrite(wakeupFd)
                                             ELSE wakeupFd
          /\ UNCHANGED quit
       \/ /\ quit' = TRUE
                /\ UNCHANGED <<pending, producer, nextTask, wakeupFd>>
    /\ UNCHANGED <<looping, calling, active, lpc, fpc>>

\* callingPendingFunctors = false; back to the top of while(!quit_).
FinishPending ==
    /\ lpc = "running"
    /\ functors = <<>>
    /\ calling' = FALSE
    /\ lpc' = "check"
    /\ UNCHANGED <<looping, quit, pending, functors, wakeupFd, active, fpc,
                   nextTask, producer, ran>>

LoopStep == Loop \/ Exit \/ Poll \/ HandleEvents \/ SwapPending \/ RunFunctor
            \/ FinishPending

Next ==
    \/ LoopStep
    \/ \E f \in Foreign : QueueInLoop(f) \/ Wakeup(f) \/ Quit(f)

\* The loop thread is never descheduled forever and poll() returns within
\* kPollTimeMs, so every enabled loop-thread step is eventually taken.
Spec == Init /\ [][Next]_vars /\ WF_vars(LoopStep)

----------------------------------------------------------------------------
(* Properties.                                                             *)

Executed(t) == \E i \in DOMAIN ran : ran[i] = t

\* The abstract executor, seen through the loop's state: the tasks not yet
\* run are the swapped-out batch followed by pendingFunctors_.
FIFO == INSTANCE Executor WITH queue <- functors \o pending, done <- ran,
                               issued <- nextTask - 1

\* The loop implements a FIFO executor (Executor.tla): every step of the
\* loop and of the foreign threads is a submission, a run of the oldest
\* task (possibly submitting one), or invisible, so functors run once each
\* in the global order queueInLoop pushed them, across threads, the swap in
\* dePendingFunctors() and functors queued from inside a running batch.
ImplementsExecutor == FIFO!Spec

\* poll() reports the wakeup channel: its eventfd counter is non-zero and
\* its interest mask includes POLLIN.
WakeupReported == wakeupFd /\ (WakeupEvents & POLLIN) # 0

\* queueInLoop() from another thread, or from inside dePendingFunctors(),
\* breaks the loop out of poll() (spec 4.1): whenever the loop is about to
\* block in poll() with functors pending, poll() will report the wakeup
\* channel, or a foreign thread has pushed and is still to call wakeup().
NoLostWakeup ==
    (lpc = "check" /\ ~quit /\ pending # <<>>)
        => (WakeupReported \/ \E f \in Foreign : fpc[f] = "pushed")

\* A functor queued while no quit is requested is eventually executed,
\* unless quit() is called in the meantime.
TaskEventuallyRuns ==
    \A t \in TaskIds : (t < nextTask /\ ~quit) ~> (Executed(t) \/ quit)

=============================================================================
