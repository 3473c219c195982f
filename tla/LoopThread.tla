----------------------------- MODULE LoopThread -----------------------------
(***************************************************************************)
(* EventLoopThread of src/muduo/EventLoopThread.cpp: the owner thread     *)
(* runs startLoop() and later the destructor; the child thread runs       *)
(* threadFunc(), which builds an EventLoop on its stack, publishes it in  *)
(* loop_ under mutex_, notifies cond_ and runs loop().                    *)
(*                                                                         *)
(* Condition::wait is pthread_cond_wait: it releases the mutex and blocks *)
(* atomically, and may return spuriously.  notify() is                    *)
(* pthread_cond_signal: it wakes the waiter if there is one and is lost   *)
(* otherwise.  loop() is abstracted to its quit_ handling (EventLoop.tla  *)
(* checks the rest): it clears quit_ on entry and returns once it sees     *)
(* quit_ set.  Someone else may quit the loop while it runs (a functor or *)
(* another thread holding the pointer startLoop() returned).              *)
(*                                                                         *)
(* mutex_ is a MutexLock (Mutex.tla): the pthread mutex and holder_, which *)
(* Condition::wait leaves alone.  thread_ is a muduo::Thread (Thread.tla): *)
(* the child runs startThread(): runInThread() publishes its tid, runs     *)
(* threadFunc(), and startThread() deletes the ThreadData.  After the      *)
(* destructor's body the members go: cond_, mutex_ (whose destructor       *)
(* asserts holder_ == 0), then thread_ (which detaches an unjoined        *)
(* thread).                                                                *)
(***************************************************************************)
EXTENDS Naturals, TLC

Mu == INSTANCE Mutex
Th == INSTANCE Thread

\* CurrentThread::tid() of the two threads (never 0).
OwnerTid == 1
ChildTid == 2

CONSTANTS
    NULL, TheLoop,
    MaxSpurious   \* bound on spurious returns of pthread_cond_wait

VARIABLES
    opc,        \* owner: where it is in startLoop() / ~EventLoopThread()
    cpc,        \* child: where it is in threadFunc()
    mu,         \* mutex_: [locked, holder] as in Mutex.tla
    th,         \* thread_: as in Thread.tla
    loopPtr,    \* loop_
    quit,       \* quit_ of the child's EventLoop
    result,     \* the value startLoop() returned
    otherQuit,  \* someone else has called quit() on the loop (bound: once)
    spurious    \* spurious returns of pthread_cond_wait so far

vars == <<opc, cpc, mu, th, loopPtr, quit, result, otherQuit, spurious>>

OwnerPCs == {"idle", "lock", "check", "waiting", "woken", "unlock", "returned",
             "joining", "members", "done"}
ChildPCs == {"notstarted", "run", "construct", "lock", "publish", "unlock",
             "loop", "running", "exited", "terminated"}
Tids == {Mu!NoThread, OwnerTid, ChildTid}

TypeOK ==
    /\ opc \in OwnerPCs
    /\ cpc \in ChildPCs
    /\ mu \in [locked : Tids, holder : Tids]
    /\ th \in [started : BOOLEAN, joined : BOOLEAN, detached : BOOLEAN,
              tid : Tids, data : {"none", "alive", "deleted"}]
    /\ loopPtr \in {NULL, TheLoop}
    /\ quit \in BOOLEAN
    /\ result \in {NULL, TheLoop}
    /\ otherQuit \in BOOLEAN
    /\ spurious \in 0..MaxSpurious

Init ==
    /\ opc = "idle"
    /\ cpc = "notstarted"
    /\ mu = Mu!NewMutex
    /\ th = Th!NewThread
    /\ loopPtr = NULL
    /\ quit = FALSE
    /\ result = NULL
    /\ otherQuit = FALSE
    /\ spurious = 0

----------------------------------------------------------------------------
(* The owner: startLoop().                                                 *)

\* assert(!thread_.started()); thread_.start(): started_ is set, the
\* ThreadData is allocated and the child enters startThread().
StartLoop ==
    /\ opc = "idle"
    /\ Th!CanStart(th)
    /\ th' = Th!Start(th)
    /\ opc' = "lock"
    /\ cpc' = "run"
    /\ UNCHANGED <<mu, loopPtr, quit, result, otherQuit, spurious>>

\* MutexLockGuard lock(mutex_).
OwnerLock ==
    /\ opc = "lock"
    /\ Mu!Free(mu)
    /\ mu' = Mu!Lock(mu, OwnerTid)
    /\ opc' = "check"
    /\ UNCHANGED <<cpc, th, loopPtr, quit, result, otherQuit, spurious>>

\* Faulty variant: if (loop_ == nullptr) cond_.wait(); a wakeup is taken
\* as the publication.
OwnerCheckOnce ==
    /\ opc \in {"check", "woken"}
    /\ \/ opc = "check" /\ loopPtr = NULL /\ opc' = "waiting"
          /\ mu' = Mu!WaitRelease(mu)
       \/ opc = "woken" /\ opc' = "unlock" /\ UNCHANGED mu
       \/ opc = "check" /\ loopPtr # NULL /\ opc' = "unlock" /\ UNCHANGED mu
    /\ UNCHANGED <<cpc, th, loopPtr, quit, result, otherQuit, spurious>>

\* while (loop_ == nullptr) cond_.wait(): test under the mutex; waiting
\* releases it in the same step.
OwnerCheck ==
    /\ opc \in {"check", "woken"}
    /\ \/ loopPtr = NULL /\ opc' = "waiting" /\ mu' = Mu!WaitRelease(mu)
       \/ loopPtr # NULL /\ opc' = "unlock" /\ UNCHANGED mu
    /\ UNCHANGED <<cpc, th, loopPtr, quit, result, otherQuit, spurious>>

\* pthread_cond_wait returns without a signal (allowed by POSIX; not fair).
SpuriousWake ==
    /\ opc = "waiting"
    /\ spurious < MaxSpurious
    /\ spurious' = spurious + 1
    /\ opc' = "woken"
    /\ UNCHANGED <<cpc, mu, th, loopPtr, quit, result, otherQuit>>

\* pthread_cond_wait reacquires the mutex before it returns.
OwnerRelock ==
    /\ opc = "woken"
    /\ Mu!Free(mu)
    /\ mu' = Mu!WaitReacquire(mu, OwnerTid)
    /\ opc' = "check"
    /\ UNCHANGED <<cpc, th, loopPtr, quit, result, otherQuit, spurious>>

\* The guard goes out of scope; return loop_.
OwnerUnlock ==
    /\ opc = "unlock"
    /\ mu' = Mu!Unlock(mu)
    /\ result' = loopPtr
    /\ opc' = "returned"
    /\ UNCHANGED <<cpc, th, loopPtr, quit, otherQuit, spurious>>

\* ~EventLoopThread(): exiting_ = true; loop_->quit().  loop_ still points
\* at threadFunc's stack EventLoop, which is gone once threadFunc returned;
\* that write lands in freed stack memory and is not modelled.
DtorQuit ==
    /\ opc = "returned"
    /\ opc' = "joining"
    /\ quit' = (cpc \notin {"exited", "terminated"} \/ quit)
    /\ UNCHANGED <<cpc, mu, th, loopPtr, result, otherQuit, spurious>>

\* thread_.join(): the flags are set, then pthread_join returns once
\* startThread() has returned.
DtorJoin ==
    /\ opc = "joining"
    /\ Th!CanJoin(th)
    /\ cpc = "terminated"
    /\ th' = Th!Join(th)
    /\ opc' = "members"
    /\ UNCHANGED <<cpc, mu, loopPtr, quit, result, otherQuit, spurious>>

\* The members are destroyed: ~Condition, ~MutexLock (assert(holder_ ==
\* 0)), ~Thread.
DtorMembers ==
    /\ opc = "members"
    /\ Assert(mu.holder = Mu!NoThread, "~MutexLock: assert(holder_ == 0)")
    /\ th' = Th!Destroy(th)
    /\ opc' = "done"
    /\ UNCHANGED <<cpc, mu, loopPtr, quit, result, otherQuit, spurious>>

----------------------------------------------------------------------------
(* The child: startThread() around threadFunc().                           *)

\* runInThread(): tid = CurrentThread::tid(); the weak pointer to tid_
\* locks (thread_ outlives the child, which is joined) and *ptid = tid.
ChildRunInThread ==
    /\ cpc = "run"
    /\ th' = Th!PublishTid(th, ChildTid)
    /\ cpc' = "construct"
    /\ UNCHANGED <<opc, mu, loopPtr, quit, result, otherQuit, spurious>>

\* EventLoop loop; (quit_ = false)
ChildConstruct ==
    /\ cpc = "construct"
    /\ cpc' = "lock"
    /\ quit' = FALSE
    /\ UNCHANGED <<opc, mu, th, loopPtr, result, otherQuit, spurious>>

ChildLock ==
    /\ cpc = "lock"
    /\ Mu!Free(mu)
    /\ mu' = Mu!Lock(mu, ChildTid)
    /\ cpc' = "publish"
    /\ UNCHANGED <<opc, th, loopPtr, quit, result, otherQuit, spurious>>

\* Faulty variant: loop_ is published but cond_ is not notified.
ChildPublishNoNotify ==
    /\ cpc = "publish"
    /\ loopPtr' = TheLoop
    /\ cpc' = "unlock"
    /\ UNCHANGED <<opc, mu, th, quit, result, otherQuit, spurious>>

\* loop_ = &loop; cond_.notify(): wakes the owner if it is waiting.
ChildPublish ==
    /\ cpc = "publish"
    /\ loopPtr' = TheLoop
    /\ opc' = IF opc = "waiting" THEN "woken" ELSE opc
    /\ cpc' = "unlock"
    /\ UNCHANGED <<mu, th, quit, result, otherQuit, spurious>>

ChildUnlock ==
    /\ cpc = "unlock"
    /\ mu' = Mu!Unlock(mu)
    /\ cpc' = "loop"
    /\ UNCHANGED <<opc, th, loopPtr, quit, result, otherQuit, spurious>>

\* loop.loop() starts: quit_ = false.
ChildLoopEnter ==
    /\ cpc = "loop"
    /\ quit' = FALSE
    /\ cpc' = "running"
    /\ UNCHANGED <<opc, mu, th, loopPtr, result, otherQuit, spurious>>

\* while (!quit_) ends; threadFunc returns and its EventLoop is destroyed.
ChildLoopExit ==
    /\ cpc = "running"
    /\ quit
    /\ cpc' = "exited"
    /\ UNCHANGED <<opc, mu, th, loopPtr, quit, result, otherQuit, spurious>>

\* runInThread() returns (t_threadName = "finished"); startThread()
\* deletes the ThreadData and the thread ends.
ChildFinish ==
    /\ cpc = "exited"
    /\ th' = Th!DeleteData(th)
    /\ cpc' = "terminated"
    /\ UNCHANGED <<opc, mu, loopPtr, quit, result, otherQuit, spurious>>

\* Another holder of the returned pointer calls loop->quit().
OtherQuit ==
    /\ result = TheLoop
    /\ cpc \in {"loop", "running"}
    /\ ~otherQuit
    /\ otherQuit' = TRUE
    /\ quit' = TRUE
    /\ UNCHANGED <<opc, cpc, mu, th, loopPtr, result, spurious>>

Owner == StartLoop \/ OwnerLock \/ OwnerCheck \/ OwnerRelock \/ OwnerUnlock
         \/ DtorQuit \/ DtorJoin \/ DtorMembers
Child == ChildRunInThread \/ ChildConstruct \/ ChildLock \/ ChildPublish
         \/ ChildUnlock \/ ChildLoopEnter \/ ChildLoopExit \/ ChildFinish

Next == Owner \/ Child \/ SpuriousWake \/ OtherQuit

\* Both threads are scheduled; a spurious wakeup and a foreign quit() may
\* or may not happen.
Spec == Init /\ [][Next]_vars /\ WF_vars(Owner) /\ WF_vars(Child)

----------------------------------------------------------------------------
(* Properties.                                                             *)

\* startLoop() returns the child's EventLoop, never nullptr, however the
\* owner's wait interleaves with the child's publication and whatever
\* wakeups pthread_cond_wait delivers; by then thread_.tid() names the
\* child, whose runInThread() wrote it before publishing loop_.
StartLoopReturnsLoop ==
    opc \in {"returned", "joining", "members", "done"}
        => result = TheLoop /\ th.tid = ChildTid

\* startLoop() eventually returns: the child's notify() is never lost
\* between the owner's test of loop_ and its wait.
StartLoopReturns == (opc = "lock") ~> (opc = "returned")

\* ~EventLoopThread() eventually returns: its quit() makes the loop exit
\* so that join() completes (spec 4.1: quit is eventually observed).
DestructorCompletes == (opc = "joining") ~> (opc = "done")

====
