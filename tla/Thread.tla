------------------------------- MODULE Thread -------------------------------
(***************************************************************************)
(* muduo::Thread of src/muduo/thread/Thread.cpp as operators on a value   *)
(* [started, joined, detached, tid, data]: started_ and joined_, whether  *)
(* ~Thread detached the pthread, *tid_ (0 until the new thread writes it) *)
(* and the life of the ThreadData that start() hands to the new thread    *)
(* ("none", "alive" until startThread deletes it, "deleted").  The name   *)
(* given to prctl() and t_threadName are not modelled.                    *)
(***************************************************************************)
EXTENDS Naturals

\* Thread(func, name): started_(false), joined_(false), tid_(new 0).
NewThread == [started |-> FALSE, joined |-> FALSE, detached |-> FALSE,
              tid |-> 0, data |-> "none"]

\* start(): assert(!started_); started_ = true; new ThreadData;
\* pthread_create.  A failing pthread_create aborts the process and is not
\* modelled.
CanStart(th) == ~th.started
Start(th) == [th EXCEPT !.started = TRUE, !.data = "alive"]

\* ThreadData::runInThread() on the new thread: wkTid_.lock() succeeds
\* while the Thread object exists, and *ptid = CurrentThread::tid().
PublishTid(th, t) == [th EXCEPT !.tid = t]

\* startThread(): after runInThread() returns, delete data.
DeleteData(th) == [th EXCEPT !.data = "deleted"]

\* join(): assert(started_); assert(!joined_); joined_ = true;
\* pthread_join (the caller blocks until the thread has returned).
CanJoin(th) == th.started /\ ~th.joined

Join(th) == [th EXCEPT !.joined = TRUE]

\* ~Thread(): if (started_ && !joined_) pthread_detach(pthreadId_).
Destroy(th) == [th EXCEPT !.detached = th.started /\ ~th.joined]

====
