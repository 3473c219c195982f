------------------------------- MODULE Mutex -------------------------------
(***************************************************************************)
(* MutexLock and Condition of src/muduo/thread/Mutex.h and Condition.h as *)
(* operators on a value [locked, holder]: locked is the thread that holds *)
(* the pthread mutex, holder is MutexLock::holder_; both are thread ids,  *)
(* 0 meaning none.  A caller enables Lock only when Free holds, which is   *)
(* where pthread_mutex_lock blocks.                                        *)
(***************************************************************************)
EXTENDS Naturals

NoThread == 0

\* MutexLock(): holder_(0), pthread_mutex_init.
NewMutex == [locked |-> NoThread, holder |-> NoThread]

Free(m) == m.locked = NoThread

\* lock(): pthread_mutex_lock; holder_ = CurrentThread::tid().
Lock(m, t) == [locked |-> t, holder |-> t]

\* unlock(): holder_ = 0; pthread_mutex_unlock.
Unlock(m) == [locked |-> NoThread, holder |-> NoThread]

\* Condition::wait(): pthread_cond_wait releases the mutex as it blocks;
\* holder_ is not touched.
WaitRelease(m) == [m EXCEPT !.locked = NoThread]

\* pthread_cond_wait reacquires the mutex before it returns; holder_ is
\* still not touched.
WaitReacquire(m, t) == [m EXCEPT !.locked = t]


====
