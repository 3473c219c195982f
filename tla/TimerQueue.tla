---------------------------- MODULE TimerQueue ----------------------------
(***************************************************************************)
(* The timer queue of src/muduo/TimerQueue.cpp and Timer.{h,cpp}.          *)
(*                                                                         *)
(* A Timer is a heap object at an address; TimerId is <<address, seq>>.    *)
(* timers_ holds entries <<expiration, address>> ordered as std::pair,     *)
(* activeTimers_ holds <<address, seq>>.  Addresses are small integers so  *)
(* that the pair order and the reuse of a freed address are both real.    *)
(* Time is a discrete clock in units of the 100us floor of                 *)
(* howMuchTimeFromNow(); the timerfd is a deadline and a readable flag.    *)
(*                                                                         *)
(* addTimer()/cancel() from a foreign thread go through runInLoop(), i.e.  *)
(* they are appended to the loop's functor queue (pendingOps) and run in  *)
(* FIFO order when the loop drains it (EventLoop.tla checks that queue).   *)
(* From the loop thread they run inline.  handleRead() runs when the loop  *)
(* dispatches the readable timerfd channel; it is split at the timer      *)
(* callbacks, which are user code that may call cancel() or addTimer().    *)
(***************************************************************************)
EXTENDS Integers, Sequences, FiniteSets, SequencesExt

CONSTANTS
    Addrs,        \* possible Timer* addresses (positive integers)
    MaxSeq,       \* bound on s_numCreated_: timers ever created
    MaxTime,      \* bound on the clock
    Delays,       \* delays accepted by runAt(now + d) / runAfter(d)
    Intervals,    \* 0 (one-shot) or the interval of runEvery
    MaxCancels,   \* bound on cancel() calls
    NoTimer,      \* a free address (model value)
    Bits          \* width of Timer::s_numCreated_ (AtomicInt64 is an int)

ASSUME /\ Addrs \subseteq Nat \ {0}
       /\ MaxSeq \in Nat /\ MaxTime \in Nat \ {0}
       /\ Delays \subseteq Nat /\ Intervals \subseteq Nat /\ 0 \in Intervals
       /\ MaxCancels \in Nat

\* s_numCreated_, an AtomicIntegerT<int>.  The sequences wrap after IntMax
\* timers; the model creates fewer, so every sequence is 1..MaxSeq.
Counter == INSTANCE Atomic
ASSUME MaxSeq <= Counter!IntMax

\* reinterpret_cast<Timer*>(UINTPTR_MAX): above every address.
Sentry == Max(Addrs) + 1
\* howMuchTimeFromNow() arms the timerfd at least 100us from now.
MinArm == 1
\* runAt(now + d), runAfter(d) with interval 0; runEvery(i): now + i.
ScheduleChoices == {c \in Delays \X Intervals : c[2] = 0 \/ c[1] = c[2]}

Seqs == 1..MaxSeq
TimerRec == [exp : Nat, interval : Intervals, seq : Seqs]
Id == Addrs \X Seqs
Op == [op : {"add", "cancel"}, id : Id]

VARIABLES
    clock,                 \* Timestamp::now()
    heap,                  \* address -> Timer object or NoTimer
    nextSeq,               \* s_numCreated_
    timers,                \* timers_ : set of <<expiration, address>>
    activeTimers,          \* activeTimers_ : set of <<address, seq>>
    cancelingTimers,       \* cancelingTimers_
    callingExpiredTimers,  \* callingExpiredTimers_
    expired,               \* the vector returned by getExpired()
    nRun,                  \* callbacks of expired already run
    batchNow,              \* the now of the running handleRead()
    tfdDeadline,           \* timerfd armed deadline, 0 when disarmed
    tfdReadable,           \* timerfd has expired and not been read
    pendingOps,            \* addTimerInLoop / cancelInLoop functors queued
    issued,                \* TimerIds handed out, with interval (history)
    fires,                 \* seq -> callbacks run, capped at 2 (history)
    cancelReq,             \* seq -> cancelInLoop ran for its id (history)
    cancelled,             \* seq -> that cancelInLoop found it (history)
    cancelsLeft            \* remaining cancel() calls (bound)

vars == <<clock, heap, nextSeq, timers, activeTimers, cancelingTimers,
          callingExpiredTimers, expired, nRun, batchNow, tfdDeadline,
          tfdReadable, pendingOps, issued, fires, cancelReq, cancelled,
          cancelsLeft>>

TypeOK ==
    /\ clock \in 1..MaxTime
    /\ heap \in [Addrs -> TimerRec \cup {NoTimer}]
    /\ nextSeq \in 0..MaxSeq
    /\ timers \subseteq Nat \X Addrs
    /\ activeTimers \subseteq Id
    /\ cancelingTimers \subseteq Id
    /\ callingExpiredTimers \in BOOLEAN
    /\ expired \in Seq(Nat \X Addrs)
    /\ nRun \in 0..Len(expired)
    /\ batchNow \in 0..MaxTime
    /\ tfdDeadline \in Nat
    /\ tfdReadable \in BOOLEAN
    /\ pendingOps \in Seq(Op)
    /\ issued \subseteq [addr : Addrs, seq : Seqs, interval : Intervals]
    /\ fires \in [Seqs -> 0..2]
    /\ cancelReq \in [Seqs -> BOOLEAN]
    /\ cancelled \in [Seqs -> BOOLEAN]
    /\ cancelsLeft \in 0..MaxCancels

Init ==
    /\ clock = 1
    /\ heap = [a \in Addrs |-> NoTimer]
    /\ nextSeq = Counter!NewAtomic
    /\ timers = {}
    /\ activeTimers = {}
    /\ cancelingTimers = {}
    /\ callingExpiredTimers = FALSE
    /\ expired = <<>>
    /\ nRun = 0
    /\ batchNow = 0
    /\ tfdDeadline = 0
    /\ tfdReadable = FALSE
    /\ pendingOps = <<>>
    /\ issued = {}
    /\ fires = [s \in Seqs |-> 0]
    /\ cancelReq = [s \in Seqs |-> FALSE]
    /\ cancelled = [s \in Seqs |-> FALSE]
    /\ cancelsLeft = MaxCancels

----------------------------------------------------------------------------
(* Helpers.                                                                *)

\* std::pair<Timestamp, Timer*> operator<.
EntryLess(x, y) == x[1] < y[1] \/ (x[1] = y[1] /\ x[2] < y[2])

MinExp(T) == Min({e[1] : e \in T})

IdOfEntry(e) == <<e[2], heap[e[2]].seq>>

BatchIds == {IdOfEntry(expired[i]) : i \in 1..Len(expired)}

\* resetTimerfd(): timerfd_settime with howMuchTimeFromNow(expiration);
\* settime also clears an expiry that was not read yet.
ResetTimerfd(when) ==
    /\ tfdDeadline' = Max({when, clock + MinArm})
    /\ tfdReadable' = FALSE

\* Faulty variant: rearm only when the queue was empty.
EarliestChangedEmptyOnly(when) == timers = {}

\* insert(): earliestChanged when timers_ is empty or when < begin()->first.
EarliestChanged(when) == IF timers = {} THEN TRUE ELSE when < MinExp(timers)

\* addTimerInLoop(timer): insert() into both indexes, then rearm the
\* timerfd if the new timer is the earliest.
AddTimerInLoop(a, tm) ==
    /\ timers' = timers \cup {<<tm.exp, a>>}
    /\ activeTimers' = activeTimers \cup {<<a, tm.seq>>}
    /\ \/ EarliestChanged(tm.exp) /\ ResetTimerfd(tm.exp)
       \/ ~EarliestChanged(tm.exp) /\ UNCHANGED <<tfdDeadline, tfdReadable>>

\* new Timer(cb, when, interval): a free address and the next sequence.
NewTimer(a, when, iv) ==
    [exp |-> when, interval |-> iv,
     seq |-> Counter!IncrementAndGet(nextSeq)[1]]

Allocate(a, tm) ==
    /\ heap[a] = NoTimer
    /\ nextSeq < MaxSeq
    /\ heap' = [heap EXCEPT ![a] = tm]
    /\ nextSeq' = Counter!IncrementAndGet(nextSeq)[2]
    /\ issued' = issued \cup {[addr |-> a, seq |-> tm.seq, interval |-> tm.interval]}

\* Faulty variant: look a timer up by its address alone.
ActiveMatchByAddr(id) == {x \in activeTimers : x[1] = id[1]}

\* activeTimers_.find(ActiveTimer(timerId.timer_, timerId.sequence_)).
ActiveMatch(id) == {x \in activeTimers : x = id}

\* cancelInLoop(timerId).
CancelInLoop(id) ==
    LET found == ActiveMatch(id) IN
    /\ cancelReq' = [cancelReq EXCEPT ![id[2]] = TRUE]
    /\ cancelled' = [cancelled EXCEPT ![id[2]] =
                        @ \/ id \in activeTimers
                          \/ (callingExpiredTimers /\ id \in BatchIds)]
    /\ \/ /\ found # {}
          /\ LET x == CHOOSE x \in found : TRUE IN
               /\ timers' = timers \ {<<heap[x[1]].exp, x[1]>>}
               /\ heap' = [heap EXCEPT ![x[1]] = NoTimer]
               /\ activeTimers' = activeTimers \ {x}
          /\ UNCHANGED cancelingTimers
       \/ /\ found = {}
          /\ callingExpiredTimers
          /\ cancelingTimers' = cancelingTimers \cup {id}
          /\ UNCHANGED <<timers, heap, activeTimers>>
       \/ /\ found = {}
          /\ ~callingExpiredTimers
          /\ UNCHANGED <<timers, heap, activeTimers, cancelingTimers>>

\* Faulty variant: the sentry built with a null Timer*.
GetExpiredNull(now) == {e \in timers : EntryLess(e, <<now, 0>>)}

\* getExpired(now): the entries below the sentry <<now, UINTPTR_MAX>>.
GetExpired(now) == {e \in timers : EntryLess(e, <<now, Sentry>>)}

\* Faulty variant: getExpired() forgets activeTimers_.
ExpiredIdsNone(due) == {}

\* The activeTimers_ entries getExpired() erases for the expired entries.
ExpiredIds(due) == {IdOfEntry(e) : e \in due}

\* Timer::restart(now).
Restart(t, now) ==
    IF t.interval > 0 THEN [t EXCEPT !.exp = now + t.interval]
                      ELSE [t EXCEPT !.exp = 0]

\* Faulty variants: reset() ignores repeat(), or ignores cancelingTimers_.
RescheduledAlways(e) == IdOfEntry(e) \notin cancelingTimers
RescheduledIgnoringCancel(e) == heap[e[2]].interval > 0

\* reset(): an expired timer goes back in when repeat() and it is not in
\* cancelingTimers_.
Rescheduled(e) == heap[e[2]].interval > 0 /\ IdOfEntry(e) \notin cancelingTimers

\* reset(): rearm the timerfd to the earliest remaining expiration.
\* (nextExpire stays invalid when timers_ is empty.)
Rearm(T) ==
    IF T # {} /\ MinExp(T) > 0 THEN ResetTimerfd(MinExp(T))
                               ELSE UNCHANGED <<tfdDeadline, tfdReadable>>

\* A call made on the loop thread (from a timer callback, a channel
\* callback or a functor) runs inline: addTimer() -> addTimerInLoop(),
\* cancel() -> cancelInLoop().  Both leave clock, the batch, the functor
\* queue and fires to the caller.
AddFromLoop ==
    \E a \in Addrs, c \in ScheduleChoices :
        LET tm == NewTimer(a, clock + c[1], c[2]) IN
        /\ Allocate(a, tm)
        /\ AddTimerInLoop(a, tm)
        /\ UNCHANGED <<cancelingTimers, cancelReq, cancelled, cancelsLeft>>

CancelFromLoop ==
    /\ cancelsLeft > 0
    /\ cancelsLeft' = cancelsLeft - 1
    /\ \E r \in issued : CancelInLoop(<<r.addr, r.seq>>)
    /\ UNCHANGED <<nextSeq, issued, tfdDeadline, tfdReadable>>

----------------------------------------------------------------------------
(* Foreign threads: addTimer() and cancel() post a functor (runInLoop).    *)

ForeignAddTimer ==
    /\ \E a \in Addrs, c \in ScheduleChoices :
         LET tm == NewTimer(a, clock + c[1], c[2]) IN
         /\ Allocate(a, tm)
         /\ pendingOps' = Append(pendingOps, [op |-> "add", id |-> <<a, tm.seq>>])
    /\ UNCHANGED <<clock, timers, activeTimers, cancelingTimers,
                   callingExpiredTimers, expired, nRun, batchNow, tfdDeadline,
                   tfdReadable, fires, cancelReq, cancelled, cancelsLeft>>

ForeignCancel ==
    /\ cancelsLeft > 0
    /\ \E r \in issued :
         pendingOps' = Append(pendingOps, [op |-> "cancel", id |-> <<r.addr, r.seq>>])
    /\ cancelsLeft' = cancelsLeft - 1
    /\ UNCHANGED <<clock, heap, nextSeq, timers, activeTimers, cancelingTimers,
                   callingExpiredTimers, expired, nRun, batchNow, tfdDeadline,
                   tfdReadable, issued, fires, cancelReq, cancelled>>

----------------------------------------------------------------------------
(* The loop thread.                                                        *)

\* addTimer()/cancel() called on the loop thread outside handleRead().
LoopAddTimer ==
    /\ ~callingExpiredTimers
    /\ AddFromLoop
    /\ UNCHANGED <<clock, callingExpiredTimers, expired, nRun, batchNow,
                   pendingOps, fires>>

LoopCancel ==
    /\ ~callingExpiredTimers
    /\ CancelFromLoop
    /\ UNCHANGED <<clock, callingExpiredTimers, expired, nRun, batchNow,
                   pendingOps, fires>>

\* dePendingFunctors() runs the next queued addTimerInLoop / cancelInLoop.
DrainOp ==
    /\ ~callingExpiredTimers
    /\ pendingOps # <<>>
    /\ LET op == Head(pendingOps) IN
       \/ /\ op.op = "add"
          /\ AddTimerInLoop(op.id[1], heap[op.id[1]])
          /\ UNCHANGED <<heap, nextSeq, issued, cancelingTimers, cancelReq,
                         cancelled, cancelsLeft>>
       \/ /\ op.op = "cancel"
          /\ CancelInLoop(op.id)
          /\ UNCHANGED <<nextSeq, issued, tfdDeadline, tfdReadable, cancelsLeft>>
    /\ pendingOps' = Tail(pendingOps)
    /\ UNCHANGED <<clock, callingExpiredTimers, expired, nRun, batchNow, fires>>

\* handleRead() up to the callbacks: now, readTimerfd(), getExpired() (which
\* erases the expired entries from both indexes), callingExpiredTimers_ =
\* true, cancelingTimers_.clear().
HandleRead ==
    /\ ~callingExpiredTimers
    /\ tfdReadable
    /\ LET due == GetExpired(clock) IN
         /\ expired' = SetToSortSeq(due, EntryLess)
         /\ timers' = timers \ due
         /\ activeTimers' = activeTimers \ ExpiredIds(due)
    /\ batchNow' = clock
    /\ tfdReadable' = FALSE
    /\ callingExpiredTimers' = TRUE
    /\ cancelingTimers' = {}
    /\ nRun' = 0
    /\ UNCHANGED <<clock, heap, nextSeq, tfdDeadline, pendingOps, issued, fires,
                   cancelReq, cancelled, cancelsLeft>>

\* it->second->run() for the next expired timer.  The callback may do
\* nothing, cancel() a timer or addTimer() a new one (inline).
RunExpired ==
    /\ callingExpiredTimers
    /\ nRun < Len(expired)
    /\ fires' = [fires EXCEPT ![heap[expired[nRun + 1][2]].seq] = Min({@ + 1, 2})]
    /\ nRun' = nRun + 1
    /\ \/ UNCHANGED <<heap, nextSeq, issued, timers, activeTimers,
                      cancelingTimers, tfdDeadline, tfdReadable, cancelReq,
                      cancelled, cancelsLeft>>
       \/ CancelFromLoop
       \/ AddFromLoop
    /\ UNCHANGED <<clock, callingExpiredTimers, expired, batchNow, pendingOps>>

\* handleRead() after the callbacks: callingExpiredTimers_ = false and
\* reset(expired, now): restart and re-insert the rescheduled timers,
\* delete the others, rearm the timerfd to the new earliest expiration.
Reset ==
    /\ callingExpiredTimers
    /\ nRun = Len(expired)
    /\ LET batch == {expired[i] : i \in 1..Len(expired)}
           again == {e[2] : e \in {x \in batch : Rescheduled(x)}}
           gone == {e[2] : e \in batch} \ again
           newHeap == [a \in Addrs |->
                         IF a \in again THEN Restart(heap[a], batchNow)
                         ELSE IF a \in gone THEN NoTimer
                         ELSE heap[a]]
           newTimers == timers \cup {<<newHeap[a].exp, a>> : a \in again}
       IN /\ heap' = newHeap
          /\ timers' = newTimers
          /\ activeTimers' = activeTimers \cup {<<a, heap[a].seq>> : a \in again}
          /\ Rearm(newTimers)
    /\ callingExpiredTimers' = FALSE
    /\ expired' = <<>>
    /\ nRun' = 0
    /\ UNCHANGED <<clock, nextSeq, cancelingTimers, batchNow, pendingOps, issued,
                   fires, cancelReq, cancelled, cancelsLeft>>

----------------------------------------------------------------------------
(* The environment: time passes, the kernel expires the timerfd.           *)

Tick ==
    /\ clock < MaxTime
    /\ clock' = clock + 1
    /\ UNCHANGED <<heap, nextSeq, timers, activeTimers, cancelingTimers,
                   callingExpiredTimers, expired, nRun, batchNow, tfdDeadline,
                   tfdReadable, pendingOps, issued, fires, cancelReq, cancelled,
                   cancelsLeft>>

TimerfdExpire ==
    /\ 0 < tfdDeadline
    /\ tfdDeadline <= clock
    /\ tfdReadable' = TRUE
    /\ tfdDeadline' = 0
    /\ UNCHANGED <<clock, heap, nextSeq, timers, activeTimers, cancelingTimers,
                   callingExpiredTimers, expired, nRun, batchNow, pendingOps,
                   issued, fires, cancelReq, cancelled, cancelsLeft>>

Next ==
    \/ ForeignAddTimer \/ ForeignCancel
    \/ LoopAddTimer \/ LoopCancel \/ DrainOp
    \/ HandleRead \/ RunExpired \/ Reset
    \/ Tick \/ TimerfdExpire

Spec == Init /\ [][Next]_vars

----------------------------------------------------------------------------
(* Properties.                                                             *)

IdOf(r) == <<r.addr, r.seq>>

\* timers_ and activeTimers_ hold the same timers, and every entry's key is
\* its timer's current expiration: the invariant the asserts of
\* cancelInLoop/getExpired/insert state, across interleaved add, cancel,
\* expiry and reschedule (spec 4.4 and 8).
IndexesAgree ==
    /\ \A e \in timers : heap[e[2]] # NoTimer /\ heap[e[2]].exp = e[1]
    /\ {IdOfEntry(e) : e \in timers} = activeTimers

\* A one-shot timer's callback runs at most once.
OneShotFiresOnce ==
    \A r \in issued : r.interval = 0 => fires[r.seq] <= 1

\* A timer that cancelInLoop() found, active or in the running batch, is
\* never active again: reset() must not reschedule a repeating timer that
\* was cancelled from a callback of the same batch (spec 8).
CanceledStaysCanceled ==
    \A r \in issued : cancelled[r.seq] => IdOf(r) \notin activeTimers

\* No timer is lost: a timer that was not cancelled and (one-shot) has not
\* fired is still owned by the queue, at its own address: active, in the
\* running batch, or waiting in the functor queue to be inserted.  A cancel
\* with a stale TimerId whose address was reused must not remove it.
NoLostTimer ==
    \A r \in issued :
        (~cancelled[r.seq] /\ ~(r.interval = 0 /\ fires[r.seq] > 0))
            => /\ heap[r.addr] # NoTimer
               /\ heap[r.addr].seq = r.seq
               /\ \/ IdOf(r) \in activeTimers
                  \/ IdOf(r) \in BatchIds
                  \/ \E i \in 1..Len(pendingOps) :
                        pendingOps[i] = [op |-> "add", id |-> IdOf(r)]

\* Whenever timers are pending and no batch is running, the timerfd is
\* readable or armed no later than the earliest expiration (or the 100us
\* floor): no timer waits for an unrelated wakeup.
TimerfdNotLate ==
    (~callingExpiredTimers /\ timers # {})
        => \/ tfdReadable
           \/ 0 < tfdDeadline /\ tfdDeadline <= Max({MinExp(timers), clock + MinArm})

\* handleRead()'s getExpired(now) takes every timer due at now: the
\* sentry <now, UINTPTR_MAX> sorts after every real entry with expiration
\* now, whatever its address, so no due timer is left in timers_ to run
\* only at a later timerfd expiry.
AllDueTaken ==
    [][(~callingExpiredTimers /\ callingExpiredTimers')
          => \A e \in timers' : e[1] > batchNow']_vars

=============================================================================
