----------------------------- MODULE ThreadPool -----------------------------
(***************************************************************************)
(* EventLoopThreadPool of src/muduo/EventLoopThreadPool.{h,cpp}, driven   *)
(* from its base loop's thread: setThreadNum(), start(), getNextLoop().   *)
(* Worker loops are named by their position 0..n-1 in loops_.             *)
(***************************************************************************)
EXTENDS Naturals, Sequences

CONSTANTS
    Base,        \* the base loop
    Requested,   \* thread counts a caller may pass to setThreadNum()
    MaxCalls     \* bound on getNextLoop() calls

VARIABLES
    numThreads,  \* numThreads_
    started,     \* started_
    loops,       \* loops_
    next,        \* next_
    asked,       \* the count last passed to setThreadNum() (history)
    got          \* the loops getNextLoop() returned, in order (history)

vars == <<numThreads, started, loops, next, asked, got>>

TypeOK ==
    /\ numThreads \in Nat
    /\ started \in BOOLEAN
    /\ loops \in Seq(Nat)
    /\ next \in Nat
    /\ asked \in Nat
    /\ got \in Seq(Nat \cup {Base})

Init ==
    /\ numThreads = 0
    /\ started = FALSE
    /\ loops = <<>>
    /\ next = 0
    /\ asked = 0
    /\ got = <<>>

\* setThreadNum(int numThreads) {}: the body is empty.
SetThreadNum(n) ==
    /\ ~started
    /\ asked' = n
    /\ UNCHANGED <<numThreads, started, loops, next, got>>

\* start(): assert(!started_); started_ = true; one EventLoopThread per
\* thread.  The loop body calls startLoop() through a moved-from
\* unique_ptr; it runs only for numThreads_ > 0, which setThreadNum()
\* cannot produce, so the guard below is the state the code reaches.
Start ==
    /\ ~started
    /\ numThreads = 0
    /\ started' = TRUE
    /\ loops' = [i \in 1..numThreads |-> i - 1]
    /\ UNCHANGED <<numThreads, next, asked, got>>

\* getNextLoop(): the base loop when loops_ is empty, else loops_[next_]
\* and next_ advances, wrapping at loops_.size().
GetNextLoop ==
    /\ started
    /\ Len(got) < MaxCalls
    /\ IF loops = <<>>
         THEN /\ got' = Append(got, Base)
              /\ UNCHANGED next
         ELSE /\ got' = Append(got, loops[next + 1])
              /\ next' = IF next + 1 >= Len(loops) THEN 0 ELSE next + 1
    /\ UNCHANGED <<numThreads, started, loops, asked>>

Next == (\E n \in Requested : SetThreadNum(n)) \/ Start \/ GetNextLoop

Spec == Init /\ [][Next]_vars

\* After setThreadNum(n) with n > 0 and start(), getNextLoop() hands out
\* the n worker loops round robin: 0, 1, ..., n-1, 0, ... (spec 4.5 and
\* the end-to-end example of spec 9).
RoundRobin ==
    started /\ asked > 0 => \A i \in 1..Len(got) : got[i] = (i - 1) % asked

====
