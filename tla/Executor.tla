------------------------------ MODULE Executor ------------------------------
(***************************************************************************)
(* What EventLoop promises the threads that hand it work (spec 4.1,       *)
(* queueInLoop): a FIFO executor.  Tasks are numbered as they are         *)
(* submitted; the loop runs them one at a time, oldest first, each once.  *)
(* A running task may itself submit one.  Nothing here says who submits   *)
(* or when the loop wakes: EventLoop.tla is shown to implement this with  *)
(* pendingFunctors_, the swapped-out batch and the eventfd.               *)
(***************************************************************************)
EXTENDS Naturals, Sequences

CONSTANT MaxTasks

VARIABLES
    queue,    \* submitted tasks not yet run, oldest first
    done,     \* tasks run, in order
    issued    \* tasks submitted so far

Init == queue = <<>> /\ done = <<>> /\ issued = 0

\* A thread submits task issued + 1.
Submit ==
    /\ issued < MaxTasks
    /\ queue' = Append(queue, issued + 1)
    /\ issued' = issued + 1
    /\ UNCHANGED done

\* The loop runs the oldest task, which may submit the next one.
Run ==
    /\ queue # <<>>
    /\ done' = Append(done, Head(queue))
    /\ \/ queue' = Tail(queue) /\ UNCHANGED issued
       \/ /\ issued < MaxTasks
          /\ queue' = Append(Tail(queue), issued + 1)
          /\ issued' = issued + 1

Next == Submit \/ Run

Spec == Init /\ [][Next]_<<queue, done, issued>>

====
