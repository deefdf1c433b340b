------------------------------ MODULE WaitQueue ------------------------------
(***************************************************************************)
(* A queue of jobs with one consumer thread, a mutex and a condition       *)
(* variable, as ApiController (workQueue_) and FeedbackController          *)
(* (feedbackQueue_) both have one.  The consumer runs                      *)
(*                                                                         *)
(*   while (running_) {                                                    *)
(*     { lock; cv.wait(lock, !queue.empty() || !running_);                 *)
(*       if (!running_ && queue.empty()) break;  pop; }                    *)
(*     do the job }                                                        *)
(*                                                                         *)
(* wait holds the mutex from its test of the condition until it sleeps, so *)
(* no push falls in between; but running_ is cleared without the mutex.    *)
(***************************************************************************)
EXTENDS Sequences

VARIABLES
    running,    \* running_
    queue,      \* the jobs, oldest first
    consumer,   \* what the consumer thread does next
    job         \* the job it is doing

waiting == <<running, queue, consumer, job>>

ConsumerSteps == {"off", "loop", "lock", "tested", "asleep", "busy", "done"}

\* The consumer holds the mutex between two of its own steps only here.
Locked == consumer = "tested"

\* Mutant of Put: the producer does not take the mutex.
PutUnlocked(x) == queue' = Append(queue, x)

Put(x) == ~Locked /\ queue' = Append(queue, x)

\* notify_one and notify_all: there is one thread to wake.
Notify == consumer' = IF consumer = "asleep" THEN "lock" ELSE consumer

-----------------------------------------------------------------------------
(* The consumer thread.                                                    *)

Loop ==
    /\ consumer = "loop"
    /\ consumer' = IF running THEN "lock" ELSE "done"
    /\ UNCHANGED <<running, queue, job>>

\* Mutant of Test: wait does not look at running_.
TestQueueOnly ==
    /\ consumer = "lock"
    /\ \/ /\ queue = <<>>
          /\ consumer' = "tested"
          /\ UNCHANGED <<queue, job>>
       \/ /\ queue # <<>>
          /\ consumer' = "busy"
          /\ job' = Head(queue)
          /\ queue' = Tail(queue)
    /\ UNCHANGED running

\* Under the mutex: leave, start to wait, or take the oldest job.
Test ==
    /\ consumer = "lock"
    /\ \/ /\ queue = <<>>
          /\ consumer' = IF running THEN "tested" ELSE "done"
          /\ UNCHANGED <<queue, job>>
       \/ /\ queue # <<>>
          /\ consumer' = "busy"
          /\ job' = Head(queue)
          /\ queue' = Tail(queue)
    /\ UNCHANGED running

Sleep ==
    /\ consumer = "tested"
    /\ consumer' = "asleep"
    /\ UNCHANGED <<running, queue, job>>

\* A condition variable may wake its waiter for no reason.
WakeSpuriously ==
    /\ consumer = "asleep"
    /\ consumer' = "lock"
    /\ UNCHANGED <<running, queue, job>>

\* The last step of a job; the next one gets a variable of its own.
Finish(nothing) == consumer' = "loop" /\ job' = nothing
=============================================================================
