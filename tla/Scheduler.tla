------------------------------- MODULE Scheduler -------------------------------
(***************************************************************************)
(* asio's scheduler, the implementation of io_context: threads that call   *)
(* run, run_one, wait_one, poll and poll_one share a queue of operations,  *)
(* one entry of which stands for the task (the reactor), whose run waits   *)
(* for I/O.  wakeup_event_ is a condition variable (posix_event).          *)
(*                                                                         *)
(* What happens under mutex_ is one step.  The signal that some functions  *)
(* send after unlocking it, the atomic changes of outstanding_work_ before *)
(* locking it, a handler and the run of the task are steps of their own.   *)
(***************************************************************************)
EXTENDS Integers, Sequences, FiniteSets, Functions

CONSTANTS
  Thread,
  Op,          \* operations; each is started at most once
  Task,        \* &task_operation_
  None,
  OneThread,   \* one_thread_
  Calls,       \* the functions that threads call: a subset of Blocking \cup Polling
  Stops,       \* whether stop and restart are called
  Throws       \* whether handlers may throw

Blocking == {"run", "run_one", "wait_one"}
Polling == {"poll", "poll_one"}

ASSUME SchedulerAssumption ==
  /\ IsFiniteSet(Thread) /\ IsFiniteSet(Op)
  /\ Task \notin Op /\ None \notin Op
  /\ {OneThread, Stops, Throws} \subseteq BOOLEAN
  /\ OneThread => \A t, u \in Thread : t = u
  /\ Calls \subseteq Blocking \cup Polling

VARIABLES
  pc,                        \* where each thread is
  next,                      \* where it goes on after push, signal or stop
  call,                      \* the function it is in
  arg,                       \* the operation it is about to push
  running,                   \* the operation whose handler it runs
  private_op_queue,
  private_outstanding_work,
  op_queue_,
  task_,                     \* init_task has been called
  task_interrupted_,
  signalled,                 \* the lowest bit of the event's state_
  outstanding_work_,
  stopped_,
  reactor,                   \* operations that wait for I/O
  ready,                     \* those of them whose I/O is ready
  interrupted,               \* task_->interrupt was called, and no run has seen it
  done                       \* operations that are finished

threadVars == <<pc, next, call, arg, running, private_op_queue, private_outstanding_work>>
ioVars == <<reactor, ready, done>>
vars == <<threadVars, op_queue_, task_, task_interrupted_, signalled, outstanding_work_,
          stopped_, ioVars, interrupted>>

Tasking == {"blockingTask", "timedTask", "pollingTask"}

\* Operations that were started and are not finished.
Unfinished ==
  (Range(op_queue_) \ {Task}) \cup reactor \cup ready
  \cup UNION {Range(private_op_queue[t]) \cup ({arg[t], running[t]} \ {None, Task}) : t \in Thread}
New == Op \ (Unfinished \cup done)

Init ==
  /\ pc = [t \in Thread |-> "outside"]
  /\ next = [t \in Thread |-> "outside"]
  /\ call = [t \in Thread |-> None]
  /\ arg = [t \in Thread |-> None]
  /\ running = [t \in Thread |-> None]
  /\ private_op_queue = [t \in Thread |-> <<>>]
  /\ private_outstanding_work = [t \in Thread |-> 0]
  /\ op_queue_ = <<>>
  /\ task_ = FALSE
  /\ task_interrupted_ = TRUE
  /\ signalled = FALSE
  /\ outstanding_work_ = 0
  /\ stopped_ = FALSE
  /\ reactor = {} /\ ready = {} /\ done = {}
  /\ interrupted = FALSE

-----------------------------------------------------------------------------
\* Threads that are counted in the upper bits of the event's state_.
Waiters(t) == {u \in Thread \ {t} : pc[u] \in {"waiting", "woken"}}

\* Unlocks and goes on at place, signalling one waiter first if there are any.
UnlockAndSignalOne(t, place) ==
  /\ signalled' = TRUE
  /\ pc' = [pc EXCEPT ![t] = IF Waiters(t) # {} THEN "signal" ELSE place]
  /\ next' = [next EXCEPT ![t] = place]

\* Faulty variant: the task is not interrupted when no thread waits for the event.
wake_one_thread_and_unlock_OnlyWaiters(t, place, ti) ==
  /\ UnlockAndSignalOne(t, place)
  /\ task_interrupted_' = ti
  /\ UNCHANGED interrupted

\* A waiter is signalled, or the task is interrupted if nobody waits; ti is task_interrupted_.
wake_one_thread_and_unlock(t, place, ti) ==
  /\ UnlockAndSignalOne(t, place)
  /\ \/ /\ Waiters(t) = {} /\ ~ti /\ task_
        /\ task_interrupted_' = TRUE
        /\ interrupted' = TRUE
     \/ /\ ~(Waiters(t) = {} /\ ~ti /\ task_)
        /\ task_interrupted_' = ti
        /\ UNCHANGED interrupted

\* pthread_cond_signal, after the mutex has been released.
signal(t) ==
  /\ pc[t] = "signal"
  /\ \/ \E u \in Thread :
          /\ pc[u] = "waiting"
          /\ pc' = [pc EXCEPT ![u] = "woken", ![t] = next[t]]
     \/ /\ \A u \in Thread : pc[u] # "waiting"
        /\ pc' = [pc EXCEPT ![t] = next[t]]
  /\ UNCHANGED <<next, call, arg, running, private_op_queue, private_outstanding_work, op_queue_,
                 task_, task_interrupted_, signalled, outstanding_work_, stopped_, ioVars, interrupted>>

(***************************************************************************)
(* The part of do_run_one, do_wait_one and do_poll_one that runs under the *)
(* mutex, up to where it is released.  queue and ti are what op_queue_ and *)
(* task_interrupted_ are when it begins.                                   *)
(***************************************************************************)
Leave(t) == pc' = [pc EXCEPT ![t] = "outside"] /\ call' = [call EXCEPT ![t] = None]

\* The functions return, and the queue stays as it is.
Return(t, queue, ti) ==
  /\ Leave(t)
  /\ op_queue_' = queue
  /\ task_interrupted_' = ti
  /\ UNCHANGED <<next, running, signalled, interrupted>>

\* The first operation is a handler: another thread is woken for those behind it.
RunHandler(t, queue, ti) ==
  /\ queue # <<>> /\ Head(queue) # Task
  /\ running' = [running EXCEPT ![t] = Head(queue)]
  /\ op_queue_' = Tail(queue)
  /\ \/ /\ Tail(queue) # <<>> /\ ~OneThread
        /\ wake_one_thread_and_unlock(t, "handler", ti)
     \/ /\ Tail(queue) = <<>> \/ OneThread
        /\ pc' = [pc EXCEPT ![t] = "handler"]
        /\ task_interrupted_' = ti
        /\ UNCHANGED <<next, signalled, interrupted>>
  /\ UNCHANGED call

\* The first operation is the task: it only blocks (how) if the queue is empty without it.
RunTask(t, queue, how) ==
  /\ op_queue_' = Tail(queue)
  /\ task_interrupted_' = (Tail(queue) # <<>>)
  /\ LET place == IF Tail(queue) # <<>> THEN "pollingTask" ELSE how
     IN \/ /\ Tail(queue) # <<>> /\ ~OneThread
           /\ UnlockAndSignalOne(t, place)
        \/ /\ Tail(queue) = <<>> \/ OneThread
           /\ pc' = [pc EXCEPT ![t] = place]
           /\ UNCHANGED <<next, signalled>>
  /\ UNCHANGED <<call, running, interrupted>>

Wait(t, queue, ti) ==
  /\ signalled' = FALSE
  /\ pc' = [pc EXCEPT ![t] = "waiting"]
  /\ op_queue_' = queue
  /\ task_interrupted_' = ti
  /\ UNCHANGED <<next, call, running, interrupted>>

\* The task was run and is again the first in the queue: the next one may have it.
\* (A single thread does not signal the event; nobody would see it.)
PassTask(t, queue, ti) ==
  /\ op_queue_' = queue
  /\ task_interrupted_' = ti
  /\ UnlockAndSignalOne(t, "outside")
  /\ call' = [call EXCEPT ![t] = None]
  /\ UNCHANGED <<running, interrupted>>

do_run_one(t, queue, ti) ==
  \/ stopped_ /\ Return(t, queue, ti)
  \/ /\ ~stopped_
     /\ \/ RunHandler(t, queue, ti)
        \/ queue # <<>> /\ Head(queue) = Task /\ RunTask(t, queue, "blockingTask")
        \/ queue = <<>> /\ Wait(t, queue, ti)

\* was: what has been done before ("" at the start, "wait", "task").
do_wait_one(t, queue, ti, was) ==
  \/ was = "" /\ stopped_ /\ Return(t, queue, ti)
  \/ /\ was # "" \/ ~stopped_
     /\ \/ RunHandler(t, queue, ti)
        \/ /\ queue # <<>> /\ Head(queue) = Task
           /\ \/ was = "task" /\ PassTask(t, queue, ti)
              \/ was # "task" /\ RunTask(t, queue, IF was = "wait" THEN "pollingTask" ELSE "timedTask")
        \/ queue = <<>> /\ was = "" /\ Wait(t, queue, ti)
        \/ queue = <<>> /\ was # "" /\ Return(t, queue, ti)

do_poll_one(t, queue, ti, was) ==
  \/ was = "" /\ stopped_ /\ Return(t, queue, ti)
  \/ /\ was # "" \/ ~stopped_
     /\ \/ RunHandler(t, queue, ti)
        \/ /\ queue # <<>> /\ Head(queue) = Task
           /\ \/ was = "task" /\ PassTask(t, queue, ti)
              \/ /\ was = ""
                 /\ op_queue_' = Tail(queue)
                 /\ task_interrupted_' = ti
                 /\ pc' = [pc EXCEPT ![t] = "pollingTask"]
                 /\ UNCHANGED <<next, call, running, signalled, interrupted>>
        \/ queue = <<>> /\ Return(t, queue, ti)

Do(t, queue, ti, was) ==
  /\ \/ call[t] \in {"run", "run_one"} /\ do_run_one(t, queue, ti)
     \/ call[t] = "wait_one" /\ do_wait_one(t, queue, ti, was)
     \/ call[t] \in Polling /\ do_poll_one(t, queue, ti, was)
  /\ UNCHANGED <<task_, stopped_>>

-----------------------------------------------------------------------------
\* What a thread does outside of the scheduler, and what a handler may do.
Free(t) == pc[t] \in {"outside", "handler"}

\* run, poll and the others: without any work they stop the scheduler and return.
\* Calls from within a handler, for which poll and poll_one take over the private
\* queue of the outer call, are left out.
Call(t, function) ==
  /\ pc[t] = "outside"
  /\ call' = [call EXCEPT ![t] = IF outstanding_work_ = 0 THEN None ELSE function]
  /\ pc' = [pc EXCEPT ![t] = IF outstanding_work_ = 0 THEN "stop" ELSE "lock"]
  /\ next' = [next EXCEPT ![t] = "outside"]
  /\ UNCHANGED <<arg, running, private_op_queue, private_outstanding_work, op_queue_, task_,
                 task_interrupted_, signalled, outstanding_work_, stopped_, ioVars, interrupted>>

lock(t) ==
  /\ pc[t] = "lock"
  /\ Do(t, op_queue_, task_interrupted_, "")
  /\ UNCHANGED <<arg, private_op_queue, private_outstanding_work, outstanding_work_, ioVars>>

\* op goes to the thread's own queue, or is pushed once the mutex is locked.
Enqueue(t, op, private) ==
  \/ /\ private
     /\ private_op_queue' = [private_op_queue EXCEPT ![t] = Append(@, op)]
     /\ UNCHANGED <<pc, next, arg>>
  \/ /\ ~private
     /\ arg' = [arg EXCEPT ![t] = op]
     /\ next' = [next EXCEPT ![t] = pc[t]]
     /\ pc' = [pc EXCEPT ![t] = "push"]
     /\ UNCHANGED private_op_queue

post_immediate_completion(t, op, is_continuation) ==
  /\ Free(t)
  /\ op \in New
  /\ LET private == (OneThread \/ is_continuation) /\ pc[t] = "handler"
     IN /\ Enqueue(t, op, private)
        /\ \/ /\ private
              /\ private_outstanding_work' = [private_outstanding_work EXCEPT ![t] = @ + 1]
              /\ UNCHANGED outstanding_work_
           \/ /\ ~private
              /\ outstanding_work_' = outstanding_work_ + 1
              /\ UNCHANGED private_outstanding_work
  /\ UNCHANGED <<call, running, op_queue_, task_, task_interrupted_, signalled, stopped_, ioVars, interrupted>>

\* An operation that is cancelled in the reactor, and was counted when it was started.
post_deferred_completion(t, op) ==
  /\ Free(t)
  /\ op \in reactor
  /\ reactor' = reactor \ {op}
  /\ Enqueue(t, op, OneThread /\ pc[t] = "handler")
  /\ UNCHANGED <<call, running, private_outstanding_work, op_queue_, task_, task_interrupted_, signalled,
                 outstanding_work_, stopped_, ready, done, interrupted>>

\* Faulty variant: the task is pushed for every I/O object.
init_task_Always(t) ==
  /\ Free(t)
  /\ task_' = TRUE
  /\ op_queue_' = Append(op_queue_, Task)
  /\ UnlockAndSignalOne(t, pc[t])
  /\ UNCHANGED <<call, arg, running, private_op_queue, private_outstanding_work,
                 outstanding_work_, stopped_, ioVars, task_interrupted_, interrupted>>

\* The first I/O object is made.
init_task(t) ==
  /\ Free(t)
  /\ ~task_
  /\ task_' = TRUE
  /\ op_queue_' = Append(op_queue_, Task)
  /\ UnlockAndSignalOne(t, pc[t])
  /\ \/ /\ Waiters(t) = {} /\ ~task_interrupted_
        /\ task_interrupted_' = TRUE /\ interrupted' = TRUE
     \/ /\ ~(Waiters(t) = {} /\ ~task_interrupted_)
        /\ UNCHANGED <<task_interrupted_, interrupted>>
  /\ UNCHANGED <<call, arg, running, private_op_queue, private_outstanding_work,
                 outstanding_work_, stopped_, ioVars>>

push(t) ==
  /\ pc[t] = "push"
  /\ op_queue_' = Append(op_queue_, arg[t])
  /\ arg' = [arg EXCEPT ![t] = None]
  /\ wake_one_thread_and_unlock(t, next[t], task_interrupted_)
  /\ UNCHANGED <<call, running, private_op_queue, private_outstanding_work, task_,
                 outstanding_work_, stopped_, ioVars>>

\* An asynchronous operation is started: work_started, and the reactor has it.
start_op(t, op) ==
  /\ Free(t)
  /\ task_
  /\ op \in New
  /\ outstanding_work_' = outstanding_work_ + 1
  /\ reactor' = reactor \cup {op}
  /\ UNCHANGED <<threadVars, op_queue_, task_, task_interrupted_, signalled, stopped_, ready, done, interrupted>>

IoReady(op) ==
  /\ op \in reactor
  /\ reactor' = reactor \ {op}
  /\ ready' = ready \cup {op}
  /\ UNCHANGED <<threadVars, op_queue_, task_, task_interrupted_, signalled, outstanding_work_,
                 stopped_, done, interrupted>>

\* Faulty variant: a thread that waits in the reactor is left there.
stop_all_threads_NoInterrupt(t, place) ==
  /\ stopped_' = TRUE
  /\ signalled' = TRUE
  /\ pc' = [u \in Thread |-> IF u = t THEN place ELSE IF pc[u] = "waiting" THEN "woken" ELSE pc[u]]
  /\ UNCHANGED <<task_interrupted_, interrupted>>
  /\ UNCHANGED <<next, call, arg, running, private_op_queue, private_outstanding_work,
                 op_queue_, task_, outstanding_work_, ioVars>>

stop_all_threads(t, place) ==
  /\ stopped_' = TRUE
  /\ signalled' = TRUE
  /\ pc' = [u \in Thread |-> IF u = t THEN place ELSE IF pc[u] = "waiting" THEN "woken" ELSE pc[u]]
  /\ task_interrupted_' = (task_interrupted_ \/ task_)
  /\ interrupted' = (interrupted \/ (~task_interrupted_ /\ task_))
  /\ UNCHANGED <<next, call, arg, running, private_op_queue, private_outstanding_work,
                 op_queue_, task_, outstanding_work_, ioVars>>

\* stop is called, by the program or because no work is left.
stop(t) ==
  \/ Stops /\ Free(t) /\ ~stopped_ /\ stop_all_threads(t, pc[t])
  \/ pc[t] = "stop" /\ stop_all_threads(t, next[t])

\* Only allowed when no call of run and the others is unfinished.
restart(t) ==
  /\ pc[t] = "outside"
  /\ \A u \in Thread : call[u] = None /\ pc[u] # "stop"
  /\ stopped_
  /\ stopped_' = FALSE
  /\ UNCHANGED <<threadVars, op_queue_, task_, task_interrupted_, signalled, outstanding_work_, ioVars, interrupted>>

-----------------------------------------------------------------------------
\* Faulty variant: the work of the handler that ran is not taken off.
work_cleanup_Adds(t) ==
  /\ private_outstanding_work' = [private_outstanding_work EXCEPT ![t] = 0]
  /\ outstanding_work_' = outstanding_work_ + private_outstanding_work[t]
  /\ pc' = [pc EXCEPT ![t] = "cleanup"]
  /\ UNCHANGED next

\* Faulty variant: the last handler to finish does not stop the scheduler.
work_cleanup_NoStop(t) ==
  /\ private_outstanding_work' = [private_outstanding_work EXCEPT ![t] = 0]
  /\ outstanding_work_' = outstanding_work_ + private_outstanding_work[t] - 1
  /\ pc' = [pc EXCEPT ![t] = "cleanup"]
  /\ UNCHANGED next

(***************************************************************************)
(* ~work_cleanup: the work of the handler is taken off, what it posted to  *)
(* its own queue is added, in one change of the counter; work_finished     *)
(* stops the scheduler when that leaves none.                              *)
(***************************************************************************)
work_cleanup(t) ==
  /\ private_outstanding_work' = [private_outstanding_work EXCEPT ![t] = 0]
  /\ outstanding_work_' = outstanding_work_ + private_outstanding_work[t] - 1
  /\ LET last == private_outstanding_work[t] < 1 /\ outstanding_work_' = 0
     IN /\ pc' = [pc EXCEPT ![t] = IF last THEN "stop" ELSE "cleanup"]
        /\ next' = [next EXCEPT ![t] = "cleanup"]

\* The handler returns, or throws, in which case run does not go on.
complete(t) ==
  /\ pc[t] = "handler"
  /\ \/ UNCHANGED call
     \/ Throws /\ call' = [call EXCEPT ![t] = "unwinding"]
  /\ running' = [running EXCEPT ![t] = None]
  /\ done' = done \cup {running[t]}
  /\ work_cleanup(t)
  /\ UNCHANGED <<arg, private_op_queue, op_queue_, task_, task_interrupted_, signalled, stopped_,
                 reactor, ready, interrupted>>

\* The rest of ~work_cleanup; then run and poll go on with the mutex locked.
cleanup(t) ==
  /\ pc[t] = "cleanup"
  /\ private_op_queue' = [private_op_queue EXCEPT ![t] = <<>>]
  /\ LET queue == op_queue_ \o private_op_queue[t]
     IN \/ call[t] \in {"run", "poll"} /\ Do(t, queue, task_interrupted_, "")
        \/ /\ call[t] \notin {"run", "poll"}
           /\ Return(t, queue, task_interrupted_)
           /\ UNCHANGED <<task_, stopped_>>
  /\ UNCHANGED <<arg, private_outstanding_work, outstanding_work_, ioVars>>

\* The orders in which the reactor may return operations.
Orders(S) == {s \in [1..Cardinality(S) -> S] : Range(s) = S}

\* task_->run returns: something is ready, it was interrupted, or it was not to wait.
TaskReturns(t) ==
  /\ pc[t] \in Tasking
  /\ pc[t] = "blockingTask" => interrupted \/ ready # {}
  /\ \E s \in Orders(ready) :
       private_op_queue' = [private_op_queue EXCEPT ![t] = s]
  /\ ready' = {}
  /\ interrupted' = FALSE
  /\ pc' = [pc EXCEPT ![t] = "taskCleanup"]
  /\ UNCHANGED <<next, call, arg, running, private_outstanding_work, op_queue_, task_, task_interrupted_,
                 signalled, outstanding_work_, stopped_, reactor, done>>

\* ~task_cleanup: what the task has returned, and then the task itself, are pushed.
task_cleanup(t) ==
  /\ pc[t] = "taskCleanup"
  /\ private_op_queue' = [private_op_queue EXCEPT ![t] = <<>>]
  /\ Do(t, Append(op_queue_ \o private_op_queue[t], Task), TRUE, "task")
  /\ UNCHANGED <<arg, private_outstanding_work, outstanding_work_, ioVars>>

\* pthread_cond_wait returns, after a signal or for no reason; a timed wait also in time.
wait(t) ==
  /\ pc[t] \in {"waiting", "woken"}
  /\ \/ /\ call[t] = "wait_one" \/ signalled
        /\ Do(t, op_queue_, task_interrupted_, "wait")
     \/ /\ call[t] # "wait_one" /\ ~signalled /\ pc[t] = "woken"
        /\ pc' = [pc EXCEPT ![t] = "waiting"]
        /\ UNCHANGED <<next, call, running, op_queue_, task_, task_interrupted_, signalled, stopped_, interrupted>>
  /\ UNCHANGED <<arg, private_op_queue, private_outstanding_work, outstanding_work_, ioVars>>

-----------------------------------------------------------------------------
\* A thread that has something to do goes on; one in a wait only once it was woken.
GoesOn(t) ==
  \/ lock(t) \/ signal(t) \/ push(t) \/ complete(t) \/ cleanup(t)
  \/ TaskReturns(t) \/ task_cleanup(t)
  \/ pc[t] = "stop" /\ stop(t)
  \/ (pc[t] = "woken" \/ call[t] = "wait_one") /\ wait(t)

\* What the program does, and waits that end for no reason.
Program(t) ==
  \/ \E function \in Calls : Call(t, function)
  \/ \E op \in Op : \/ \E b \in BOOLEAN : post_immediate_completion(t, op, b)
                    \/ post_deferred_completion(t, op)
                    \/ start_op(t, op)
  \/ init_task(t) \/ restart(t)
  \/ pc[t] # "stop" /\ stop(t)
  \/ pc[t] = "waiting" /\ call[t] # "wait_one" /\ wait(t)

Next == (\E t \in Thread : GoesOn(t) \/ Program(t)) \/ (\E op \in Op : IoReady(op))

Spec == Init /\ [][Next]_vars

\* Threads that are not blocked are scheduled, and handlers return.
FairSpec == Spec /\ \A t \in Thread : WF_vars(GoesOn(t))

-----------------------------------------------------------------------------
(***************************************************************************)
(* outstanding_work_, with what the threads keep privately, counts the     *)
(* unfinished operations: run neither returns while there are some nor     *)
(* waits when there are none.                                              *)
(***************************************************************************)
PrivateWork ==
  LET sum[S \in SUBSET Thread] ==
        IF S = {} THEN 0
        ELSE LET t == CHOOSE t \in S : TRUE IN private_outstanding_work[t] + sum[S \ {t}]
  IN sum[Thread]

WorkIsCounted == outstanding_work_ + PrivateWork = Cardinality(Unfinished)

\* t runs the task, or is about to, or has to give it back.
Holds(t) ==
  \/ pc[t] \in Tasking \cup {"taskCleanup"}
  \/ pc[t] = "signal" /\ next[t] \in Tasking

\* The task is in the queue.
Queued == \E i \in DOMAIN op_queue_ : op_queue_[i] = Task

(***************************************************************************)
(* The task is in the queue once or run by one thread: two threads never   *)
(* wait in the reactor at the same time, and it is not lost.               *)
(***************************************************************************)
OneTask ==
  /\ \A i, j \in DOMAIN op_queue_ : op_queue_[i] = Task /\ op_queue_[j] = Task => i = j
  /\ \A t, u \in Thread : Holds(t) /\ Holds(u) => t = u
  /\ ~(Queued /\ \E t \in Thread : Holds(t))
  /\ task_ <=> Queued \/ \E t \in Thread : Holds(t)

(***************************************************************************)
(* No wakeup is lost among threads that call run: while one of them is in  *)
(* it, an operation in the queue gets executed, unless the scheduler is    *)
(* stopped.  (~work_cleanup wakes nobody for what a handler has posted to  *)
(* its own queue, as the thread goes on to take it.  One that is in        *)
(* run_one, or that an exception takes out of run, does not; hence the     *)
(* premise.)                                                               *)
(***************************************************************************)
OnlyRun == [](\A t \in Thread : call[t] \in {None, "run"})

QueuedIsRun ==
  OnlyRun =>
    \A op \in Op :
      op \in Range(op_queue_) ~>
        (op \notin Range(op_queue_) \/ stopped_ \/ \A t \in Thread : call[t] # "run")

(***************************************************************************)
(* When the scheduler is stopped every thread comes back from run and the  *)
(* others, even from the reactor.                                          *)
(***************************************************************************)
StopEndsRun == \A t \in Thread : stopped_ ~> (~stopped_ \/ call[t] = None)

(***************************************************************************)
(* run comes back when there is no work: the thread that finishes the last *)
(* operation stops the others, whatever is posted, started, cancelled or   *)
(* completed elsewhere at the same time.                                   *)
(***************************************************************************)
RunEndsWithoutWork ==
  \A t \in Thread : Unfinished = {} ~> (Unfinished # {} \/ call[t] = None)
=============================================================================
