---------------------------- MODULE SchedulerProofs ----------------------------
(***************************************************************************)
(* The task of a scheduler is never lost nor doubled, and its count of     *)
(* outstanding work is exact, for any number of threads and operations.    *)
(***************************************************************************)
EXTENDS Scheduler, SequenceFacts, FiniteSetTheorems, SequenceTheorems, TLAPS

\* Most steps here need no arithmetic: Zenon proves them, and SMT those that say so.
USE ZenonT(60)

Queue == Seq(Op \cup {Task})

TaskIn(q) == \E i \in DOMAIN q : q[i] = Task

AtMostOnce(q) == \A i, j \in DOMAIN q : q[i] = Task /\ q[j] = Task => i = j

Place ==
  {"outside", "lock", "waiting", "woken", "signal", "push", "stop", "handler", "cleanup",
   "blockingTask", "timedTask", "pollingTask", "taskCleanup"}

(***************************************************************************)
(* What the steps rely on: only handlers are kept privately, pushed or     *)
(* returned by the reactor, and a thread that is about to push or to stop  *)
(* the others does not go on with the task.                                *)
(***************************************************************************)
Places ==
  /\ op_queue_ \in Queue
  /\ private_op_queue \in [Thread -> Seq(Op)]
  /\ reactor \subseteq Op /\ ready \subseteq Op
  /\ task_ \in BOOLEAN
  /\ pc \in [Thread -> Place] /\ next \in [Thread -> Place]
  /\ arg \in [Thread -> Op \cup {None}]
  /\ \A t \in Thread : pc[t] = "push" => arg[t] \in Op /\ next[t] \in {"outside", "handler"}
  /\ \A t \in Thread : pc[t] = "stop" => next[t] \in {"outside", "cleanup"}
  /\ \A t \in Thread : pc[t] = "signal" => next[t] \in {"outside", "handler"} \cup Tasking

IInv == Places /\ OneTask

-----------------------------------------------------------------------------
\* The first operation is taken out of a queue.
LEMMA TailTask ==
  ASSUME NEW q \in Queue, q # <<>>, AtMostOnce(q)
  PROVE  /\ Tail(q) \in Queue /\ AtMostOnce(Tail(q))
         /\ Head(q) = Task => TaskIn(q) /\ ~TaskIn(Tail(q))
         /\ Head(q) # Task => (TaskIn(Tail(q)) <=> TaskIn(q))
<1>1. Len(q) \in Nat \ {0} /\ DOMAIN q = 1..Len(q)
  BY EmptySeq, SMTT(60) DEF Queue
<1>2. /\ Tail(q) \in Queue
      /\ DOMAIN Tail(q) = 1..(Len(q) - 1)
      /\ \A i \in 1..(Len(q) - 1) : Tail(q)[i] = q[i + 1]
  BY <1>1, SMTT(60) DEF Queue
<1>3. Head(q) = q[1]
  BY <1>1, SMTT(60) DEF Queue
<1>4. AtMostOnce(Tail(q))
  BY <1>1, <1>2, SMTT(60) DEF AtMostOnce
<1>5. ASSUME Head(q) = Task PROVE TaskIn(q) /\ ~TaskIn(Tail(q))
  BY <1>1, <1>2, <1>3, <1>5, SMTT(60) DEF AtMostOnce, TaskIn
<1>6. ASSUME Head(q) # Task, TaskIn(q) PROVE TaskIn(Tail(q))
  <2>1. PICK i \in 1..Len(q) : q[i] = Task
    BY <1>1, <1>6 DEF TaskIn
  <2>2. i # 1 /\ i - 1 \in 1..(Len(q) - 1) /\ (i - 1) + 1 = i
    BY <1>1, <1>3, <1>6, <2>1, SMTT(60)
  <2> QED
    BY <1>2, <2>1, <2>2 DEF TaskIn
<1>7. ASSUME TaskIn(Tail(q)) PROVE TaskIn(q)
  BY <1>1, <1>2, <1>7, SMTT(60) DEF TaskIn
<1> QED
  BY <1>2, <1>4, <1>5, <1>6, <1>7

\* Handlers are put behind a queue.
LEMMA ConcatHandlers ==
  ASSUME NEW q \in Queue, NEW s \in Seq(Op)
  PROVE  /\ q \o s \in Queue
         /\ AtMostOnce(q) => AtMostOnce(q \o s)
         /\ TaskIn(q \o s) <=> TaskIn(q)
<1>1. Task \notin Op
  BY SchedulerAssumption
<1>2. s \in Queue
  BY SeqMonotonic DEF Queue
<1>3. Len(q) \in Nat /\ DOMAIN q = 1..Len(q) /\ Len(s) \in Nat
  BY SMTT(60) DEF Queue
<1>4. /\ q \o s \in Queue
      /\ DOMAIN (q \o s) = 1..(Len(q) + Len(s))
      /\ \A i \in 1..Len(q) : (q \o s)[i] = q[i]
      /\ \A i \in (Len(q) + 1)..(Len(q) + Len(s)) : (q \o s)[i] = s[i - Len(q)]
  BY <1>2, <1>3, SMTT(60) DEF Queue
<1>5. \A i \in 1..Len(s) : s[i] # Task
  BY <1>1, ElementOfSeq
<1>6. \A i \in DOMAIN (q \o s) : (q \o s)[i] = Task => i \in 1..Len(q) /\ q[i] = Task
  <2> TAKE i \in DOMAIN (q \o s)
  <2>1. CASE i \in 1..Len(q)
    BY <1>4, <2>1
  <2>2. CASE i \in (Len(q) + 1)..(Len(q) + Len(s))
    <3>1. i - Len(q) \in 1..Len(s)
      BY <1>3, <2>2, SMTT(60)
    <3> QED
      BY <1>4, <1>5, <2>2, <3>1
  <2> QED
    BY <1>3, <1>4, <2>1, <2>2, SMTT(60)
<1>7. \A i \in 1..Len(q) : i \in DOMAIN (q \o s)
  BY <1>3, <1>4, SMTT(60)
<1> QED
  BY <1>3, <1>4, <1>6, <1>7 DEF AtMostOnce, TaskIn

\* A handler, or the task, is put behind a queue.
LEMMA AppendOne ==
  ASSUME NEW q \in Queue, AtMostOnce(q), NEW op \in Op \cup {Task}
  PROVE  /\ Append(q, op) \in Queue
         /\ op # Task => AtMostOnce(Append(q, op)) /\ (TaskIn(Append(q, op)) <=> TaskIn(q))
         /\ op = Task /\ ~TaskIn(q) => AtMostOnce(Append(q, op)) /\ TaskIn(Append(q, op))
<1>1. Len(q) \in Nat /\ DOMAIN q = 1..Len(q)
  BY SMTT(60) DEF Queue
<1>2. /\ Append(q, op) \in Queue
      /\ DOMAIN Append(q, op) = 1..(Len(q) + 1)
      /\ \A i \in 1..Len(q) : Append(q, op)[i] = q[i]
      /\ Append(q, op)[Len(q) + 1] = op
  BY <1>1, SMTT(60) DEF Queue
<1>3. \A i \in DOMAIN Append(q, op) : i \in DOMAIN q \/ i = Len(q) + 1
  BY <1>1, <1>2, SMTT(60)
<1>4. DOMAIN q \subseteq DOMAIN Append(q, op) /\ Len(q) + 1 \in DOMAIN Append(q, op)
  BY <1>1, <1>2, SMTT(60)
<1> QED
  BY <1>1, <1>2, <1>3, <1>4 DEF AtMostOnce, TaskIn

-----------------------------------------------------------------------------
\* t goes on with the queue q: it takes the task out of it or leaves it there.
Moves(t, q) ==
  /\ op_queue_' \in Queue /\ AtMostOnce(op_queue_')
  /\ pc' \in [Thread -> Place] /\ next' \in [Thread -> Place]
  /\ \A u \in Thread \ {t} : pc'[u] = pc[u] /\ next'[u] = next[u]
  /\ pc'[t] \notin {"push", "stop"}
  /\ pc'[t] = "signal" => next'[t] \in {"outside", "handler"} \cup Tasking
  /\ TaskIn(q) <=> TaskIn(op_queue_') \/ Holds(t)'
  /\ ~(TaskIn(op_queue_') /\ Holds(t)')

\* wakeup_event_: t goes on at place, after a signal if somebody waits.
LEMMA SignalMoves ==
  ASSUME NEW t \in Thread, NEW place \in Place, place \notin {"push", "stop", "signal", "taskCleanup"},
         pc \in [Thread -> Place], next \in [Thread -> Place],
         UnlockAndSignalOne(t, place)
  PROVE  /\ pc' \in [Thread -> Place] /\ next' \in [Thread -> Place]
         /\ \A u \in Thread \ {t} : pc'[u] = pc[u] /\ next'[u] = next[u]
         /\ pc'[t] \in {"signal", place} /\ next'[t] = place
         /\ Holds(t)' <=> place \in Tasking
  BY DEF UnlockAndSignalOne, Holds, Tasking, Place

\* do_run_one and the others take a handler.
LEMMA RunHandlerMoves ==
  ASSUME NEW t \in Thread, NEW q \in Queue, AtMostOnce(q), NEW ti,
         pc \in [Thread -> Place], next \in [Thread -> Place],
         RunHandler(t, q, ti)
  PROVE  Moves(t, q)
<1>1. /\ q # <<>> /\ Head(q) # Task
      /\ op_queue_' = Tail(q)
  BY DEF RunHandler
<1>2. op_queue_' \in Queue /\ AtMostOnce(op_queue_') /\ (TaskIn(op_queue_') <=> TaskIn(q))
  BY <1>1, TailTask
<1>3. /\ pc' \in [Thread -> Place] /\ next' \in [Thread -> Place]
      /\ \A u \in Thread \ {t} : pc'[u] = pc[u] /\ next'[u] = next[u]
      /\ pc'[t] \notin {"push", "stop"} /\ ~Holds(t)'
      /\ pc'[t] = "signal" => next'[t] \in {"outside", "handler"} \cup Tasking
  <2>1. CASE wake_one_thread_and_unlock(t, "handler", ti)
    BY <2>1, SignalMoves DEF wake_one_thread_and_unlock, Tasking, Place
  <2>2. CASE pc' = [pc EXCEPT ![t] = "handler"] /\ next' = next
    BY <2>2 DEF Holds, Tasking, Place
  <2> QED
    BY <2>1, <2>2 DEF RunHandler
<1> QED
  BY <1>2, <1>3 DEF Moves

\* They take the task.
LEMMA RunTaskMoves ==
  ASSUME NEW t \in Thread, NEW q \in Queue, AtMostOnce(q), q # <<>>, Head(q) = Task,
         NEW how \in Tasking,
         pc \in [Thread -> Place], next \in [Thread -> Place],
         RunTask(t, q, how)
  PROVE  Moves(t, q)
<1>1. op_queue_' = Tail(q)
  BY DEF RunTask
<1>2. op_queue_' \in Queue /\ AtMostOnce(op_queue_') /\ TaskIn(q) /\ ~TaskIn(op_queue_')
  BY <1>1, TailTask
<1> DEFINE place == IF Tail(q) # <<>> THEN "pollingTask" ELSE how
<1>3. place \in Tasking /\ place \in Place /\ place \notin {"push", "stop", "signal", "taskCleanup"}
  BY DEF Tasking, Place
<1>4. \/ UnlockAndSignalOne(t, place)
      \/ pc' = [pc EXCEPT ![t] = place] /\ next' = next
  BY DEF RunTask
<1> HIDE DEF place
<1>5. /\ pc' \in [Thread -> Place] /\ next' \in [Thread -> Place]
      /\ \A u \in Thread \ {t} : pc'[u] = pc[u] /\ next'[u] = next[u]
      /\ pc'[t] \notin {"push", "stop"} /\ Holds(t)'
      /\ pc'[t] = "signal" => next'[t] \in {"outside", "handler"} \cup Tasking
  <2>1. CASE UnlockAndSignalOne(t, place)
    BY <1>3, <2>1, SignalMoves
  <2>2. CASE pc' = [pc EXCEPT ![t] = place] /\ next' = next
    BY <1>3, <2>2 DEF Holds
  <2> QED
    BY <1>4, <2>1, <2>2
<1> QED
  BY <1>2, <1>5 DEF Moves

\* They leave the queue as it is: they return, wait, or pass the task on.
LEMMA QueueStays ==
  ASSUME NEW t \in Thread, NEW q \in Queue, AtMostOnce(q), NEW ti,
         pc \in [Thread -> Place], next \in [Thread -> Place],
         Return(t, q, ti) \/ Wait(t, q, ti) \/ PassTask(t, q, ti)
  PROVE  Moves(t, q)
<1>1. op_queue_' = q
  BY DEF Return, Wait, PassTask
<1>2. /\ pc' \in [Thread -> Place] /\ next' \in [Thread -> Place]
      /\ \A u \in Thread \ {t} : pc'[u] = pc[u] /\ next'[u] = next[u]
      /\ pc'[t] \notin {"push", "stop"} /\ ~Holds(t)'
      /\ pc'[t] = "signal" => next'[t] \in {"outside", "handler"} \cup Tasking
  <2>1. CASE Return(t, q, ti) \/ Wait(t, q, ti)
    BY <2>1 DEF Return, Leave, Wait, Holds, Tasking, Place
  <2>2. CASE PassTask(t, q, ti)
    BY <2>2, SignalMoves DEF PassTask, Tasking, Place
  <2> QED
    BY <2>1, <2>2
<1> QED
  BY <1>1, <1>2 DEF Moves

\* Whichever function t is in, it takes the task or leaves it in the queue.
LEMMA DoMoves ==
  ASSUME NEW t \in Thread, NEW q \in Queue, AtMostOnce(q), NEW ti, NEW was,
         pc \in [Thread -> Place], next \in [Thread -> Place],
         Do(t, q, ti, was)
  PROVE  Moves(t, q)
<1>1. \/ RunHandler(t, q, ti)
      \/ \E how \in Tasking : q # <<>> /\ Head(q) = Task /\ RunTask(t, q, how)
      \/ Return(t, q, ti) \/ Wait(t, q, ti) \/ PassTask(t, q, ti)
      \/ /\ q # <<>> /\ Head(q) = Task
         /\ op_queue_' = Tail(q)
         /\ pc' = [pc EXCEPT ![t] = "pollingTask"] /\ next' = next
  BY DEF Do, do_run_one, do_wait_one, do_poll_one, Tasking
<1>2. CASE /\ q # <<>> /\ Head(q) = Task
           /\ op_queue_' = Tail(q)
           /\ pc' = [pc EXCEPT ![t] = "pollingTask"] /\ next' = next
  <2>1. op_queue_' \in Queue /\ AtMostOnce(op_queue_') /\ TaskIn(q) /\ ~TaskIn(op_queue_')
    BY <1>2, TailTask
  <2> QED
    BY <1>2, <2>1 DEF Moves, Holds, Tasking, Place
<1> QED
  BY <1>1, <1>2, RunHandlerMoves, RunTaskMoves, QueueStays

-----------------------------------------------------------------------------
\* A thread that takes the task, leaves it or gives it back first: the others do nothing.
LEMMA MoveKeeps ==
  ASSUME IInv, NEW t \in Thread, NEW q \in Queue, Moves(t, q),
         TaskIn(q) <=> Queued \/ Holds(t),
         private_op_queue' \in [Thread -> Seq(Op)],
         UNCHANGED <<task_, arg, reactor, ready>>
  PROVE  IInv'
<1>1. \A u \in Thread \ {t} : Holds(u)' <=> Holds(u)
  BY DEF Moves, Holds
<1>2. Places'
  BY DEF IInv, Places, Moves
<1>3. Queued' <=> TaskIn(op_queue_')
  BY DEF Queued, TaskIn
<1>4. \A u \in Thread \ {t} : Holds(u) => ~Queued /\ ~Holds(t)
  BY DEF IInv, OneTask
<1>5. \A u, v \in Thread : Holds(u)' /\ Holds(v)' => u = v
  BY <1>1, <1>4 DEF IInv, OneTask, Moves
<1>6. ~(Queued' /\ \E u \in Thread : Holds(u)')
  BY <1>1, <1>3, <1>4 DEF Moves
<1>7. task_' <=> Queued' \/ \E u \in Thread : Holds(u)'
  BY <1>1, <1>3 DEF IInv, OneTask, Moves
<1> QED
  BY <1>2, <1>5, <1>6, <1>7 DEF IInv, OneTask, Moves, AtMostOnce

\* Nobody takes or gives back the task, and only handlers are queued.
LEMMA TaskStays ==
  ASSUME OneTask, task_' = task_,
         AtMostOnce(op_queue_'), TaskIn(op_queue_') <=> TaskIn(op_queue_),
         \A u \in Thread : Holds(u)' <=> Holds(u)
  PROVE  OneTask'
  BY DEF OneTask, Queued, TaskIn, AtMostOnce

\* A thread with the mutex goes on with the queue as it is.
LEMMA DoStep ==
  ASSUME IInv, NEW t \in Thread, lock(t) \/ wait(t)
  PROVE  IInv'
<1>1. op_queue_ \in Queue /\ AtMostOnce(op_queue_) /\ (TaskIn(op_queue_) <=> Queued)
  BY DEF IInv, Places, OneTask, AtMostOnce, Queued, TaskIn
<1>2. ~Holds(t)
  BY DEF lock, wait, Holds, Tasking
<1>3. UNCHANGED <<task_, arg, reactor, ready>> /\ private_op_queue' \in [Thread -> Seq(Op)]
  BY DEF IInv, Places, lock, wait, Do, ioVars
<1>4. CASE \E was \in {"", "wait"} : Do(t, op_queue_, task_interrupted_, was)
  <2>1. Moves(t, op_queue_)
    BY <1>1, <1>4, DoMoves DEF IInv, Places
  <2> QED
    BY <1>1, <1>2, <1>3, <2>1, MoveKeeps
<1>5. CASE pc' = [pc EXCEPT ![t] = "waiting"] /\ UNCHANGED <<next, op_queue_>>
  <2>1. \A u \in Thread : Holds(u)' <=> Holds(u)
    BY <1>2, <1>5 DEF IInv, Places, Holds, Tasking
  <2>2. Places'
    BY <1>3, <1>5 DEF IInv, Places, Place
  <2> QED
    BY <1>1, <1>3, <1>5, <2>1, <2>2, TaskStays DEF IInv
<1> QED
  BY <1>4, <1>5 DEF lock, wait

\* ~work_cleanup: handlers are put into the queue.
LEMMA CleanupStep ==
  ASSUME IInv, NEW t \in Thread, cleanup(t)
  PROVE  IInv'
<1> DEFINE q == op_queue_ \o private_op_queue[t]
<1>1. op_queue_ \in Queue /\ AtMostOnce(op_queue_) /\ private_op_queue[t] \in Seq(Op)
  BY DEF IInv, Places, OneTask, AtMostOnce
<1>2. q \in Queue /\ AtMostOnce(q) /\ (TaskIn(q) <=> Queued)
  BY <1>1, ConcatHandlers DEF Queued, TaskIn
<1>3. ~Holds(t)
  BY DEF cleanup, Holds, Tasking
<1>4. /\ Do(t, q, task_interrupted_, "") \/ Return(t, q, task_interrupted_)
      /\ UNCHANGED <<task_, arg, reactor, ready>>
      /\ private_op_queue' = [private_op_queue EXCEPT ![t] = <<>>]
  BY DEF cleanup, Do, ioVars
<1> HIDE DEF q
<1>5. private_op_queue' \in [Thread -> Seq(Op)]
  BY <1>4, EmptySeq DEF IInv, Places
<1>6. Moves(t, q)
  BY <1>2, <1>4, DoMoves, QueueStays DEF IInv, Places
<1> QED
  BY <1>2, <1>3, <1>4, <1>5, <1>6, MoveKeeps

\* ~task_cleanup: the task is given back behind what it has returned.
LEMMA TaskCleanupStep ==
  ASSUME IInv, NEW t \in Thread, task_cleanup(t)
  PROVE  IInv'
<1> DEFINE q == op_queue_ \o private_op_queue[t]
<1>1. op_queue_ \in Queue /\ AtMostOnce(op_queue_) /\ private_op_queue[t] \in Seq(Op)
  BY DEF IInv, Places, OneTask, AtMostOnce
<1>2. Holds(t) /\ ~Queued
  BY DEF IInv, OneTask, task_cleanup, Holds
<1>3. q \in Queue /\ AtMostOnce(q) /\ ~TaskIn(q)
  BY <1>1, <1>2, ConcatHandlers DEF Queued, TaskIn
<1>4. /\ Do(t, Append(q, Task), TRUE, "task")
      /\ UNCHANGED <<task_, arg, reactor, ready>>
      /\ private_op_queue' = [private_op_queue EXCEPT ![t] = <<>>]
  BY DEF task_cleanup, Do, ioVars
<1> HIDE DEF q
<1>5. private_op_queue' \in [Thread -> Seq(Op)]
  BY <1>4, EmptySeq DEF IInv, Places
<1>6. Append(q, Task) \in Queue /\ AtMostOnce(Append(q, Task)) /\ TaskIn(Append(q, Task))
  BY <1>3, AppendOne
<1>7. Moves(t, Append(q, Task))
  BY <1>4, <1>6, DoMoves DEF IInv, Places
<1> QED
  BY <1>2, <1>4, <1>5, <1>6, <1>7, MoveKeeps

\* The task returns handlers; its thread still has to give it back.
LEMMA TaskReturnsStep ==
  ASSUME IInv, NEW t \in Thread, TaskReturns(t)
  PROVE  IInv'
<1>1. PICK s \in Orders(ready) : private_op_queue' = [private_op_queue EXCEPT ![t] = s]
  BY DEF TaskReturns
<1>2. Cardinality(ready) \in Nat
  BY FS_Subset, FS_CardinalityType, SchedulerAssumption DEF IInv, Places
<1>3. s \in [1..Cardinality(ready) -> Op]
  BY <1>1 DEF Orders, IInv, Places
<1>4. s \in Seq(Op)
  BY <1>2, <1>3, SeqDef, SMTT(60)
<1>5. /\ pc[t] \in Tasking
      /\ pc' = [pc EXCEPT ![t] = "taskCleanup"]
      /\ ready' = {}
      /\ UNCHANGED <<next, arg, op_queue_, task_, reactor>>
  BY DEF TaskReturns
<1>6. Places'
  BY <1>1, <1>4, <1>5 DEF IInv, Places, Place
<1>7. \A u \in Thread : Holds(u)' <=> Holds(u)
  BY <1>5 DEF Holds, IInv, Places
<1> QED
  BY <1>5, <1>6, <1>7, TaskStays DEF IInv, OneTask, AtMostOnce

\* A waiter is woken, and the thread that signalled it goes on where it was to.
LEMMA SignalStep ==
  ASSUME IInv, NEW t \in Thread, signal(t)
  PROVE  IInv'
<1>1. /\ pc[t] = "signal" /\ next[t] \in {"outside", "handler"} \cup Tasking
      /\ UNCHANGED <<next, arg, private_op_queue, op_queue_, task_, reactor, ready>>
  BY DEF signal, IInv, Places, ioVars
<1>2. /\ pc' \in [Thread -> Place]
      /\ pc'[t] = next[t]
      /\ \A u \in Thread \ {t} : pc'[u] = pc[u] \/ (pc[u] = "waiting" /\ pc'[u] = "woken")
  BY <1>1 DEF signal, IInv, Places, Place, Tasking
<1>3. Places'
  BY <1>1, <1>2 DEF IInv, Places, Tasking
<1>4. \A u \in Thread : Holds(u)' <=> Holds(u)
  BY <1>1, <1>2 DEF Holds, Tasking
<1> QED
  BY <1>1, <1>3, <1>4, TaskStays DEF IInv, OneTask, AtMostOnce

\* A handler is pushed.
LEMMA PushStep ==
  ASSUME IInv, NEW t \in Thread, push(t)
  PROVE  IInv'
<1>1. /\ pc[t] = "push" /\ arg[t] \in Op /\ arg[t] # Task /\ next[t] \in {"outside", "handler"}
      /\ op_queue_' = Append(op_queue_, arg[t])
      /\ arg' = [arg EXCEPT ![t] = None]
      /\ UnlockAndSignalOne(t, next[t])
      /\ UNCHANGED <<private_op_queue, task_, reactor, ready>>
  BY SchedulerAssumption DEF push, wake_one_thread_and_unlock, IInv, Places, ioVars
<1>2. op_queue_ \in Queue /\ AtMostOnce(op_queue_)
  BY DEF IInv, Places, OneTask, AtMostOnce
<1>3. /\ op_queue_' \in Queue /\ AtMostOnce(op_queue_')
      /\ TaskIn(op_queue_') <=> TaskIn(op_queue_)
  BY <1>1, <1>2, AppendOne
<1>4. /\ pc' \in [Thread -> Place] /\ next' \in [Thread -> Place]
      /\ \A u \in Thread \ {t} : pc'[u] = pc[u] /\ next'[u] = next[u]
      /\ pc'[t] \in {"signal", next[t]} /\ next'[t] = next[t] /\ ~Holds(t)'
  <2>1. pc \in [Thread -> Place] /\ next \in [Thread -> Place]
    BY DEF IInv, Places
  <2>2. /\ next[t] \in Place /\ next[t] \notin Tasking
        /\ next[t] \notin {"push", "stop", "signal", "taskCleanup"}
    BY <1>1 DEF Place, Tasking
  <2> QED
    BY <1>1, <2>1, <2>2, SignalMoves
<1>5. Places'
  BY <1>1, <1>3, <1>4 DEF IInv, Places
<1>6. \A u \in Thread : Holds(u)' <=> Holds(u)
  BY <1>1, <1>4 DEF Holds, Tasking
<1> QED
  BY <1>1, <1>3, <1>5, <1>6, TaskStays DEF IInv

\* The first I/O object pushes the task, which nobody had.
LEMMA InitTaskStep ==
  ASSUME IInv, NEW t \in Thread, init_task(t)
  PROVE  IInv'
<1>1. /\ pc[t] \in {"outside", "handler"} /\ ~task_ /\ task_' = TRUE
      /\ op_queue_' = Append(op_queue_, Task)
      /\ UnlockAndSignalOne(t, pc[t])
      /\ UNCHANGED <<arg, private_op_queue, reactor, ready>>
  BY DEF init_task, Free, ioVars
<1>2. op_queue_ \in Queue /\ AtMostOnce(op_queue_) /\ ~TaskIn(op_queue_)
  BY <1>1 DEF IInv, Places, OneTask, AtMostOnce, Queued, TaskIn
<1>3. op_queue_' \in Queue /\ AtMostOnce(op_queue_') /\ TaskIn(op_queue_')
  BY <1>1, <1>2, AppendOne
<1>4. /\ pc' \in [Thread -> Place] /\ next' \in [Thread -> Place]
      /\ \A u \in Thread \ {t} : pc'[u] = pc[u] /\ next'[u] = next[u]
      /\ pc'[t] \in {"signal", pc[t]} /\ next'[t] = pc[t] /\ ~Holds(t)'
  <2>1. pc \in [Thread -> Place] /\ next \in [Thread -> Place]
    BY DEF IInv, Places
  <2>2. /\ pc[t] \in Place /\ pc[t] \notin Tasking
        /\ pc[t] \notin {"push", "stop", "signal", "taskCleanup"}
    BY <1>1 DEF Place, Tasking
  <2> QED
    BY <1>1, <2>1, <2>2, SignalMoves
<1>5. Places'
  BY <1>1, <1>3, <1>4 DEF IInv, Places
<1>6. \A u \in Thread : ~Holds(u)'
  <2>1. \A u \in Thread : ~Holds(u)
    BY <1>1 DEF IInv, OneTask
  <2> QED
    BY <1>4, <2>1 DEF Holds
<1> QED
  BY <1>1, <1>3, <1>5, <1>6 DEF IInv, OneTask, Queued, TaskIn, AtMostOnce

\* Steps of the program, of handlers and of the kernel that leave op_queue_ and the task alone.
LEMMA OtherStep ==
  ASSUME IInv, UNCHANGED <<op_queue_, task_>>, Places',
         \A u \in Thread : Holds(u)' <=> Holds(u)
  PROVE  IInv'
  BY TaskStays DEF IInv, OneTask, AtMostOnce

\* stop: whoever waits is woken; the thread that stops them goes on.
LEMMA StopStep ==
  ASSUME IInv, NEW t \in Thread, stop(t)
  PROVE  IInv'
<1>1. PICK place \in {"outside", "handler", "cleanup"} :
        /\ stop_all_threads(t, place)
        /\ pc[t] \in {"outside", "handler", "stop"}
  BY DEF stop, Free, IInv, Places
<1>2. /\ pc' = [u \in Thread |-> IF u = t THEN place
                                ELSE IF pc[u] = "waiting" THEN "woken" ELSE pc[u]]
      /\ UNCHANGED <<next, arg, private_op_queue, op_queue_, task_, reactor, ready>>
  BY <1>1 DEF stop_all_threads, ioVars
<1>3. Places'
  BY <1>1, <1>2 DEF IInv, Places, Place
<1>4. \A u \in Thread : Holds(u)' <=> Holds(u)
  BY <1>1, <1>2 DEF Holds, Tasking
<1> QED
  BY <1>2, <1>3, <1>4, OtherStep

\* A thread is called, or its handler ends.
LEMMA CallOrCompleteStep ==
  ASSUME IInv, NEW t \in Thread,
         (\E function \in Calls : Call(t, function)) \/ complete(t)
  PROVE  IInv'
<1>1. /\ pc[t] \in {"outside", "handler"}
      /\ \E place \in {"stop", "lock", "cleanup"} : pc' = [pc EXCEPT ![t] = place]
      /\ \E place \in {"outside", "cleanup"} : next' = [next EXCEPT ![t] = place]
      /\ UNCHANGED <<arg, private_op_queue, op_queue_, task_, reactor, ready>>
  BY DEF Call, complete, work_cleanup, ioVars
<1>2. Places'
  BY <1>1, SMTT(60) DEF IInv, Places, Place
<1>3. \A u \in Thread : Holds(u)' <=> Holds(u)
  BY <1>1 DEF Holds, Tasking, IInv, Places
<1> QED
  BY <1>1, <1>2, <1>3, OtherStep

\* An operation is posted: kept privately, or to be pushed.
LEMMA EnqueueStep ==
  ASSUME IInv, NEW t \in Thread, NEW op \in Op, NEW private \in BOOLEAN,
         Free(t), Enqueue(t, op, private), reactor' \subseteq Op,
         UNCHANGED <<op_queue_, task_, ready>>
  PROVE  IInv'
<1>1. CASE /\ private_op_queue' = [private_op_queue EXCEPT ![t] = Append(@, op)]
           /\ UNCHANGED <<pc, next, arg>>
  <2>1. private_op_queue' \in [Thread -> Seq(Op)]
    BY <1>1, SMTT(60) DEF IInv, Places
  <2>2. Places'
    BY <1>1, <2>1 DEF IInv, Places
  <2> QED
    BY <1>1, <2>2, OtherStep DEF Holds
<1>2. CASE /\ arg' = [arg EXCEPT ![t] = op]
           /\ next' = [next EXCEPT ![t] = pc[t]]
           /\ pc' = [pc EXCEPT ![t] = "push"]
           /\ UNCHANGED private_op_queue
  <2>1. Places'
    BY <1>2 DEF IInv, Places, Place, Free
  <2>2. \A u \in Thread : Holds(u)' <=> Holds(u)
    BY <1>2 DEF Holds, Tasking, IInv, Places, Free
  <2> QED
    BY <2>1, <2>2, OtherStep
<1> QED
  BY <1>1, <1>2 DEF Enqueue

\* An operation is started, or its I/O becomes ready, or the scheduler is restarted.
LEMMA IoStep ==
  ASSUME IInv, reactor' \subseteq Op, ready' \subseteq Op,
         UNCHANGED <<threadVars, op_queue_, task_>>
  PROVE  IInv'
<1>1. Places'
  BY DEF IInv, Places, threadVars
<1>2. \A u \in Thread : Holds(u)' <=> Holds(u)
  BY DEF Holds, threadVars
<1> QED
  BY <1>1, <1>2, OtherStep

-----------------------------------------------------------------------------
\* At the start nobody has the task, which does not exist.
LEMMA InitIInv == Init => IInv
<1> SUFFICES ASSUME Init PROVE IInv
  OBVIOUS
<1>1. <<>> \in Queue /\ <<>> \in Seq(Op) /\ DOMAIN <<>> = {}
  BY SMTT(60) DEF Queue
<1>2. Places
  BY <1>1 DEF Init, Places, Place
<1>3. ~Queued /\ \A t \in Thread : ~Holds(t)
  BY <1>1 DEF Init, Queued, Holds, Tasking
<1> QED
  BY <1>1, <1>2, <1>3 DEF Init, IInv, OneTask

\* Every step keeps the task in its one place.
LEMMA StepIInv == IInv /\ [Next]_vars => IInv'
<1> SUFFICES ASSUME IInv, [Next]_vars PROVE IInv'
  OBVIOUS
<1>1. ASSUME NEW t \in Thread, GoesOn(t) PROVE IInv'
  BY <1>1, DoStep, SignalStep, PushStep, CallOrCompleteStep, CleanupStep, TaskReturnsStep,
     TaskCleanupStep, StopStep DEF GoesOn
<1>2. ASSUME NEW t \in Thread, Program(t) PROVE IInv'
  <2>1. CASE \E function \in Calls : Call(t, function)
    BY <2>1, CallOrCompleteStep
  <2>2. ASSUME NEW op \in Op, NEW b \in BOOLEAN, post_immediate_completion(t, op, b) PROVE IInv'
    <3>1. /\ Free(t) /\ reactor' \subseteq Op
          /\ Enqueue(t, op, (OneThread \/ b) /\ pc[t] = "handler")
          /\ UNCHANGED <<op_queue_, task_, ready>>
      BY <2>2 DEF post_immediate_completion, ioVars, IInv, Places
    <3> QED
      BY <3>1, EnqueueStep
  <2>3. ASSUME NEW op \in Op, post_deferred_completion(t, op) PROVE IInv'
    <3>1. /\ Free(t) /\ reactor' \subseteq Op
          /\ Enqueue(t, op, OneThread /\ pc[t] = "handler")
          /\ UNCHANGED <<op_queue_, task_, ready>>
      BY <2>3 DEF post_deferred_completion, IInv, Places
    <3> QED
      BY <3>1, EnqueueStep
  <2>4. ASSUME NEW op \in Op, start_op(t, op) PROVE IInv'
    BY <2>4, IoStep DEF start_op, IInv, Places
  <2>5. CASE init_task(t)
    BY <2>5, InitTaskStep
  <2>6. CASE restart(t)
    BY <2>6, IoStep DEF restart, ioVars, IInv, Places
  <2>7. CASE stop(t)
    BY <2>7, StopStep
  <2>8. CASE wait(t)
    BY <2>8, DoStep
  <2> QED
    BY <1>2, <2>1, <2>2, <2>3, <2>4, <2>5, <2>6, <2>7, <2>8 DEF Program
<1>3. ASSUME NEW op \in Op, IoReady(op) PROVE IInv'
  BY <1>3, IoStep DEF IoReady, IInv, Places
<1>4. CASE UNCHANGED vars
  BY <1>4, IoStep DEF vars, ioVars, IInv, Places
<1> QED
  BY <1>1, <1>2, <1>3, <1>4 DEF Next

(***************************************************************************)
(* The task of the scheduler (task_operation_) is in op_queue_ once or in  *)
(* the hands of one thread, from init_task on and for ever, whichever of   *)
(* the five functions the threads call, throw out of or are stopped in.    *)
(***************************************************************************)
THEOREM SchedulerOneTask == Spec => []OneTask
<1>1. IInv => OneTask
  BY DEF IInv
<1> QED
  BY <1>1, InitIInv, StepIInv, PTL DEF Spec

-----------------------------------------------------------------------------
(***************************************************************************)
(* The count of work: sums over the threads, by induction on the number of *)
(* threads.                                                                *)
(***************************************************************************)
One(S) == CHOOSE t \in S : TRUE

Sums(f, a) == f = [S \in SUBSET Thread |-> IF S = {} THEN 0 ELSE a[One(S)] + f[S \ {One(S)}]]

\* The sets of at most n threads.
Groups(n) == {S \in SUBSET Thread : Cardinality(S) <= n}

LEMMA Group ==
  ASSUME NEW S \in SUBSET Thread
  PROVE  /\ Cardinality(S) \in Nat
         /\ Cardinality(S) = 0 <=> S = {}
         /\ S # {} => /\ One(S) \in S
                      /\ S \ {One(S)} \in SUBSET Thread
                      /\ Cardinality(S \ {One(S)}) = Cardinality(S) - 1
<1>1. IsFiniteSet(S)
  BY FS_Subset, SchedulerAssumption
<1>2. Cardinality(S) \in Nat /\ (Cardinality(S) = 0 <=> S = {})
  BY <1>1, FS_CardinalityType, FS_EmptySet
<1>3. ASSUME S # {} PROVE One(S) \in S
  BY <1>3 DEF One
<1>4. ASSUME S # {} PROVE Cardinality(S \ {One(S)}) = Cardinality(S) - 1
  BY <1>1, <1>3, <1>4, FS_RemoveElement
<1> QED BY <1>2, <1>3, <1>4

\* The recursive function exists, and so satisfies its definition.
LEMMA SumsExist ==
  ASSUME NEW a
  PROVE  \E f : Sums(f, a)
<1> DEFINE Def(f, n) == f = [S \in Groups(n) |-> IF S = {} THEN 0 ELSE a[One(S)] + f[S \ {One(S)}]]
           T == {n \in Nat : \E f : Def(f, n)}
<1>1. 0 \in T
  <2> DEFINE f == [S \in Groups(0) |-> 0]
  <2>1. ASSUME NEW S \in Groups(0) PROVE S = {}
    <3>1. S \in SUBSET Thread /\ Cardinality(S) <= 0
      BY DEF Groups
    <3>2. Cardinality(S) \in Nat /\ (Cardinality(S) = 0 <=> S = {})
      BY <3>1, Group
    <3> QED BY <3>1, <3>2, SMTT(60)
  <2>2. Def(f, 0)
    BY <2>1
  <2> QED BY <2>2
<1>2. ASSUME NEW n \in Nat, n \in T PROVE n + 1 \in T
  <2>1. PICK f : Def(f, n)
    BY <1>2
  <2> DEFINE g == [S \in Groups(n + 1) |-> IF S = {} THEN 0 ELSE a[One(S)] + f[S \ {One(S)}]]
  <2>2. ASSUME NEW S \in Groups(n + 1), S # {}
        PROVE  g[S \ {One(S)}] = f[S \ {One(S)}]
    <3>1. PICK R : R = S \ {One(S)}
      OBVIOUS
    <3>2. R \in Groups(n) /\ R \in Groups(n + 1)
      BY <2>2, <3>1, Group, SMTT(60) DEF Groups
    <3>3. g[R] = IF R = {} THEN 0 ELSE a[One(R)] + f[R \ {One(R)}]
      BY <3>2
    <3>4. f[R] = IF R = {} THEN 0 ELSE a[One(R)] + f[R \ {One(R)}]
      BY <2>1, <3>2
    <3> QED BY <3>1, <3>3, <3>4
  <2>3. \A S \in Groups(n + 1) : g[S] = IF S = {} THEN 0 ELSE a[One(S)] + g[S \ {One(S)}]
    BY <2>2
  <2>4. g = [S \in Groups(n + 1) |-> g[S]]
    OBVIOUS
  <2> HIDE DEF g
  <2>5. Def(g, n + 1)
    BY <2>3, <2>4
  <2>6. \E h : Def(h, n + 1)
    BY <2>5
  <2>7. n + 1 \in Nat
    BY SMTT(60)
  <2> QED BY <2>6, <2>7, Zenon
<1> HIDE DEF T
<1>3. Nat \subseteq T
  BY <1>1, <1>2, SetInduction
<1>4. PICK n : n = Cardinality(Thread)
  OBVIOUS
<1>5. n \in Nat /\ Groups(n) = SUBSET Thread
  BY <1>4, FS_Subset, FS_CardinalityType, SchedulerAssumption DEF Groups
<1>6. \E f : Def(f, n)
  BY <1>3, <1>5 DEF T
<1>7. \A f : Def(f, n) <=> Sums(f, a)
  BY <1>5 DEF Sums
<1> HIDE DEF Def
<1> QED BY <1>6, <1>7

\* Nobody has any work.
LEMMA SumOfNone ==
  ASSUME NEW f, NEW a, Sums(f, a), \A t \in Thread : a[t] = 0
  PROVE  f[Thread] = 0
<1> DEFINE T == {n \in Nat : \A S \in SUBSET Thread : Cardinality(S) = n => f[S] = 0}
<1>1. \A S \in SUBSET Thread : f[S] = IF S = {} THEN 0 ELSE a[One(S)] + f[S \ {One(S)}]
  BY DEF Sums
<1>2. 0 \in T
  BY <1>1, Group
<1>3. ASSUME NEW n \in Nat, n \in T PROVE n + 1 \in T
  <2> SUFFICES ASSUME NEW S \in SUBSET Thread, Cardinality(S) = n + 1
               PROVE  f[S] = 0
    BY SMTT(60)
  <2>1. PICK u : u = One(S)
    OBVIOUS
  <2>2. PICK R : R = S \ {u}
    OBVIOUS
  <2>3. S # {} /\ u \in S /\ u \in Thread /\ R \in SUBSET Thread /\ Cardinality(R) = n
    BY <2>1, <2>2, Group, SMTT(60)
  <2>4. f[R] = 0 /\ a[u] = 0
    BY <1>3, <2>3
  <2>5. f[S] = a[u] + f[R]
    BY <1>1, <2>1, <2>2, <2>3
  <2> QED BY <2>4, <2>5, SMTT(60)
<1> HIDE DEF T
<1>4. Nat \subseteq T
  BY <1>2, <1>3, SetInduction
<1>5. Cardinality(Thread) \in Nat /\ Thread \in SUBSET Thread
  BY Group
<1> QED BY <1>4, <1>5 DEF T

\* One of them gets more or less of it.
LEMMA SumChanges ==
  ASSUME NEW f, NEW a \in [Thread -> Int], Sums(f, a),
         NEW g, NEW b \in [Thread -> Int], Sums(g, b),
         NEW t \in Thread, \A u \in Thread \ {t} : b[u] = a[u]
  PROVE  f[Thread] \in Int /\ g[Thread] = f[Thread] + (b[t] - a[t])
<1> DEFINE Changes(S) == f[S] \in Int /\ g[S] = f[S] + (IF t \in S THEN b[t] - a[t] ELSE 0)
           T == {n \in Nat : \A S \in SUBSET Thread : Cardinality(S) = n => Changes(S)}
<1>1. \A S \in SUBSET Thread : /\ f[S] = IF S = {} THEN 0 ELSE a[One(S)] + f[S \ {One(S)}]
                               /\ g[S] = IF S = {} THEN 0 ELSE b[One(S)] + g[S \ {One(S)}]
  BY DEF Sums
<1>2. 0 \in T
  <2>1. \A S \in SUBSET Thread : Cardinality(S) = 0 => f[S] = 0 /\ g[S] = 0 /\ t \notin S
    BY <1>1, Group
  <2> QED BY <2>1, SMTT(60)
<1>3. ASSUME NEW n \in Nat, n \in T PROVE n + 1 \in T
  <2> SUFFICES ASSUME NEW S \in SUBSET Thread, Cardinality(S) = n + 1
               PROVE  Changes(S)
    BY SMTT(60)
  <2>1. PICK u : u = One(S)
    OBVIOUS
  <2>2. PICK R : R = S \ {u}
    OBVIOUS
  <2>3. S # {} /\ u \in S /\ u \in Thread /\ R \in SUBSET Thread /\ Cardinality(R) = n
    BY <2>1, <2>2, Group, SMTT(60)
  <2>4. Changes(R)
    BY <1>3, <2>3
  <2>5. f[S] = a[u] + f[R] /\ g[S] = b[u] + g[R]
    BY <1>1, <2>1, <2>2, <2>3
  <2>6. a[u] \in Int /\ b[u] \in Int /\ a[t] \in Int /\ b[t] \in Int
    BY <2>3
  <2>7. CASE u = t
    <3>1. t \notin R /\ t \in S
      BY <2>2, <2>3, <2>7
    <3> QED BY <2>4, <2>5, <2>6, <2>7, <3>1, SMTT(60)
  <2>8. CASE u # t
    <3>1. (t \in R <=> t \in S) /\ b[u] = a[u]
      BY <2>2, <2>3, <2>8
    <3> QED BY <2>4, <2>5, <2>6, <3>1, SMTT(60)
  <2> QED BY <2>7, <2>8
<1> HIDE DEF T
<1>4. Nat \subseteq T
  BY <1>2, <1>3, SetInduction
<1>5. Cardinality(Thread) \in Nat /\ Thread \in SUBSET Thread
  BY Group
<1>6. Changes(Thread)
  BY <1>4, <1>5 DEF T
<1> QED BY <1>6

\* PrivateWork is such a sum.
LEMMA PrivateWorkSums ==
  /\ \E f : Sums(f, private_outstanding_work) /\ PrivateWork = f[Thread]
  /\ \E f : Sums(f, private_outstanding_work') /\ PrivateWork' = f[Thread]
  /\ UNCHANGED private_outstanding_work => UNCHANGED PrivateWork
<1> DEFINE Work(a) == (CHOOSE f : Sums(f, a))[Thread]
<1>1. \A a : \E f : Sums(f, a) /\ Work(a) = f[Thread]
  BY SumsExist
<1>2. PrivateWork = Work(private_outstanding_work) /\ PrivateWork' = Work(private_outstanding_work')
  BY DEF PrivateWork, Sums, One
<1> HIDE DEF Work
<1> QED BY <1>1, <1>2

-----------------------------------------------------------------------------
(***************************************************************************)
(* Sequences in which nothing occurs twice.                                *)
(***************************************************************************)
LEMMA TailElements ==
  ASSUME NEW S, NEW q \in Seq(S), q # <<>>, IsInjective(q)
  PROVE  /\ Head(q) \in Range(q)
         /\ Range(Tail(q)) = Range(q) \ {Head(q)}
         /\ IsInjective(Tail(q))
<1>1. PICK n \in Nat \ {0} : n = Len(q) /\ DOMAIN q = 1..n
  BY EmptySeq, SMTT(60)
<1>2. Head(q) = q[1] /\ DOMAIN Tail(q) = 1..(n - 1) /\ \A i \in 1..(n - 1) : Tail(q)[i] = q[i + 1]
  BY <1>1, SMTT(60)
<1>3. \A i, j \in 1..n : q[i] = q[j] => i = j
  BY <1>1 DEF IsInjective
<1>4. Head(q) \in Range(q)
  BY <1>1, <1>2, SMTT(60) DEF Range
<1>5. \A i \in 1..(n - 1) : i + 1 \in 1..n /\ i + 1 # 1
  BY <1>1, SMTT(60)
<1>6. ASSUME NEW i \in 1..n, i # 1 PROVE i - 1 \in 1..(n - 1) /\ Tail(q)[i - 1] = q[i]
  <2>1. i - 1 \in 1..(n - 1) /\ (i - 1) + 1 = i
    BY <1>1, <1>6, SMTT(60)
  <2> QED BY <1>2, <2>1
<1>7. Range(Tail(q)) \subseteq Range(q) \ {Head(q)}
  BY <1>1, <1>2, <1>3, <1>5, SMTT(60) DEF Range
<1>8. Range(q) \ {Head(q)} \subseteq Range(Tail(q))
  <2> SUFFICES ASSUME NEW i \in 1..n, q[i] # q[1] PROVE q[i] \in Range(Tail(q))
    BY <1>1, <1>2 DEF Range
  <2>1. i - 1 \in DOMAIN Tail(q) /\ Tail(q)[i - 1] = q[i]
    BY <1>2, <1>6
  <2> QED BY <2>1 DEF Range
<1>9. IsInjective(Tail(q))
  BY <1>1, <1>2, <1>3, <1>5, SMTT(60) DEF IsInjective
<1> QED BY <1>4, <1>7, <1>8, <1>9

LEMMA ConcatElements ==
  ASSUME NEW S, NEW q \in Seq(S), NEW s \in Seq(S)
  PROVE  /\ q \o s \in Seq(S)
         /\ Range(q \o s) = Range(q) \cup Range(s)
         /\ IsInjective(q) /\ IsInjective(s) /\ Range(q) \cap Range(s) = {} => IsInjective(q \o s)
<1>1. PICK n \in Nat : n = Len(q) /\ DOMAIN q = 1..n
  BY LenProperties
<1>2. PICK m \in Nat : m = Len(s) /\ DOMAIN s = 1..m
  BY LenProperties
<1>3. PICK z \in Seq(S) : z = q \o s
  BY ConcatProperties
<1>4. /\ DOMAIN z = 1..(n + m)
      /\ \A i \in 1..n : z[i] = q[i]
      /\ \A i \in 1..m : z[n + i] = s[i]
  BY <1>1, <1>2, <1>3, SMTT(60)
<1>5. ASSUME NEW i \in 1..(n + m), i \notin 1..n PROVE i - n \in 1..m /\ n + (i - n) = i
  BY <1>1, <1>5, SMTT(60)
<1>6. \A i \in 1..n : i \in 1..(n + m)
  BY <1>1, SMTT(60)
<1>7. \A i \in 1..m : n + i \in 1..(n + m)
  BY <1>1, SMTT(60)
<1>8. Range(z) \subseteq Range(q) \cup Range(s)
  <2> SUFFICES ASSUME NEW i \in 1..(n + m) PROVE z[i] \in Range(q) \cup Range(s)
    BY <1>4 DEF Range
  <2>1. CASE i \in 1..n
    BY <1>1, <1>4, <2>1 DEF Range
  <2>2. CASE i \notin 1..n
    <3>1. z[i] = s[i - n]
      BY <1>4, <1>5, <2>2
    <3> QED BY <1>2, <1>5, <2>2, <3>1 DEF Range
  <2> QED BY <2>1, <2>2
<1>9. Range(q) \subseteq Range(z)
  BY <1>1, <1>4, <1>6 DEF Range
<1>10. Range(s) \subseteq Range(z)
  <2> SUFFICES ASSUME NEW i \in 1..m PROVE s[i] \in Range(z)
    BY <1>2 DEF Range
  <2>1. n + i \in DOMAIN z /\ z[n + i] = s[i]
    BY <1>4, <1>7
  <2> QED BY <2>1 DEF Range
<1>11. ASSUME IsInjective(q), IsInjective(s), Range(q) \cap Range(s) = {}
       PROVE  IsInjective(z)
  <2>1. \A i, j \in 1..n : q[i] = q[j] => i = j
    BY <1>1, <1>11 DEF IsInjective
  <2>2. \A i, j \in 1..m : s[i] = s[j] => i = j
    BY <1>2, <1>11 DEF IsInjective
  <2>3. \A i \in 1..n, j \in 1..m : q[i] # s[j]
    BY <1>1, <1>2, <1>11 DEF Range
  <2> SUFFICES ASSUME NEW i \in 1..(n + m), NEW j \in 1..(n + m), z[i] = z[j] PROVE i = j
    BY <1>4 DEF IsInjective
  <2>4. CASE i \in 1..n /\ j \in 1..n
    BY <1>4, <2>1, <2>4
  <2>5. ASSUME NEW k \in 1..(n + m), k \notin 1..n
        PROVE  \E x \in 1..m : n + x = k /\ z[k] = s[x]
    BY <1>4, <1>5, <2>5
  <2>6. CASE i \notin 1..n /\ j \notin 1..n
    <3>1. PICK x \in 1..m : n + x = i /\ z[i] = s[x]
      BY <2>5, <2>6
    <3>2. PICK y \in 1..m : n + y = j /\ z[j] = s[y]
      BY <2>5, <2>6
    <3> QED BY <2>2, <3>1, <3>2
  <2>7. CASE i \in 1..n /\ j \notin 1..n
    BY <1>4, <2>3, <2>5, <2>7, SMTT(60)
  <2>8. CASE i \notin 1..n /\ j \in 1..n
    BY <1>4, <2>3, <2>5, <2>8, SMTT(60)
  <2> QED BY <2>4, <2>6, <2>7, <2>8
<1> QED BY <1>3, <1>8, <1>9, <1>10, <1>11

LEMMA AppendElements ==
  ASSUME NEW S, NEW q \in Seq(S), NEW x \in S
  PROVE  /\ Append(q, x) \in Seq(S)
         /\ Range(Append(q, x)) = Range(q) \cup {x}
         /\ IsInjective(q) /\ x \notin Range(q) => IsInjective(Append(q, x))
<1>1. PICK s \in Seq(S) : DOMAIN s = {1} /\ s[1] = x /\ Append(q, x) = q \o s
  <2>1. <<x>> \in Seq(S) /\ DOMAIN <<x>> = {1} /\ <<x>>[1] = x /\ Append(q, x) = q \o <<x>>
    BY AppendIsConcat, SMTT(60)
  <2> QED BY <2>1
<1>2. Range(s) = {x} /\ IsInjective(s)
  BY <1>1 DEF Range, IsInjective
<1>3. /\ q \o s \in Seq(S)
      /\ Range(q \o s) = Range(q) \cup Range(s)
      /\ IsInjective(q) /\ Range(q) \cap Range(s) = {} => IsInjective(q \o s)
  BY <1>2, ConcatElements, SMTT(60)
<1> QED BY <1>1, <1>2, <1>3

\* What the task returns has everything that was ready, once.
LEMMA OrderElements ==
  ASSUME NEW R \in SUBSET Op, NEW s \in Orders(R)
  PROVE  s \in Seq(Op) /\ Range(s) = R /\ IsInjective(s)
<1>1. IsFiniteSet(R) /\ Cardinality(R) \in Nat
  BY FS_Subset, FS_CardinalityType, SchedulerAssumption
<1>2. s \in [1..Cardinality(R) -> R] /\ Range(s) = R
  BY DEF Orders
<1>3. s \in Seq(Op)
  BY <1>1, <1>2, SeqDef, SMTT(60)
<1>4. IsFiniteSet(1..Cardinality(R)) /\ Cardinality(1..Cardinality(R)) = Cardinality(R)
  BY <1>1, FS_Interval, SMTT(60)
<1>5. s \in Surjection(1..Cardinality(R), R)
  BY <1>2 DEF Surjection, Range
<1>6. s \in Injection(1..Cardinality(R), R)
  BY <1>4, <1>5, FS_SurjSameCardinalityImpliesInj
<1> QED BY <1>2, <1>3, <1>6 DEF Injection

-----------------------------------------------------------------------------
(***************************************************************************)
(* An operation is in one place at most: w says in which.                  *)
(***************************************************************************)
Nowhere == <<"new", None>>
Spot ==
  {Nowhere, <<"queue", None>>, <<"reactor", None>>, <<"ready", None>>}
  \cup ({"private", "arg", "running"} \X Thread)

LiesAt(op, s, queue, private, argument, run, waits, returned) ==
  /\ op \in Range(queue) <=> s = <<"queue", None>>
  /\ op \in waits <=> s = <<"reactor", None>>
  /\ op \in returned <=> s = <<"ready", None>>
  /\ \A t \in Thread : /\ op \in Range(private[t]) <=> s = <<"private", t>>
                       /\ op = argument[t] <=> s = <<"arg", t>>
                       /\ op = run[t] <=> s = <<"running", t>>

Lies(w, queue, private, argument, run, waits, returned) ==
  /\ w \in [Op -> Spot]
  /\ \A op \in Op : LiesAt(op, w[op], queue, private, argument, run, waits, returned)

Contents(queue, private, argument, run, waits, returned) ==
  /\ queue \in Queue
  /\ private \in [Thread -> Seq(Op)]
  /\ argument \in [Thread -> Op \cup {None}]
  /\ run \in [Thread -> Op \cup {None}]
  /\ waits \in SUBSET Op /\ returned \in SUBSET Op

Started(w) == {op \in Op : w[op] # Nowhere}

UnfinishedIn(queue, private, argument, run, waits, returned) ==
  (Range(queue) \ {Task}) \cup waits \cup returned
  \cup UNION {Range(private[t]) \cup ({argument[t], run[t]} \ {None, Task}) : t \in Thread}

Located(w) == Lies(w, op_queue_, private_op_queue, arg, running, reactor, ready)
LocatedNext(w) == Lies(w, op_queue_', private_op_queue', arg', running', reactor', ready')

\* t is in a handler, or has some of the scheduler's operations in its own queue.
InHandler(t) == pc[t] = "handler" \/ (pc[t] \in {"push", "signal"} /\ next[t] = "handler")
Keeps(t) ==
  \/ InHandler(t)
  \/ pc[t] \in {"cleanup", "taskCleanup"}
  \/ pc[t] = "stop" /\ next[t] = "cleanup"

Owns(t) ==
  /\ arg[t] # None <=> pc[t] = "push"
  /\ running[t] # None <=> InHandler(t)
  /\ private_op_queue[t] # <<>> => Keeps(t)
  /\ IsInjective(private_op_queue[t])

(***************************************************************************)
(* The invariant behind the count: each thread has only what its place     *)
(* says, nothing is in two places, and nothing twice in one.               *)
(***************************************************************************)
Owned ==
  /\ running \in [Thread -> Op \cup {None}]
  /\ \A t \in Thread : Owns(t)
  /\ IsInjective(op_queue_)

WorkInv ==
  /\ IInv
  /\ Owned
  /\ \E w : Located(w)
  /\ outstanding_work_ \in Int
  /\ private_outstanding_work \in [Thread -> Int]
  /\ WorkIsCounted

\* The spots differ.
LEMMA Spots ==
  /\ \A t \in Thread : <<"private", t>> \in Spot /\ <<"arg", t>> \in Spot /\ <<"running", t>> \in Spot
  /\ <<"queue", None>> \in Spot /\ <<"reactor", None>> \in Spot /\ <<"ready", None>> \in Spot /\ Nowhere \in Spot
  /\ \A s \in Spot : \/ s \in {Nowhere, <<"queue", None>>, <<"reactor", None>>, <<"ready", None>>}
                     \/ \E t \in Thread : s \in {<<"private", t>>, <<"arg", t>>, <<"running", t>>}
BY SMTT(60) DEF Spot

\* The operations that have a place are the unfinished ones.
LEMMA StartedAt ==
  ASSUME NEW w, NEW queue, NEW private, NEW argument, NEW run, NEW waits, NEW returned,
         Contents(queue, private, argument, run, waits, returned),
         Lies(w, queue, private, argument, run, waits, returned)
  PROVE  UnfinishedIn(queue, private, argument, run, waits, returned) = Started(w)
<1> DEFINE own(t) == Range(private[t]) \cup ({argument[t], run[t]} \ {None, Task})
           all == (Range(queue) \ {Task}) \cup waits \cup returned \cup UNION {own(t) : t \in Thread}
<1>1. Task \notin Op /\ None \notin Op
  BY SchedulerAssumption
<1>2. Range(queue) \ {Task} \subseteq Op
  BY SMTT(60) DEF Contents, Queue, Range
<1>3. \A t \in Thread : Range(private[t]) \subseteq Op
  BY SMTT(60) DEF Contents, Range
<1>4. \A t \in Thread : own(t) \subseteq Op
  BY <1>3 DEF Contents
<1>5. w \in [Op -> Spot]
  BY DEF Lies
<1>6. ASSUME NEW op \in Op PROVE op \in all <=> w[op] # Nowhere
  <2>1. /\ op \in Range(queue) <=> w[op] = <<"queue", None>>
        /\ op \in waits <=> w[op] = <<"reactor", None>>
        /\ op \in returned <=> w[op] = <<"ready", None>>
        /\ \A t \in Thread : /\ op \in Range(private[t]) <=> w[op] = <<"private", t>>
                             /\ op = argument[t] <=> w[op] = <<"arg", t>>
                             /\ op = run[t] <=> w[op] = <<"running", t>>
    BY DEF Lies, LiesAt
  <2>2. \A t \in Thread : op \in own(t) <=> w[op] \in {<<"private", t>>, <<"arg", t>>, <<"running", t>>}
    BY <1>1, <2>1
  <2>3. op \in all <=> \/ w[op] \in {<<"queue", None>>, <<"reactor", None>>, <<"ready", None>>}
                       \/ \E t \in Thread : op \in own(t)
    BY <1>1, <2>1
  <2>4. w[op] \in Spot
    BY <1>5
  <2>5. Nowhere \notin {<<"queue", None>>, <<"reactor", None>>, <<"ready", None>>}
        /\ \A t \in Thread : Nowhere \notin {<<"private", t>>, <<"arg", t>>, <<"running", t>>}
    BY DEF Nowhere
  <2> HIDE DEF own, all
  <2> QED BY <2>2, <2>3, <2>4, <2>5, Spots
<1>7. all \subseteq Op
  BY <1>2, <1>4 DEF Contents
<1>8. all = Started(w)
  BY <1>6, <1>7 DEF Started
<1> QED BY <1>8 DEF UnfinishedIn

\* The count follows the operations that are started and finished.
LEMMA CountFollows ==
  ASSUME WorkInv, IInv', Owned',
         NEW w, Located(w), NEW v, LocatedNext(v),
         outstanding_work_' \in Int, private_outstanding_work' \in [Thread -> Int],
         outstanding_work_ + PrivateWork = Cardinality(Started(w)) =>
           outstanding_work_' + PrivateWork' = Cardinality(Started(v))
  PROVE  WorkInv'
<1>1. Unfinished = Started(w)
  <2>1. Contents(op_queue_, private_op_queue, arg, running, reactor, ready)
    BY DEF WorkInv, IInv, Places, Owned, Contents
  <2>2. UnfinishedIn(op_queue_, private_op_queue, arg, running, reactor, ready) = Started(w)
    BY <2>1, StartedAt, SMTT(60) DEF Located
  <2> QED BY <2>2 DEF Unfinished, UnfinishedIn
<1>2. Unfinished' = Started(v)
  <2>1. Contents(op_queue_', private_op_queue', arg', running', reactor', ready')
    BY DEF IInv, Places, Owned, Contents
  <2>2. UnfinishedIn(op_queue_', private_op_queue', arg', running', reactor', ready') = Started(v)
    BY <2>1, StartedAt, SMTT(60) DEF LocatedNext
  <2> QED BY <2>2 DEF Unfinished, UnfinishedIn
<1>3. outstanding_work_ + PrivateWork = Cardinality(Started(w))
  BY <1>1 DEF WorkInv, WorkIsCounted
<1>4. outstanding_work_' + PrivateWork' = Cardinality(Unfinished')
  BY <1>2, <1>3
<1>5. WorkIsCounted'
  BY <1>4 DEF WorkIsCounted
<1>6. \E x : Located(x)'
  BY DEF Located, LocatedNext
<1> QED BY <1>5, <1>6 DEF WorkInv

\* Nothing is started or finished.
LEMMA CountStays ==
  ASSUME WorkInv, IInv', Owned',
         NEW w, Located(w), NEW v, LocatedNext(v), Started(v) = Started(w),
         UNCHANGED <<outstanding_work_, private_outstanding_work>>
  PROVE  WorkInv'
<1>1. PrivateWork' = PrivateWork
  BY PrivateWorkSums
<1>2. outstanding_work_ \in Int /\ private_outstanding_work \in [Thread -> Int]
  BY DEF WorkInv
<1>3. outstanding_work_' \in Int /\ private_outstanding_work' \in [Thread -> Int]
  BY <1>2
<1> QED BY <1>1, <1>3, CountFollows

\* Thread t starts an operation, or finishes it, and counts it: privately or not.
LEMMA CountChanges ==
  ASSUME WorkInv, IInv', Owned', NEW t \in Thread, NEW op \in Op,
         NEW w, Located(w), NEW v, LocatedNext(v),
         outstanding_work_' \in Int, private_outstanding_work' \in [Thread -> Int],
         \A u \in Thread \ {t} : private_outstanding_work'[u] = private_outstanding_work[u],
         NEW d \in {1, -1},
         outstanding_work_' + private_outstanding_work'[t] = outstanding_work_ + private_outstanding_work[t] + d,
         d = 1 => op \notin Started(w) /\ Started(v) = Started(w) \cup {op},
         d = -1 => op \in Started(w) /\ Started(v) = Started(w) \ {op}
  PROVE  WorkInv'
<1>1. PICK f : Sums(f, private_outstanding_work) /\ PrivateWork = f[Thread]
  BY PrivateWorkSums
<1>2. PICK g : Sums(g, private_outstanding_work') /\ PrivateWork' = g[Thread]
  BY PrivateWorkSums
<1>3. outstanding_work_ \in Int /\ private_outstanding_work \in [Thread -> Int]
  BY DEF WorkInv
<1>4. f[Thread] \in Int /\ g[Thread] = f[Thread] + (private_outstanding_work'[t] - private_outstanding_work[t])
  BY <1>1, <1>2, <1>3, SumChanges, SMTT(60)
<1>5. outstanding_work_' + PrivateWork' = outstanding_work_ + PrivateWork + d
  <2>1. PICK a \in Int, b \in Int : a = outstanding_work_ /\ b = outstanding_work_'
    BY <1>3
  <2>2. PICK x \in Int, y \in Int : x = private_outstanding_work[t] /\ y = private_outstanding_work'[t]
    BY <1>3
  <2>3. PICK s \in Int : s = f[Thread]
    BY <1>4
  <2>4. b + y = a + x + d
    BY <2>1, <2>2
  <2>5. b + (s + (y - x)) = a + s + d
    BY <2>4, SMTT(60)
  <2> QED BY <1>1, <1>2, <1>4, <2>1, <2>2, <2>3, <2>5
<1>6. Cardinality(Started(w)) \in Int /\ Cardinality(Started(v)) = Cardinality(Started(w)) + d
  <2>1. IsFiniteSet(Started(w))
    BY FS_Subset, SchedulerAssumption DEF Started
  <2>2. Cardinality(Started(w)) \in Nat
    BY <2>1, FS_CardinalityType
  <2>3. CASE d = 1
    BY <2>1, <2>2, <2>3, FS_AddElement, SMTT(60)
  <2>4. CASE d = -1
    BY <2>1, <2>2, <2>4, FS_RemoveElement, SMTT(60)
  <2> QED BY <2>3, <2>4
<1>7. outstanding_work_ + PrivateWork = Cardinality(Started(w)) =>
        outstanding_work_' + PrivateWork' = Cardinality(Started(v))
  BY <1>5, <1>6
<1> QED BY <1>7, CountFollows

-----------------------------------------------------------------------------
\* do_run_one and the others go on with the queue q: they take a handler or the task, or nothing.
Takes(t, q, queue, run, ran) ==
  \/ q # <<>> /\ Head(q) # Task /\ queue = Tail(q) /\ ran = [run EXCEPT ![t] = Head(q)]
  \/ q # <<>> /\ Head(q) = Task /\ queue = Tail(q) /\ ran = run
  \/ queue = q /\ ran = run

LEMMA TakeLies ==
  ASSUME NEW t \in Thread, NEW q, NEW queue, NEW private, NEW argument, NEW run, NEW ran, NEW waits, NEW returned,
         Contents(q, private, argument, run, waits, returned), IsInjective(q), run[t] = None,
         Takes(t, q, queue, run, ran),
         NEW w, Lies(w, q, private, argument, run, waits, returned)
  PROVE  /\ IsInjective(queue)
         /\ \E v : Lies(v, queue, private, argument, ran, waits, returned) /\ Started(v) = Started(w)
<1>1. q \in Seq(Op \cup {Task}) /\ run \in [Thread -> Op \cup {None}] /\ Task \notin Op /\ None \notin Op
  BY SchedulerAssumption DEF Contents, Queue
<1>2. q # <<>> => /\ Head(q) \in Range(q) /\ Head(q) \in Op \cup {Task}
                  /\ Range(Tail(q)) = Range(q) \ {Head(q)} /\ IsInjective(Tail(q))
  BY <1>1, TailElements, SMTT(60)
<1>3. IsInjective(queue)
  BY <1>2 DEF Takes
<1>4. w \in [Op -> Spot] /\ \A o \in Op : LiesAt(o, w[o], q, private, argument, run, waits, returned)
  BY DEF Lies
<1>5. CASE ran = run /\ Range(queue) \ {Task} = Range(q) \ {Task}
  <2>1. \A o \in Op : o \in Range(queue) <=> o \in Range(q)
    BY <1>1, <1>5
  <2>2. Lies(w, queue, private, argument, ran, waits, returned)
    BY <1>4, <1>5, <2>1, SMTT(60) DEF Lies, LiesAt
  <2> QED BY <1>3, <2>2
<1>6. CASE q # <<>> /\ Head(q) # Task /\ queue = Tail(q) /\ ran = [run EXCEPT ![t] = Head(q)]
  <2>1. PICK op \in Op : op = Head(q) /\ op \in Range(q) /\ Range(queue) = Range(q) \ {op}
    BY <1>2, <1>6
  <2> DEFINE v == [w EXCEPT ![op] = <<"running", t>>]
  <2>2. v \in [Op -> Spot] /\ v[op] = <<"running", t>> /\ \A o \in Op \ {op} : v[o] = w[o]
    BY <1>4, Spots
  <2>3. w[op] = <<"queue", None>>
    BY <1>4, <2>1 DEF LiesAt
  <2>4. /\ ran[t] = op /\ \A u \in Thread \ {t} : ran[u] = run[u]
    BY <1>1, <1>6, <2>1
  <2> HIDE DEF v
  <2>5. LiesAt(op, v[op], queue, private, argument, ran, waits, returned)
    <3>1. LiesAt(op, <<"queue", None>>, q, private, argument, run, waits, returned)
      BY <1>4, <2>3
    <3> QED BY <2>1, <2>2, <2>4, <3>1, SMTT(60) DEF LiesAt
  <2>6. ASSUME NEW o \in Op \ {op} PROVE LiesAt(o, v[o], queue, private, argument, ran, waits, returned)
    <3>1. LiesAt(o, v[o], q, private, argument, run, waits, returned)
      BY <1>4, <2>2
    <3>2. o # None /\ o # ran[t] /\ o # run[t] /\ (o \in Range(queue) <=> o \in Range(q))
      BY <1>1, <2>1, <2>4
    <3> QED BY <2>4, <3>1, <3>2 DEF LiesAt
  <2>7. Lies(v, queue, private, argument, ran, waits, returned)
    BY <2>2, <2>5, <2>6 DEF Lies
  <2>8. Started(v) = Started(w)
    BY <2>2, <2>3, SMTT(60) DEF Started, Nowhere
  <2> QED BY <1>3, <2>7, <2>8
<1> QED BY <1>2, <1>5, <1>6 DEF Takes

\* What t has in its own queue is put behind the others.
LEMMA JoinLies ==
  ASSUME NEW t \in Thread, NEW q, NEW private, NEW argument, NEW run, NEW waits, NEW returned,
         Contents(q, private, argument, run, waits, returned), IsInjective(q), IsInjective(private[t]),
         NEW w, Lies(w, q, private, argument, run, waits, returned)
  PROVE  /\ IsInjective(q \o private[t])
         /\ \E v : /\ Lies(v, q \o private[t], [private EXCEPT ![t] = <<>>], argument, run, waits, returned)
                   /\ Started(v) = Started(w)
<1>1. PICK queue, rest : queue = q \o private[t] /\ rest = [private EXCEPT ![t] = <<>>]
  OBVIOUS
<1>2. q \in Seq(Op \cup {Task}) /\ private[t] \in Seq(Op \cup {Task}) /\ private[t] \in Seq(Op)
  BY SeqMonotonic DEF Contents, Queue
<1>3. w \in [Op -> Spot] /\ \A o \in Op : LiesAt(o, w[o], q, private, argument, run, waits, returned)
  BY DEF Lies
<1>4. Range(private[t]) \subseteq Op
  BY <1>2, SMTT(60) DEF Range
<1>5. Range(q) \cap Range(private[t]) = {}
  <2> SUFFICES ASSUME NEW o \in Op, o \in Range(q), o \in Range(private[t]) PROVE FALSE
    BY <1>4
  <2>1. w[o] = <<"queue", None>> /\ w[o] = <<"private", t>>
    BY <1>3 DEF LiesAt
  <2> QED BY <2>1, SMTT(60)
<1>6. Range(queue) = Range(q) \cup Range(private[t]) /\ IsInjective(queue)
  BY <1>1, <1>2, <1>5, ConcatElements, SMTT(60)
<1>7. Range(rest[t]) = {} /\ \A u \in Thread \ {t} : rest[u] = private[u]
  BY <1>1, SMTT(60) DEF Contents, Range
<1> DEFINE v == [o \in Op |-> IF w[o] = <<"private", t>> THEN <<"queue", None>> ELSE w[o]]
<1>8. v \in [Op -> Spot]
  BY <1>3, Spots
<1>9. \A o \in Op : v[o] = IF w[o] = <<"private", t>> THEN <<"queue", None>> ELSE w[o]
  OBVIOUS
<1> HIDE DEF v
<1>10. ASSUME NEW o \in Op PROVE LiesAt(o, v[o], queue, rest, argument, run, waits, returned)
  <2>1. LiesAt(o, w[o], q, private, argument, run, waits, returned)
    BY <1>3
  <2>2. CASE w[o] = <<"private", t>>
    BY <1>6, <1>7, <1>9, <2>1, <2>2, SMTT(60) DEF LiesAt
  <2>3. CASE w[o] # <<"private", t>>
    <3>1. v[o] = w[o] /\ o \notin Range(private[t])
      BY <1>9, <2>1, <2>3 DEF LiesAt
    <3> QED BY <1>6, <1>7, <2>1, <2>3, <3>1 DEF LiesAt
  <2> QED BY <2>2, <2>3
<1>11. Lies(v, queue, rest, argument, run, waits, returned)
  BY <1>8, <1>10 DEF Lies
<1>12. Started(v) = Started(w)
  BY <1>9, SMTT(60) DEF Started, Nowhere
<1> QED BY <1>1, <1>6, <1>11, <1>12

\* One operation moves.
LEMMA MoveOne ==
  ASSUME NEW op \in Op, NEW s \in Spot, NEW w \in [Op -> Spot],
         NEW queue, NEW private, NEW argument, NEW run, NEW waits, NEW returned,
         LiesAt(op, s, queue, private, argument, run, waits, returned),
         \A o \in Op \ {op} : LiesAt(o, w[o], queue, private, argument, run, waits, returned)
  PROVE  \E v : /\ Lies(v, queue, private, argument, run, waits, returned)
                /\ s # Nowhere => Started(v) = Started(w) \cup {op}
                /\ s = Nowhere => Started(v) = Started(w) \ {op}
<1> DEFINE v == [w EXCEPT ![op] = s]
<1>1. v \in [Op -> Spot] /\ v[op] = s /\ \A o \in Op \ {op} : v[o] = w[o]
  OBVIOUS
<1> HIDE DEF v
<1>2. Lies(v, queue, private, argument, run, waits, returned)
  BY <1>1 DEF Lies
<1>3. s # Nowhere => Started(v) = Started(w) \cup {op}
  BY <1>1 DEF Started
<1>4. s = Nowhere => Started(v) = Started(w) \ {op}
  BY <1>1 DEF Started
<1> QED BY <1>2, <1>3, <1>4

-----------------------------------------------------------------------------
\* Where the functions go on, and with what.
LEMMA DoTakes ==
  ASSUME NEW t \in Thread, NEW q, NEW ti, NEW was,
         pc \in [Thread -> Place], next \in [Thread -> Place], running \in [Thread -> Op \cup {None}],
         Do(t, q, ti, was) \/ Return(t, q, ti)
  PROVE  /\ pc'[t] \notin {"push", "cleanup", "taskCleanup", "stop"}
         /\ \/ /\ q # <<>> /\ Head(q) # Task /\ op_queue_' = Tail(q)
               /\ running' = [running EXCEPT ![t] = Head(q)]
               /\ InHandler(t)'
            \/ /\ (q # <<>> /\ Head(q) = Task /\ op_queue_' = Tail(q)) \/ op_queue_' = q
               /\ running' = running
               /\ ~InHandler(t)'
<1>1. \/ RunHandler(t, q, ti)
      \/ \E how \in Tasking : q # <<>> /\ Head(q) = Task /\ RunTask(t, q, how)
      \/ Return(t, q, ti) \/ Wait(t, q, ti) \/ PassTask(t, q, ti)
      \/ /\ q # <<>> /\ Head(q) = Task
         /\ op_queue_' = Tail(q)
         /\ pc' = [pc EXCEPT ![t] = "pollingTask"] /\ next' = next /\ running' = running
  BY DEF Do, do_run_one, do_wait_one, do_poll_one, Tasking
<1>2. CASE RunHandler(t, q, ti)
  BY <1>2 DEF RunHandler, wake_one_thread_and_unlock, UnlockAndSignalOne, InHandler
<1>3. ASSUME NEW how \in Tasking, q # <<>>, Head(q) = Task, RunTask(t, q, how)
      PROVE  /\ pc'[t] \in {"signal"} \cup Tasking /\ next'[t] \in {next[t]} \cup Tasking
             /\ pc'[t] = "signal" => next'[t] \in Tasking
             /\ op_queue_' = Tail(q) /\ running' = running
  BY <1>3 DEF RunTask, UnlockAndSignalOne, Tasking
<1>4. CASE Return(t, q, ti) \/ Wait(t, q, ti) \/ PassTask(t, q, ti)
  BY <1>4 DEF Return, Leave, Wait, PassTask, UnlockAndSignalOne, InHandler
<1>5. CASE /\ q # <<>> /\ Head(q) = Task
           /\ op_queue_' = Tail(q)
           /\ pc' = [pc EXCEPT ![t] = "pollingTask"] /\ next' = next /\ running' = running
  BY <1>5 DEF InHandler
<1>6. CASE \E how \in Tasking : q # <<>> /\ Head(q) = Task /\ RunTask(t, q, how)
  BY <1>3, <1>6 DEF InHandler, Tasking
<1> QED BY <1>1, <1>2, <1>4, <1>5, <1>6

LEMMA NothingTwice == IsInjective(<<>>) /\ Range(<<>>) = {}
BY SMTT(60) DEF IsInjective, Range

\* Thread t, which has nothing left of its own, goes on with the queue q.
LEMMA DoWork ==
  ASSUME WorkInv, IInv', NEW t \in Thread, NEW q, NEW ti, NEW was,
         Do(t, q, ti, was) \/ Return(t, q, ti),
         Contents(q, private_op_queue', arg, running, reactor, ready), IsInjective(q),
         NEW w, Lies(w, q, private_op_queue', arg, running, reactor, ready),
         NEW x, Located(x), Started(w) = Started(x),
         private_op_queue'[t] = <<>>, \A u \in Thread \ {t} : private_op_queue'[u] = private_op_queue[u],
         pc[t] # "push", ~InHandler(t),
         UNCHANGED <<arg, reactor, ready, outstanding_work_, private_outstanding_work>>
  PROVE  WorkInv'
<1>1. /\ pc \in [Thread -> Place] /\ next \in [Thread -> Place]
      /\ running \in [Thread -> Op \cup {None}]
      /\ arg[t] = None /\ running[t] = None
      /\ None \notin Op
  BY SchedulerAssumption DEF WorkInv, Owned, Owns, IInv, Places
<1>2. /\ pc'[t] \notin {"push", "cleanup", "taskCleanup", "stop"}
      /\ \/ /\ q # <<>> /\ Head(q) # Task /\ op_queue_' = Tail(q)
            /\ running' = [running EXCEPT ![t] = Head(q)]
            /\ InHandler(t)'
         \/ /\ (q # <<>> /\ Head(q) = Task /\ op_queue_' = Tail(q)) \/ op_queue_' = q
            /\ running' = running
            /\ ~InHandler(t)'
  BY <1>1, DoTakes
<1>3. Takes(t, q, op_queue_', running, running')
  BY <1>2 DEF Takes
<1>4. PICK v : /\ IsInjective(op_queue_')
               /\ Lies(v, op_queue_', private_op_queue', arg, running', reactor, ready)
               /\ Started(v) = Started(w)
  BY <1>1, <1>3, TakeLies, SMTT(60)
<1>5. Moves(t, q)
  <2>1. q \in Queue /\ AtMostOnce(q)
    BY DEF Contents, IsInjective, AtMostOnce
  <2> QED BY <1>1, <2>1, DoMoves, QueueStays
<1>6. running' \in [Thread -> Op \cup {None}] /\ (running'[t] # None <=> InHandler(t)')
  <2>1. q # <<>> => Head(q) \in Op \cup {Task}
    BY HeadTailProperties DEF Contents, Queue
  <2> QED BY <1>1, <1>2, <2>1
<1>7. Owns(t)'
  BY <1>1, <1>2, <1>6, NothingTwice DEF Owns
<1>8. ASSUME NEW u \in Thread \ {t} PROVE Owns(u)'
  <2>1. /\ pc'[u] = pc[u] /\ next'[u] = next[u] /\ running'[u] = running[u]
        /\ arg'[u] = arg[u] /\ private_op_queue'[u] = private_op_queue[u]
    BY <1>1, <1>2, <1>5 DEF Moves
  <2>2. Owns(u)
    BY DEF WorkInv, Owned
  <2> QED BY <2>1, <2>2 DEF Owns, Keeps, InHandler
<1>9. Owned'
  BY <1>4, <1>6, <1>7, <1>8 DEF Owned
<1>10. LocatedNext(v) /\ Started(v) = Started(x)
  BY <1>4 DEF LocatedNext
<1> QED BY <1>9, <1>10, CountStays

LEMMA LocatedAt ==
  ASSUME NEW w, Located(w), NEW o \in Op
  PROVE  w \in [Op -> Spot] /\ LiesAt(o, w[o], op_queue_, private_op_queue, arg, running, reactor, ready)
BY DEF Located, Lies

LEMMA HasContents ==
  ASSUME WorkInv
  PROVE  Contents(op_queue_, private_op_queue, arg, running, reactor, ready)
BY DEF WorkInv, IInv, Places, Owned, Contents

\* Nothing moves, and every thread stays where it may have what it has.
LEMMA QuietWork ==
  ASSUME WorkInv, IInv',
         UNCHANGED <<op_queue_, private_op_queue, arg, running, reactor, ready>>,
         UNCHANGED <<outstanding_work_, private_outstanding_work>>,
         \A u \in Thread : /\ pc'[u] = "push" <=> pc[u] = "push"
                           /\ InHandler(u)' <=> InHandler(u)
                           /\ Keeps(u) => Keeps(u)'
  PROVE  WorkInv'
<1>1. Owned'
  BY DEF WorkInv, Owned, Owns
<1>2. PICK w : Located(w)
  BY DEF WorkInv
<1>3. LocatedNext(w)
  BY <1>2 DEF Located, LocatedNext
<1> QED BY <1>1, <1>2, <1>3, CountStays

LEMMA LockWork ==
  ASSUME WorkInv, IInv', NEW t \in Thread, lock(t) \/ wait(t)
  PROVE  WorkInv'
<1>1. /\ pc[t] \in {"lock", "waiting", "woken"}
      /\ UNCHANGED <<arg, private_op_queue, private_outstanding_work, outstanding_work_, reactor, ready>>
  BY DEF lock, wait, ioVars
<1>2. PICK w : Located(w)
  BY DEF WorkInv
<1>3. pc[t] # "push" /\ ~InHandler(t) /\ ~Keeps(t)
  BY <1>1 DEF InHandler, Keeps
<1>4. CASE \E was \in {"", "wait"} : Do(t, op_queue_, task_interrupted_, was)
  <2>1. Contents(op_queue_, private_op_queue', arg, running, reactor, ready) /\ IsInjective(op_queue_)
    BY <1>1, HasContents DEF WorkInv, Owned
  <2>2. Lies(w, op_queue_, private_op_queue', arg, running, reactor, ready)
    BY <1>1, <1>2 DEF Located
  <2>3. private_op_queue'[t] = <<>> /\ \A u \in Thread \ {t} : private_op_queue'[u] = private_op_queue[u]
    BY <1>1, <1>3 DEF WorkInv, Owned, Owns
  <2> QED BY <1>1, <1>2, <1>3, <1>4, <2>1, <2>2, <2>3, DoWork
<1>5. CASE pc[t] = "woken" /\ pc' = [pc EXCEPT ![t] = "waiting"] /\ UNCHANGED <<next, running, op_queue_>>
  <2>1. \A u \in Thread : /\ pc'[u] = "push" <=> pc[u] = "push"
                          /\ InHandler(u)' <=> InHandler(u)
                          /\ Keeps(u) => Keeps(u)'
    BY <1>5 DEF InHandler, Keeps, WorkInv, IInv, Places
  <2> QED BY <1>1, <1>5, <2>1, QuietWork
<1> QED BY <1>4, <1>5 DEF lock, wait

LEMMA CleanupWork ==
  ASSUME WorkInv, IInv', NEW t \in Thread, cleanup(t) \/ task_cleanup(t)
  PROVE  WorkInv'
<1>1. PICK q : q = op_queue_ \o private_op_queue[t]
  OBVIOUS
<1>2. /\ pc[t] \in {"cleanup", "taskCleanup"}
      /\ private_op_queue' = [private_op_queue EXCEPT ![t] = <<>>]
      /\ UNCHANGED <<arg, private_outstanding_work, outstanding_work_, reactor, ready>>
  BY DEF cleanup, task_cleanup, ioVars
<1>3. PICK w : Located(w)
  BY DEF WorkInv
<1>4. pc[t] # "push" /\ ~InHandler(t)
  BY <1>2 DEF InHandler
<1>5. Contents(op_queue_, private_op_queue, arg, running, reactor, ready)
  BY HasContents
<1>6. private_op_queue'[t] = <<>> /\ \A u \in Thread \ {t} : private_op_queue'[u] = private_op_queue[u]
  BY <1>2, <1>5 DEF Contents
<1>7. IsInjective(op_queue_) /\ IsInjective(private_op_queue[t])
  BY DEF WorkInv, Owned, Owns
<1>8. PICK v : /\ IsInjective(q)
               /\ Lies(v, q, private_op_queue', arg, running, reactor, ready)
               /\ Started(v) = Started(w)
  <2>1. Lies(w, op_queue_, private_op_queue, arg, running, reactor, ready)
    BY <1>3 DEF Located
  <2>2. /\ IsInjective(op_queue_ \o private_op_queue[t])
        /\ \E v : /\ Lies(v, op_queue_ \o private_op_queue[t], [private_op_queue EXCEPT ![t] = <<>>],
                          arg, running, reactor, ready)
                  /\ Started(v) = Started(w)
    BY <1>5, <1>7, <2>1, JoinLies, SMTT(60)
  <2> QED BY <1>1, <1>2, <2>2
<1>9. Contents(q, private_op_queue', arg, running, reactor, ready)
  <2>1. q \in Queue
    BY <1>1, <1>5, ConcatHandlers DEF Contents
  <2>2. private_op_queue' \in [Thread -> Seq(Op)]
    BY <1>2, <1>5, EmptySeq DEF Contents
  <2> QED BY <1>5, <2>1, <2>2 DEF Contents
<1>10. CASE cleanup(t)
  <2>1. Do(t, q, task_interrupted_, "") \/ Return(t, q, task_interrupted_)
    BY <1>1, <1>10 DEF cleanup
  <2> QED BY <1>2, <1>3, <1>4, <1>6, <1>8, <1>9, <2>1, DoWork
<1>11. CASE task_cleanup(t)
  <2>1. PICK z : z = Append(q, Task)
    OBVIOUS
  <2>2. Do(t, z, TRUE, "task")
    BY <1>1, <1>11, <2>1 DEF task_cleanup
  <2>3. q \in Seq(Op \cup {Task}) /\ Task \in Op \cup {Task} /\ Task \notin Op
    BY <1>9, SchedulerAssumption DEF Contents, Queue
  <2>4. Task \notin Range(q)
    <3>1. ~Queued
      BY <1>11 DEF WorkInv, IInv, OneTask, task_cleanup, Holds
    <3>2. Task \notin Range(op_queue_)
      BY <3>1 DEF Queued, Range
    <3>3. Task \notin Range(private_op_queue[t])
      BY <1>5, <2>3, SMTT(60) DEF Contents, Range
    <3>4. Range(q) = Range(op_queue_) \cup Range(private_op_queue[t])
      <4>1. op_queue_ \in Seq(Op \cup {Task}) /\ private_op_queue[t] \in Seq(Op \cup {Task})
        BY <1>5, SeqMonotonic DEF Contents, Queue
      <4> QED BY <1>1, <4>1, ConcatElements, SMTT(60)
    <3> QED BY <3>2, <3>3, <3>4
  <2>5. z \in Seq(Op \cup {Task}) /\ Range(z) = Range(q) \cup {Task} /\ IsInjective(z)
    BY <1>8, <2>1, <2>3, <2>4, AppendElements, SMTT(60)
  <2>6. Contents(z, private_op_queue', arg, running, reactor, ready)
    BY <1>9, <2>5 DEF Contents, Queue
  <2>7. Lies(v, z, private_op_queue', arg, running, reactor, ready)
    <3>1. \A o \in Op : o \in Range(z) <=> o \in Range(q)
      BY <2>3, <2>5
    <3> QED BY <1>8, <3>1 DEF Lies, LiesAt
  <2> QED BY <1>2, <1>3, <1>4, <1>6, <1>8, <2>2, <2>5, <2>6, <2>7, DoWork
<1> QED BY <1>10, <1>11

LEMMA PushWork ==
  ASSUME WorkInv, IInv', NEW t \in Thread, push(t)
  PROVE  WorkInv'
<1>1. /\ pc[t] = "push" /\ next[t] \in {"outside", "handler"}
      /\ op_queue_' = Append(op_queue_, arg[t])
      /\ arg' = [arg EXCEPT ![t] = None]
      /\ UnlockAndSignalOne(t, next[t])
      /\ UNCHANGED <<running, private_op_queue, reactor, ready, outstanding_work_, private_outstanding_work>>
  BY DEF push, wake_one_thread_and_unlock, WorkInv, IInv, Places, ioVars
<1>2. PICK w : Located(w)
  BY DEF WorkInv
<1>3. Contents(op_queue_, private_op_queue, arg, running, reactor, ready) /\ None \notin Op
  BY HasContents, SchedulerAssumption
<1>4. PICK op \in Op : op = arg[t]
  BY <1>1 DEF WorkInv, IInv, Places
<1>5. w[op] = <<"arg", t>> /\ op \notin Range(op_queue_)
  <2>1. LiesAt(op, w[op], op_queue_, private_op_queue, arg, running, reactor, ready)
    BY <1>2, LocatedAt
  <2> QED BY <1>4, <2>1, SMTT(60) DEF LiesAt
<1>6. Range(op_queue_') = Range(op_queue_) \cup {op} /\ IsInjective(op_queue_')
  <2>1. op_queue_ \in Seq(Op \cup {Task}) /\ op \in Op \cup {Task} /\ IsInjective(op_queue_)
    BY <1>3 DEF Contents, Queue, WorkInv, Owned
  <2> QED BY <1>1, <1>4, <1>5, <2>1, AppendElements, SMTT(60)
<1>7. arg'[t] = None /\ \A u \in Thread \ {t} : arg'[u] = arg[u]
  BY <1>1, <1>3 DEF Contents
<1>8. LiesAt(op, <<"queue", None>>, op_queue_', private_op_queue', arg', running', reactor', ready')
  <2>1. LiesAt(op, <<"arg", t>>, op_queue_, private_op_queue, arg, running, reactor, ready)
    BY <1>2, <1>5, LocatedAt
  <2> QED BY <1>1, <1>3, <1>6, <1>7, <2>1 DEF LiesAt
<1>9. ASSUME NEW o \in Op \ {op}
      PROVE  LiesAt(o, w[o], op_queue_', private_op_queue', arg', running', reactor', ready')
  <2>1. LiesAt(o, w[o], op_queue_, private_op_queue, arg, running, reactor, ready)
    BY <1>2, LocatedAt
  <2>2. o # arg[t] /\ o # arg'[t]
    BY <1>3, <1>4, <1>7
  <2> QED BY <1>1, <1>6, <1>7, <2>1, <2>2 DEF LiesAt
<1>10. PICK v : LocatedNext(v) /\ Started(v) = Started(w) \cup {op}
  <2>1. <<"queue", None>> \in Spot /\ <<"queue", None>> # Nowhere /\ w \in [Op -> Spot]
    BY <1>2, Spots DEF Nowhere, Located, Lies
  <2> QED BY <1>8, <1>9, <2>1, MoveOne, SMTT(60) DEF LocatedNext
<1>11. Started(v) = Started(w)
  BY <1>5, <1>10, SMTT(60) DEF Started, Nowhere
<1>12. \A u \in Thread : Owns(u)'
  <2>1. /\ pc'[t] \in {"signal", next[t]} /\ next'[t] = next[t]
        /\ \A u \in Thread \ {t} : pc'[u] = pc[u] /\ next'[u] = next[u]
    BY <1>1 DEF UnlockAndSignalOne, WorkInv, IInv, Places
  <2>2. \A u \in Thread : Owns(u)
    BY DEF WorkInv, Owned
  <2>3. Owns(t)'
    BY <1>1, <1>7, <2>1, <2>2 DEF Owns, Keeps, InHandler
  <2> QED BY <1>1, <1>7, <2>1, <2>2, <2>3, SMTT(60) DEF Owns, Keeps, InHandler
<1>13. Owned'
  BY <1>1, <1>6, <1>12 DEF WorkInv, Owned
<1> QED BY <1>1, <1>2, <1>10, <1>11, <1>13, CountStays

\* What is ready becomes the private queue of the thread that ran the task.
LEMMA ReturnsWork ==
  ASSUME WorkInv, IInv', NEW t \in Thread, TaskReturns(t)
  PROVE  WorkInv'
<1>1. PICK s \in Orders(ready) : private_op_queue' = [private_op_queue EXCEPT ![t] = s]
  BY DEF TaskReturns
<1>2. /\ pc[t] \in Tasking /\ pc' = [pc EXCEPT ![t] = "taskCleanup"] /\ ready' = {}
      /\ UNCHANGED <<next, arg, running, op_queue_, reactor, outstanding_work_, private_outstanding_work>>
  BY DEF TaskReturns
<1>3. PICK w : Located(w)
  BY DEF WorkInv
<1>4. Contents(op_queue_, private_op_queue, arg, running, reactor, ready)
  BY HasContents
<1>5. Range(s) = ready /\ IsInjective(s)
  BY <1>4, OrderElements DEF Contents
<1>6. private_op_queue'[t] = s /\ \A u \in Thread \ {t} : private_op_queue'[u] = private_op_queue[u]
  BY <1>1, <1>4 DEF Contents
<1>7. private_op_queue[t] = <<>>
  BY <1>2 DEF WorkInv, Owned, Owns, Keeps, InHandler, Tasking
<1> DEFINE v == [o \in Op |-> IF w[o] = <<"ready", None>> THEN <<"private", t>> ELSE w[o]]
<1>8. w \in [Op -> Spot] /\ v \in [Op -> Spot]
  BY <1>3, Spots DEF Located, Lies
<1>9. \A o \in Op : v[o] = IF w[o] = <<"ready", None>> THEN <<"private", t>> ELSE w[o]
  OBVIOUS
<1> HIDE DEF v
<1>10. ASSUME NEW o \in Op
       PROVE  LiesAt(o, v[o], op_queue_', private_op_queue', arg', running', reactor', ready')
  <2>1. LiesAt(o, w[o], op_queue_, private_op_queue, arg, running, reactor, ready)
    BY <1>3, LocatedAt
  <2>2. w[o] # <<"private", t>>
    BY <1>7, <2>1, NothingTwice DEF LiesAt
  <2>3. CASE w[o] = <<"ready", None>>
    BY <1>2, <1>5, <1>6, <1>9, <2>1, <2>3, SMTT(60) DEF LiesAt
  <2>4. CASE w[o] # <<"ready", None>>
    <3>1. v[o] = w[o] /\ o \notin ready
      BY <1>9, <2>1, <2>4 DEF LiesAt
    <3> QED BY <1>2, <1>5, <1>6, <2>1, <2>2, <2>4, <3>1 DEF LiesAt
  <2> QED BY <2>3, <2>4
<1>11. LocatedNext(v)
  BY <1>8, <1>10 DEF LocatedNext, Lies
<1>12. Started(v) = Started(w)
  BY <1>9, SMTT(60) DEF Started, Nowhere
<1>13. Owned'
  <2>1. \A u \in Thread : Owns(u)
    BY DEF WorkInv, Owned
  <2>2. pc'[t] = "taskCleanup" /\ \A u \in Thread \ {t} : pc'[u] = pc[u]
    BY <1>2 DEF WorkInv, IInv, Places
  <2>3. Owns(t)'
    BY <1>2, <1>5, <1>6, <2>1, <2>2 DEF Owns, Keeps, InHandler, Tasking
  <2>4. \A u \in Thread \ {t} : Owns(u)'
    BY <1>2, <1>6, <2>1, <2>2 DEF Owns, Keeps, InHandler
  <2> QED BY <1>2, <2>3, <2>4 DEF WorkInv, Owned
<1> QED BY <1>2, <1>3, <1>11, <1>12, <1>13, CountStays

LEMMA MoveNext ==
  ASSUME NEW op \in Op, NEW s \in Spot, s # Nowhere, NEW w \in [Op -> Spot],
         LiesAt(op, s, op_queue_', private_op_queue', arg', running', reactor', ready'),
         \A o \in Op \ {op} : LiesAt(o, w[o], op_queue_', private_op_queue', arg', running', reactor', ready')
  PROVE  \E v : LocatedNext(v) /\ Started(v) = Started(w) \cup {op}
BY MoveOne, SMTT(60) DEF LocatedNext

\* An operation that is new or waits for I/O is kept by t, or is to be pushed.
LEMMA EnqueueWork ==
  ASSUME WorkInv, IInv', NEW t \in Thread, NEW op \in Op, NEW private \in BOOLEAN,
         NEW w, Located(w), w[op] \in {Nowhere, <<"reactor", None>>},
         Free(t), Enqueue(t, op, private), private => pc[t] = "handler",
         reactor' = reactor \ {op}, UNCHANGED <<running, op_queue_, ready>>
  PROVE  Owned' /\ \E v : LocatedNext(v) /\ Started(v) = Started(w) \cup {op}
<1>1. LiesAt(op, w[op], op_queue_, private_op_queue, arg, running, reactor, ready) /\ w \in [Op -> Spot]
  BY LocatedAt
<1>2. Contents(op_queue_, private_op_queue, arg, running, reactor, ready) /\ None \notin Op
  BY HasContents, SchedulerAssumption
<1>3. /\ op \notin Range(op_queue_) /\ op \notin ready
      /\ \A u \in Thread : op \notin Range(private_op_queue[u]) /\ op # arg[u] /\ op # running[u]
  BY <1>1, SMTT(60) DEF LiesAt, Nowhere
<1>4. \A o \in Op : LiesAt(o, w[o], op_queue_, private_op_queue, arg, running, reactor, ready)
  BY LocatedAt
<1>5. \A u \in Thread : Owns(u)
  BY DEF WorkInv, Owned
<1>6. CASE /\ private /\ private_op_queue' = [private_op_queue EXCEPT ![t] = Append(@, op)]
           /\ UNCHANGED <<pc, next, arg>>
  <2>1. /\ private_op_queue'[t] = Append(private_op_queue[t], op)
        /\ \A u \in Thread \ {t} : private_op_queue'[u] = private_op_queue[u]
    BY <1>2, <1>6 DEF Contents
  <2>2. Range(private_op_queue'[t]) = Range(private_op_queue[t]) \cup {op} /\ IsInjective(private_op_queue'[t])
    <3>1. private_op_queue[t] \in Seq(Op) /\ IsInjective(private_op_queue[t])
      BY <1>2, <1>5 DEF Contents, Owns
    <3> QED BY <1>3, <2>1, <3>1, AppendElements, SMTT(60)
  <2>3. LiesAt(op, <<"private", t>>, op_queue_', private_op_queue', arg', running', reactor', ready')
    BY <1>3, <1>6, <2>1, <2>2 DEF LiesAt
  <2>4. \A o \in Op \ {op} : LiesAt(o, w[o], op_queue_', private_op_queue', arg', running', reactor', ready')
    BY <1>4, <1>6, <2>1, <2>2, SMTT(60) DEF LiesAt
  <2>5. \E v : LocatedNext(v) /\ Started(v) = Started(w) \cup {op}
    <3>1. <<"private", t>> \in Spot /\ <<"private", t>> # Nowhere /\ w \in [Op -> Spot]
      BY <1>1, Spots DEF Nowhere
    <3> QED BY <2>3, <2>4, <3>1, MoveNext
  <2>6. Owned'
    <3>1. Owns(t)'
      BY <1>5, <1>6, <2>2 DEF Owns, Keeps, InHandler
    <3>2. \A u \in Thread \ {t} : Owns(u)'
      BY <1>5, <1>6, <2>1 DEF Owns, Keeps, InHandler
    <3> QED BY <3>1, <3>2 DEF WorkInv, Owned
  <2> QED BY <2>5, <2>6
<1>7. CASE /\ arg' = [arg EXCEPT ![t] = op]
           /\ next' = [next EXCEPT ![t] = pc[t]] /\ pc' = [pc EXCEPT ![t] = "push"]
           /\ UNCHANGED private_op_queue
  <2>1. arg'[t] = op /\ arg[t] = None /\ \A u \in Thread \ {t} : arg'[u] = arg[u]
    BY <1>2, <1>5, <1>7 DEF Contents, Owns, Free
  <2>2. LiesAt(op, <<"arg", t>>, op_queue_', private_op_queue', arg', running', reactor', ready')
    BY <1>3, <1>7, <2>1 DEF LiesAt
  <2>3. \A o \in Op \ {op} : LiesAt(o, w[o], op_queue_', private_op_queue', arg', running', reactor', ready')
    BY <1>2, <1>4, <1>7, <2>1, SMTT(60) DEF LiesAt
  <2>4. \E v : LocatedNext(v) /\ Started(v) = Started(w) \cup {op}
    <3>1. <<"arg", t>> \in Spot /\ <<"arg", t>> # Nowhere /\ w \in [Op -> Spot]
      BY <1>1, Spots DEF Nowhere
    <3> QED BY <2>2, <2>3, <3>1, MoveNext
  <2>5. Owned'
    <3>1. /\ pc'[t] = "push" /\ next'[t] = pc[t]
          /\ \A u \in Thread \ {t} : pc'[u] = pc[u] /\ next'[u] = next[u]
      BY <1>7 DEF WorkInv, IInv, Places
    <3>2. Owns(t)'
      BY <1>2, <1>5, <1>7, <2>1, <3>1 DEF Owns, Keeps, InHandler, Free
    <3>3. \A u \in Thread \ {t} : Owns(u)'
      BY <1>5, <1>7, <2>1, <3>1, SMTT(60) DEF Owns, Keeps, InHandler
    <3> QED BY <3>2, <3>3 DEF WorkInv, Owned
  <2> QED BY <2>4, <2>5
<1> QED BY <1>6, <1>7 DEF Enqueue

LEMMA UnfinishedAt ==
  ASSUME WorkInv, NEW w, Located(w)
  PROVE  Unfinished = Started(w)
<1>1. UnfinishedIn(op_queue_, private_op_queue, arg, running, reactor, ready) = Started(w)
  BY HasContents, StartedAt, SMTT(60) DEF Located
<1> QED BY <1>1 DEF Unfinished, UnfinishedIn

LEMMA PostWork ==
  ASSUME WorkInv, IInv', NEW t \in Thread, NEW op \in Op, NEW b \in BOOLEAN,
         post_immediate_completion(t, op, b)
  PROVE  WorkInv'
<1>1. PICK private \in BOOLEAN :
        /\ private = ((OneThread \/ b) /\ pc[t] = "handler")
        /\ Enqueue(t, op, private)
        /\ \/ /\ private
              /\ private_outstanding_work' = [private_outstanding_work EXCEPT ![t] = @ + 1]
              /\ UNCHANGED outstanding_work_
           \/ /\ ~private
              /\ outstanding_work_' = outstanding_work_ + 1
              /\ UNCHANGED private_outstanding_work
  BY Zenon DEF post_immediate_completion
<1>2. Free(t) /\ op \in New /\ UNCHANGED <<running, op_queue_, reactor, ready>>
  BY DEF post_immediate_completion, ioVars
<1>3. PICK w : Located(w)
  BY DEF WorkInv
<1>4. op \notin Started(w)
  BY <1>2, <1>3, UnfinishedAt DEF New
<1>5. w[op] = Nowhere
  BY <1>4 DEF Started
<1>6. reactor' = reactor \ {op}
  <2>1. LiesAt(op, Nowhere, op_queue_, private_op_queue, arg, running, reactor, ready)
    BY <1>3, <1>5, LocatedAt
  <2>2. op \notin reactor
    BY <2>1 DEF LiesAt, Nowhere
  <2> QED BY <1>2, <2>2
<1>7. Owned' /\ \E v : LocatedNext(v) /\ Started(v) = Started(w) \cup {op}
  <2>1. private => pc[t] = "handler"
    BY <1>1
  <2>2. w[op] \in {Nowhere, <<"reactor", None>>}
    BY <1>5
  <2>3. UNCHANGED <<running, op_queue_, ready>> /\ Free(t) /\ Enqueue(t, op, private)
    BY <1>1, <1>2
  <2> QED BY <1>3, <1>6, <2>1, <2>2, <2>3, EnqueueWork, SMTT(60)
<1>8. PICK v : LocatedNext(v) /\ Started(v) = Started(w) \cup {op}
  BY <1>7
<1>9. outstanding_work_ \in Int /\ private_outstanding_work \in [Thread -> Int]
  BY DEF WorkInv
<1>10. /\ outstanding_work_' \in Int /\ private_outstanding_work' \in [Thread -> Int]
       /\ \A u \in Thread \ {t} : private_outstanding_work'[u] = private_outstanding_work[u]
       /\ outstanding_work_' + private_outstanding_work'[t] = outstanding_work_ + private_outstanding_work[t] + 1
  BY <1>1, <1>9, SMTT(60)
<1>11. 1 \in {1, -1} /\ (1 = 1 => op \notin Started(w) /\ Started(v) = Started(w) \cup {op}) /\ ~(1 = -1)
  BY <1>4, <1>8, SMTT(60)
<1> QED BY <1>3, <1>7, <1>8, <1>10, <1>11, CountChanges

LEMMA DeferredWork ==
  ASSUME WorkInv, IInv', NEW t \in Thread, NEW op \in Op, post_deferred_completion(t, op)
  PROVE  WorkInv'
<1>1. /\ Free(t) /\ op \in reactor /\ reactor' = reactor \ {op}
      /\ UNCHANGED <<running, op_queue_, ready, outstanding_work_, private_outstanding_work>>
  BY DEF post_deferred_completion
<1>2. PICK private \in BOOLEAN : private = (OneThread /\ pc[t] = "handler") /\ Enqueue(t, op, private)
  BY Zenon DEF post_deferred_completion
<1>3. PICK w : Located(w)
  BY DEF WorkInv
<1>4. w[op] = <<"reactor", None>>
  <2>1. LiesAt(op, w[op], op_queue_, private_op_queue, arg, running, reactor, ready)
    BY <1>3, LocatedAt
  <2> QED BY <1>1, <2>1 DEF LiesAt
<1>5. Owned' /\ \E v : LocatedNext(v) /\ Started(v) = Started(w) \cup {op}
  <2>1. private => pc[t] = "handler"
    BY <1>2
  <2>2. w[op] \in {Nowhere, <<"reactor", None>>}
    BY <1>4
  <2>3. UNCHANGED <<running, op_queue_, ready>>
    BY <1>1
  <2> QED BY <1>1, <1>2, <1>3, <2>1, <2>2, <2>3, EnqueueWork
<1>6. PICK v : LocatedNext(v) /\ Started(v) = Started(w) \cup {op}
  BY <1>5
<1>7. Started(v) = Started(w)
  BY <1>4, <1>6, SMTT(60) DEF Started, Nowhere
<1>8. UNCHANGED <<outstanding_work_, private_outstanding_work>>
  BY <1>1
<1> QED BY <1>3, <1>5, <1>6, <1>7, <1>8, CountStays

LEMMA StartWork ==
  ASSUME WorkInv, IInv', NEW t \in Thread, NEW op \in Op, start_op(t, op)
  PROVE  WorkInv'
<1>1. /\ op \in New /\ reactor' = reactor \cup {op} /\ outstanding_work_' = outstanding_work_ + 1
      /\ UNCHANGED <<pc, next, arg, running, private_op_queue, private_outstanding_work, op_queue_, ready>>
  BY DEF start_op, threadVars
<1>2. PICK w : Located(w)
  BY DEF WorkInv
<1>3. op \notin Started(w)
  BY <1>1, <1>2, UnfinishedAt DEF New
<1>4. w[op] = Nowhere /\ w \in [Op -> Spot]
  BY <1>2, <1>3, LocatedAt DEF Started
<1>5. LiesAt(op, <<"reactor", None>>, op_queue_', private_op_queue', arg', running', reactor', ready')
  <2>1. LiesAt(op, Nowhere, op_queue_, private_op_queue, arg, running, reactor, ready)
    BY <1>2, <1>4, LocatedAt
  <2> QED BY <1>1, <2>1 DEF LiesAt, Nowhere
<1>6. ASSUME NEW o \in Op \ {op}
      PROVE  LiesAt(o, w[o], op_queue_', private_op_queue', arg', running', reactor', ready')
  <2>1. LiesAt(o, w[o], op_queue_, private_op_queue, arg, running, reactor, ready)
    BY <1>2, LocatedAt
  <2> QED BY <1>1, <2>1 DEF LiesAt
<1>7. PICK v : LocatedNext(v) /\ Started(v) = Started(w) \cup {op}
  <2>1. <<"reactor", None>> \in Spot /\ <<"reactor", None>> # Nowhere /\ w \in [Op -> Spot]
    BY <1>4, Spots DEF Nowhere
  <2> QED BY <1>5, <1>6, <2>1, MoveOne, SMTT(60) DEF LocatedNext
<1>8. Owned'
  BY <1>1 DEF WorkInv, Owned, Owns, Keeps, InHandler
<1>9. outstanding_work_ \in Int /\ private_outstanding_work \in [Thread -> Int]
  BY DEF WorkInv
<1>10. /\ outstanding_work_' \in Int /\ private_outstanding_work' \in [Thread -> Int]
       /\ \A u \in Thread \ {t} : private_outstanding_work'[u] = private_outstanding_work[u]
       /\ outstanding_work_' + private_outstanding_work'[t] = outstanding_work_ + private_outstanding_work[t] + 1
  BY <1>1, <1>9, SMTT(60)
<1>11. 1 \in {1, -1} /\ (1 = 1 => op \notin Started(w) /\ Started(v) = Started(w) \cup {op}) /\ ~(1 = -1)
  BY <1>3, <1>7, SMTT(60)
<1> QED BY <1>2, <1>7, <1>8, <1>10, <1>11, CountChanges

LEMMA IoWork ==
  ASSUME WorkInv, IInv', NEW op \in Op, IoReady(op)
  PROVE  WorkInv'
<1>1. /\ op \in reactor /\ reactor' = reactor \ {op} /\ ready' = ready \cup {op}
      /\ UNCHANGED <<pc, next, arg, running, private_op_queue, private_outstanding_work, op_queue_, outstanding_work_>>
  BY DEF IoReady, threadVars
<1>2. PICK w : Located(w)
  BY DEF WorkInv
<1>3. w[op] = <<"reactor", None>> /\ w \in [Op -> Spot]
  <2>1. LiesAt(op, w[op], op_queue_, private_op_queue, arg, running, reactor, ready) /\ w \in [Op -> Spot]
    BY <1>2, LocatedAt
  <2> QED BY <1>1, <2>1 DEF LiesAt
<1>4. LiesAt(op, <<"ready", None>>, op_queue_', private_op_queue', arg', running', reactor', ready')
  <2>1. LiesAt(op, <<"reactor", None>>, op_queue_, private_op_queue, arg, running, reactor, ready)
    BY <1>2, <1>3, LocatedAt
  <2> QED BY <1>1, <2>1 DEF LiesAt
<1>5. ASSUME NEW o \in Op \ {op}
      PROVE  LiesAt(o, w[o], op_queue_', private_op_queue', arg', running', reactor', ready')
  <2>1. LiesAt(o, w[o], op_queue_, private_op_queue, arg, running, reactor, ready)
    BY <1>2, LocatedAt
  <2> QED BY <1>1, <2>1 DEF LiesAt
<1>6. PICK v : LocatedNext(v) /\ Started(v) = Started(w) \cup {op}
  <2>1. <<"ready", None>> \in Spot /\ <<"ready", None>> # Nowhere /\ w \in [Op -> Spot]
    BY <1>3, Spots DEF Nowhere
  <2> QED BY <1>4, <1>5, <2>1, MoveOne, SMTT(60) DEF LocatedNext
<1>7. Started(v) = Started(w)
  BY <1>3, <1>6, SMTT(60) DEF Started, Nowhere
<1>8. Owned'
  BY <1>1 DEF WorkInv, Owned, Owns, Keeps, InHandler
<1>9. UNCHANGED <<outstanding_work_, private_outstanding_work>>
  BY <1>1
<1> QED BY <1>2, <1>6, <1>7, <1>8, <1>9, CountStays

LEMMA CompleteWork ==
  ASSUME WorkInv, IInv', NEW t \in Thread, complete(t)
  PROVE  WorkInv'
<1>1. /\ pc[t] = "handler" /\ running' = [running EXCEPT ![t] = None] /\ work_cleanup(t)
      /\ UNCHANGED <<arg, private_op_queue, op_queue_, reactor, ready>>
  BY DEF complete
<1>2. PICK w : Located(w)
  BY DEF WorkInv
<1>3. Contents(op_queue_, private_op_queue, arg, running, reactor, ready) /\ None \notin Op
  BY HasContents, SchedulerAssumption
<1>4. PICK op \in Op : op = running[t]
  BY <1>1, <1>3 DEF Contents, WorkInv, Owned, Owns, InHandler
<1>5. w[op] = <<"running", t>> /\ w \in [Op -> Spot]
  <2>1. LiesAt(op, w[op], op_queue_, private_op_queue, arg, running, reactor, ready) /\ w \in [Op -> Spot]
    BY <1>2, LocatedAt
  <2> QED BY <1>4, <2>1 DEF LiesAt
<1>6. running'[t] = None /\ \A u \in Thread \ {t} : running'[u] = running[u]
  BY <1>1, <1>3 DEF Contents
<1>7. LiesAt(op, Nowhere, op_queue_', private_op_queue', arg', running', reactor', ready')
  <2>1. LiesAt(op, <<"running", t>>, op_queue_, private_op_queue, arg, running, reactor, ready)
    BY <1>2, <1>5, LocatedAt
  <2> QED BY <1>1, <1>3, <1>6, <2>1 DEF LiesAt, Nowhere
<1>8. ASSUME NEW o \in Op \ {op}
      PROVE  LiesAt(o, w[o], op_queue_', private_op_queue', arg', running', reactor', ready')
  <2>1. LiesAt(o, w[o], op_queue_, private_op_queue, arg, running, reactor, ready)
    BY <1>2, LocatedAt
  <2>2. o # running[t] /\ o # running'[t]
    BY <1>3, <1>4, <1>6
  <2> QED BY <1>1, <1>6, <2>1, <2>2 DEF LiesAt
<1>9. PICK v : LocatedNext(v) /\ Started(v) = Started(w) \ {op}
  <2>1. Nowhere \in Spot /\ w \in [Op -> Spot]
    BY <1>5, Spots
  <2> QED BY <1>7, <1>8, <2>1, MoveOne, SMTT(60) DEF LocatedNext
<1>10. op \in Started(w)
  BY <1>5, SMTT(60) DEF Started, Nowhere
<1>11. Owned'
  <2>1. \A u \in Thread : Owns(u)
    BY DEF WorkInv, Owned
  <2>2. /\ pc'[t] \in {"stop", "cleanup"} /\ next'[t] = "cleanup"
        /\ \A u \in Thread \ {t} : pc'[u] = pc[u] /\ next'[u] = next[u]
    BY <1>1 DEF work_cleanup, WorkInv, IInv, Places
  <2>3. Owns(t)'
    BY <1>1, <1>6, <2>1, <2>2 DEF Owns, Keeps, InHandler
  <2>4. \A u \in Thread \ {t} : Owns(u)'
    BY <1>1, <1>6, <2>1, <2>2 DEF Owns, Keeps, InHandler
  <2>5. running' \in [Thread -> Op \cup {None}]
    BY <1>1, <1>3 DEF Contents
  <2> QED BY <1>1, <2>3, <2>4, <2>5 DEF WorkInv, Owned
<1>12. outstanding_work_ \in Int /\ private_outstanding_work \in [Thread -> Int]
  BY DEF WorkInv
<1>13. /\ private_outstanding_work' = [private_outstanding_work EXCEPT ![t] = 0]
       /\ outstanding_work_' = outstanding_work_ + private_outstanding_work[t] - 1
  BY <1>1 DEF work_cleanup
<1>14. /\ outstanding_work_' \in Int /\ private_outstanding_work' \in [Thread -> Int]
       /\ \A u \in Thread \ {t} : private_outstanding_work'[u] = private_outstanding_work[u]
       /\ outstanding_work_' + private_outstanding_work'[t] = outstanding_work_ + private_outstanding_work[t] + (-1)
  BY <1>12, <1>13, SMTT(60)
<1>15. -1 \in {1, -1} /\ (-1 = -1 => op \in Started(w) /\ Started(v) = Started(w) \ {op}) /\ ~(-1 = 1)
  BY <1>9, <1>10, SMTT(60)
<1> QED BY <1>2, <1>9, <1>11, <1>14, <1>15, CountChanges

\* The task that init_task pushes is not an operation.
LEMMA InitTaskWork ==
  ASSUME WorkInv, IInv', NEW t \in Thread, init_task(t)
  PROVE  WorkInv'
<1>1. /\ Free(t) /\ ~task_ /\ op_queue_' = Append(op_queue_, Task) /\ UnlockAndSignalOne(t, pc[t])
      /\ UNCHANGED <<arg, running, private_op_queue, private_outstanding_work, outstanding_work_, reactor, ready>>
  BY DEF init_task, ioVars
<1>2. PICK w : Located(w)
  BY DEF WorkInv
<1>3. op_queue_ \in Seq(Op \cup {Task}) /\ Task \in Op \cup {Task} /\ IsInjective(op_queue_) /\ Task \notin Op
  BY HasContents, SchedulerAssumption DEF Contents, Queue, WorkInv, Owned
<1>4. Task \notin Range(op_queue_)
  BY <1>1, <1>3 DEF WorkInv, IInv, OneTask, Queued, Range
<1>5. Range(op_queue_') = Range(op_queue_) \cup {Task} /\ IsInjective(op_queue_')
  BY <1>1, <1>3, <1>4, AppendElements, SMTT(60)
<1>6. ASSUME NEW o \in Op
      PROVE  LiesAt(o, w[o], op_queue_', private_op_queue', arg', running', reactor', ready')
  <2>1. LiesAt(o, w[o], op_queue_, private_op_queue, arg, running, reactor, ready)
    BY <1>2, LocatedAt
  <2>2. o # Task
    BY <1>3
  <2> QED BY <1>1, <1>5, <2>1, <2>2 DEF LiesAt
<1>7. LocatedNext(w)
  BY <1>2, <1>6 DEF LocatedNext, Located, Lies
<1>8. Owned'
  <2>1. \A u \in Thread : Owns(u)
    BY DEF WorkInv, Owned
  <2>2. /\ pc'[t] \in {"signal", pc[t]} /\ next'[t] = pc[t]
        /\ \A u \in Thread \ {t} : pc'[u] = pc[u] /\ next'[u] = next[u]
    BY <1>1 DEF UnlockAndSignalOne, WorkInv, IInv, Places
  <2>3. Owns(t)'
    BY <1>1, <2>1, <2>2 DEF Owns, Keeps, InHandler, Free
  <2>4. \A u \in Thread \ {t} : Owns(u)'
    BY <1>1, <2>1, <2>2 DEF Owns, Keeps, InHandler
  <2> QED BY <1>1, <1>5, <2>3, <2>4 DEF WorkInv, Owned
<1>9. UNCHANGED <<outstanding_work_, private_outstanding_work>> /\ Started(w) = Started(w)
  BY <1>1
<1> QED BY <1>2, <1>7, <1>8, <1>9, CountStays

LEMMA SignalWork ==
  ASSUME WorkInv, IInv', NEW t \in Thread, signal(t)
  PROVE  WorkInv'
<1>1. /\ pc[t] = "signal" /\ pc \in [Thread -> Place]
      /\ UNCHANGED <<next, arg, running, private_op_queue, private_outstanding_work, op_queue_, outstanding_work_, reactor, ready>>
  BY DEF signal, ioVars, WorkInv, IInv, Places
<1>2. /\ pc'[t] = next[t] /\ next[t] \notin {"push", "signal", "stop"}
      /\ \A u \in Thread \ {t} : pc'[u] = pc[u] \/ (pc[u] = "waiting" /\ pc'[u] = "woken")
  <2>1. next[t] \in {"outside", "handler"} \cup Tasking
    BY <1>1 DEF WorkInv, IInv, Places
  <2>2. next[t] \notin {"push", "signal", "stop"}
    BY <2>1 DEF Tasking
  <2>3. \/ \E u \in Thread : pc[u] = "waiting" /\ pc' = [pc EXCEPT ![u] = "woken", ![t] = next[t]]
        \/ pc' = [pc EXCEPT ![t] = next[t]]
    BY DEF signal
  <2> QED BY <1>1, <2>2, <2>3
<1>3. ASSUME NEW u \in Thread
      PROVE  /\ pc'[u] = "push" <=> pc[u] = "push"
             /\ InHandler(u)' <=> InHandler(u)
             /\ Keeps(u) => Keeps(u)'
  <2>1. CASE u = t
    BY <1>1, <1>2, <2>1 DEF InHandler, Keeps
  <2>2. CASE u # t
    BY <1>1, <1>2, <2>2 DEF InHandler, Keeps
  <2> QED BY <2>1, <2>2
<1>4. UNCHANGED <<op_queue_, private_op_queue, arg, running, reactor, ready>>
      /\ UNCHANGED <<outstanding_work_, private_outstanding_work>>
  BY <1>1
<1> QED BY <1>3, <1>4, QuietWork

LEMMA StopWork ==
  ASSUME WorkInv, IInv', NEW t \in Thread, stop(t)
  PROVE  WorkInv'
<1>1. PICK place : /\ stop_all_threads(t, place)
                   /\ (Free(t) /\ place = pc[t]) \/ (pc[t] = "stop" /\ place = next[t])
  BY DEF stop
<1>2. /\ pc'[t] = place
      /\ \A u \in Thread \ {t} : pc'[u] = pc[u] \/ (pc[u] = "waiting" /\ pc'[u] = "woken")
      /\ UNCHANGED <<next, arg, running, private_op_queue, private_outstanding_work, op_queue_, outstanding_work_, reactor, ready>>
  BY <1>1 DEF stop_all_threads, ioVars
<1>3. pc[t] = "stop" => next[t] \in {"outside", "cleanup"}
  BY DEF WorkInv, IInv, Places
<1>4. ASSUME NEW u \in Thread
      PROVE  /\ pc'[u] = "push" <=> pc[u] = "push"
             /\ InHandler(u)' <=> InHandler(u)
             /\ Keeps(u) => Keeps(u)'
  <2>1. CASE u = t
    BY <1>1, <1>2, <1>3, <2>1 DEF InHandler, Keeps, Free
  <2>2. CASE u # t
    BY <1>2, <2>2 DEF InHandler, Keeps
  <2> QED BY <2>1, <2>2
<1>5. UNCHANGED <<op_queue_, private_op_queue, arg, running, reactor, ready>>
      /\ UNCHANGED <<outstanding_work_, private_outstanding_work>>
  BY <1>2
<1> QED BY <1>4, <1>5, QuietWork

LEMMA CallWork ==
  ASSUME WorkInv, IInv', NEW t \in Thread, NEW function, Call(t, function)
  PROVE  WorkInv'
<1>1. UNCHANGED <<op_queue_, private_op_queue, arg, running, reactor, ready>>
      /\ UNCHANGED <<outstanding_work_, private_outstanding_work>>
  BY DEF Call, ioVars
<1>2. /\ pc[t] = "outside" /\ pc'[t] \in {"stop", "lock"}
      /\ \A u \in Thread \ {t} : pc'[u] = pc[u] /\ next'[u] = next[u]
  BY DEF Call, WorkInv, IInv, Places
<1>3. ASSUME NEW u \in Thread
      PROVE  /\ pc'[u] = "push" <=> pc[u] = "push"
             /\ InHandler(u)' <=> InHandler(u)
             /\ Keeps(u) => Keeps(u)'
  BY <1>2 DEF InHandler, Keeps
<1> QED BY <1>1, <1>3, QuietWork

LEMMA RestWork ==
  ASSUME WorkInv, IInv', (\E t \in Thread : restart(t)) \/ UNCHANGED vars
  PROVE  WorkInv'
<1>1. UNCHANGED <<op_queue_, private_op_queue, arg, running, reactor, ready>>
      /\ UNCHANGED <<outstanding_work_, private_outstanding_work>> /\ UNCHANGED <<pc, next>>
  BY DEF restart, vars, threadVars, ioVars
<1>2. ASSUME NEW u \in Thread
      PROVE  /\ pc'[u] = "push" <=> pc[u] = "push"
             /\ InHandler(u)' <=> InHandler(u)
             /\ Keeps(u) => Keeps(u)'
  BY <1>1 DEF InHandler, Keeps
<1> QED BY <1>1, <1>2, QuietWork

LEMMA InitWork ==
  ASSUME Init, IInv
  PROVE  WorkInv
<1>1. PICK w : w = [op \in Op |-> Nowhere]
  OBVIOUS
<1>2. None \notin Op
  BY SchedulerAssumption
<1>3. Located(w)
  <2>1. w \in [Op -> Spot]
    BY <1>1, Spots
  <2>2. ASSUME NEW op \in Op
        PROVE  LiesAt(op, w[op], op_queue_, private_op_queue, arg, running, reactor, ready)
    BY <1>1, <1>2, NothingTwice DEF Init, LiesAt, Nowhere
  <2> QED BY <2>1, <2>2 DEF Located, Lies
<1>4. Owned
  BY NothingTwice DEF Init, Owned, Owns, InHandler, Keeps
<1>5. Unfinished = {}
  <2>1. Range(op_queue_) = {} /\ reactor = {} /\ ready = {}
    BY NothingTwice DEF Init
  <2>2. \A t \in Thread : Range(private_op_queue[t]) = {} /\ arg[t] = None /\ running[t] = None
    BY NothingTwice DEF Init
  <2> QED BY <2>1, <2>2 DEF Unfinished
<1>6. outstanding_work_ = 0 /\ private_outstanding_work \in [Thread -> Int]
      /\ \A t \in Thread : private_outstanding_work[t] = 0
  BY SMTT(60) DEF Init
<1>7. PrivateWork = 0
  <2>1. PICK f : Sums(f, private_outstanding_work) /\ PrivateWork = f[Thread]
    BY PrivateWorkSums
  <2> QED BY <1>6, <2>1, SumOfNone
<1>8. Cardinality(Unfinished) = 0
  BY <1>5, FS_EmptySet
<1>9. WorkIsCounted
  BY <1>6, <1>7, <1>8, SMTT(60) DEF WorkIsCounted
<1> QED BY <1>3, <1>4, <1>6, <1>9, SMTT(60) DEF WorkInv

LEMMA StepWork ==
  ASSUME WorkInv, IInv', [Next]_vars
  PROVE  WorkInv'
<1>1. ASSUME NEW t \in Thread, GoesOn(t) PROVE WorkInv'
  BY <1>1, LockWork, SignalWork, PushWork, CompleteWork, CleanupWork, ReturnsWork, StopWork DEF GoesOn
<1>2. ASSUME NEW t \in Thread, Program(t) PROVE WorkInv'
  <2>1. ASSUME NEW op \in Op, NEW b \in BOOLEAN, post_immediate_completion(t, op, b) PROVE WorkInv'
    BY <2>1, PostWork
  <2>2. ASSUME NEW op \in Op, post_deferred_completion(t, op) \/ start_op(t, op) PROVE WorkInv'
    BY <2>2, DeferredWork, StartWork
  <2>3. ASSUME NEW function \in Calls, Call(t, function) PROVE WorkInv'
    BY <2>3, CallWork
  <2> QED BY <1>2, <2>1, <2>2, <2>3, InitTaskWork, RestWork, StopWork, LockWork DEF Program
<1>3. ASSUME NEW op \in Op, IoReady(op) PROVE WorkInv'
  BY <1>3, IoWork
<1> QED BY <1>1, <1>2, <1>3, RestWork DEF Next

(***************************************************************************)
(* The work count is exact, for any number of threads and operations:      *)
(* outstanding_work_, with what handlers have posted to their own queues   *)
(* and ~work_cleanup has not yet added, is the number of operations that   *)
(* are started and not finished.  On this count work_finished stops the    *)
(* threads and run returns at once.                                        *)
(***************************************************************************)
THEOREM SchedulerCountsWork == Spec => []WorkIsCounted
<1>1. Init => WorkInv
  BY InitIInv, InitWork
<1>2. WorkInv /\ [Next]_vars => WorkInv'
  <2>1. WorkInv => IInv
    BY DEF WorkInv
  <2> QED BY <2>1, StepIInv, StepWork
<1>3. WorkInv => WorkIsCounted
  BY DEF WorkInv
<1> QED BY <1>1, <1>2, <1>3, PTL DEF Spec
=============================================================================
