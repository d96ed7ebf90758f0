----------------------------- MODULE EpollReactor -----------------------------
(***************************************************************************)
(* asio's epoll_reactor for one descriptor: operations are tried at once,  *)
(* queued if they would block, and performed when epoll reports the        *)
(* descriptor.  The registration is edge-triggered: a report is made once  *)
(* per change, and one that is not acted upon is lost.                     *)
(*                                                                         *)
(* A report is a descriptor operation in the scheduler's queue; threads    *)
(* take it from there and call perform_io later, so that several may be on *)
(* the way, even for a descriptor whose state has been reused since.  What *)
(* happens under the descriptor's mutex is one step.                       *)
(***************************************************************************)
EXTENDS Integers, Sequences, FiniteSets

CONSTANTS
  Thread,      \* threads that run the scheduler
  Op,          \* operations that may be outstanding
  Type,        \* op_types: a subset of {"read", "write", "except"}
  MaxAvail     \* bound on what can be read, written or is out of band

ASSUME ReactorAssumption ==
  /\ IsFiniteSet(Op)
  /\ Type \subseteq {"read", "write", "except"}
  /\ MaxAvail \in Nat

VARIABLES
  open,                \* "closed", "open" or "closing"; shutdown_ unless "open"
  registered_events_,  \* the types whose flags are registered; {} if epoll refused
  op_queue_,           \* per type
  try_speculative_,    \* per type
  avail,               \* kernel: per type, units that are ready
  hup,                 \* kernel: the connection has ended
  nospace,             \* kernel: a writer found no space and is to be told
  listed,              \* kernel: the descriptor is in epoll's ready list
  queued,              \* events of the descriptor operation in the scheduler, {} if none
  inflight,            \* per thread, the events it calls perform_io with, {} if none
  posted,              \* operations whose completion is in the scheduler
  work,                \* what the operations contribute to outstanding_work_
  reported             \* types for which an operation was told that the connection ended

state == <<open, registered_events_>>
kernel == <<avail, hup, nospace, listed>>
reports == <<queued, inflight>>
vars == <<state, op_queue_, try_speculative_, kernel, reports, posted, work, reported>>

Elements(q) == {q[i] : i \in DOMAIN q}
Waiting == UNION {Elements(op_queue_[j]) : j \in Type}
Ready(j) == hup \/ avail[j] > 0

Init ==
  /\ open = "closed" /\ registered_events_ = {}
  /\ op_queue_ = [j \in Type |-> <<>>]
  /\ try_speculative_ = [j \in Type |-> FALSE]
  /\ avail = [j \in Type |-> 0] /\ hup = FALSE /\ nospace = FALSE /\ listed = FALSE
  /\ queued = {} /\ inflight = [t \in Thread |-> {}]
  /\ posted = {} /\ work = 0 /\ reported = {}

-----------------------------------------------------------------------------
\* Who looks at a descriptor that is not writable is told when it is.
Polled == nospace \/ ("write" \in Type /\ avail["write"] = 0)

\* epoll_ctl puts a descriptor that is ready into the list again.
epoll_ctl(registered) ==
  /\ listed' = (listed \/ hup \/ \E j \in registered : avail[j] > 0)
  /\ nospace' = Polled

\* What may happen to the descriptor meanwhile: something arrives, or the connection ends.
Arrive(j) ==
  /\ open # "closed"
  /\ avail[j] < MaxAvail
  /\ avail' = [avail EXCEPT ![j] = @ + 1]
  /\ listed' = (listed \/ (j \in registered_events_ /\ (j = "write" => nospace)))
  /\ nospace' = (nospace /\ j # "write")
  /\ UNCHANGED <<state, op_queue_, try_speculative_, hup, reports, posted, work, reported>>

HangUp ==
  /\ open # "closed"
  /\ ~hup
  /\ hup' = TRUE
  /\ listed' = (registered_events_ # {})
  /\ UNCHANGED <<state, op_queue_, try_speculative_, avail, nospace, reports, posted, work, reported>>

(***************************************************************************)
(* reactor_op::perform with a units available: not_done if there are none, *)
(* otherwise what it takes and leaves.  A write that wants more than there *)
(* is, and any transfer of nothing, exhausts the descriptor.               *)
(***************************************************************************)
perform(j, a) ==
  IF hup /\ (a = 0 \/ j = "write") THEN {[status |-> "done_and_exhausted", left |-> a]}
  ELSE IF a = 0 THEN {[status |-> "not_done", left |-> a]}
  ELSE {[status |-> "done", left |-> l] : l \in 0..a - 1}
       \cup IF j = "write" THEN {[status |-> "done_and_exhausted", left |-> 0]} ELSE {}

\* Afterwards a writer that was short of space is to be told.
NoSpace(j, status) == nospace \/ (j = "write" /\ status # "done" /\ ~hup)

\* The operation was told that the connection has ended.
Ended(status) == hup /\ status = "done_and_exhausted"

(***************************************************************************)
(* A new socket in a descriptor state, which may have been used before.    *)
(* With EPERM the socket is used without epoll; any other error fails the  *)
(* opening of the socket, and no operation gets to the state.              *)
(***************************************************************************)
register_descriptor(result) ==
  /\ open = "closed"
  /\ try_speculative_' = [j \in Type |-> TRUE]
  /\ \/ /\ result = "error"
        /\ UNCHANGED <<state, kernel, reported>>
     \/ /\ result \in {"success", "EPERM"}
        /\ open' = "open"
        /\ registered_events_' = IF result = "success" THEN Type \ {"write"} ELSE {}
        /\ avail' \in [Type -> 0..1]
        /\ hup' = FALSE /\ nospace' = FALSE
        /\ listed' = \E j \in registered_events_' : avail'[j] > 0
        /\ reported' = {}
  /\ UNCHANGED <<op_queue_, reports, posted, work>>

\* on_immediate, which posts the completion.
Immediate(op) == posted' = posted \cup {op} /\ work' = work + 1

Push(j, op) ==
  /\ op_queue_' = [op_queue_ EXCEPT ![j] = Append(@, op)]
  /\ work' = work + 1
  /\ UNCHANGED posted

\* The operation is tried at once, and completes with r.
Speculate(j, op, r) ==
  /\ Immediate(op)
  /\ try_speculative_' =
       [try_speculative_ EXCEPT ![j] = @ /\ ~(r.status = "done_and_exhausted" /\ registered_events_ # {})]
  /\ avail' = [avail EXCEPT ![j] = r.left]
  /\ nospace' = NoSpace(j, r.status)
  /\ reported' = IF Ended(r.status) THEN reported \cup {j} ELSE reported
  /\ UNCHANGED <<op_queue_, registered_events_, listed>>

\* Faulty variant: an operation that was not tried relies on the registration there is.
Enqueue_NoModify(j, op, tried) ==
  \/ /\ registered_events_ = {}
     /\ Immediate(op)
     /\ UNCHANGED <<op_queue_, registered_events_, listed, nospace>>
  \/ /\ registered_events_ # {}
     /\ Push(j, op)
     /\ registered_events_' = registered_events_ \cup {j}
     /\ \/ j \in registered_events_ /\ UNCHANGED <<listed, nospace>>
        \/ j \notin registered_events_ /\ epoll_ctl(registered_events_')

\* Faulty variant: a first write waits without being registered for EPOLLOUT.
Enqueue_NoOut(j, op, tried) ==
  \/ /\ registered_events_ = {}
     /\ Immediate(op)
     /\ UNCHANGED <<op_queue_, registered_events_, listed, nospace>>
  \/ /\ registered_events_ # {}
     /\ Push(j, op)
     /\ \/ tried /\ UNCHANGED <<registered_events_, listed, nospace>>
        \/ /\ ~tried
           /\ registered_events_' = registered_events_ \cup {j}
           /\ epoll_ctl(registered_events_')

(***************************************************************************)
(* It has to wait.  A first write registers for EPOLLOUT, and completes    *)
(* with the error if that fails.  One that was not tried registers again,  *)
(* in order to be reported if the descriptor is ready; that this succeeds  *)
(* is assumed, as the code does.                                           *)
(***************************************************************************)
Enqueue(j, op, tried) ==
  \/ /\ registered_events_ = {}
     /\ Immediate(op)
     /\ UNCHANGED <<op_queue_, registered_events_, listed, nospace>>
  \/ /\ registered_events_ # {}
     /\ tried /\ j = "write" /\ j \notin registered_events_
     /\ Immediate(op)
     /\ nospace' = (nospace \/ try_speculative_[j])
     /\ UNCHANGED <<op_queue_, registered_events_, listed>>
  \/ /\ registered_events_ # {}
     /\ Push(j, op)
     /\ registered_events_' = registered_events_ \cup {j}
     /\ \/ /\ tried /\ j \in registered_events_
           /\ UNCHANGED listed
           /\ nospace' = (nospace \/ (j = "write" /\ try_speculative_[j]))
        \/ ~(tried /\ j \in registered_events_) /\ epoll_ctl(registered_events_')

start_op(j, op, allow_speculative) ==
  LET tried == allow_speculative /\ (j = "read" /\ "except" \in Type => op_queue_["except"] = <<>>)
  IN /\ op \notin Waiting \cup posted
     /\ \/ /\ open # "open"
           /\ Immediate(op)
           /\ UNCHANGED <<registered_events_, op_queue_, try_speculative_, kernel, reported>>
        \/ /\ open = "open" /\ op_queue_[j] # <<>>
           /\ Push(j, op)
           /\ UNCHANGED <<registered_events_, try_speculative_, kernel, reported>>
        \/ /\ open = "open" /\ op_queue_[j] = <<>> /\ tried /\ try_speculative_[j]
           /\ \E r \in perform(j, avail[j]) : r.status # "not_done" /\ Speculate(j, op, r)
           /\ UNCHANGED hup
        \/ /\ open = "open" /\ op_queue_[j] = <<>>
           /\ tried /\ try_speculative_[j] => \E r \in perform(j, avail[j]) : r.status = "not_done"
           /\ Enqueue(j, op, tried)
           /\ UNCHANGED <<try_speculative_, avail, hup, reported>>
     /\ UNCHANGED <<open, reports>>

-----------------------------------------------------------------------------
\* epoll_wait and run: all that is ready now is reported, and the descriptor leaves the list.
run ==
  /\ listed
  /\ queued = {}
  /\ queued' = {j \in Type : hup \/ (j \in registered_events_ /\ avail[j] > 0)}
  /\ listed' = FALSE
  /\ nospace' = Polled
  /\ UNCHANGED <<state, op_queue_, try_speculative_, avail, hup, inflight, posted, work, reported>>

\* A thread takes the descriptor operation out of the scheduler's queue.
do_run_one(t) ==
  /\ queued # {}
  /\ inflight[t] = {}
  /\ inflight' = [inflight EXCEPT ![t] = queued]
  /\ queued' = {}
  /\ UNCHANGED <<state, op_queue_, try_speculative_, kernel, posted, work, reported>>

(***************************************************************************)
(* The loop of perform_io over the operations of a type: those done, those *)
(* left, what is left of the units, try_speculative_, and the last status. *)
(***************************************************************************)
RECURSIVE PerformAll(_, _, _, _)
PerformAll(j, q, a, last) ==
  IF q = <<>> THEN {[queue |-> q, left |-> a, speculative |-> TRUE, status |-> last]}
  ELSE UNION {IF r.status = "done" THEN PerformAll(j, Tail(q), r.left, "done")
              ELSE {[queue |-> IF r.status = "not_done" THEN q ELSE Tail(q), left |-> r.left,
                     speculative |-> r.status = "not_done", status |-> r.status]} :
              r \in perform(j, a)}

Performed(j, events) ==
  IF j \in events THEN PerformAll(j, op_queue_[j], avail[j], "done")
  ELSE {[queue |-> op_queue_[j], left |-> avail[j], speculative |-> try_speculative_[j], status |-> "done"]}

\* Faulty variant: the work that the scheduler takes off for the descriptor operation is not added.
perform_io_cleanup_NoCompensation(ops) ==
  /\ posted' = posted \cup ops
  /\ work' = work - (IF ops = {} THEN 1 ELSE 0)

\* ~perform_io_cleanup_on_block_exit, and work_finished of the scheduler.
perform_io_cleanup(ops) ==
  /\ posted' = posted \cup ops
  /\ work' = work + (IF ops = {} THEN 1 - 1 ELSE 0)

perform_io(t) ==
  /\ inflight[t] # {}
  /\ inflight' = [inflight EXCEPT ![t] = {}]
  /\ \E r \in [Type -> UNION {Performed(j, inflight[t]) : j \in Type}] :
       /\ \A j \in Type : r[j] \in Performed(j, inflight[t])
       /\ op_queue_' = [j \in Type |-> r[j].queue]
       /\ avail' = [j \in Type |-> r[j].left]
       /\ try_speculative_' = [j \in Type |-> r[j].speculative]
       /\ nospace' = \E j \in Type : NoSpace(j, r[j].status)
       /\ reported' = reported \cup {j \in Type : Ended(r[j].status)}
       /\ perform_io_cleanup(Waiting \ UNION {Elements(r[j].queue) : j \in Type})
  /\ UNCHANGED <<state, hup, listed, queued>>

\* The handler of an operation runs, and its work is finished.
complete(op) ==
  /\ op \in posted
  /\ posted' = posted \ {op}
  /\ work' = work - 1
  /\ UNCHANGED <<state, op_queue_, try_speculative_, kernel, reports, reported>>

-----------------------------------------------------------------------------
\* Operations are taken out of the queues and posted with operation_aborted.
Abort(ops) ==
  /\ posted' = posted \cup ops
  /\ op_queue_' = [j \in Type |-> SelectSeq(op_queue_[j], LAMBDA op : op \notin ops)]

cancel_ops ==
  /\ open = "open"
  /\ Abort(Waiting)
  /\ UNCHANGED <<state, try_speculative_, kernel, reports, work, reported>>

cancel_ops_by_key(op) ==
  /\ open = "open"
  /\ op \in Waiting
  /\ Abort({op})
  /\ UNCHANGED <<state, try_speculative_, kernel, reports, work, reported>>

\* Without closing, the descriptor is removed from epoll; otherwise close does that.
deregister_descriptor(closing) ==
  /\ open = "open"
  /\ open' = IF closing THEN "closing" ELSE "closed"
  /\ Abort(Waiting)
  /\ listed' = (listed /\ closing)
  /\ registered_events_' = IF closing THEN registered_events_ ELSE {}
  /\ UNCHANGED <<try_speculative_, avail, hup, nospace, reports, work, reported>>

\* close, then cleanup_descriptor_data: the state may be used again.
close ==
  /\ open = "closing"
  /\ open' = "closed"
  /\ registered_events_' = {}
  /\ listed' = FALSE
  /\ UNCHANGED <<op_queue_, try_speculative_, avail, hup, nospace, reports, posted, work, reported>>

Next ==
  \/ \E result \in {"success", "EPERM", "error"} : register_descriptor(result)
  \/ \E b \in BOOLEAN :
       \/ deregister_descriptor(b)
       \/ \E j \in Type, op \in Op : start_op(j, op, b)
  \/ cancel_ops \/ close
  \/ \E op \in Op : cancel_ops_by_key(op) \/ complete(op)
  \/ run
  \/ \E t \in Thread : do_run_one(t) \/ perform_io(t)
  \/ \E j \in Type : Arrive(j)
  \/ HangUp

Spec == Init /\ [][Next]_vars

\* The threads that run the scheduler keep running it.
FairSpec ==
  /\ Spec
  /\ WF_vars(run)
  /\ \A t \in Thread : WF_vars(do_run_one(t) \/ perform_io(t))

-----------------------------------------------------------------------------
(***************************************************************************)
(* Every operation is waiting or posted and never both, and counts as one  *)
(* unit of work until its handler has run: operations do not complete      *)
(* twice, and reports that complete none do not end the scheduler's run.   *)
(***************************************************************************)
OperationsAreWork ==
  /\ work = Cardinality(Waiting) + Cardinality(posted)
  /\ Waiting \cap posted = {}

(***************************************************************************)
(* No edge is lost: when an operation waits for what is ready, a report of *)
(* it is on the way, in epoll's list, in the scheduler or in a thread; for *)
(* every order of reports, new operations, cancellations and reuse of the  *)
(* state.  After an operation was told that the connection has ended there *)
(* is no further report.                                                   *)
(***************************************************************************)
Reported(j) ==
  \/ listed /\ (hup \/ j \in registered_events_)
  \/ j \in queued
  \/ \E t \in Thread : j \in inflight[t]

NoLostEdge ==
  \A j \in Type : op_queue_[j] # <<>> /\ Ready(j) /\ j \notin reported => Reported(j)

(***************************************************************************)
(* The first operation that waits for what is ready does not wait forever, *)
(* whatever the other types' operations, later arrivals and cancellations  *)
(* make of the reports.                                                    *)
(***************************************************************************)
FirstIsServed ==
  \A j \in Type, op \in Op :
    op_queue_[j] # <<>> /\ Head(op_queue_[j]) = op /\ Ready(j) /\ j \notin reported
      ~> op \notin Elements(op_queue_[j])
=============================================================================
