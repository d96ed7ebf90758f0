-------------------------------- MODULE Strand --------------------------------
(***************************************************************************)
(* One strand of asio: strand<Executor> (strand_executor_service) and      *)
(* io_context::strand (strand_service).  Whoever sets locked_ has to get   *)
(* an invoker of the strand run by the inner executor; that invoker runs   *)
(* what is ready and hands itself over to the next invoker or gives        *)
(* locked_ back.  ready_queue_ is only protected by this protocol.         *)
(*                                                                         *)
(* What happens under the strand's mutex is one step; what follows after   *)
(* it is unlocked is the next one.  Several strands share mutexes, and     *)
(* nothing else.                                                           *)
(***************************************************************************)
EXTENDS Naturals, Sequences

CONSTANTS
  Thread,    \* threads that submit handlers and run the inner executor
  Op,        \* handlers; each is submitted at most once
  Throws     \* whether handlers may throw

ASSUME StrandAssumption == Throws \in BOOLEAN

VARIABLES
  pc,              \* where each thread is
  arg,             \* the handler a thread is about to push
  may_block,       \* whether the inner executor may run the invoker at once
  frames,          \* the handlers of the strand a thread is in
  service,         \* the implementation the strand belongs to
  locked_,
  shutdown_,
  waiting_queue_,
  ready_queue_,
  invokers,        \* invokers waiting in the inner executor
  fresh            \* handlers that have not been submitted

strandVars == <<service, locked_, shutdown_, waiting_queue_, ready_queue_>>
vars == <<pc, arg, may_block, frames, strandVars, invokers, fresh>>

Init ==
  /\ pc = [t \in Thread |-> "idle"]
  /\ arg = [t \in Thread |-> <<>>]
  /\ may_block = [t \in Thread |-> FALSE]
  /\ frames = [t \in Thread |-> <<>>]
  /\ service \in {"strand_executor_service", "strand_service"}
  /\ locked_ = FALSE
  /\ shutdown_ = FALSE
  /\ waiting_queue_ = <<>>
  /\ ready_queue_ = <<>>
  /\ invokers = 0
  /\ fresh = Op

-----------------------------------------------------------------------------
\* A handler is called outside of the strand, or in one of its handlers.
Free(t) == pc[t] \in {"idle", "handler"}
running_in_this_thread(t) == frames[t] # <<>>

\* Faulty variant: locked_ is not looked at.
enqueue_Unlocked(t, op, blocking) ==
  /\ \/ shutdown_ /\ UNCHANGED <<pc, arg, may_block, locked_, waiting_queue_>>
     \/ /\ ~shutdown_
        /\ locked_' = TRUE
        /\ pc' = [pc EXCEPT ![t] = "push"]
        /\ arg' = [arg EXCEPT ![t] = <<op>>]
        /\ may_block' = [may_block EXCEPT ![t] = blocking]
        /\ UNCHANGED waiting_queue_
  /\ UNCHANGED <<frames, ready_queue_, service, shutdown_, invokers>>

\* The handler is destroyed, waits, or makes t responsible for the strand.
enqueue(t, op, blocking) ==
  /\ \/ shutdown_ /\ UNCHANGED <<pc, arg, may_block, locked_, waiting_queue_>>
     \/ /\ ~shutdown_ /\ locked_
        /\ waiting_queue_' = Append(waiting_queue_, op)
        /\ UNCHANGED <<pc, arg, may_block, locked_>>
     \/ /\ ~shutdown_ /\ ~locked_
        /\ locked_' = TRUE
        /\ pc' = [pc EXCEPT ![t] = "push"]
        /\ arg' = [arg EXCEPT ![t] = <<op>>]
        /\ may_block' = [may_block EXCEPT ![t] = blocking]
        /\ UNCHANGED waiting_queue_
  /\ UNCHANGED <<frames, ready_queue_, service, shutdown_, invokers>>

\* strand_service::do_dispatch in a thread of the io_context: the handler runs at once.
do_dispatch(t, op) ==
  /\ pc[t] = "idle"
  /\ ~locked_
  /\ locked_' = TRUE
  /\ pc' = [pc EXCEPT ![t] = "handler"]
  /\ frames' = [frames EXCEPT ![t] = <<op>>]
  /\ UNCHANGED <<arg, may_block, service, shutdown_, waiting_queue_, ready_queue_, invokers>>

\* dispatch, and execute with an executor that may block.
dispatch(t, op) ==
  /\ Free(t)
  /\ op \in fresh
  /\ fresh' = fresh \ {op}
  /\ \/ /\ running_in_this_thread(t)
        /\ frames' = [frames EXCEPT ![t] = Append(@, op)]
        /\ UNCHANGED <<pc, arg, may_block, strandVars, invokers>>
     \/ /\ ~running_in_this_thread(t)
        /\ \/ enqueue(t, op, service = "strand_executor_service")
           \/ service = "strand_service" /\ do_dispatch(t, op)

\* post, defer, and execute with an executor that never blocks.
post(t, op) ==
  /\ Free(t)
  /\ op \in fresh
  /\ fresh' = fresh \ {op}
  /\ enqueue(t, op, FALSE)

\* The end of enqueue, after the mutex was unlocked.
push(t) ==
  /\ pc[t] = "push"
  /\ ready_queue_' = ready_queue_ \o arg[t]
  /\ arg' = [arg EXCEPT ![t] = <<>>]
  /\ pc' = [pc EXCEPT ![t] = "submit"]
  /\ UNCHANGED <<may_block, frames, locked_, service, shutdown_, waiting_queue_, invokers, fresh>>

\* The invoker goes to the inner executor, which may run it at once.
submit(t) ==
  /\ pc[t] = "submit"
  /\ \/ /\ invokers' = invokers + 1
        /\ pc' = [pc EXCEPT ![t] = "idle"]
     \/ /\ may_block[t]
        /\ pc' = [pc EXCEPT ![t] = "run"]
        /\ UNCHANGED invokers
  /\ UNCHANGED <<arg, may_block, frames, strandVars, fresh>>

-----------------------------------------------------------------------------
\* A thread of the inner executor calls an invoker.
invoke(t) ==
  /\ pc[t] = "idle"
  /\ invokers > 0
  /\ invokers' = invokers - 1
  /\ pc' = [pc EXCEPT ![t] = "run"]
  /\ UNCHANGED <<arg, may_block, frames, strandVars, fresh>>

\* Faulty variant: the handler that was queued last is run.
run_ready_handlers_Last(t) ==
  /\ pc[t] = "run"
  /\ \/ /\ ready_queue_ # <<>>
        /\ frames' = [frames EXCEPT ![t] = <<ready_queue_[Len(ready_queue_)]>>]
        /\ ready_queue_' = SubSeq(ready_queue_, 1, Len(ready_queue_) - 1)
        /\ pc' = [pc EXCEPT ![t] = "handler"]
     \/ /\ ready_queue_ = <<>>
        /\ pc' = [pc EXCEPT ![t] = "exit"]
        /\ UNCHANGED <<frames, ready_queue_>>
  /\ UNCHANGED <<arg, may_block, locked_, service, shutdown_, waiting_queue_, invokers, fresh>>

run_ready_handlers(t) ==
  /\ pc[t] = "run"
  /\ \/ /\ ready_queue_ # <<>>
        /\ frames' = [frames EXCEPT ![t] = <<Head(ready_queue_)>>]
        /\ ready_queue_' = Tail(ready_queue_)
        /\ pc' = [pc EXCEPT ![t] = "handler"]
     \/ /\ ready_queue_ = <<>>
        /\ pc' = [pc EXCEPT ![t] = "exit"]
        /\ UNCHANGED <<frames, ready_queue_>>
  /\ UNCHANGED <<arg, may_block, locked_, service, shutdown_, waiting_queue_, invokers, fresh>>

\* A handler returns, to the handler that dispatched it or to the loop.
complete(t) ==
  /\ pc[t] = "handler"
  /\ frames' = [frames EXCEPT ![t] = SubSeq(@, 1, Len(@) - 1)]
  /\ pc' = [pc EXCEPT ![t] = IF Len(frames[t]) = 1 THEN "run" ELSE "handler"]
  /\ UNCHANGED <<arg, may_block, strandVars, invokers, fresh>>

\* A handler throws: the loop is left, and ready handlers stay in the queue.
throw(t) ==
  /\ Throws
  /\ pc[t] = "handler"
  /\ frames' = [frames EXCEPT ![t] = <<>>]
  /\ pc' = [pc EXCEPT ![t] = "exit"]
  /\ UNCHANGED <<arg, may_block, strandVars, invokers, fresh>>

\* Faulty variant: the strand is released whenever nothing new was submitted.
push_waiting_to_ready_IgnoresReady(t) ==
  /\ pc[t] = "exit"
  /\ ready_queue_' = ready_queue_ \o waiting_queue_
  /\ waiting_queue_' = <<>>
  /\ locked_' = (waiting_queue_ # <<>>)
  /\ pc' = [pc EXCEPT ![t] = IF waiting_queue_ # <<>> THEN "repost" ELSE "idle"]
  /\ UNCHANGED <<arg, may_block, frames, service, shutdown_, invokers, fresh>>

push_waiting_to_ready(t) ==
  /\ pc[t] = "exit"
  /\ ready_queue_' = ready_queue_ \o waiting_queue_
  /\ waiting_queue_' = <<>>
  /\ locked_' = (ready_queue_' # <<>>)
  /\ pc' = [pc EXCEPT ![t] = IF ready_queue_' # <<>> THEN "repost" ELSE "idle"]
  /\ UNCHANGED <<arg, may_block, frames, service, shutdown_, invokers, fresh>>

\* The rest of ~on_invoker_exit, ~on_do_complete_exit and ~on_dispatch_exit.
repost(t) ==
  /\ pc[t] = "repost"
  /\ invokers' = invokers + 1
  /\ pc' = [pc EXCEPT ![t] = "idle"]
  /\ UNCHANGED <<arg, may_block, frames, strandVars, fresh>>

\* The execution context is destroyed, with what waits in it; no thread runs it any more.
shutdown ==
  /\ service = "strand_executor_service"
  /\ \A t \in Thread : pc[t] = "idle"
  /\ ~shutdown_
  /\ shutdown_' = TRUE
  /\ waiting_queue_' = <<>>
  /\ ready_queue_' = <<>>
  /\ invokers' = 0
  /\ UNCHANGED <<pc, arg, may_block, frames, service, locked_, fresh>>

-----------------------------------------------------------------------------
GoesOn(t) ==
  \/ push(t) \/ submit(t)
  \/ run_ready_handlers(t) \/ complete(t) \/ throw(t)
  \/ push_waiting_to_ready(t) \/ repost(t)

Next ==
  \/ \E t \in Thread :
       \/ \E op \in Op : dispatch(t, op) \/ post(t, op)
       \/ invoke(t)
       \/ GoesOn(t)
  \/ shutdown

Spec == Init /\ [][Next]_vars

\* Handlers return, and the inner executor runs what it was given.
FairSpec ==
  /\ Spec
  /\ \A t \in Thread : WF_vars(GoesOn(t))
  /\ WF_vars(\E t \in Thread : invoke(t))

-----------------------------------------------------------------------------
TypeOK ==
  /\ pc \in [Thread -> {"idle", "push", "submit", "run", "handler", "exit", "repost"}]
  /\ arg \in [Thread -> Seq(Op)]
  /\ may_block \in [Thread -> BOOLEAN]
  /\ frames \in [Thread -> Seq(Op)]
  /\ service \in {"strand_executor_service", "strand_service"}
  /\ locked_ \in BOOLEAN /\ shutdown_ \in BOOLEAN
  /\ waiting_queue_ \in Seq(Op) /\ ready_queue_ \in Seq(Op)
  /\ invokers \in Nat
  /\ fresh \subseteq Op

(***************************************************************************)
(* There is one invoker as long as the strand is locked, in a thread or in *)
(* the inner executor, and none when it is not.  The object that           *)
(* io_context::strand posts is linked into the scheduler's queue, and must *)
(* never be there twice; ready_queue_ is used without a lock.              *)
(***************************************************************************)
OneInvoker ==
  /\ \A t, u \in Thread : pc[t] # "idle" /\ pc[u] # "idle" => t = u
  /\ invokers \in {0, 1}
  /\ invokers = 1 => \A t \in Thread : pc[t] = "idle"
  /\ ~shutdown_ => (locked_ <=> invokers = 1 \/ \E t \in Thread : pc[t] # "idle")

(***************************************************************************)
(* The strand is a serial queue: handlers never run at the same time, and  *)
(* they start in the order in which they entered the strand, although they *)
(* go through two queues and, while the strand is being locked, through    *)
(* the thread that locks it.  None is lost before shutdown.                *)
(***************************************************************************)
Pushing ==
  IF \E t \in Thread : pc[t] = "push"
  THEN arg[CHOOSE t \in Thread : pc[t] = "push"]
  ELSE <<>>

Abstract ==
  INSTANCE SerialQueue WITH queue <- Pushing \o ready_queue_ \o waiting_queue_, closed <- shutdown_

IsSerialQueue == Abstract!Spec

(***************************************************************************)
(* Every handler that was accepted is run, unless the execution context is *)
(* shut down: the strand is never left locked with nobody to run it.       *)
(***************************************************************************)
Pending(op) == \E q \in {Pushing, ready_queue_, waiting_queue_} : \E i \in DOMAIN q : q[i] = op

InHandler(op) == \E t \in Thread : \E i \in DOMAIN frames[t] : frames[t][i] = op

AcceptedIsRun == \A op \in Op : Pending(op) ~> (InHandler(op) \/ shutdown_)
=============================================================================
