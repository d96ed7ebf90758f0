----------------------------- MODULE SerialQueue -----------------------------
(***************************************************************************)
(* What a strand promises: handlers run one at a time, in the order in     *)
(* which they were submitted, except that a handler of the strand may run  *)
(* another one inside itself.  Nothing submitted is lost, unless the queue *)
(* is closed for good.                                                     *)
(***************************************************************************)
EXTENDS Naturals, Sequences

CONSTANTS Thread, Op

VARIABLES
  queue,      \* submitted and not started
  frames,     \* per thread, the handlers it is in, the innermost last
  closed      \* handlers are no longer accepted

vars == <<queue, frames, closed>>

Init == queue = <<>> /\ frames = [t \in Thread |-> <<>>] /\ closed = FALSE

Nobody == \A t \in Thread : frames[t] = <<>>

Submit(op) == ~closed /\ queue' = Append(queue, op) /\ UNCHANGED <<frames, closed>>

Start(t) ==
  /\ Nobody
  /\ queue # <<>>
  /\ frames' = [frames EXCEPT ![t] = <<Head(queue)>>]
  /\ queue' = Tail(queue)
  /\ UNCHANGED closed

\* A handler that nothing runs or waits before may run when it is submitted.
StartNow(t, op) ==
  /\ Nobody
  /\ ~closed
  /\ queue = <<>>
  /\ frames' = [frames EXCEPT ![t] = <<op>>]
  /\ UNCHANGED <<queue, closed>>

Nest(t, op) ==
  /\ frames[t] # <<>>
  /\ frames' = [frames EXCEPT ![t] = Append(@, op)]
  /\ UNCHANGED <<queue, closed>>

Finish(t) ==
  /\ frames[t] # <<>>
  /\ frames' = [frames EXCEPT ![t] = SubSeq(@, 1, Len(@) - 1)]
  /\ UNCHANGED <<queue, closed>>

Throw(t) ==
  /\ frames[t] # <<>>
  /\ frames' = [frames EXCEPT ![t] = <<>>]
  /\ UNCHANGED <<queue, closed>>

\* The queue is closed, and what waits in it is dropped.
Close ==
  /\ Nobody
  /\ ~closed
  /\ closed' = TRUE
  /\ queue' = <<>>
  /\ UNCHANGED frames

Next ==
  \/ \E op \in Op : Submit(op)
  \/ \E t \in Thread :
       \/ Start(t) \/ Finish(t) \/ Throw(t)
       \/ \E op \in Op : StartNow(t, op) \/ Nest(t, op)
  \/ Close

Spec == Init /\ [][Next]_vars
=============================================================================
