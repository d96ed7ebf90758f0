----------------------------- MODULE StrandProofs -----------------------------
(***************************************************************************)
(* Proofs about Strand, for any set of threads and handlers: there is one  *)
(* invoker of a locked strand, and the strand is a serial queue.           *)
(***************************************************************************)
EXTENDS Strand, SequenceTheorems, TLAPS

(***************************************************************************)
(* The protocol around locked_.  OneInvoker alone is not inductive: that   *)
(* nobody who is not in a handler has frames, that an unlocked strand is   *)
(* empty, that ready_queue_ is empty when locked_ has just been taken, and *)
(* that nothing is left after shutdown, is what the steps rely on.         *)
(***************************************************************************)
Protocol ==
  /\ OneInvoker
  /\ \A t \in Thread : frames[t] # <<>> <=> pc[t] = "handler"
  /\ \A t \in Thread : pc[t] = "push" => ready_queue_ = <<>>
  /\ ~locked_ => ready_queue_ = <<>> /\ waiting_queue_ = <<>>
  /\ shutdown_ => /\ service = "strand_executor_service"
                  /\ \A t \in Thread : pc[t] = "idle"
                  /\ invokers = 0
                  /\ ready_queue_ = <<>> /\ waiting_queue_ = <<>>

IInv == TypeOK /\ Protocol

-----------------------------------------------------------------------------
\* Popping the innermost of a thread's frames leaves a sequence of handlers.
LEMMA Pop ==
  ASSUME NEW s \in Seq(Op), s # <<>>
  PROVE  /\ SubSeq(s, 1, Len(s) - 1) \in Seq(Op)
         /\ SubSeq(s, 1, Len(s) - 1) = <<>> <=> Len(s) = 1
<1>1. Len(s) \in Nat \ {0}
  BY EmptySeq
<1>2. \A i \in 1 .. Len(s) - 1 : s[i] \in Op
  BY <1>1
<1>3. /\ SubSeq(s, 1, Len(s) - 1) \in Seq(Op)
      /\ Len(SubSeq(s, 1, Len(s) - 1)) = IF 1 <= Len(s) - 1 THEN Len(s) - 1 ELSE 0
  <2>1. Len(s) - 1 \in Int /\ 1 \in Int
    BY <1>1
  <2>2. Len(s) - 1 - 1 + 1 = Len(s) - 1
    BY <1>1
  <2>3. QED
    BY <1>2, <2>1, <2>2, SubSeqProperties
<1>4. SubSeq(s, 1, Len(s) - 1) = <<>> <=> Len(SubSeq(s, 1, Len(s) - 1)) = 0
  BY <1>3, EmptySeq
<1>5. CASE Len(s) = 1
  <2>1. Len(SubSeq(s, 1, Len(s) - 1)) = 0
    BY <1>3, <1>5
  <2>2. QED
    BY <1>3, <1>4, <1>5, <2>1
<1>6. CASE Len(s) # 1
  <2>0. \A n \in Nat \ {0} : n # 1 => 1 <= n - 1 /\ n - 1 # 0
    OBVIOUS
  <2>1. 1 <= Len(s) - 1 /\ Len(s) - 1 # 0
    BY <1>1, <1>6, <2>0
  <2>2. Len(SubSeq(s, 1, Len(s) - 1)) = Len(s) - 1
    BY <1>3, <2>1
  <2>3. QED
    BY <1>3, <1>4, <1>6, <2>1, <2>2
<1>7. QED
  BY <1>5, <1>6

\* The values of the variables stay in their types, whatever the step.
LEMMA TypeStep == TypeOK /\ Protocol /\ [Next]_vars => TypeOK'
<1> SUFFICES ASSUME TypeOK, Protocol, [Next]_vars PROVE TypeOK'
  OBVIOUS
<1> USE DEF TypeOK
<1>0. <<>> \in Seq(Op)
  OBVIOUS
<1>1. ASSUME NEW t \in Thread, NEW op \in Op, NEW b \in BOOLEAN, op \in fresh, fresh' = fresh \ {op},
             enqueue(t, op, b)
      PROVE  TypeOK'
  <2>1. <<op>> \in Seq(Op)
    OBVIOUS
  <2>2. Append(waiting_queue_, op) \in Seq(Op)
    BY AppendProperties
  <2>3. QED
    BY <1>1, <2>1, <2>2 DEF enqueue
<1>2. ASSUME NEW t \in Thread, NEW op \in Op, dispatch(t, op) PROVE TypeOK'
  <2>1. CASE running_in_this_thread(t) /\ frames' = [frames EXCEPT ![t] = Append(@, op)]
    <3>1. Append(frames[t], op) \in Seq(Op)
      BY AppendProperties
    <3>2. UNCHANGED <<pc, arg, may_block, strandVars, invokers>>
      BY <1>2, <2>1 DEF dispatch
    <3>3. QED
      BY <1>2, <2>1, <3>1, <3>2 DEF dispatch, strandVars
  <2>2. CASE ~running_in_this_thread(t) /\ enqueue(t, op, service = "strand_executor_service")
    <3>1. (service = "strand_executor_service") \in BOOLEAN
      OBVIOUS
    <3>2. op \in fresh /\ fresh' = fresh \ {op}
      BY <1>2 DEF dispatch
    <3>3. QED
      BY <1>1, <2>2, <3>1, <3>2
  <2>3. CASE ~running_in_this_thread(t) /\ do_dispatch(t, op)
    <3>1. <<op>> \in Seq(Op)
      OBVIOUS
    <3>2. QED
      BY <1>2, <2>3, <3>1 DEF dispatch, do_dispatch
  <2>4. QED
    BY <1>2, <2>1, <2>2, <2>3 DEF dispatch
<1>3. ASSUME NEW t \in Thread, NEW op \in Op, post(t, op) PROVE TypeOK'
  BY <1>1, <1>3 DEF post
<1>4. ASSUME NEW t \in Thread, invoke(t) PROVE TypeOK'
  BY <1>4 DEF invoke, strandVars
<1>5. ASSUME NEW t \in Thread, push(t) PROVE TypeOK'
  <2>1. ready_queue_ \o arg[t] \in Seq(Op)
    BY ConcatProperties
  <2>2. QED
    BY <1>0, <1>5, <2>1 DEF push
<1>6. ASSUME NEW t \in Thread, submit(t) PROVE TypeOK'
  <2>1. invokers' \in Nat
    BY <1>6 DEF submit
  <2>2. pc' \in [Thread -> {"idle", "push", "submit", "run", "handler", "exit", "repost"}]
    BY <1>6 DEF submit
  <2>3. QED
    BY <1>6, <2>1, <2>2 DEF submit, strandVars
<1>7. ASSUME NEW t \in Thread, run_ready_handlers(t) PROVE TypeOK'
  <2>1. ready_queue_ # <<>> => <<Head(ready_queue_)>> \in Seq(Op) /\ Tail(ready_queue_) \in Seq(Op)
    BY HeadTailProperties
  <2>2. QED
    BY <1>7, <2>1 DEF run_ready_handlers
<1>8. ASSUME NEW t \in Thread, complete(t) PROVE TypeOK'
  <2>1. frames[t] # <<>>
    BY <1>8 DEF complete, Protocol
  <2>2. SubSeq(frames[t], 1, Len(frames[t]) - 1) \in Seq(Op)
    BY <2>1, Pop
  <2>3. QED
    BY <1>8, <2>2 DEF complete, strandVars
<1>9. ASSUME NEW t \in Thread, throw(t) PROVE TypeOK'
  BY <1>0, <1>9 DEF throw, strandVars
<1>10. ASSUME NEW t \in Thread, push_waiting_to_ready(t) PROVE TypeOK'
  <2>1. ready_queue_ \o waiting_queue_ \in Seq(Op)
    BY ConcatProperties
  <2>2. QED
    BY <1>0, <1>10, <2>1 DEF push_waiting_to_ready
<1>11. ASSUME NEW t \in Thread, repost(t) PROVE TypeOK'
  BY <1>11 DEF repost, strandVars
<1>12. CASE shutdown
  BY <1>0, <1>12 DEF shutdown
<1>13. CASE UNCHANGED vars
  BY <1>13 DEF vars, strandVars
<1>14. QED
  BY <1>2, <1>3, <1>4, <1>5, <1>6, <1>7, <1>8, <1>9, <1>10, <1>11, <1>12, <1>13 DEF Next, GoesOn

-----------------------------------------------------------------------------
\* Only a thread that holds the invoker takes one of its steps, so locked_ is set and nobody else does.
LEMMA Holder ==
  ASSUME TypeOK, Protocol, NEW t \in Thread, pc[t] # "idle"
  PROVE  /\ locked_ /\ ~shutdown_ /\ invokers = 0
         /\ \A u \in Thread : u # t => pc[u] = "idle" /\ frames[u] = <<>>
  BY DEF TypeOK, Protocol, OneInvoker

\* A handler that is submitted waits, or is in the hands of the thread that locks the strand.
LEMMA EnqueueStep ==
  ASSUME TypeOK, Protocol, NEW t \in Thread, NEW op \in Op, NEW b \in BOOLEAN,
         Free(t), enqueue(t, op, b)
  PROVE  Protocol'
<1> USE DEF TypeOK
<1>1. CASE shutdown_
  BY <1>1 DEF enqueue, Protocol, OneInvoker
<1>2. CASE ~shutdown_ /\ locked_
  <2>1. UNCHANGED <<pc, frames, locked_, service, shutdown_, ready_queue_, invokers>>
    BY <1>2 DEF enqueue
  <2>2. QED
    BY <1>2, <2>1 DEF Protocol, OneInvoker
<1>3. CASE ~shutdown_ /\ ~locked_
  <2>1. /\ invokers = 0 /\ ready_queue_ = <<>> /\ waiting_queue_ = <<>>
        /\ \A u \in Thread : pc[u] = "idle" /\ frames[u] = <<>>
    BY <1>3 DEF Protocol, OneInvoker
  <2>2. /\ locked_' = TRUE
        /\ pc' = [pc EXCEPT ![t] = "push"]
        /\ UNCHANGED <<frames, service, shutdown_, ready_queue_, waiting_queue_, invokers>>
    BY <1>3 DEF enqueue
  <2>3. \A u \in Thread : pc'[u] # "idle" <=> u = t
    BY <2>1, <2>2
  <2>4. OneInvoker'
    BY <1>3, <2>1, <2>2, <2>3 DEF OneInvoker
  <2>5. QED
    BY <1>3, <2>1, <2>2, <2>3, <2>4 DEF Protocol
<1>4. QED
  BY <1>1, <1>2, <1>3

\* Every step keeps the protocol.
LEMMA ProtocolStep == TypeOK /\ Protocol /\ [Next]_vars => Protocol'
<1> SUFFICES ASSUME TypeOK, Protocol, [Next]_vars PROVE Protocol'
  OBVIOUS
<1> USE DEF TypeOK
<1>1. ASSUME NEW t \in Thread, NEW op \in Op, dispatch(t, op) PROVE Protocol'
  <2>1. CASE running_in_this_thread(t)
    <3>1. pc[t] = "handler" /\ Append(frames[t], op) # <<>>
      BY <2>1, AppendProperties DEF Protocol, running_in_this_thread
    <3>2. /\ frames' = [frames EXCEPT ![t] = Append(@, op)]
          /\ UNCHANGED <<pc, locked_, service, shutdown_, waiting_queue_, ready_queue_, invokers>>
      BY <1>1, <2>1 DEF dispatch, strandVars
    <3>3. OneInvoker'
      BY <3>2 DEF Protocol, OneInvoker
    <3>4. QED
      BY <3>1, <3>2, <3>3 DEF Protocol
  <2>2. CASE ~running_in_this_thread(t) /\ enqueue(t, op, service = "strand_executor_service")
    <3>1. (service = "strand_executor_service") \in BOOLEAN
      OBVIOUS
    <3>2. Free(t)
      BY <1>1 DEF dispatch
    <3>3. QED
      BY <2>2, <3>1, <3>2, EnqueueStep
  <2>3. CASE do_dispatch(t, op) /\ service = "strand_service"
    <3>1. /\ pc' = [pc EXCEPT ![t] = "handler"]
          /\ frames' = [frames EXCEPT ![t] = <<op>>]
          /\ locked_' = TRUE
          /\ UNCHANGED <<service, shutdown_, waiting_queue_, ready_queue_, invokers>>
      BY <2>3 DEF do_dispatch
    <3>2. /\ invokers = 0 /\ ready_queue_ = <<>> /\ waiting_queue_ = <<>>
          /\ \A u \in Thread : pc[u] = "idle" /\ frames[u] = <<>>
          /\ ~shutdown_
      BY <2>3 DEF do_dispatch, Protocol, OneInvoker
    <3>3. \A u \in Thread : pc'[u] # "idle" <=> u = t
      BY <3>1, <3>2
    <3>4. OneInvoker'
      BY <3>1, <3>2, <3>3 DEF OneInvoker
    <3>5. \A u \in Thread : frames'[u] # <<>> <=> pc'[u] = "handler"
      BY <3>1, <3>2
    <3>6. \A u \in Thread : pc'[u] # "push"
      BY <3>1, <3>2
    <3>7. QED
      BY <3>1, <3>2, <3>4, <3>5, <3>6 DEF Protocol
  <2>4. QED
    BY <1>1, <2>1, <2>2, <2>3 DEF dispatch
<1>2. ASSUME NEW t \in Thread, NEW op \in Op, post(t, op) PROVE Protocol'
  BY <1>2, EnqueueStep DEF post
<1>3. ASSUME NEW t \in Thread, invoke(t) PROVE Protocol'
  <2>1. invokers = 1 /\ invokers' = 0 /\ ~shutdown_ /\ locked_
    BY <1>3 DEF invoke, Protocol, OneInvoker
  <2>2. \A u \in Thread : pc[u] = "idle" /\ frames[u] = <<>>
    BY <2>1 DEF Protocol, OneInvoker
  <2>3. /\ pc' = [pc EXCEPT ![t] = "run"]
        /\ UNCHANGED <<frames, locked_, service, shutdown_, waiting_queue_, ready_queue_>>
    BY <1>3 DEF invoke, strandVars
  <2>4. QED
    BY <2>1, <2>2, <2>3 DEF Protocol, OneInvoker
<1>4. ASSUME NEW t \in Thread, push(t) PROVE Protocol'
  <2>1. pc[t] # "idle"
    BY <1>4 DEF push
  <2>2. QED
    BY <1>4, <2>1, Holder DEF push, Protocol, OneInvoker
<1>5. ASSUME NEW t \in Thread, submit(t) PROVE Protocol'
  <2>1. pc[t] # "idle"
    BY <1>5 DEF submit
  <2>2. CASE invokers' = invokers + 1 /\ pc' = [pc EXCEPT ![t] = "idle"]
    BY <1>5, <2>1, <2>2, Holder DEF submit, Protocol, OneInvoker, strandVars
  <2>3. CASE invokers' = invokers /\ pc' = [pc EXCEPT ![t] = "run"]
    BY <1>5, <2>1, <2>3, Holder DEF submit, Protocol, OneInvoker, strandVars
  <2>4. QED
    BY <1>5, <2>2, <2>3 DEF submit
<1>6. ASSUME NEW t \in Thread, run_ready_handlers(t) PROVE Protocol'
  <2>1. pc[t] # "idle"
    BY <1>6 DEF run_ready_handlers
  <2>2. /\ locked_ /\ ~shutdown_ /\ invokers = 0
        /\ \A u \in Thread : u # t => pc[u] = "idle" /\ frames[u] = <<>>
    BY <2>1, Holder
  <2>3. CASE ready_queue_ # <<>>
    <3>1. /\ pc' = [pc EXCEPT ![t] = "handler"]
          /\ frames' = [frames EXCEPT ![t] = <<Head(ready_queue_)>>]
          /\ UNCHANGED <<locked_, service, shutdown_, waiting_queue_, invokers>>
      BY <1>6, <2>3 DEF run_ready_handlers
    <3>2. <<Head(ready_queue_)>> # <<>>
      OBVIOUS
    <3>3. OneInvoker'
      BY <2>2, <3>1 DEF OneInvoker
    <3>4. QED
      BY <2>2, <3>1, <3>2, <3>3 DEF Protocol
  <2>4. CASE ready_queue_ = <<>>
    BY <1>6, <2>2, <2>4 DEF run_ready_handlers, Protocol, OneInvoker
  <2>5. QED
    BY <2>3, <2>4
<1>7. ASSUME NEW t \in Thread, complete(t) PROVE Protocol'
  <2>1. pc[t] # "idle" /\ frames[t] # <<>>
    BY <1>7 DEF complete, Protocol
  <2>2. frames'[t] = <<>> <=> Len(frames[t]) = 1
    BY <1>7, <2>1, Pop DEF complete
  <2>3. pc'[t] = IF Len(frames[t]) = 1 THEN "run" ELSE "handler"
    BY <1>7 DEF complete
  <2>4. /\ \A u \in Thread : u # t => pc'[u] = pc[u] /\ frames'[u] = frames[u]
        /\ UNCHANGED <<locked_, service, shutdown_, waiting_queue_, ready_queue_, invokers>>
    BY <1>7 DEF complete, strandVars
  <2>5. pc'[t] # "idle" /\ pc'[t] # "push" /\ (frames'[t] # <<>> <=> pc'[t] = "handler")
    <3>1. CASE Len(frames[t]) = 1
      BY <2>2, <2>3, <3>1
    <3>2. CASE Len(frames[t]) # 1
      BY <2>2, <2>3, <3>2
    <3>3. QED
      BY <3>1, <3>2
  <2>6. /\ locked_ /\ ~shutdown_ /\ invokers = 0
        /\ \A u \in Thread : u # t => pc[u] = "idle" /\ frames[u] = <<>>
    BY <2>1, Holder
  <2>7. OneInvoker'
    BY <2>4, <2>5, <2>6 DEF OneInvoker
  <2>8. QED
    BY <2>4, <2>5, <2>6, <2>7 DEF Protocol
<1>8. ASSUME NEW t \in Thread, throw(t) PROVE Protocol'
  <2>1. pc[t] # "idle"
    BY <1>8 DEF throw
  <2>2. QED
    BY <1>8, <2>1, Holder DEF throw, Protocol, OneInvoker, strandVars
<1>9. ASSUME NEW t \in Thread, push_waiting_to_ready(t) PROVE Protocol'
  <2>1. pc[t] # "idle" /\ frames[t] = <<>>
    BY <1>9 DEF push_waiting_to_ready, Protocol
  <2>2. CASE ready_queue_' # <<>>
    BY <1>9, <2>1, <2>2, Holder DEF push_waiting_to_ready, Protocol, OneInvoker
  <2>3. CASE ready_queue_' = <<>>
    BY <1>9, <2>1, <2>3, Holder DEF push_waiting_to_ready, Protocol, OneInvoker
  <2>4. QED
    BY <2>2, <2>3
<1>10. ASSUME NEW t \in Thread, repost(t) PROVE Protocol'
  <2>1. pc[t] # "idle"
    BY <1>10 DEF repost
  <2>2. QED
    BY <1>10, <2>1, Holder DEF repost, Protocol, OneInvoker, strandVars
<1>11. CASE shutdown
  BY <1>11 DEF shutdown, Protocol, OneInvoker
<1>12. CASE UNCHANGED vars
  BY <1>12 DEF vars, strandVars, Protocol, OneInvoker
<1>13. QED
  BY <1>1, <1>2, <1>3, <1>4, <1>5, <1>6, <1>7, <1>8, <1>9, <1>10, <1>11, <1>12 DEF Next, GoesOn

\* The strand is empty and unlocked to begin with.
LEMMA InitInv == Init => IInv
<1>1. <<>> \in Seq(Op)
  OBVIOUS
<1>2. ASSUME Init PROVE TypeOK
  <2>1. may_block \in [Thread -> BOOLEAN] /\ locked_ \in BOOLEAN /\ shutdown_ \in BOOLEAN
    BY <1>2, Zenon DEF Init
  <2>2. arg \in [Thread -> Seq(Op)] /\ frames \in [Thread -> Seq(Op)]
    BY <1>1, <1>2, Zenon DEF Init
  <2>3. QED
    BY <1>1, <1>2, <2>1, <2>2 DEF Init, TypeOK
<1>3. Init => OneInvoker
  BY DEF Init, OneInvoker
<1>4. Init => Protocol
  BY <1>3 DEF Init, Protocol
<1>5. QED
  BY <1>2, <1>4 DEF IInv

(***************************************************************************)
(* A locked strand has one invoker, held by one thread or waiting in the   *)
(* inner executor: its unprotected ready_queue_ is never used by two       *)
(* threads, and no invoker is posted twice or lost.                        *)
(***************************************************************************)
THEOREM OneInvokerHolds == Spec => []OneInvoker
<1>1. Init => IInv
  BY InitInv
<1>2. IInv /\ [Next]_vars => IInv'
  BY TypeStep, ProtocolStep DEF IInv
<1>3. IInv => OneInvoker
  BY DEF IInv, Protocol
<1>4. QED
  BY <1>1, <1>2, <1>3, PTL DEF Spec

-----------------------------------------------------------------------------
Queue == Pushing \o ready_queue_ \o waiting_queue_

\* Facts about sequences that the refinement uses.
LEMMA ConcatAppend ==
  ASSUME NEW s \in Seq(Op), NEW w \in Seq(Op), NEW e \in Op
  PROVE  s \o Append(w, e) = Append(s \o w, e)
<1>1. <<e>> \in Seq(Op) /\ s \o w \in Seq(Op)
  BY ConcatProperties
<1>2. Append(w, e) = w \o <<e>>
  BY AppendIsConcat
<1>3. s \o (w \o <<e>>) = (s \o w) \o <<e>>
  BY <1>1, ConcatAssociative
<1>4. (s \o w) \o <<e>> = Append(s \o w, e)
  BY <1>1, AppendIsConcat
<1>5. QED
  BY <1>2, <1>3, <1>4

LEMMA ConcatHeadTail ==
  ASSUME NEW s \in Seq(Op), NEW w \in Seq(Op), s # <<>>
  PROVE  /\ s \o w # <<>>
         /\ Head(s \o w) = Head(s)
         /\ Tail(s \o w) = Tail(s) \o w
<1>1. s \o w \in Seq(Op) /\ s \o w # <<>>
  BY ConcatProperties, ConcatEqualIffEmpty
<1>2. Len(s) \in Nat \ {0} /\ Len(w) \in Nat /\ Len(s \o w) = Len(s) + Len(w)
  BY EmptySeq, ConcatProperties
<1>3. Head(s \o w) = Head(s)
  <2>1. (s \o w)[1] = s[1]
    BY <1>2, ConcatProperties
  <2>2. QED
    BY <2>1
<1>4. Tail(s \o w) = Tail(s) \o w
  BY <1>1, <1>2
<1>5. QED
  BY <1>1, <1>3, <1>4

\* Pushing is what the one thread that locks the strand has in its hands.
PushingOK ==
  /\ Pushing \in Seq(Op)
  /\ (\A t \in Thread : pc[t] # "push") => Pushing = <<>>
  /\ \A t \in Thread : pc[t] = "push" => Pushing = arg[t]

LEMMA PushingValue == IInv => PushingOK
<1> SUFFICES ASSUME TypeOK, Protocol PROVE PushingOK
  BY DEF IInv
<1> USE DEF PushingOK
<1>1. CASE \E t \in Thread : pc[t] = "push"
  <2>1. PICK t \in Thread : pc[t] = "push"
    BY <1>1
  <2>2. \A u \in Thread : pc[u] = "push" => u = t
    BY <2>1 DEF Protocol, OneInvoker
  <2>3. (CHOOSE u \in Thread : pc[u] = "push") = t
    BY <2>1, <2>2
  <2>4. Pushing = arg[t]
    BY <1>1, <2>3 DEF Pushing
  <2>5. QED
    BY <2>1, <2>2, <2>4 DEF TypeOK
<1>2. CASE \A t \in Thread : pc[t] # "push"
  <2>1. Pushing = <<>>
    BY <1>2 DEF Pushing
  <2>2. <<>> \in Seq(Op)
    OBVIOUS
  <2>3. QED
    BY <1>2, <2>1, <2>2
<1>3. QED
  BY <1>1, <1>2

\* A handler that enters the strand is appended to the abstract queue.
LEMMA EnqueueRefines ==
  ASSUME IInv, PushingOK, PushingOK', NEW t \in Thread, NEW op \in Op, NEW b \in BOOLEAN,
         Free(t), enqueue(t, op, b)
  PROVE  Abstract!Submit(op) \/ UNCHANGED Abstract!vars
<1> USE DEF IInv, TypeOK, PushingOK
<1>1. UNCHANGED <<frames, shutdown_>>
  BY DEF enqueue
<1>2. CASE shutdown_
  <2>1. UNCHANGED <<pc, arg, ready_queue_, waiting_queue_>>
    BY <1>2 DEF enqueue
  <2>2. Pushing' = Pushing
    BY <2>1 DEF Pushing
  <2>3. QED
    BY <1>1, <2>1, <2>2 DEF Abstract!vars
<1>3. CASE ~shutdown_ /\ locked_
  <2>1. UNCHANGED <<pc, arg, ready_queue_>> /\ waiting_queue_' = Append(waiting_queue_, op)
    BY <1>3 DEF enqueue
  <2>2. Pushing' = Pushing
    BY <2>1 DEF Pushing
  <2>3. Pushing \o ready_queue_ \in Seq(Op)
    BY ConcatProperties
  <2>4. (Pushing \o ready_queue_) \o Append(waiting_queue_, op)
        = Append((Pushing \o ready_queue_) \o waiting_queue_, op)
    BY <2>3, ConcatAppend
  <2>5. QED
    BY <1>1, <1>3, <2>1, <2>2, <2>4 DEF Abstract!Submit
<1>4. CASE ~shutdown_ /\ ~locked_
  <2>1. \A u \in Thread : pc[u] # "push"
    BY <1>4 DEF Protocol, OneInvoker
  <2>2. Pushing = <<>> /\ ready_queue_ = <<>> /\ waiting_queue_ = <<>>
    BY <1>4, <2>1 DEF Protocol
  <2>3. pc'[t] = "push" /\ arg'[t] = <<op>> /\ ready_queue_' = <<>> /\ waiting_queue_' = <<>>
    BY <1>4, <2>2 DEF enqueue
  <2>4. Pushing' = <<op>>
    BY <2>3
  <2>5. (<<op>> \o <<>>) \o <<>> = Append((<<>> \o <<>>) \o <<>>, op)
    <3>1. <<op>> \in Seq(Op) /\ <<>> \in Seq(Op)
      OBVIOUS
    <3>2. <<op>> \o <<>> = <<op>> /\ <<>> \o <<>> = <<>>
      BY <3>1, ConcatEmptySeq
    <3>3. Append(<<>>, op) = <<op>>
      OBVIOUS
    <3>4. QED
      BY <3>2, <3>3
  <2>6. QED
    BY <1>1, <1>4, <2>2, <2>3, <2>4, <2>5 DEF Abstract!Submit
<1>5. QED
  BY <1>2, <1>3, <1>4

\* When nobody is in a handler of the strand, the abstract queue may start one.
LEMMA NobodyRuns ==
  ASSUME IInv, NEW t \in Thread, \A u \in Thread : u # t => pc[u] = "idle", pc[t] # "handler"
  PROVE  Abstract!Nobody
  BY DEF IInv, TypeOK, Protocol, Abstract!Nobody

\* Every step of the strand is a step of the serial queue, or leaves it as it is.
LEMMA StepRefines ==
  IInv /\ PushingOK /\ PushingOK' /\ [Next]_vars => [Abstract!Next]_Abstract!vars
<1> SUFFICES ASSUME IInv, PushingOK, PushingOK', [Next]_vars
             PROVE  Abstract!Next \/ UNCHANGED Abstract!vars
  OBVIOUS
<1> USE DEF IInv, TypeOK, PushingOK
<1>0. ASSUME UNCHANGED <<Queue, frames, shutdown_>> PROVE UNCHANGED Abstract!vars
  BY <1>0 DEF Queue, Abstract!vars
<1>1. ASSUME NEW t \in Thread, NEW op \in Op, dispatch(t, op)
      PROVE  Abstract!Next \/ UNCHANGED Abstract!vars
  <2>1. CASE running_in_this_thread(t)
    <3>1. /\ frames' = [frames EXCEPT ![t] = Append(@, op)]
          /\ UNCHANGED <<pc, arg, shutdown_, ready_queue_, waiting_queue_>>
      BY <1>1, <2>1 DEF dispatch, strandVars
    <3>2. Pushing' = Pushing
      BY <3>1 DEF Pushing
    <3>3. Abstract!Nest(t, op)
      BY <2>1, <3>1, <3>2 DEF Abstract!Nest, running_in_this_thread
    <3>4. QED
      BY <3>3 DEF Abstract!Next
  <2>2. CASE enqueue(t, op, service = "strand_executor_service")
    <3>1. (service = "strand_executor_service") \in BOOLEAN
      OBVIOUS
    <3>2. Abstract!Submit(op) \/ UNCHANGED Abstract!vars
      BY <1>1, <2>2, <3>1, EnqueueRefines DEF dispatch
    <3>3. QED
      BY <3>2 DEF Abstract!Next
  <2>3. CASE do_dispatch(t, op) /\ service = "strand_service"
    <3>1. /\ pc' = [pc EXCEPT ![t] = "handler"]
          /\ frames' = [frames EXCEPT ![t] = <<op>>]
          /\ UNCHANGED <<shutdown_, waiting_queue_, ready_queue_>>
      BY <2>3 DEF do_dispatch
    <3>2. /\ ~shutdown_ /\ ready_queue_ = <<>> /\ waiting_queue_ = <<>>
          /\ \A u \in Thread : pc[u] = "idle" /\ frames[u] = <<>>
      BY <2>3 DEF do_dispatch, Protocol, OneInvoker
    <3>3. \A u \in Thread : pc[u] # "push" /\ pc'[u] # "push"
      BY <3>1, <3>2
    <3>4. Pushing = <<>> /\ Pushing' = <<>>
      BY <3>3
    <3>5. (<<>> \o <<>>) \o <<>> = <<>>
      OBVIOUS
    <3>6. Abstract!StartNow(t, op)
      BY <3>1, <3>2, <3>4, <3>5 DEF Abstract!StartNow, Abstract!Nobody
    <3>7. QED
      BY <3>6 DEF Abstract!Next
  <2>4. QED
    BY <1>1, <2>1, <2>2, <2>3 DEF dispatch
<1>2. ASSUME NEW t \in Thread, NEW op \in Op, post(t, op)
      PROVE  Abstract!Next \/ UNCHANGED Abstract!vars
  <2>1. Abstract!Submit(op) \/ UNCHANGED Abstract!vars
    BY <1>2, EnqueueRefines DEF post
  <2>2. QED
    BY <2>1 DEF Abstract!Next
<1>3. ASSUME NEW t \in Thread, push(t) PROVE UNCHANGED Abstract!vars
  <2>1. pc[t] = "push" /\ ready_queue_ = <<>>
    BY <1>3 DEF push, Protocol
  <2>2. /\ \A u \in Thread : pc'[u] # "push"
        /\ ready_queue_' = ready_queue_ \o arg[t]
        /\ UNCHANGED <<frames, shutdown_, waiting_queue_>>
    BY <1>3, <2>1, Holder DEF push
  <2>3. Pushing = arg[t] /\ Pushing' = <<>>
    BY <2>1, <2>2
  <2>4. <<>> \o (<<>> \o arg[t]) = arg[t] \o <<>>
    BY ConcatEmptySeq
  <2>5. QED
    BY <1>0, <2>1, <2>2, <2>3, <2>4 DEF Queue
<1>4. ASSUME NEW t \in Thread, submit(t) \/ invoke(t) \/ repost(t) PROVE UNCHANGED Abstract!vars
  <2>1. /\ \A u \in Thread : pc'[u] = "push" <=> pc[u] = "push"
        /\ UNCHANGED <<arg, frames, shutdown_, ready_queue_, waiting_queue_>>
    BY <1>4 DEF submit, invoke, repost, strandVars
  <2>2. CASE \A u \in Thread : pc[u] # "push"
    <3>1. Pushing' = Pushing
      BY <2>1, <2>2
    <3>2. QED
      BY <1>0, <2>1, <3>1 DEF Queue
  <2>3. CASE \E u \in Thread : pc[u] = "push"
    <3>1. PICK u \in Thread : pc[u] = "push"
      BY <2>3
    <3>2. Pushing' = Pushing
      BY <2>1, <3>1
    <3>3. QED
      BY <1>0, <2>1, <3>2 DEF Queue
  <2>4. QED
    BY <2>2, <2>3
<1>5. ASSUME NEW t \in Thread, pc[t] \in {"run", "handler", "exit"}, pc'[t] # "push",
             \A u \in Thread : u # t => pc'[u] = pc[u]
      PROVE  /\ \A u \in Thread : u # t => pc[u] = "idle" /\ frames[u] = <<>>
             /\ Pushing = <<>> /\ Pushing' = <<>>
  <2>1. \A u \in Thread : u # t => pc[u] = "idle" /\ frames[u] = <<>>
    BY <1>5, Holder
  <2>2. \A u \in Thread : pc[u] # "push" /\ pc'[u] # "push"
    BY <1>5, <2>1
  <2>3. QED
    BY <2>1, <2>2
<1>6. ASSUME NEW t \in Thread, run_ready_handlers(t)
      PROVE  Abstract!Next \/ UNCHANGED Abstract!vars
  <2>1. Pushing = <<>> /\ Pushing' = <<>> /\ \A u \in Thread : u # t => pc[u] = "idle"
    BY <1>5, <1>6 DEF run_ready_handlers
  <2>2. <<>> \o ready_queue_ = ready_queue_
    BY ConcatEmptySeq
  <2>3. CASE ready_queue_ # <<>>
    <3>1. /\ frames' = [frames EXCEPT ![t] = <<Head(ready_queue_)>>]
          /\ ready_queue_' = Tail(ready_queue_) /\ UNCHANGED <<shutdown_, waiting_queue_>>
      BY <1>6, <2>3 DEF run_ready_handlers
    <3>2. Tail(ready_queue_) \in Seq(Op)
      BY <2>3, HeadTailProperties
    <3>3. <<>> \o Tail(ready_queue_) = Tail(ready_queue_)
      BY <3>2, ConcatEmptySeq
    <3>4. Abstract!Nobody
      BY <1>6, <2>1, NobodyRuns DEF run_ready_handlers
    <3>5. Abstract!Start(t)
      BY <2>1, <2>2, <2>3, <3>1, <3>3, <3>4, ConcatHeadTail DEF Abstract!Start
    <3>6. QED
      BY <3>5 DEF Abstract!Next
  <2>4. CASE ready_queue_ = <<>>
    <3>1. UNCHANGED <<frames, shutdown_, ready_queue_, waiting_queue_>>
      BY <1>6, <2>4 DEF run_ready_handlers
    <3>2. QED
      BY <1>0, <2>1, <3>1 DEF Queue
  <2>5. QED
    BY <2>3, <2>4
<1>7. ASSUME NEW t \in Thread, complete(t) \/ throw(t)
      PROVE  Abstract!Next \/ UNCHANGED Abstract!vars
  <2>1. pc[t] = "handler" /\ pc'[t] # "push" /\ \A u \in Thread : u # t => pc'[u] = pc[u]
    BY <1>7 DEF complete, throw
  <2>2. Pushing' = Pushing
    BY <1>5, <2>1
  <2>3. frames[t] # <<>> /\ UNCHANGED <<shutdown_, ready_queue_, waiting_queue_>>
    BY <1>7, <2>1 DEF complete, throw, strandVars, Protocol
  <2>4. CASE complete(t)
    <3>1. Abstract!Finish(t)
      BY <2>2, <2>3, <2>4 DEF Abstract!Finish, complete
    <3>2. QED
      BY <3>1 DEF Abstract!Next
  <2>5. CASE throw(t)
    <3>1. Abstract!Throw(t)
      BY <2>2, <2>3, <2>5 DEF Abstract!Throw, throw
    <3>2. QED
      BY <3>1 DEF Abstract!Next
  <2>6. QED
    BY <1>7, <2>4, <2>5
<1>8. ASSUME NEW t \in Thread, push_waiting_to_ready(t) PROVE UNCHANGED Abstract!vars
  <2>1. pc[t] = "exit" /\ pc'[t] # "push" /\ \A u \in Thread : u # t => pc'[u] = pc[u]
    BY <1>8 DEF push_waiting_to_ready
  <2>2. Pushing = <<>> /\ Pushing' = <<>>
    BY <1>5, <2>1
  <2>3. /\ ready_queue_' = ready_queue_ \o waiting_queue_ /\ waiting_queue_' = <<>>
        /\ UNCHANGED <<frames, shutdown_>>
    BY <1>8 DEF push_waiting_to_ready
  <2>4. ready_queue_ \o waiting_queue_ \in Seq(Op)
    BY ConcatProperties
  <2>5. (<<>> \o (ready_queue_ \o waiting_queue_)) \o <<>> = (<<>> \o ready_queue_) \o waiting_queue_
    BY <2>4, ConcatEmptySeq
  <2>6. QED
    BY <1>0, <2>2, <2>3, <2>5 DEF Queue
<1>9. CASE shutdown
  <2>1. \A u \in Thread : pc[u] = "idle" /\ frames[u] = <<>>
    BY <1>9 DEF shutdown, Protocol
  <2>2. /\ UNCHANGED <<pc, frames>> /\ ready_queue_' = <<>> /\ waiting_queue_' = <<>>
        /\ ~shutdown_ /\ shutdown_' = TRUE
    BY <1>9 DEF shutdown
  <2>3. Pushing' = <<>>
    BY <2>1, <2>2
  <2>4. (<<>> \o <<>>) \o <<>> = <<>>
    OBVIOUS
  <2>5. Abstract!Close
    BY <2>1, <2>2, <2>3, <2>4 DEF Abstract!Close, Abstract!Nobody
  <2>6. QED
    BY <2>5 DEF Abstract!Next
<1>10. CASE UNCHANGED vars
  <2>1. UNCHANGED <<pc, arg, frames, shutdown_, ready_queue_, waiting_queue_>>
    BY <1>10 DEF vars, strandVars
  <2>2. Pushing' = Pushing
    BY <2>1 DEF Pushing
  <2>3. QED
    BY <1>0, <2>1, <2>2 DEF Queue
<1>11. QED
  BY <1>1, <1>2, <1>3, <1>4, <1>6, <1>7, <1>8, <1>9, <1>10 DEF Next, GoesOn

(***************************************************************************)
(* A strand is a serial queue, for any number of threads and handlers:     *)
(* handlers do not overlap, start in the order in which they entered, and  *)
(* are not lost before shutdown.                                           *)
(***************************************************************************)
THEOREM StrandIsSerialQueue == Spec => IsSerialQueue
<1>1. Init => Abstract!Init
  <2>1. (<<>> \o <<>>) \o <<>> = <<>>
    OBVIOUS
  <2>2. Init => Pushing = <<>>
    BY DEF Init, Pushing
  <2>3. QED
    BY <2>1, <2>2 DEF Init, Abstract!Init
<1>2. Spec => []IInv
  <2>1. Init => IInv
    BY InitInv
  <2>2. IInv /\ [Next]_vars => IInv'
    BY TypeStep, ProtocolStep DEF IInv
  <2>3. QED
    BY <2>1, <2>2, PTL DEF Spec
<1>3. QED
  BY <1>1, <1>2, PushingValue, StepRefines, PTL DEF Spec, IsSerialQueue, Abstract!Spec
=============================================================================
