---------------------------- MODULE ComposedTransfer ----------------------------
(***************************************************************************)
(* asio's async_read and async_write: read_op and write_op, which are the  *)
(* same loop around async_read_some and async_write_some, over a sequence  *)
(* of buffers (consuming_buffers) and with a completion condition.  The    *)
(* server reads its headers and contents, and writes its responses, with   *)
(* them and one buffer.                                                    *)
(*                                                                         *)
(* A slot <<e, o>> is byte o of buffer e.  What has been transferred is    *)
(* the sequence of slots that the stream has filled (a read) or taken (a   *)
(* write), in the order of the stream.                                     *)
(***************************************************************************)
EXTENDS Integers, Sequences

CONSTANTS
  BufferSizes,      \* the sizes of the buffers: a set of sequences
  MaxTransferSize,  \* default_max_transfer_size
  MaxBuffers,       \* the length of prepared_buffers::elems
  Limits            \* arguments of transfer_at_least and transfer_exactly

ASSUME TransferAssumption ==
  /\ BufferSizes \subseteq Seq(Nat)
  /\ MaxTransferSize \in Nat \ {0}
  /\ MaxBuffers \in Nat \ {0}
  /\ Limits \subseteq Nat

VARIABLES
  sizes,             \* the sizes of buffers_
  condition,         \* completion_condition_
  at,                \* start, in a transfer, or the handler was called
  prepared,          \* the slots handed to the stream
  total_consumed_, next_elem_, next_elem_offset_,
  moved,             \* the slots transferred so far
  cancelled,         \* a cancellation was requested
  result             \* the error code the handler was called with

vars == <<sizes, condition, at, prepared, total_consumed_, next_elem_, next_elem_offset_,
          moved, cancelled, result>>

Lesser(a, b) == IF a < b THEN a ELSE b

\* The n slots of buffer e from offset o on.
Slots(e, o, n) == [i \in 1..n |-> <<e, o + i - 1>>]

\* All slots from buffer e on, in order; the size of the sequence.
SlotsFrom ==
  LET from[e \in 0..Len(sizes)] ==
        IF e = Len(sizes) THEN <<>> ELSE Slots(e, 0, sizes[e + 1]) \o from[e + 1]
  IN from
total_size_ == Len(SlotsFrom[0])

Conditions ==
  [kind : {"transfer_all"}, n : {0}] \cup [kind : {"transfer_at_least", "transfer_exactly"}, n : Limits]

Init ==
  /\ sizes \in BufferSizes
  /\ condition \in Conditions
  /\ at = "start"
  /\ prepared = <<>>
  /\ total_consumed_ = 0 /\ next_elem_ = 0 /\ next_elem_offset_ = 0
  /\ moved = <<>>
  /\ cancelled = FALSE
  /\ result = "none"

-----------------------------------------------------------------------------
\* Faulty variant: one more transfer is asked for when the minimum has been reached.
check_for_completion_Strict(error, total) ==
  CASE error -> 0
    [] condition.kind = "transfer_all" -> MaxTransferSize
    [] condition.kind = "transfer_at_least" -> IF total > condition.n THEN 0 ELSE MaxTransferSize
    [] OTHER -> Lesser(condition.n - total, MaxTransferSize)

\* The number of bytes to transfer next; 0 when the operation is complete.
check_for_completion(error, total) ==
  CASE error -> 0
    [] condition.kind = "transfer_all" -> MaxTransferSize
    [] total >= condition.n -> 0
    [] condition.kind = "transfer_at_least" -> MaxTransferSize
    [] OTHER -> Lesser(condition.n - total, MaxTransferSize)

\* Faulty variant: an empty buffer takes up one of the elems.
prepare_CountsEmpty(elem, offset, max_size) ==
  LET take[e \in elem..Len(sizes), m \in 0..max_size, count \in 0..MaxBuffers] ==
        IF e = Len(sizes) \/ m = 0 \/ count = MaxBuffers THEN <<>>
        ELSE LET o == IF e = elem THEN offset ELSE 0
                 n == Lesser(sizes[e + 1] - o, m)
             IN Slots(e, o, n) \o take[e + 1, m - n, count + 1]
  IN take[elem, max_size, 0]

\* Faulty variant: the offset is applied to every buffer, not only to the first.
prepare_KeepsOffset(elem, offset, max_size) ==
  LET take[e \in elem..Len(sizes), m \in 0..max_size, count \in 0..MaxBuffers] ==
        IF e = Len(sizes) \/ m = 0 \/ count = MaxBuffers THEN <<>>
        ELSE LET o == Lesser(offset, sizes[e + 1])
                 n == Lesser(sizes[e + 1] - o, m)
             IN Slots(e, o, n) \o take[e + 1, m - n, IF n > 0 THEN count + 1 ELSE count]
  IN take[elem, max_size, 0]

\* The slots of a single transfer: at most max_size of them, in at most MaxBuffers buffers.
prepare(elem, offset, max_size) ==
  LET take[e \in elem..Len(sizes), m \in 0..max_size, count \in 0..MaxBuffers] ==
        IF e = Len(sizes) \/ m = 0 \/ count = MaxBuffers THEN <<>>
        ELSE LET o == IF e = elem THEN offset ELSE 0
                 n == Lesser(sizes[e + 1] - o, m)
             IN Slots(e, o, n) \o take[e + 1, m - n, IF n > 0 THEN count + 1 ELSE count]
  IN take[elem, max_size, 0]

\* The next element and its offset once size more bytes are consumed.
consume(size) ==
  LET skip[e \in next_elem_..Len(sizes), o \in 0..next_elem_offset_, n \in 0..size] ==
        IF e = Len(sizes) \/ n = 0 THEN <<e, o>>
        ELSE IF n < sizes[e + 1] - o THEN <<e, o + n>>
        ELSE skip[e + 1, 0, n - (sizes[e + 1] - o)]
  IN skip[next_elem_, next_elem_offset_, size]

-----------------------------------------------------------------------------
\* The operation is started: the first transfer, whatever the condition says.
Start ==
  /\ at = "start"
  /\ prepared' = prepare(0, 0, check_for_completion(FALSE, 0))
  /\ at' = "transfer"
  /\ UNCHANGED <<sizes, condition, total_consumed_, next_elem_, next_elem_offset_, moved, cancelled, result>>

CallHandler(ec) ==
  /\ at' = "completed"
  /\ result' = ec
  /\ prepared' = <<>>

(***************************************************************************)
(* A transfer has moved n bytes, with or without an error.  Without one a  *)
(* stream moves something, unless it was given nothing to fill or take.    *)
(***************************************************************************)
Transferred(n, error) ==
  /\ at = "transfer"
  /\ error \/ n > 0 \/ prepared = <<>>
  /\ moved' = moved \o SubSeq(prepared, 1, n)
  /\ total_consumed_' = total_consumed_ + n
  /\ next_elem_' = consume(n)[1]
  /\ next_elem_offset_' = consume(n)[2]
  /\ LET max_size == check_for_completion(error, total_consumed_ + n)
         ended == (~error /\ n = 0) \/ total_consumed_ + n >= total_size_ \/ max_size = 0
     IN \/ ended /\ CallHandler(IF error THEN "error" ELSE "success")
        \/ ~ended /\ cancelled /\ CallHandler("operation_aborted")
        \/ /\ ~ended /\ ~cancelled
           /\ prepared' = prepare(next_elem_', next_elem_offset_', max_size)
           /\ UNCHANGED <<at, result>>
  /\ UNCHANGED <<sizes, condition, cancelled>>

Cancel ==
  /\ at = "transfer" /\ ~cancelled
  /\ cancelled' = TRUE
  /\ UNCHANGED <<sizes, condition, at, prepared, total_consumed_, next_elem_, next_elem_offset_, moved, result>>

Step == \E n \in 0..Len(prepared), error \in BOOLEAN : Transferred(n, error)

Next == Start \/ Step \/ Cancel

Spec == Init /\ [][Next]_vars

-----------------------------------------------------------------------------
(***************************************************************************)
(* prepare and consume go through the buffers without a gap and without    *)
(* repeating a byte, empty buffers and full prepared_buffers included:     *)
(* what was transferred is the beginning of the buffers, and the transfer  *)
(* under way goes on from there.                                           *)
(***************************************************************************)
TransfersInOrder ==
  /\ Len(moved) = total_consumed_
  /\ moved \o prepared = SubSeq(SlotsFrom[0], 1, Len(moved \o prepared))

(***************************************************************************)
(* The handler is told of success only when the condition is met: all of   *)
(* the buffers (what the server relies on for its headers and contents),   *)
(* at least n bytes of them, or exactly n.                                 *)
(***************************************************************************)
SuccessMeetsCondition ==
  at = "completed" /\ result = "success" =>
    CASE condition.kind = "transfer_all" -> total_consumed_ = total_size_
      [] condition.kind = "transfer_at_least" -> total_consumed_ >= Lesser(condition.n, total_size_)
      [] OTHER -> total_consumed_ = Lesser(condition.n, total_size_)

(***************************************************************************)
(* No transfer is started once the condition is met or the buffers are     *)
(* full, so that a read does not wait for bytes that nobody will send.     *)
(***************************************************************************)
NoNeedlessTransfer ==
  [][at = "transfer" /\ at' = "transfer" /\ prepared' # prepared =>
       /\ prepared' # <<>>
       /\ condition.kind # "transfer_all" => total_consumed_' < condition.n]_vars
=============================================================================
