--------------------------- MODULE GcipCircQueue ---------------------------
(***************************************************************************)
(* The circular queues of gcip-mailbox.h: a ring in shared memory and two  *)
(* indices, each with a wrap bit that is flipped on every lap, so that a   *)
(* full ring and an empty one differ.  The host writes the command queue   *)
(* and reads the response queue; the firmware is its mirror image on the   *)
(* other end of each.  The writer here is the host's on a command queue,   *)
(* the reader the host's on a response queue.                              *)
(*                                                                         *)
(* The reader copies while the writer goes on writing, turn after turn,    *)
(* with an index of its own, and moves the shared head only at the end, by *)
(* all that it copied.                                                     *)
(***************************************************************************)
EXTENDS Integers, Sequences

CONSTANTS
  Size,     \* elements of the ring
  WrapBit,  \* the wrap bit, CIRC_QUEUE_WRAP_BIT
  Values    \* elements

\* gcip_valid_circ_queue_size, which edgetpu_mailbox_set_queue insists on.
ASSUME SizeAssumption ==
  /\ Size \in Nat /\ WrapBit \in Nat
  /\ 1 <= Size /\ Size <= WrapBit - 1

VARIABLES
  slots,    \* the ring
  head,     \* the reader's index
  tail,     \* the writer's index
  reading,  \* is the reader in its copy loop, with the queue lock
  local,    \* its own copy of head in that loop
  total,    \* how many elements it copied
  batch,    \* the copies
  out,      \* the batch it returned last
  used      \* ledger: elements written and not taken yet

readerVars == <<reading, local, total, batch>>
vars == <<slots, head, tail, readerVars, out, used>>

-----------------------------------------------------------------------------
(***************************************************************************)
(* Index arithmetic.  An index is less than twice the wrap bit: the host's *)
(* own ones start at 0 and move by Inc, the one it reads from the firmware *)
(* is refused when it has a higher bit set.                                *)
(***************************************************************************)
Wrapped(index) == index >= WrapBit
RealIndex(index) == IF Wrapped(index) THEN index - WrapBit ELSE index
FlipWrapBit(index) == IF Wrapped(index) THEN index - WrapBit ELSE index + WrapBit

\* Mutation: the laps are not told apart.
CntSameLap(h, t) == RealIndex(t) - RealIndex(h)

\* gcip_circ_queue_cnt; an unsigned difference below zero is a huge number.
Cnt(h, t) ==
  LET ret == IF Wrapped(t) # Wrapped(h)
               THEN Size - RealIndex(h) + RealIndex(t)
               ELSE t - h
  IN IF ret < 0 \/ ret > Size THEN 0 ELSE ret

\* Mutation: > in place of >=.
IncOffByOne(index, inc) ==
  IF RealIndex(index) + inc > Size
    THEN FlipWrapBit(index + inc - Size)
    ELSE index + inc

\* gcip_circ_queue_inc.
Inc(index, inc) ==
  IF RealIndex(index) + inc >= Size
    THEN FlipWrapBit(index + inc - Size)
    ELSE index + inc

\* The copies of n elements from an index on.
Copy(index, n) == [i \in 1..n |-> slots[(RealIndex(index) + i - 1) % Size]]

-----------------------------------------------------------------------------
Init ==
  /\ slots \in [0..(Size - 1) -> Values]
  /\ head = 0
  /\ tail = 0
  /\ reading = FALSE
  /\ local = 0
  /\ total = 0
  /\ batch = <<>>
  /\ out = <<>>
  /\ used = 0

\* Mutation: the ring is taken for full when the indices are equal.
EnqueueFullWhenEqual(v) ==
  /\ head # tail \/ used = 0
  /\ slots' = [slots EXCEPT ![RealIndex(tail)] = v]
  /\ tail' = Inc(tail, 1)
  /\ used' = used + 1
  /\ UNCHANGED <<head, readerVars, out>>

\* wait_for_tx_queue_not_full finds room, the element is copied and the tail
\* incremented, under the lock of the writers.
Enqueue(v) ==
  /\ head # FlipWrapBit(tail)
  /\ slots' = [slots EXCEPT ![RealIndex(tail)] = v]
  /\ tail' = Inc(tail, 1)
  /\ used' = used + 1
  /\ UNCHANGED <<head, readerVars, out>>

\* gcip_mailbox_fetch_responses has the lock and reads the head.
FetchStart ==
  /\ ~reading
  /\ reading' = TRUE
  /\ local' = head
  /\ total' = 0
  /\ batch' = <<>>
  /\ UNCHANGED <<slots, head, tail, out, used>>

\* One turn of its loop.
FetchTurn ==
  /\ reading
  /\ Cnt(local, tail) # 0
  /\ batch' = batch \o Copy(local, Cnt(local, tail))
  /\ total' = total + Cnt(local, tail)
  /\ local' = Inc(local, Cnt(local, tail))
  /\ UNCHANGED <<slots, head, tail, reading, out, used>>

\* The loop ends, because the queue was empty when it looked, krealloc failed
\* or the tail it read was invalid, and the head moves.
FetchEnds ==
  /\ reading
  /\ reading' = FALSE
  /\ head' = Inc(head, total)
  /\ used' = used - total
  /\ out' = batch
  /\ UNCHANGED <<slots, tail, local, total, batch>>

\* gcip_mailbox_fetch_one_response.
FetchOne ==
  /\ ~reading
  /\ head # tail
  /\ head' = Inc(head, 1)
  /\ used' = used - 1
  /\ out' = Copy(head, 1)
  /\ UNCHANGED <<slots, tail, readerVars>>

\* edgetpu_mailbox_reset, with nobody reading.
Reset ==
  /\ ~reading
  /\ head' = 0
  /\ tail' = 0
  /\ used' = 0
  /\ UNCHANGED <<slots, readerVars, out>>

Next ==
  \/ \E v \in Values : Enqueue(v)
  \/ FetchStart \/ FetchTurn \/ FetchEnds \/ FetchOne
  \/ Reset

Spec == Init /\ [][Next]_vars

-----------------------------------------------------------------------------
Indices == {i \in 0..(2 * WrapBit - 1) : RealIndex(i) < Size}

\* Both indices stay inside the ring on either lap, whatever was added to
\* them, and no batch is larger than the ring.
TypeOK ==
  /\ head \in Indices /\ tail \in Indices /\ local \in Indices
  /\ total \in 0..Size
  /\ used \in 0..Size

\* What both sides conclude from the two indices is exact on every lap: the
\* number of elements to copy, also in the middle of the loop while the
\* writer moves the tail, and that the ring is full or empty.
OccupancyExact ==
  /\ Cnt(head, tail) = used
  /\ reading => Cnt(local, tail) = used - total
  /\ head = FlipWrapBit(tail) <=> used = Size
  /\ head = tail <=> used = 0

\* The ring is a bounded FIFO: no element is overwritten before it is taken,
\* lost, taken twice or out of order, although the writer laps the reader's
\* own index while it copies.
Fifo == INSTANCE GcipFifo WITH queue <- Copy(head, Cnt(head, tail))
ImplementsFifo == Fifo!FifoSpec

=============================================================================
