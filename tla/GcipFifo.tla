------------------------------ MODULE GcipFifo ------------------------------
(***************************************************************************)
(* What a mailbox queue promises to the two sides that share it: a bounded *)
(* first-in first-out queue of which one side takes elements in batches.   *)
(***************************************************************************)
EXTENDS Naturals, Sequences

CONSTANTS Values, Size

VARIABLES
  queue,  \* elements written and not taken yet
  out     \* the batch taken last

Write(v) ==
  /\ Len(queue) < Size
  /\ queue' = Append(queue, v)
  /\ UNCHANGED out

Take(n) ==
  /\ out' = SubSeq(queue, 1, n)
  /\ queue' = SubSeq(queue, n + 1, Len(queue))

Discard ==
  /\ queue' = <<>>
  /\ UNCHANGED out

FifoNext ==
  \/ \E v \in Values : Write(v)
  \/ \E n \in 0..Len(queue) : Take(n)
  \/ Discard

FifoSpec == queue = <<>> /\ out = <<>> /\ [][FifoNext]_<<queue, out>>
=============================================================================
