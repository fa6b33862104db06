---------------------------- MODULE BoundedFifo -----------------------------
(***************************************************************************)
(* A queue of at most Capacity elements, with neither indices nor a mask.  *)
(***************************************************************************)
EXTENDS Integers, Sequences

CONSTANTS Elements, Capacity

VARIABLE queue

Put == Len(queue) < Capacity /\ \E e \in Elements : queue' = Append(queue, e)
Get == queue # <<>> /\ queue' = Tail(queue)

Fifo == queue = <<>> /\ [][Put \/ Get]_queue
=============================================================================
