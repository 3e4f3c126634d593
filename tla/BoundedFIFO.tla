----------------------------- MODULE BoundedFIFO -----------------------------
(***************************************************************************)
(* What a single-producer single-consumer queue promises its two clients:  *)
(* a stream of numbered items goes in at one end and comes out at the      *)
(* other in order, each item once, with never more than Bound items inside.*)
(***************************************************************************)
EXTENDS Naturals, Sequences

CONSTANTS Bound,    \* how many items the queue may hold
          Stream    \* how many items the producer has to send

VARIABLES queue,      \* the items inside, oldest first
          delivered   \* the items handed to the consumer, oldest first

vars == <<queue, delivered>>

\* The number of the producer's next item.
NextItem == Len(delivered) + Len(queue) + 1

Init == queue = <<>> /\ delivered = <<>>

Enqueue ==
  /\ Len(queue) < Bound
  /\ NextItem <= Stream
  /\ queue' = Append(queue, NextItem)
  /\ UNCHANGED delivered

Dequeue ==
  /\ queue # <<>>
  /\ queue' = Tail(queue)
  /\ delivered' = Append(delivered, Head(queue))

Next == Enqueue \/ Dequeue

Spec == Init /\ [][Next]_vars
==============================================================================
