---------------------------- MODULE QueueAbstract ----------------------------
(***************************************************************************)
(* What the queue promises (spec.md 4.2 and 8.5-8.7): a FIFO sequence q    *)
(* of items, where a push appends an item and a successful pop removes the *)
(* item at the front and hands it to the consumer; deq is the sequence of  *)
(* items the pops have returned.  Queue.tla refines this specification.    *)
(***************************************************************************)
EXTENDS Sequences

CONSTANT Items

VARIABLES q, deq

Init == q = <<>> /\ deq = <<>>

Push(v) ==
  /\ q' = Append(q, v)
  /\ UNCHANGED deq

Pop ==
  /\ q # <<>>
  /\ q' = Tail(q)
  /\ deq' = Append(deq, Head(q))

Next == (\E v \in Items : Push(v)) \/ Pop

Spec == Init /\ [][Next]_<<q, deq>>

=============================================================================
