----------------------------- MODULE PoolAbstract -----------------------------
(***************************************************************************)
(* What the pool promises (spec.md 3.3 and 4.1), with every operation      *)
(* atomic.  The free slots form a stack: alloc takes the slot on top, or   *)
(* finds the stack empty, and keeps its generation; release pushes an      *)
(* allocated slot back and advances its generation modulo GenMod.          *)
(* Pool.tla refines this specification; Queue.tla uses its actions as the  *)
(* queue's private pool.                                                   *)
(***************************************************************************)
EXTENDS Naturals, Sequences, FiniteSets

CONSTANTS Slots, GenMod

VARIABLES free, gen

\* Slots is 1..N.  anam_pool_create pushes the slots in reverse order, so
\* slot 1 is on top of the stack.
Init ==
  /\ free = [i \in 1..Cardinality(Slots) |-> i]
  /\ gen = [s \in Slots |-> 0]

OnStack(s) == \E i \in 1..Len(free) : free[i] = s

Alloc(s) ==
  /\ free # <<>>
  /\ s = Head(free)
  /\ free' = Tail(free)
  /\ UNCHANGED gen

Release(s) ==
  /\ ~OnStack(s)
  /\ gen' = [gen EXCEPT ![s] = (@ + 1) % GenMod]
  /\ free' = <<s>> \o free

Next == \E s \in Slots : Alloc(s) \/ Release(s)

Spec == Init /\ [][Next]_<<free, gen>>

=============================================================================
