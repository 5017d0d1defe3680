------------------------------- MODULE MCPool -------------------------------
(* Pool.tla instantiated for TLC: the threads are model values. *)
EXTENDS Pool, TLC

=============================================================================
