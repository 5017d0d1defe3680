------------------------------- MODULE MCQueue -------------------------------
(* Queue.tla instantiated for TLC.  No symmetry set: the runs check the   *)
(* temporal properties RefinesQueue and OpsComplete, for which TLC's       *)
(* symmetry reduction is not sound.                                        *)
EXTENDS Queue, TLC

=============================================================================
