--------------------------- MODULE MCDBalancedQueue ---------------------------
(* Model checking instance of the eight d-CBO queues. *)
EXTENDS DBalancedVariants
=============================================================================
