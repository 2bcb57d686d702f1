------------------------------ MODULE MCQueue2Dd ------------------------------
(* Model checking instances of Queue2Dd. *)
EXTENDS Queue2Dd, TLC

Symmetry == Permutations(Threads)
=============================================================================
