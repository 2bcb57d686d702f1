------------------------------- MODULE MCLcrq -------------------------------
(* Model checking instance of Lcrq alone. *)
EXTENDS Lcrq, TLC

Symmetry == Permutations(Threads)
=============================================================================
