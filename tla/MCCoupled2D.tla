----------------------------- MODULE MCCoupled2D -----------------------------
(* Model checking instance of Coupled2D alone. *)
EXTENDS Coupled2D, TLC

Symmetry == Permutations(Threads)
=============================================================================
