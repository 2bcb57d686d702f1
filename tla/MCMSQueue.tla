------------------------------ MODULE MCMSQueue ------------------------------
(* Model checking instances of MSQueue. *)
EXTENDS MSQueue, TLC

Symmetry == Permutations(Threads)
=============================================================================
