--------------------------- MODULE MCKSegmentQueue ---------------------------
(* Model checking instance of KSegmentQueue alone. *)
EXTENDS KSegmentQueue
=============================================================================
