-------------------------------- MODULE Sizing --------------------------------
(***************************************************************************)
(* How the ten 2D structures are sized: create_queue, create_stack and     *)
(* create_counter turn the options num_threads, width, depth, k_mode and   *)
(* relaxation_bound into the width and depth they use and the bound they   *)
(* report.  The ten copies of the calculation differ in the factor of      *)
(* K = factor * depth * (width - 1), and in what they allocate.            *)
(***************************************************************************)
EXTENDS Naturals

CONSTANTS MaxThreads, MaxWidth, MaxDepth, MaxBound   \* bounds of the options

VARIABLES structure,   \* which create_ function is called
          options, sized

NotYet == [width |-> 0, depth |-> 0, bound |-> 0, allocated |-> 0]

\* The copies; the elastic ones and the optimized stack allocate max_width.
twoDd_queue            == [factor |-> 1, elastic |-> FALSE]
twoDd_queue_optimized  == [factor |-> 1, elastic |-> FALSE]
twoDd_queue_law        == [factor |-> 1, elastic |-> TRUE]
twoDd_queue_lpw        == [factor |-> 1, elastic |-> TRUE]
twoDd_stack            == [factor |-> 3, elastic |-> FALSE]
twoDd_counter          == [factor |-> 2, elastic |-> FALSE]
twoDc_stack            == [factor |-> 2, elastic |-> FALSE]
twoDc_stack_optimized  == [factor |-> 2, elastic |-> TRUE]
twoDc_stack_lpw        == [factor |-> 2, elastic |-> TRUE]
twoDc_counter          == [factor |-> 2, elastic |-> FALSE]

Structures == {twoDd_queue, twoDd_queue_optimized, twoDd_queue_law, twoDd_queue_lpw,
               twoDd_stack, twoDd_counter, twoDc_stack, twoDc_stack_optimized,
               twoDc_stack_lpw, twoDc_counter}

\* k_mode 2 divides by depth: a depth of zero is not an option there.
Options == {o \in [num_threads : 1..MaxThreads, width : 1..MaxWidth, depth : 0..MaxDepth,
                   k_mode : 0..3, relaxation_bound : 0..MaxBound, max_width : 0..MaxWidth] :
              o.k_mode \in {0, 2} => o.depth > 0}

Size(w, d, k) == [width |-> w, depth |-> d, bound |-> k]

\* Mutation: the depth is rounded up.
FromWidthUp(c, w, k) ==
  IF w < 2 THEN Size(1, k, 0)
  ELSE LET d == (k \div (c * (w - 1))) + 1
       IN  Size(w, d, k)

\* the width is given (k_mode 1, and 3 per thread)
FromWidth(c, w, k) ==
  IF w < 2 THEN Size(1, k, 0)
  ELSE LET d == k \div (c * (w - 1))
       IN  IF d < 1 THEN Size((k \div c) + 1, 1, k) ELSE Size(w, d, k)

\* the depth is given (k_mode 2)
FromDepth(c, d, k) == Size((k \div (c * d)) + 1, d, k)

\* both are given, the bound follows (k_mode 0)
FromBoth(c, w, d) == Size(w, d, c * d * (w - 1))

Sized(c, o) ==
  CASE o.k_mode = 3 -> FromWidth(c, o.num_threads * o.width, o.relaxation_bound)
    [] o.k_mode = 2 -> FromDepth(c, o.depth, o.relaxation_bound)
    [] o.k_mode = 1 -> FromWidth(c, o.width, o.relaxation_bound)
    [] o.k_mode = 0 -> FromBoth(c, o.width, o.depth)

\* if (max_width < width) max_width = width
Allocated(s, o, width) == IF s.elastic /\ o.max_width > width THEN o.max_width ELSE width

Init == structure \in Structures /\ options \in Options /\ sized = NotYet

create == /\ sized = NotYet
          /\ LET z == Sized(structure.factor, options)
             IN  sized' = [width |-> z.width, depth |-> z.depth, bound |-> z.bound,
                           allocated |-> Allocated(structure, options, z.width)]
          /\ UNCHANGED <<structure, options>>

-----------------------------------------------------------------------------
\* Properties

K == structure.factor * sized.depth * (sized.width - 1)

\* Whatever is rounded, the structure is no more relaxed than what was asked for,
\* nor than what it reports, and every sub-structure it uses has been allocated.
BoundKept ==
  sized # NotYet => /\ sized.width >= 1
                    /\ sized.width <= sized.allocated
                    /\ K <= sized.bound
                    /\ options.k_mode # 0 => K <= options.relaxation_bound

\* No more is given up than the rounding costs: a structure that is still relaxed
\* could not be deeper, or where the depth is given wider, within the bound.
BoundUsed ==
  sized # NotYet /\ options.k_mode # 0 /\ sized.width > 1 =>
    IF options.k_mode = 2
    THEN structure.factor * sized.depth * sized.width > options.relaxation_bound
    ELSE structure.factor * (sized.depth + 1) * (sized.width - 1) > options.relaxation_bound
=============================================================================
