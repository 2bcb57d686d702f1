------------------------------ MODULE MCQueues ------------------------------
(***************************************************************************)
(* Model checking instance of the array queues, the k-segment queue and    *)
(* the structures that choose at random.  A behaviour is one of the        *)
(* systems below, called by the same threads; LCRQ has rings of one and of *)
(* two cells.                                                              *)
(***************************************************************************)
EXTENDS CallHistory, FiniteSets, TLC

CONSTANTS Threads,
          BufferSize,                        \* of Faaaq
          RingSizes, CloseTries, MaxTickets, \* of Lcrq
          SegmentSize, MaxSegments,          \* of KSegmentQueue
          Width, Choices, Garbage,           \* of ChoiceQueue and ChoiceStack
          \* bounds: puts and gets of each system
          ArrayPuts, ArrayGets, RingPuts, RingGets, SegmentPuts, SegmentGets,
          ChoicePuts, ChoiceGets, StackPuts, StackGets

VARIABLES sys, mem, pc, loc, hist

allVars == <<sys, mem, pc, loc, hist>>

Array    == INSTANCE Faaaq WITH MaxPuts <- ArrayPuts, MaxGets <- ArrayGets
Rings    == INSTANCE Lcrq WITH MaxPuts <- RingPuts, MaxGets <- RingGets
Segments == INSTANCE KSegmentQueue WITH MaxPuts <- SegmentPuts, MaxGets <- SegmentGets
Choice   == INSTANCE ChoiceQueue WITH MaxPuts <- ChoicePuts, MaxGets <- ChoiceGets
Stacks   == INSTANCE ChoiceStack WITH MaxPuts <- StackPuts, MaxGets <- StackGets

SuiteInit == \/ sys = "faaaq" /\ Array!Init
             \/ sys = "lcrq" /\ Rings!Init
             \/ sys = "k-segment" /\ Segments!Init
             \/ sys = "d-RA" /\ Choice!Init
             \/ sys = "stack" /\ Stacks!Init

SuiteNext == /\ \/ sys = "faaaq" /\ Array!Next
                \/ sys = "lcrq" /\ Rings!Next
                \/ sys = "k-segment" /\ Segments!Next
                \/ sys = "d-RA" /\ Choice!Next
                \/ sys = "stack" /\ Stacks!Next
             /\ UNCHANGED sys

SuiteSpec == SuiteInit /\ [][SuiteNext]_allVars

Symmetry == Permutations(Threads)

-----------------------------------------------------------------------------
\* The properties, each for the queues it is about.

\* CallHistory!Once: no item is returned by two dequeues (deq_swp, deq_cae, the CAS on
\* deleted).
ReturnedOnce == Once(hist)

\* CallHistory!InOrder: the dequeues of the array queue and of LCRQ answer first in,
\* first out, whatever slots and rings are skipped, closed or marked unsafe; those of
\* the d-RA queue do in each sub-queue (ChoiceQueue!SubQueueOrder).
FirstInFirstOut == /\ sys \in {"faaaq", "lcrq"} => InOrder(hist)
                   /\ sys = "d-RA" => Choice!SubQueueOrder

\* CallHistory!NoneMissed: no dequeue answers empty over an item that was there all the
\* time (for LCRQ: but for the answers given while a ring is closing; for the d-RA queue
\* and the stacks: in the sub-structure it chose).  Nor does a pop pass over an item that
\* was pushed later on the same stack.
EmptyIsRight == NoneMissed(hist)

\* Faaaq!VersionSound and Lcrq!VersionSound: the tail versions of the array queue and of
\* LCRQ are fit for the double collect of the d-CBO queue.
ArrayVersionSound == /\ sys = "faaaq" => Array!VersionSound
                     /\ sys = "lcrq" => Rings!VersionSound

\* KSegmentQueue!SegmentOrder: the k-segment queue is out of order by less than a segment.
OutOfOrderInSegment == sys = "k-segment" => Segments!SegmentOrder
=============================================================================
