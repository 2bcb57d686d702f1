-------------------------------- MODULE MC2D --------------------------------
(***************************************************************************)
(* Model checking instance of the 2D structures.  A behaviour is one of    *)
(* the systems below; the variables a system does not have keep Unused.    *)
(***************************************************************************)
EXTENDS Queue2DdOptimized, TLC

CONSTANT Unused

VARIABLES sys,
          design, W, tw, op, idleShifts,   \* Coupled2D
          structure, options, sized        \* Sizing

coupledVars == <<design, W, tw, op, idleShifts>>
sizingVars == <<structure, options, sized>>
allVars == <<sys, optVars, coupledVars, sizingVars>>

Counter == INSTANCE Counter2Dd WITH OneArray <- TRUE, RandomHops <- 0, MaxPuts <- 4
Stack   == INSTANCE Stack2Dd WITH OneArray <- TRUE, RandomHops <- 0, MaxItems <- 4,
                                  pushed <- linkedItems
Coupled == INSTANCE Coupled2D WITH Depth <- 2, MaxItems <- 5, pushed <- linkedItems,
                                   empty <- notempty
Sizes   == INSTANCE Sizing WITH MaxThreads <- 2, MaxWidth <- 3, MaxDepth <- 2, MaxBound <- 7

CoupledIdle == design = Unused /\ W = Unused /\ tw = Unused /\ op = Unused /\ idleShifts = Unused
SizingIdle == structure = Unused /\ options = Unused /\ sized = Unused
WindowsIdle == /\ put = Unused /\ get = Unused /\ PW = Unused /\ GW = Unused
               /\ win = Unused /\ tailCount = Unused /\ pwin = Unused
SearchIdle == /\ pc = Unused /\ idx = Unused /\ contention = Unused /\ hops = Unused
              /\ random = Unused /\ notempty = Unused /\ desc = Unused

SuiteInit ==
  \/ sys = "queue" /\ Init /\ pwin = Unused /\ CoupledIdle /\ SizingIdle
  \/ sys = "optimized" /\ OptInit /\ CoupledIdle /\ SizingIdle
  \/ /\ sys = "counter" /\ Counter!Init /\ CoupledIdle /\ SizingIdle
     /\ pwin = Unused /\ content = Unused /\ linkedItems = Unused
  \/ sys = "stack" /\ Stack!Init /\ pwin = Unused /\ CoupledIdle /\ SizingIdle
  \/ sys = "coupled" /\ Coupled!Init /\ WindowsIdle /\ SizingIdle
  \/ /\ sys = "sizing" /\ Sizes!Init /\ CoupledIdle /\ WindowsIdle /\ SearchIdle
     /\ content = Unused /\ linkedItems = Unused /\ started = Unused

SuiteNext ==
  /\ \/ sys = "queue" /\ Next /\ UNCHANGED <<pwin, coupledVars, sizingVars>>
     \/ sys = "optimized" /\ OptNext /\ UNCHANGED <<coupledVars, sizingVars>>
     \/ /\ sys = "counter" /\ Counter!Next
        /\ UNCHANGED <<pwin, content, linkedItems, coupledVars, sizingVars>>
     \/ sys = "stack" /\ Stack!Next /\ UNCHANGED <<pwin, coupledVars, sizingVars>>
     \/ /\ sys = "coupled" /\ Coupled!Next
        /\ UNCHANGED <<put, get, PW, GW, win, tailCount, pwin, sizingVars>>
     \/ sys = "sizing" /\ Sizes!create /\ UNCHANGED <<optVars, coupledVars>>
  /\ UNCHANGED sys

SuiteSpec == SuiteInit /\ [][SuiteNext]_allVars

Symmetry == Permutations(Threads)

-----------------------------------------------------------------------------
\* The properties of the components, each for the systems it is about.

OfQueue == sys \in {"queue", "optimized"}

\* Window2Dd!PutWindowExact and GetWindowFollows: the put window of the optimized queue,
\* of the counter and of the stack is exact, and the get window follows it.  The optimized queue also
\* keeps Queue2Dd!CountsFollowList.
WindowsHold == /\ sys \in {"optimized", "counter", "stack"} => PutWindowExact /\ GetWindowFollows
               /\ sys = "optimized" => CountsFollowList

\* Queue2Dd!SwingFindsItem: neither the queue nor the optimized queue, which skips
\* the test for empty, moves a head beyond the last node.
SwingFinds == OfQueue => SwingFindsItem

\* Counter2Dd!NeverNegative: two decrements that race for the last unit of a
\* partial counter do not both get it.
NeverBelowZero == sys = "counter" => Counter!NeverNegative

\* Coupled2D!ShiftAsserted: get_window of the coupled structures never has to shift
\* the window below depth.
CoupledAssert == sys = "coupled" => Coupled!ShiftAsserted

\* Coupled2D!WindowBounds: no sub-stack of the optimized coupled stack is more than
\* one shift above the window.
CoupledBounds == sys = "coupled" => Coupled!WindowBounds

\* Coupled2D!ShiftsNotUndone: after its first shift the coupled window moves one way
\* until an operation succeeds.
CoupledWork == sys = "coupled" => Coupled!ShiftsNotUndone

\* Sizing!BoundKept and Sizing!BoundUsed: create_queue, create_stack and
\* create_counter stay within the relaxation bound asked for and use all of it.
SizedWell == sys = "sizing" => Sizes!BoundKept /\ Sizes!BoundUsed

\* Stack2Dd!HeightsClose: no sub-stack is more than 3 * depth higher than one whose pops
\* have stayed inside the get window.
StackHeights == sys = "stack" => Stack!HeightsClose

\* Queue2Dd!InWindowBound: a dequeue of the queue or of the optimized queue that stays
\* inside the get window overtakes at most twice relaxation_bound older items.
InWindow == [][OfQueue => (\A q \in Subs : get'[q] # get[q] /\ get'[q] <= GW
                                       => RankError(q) <= 2 * K)]_allVars
=============================================================================
