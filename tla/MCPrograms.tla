----------------------------- MODULE MCPrograms -----------------------------
(***************************************************************************)
(* Model checking instance of the programs.  A behaviour is a run of one   *)
(* of the benchmark programs (Harness) or of one of the copies of          *)
(* test-bfs.c (Bfs); the variables of the other keep Unused.               *)
(***************************************************************************)
EXTENDS Bfs, BfsPrograms

CONSTANTS Options, Subs, OpsPerTs, MaxOps, MaxTimestamps, Unbounded, Unused

VARIABLES sys,
          opt, initial, sub, width, depth, max_width, stop, crossing, asleep, arrived,
          filled, batch, ops, timeit, puts, removes, round, at, sum, sizeBefore, size_after,
          analysis, created, updated, putting_count_succ, removing_count_succ   \* Harness

Tests == INSTANCE TestPrograms
Bench == INSTANCE Harness WITH Programs <- Tests!AllPrograms

ASSUME BenchAssumption == Bench!HarnessAssumption

bfsVars == <<input, g, distances, queue, active_threads, localVars, visited, total>>
benchVars == <<opt, initial, sub, width, depth, max_width, stop, crossing, asleep, arrived,
               filled, batch, ops, timeit, puts, removes, round, at, sum, sizeBefore,
               size_after, analysis, created, updated, putting_count_succ,
               removing_count_succ>>
allVars == <<sys, prog, pc, bfsVars, benchVars>>

\* An even number of elements and an odd one; widths that are updated later.
MCOptions == {[initial |-> 0, width |-> 4, depth |-> 4, elastic_width |-> 6, elastic_depth |-> 0],
              [initial |-> 3, width |-> 5, depth |-> 4, elastic_width |-> 0, elastic_depth |-> 2]}

\* Vertex 4 is reached by a longer way first when 5 waits in another sub-queue;
\* vertex 2 of the other graph is not reached.
MCInputs ==
  {[n |-> 6, directed |-> TRUE, edges |-> <<<<1, 2>>, <<2, 3>>, <<3, 4>>, <<1, 5>>, <<5, 4>>, <<4, 6>>>>],
   [n |-> 3, directed |-> FALSE, edges |-> <<<<1, 3>>, <<3, 3>>>>]}

BenchIdle ==
  /\ opt = Unused /\ initial = Unused /\ sub = Unused /\ width = Unused /\ depth = Unused
  /\ max_width = Unused /\ stop = Unused /\ crossing = Unused /\ asleep = Unused
  /\ arrived = Unused /\ filled = Unused /\ batch = Unused /\ ops = Unused /\ timeit = Unused
  /\ puts = Unused /\ removes = Unused /\ round = Unused /\ at = Unused /\ sum = Unused
  /\ sizeBefore = Unused /\ size_after = Unused /\ analysis = Unused /\ created = Unused
  /\ updated = Unused /\ putting_count_succ = Unused /\ removing_count_succ = Unused

BfsIdle ==
  /\ input = Unused /\ g = Unused /\ distances = Unused /\ queue = Unused
  /\ active_threads = Unused /\ seen = Unused /\ current = Unused /\ current_distance = Unused
  /\ i = Unused /\ distance = Unused /\ is_active = Unused /\ failures = Unused
  /\ visited = Unused /\ total = Unused

SuiteInit == \/ sys = "harness" /\ Bench!Init /\ BfsIdle
             \/ sys = "bfs" /\ Init /\ BenchIdle

SuiteNext == /\ \/ sys = "harness" /\ Bench!Next /\ UNCHANGED bfsVars
                \/ sys = "bfs" /\ Next /\ UNCHANGED benchVars
             /\ UNCHANGED sys

SuiteMain == \/ sys = "harness" /\ ~ Bench!Aborted /\ Bench!MainStep /\ UNCHANGED <<sys, bfsVars>>
             \/ sys = "bfs" /\ (Report \/ Barrier) /\ UNCHANGED <<sys, benchVars>>

SuiteThread(t) ==
  \/ sys = "harness" /\ ~ Bench!Aborted /\ Bench!ThreadStep(t) /\ UNCHANGED <<sys, bfsVars>>
  \/ sys = "bfs" /\ ThreadStep(t) /\ UNCHANGED <<sys, benchVars>>

\* Harness!FairSpec or Bfs!FairSpec
SuiteSpec == /\ SuiteInit /\ [][SuiteNext]_allVars
             /\ WF_allVars(SuiteMain)
             /\ \A t \in Threads : WF_allVars(SuiteThread(t))

-----------------------------------------------------------------------------
\* The properties of the components, each for the system it is about.

\* Harness!BarrierSafe: barrier_cross keeps the phases of a benchmark apart although a
\* fast thread may come back to the barrier before the others have woken up.
BarriersHold == sys = "harness" => Bench!BarrierSafe

\* Harness!FilledExactly: test hands out exactly the elements of the rounded -i option.
FillExact == sys = "harness" => Bench!FilledExactly

\* Harness!AnalysisReady: init_relaxation_analysis_local runs after the shared part.
AnalysisFound == sys = "harness" => Bench!AnalysisReady

\* Harness!SizeValidated: the assertion of main on the size of the container.
SizeRight == sys = "harness" => Bench!SizeValidated

\* Harness!UpdatesInRange: update_width stays within what DS_NEW has allocated.
WidthAllocated == sys = "harness" => Bench!UpdatesInRange

\* Bfs!WorkPending: run_bfs forgets no vertex that could lower a distance.
NoWorkForgotten == sys = "bfs" => WorkPending

\* Bfs!DistancesExact: main of test-bfs.c reports the distances of a sequential search.
DistancesRight == sys = "bfs" => DistancesExact

\* Harness!Terminates and Bfs!Terminates: whatever the interleaving at the barriers and
\* at the end of the search, main reports (or a benchmark gives up on its time stamps).
MainReports == <>(IF sys = "bfs" THEN pc[Main] = "report" ELSE Bench!Aborted \/ pc[Main] = "report")
=============================================================================
