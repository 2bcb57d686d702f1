------------------------------- MODULE Harness -------------------------------
(***************************************************************************)
(* The benchmark programs: main starts num_threads copies of test, which   *)
(* fill the container, run the loop of main_test_loop.h until main sets    *)
(* stop, and share their counts; main joins them and validates the size of *)
(* the container against the counts.  The phases are kept apart by the     *)
(* barriers of barrier.h.  The programs are copies of each other; what     *)
(* tells them apart is the record prog, one of TestPrograms.               *)
(*                                                                         *)
(* The container is its sub-structures' sizes: an add or a remove changes  *)
(* one of them in one step, and DS_SIZE reads them one after the other, as *)
(* the containers of this repository do.  Time is not modelled: main stops *)
(* the threads at any moment.                                              *)
(***************************************************************************)
EXTENDS Integers, Sequences, FiniteSets, Functions

CONSTANTS NumThreads,
          Programs,        \* feature records of the programs
          Options,         \* the command lines tried
          Subs,            \* number of sub-structures of the container
          OpsPerTs,        \* OPS_PER_TS: operations between two time stamps
          MaxOps,          \* bound: operations of a thread
          MaxTimestamps    \* MAX_TIMESTAMPS

\* what the programs' defines and options guarantee
HarnessAssumption == /\ NumThreads \in Nat \ {0}
                     /\ Subs \in Nat \ {0}
                     /\ OpsPerTs \in Nat \ {0}
                     /\ MaxOps % OpsPerTs = 0
                     /\ \A o \in Options : o.initial \in 0..16

VARIABLES prog,            \* the program that runs
          opt,             \* its options
          initial,         \* elements to insert before the test
          sub,             \* sizes of the sub-structures
          width, depth, max_width,   \* of the container
          stop,
          pc,
          crossing,        \* barrier_t.crossing
          asleep,          \* who is in pthread_cond_wait
          arrived,         \* history: crossings begun
          filled,          \* i of the loop that fills the container
          batch, ops,      \* operations since the last time stamp, and in all
          timeit,          \* time stamps taken
          puts, removes,   \* my_putting_count_succ, my_removing_count_succ
          round,           \* __i of EXEC_IN_DEC_ID_ORDER
          at, sum,         \* DS_SIZE: the next sub-structure, the sum so far
          sizeBefore, size_after,
          analysis,        \* init_relaxation_analysis_shared has run
          created, updated,             \* main: threads, size changes made
          putting_count_succ, removing_count_succ

barrierVars == <<crossing, asleep, arrived>>
containerVars == <<sub, width, depth, max_width>>
myVars == <<filled, batch, ops, timeit, puts, removes, round, at, sum>>
mainVars == <<stop, created, updated, initial, opt>>
resultVars == <<sizeBefore, size_after, putting_count_succ, removing_count_succ>>
vars == <<prog, containerVars, pc, barrierVars, myVars, mainVars, resultVars, analysis>>

Threads == 0..(NumThreads - 1)
Main == NumThreads                    \* main sets thread_id = num_threads
Barriers == {"barrier", "barrier_global"}
Indices == 0..(Subs - 1)

Parties(b) == IF b = "barrier" THEN Threads ELSE Threads \cup {Main}

\* barrier_init
Count(b) == IF b = "barrier" THEN NumThreads ELSE NumThreads + 1

Zero == [t \in Threads |-> 0]

Init == /\ prog \in Programs
        /\ opt \in Options
        /\ initial = 0
        /\ sub = [i \in Indices |-> 0]
        /\ width = 1 /\ depth = 1 /\ max_width = 1
        /\ stop = FALSE
        /\ pc = [p \in Threads \cup {Main} |-> IF p = Main THEN "options" ELSE "none"]
        /\ crossing = [b \in Barriers |-> 0]
        /\ asleep = [b \in Barriers |-> {}]
        /\ arrived = [b \in Barriers |-> [p \in Threads \cup {Main} |-> 0]]
        /\ filled = Zero /\ batch = Zero /\ ops = Zero /\ timeit = Zero
        /\ puts = Zero /\ removes = Zero
        /\ round = [t \in Threads |-> NumThreads - 1]
        /\ at = 0 /\ sum = 0
        /\ sizeBefore = -1 /\ size_after = -1
        /\ analysis = FALSE
        /\ created = 0 /\ updated = 0
        /\ putting_count_succ = Zero /\ removing_count_succ = Zero

Awake(p) == \A b \in Barriers : p \notin asleep[b]

\* p leaves label from for label to.
Goto(p, from, to) == /\ Awake(p)
                     /\ pc[p] = from
                     /\ pc' = [pc EXCEPT ![p] = to]

-----------------------------------------------------------------------------
\* barrier.h

\* Mutation: the last thread but one lets everybody through.
barrier_cross_early(p, b) ==
  /\ arrived' = [arrived EXCEPT ![b][p] = @ + 1]
  /\ IF crossing[b] + 2 < Count(b)
     THEN /\ crossing' = [crossing EXCEPT ![b] = @ + 1]
          /\ asleep' = [asleep EXCEPT ![b] = @ \cup {p}]
     ELSE /\ crossing' = [crossing EXCEPT ![b] = 0]
          /\ asleep' = [asleep EXCEPT ![b] = {}]

\* Mutation: crossing is not reset for the next time.
barrier_cross_once(p, b) ==
  /\ arrived' = [arrived EXCEPT ![b][p] = @ + 1]
  /\ crossing' = [crossing EXCEPT ![b] = @ + 1]
  /\ asleep' = [asleep EXCEPT ![b] = IF crossing[b] + 1 # Count(b) THEN @ \cup {p} ELSE {}]

\* All of it runs under the mutex, which pthread_cond_wait gives up: the last
\* to come resets crossing and wakes the others.
barrier_cross(p, b) ==
  /\ arrived' = [arrived EXCEPT ![b][p] = @ + 1]
  /\ IF crossing[b] + 1 < Count(b)
     THEN /\ crossing' = [crossing EXCEPT ![b] = @ + 1]
          /\ asleep' = [asleep EXCEPT ![b] = @ \cup {p}]
     ELSE /\ crossing' = [crossing EXCEPT ![b] = 0]
          /\ asleep' = [asleep EXCEPT ![b] = {}]

Cross(p, b, from, to) ==
  /\ Goto(p, from, to)
  /\ barrier_cross(p, b)
  /\ UNCHANGED <<prog, containerVars, myVars, mainVars, resultVars, analysis>>

-----------------------------------------------------------------------------
\* test: start and fill

StartsAnalysis(t) == t = 0 /\ prog.test.analysis

\* THREAD_INIT; init_relaxation_analysis_shared by thread 0, before the first barrier
Start(t) ==
  /\ Goto(t, "start", "ready")
  /\ analysis' = (analysis \/ StartsAnalysis(t))
  /\ UNCHANGED <<prog, containerVars, barrierVars, myVars, mainVars, resultVars>>

\* Mutation: nobody waits for thread 0.
ReadyAtOnce(t) ==
  /\ Goto(t, "ready", "register")
  /\ UNCHANGED <<prog, containerVars, barrierVars, myVars, mainVars, resultVars, analysis>>

Ready(t) == Cross(t, "barrier", "ready", "register")

\* init_relaxation_analysis_local and DS_REGISTER
Register(t) ==
  /\ Goto(t, "register", "fill")
  /\ UNCHANGED <<prog, containerVars, barrierVars, myVars, mainVars, resultVars, analysis>>

\* Mutation: what is left of the division is not handed out.
num_elems_thread_floor(t) == initial \div NumThreads

num_elems_thread(t) ==
  LET share   == initial \div NumThreads
      missing == initial - share * NumThreads
  IN  IF t < missing THEN share + 1 ELSE share

\* DS_ADD on some sub-structure
Add(i) == sub' = [sub EXCEPT ![i] = @ + 1]

Fill(t) ==
  /\ Goto(t, "fill", "fill")
  /\ filled[t] < num_elems_thread(t)
  /\ \E i \in Indices : Add(i)
  /\ filled' = [filled EXCEPT ![t] = @ + 1]
  /\ UNCHANGED <<prog, width, depth, max_width, barrierVars, batch, ops, timeit, puts, removes,
                 round, at, sum, mainVars, resultVars, analysis>>

Filled(t) == /\ filled[t] >= num_elems_thread(t)
             /\ Cross(t, "barrier", "fill", "before")

\* One sub-structure of DS_SIZE, which only thread 0 calls.
SizeStep(t, from) ==
  /\ t = 0
  /\ at < Subs
  /\ Goto(t, from, from)
  /\ sum' = sum + sub[at]
  /\ at' = at + 1
  /\ UNCHANGED <<prog, containerVars, barrierVars, filled, batch, ops, timeit, puts,
                 removes, round, mainVars, resultVars, analysis>>

SizeDone(t, from, to) ==
  /\ t = 0
  /\ at = Subs
  /\ Goto(t, from, to)
  /\ at' = 0 /\ sum' = 0
  /\ UNCHANGED <<prog, containerVars, barrierVars, filled, batch, ops, timeit, puts,
                 removes, round, mainVars, putting_count_succ, removing_count_succ, analysis>>

BeforeSize(t) == \/ SizeStep(t, "before")
                 \/ SizeDone(t, "before", "go") /\ sizeBefore' = sum /\ UNCHANGED size_after

\* the other threads go straight to barrier_global
Go(t) == \/ Cross(t, "barrier_global", "go", "loop")
         \/ t # 0 /\ Cross(t, "barrier_global", "before", "loop")

-----------------------------------------------------------------------------
\* test: the loop

is_producer(t) == t < (NumThreads * 2) \div 3

ByClock(t)   == prog.test.loop = "roles" /\ is_producer(t)
MayPut(t)    == prog.test.loop = "roles" => is_producer(t)
MayRemove(t) == prog.test.loop = "roles" => ~ is_producer(t)

\* `while (stop == 0)' is only tested between two batches
BatchSize == IF prog.test.loop = "plain" THEN 1 ELSE OpsPerTs

InLoop(t) == /\ Goto(t, "loop", "loop")
             /\ batch[t] < BatchSize
             /\ (batch[t] = 0 => (stop => ByClock(t)) /\ ops[t] + BatchSize <= MaxOps)
             /\ batch' = [batch EXCEPT ![t] = @ + 1]
             /\ ops' = [ops EXCEPT ![t] = @ + 1]
             /\ UNCHANGED <<prog, width, depth, max_width, barrierVars, filled, timeit, round, at, sum,
                            mainVars, resultVars, analysis>>

\* TEST_LOOP_ONLY_UPDATES: a put, a remove that finds an item, and one that does
\* not (a relaxed container may miss the last items)
LoopPut(t) ==
  /\ InLoop(t)
  /\ MayPut(t)
  /\ \E i \in Indices : Add(i)
  /\ puts' = [puts EXCEPT ![t] = @ + 1]
  /\ UNCHANGED removes

LoopRemove(t) ==
  /\ InLoop(t)
  /\ MayRemove(t)
  /\ \E i \in Indices : sub[i] > 0 /\ sub' = [sub EXCEPT ![i] = @ - 1]
  /\ removes' = [removes EXCEPT ![t] = @ + 1]
  /\ UNCHANGED puts

LoopRemoveFails(t) ==
  /\ InLoop(t)
  /\ MayRemove(t)
  /\ UNCHANGED <<sub, puts, removes>>

\* the end of a batch: a time stamp, except in the plain loop
EndBatch(t) ==
  /\ batch[t] = BatchSize
  /\ Goto(t, "loop", "loop")
  /\ batch' = [batch EXCEPT ![t] = 0]
  /\ timeit' = [timeit EXCEPT ![t] = IF prog.test.loop = "plain" THEN @ ELSE @ + 1]
  /\ UNCHANGED <<prog, containerVars, barrierVars, filled, ops, puts, removes, round, at,
                 sum, mainVars, resultVars, analysis>>

\* A producer of the variable workload works by the clock, never looks at stop, and
\* records a time stamp of 1 when it goes to sleep.
Rest(t) ==
  /\ ByClock(t)
  /\ batch[t] = 0
  /\ Goto(t, "loop", "rest")
  /\ timeit' = [timeit EXCEPT ![t] = @ + 1]
  /\ UNCHANGED <<prog, containerVars, barrierVars, filled, batch, ops, puts, removes, round,
                 at, sum, mainVars, resultVars, analysis>>

\* the next interval; bounded by the number of time stamps
WakeUp(t) ==
  /\ timeit[t] <= MaxTimestamps
  /\ Goto(t, "rest", "loop")
  /\ UNCHANGED <<prog, containerVars, barrierVars, myVars, mainVars, resultVars, analysis>>

\* Mutation: no barrier between the loop and DS_SIZE.
LeaveLoopAtOnce(t) ==
  /\ batch[t] = 0
  /\ \/ stop /\ ~ ByClock(t) /\ Goto(t, "loop", "after")
     \/ Goto(t, "rest", "after")
  /\ UNCHANGED <<prog, containerVars, barrierVars, myVars, mainVars, resultVars, analysis>>

LeaveLoop(t) ==
  /\ batch[t] = 0
  /\ \/ stop /\ ~ ByClock(t) /\ Cross(t, "barrier", "loop", "after")
     \/ Cross(t, "barrier", "rest", "after")

-----------------------------------------------------------------------------
\* test: size, counts, exit

AfterSize(t) ==
  \/ SizeStep(t, "after")
  \/ SizeDone(t, "after", "sized") /\ size_after' = sum /\ UNCHANGED sizeBefore
  \/ t # 0 /\ Cross(t, "barrier", "after", "share")
  \/ Cross(t, "barrier", "sized", "share")

\* Too many time stamps end the whole program, after the fact.
Share(t) ==
  /\ Goto(t, "share", IF timeit[t] > MaxTimestamps THEN "abort" ELSE "print")
  /\ putting_count_succ' = [putting_count_succ EXCEPT ![t] = @ + puts[t]]
  /\ removing_count_succ' = [removing_count_succ EXCEPT ![t] = @ + removes[t]]
  /\ UNCHANGED <<prog, containerVars, barrierVars, myVars, mainVars, sizeBefore,
                 size_after, analysis>>

\* EXEC_IN_DEC_ID_ORDER: a barrier after the turn of each thread
PrintInOrder(t) ==
  /\ Goto(t, "print", IF round[t] = 0 THEN "exit" ELSE "print")
  /\ barrier_cross(t, "barrier")
  /\ round' = [round EXCEPT ![t] = IF @ = 0 THEN 0 ELSE @ - 1]
  /\ UNCHANGED <<prog, containerVars, filled, batch, ops, timeit, puts, removes, at, sum,
                 mainVars, resultVars, analysis>>

-----------------------------------------------------------------------------
\* main

\* utils.h, for numbers of at most 4 bits; the digit of value d of a number
Digits == {1, 2, 4, 8}
Bit(x, d) == (x \div d) % 2 = 1

\* x | (x >> n), where by is 2^n
OrShifted(x, by) == (IF Bit(x, 1) \/ Bit(x, by)     THEN 1 ELSE 0)
                    + (IF Bit(x, 2) \/ Bit(x, 2 * by) THEN 2 ELSE 0)
                    + (IF Bit(x, 4) \/ Bit(x, 4 * by) THEN 4 ELSE 0)
                    + (IF Bit(x, 8)                   THEN 8 ELSE 0)

\* the shifts by 4, 8 and 16 change nothing
pow2roundup(x) == IF x = 0 THEN 1 ELSE OrShifted(OrShifted(x - 1, 2), 4) + 1

is_power_of_two(x) == x # 0 /\ \A d \in Digits : ~ (Bit(x, d) /\ Bit(x - 1, d))

Rounded(x) == IF is_power_of_two(x) THEN x ELSE pow2roundup(x)

\* Mutation: the width of the later update is not allowed for.
MaxWidthNow(m) == opt.width

\* What DS_NEW is asked to allow for; create_queue and create_stack raise it to the width.
MaxWidth(m) == LET asked == opt[m.of] * m.times
               IN  IF asked < opt.width THEN opt.width ELSE asked

\* The options, rounding, and DS_NEW.  -w and -l below 1 are ignored.
Setup ==
  /\ Goto(Main, "options", "create")
  /\ initial' = Rounded(opt.initial)
  /\ IF prog.setup.sized
     THEN /\ width' = IF opt.width > 0 THEN opt.width ELSE 1
          /\ depth' = IF opt.depth > 0 THEN opt.depth ELSE 1
          /\ max_width' = MaxWidth(prog.main.max_width)
     ELSE UNCHANGED <<width, depth, max_width>>
  /\ UNCHANGED <<prog, sub, barrierVars, myVars, stop, created, updated, opt, resultVars, analysis>>

CreateThread ==
  /\ pc[Main] = "create"
  /\ created < NumThreads
  /\ pc' = [pc EXCEPT ![created] = "start"]
  /\ created' = created + 1
  /\ UNCHANGED <<prog, containerVars, barrierVars, myVars, stop, updated, initial, opt,
                 resultVars, analysis>>

StartTest == /\ created = NumThreads
             /\ Cross(Main, "barrier_global", "create", "run")

\* What update_width or update_depth is asked for: a multiple of an option.
Requested(u) == (opt[u.of] * u.times) \div u.by

\* update_depth(set, depth*2), update_width(set, width/4)...; test-switch-middle
\* leaves out an update whose option is not given.
UpdateSize ==
  /\ Goto(Main, "run", "run")
  /\ updated < Len(prog.main.updates)
  /\ updated' = updated + 1
  /\ LET u == prog.main.updates[updated + 1] IN
       /\ width' = IF u.what = "width" /\ opt[u.of] # 0 THEN Requested(u) ELSE width
       /\ depth' = IF u.what = "depth" /\ opt[u.of] # 0 THEN Requested(u) ELSE depth
  /\ UNCHANGED <<prog, sub, max_width, barrierVars, myVars, stop, created, initial, opt,
                 resultVars, analysis>>

Stop ==
  /\ Goto(Main, "run", "join")
  /\ updated = Len(prog.main.updates)
  /\ stop' = TRUE
  /\ UNCHANGED <<prog, containerVars, barrierVars, myVars, created, updated, initial, opt,
                 resultVars, analysis>>

\* pthread_join of every thread, then the report
Join ==
  /\ \A t \in Threads : pc[t] = "exit"
  /\ Goto(Main, "join", "report")
  /\ UNCHANGED <<prog, containerVars, barrierVars, myVars, mainVars, resultVars, analysis>>

-----------------------------------------------------------------------------
Aborted == \E t \in Threads : pc[t] = "abort"

ThreadStep(t) ==
  \/ Start(t) \/ Ready(t) \/ Register(t)
  \/ Fill(t) \/ Filled(t) \/ BeforeSize(t) \/ Go(t)
  \/ LoopPut(t) \/ LoopRemove(t) \/ LoopRemoveFails(t) \/ EndBatch(t) \/ Rest(t)
  \/ WakeUp(t) \/ LeaveLoop(t)
  \/ AfterSize(t) \/ Share(t) \/ PrintInOrder(t)

MainStep == Setup \/ CreateThread \/ StartTest \/ UpdateSize \/ Stop \/ Join

\* A program that has reported or aborted does nothing more.
Next == ~ Aborted /\ (MainStep \/ \E t \in Threads : ThreadStep(t))

Spec == Init /\ [][Next]_vars

\* The scheduler runs every thread, and the sleep of main ends.
FairSpec == /\ Spec
            /\ WF_vars(~ Aborted /\ MainStep)
            /\ \A t \in Threads : WF_vars(~ Aborted /\ ThreadStep(t))

-----------------------------------------------------------------------------
\* Properties

\* barrier_cross keeps the phases apart although a fast thread may come back to
\* the barrier before the others have woken up: a thread that is not waiting has
\* begun no more crossings than any other.
BarrierSafe ==
  \A b \in Barriers : \A p, q \in Parties(b) : Awake(p) => arrived[b][p] <= arrived[b][q]

\* The assertion of main (VALIDATESIZE, "ERROR WRONG size"): the size thread 0 has
\* read piece by piece after the loop is initial plus puts minus removes.  Where the
\* assertion is commented out the difference is only printed.
SizeValidated ==
  pc[Main] = "report" /\ prog.report.validates =>
    size_after = initial + SumFunction(putting_count_succ) - SumFunction(removing_count_succ)

\* "BEFORE size is": before the loop the threads together have inserted exactly the
\* smallest power of two that is not below the -i option, also when it is no multiple
\* of their number.
FilledExactly ==
  sizeBefore # -1 => \E k \in 0..5 : /\ sizeBefore = 2^k
                                     /\ sizeBefore >= opt.initial
                                     /\ (k > 0 => 2^(k - 1) < opt.initial)

\* init_relaxation_analysis_local of any thread finds the shared part initialised.
AnalysisReady ==
  prog.test.analysis =>
    \A t \in Threads : pc[t] = "register" /\ Awake(t) => analysis

\* update_width is never asked for more than the sub-structures DS_NEW has allocated
\* (2Dc-stack_elastic.c asserts it), nor for none.
UpdatesInRange == width \in 1..max_width /\ depth >= 1

\* No barrier deadlocks and no thread loops for ever: the program reports, or ends
\* because of too many time stamps.
Terminates == <>(Aborted \/ pc[Main] = "report")
=============================================================================
