---------------------------- MODULE TestPrograms ----------------------------
(***************************************************************************)
(* What tells the benchmark programs apart, as far as Harness is concerned: *)
(* the loop of test and whether it prepares the relaxation analysis, the    *)
(* options that size the container, the sizes main asks for while the       *)
(* threads run, and whether a wrong size stops the program.                 *)
(***************************************************************************)
EXTENDS Naturals, Sequences

CONSTANT Unbounded      \* max_width of -1 or 65535: more than any width tried

None == <<>>

Update(what, of, times, by) == [what |-> what, of |-> of, times |-> times, by |-> by]

\* main of test-switch-middle
SwitchMiddle == <<Update("depth", "elastic_depth", 1, 1), Update("width", "elastic_width", 1, 1)>>

\* main of many-switches-over-time
ManySwitches ==
  <<Update("depth", "depth", 2, 1), Update("depth", "depth", 4, 1), Update("depth", "depth", 1, 1),
    Update("width", "width", 1, 4), Update("width", "width", 2, 1), Update("width", "width", 1, 1),
    Update("depth", "depth", 2, 1), Update("width", "width", 2, 1),
    Update("depth", "depth", 1, 4), Update("width", "width", 1, 2),
    Update("depth", "depth", 1, 1), Update("width", "width", 1, 1)>>

\* 2Dd-queue/test-simple-over-time.c
Queue2DdOverTime_test   == [loop |-> "timed", analysis |-> FALSE]
Queue2DdOverTime_setup  == [sized |-> TRUE]
Queue2DdOverTime_main   == [updates |-> None, max_width |-> [of |-> "width", times |-> 1]]
Queue2DdOverTime_report == [validates |-> TRUE]

\* 2Dc-stack/test-simple-over-time.c
Stack2DcOverTime_test   == [loop |-> "timed", analysis |-> FALSE]
Stack2DcOverTime_setup  == [sized |-> TRUE]
Stack2DcOverTime_main   == [updates |-> None, max_width |-> [of |-> "width", times |-> 1]]
Stack2DcOverTime_report == [validates |-> TRUE]

\* 2Dd-queue_elastic-law/test-simple-over-time.c
QueueLawOverTime_test   == [loop |-> "timed", analysis |-> FALSE]
QueueLawOverTime_setup  == [sized |-> TRUE]
QueueLawOverTime_main   == [updates |-> None, max_width |-> [of |-> "width", times |-> 1]]
QueueLawOverTime_report == [validates |-> TRUE]

\* 2Dd-queue_elastic-lpw/test-simple-over-time.c
QueueLpwOverTime_test   == [loop |-> "timed", analysis |-> FALSE]
QueueLpwOverTime_setup  == [sized |-> TRUE]
QueueLpwOverTime_main   == [updates |-> None, max_width |-> [of |-> "width", times |-> 1]]
QueueLpwOverTime_report == [validates |-> TRUE]

\* 2Dc-stack_elastic-lpw/test-simple-rt-benchmark.c
StackLpwRt_test   == [loop |-> "timed", analysis |-> FALSE]
StackLpwRt_setup  == [sized |-> TRUE]
StackLpwRt_main   == [updates |-> None, max_width |-> [of |-> "width", times |-> 1]]
StackLpwRt_report == [validates |-> TRUE]

\* 2Dc-stack_optimized/test-simple-rt-benchmark.c
StackOptRt_test   == [loop |-> "timed", analysis |-> FALSE]
StackOptRt_setup  == [sized |-> TRUE]
StackOptRt_main   == [updates |-> None, max_width |-> [of |-> "width", times |-> 1]]
StackOptRt_report == [validates |-> TRUE]

\* 2Dc-stack_elastic-lpw/test-simple.c
StackLpwSimple_test   == [loop |-> "plain", analysis |-> FALSE]
StackLpwSimple_setup  == [sized |-> TRUE]
StackLpwSimple_main   == [updates |-> None, max_width |-> [of |-> "width", times |-> 1]]
StackLpwSimple_report == [validates |-> TRUE]

\* 2Dc-stack_optimized/test-simple.c
StackOptSimple_test   == [loop |-> "plain", analysis |-> FALSE]
StackOptSimple_setup  == [sized |-> TRUE]
StackOptSimple_main   == [updates |-> None, max_width |-> [of |-> "width", times |-> 1]]
StackOptSimple_report == [validates |-> TRUE]

\* 2Dd-queue_elastic-law/test-simple.c
QueueLawSimple_test   == [loop |-> "plain", analysis |-> TRUE]
QueueLawSimple_setup  == [sized |-> TRUE]
QueueLawSimple_main   == [updates |-> None, max_width |-> [of |-> "width", times |-> 1]]
QueueLawSimple_report == [validates |-> TRUE]

\* 2Dd-queue_elastic-lpw/test-simple.c
QueueLpwSimple_test   == [loop |-> "plain", analysis |-> TRUE]
QueueLpwSimple_setup  == [sized |-> TRUE]
QueueLpwSimple_main   == [updates |-> None, max_width |-> [of |-> "width", times |-> 1]]
QueueLpwSimple_report == [validates |-> TRUE]

\* 2Dd-queue_elastic-law/test-simple-controller.c
QueueLawController_test   == [loop |-> "plain", analysis |-> FALSE]
QueueLawController_setup  == [sized |-> TRUE]
QueueLawController_main   == [updates |-> None, max_width |-> [of |-> "width", times |-> Unbounded]]
QueueLawController_report == [validates |-> TRUE]

\* 2Dd-queue_elastic-lpw/test-simple-controller.c
QueueLpwController_test   == [loop |-> "plain", analysis |-> FALSE]
QueueLpwController_setup  == [sized |-> TRUE]
QueueLpwController_main   == [updates |-> None, max_width |-> [of |-> "width", times |-> Unbounded]]
QueueLpwController_report == [validates |-> TRUE]

\* 2Dc-stack_elastic-lpw/test-switch-middle.c
StackLpwSwitch_test   == [loop |-> "plain", analysis |-> FALSE]
StackLpwSwitch_setup  == [sized |-> TRUE]
StackLpwSwitch_main   == [updates |-> SwitchMiddle, max_width |-> [of |-> "elastic_width", times |-> 1]]
StackLpwSwitch_report == [validates |-> TRUE]

\* 2Dc-stack_optimized/test-switch-middle.c
StackOptSwitch_test   == [loop |-> "plain", analysis |-> FALSE]
StackOptSwitch_setup  == [sized |-> TRUE]
StackOptSwitch_main   == [updates |-> None, max_width |-> [of |-> "elastic_width", times |-> 1]]
StackOptSwitch_report == [validates |-> TRUE]

\* 2Dd-queue_elastic-law/many-switches-over-time.c
QueueLawSwitches_test   == [loop |-> "timed", analysis |-> FALSE]
QueueLawSwitches_setup  == [sized |-> TRUE]
QueueLawSwitches_main   == [updates |-> ManySwitches, max_width |-> [of |-> "width", times |-> 4]]
QueueLawSwitches_report == [validates |-> TRUE]

\* 2Dd-queue_elastic-lpw/many-switches-over-time.c
QueueLpwSwitches_test   == [loop |-> "timed", analysis |-> FALSE]
QueueLpwSwitches_setup  == [sized |-> TRUE]
QueueLpwSwitches_main   == [updates |-> ManySwitches, max_width |-> [of |-> "width", times |-> 4]]
QueueLpwSwitches_report == [validates |-> TRUE]

\* 2Dc-stack_elastic-lpw/many-switches-over-time.c
StackLpwSwitches_test   == [loop |-> "timed", analysis |-> FALSE]
StackLpwSwitches_setup  == [sized |-> TRUE]
StackLpwSwitches_main   == [updates |-> ManySwitches, max_width |-> [of |-> "width", times |-> 4]]
StackLpwSwitches_report == [validates |-> TRUE]

\* 2Dc-stack_optimized/many-switches-over-time.c
StackOptSwitches_test   == [loop |-> "timed", analysis |-> FALSE]
StackOptSwitches_setup  == [sized |-> TRUE]
StackOptSwitches_main   == [updates |-> None, max_width |-> [of |-> "width", times |-> 4]]
StackOptSwitches_report == [validates |-> TRUE]

\* 2Dd-queue_elastic-law/test-variable-workload.c
QueueLawVariable_test   == [loop |-> "roles", analysis |-> FALSE]
QueueLawVariable_setup  == [sized |-> TRUE]
QueueLawVariable_main   == [updates |-> None, max_width |-> [of |-> "width", times |-> Unbounded]]
QueueLawVariable_report == [validates |-> FALSE]

\* 2Dd-queue_elastic-lpw/test-variable-workload.c
QueueLpwVariable_test   == [loop |-> "roles", analysis |-> FALSE]
QueueLpwVariable_setup  == [sized |-> TRUE]
QueueLpwVariable_main   == [updates |-> None, max_width |-> [of |-> "width", times |-> Unbounded]]
QueueLpwVariable_report == [validates |-> FALSE]

\* queue-k-segment/test_simple.c
KSegmentSimple_test   == [loop |-> "plain", analysis |-> TRUE]
KSegmentSimple_setup  == [sized |-> FALSE]
KSegmentSimple_main   == [updates |-> None, max_width |-> [of |-> "width", times |-> 1]]
KSegmentSimple_report == [validates |-> FALSE]

\* stack-elimination/test_simple.c
EliminationSimple_test   == [loop |-> "plain", analysis |-> FALSE]
EliminationSimple_setup  == [sized |-> FALSE]
EliminationSimple_main   == [updates |-> None, max_width |-> [of |-> "width", times |-> 1]]
EliminationSimple_report == [validates |-> TRUE]

\* stack-treiber/test_simple.c
TreiberSimple_test   == [loop |-> "plain", analysis |-> FALSE]
TreiberSimple_setup  == [sized |-> FALSE]
TreiberSimple_main   == [updates |-> None, max_width |-> [of |-> "width", times |-> 1]]
TreiberSimple_report == [validates |-> TRUE]

Program(t, s, m, r) == [test |-> t, setup |-> s, main |-> m, report |-> r]

\* Programs that differ in nothing modelled here are one element of the set.
AllPrograms ==
  {Program(Queue2DdOverTime_test, Queue2DdOverTime_setup, Queue2DdOverTime_main, Queue2DdOverTime_report),
   Program(Stack2DcOverTime_test, Stack2DcOverTime_setup, Stack2DcOverTime_main, Stack2DcOverTime_report),
   Program(QueueLawOverTime_test, QueueLawOverTime_setup, QueueLawOverTime_main, QueueLawOverTime_report),
   Program(QueueLpwOverTime_test, QueueLpwOverTime_setup, QueueLpwOverTime_main, QueueLpwOverTime_report),
   Program(StackLpwRt_test, StackLpwRt_setup, StackLpwRt_main, StackLpwRt_report),
   Program(StackOptRt_test, StackOptRt_setup, StackOptRt_main, StackOptRt_report),
   Program(StackLpwSimple_test, StackLpwSimple_setup, StackLpwSimple_main, StackLpwSimple_report),
   Program(StackOptSimple_test, StackOptSimple_setup, StackOptSimple_main, StackOptSimple_report),
   Program(QueueLawSimple_test, QueueLawSimple_setup, QueueLawSimple_main, QueueLawSimple_report),
   Program(QueueLpwSimple_test, QueueLpwSimple_setup, QueueLpwSimple_main, QueueLpwSimple_report),
   Program(QueueLawController_test, QueueLawController_setup, QueueLawController_main, QueueLawController_report),
   Program(QueueLpwController_test, QueueLpwController_setup, QueueLpwController_main, QueueLpwController_report),
   Program(StackLpwSwitch_test, StackLpwSwitch_setup, StackLpwSwitch_main, StackLpwSwitch_report),
   Program(StackOptSwitch_test, StackOptSwitch_setup, StackOptSwitch_main, StackOptSwitch_report),
   Program(QueueLawSwitches_test, QueueLawSwitches_setup, QueueLawSwitches_main, QueueLawSwitches_report),
   Program(QueueLpwSwitches_test, QueueLpwSwitches_setup, QueueLpwSwitches_main, QueueLpwSwitches_report),
   Program(StackLpwSwitches_test, StackLpwSwitches_setup, StackLpwSwitches_main, StackLpwSwitches_report),
   Program(StackOptSwitches_test, StackOptSwitches_setup, StackOptSwitches_main, StackOptSwitches_report),
   Program(QueueLawVariable_test, QueueLawVariable_setup, QueueLawVariable_main, QueueLawVariable_report),
   Program(QueueLpwVariable_test, QueueLpwVariable_setup, QueueLpwVariable_main, QueueLpwVariable_report),
   Program(KSegmentSimple_test, KSegmentSimple_setup, KSegmentSimple_main, KSegmentSimple_report),
   Program(EliminationSimple_test, EliminationSimple_setup, EliminationSimple_main, EliminationSimple_report),
   Program(TreiberSimple_test, TreiberSimple_setup, TreiberSimple_main, TreiberSimple_report)}
=============================================================================
