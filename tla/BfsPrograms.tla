----------------------------- MODULE BfsPrograms -----------------------------
(***************************************************************************)
(* What tells the copies of test-bfs.c apart: whether run_bfs waits for     *)
(* active_threads, and whether the queue has one or several sub-queues.     *)
(***************************************************************************)
EXTENDS Naturals

CONSTANT Width       \* sub-queues of a relaxed queue

\* dcbo-ms/test-bfs.c
dcbo_ms_run  == [counts |-> TRUE]
dcbo_ms_main == [subs |-> Width]

\* dcbo-lcrq/test-bfs.c
dcbo_lcrq_run  == [counts |-> TRUE]
dcbo_lcrq_main == [subs |-> Width]

\* dcbo-faaaq/test-bfs.c
dcbo_faaaq_run  == [counts |-> TRUE]
dcbo_faaaq_main == [subs |-> Width]

\* dcbo-wfqueue/test-bfs.c
dcbo_wfqueue_run  == [counts |-> TRUE]
dcbo_wfqueue_main == [subs |-> Width]

\* faaaq/test-bfs.c
faaaq_run  == [counts |-> TRUE]
faaaq_main == [subs |-> 1]

\* lcrq/test-bfs.c
lcrq_run  == [counts |-> TRUE]
lcrq_main == [subs |-> 1]

\* ms/test-bfs.c
ms_run  == [counts |-> TRUE]
ms_main == [subs |-> 1]

\* queue-wf/test-bfs.c
queue_wf_run  == [counts |-> TRUE]
queue_wf_main == [subs |-> 1]

\* queue-wf-ssmem/test-bfs.c
queue_wf_ssmem_run  == [counts |-> FALSE]
queue_wf_ssmem_main == [subs |-> 1]

\* 2Dd-queue_optimized/test-bfs.c
queue_2dd_optimized_run  == [counts |-> TRUE]
queue_2dd_optimized_main == [subs |-> Width]

\* Copies that do not differ are one element of the set.
AllPrograms ==
  {[run |-> dcbo_ms_run, main |-> dcbo_ms_main],
   [run |-> dcbo_lcrq_run, main |-> dcbo_lcrq_main],
   [run |-> dcbo_faaaq_run, main |-> dcbo_faaaq_main],
   [run |-> dcbo_wfqueue_run, main |-> dcbo_wfqueue_main],
   [run |-> faaaq_run, main |-> faaaq_main],
   [run |-> lcrq_run, main |-> lcrq_main],
   [run |-> ms_run, main |-> ms_main],
   [run |-> queue_wf_run, main |-> queue_wf_main],
   [run |-> queue_wf_ssmem_run, main |-> queue_wf_ssmem_main],
   [run |-> queue_2dd_optimized_run, main |-> queue_2dd_optimized_main]}
=============================================================================
