-------------------------- MODULE DBalancedVariants --------------------------
(***************************************************************************)
(* The eight d-CBO queues.  d-balanced-queue.c is the same in all of them; *)
(* what differs is what a macro call of the sub-queue does, and when:      *)
(*                                                                         *)
(*  - announces: the tail version counts claimed places (FAAAQ, LCRQ and   *)
(*    the wait-free queue): an enqueue moves the version first and stores  *)
(*    its item later, unless a dequeue got to the place before, in which   *)
(*    case it claims another.  The MS sub-queue does both at once.         *)
(*  - external: the Simple d-CBO queues balance on counters that the       *)
(*    wrapper external-count-wrapper.c increments after the sub-queue's    *)
(*    operation, while the version is still the sub-queue's own.           *)
(*                                                                         *)
(* The sub-queues keep their promise here: the version differs after every *)
(* claim.  Lcrq shows where LCRQ does not: its early test for empty, and   *)
(* the version that the wrapper of simple-dcbo-lcrq cuts down to an int.   *)
(***************************************************************************)
EXTENDS DBalancedQueue, FiniteSets

CONSTANT MaxVersion    \* bound: places claimed in a sub-queue; an enqueue that
                       \* keeps losing its place to a dequeue claims without end

\* What enqueue and dequeue of each copy of d-balanced-queue.c call.
dcbo_ms_enqueue         == [announces |-> FALSE, external |-> FALSE]
dcbo_faaaq_enqueue      == [announces |-> TRUE,  external |-> FALSE]
dcbo_lcrq_enqueue       == [announces |-> TRUE,  external |-> FALSE]
dcbo_wfqueue_enqueue    == [announces |-> TRUE,  external |-> FALSE]
simple_ms_enqueue       == [announces |-> FALSE, external |-> TRUE]
simple_faaaq_enqueue    == [announces |-> TRUE,  external |-> TRUE]
simple_lcrq_enqueue     == [announces |-> TRUE,  external |-> TRUE]
simple_wfqueue_enqueue  == [announces |-> TRUE,  external |-> TRUE]

dcbo_ms_dequeue         == [external |-> FALSE]
dcbo_faaaq_dequeue      == [external |-> FALSE]
dcbo_lcrq_dequeue       == [external |-> FALSE]
dcbo_wfqueue_dequeue    == [external |-> FALSE]
simple_ms_dequeue       == [external |-> TRUE]
simple_faaaq_dequeue    == [external |-> TRUE]
simple_lcrq_dequeue     == [external |-> TRUE]
simple_wfqueue_dequeue  == [external |-> TRUE]

Designs == {<<dcbo_ms_enqueue, dcbo_ms_dequeue>>, <<dcbo_faaaq_enqueue, dcbo_faaaq_dequeue>>,
            <<dcbo_lcrq_enqueue, dcbo_lcrq_dequeue>>, <<dcbo_wfqueue_enqueue, dcbo_wfqueue_dequeue>>,
            <<simple_ms_enqueue, simple_ms_dequeue>>, <<simple_faaaq_enqueue, simple_faaaq_dequeue>>,
            <<simple_lcrq_enqueue, simple_lcrq_dequeue>>,
            <<simple_wfqueue_enqueue, simple_wfqueue_dequeue>>}

NoDebt == <<"none", 0>>

VARIABLES design,      \* which queue this is
          claimed,     \* threads whose enqueue has claimed a place
          lost,        \* those whose place a dequeue has reached first
          extEnq, extDeq,  \* enq_count and deq_count of the wrappers
          debt         \* the increment of a wrapper's counter still to be made

variantVars == <<claimed, lost, extEnq, extDeq, debt>>
allVars == <<vars, design, variantVars>>

Announces == design[1].announces
External  == design[1].external

VInit == /\ Init
         /\ design \in Designs
         /\ claimed = {} /\ lost = {}
         /\ extEnq = [q \in Queues |-> 0] /\ extDeq = [q \in Queues |-> 0]
         /\ debt = [t \in Threads |-> NoDebt]

\* The claimed places of sub-queue q.
Claims(q) == {t \in claimed : optIndex[t] = q}

\* A dequeue that finds sub-queue q empty has passed every claimed place in it.
PassAll(q) == lost' = lost \cup Claims(q)

\* One that finds an item may have passed some of them.
PassSome(q) == \E passed \in SUBSET Claims(q) : lost' = lost \cup passed

\* PARTIAL_ENQ_COUNT and PARTIAL_DEQ_COUNT
EnqHeuristic == IF External THEN extEnq ELSE enqCount
DeqHeuristic == IF design[2].external THEN extDeq ELSE deqCount

-----------------------------------------------------------------------------
VEnqueue(t) == debt[t] = NoDebt /\ Enqueue(t) /\ UNCHANGED variantVars

VEnqSample(t) ==
  /\ Goto(t, "e_sample", IF LastSample(t) THEN "e_put" ELSE "e_sample")
  /\ Sample(t, EnqHeuristic)
  /\ UNCHANGED variantVars

\* The wrapper's FAI_U64(&queue->enq_count) follows the enqueue.
Owe(t, what, q) == debt' = IF External THEN [debt EXCEPT ![t] = <<what, q>>] ELSE debt

\* the MS sub-queue
VEnqPut(t) ==
  /\ ~Announces
  /\ EnqPut(t)
  /\ Owe(t, "enq", optIndex[t])
  /\ UNCHANGED <<claimed, lost, extEnq, extDeq>>

\* Mutation: the version moves when the item is stored, not when its place is
\* claimed.
ClaimSilent(t) ==
  /\ Announces /\ pc[t] = "e_put" /\ t \notin claimed
  /\ enqCount[optIndex[t]] < MaxVersion
  /\ claimed' = claimed \cup {t}
  /\ UNCHANGED <<queueVars, issued, pc, localVars, lost, extEnq, extDeq, debt>>

\* FAI_U64(&tail->enq_idx) and its likes
Claim(t) ==
  /\ Announces /\ pc[t] = "e_put" /\ t \notin claimed
  /\ enqCount[optIndex[t]] < MaxVersion
  /\ enqCount' = [enqCount EXCEPT ![optIndex[t]] = @ + 1]
  /\ claimed' = claimed \cup {t}
  /\ UNCHANGED <<content, deqCount, issued, pc, localVars, lost, extEnq, extDeq, debt>>

Store(t) ==
  /\ t \in claimed \ lost
  /\ content' = [content EXCEPT ![optIndex[t]] = Append(@, item[t])]
  /\ claimed' = claimed \ {t}
  /\ Return(t)
  /\ Owe(t, "enq", optIndex[t])
  /\ UNCHANGED <<enqCount, deqCount, issued, lost, extEnq, extDeq>>

\* The place is gone: claim another one.
StoreLost(t) ==
  /\ t \in lost
  /\ claimed' = claimed \ {t}
  /\ lost' = lost \ {t}
  /\ UNCHANGED <<vars, extEnq, extDeq, debt>>

\* wrapped_enqueue, wrapped_dequeue: the counter
CountEnq(t) ==
  /\ debt[t][1] = "enq"
  /\ extEnq' = [extEnq EXCEPT ![debt[t][2]] = @ + 1]
  /\ debt' = [debt EXCEPT ![t] = NoDebt]
  /\ UNCHANGED <<vars, claimed, lost, extDeq>>

CountDeq(t) ==
  /\ debt[t][1] = "deq"
  /\ extDeq' = [extDeq EXCEPT ![debt[t][2]] = @ + 1]
  /\ debt' = [debt EXCEPT ![t] = NoDebt]
  /\ UNCHANGED <<vars, claimed, lost, extEnq>>

-----------------------------------------------------------------------------
VDequeue(t) == debt[t] = NoDebt /\ Dequeue(t) /\ UNCHANGED variantVars

VDeqSample(t) ==
  /\ Goto(t, "d_sample", IF LastSample(t) THEN "d_get" ELSE "d_sample")
  /\ Sample(t, DeqHeuristic)
  /\ UNCHANGED variantVars

\* PARTIAL_DEQUEUE answers an item
VGet(t) ==
  /\ \/ DeqGet(t) /\ PassSome(optIndex[t]) /\ Owe(t, "deq", optIndex[t])
     \/ CollectGet(t) /\ PassSome(Index(t)) /\ Owe(t, "deq", Index(t))
  /\ UNCHANGED <<claimed, extEnq, extDeq>>

\* Mutation: the wrapper counts the dequeues that found nothing too.
VNoneCounted(t) ==
  /\ \/ DeqFallback(t) /\ PassAll(optIndex[t]) /\ Owe(t, "deq", optIndex[t])
     \/ CollectEmpty(t) /\ PassAll(Index(t)) /\ Owe(t, "deq", Index(t))
  /\ UNCHANGED <<claimed, extEnq, extDeq>>

\* PARTIAL_DEQUEUE answers EMPTY
VNone(t) ==
  /\ \/ DeqFallback(t) /\ PassAll(optIndex[t])
     \/ CollectEmpty(t) /\ PassAll(Index(t))
  /\ UNCHANGED <<claimed, extEnq, extDeq, debt>>

VRead(t) ==
  /\ CollectVersion(t) \/ RecheckSame(t) \/ RecheckRestart(t) \/ ReturnEmpty(t)
  /\ UNCHANGED variantVars

-----------------------------------------------------------------------------
VEnqStep(t) == \/ VEnqSample(t) \/ VEnqPut(t) \/ Claim(t) \/ Store(t) \/ StoreLost(t)

VDeqStep(t) == VDeqSample(t) \/ VGet(t) \/ VNone(t) \/ VRead(t)

VStep(t) == VEnqueue(t) \/ VEnqStep(t) \/ CountEnq(t) \/ VDequeue(t) \/ VDeqStep(t) \/ CountDeq(t)

VNext == (\E t \in Threads : VStep(t)) /\ Observe /\ UNCHANGED design

VSpec == VInit /\ [][VNext]_allVars

\* Only the dequeues of one thread are sure to be scheduled.
VLockFreeSpec == VSpec /\ WF_allVars(VDeqStep(Runner) /\ Observe /\ UNCHANGED design)

-----------------------------------------------------------------------------
\* Every count a wrapper still owes is owed by one running call: its counters
\* never differ from what happened by more than the calls in progress, however
\* often an enqueue lost its place.
ExternalCounts ==
  External => \A q \in Queues :
    LET owing(what) == {t \in Threads : debt[t] = <<what, q>>}
    IN  Len(content[q]) + extDeq[q] + Cardinality(owing("deq"))
          = extEnq[q] + Cardinality(owing("enq"))
=============================================================================
