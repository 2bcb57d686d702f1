---------------------------- MODULE DBalancedQueue ----------------------------
(***************************************************************************)
(* The d-CBO relaxed queue, dcbo-ms/d-balanced-queue.c: Width sub-queues,  *)
(* an enqueue that samples D of them and takes the one with the fewest     *)
(* enqueues, a dequeue that samples D and takes the one with the fewest    *)
(* dequeues and, if that one is empty, falls back on a double collect over *)
(* all of them.                                                            *)
(*                                                                         *)
(* The code is generic in the sub-queue, which it reaches through the      *)
(* PARTIAL_ macros only; here a macro call is one atomic step of the       *)
(* interface PartialQueue (MSQueue is shown to implement it).  Random      *)
(* choices are nondeterministic.  An item is the number of its enqueue     *)
(* call, capped by MaxItems.                                               *)
(***************************************************************************)
EXTENDS Naturals, Sequences

CONSTANTS Threads,
          Width,       \* number of sub-queues
          D,           \* number of sampled sub-queues
          MaxItems     \* bound: number of enqueue calls

ASSUME DBAssumption == /\ Width \in Nat \ {0}
                       /\ D \in Nat \ {0}
                       /\ MaxItems \in Nat

Queues == 0..(Width - 1)
Items  == 1..MaxItems

VARIABLES content,     \* content[q]: the items of sub-queue q, oldest first
          enqCount,    \* PARTIAL_ENQ_COUNT and PARTIAL_TAIL_VERSION of q
          deqCount,    \* PARTIAL_DEQ_COUNT of q
          issued,      \* enqueue calls so far
          pc,
          item,        \* the argument of the thread's enqueue
          samples,     \* sub-queues sampled so far by the call
          optIndex, opt,
          startIndex,  \* start_index of double_collect
          i,           \* the loop counter of double_collect
          counts,      \* double_collect_counts
          sawEmpty     \* history: dequeuers during whose call all was empty

queueVars == <<content, enqCount, deqCount>>
localVars == <<item, samples, optIndex, opt, startIndex, i, counts>>
vars == <<queueVars, issued, pc, localVars, sawEmpty>>

EnqPCs == {"e_sample", "e_put"}
DeqPCs == {"d_sample", "d_get", "c_version", "c_get", "r_check", "d_empty"}
PCs == {"idle"} \cup EnqPCs \cup DeqPCs

QueueTypes == /\ content \in [Queues -> Seq(Items)]
              /\ enqCount \in [Queues -> Nat]
              /\ deqCount \in [Queues -> Nat]
              /\ issued \in 0..MaxItems

CallTypes == /\ pc \in [Threads -> PCs]
             /\ item \in [Threads -> 0..MaxItems]
             /\ \A t \in Threads : pc[t] \in EnqPCs => item[t] # 0
             /\ sawEmpty \in SUBSET Threads

LocalTypes == /\ samples \in [Threads -> 0..(D - 1)]
              /\ optIndex \in [Threads -> Queues]
              /\ opt \in [Threads -> Nat]
              /\ startIndex \in [Threads -> 0..Width]
              /\ i \in [Threads -> Queues]
              /\ counts \in [Threads -> [Queues -> Nat]]

TypeOK == QueueTypes /\ CallTypes /\ LocalTypes

\* create_queue, d_balanced_register
Init == /\ content = [q \in Queues |-> << >>]
        /\ enqCount = [q \in Queues |-> 0]
        /\ deqCount = [q \in Queues |-> 0]
        /\ issued = 0
        /\ pc = [t \in Threads |-> "idle"]
        /\ item = [t \in Threads |-> 0]
        /\ samples = [t \in Threads |-> 0]
        /\ optIndex = [t \in Threads |-> 0]
        /\ opt = [t \in Threads |-> 0]
        /\ startIndex = [t \in Threads |-> 0]
        /\ i = [t \in Threads |-> 0]
        /\ counts = [t \in Threads |-> [q \in Queues |-> 0]]
        /\ sawEmpty = {}

AllEmpty == \A q \in Queues : content[q] = << >>
Dequeuers == {t \in Threads : pc[t] \in DeqPCs}

\* History: which of the dequeues in progress have seen an instant at which
\* every sub-queue was empty.
Observe == sawEmpty' = IF AllEmpty' THEN Dequeuers' ELSE sawEmpty \cap Dequeuers'

\* A call returns: its locals are gone.  (double_collect_counts outlives the
\* call, but the first pass writes every entry before the second reads it.)
Return(t) == /\ pc' = [pc EXCEPT ![t] = "idle"]
             /\ item' = [item EXCEPT ![t] = 0]
             /\ samples' = [samples EXCEPT ![t] = 0]
             /\ optIndex' = [optIndex EXCEPT ![t] = 0]
             /\ opt' = [opt EXCEPT ![t] = 0]
             /\ startIndex' = [startIndex EXCEPT ![t] = 0]
             /\ i' = [i EXCEPT ![t] = 0]
             /\ counts' = [counts EXCEPT ![t] = [q \in Queues |-> 0]]

Goto(t, from, to) == pc[t] = from /\ pc' = [pc EXCEPT ![t] = to]

\* One round of the sampling loop: read the heuristic of a random sub-queue,
\* keep it if it is the first or strictly better.
LastSample(t) == samples[t] + 1 = D

Sample(t, heuristic) ==
  /\ \E q \in Queues :
       IF samples[t] = 0 \/ heuristic[q] < opt[t]
       THEN /\ optIndex' = [optIndex EXCEPT ![t] = q]
            /\ opt' = [opt EXCEPT ![t] = heuristic[q]]
       ELSE UNCHANGED <<optIndex, opt>>
  /\ samples' = [samples EXCEPT ![t] = IF LastSample(t) THEN 0 ELSE @ + 1]
  /\ UNCHANGED <<queueVars, issued, item, startIndex, i, counts>>

\* Mutation: the item stays in the sub-queue.
TakeKeeps(t, q) ==
  /\ content[q] # << >>
  /\ deqCount' = [deqCount EXCEPT ![q] = @ + 1]
  /\ Return(t)
  /\ UNCHANGED <<content, enqCount, issued>>

\* PARTIAL_DEQUEUE of a sub-queue that holds an item; the caller returns it.
Take(t, q) ==
  /\ content[q] # << >>
  /\ content' = [content EXCEPT ![q] = Tail(@)]
  /\ deqCount' = [deqCount EXCEPT ![q] = @ + 1]
  /\ Return(t)
  /\ UNCHANGED <<enqCount, issued>>

-----------------------------------------------------------------------------
\* enqueue

Enqueue(t) ==
  /\ issued < MaxItems
  /\ Goto(t, "idle", "e_sample")
  /\ issued' = issued + 1
  /\ item' = [item EXCEPT ![t] = issued + 1]
  /\ UNCHANGED <<queueVars, samples, optIndex, opt, startIndex, i, counts>>

EnqSample(t) ==
  /\ Goto(t, "e_sample", IF LastSample(t) THEN "e_put" ELSE "e_sample")
  /\ Sample(t, enqCount)

\* PARTIAL_ENQUEUE(&set->queues[opt_index], key, val)
EnqPut(t) ==
  /\ pc[t] = "e_put"
  /\ content' = [content EXCEPT ![optIndex[t]] = Append(@, item[t])]
  /\ enqCount' = [enqCount EXCEPT ![optIndex[t]] = @ + 1]
  /\ Return(t)
  /\ UNCHANGED <<deqCount, issued>>

-----------------------------------------------------------------------------
\* dequeue

Dequeue(t) ==
  /\ Goto(t, "idle", "d_sample")
  /\ UNCHANGED <<queueVars, issued, localVars>>

DeqSample(t) ==
  /\ Goto(t, "d_sample", IF LastSample(t) THEN "d_get" ELSE "d_sample")
  /\ Sample(t, deqCount)

DeqGet(t) ==
  /\ pc[t] = "d_get"
  /\ Take(t, optIndex[t])

\* Mutation: the fallback starts one sub-queue too far.
DeqFallbackTooFar(t) ==
  /\ content[optIndex[t]] = << >>
  /\ Goto(t, "d_get", "c_version")
  /\ startIndex' = [startIndex EXCEPT ![t] = optIndex[t] + 2]
  /\ i' = [i EXCEPT ![t] = 0]
  /\ optIndex' = [optIndex EXCEPT ![t] = 0]
  /\ opt' = [opt EXCEPT ![t] = 0]
  /\ UNCHANGED <<queueVars, issued, item, samples, counts>>

\* EMPTY: double_collect(set, opt_index + 1)
DeqFallback(t) ==
  /\ content[optIndex[t]] = << >>
  /\ Goto(t, "d_get", "c_version")
  /\ startIndex' = [startIndex EXCEPT ![t] = optIndex[t] + 1]
  /\ i' = [i EXCEPT ![t] = 0]
  /\ optIndex' = [optIndex EXCEPT ![t] = 0]
  /\ opt' = [opt EXCEPT ![t] = 0]
  /\ UNCHANGED <<queueVars, issued, item, samples, counts>>

-----------------------------------------------------------------------------
\* double_collect

\* index = (start_index + i) % width
Index(t) == (startIndex[t] + i[t]) % Width

LastRound(t) == i[t] + 1 = Width

\* i++ of either loop: the next round, or what follows the loop
Advance(t, loop, after) ==
  /\ pc' = [pc EXCEPT ![t] = IF LastRound(t) THEN after ELSE loop]
  /\ i' = [i EXCEPT ![t] = IF LastRound(t) THEN 0 ELSE @ + 1]

CollectVersion(t) ==
  /\ Goto(t, "c_version", "c_get")
  /\ counts' = [counts EXCEPT ![t][Index(t)] = enqCount[Index(t)]]
  /\ UNCHANGED <<queueVars, issued, item, samples, optIndex, opt, startIndex, i>>

CollectGet(t) ==
  /\ pc[t] = "c_get"
  /\ Take(t, Index(t))

CollectEmpty(t) ==
  /\ pc[t] = "c_get"
  /\ content[Index(t)] = << >>
  /\ Advance(t, "c_version", "r_check")
  /\ UNCHANGED <<queueVars, issued, item, samples, optIndex, opt, startIndex, counts>>

\* Mutation: a single collect, the second pass accepts whatever it reads.
RecheckNothing(t) ==
  /\ pc[t] = "r_check"
  /\ Advance(t, "r_check", "d_empty")
  /\ UNCHANGED <<queueVars, issued, item, samples, optIndex, opt, startIndex, counts>>

RecheckSame(t) ==
  /\ pc[t] = "r_check"
  /\ counts[t][Index(t)] = enqCount[Index(t)]
  /\ Advance(t, "r_check", "d_empty")
  /\ UNCHANGED <<queueVars, issued, item, samples, optIndex, opt, startIndex, counts>>

\* Mutation: the restart repeats the second pass with the old versions.
RestartRecheck(t) ==
  /\ counts[t][Index(t)] # enqCount[Index(t)]
  /\ Goto(t, "r_check", "r_check")
  /\ startIndex' = [startIndex EXCEPT ![t] = Index(t)]
  /\ i' = [i EXCEPT ![t] = 0]
  /\ UNCHANGED <<queueVars, issued, item, samples, optIndex, opt, counts>>

\* start_index = index; goto start
RecheckRestart(t) ==
  /\ counts[t][Index(t)] # enqCount[Index(t)]
  /\ Goto(t, "r_check", "c_version")
  /\ startIndex' = [startIndex EXCEPT ![t] = Index(t)]
  /\ i' = [i EXCEPT ![t] = 0]
  /\ UNCHANGED <<queueVars, issued, item, samples, optIndex, opt, counts>>

ReturnEmpty(t) ==
  /\ pc[t] = "d_empty"
  /\ Return(t)
  /\ UNCHANGED <<queueVars, issued>>

-----------------------------------------------------------------------------
EnqStep(t) == EnqSample(t) \/ EnqPut(t)

DeqStep(t) == \/ DeqSample(t) \/ DeqGet(t) \/ DeqFallback(t)
              \/ CollectVersion(t) \/ CollectGet(t) \/ CollectEmpty(t)
              \/ RecheckSame(t) \/ RecheckRestart(t) \/ ReturnEmpty(t)

Step(t) == Enqueue(t) \/ EnqStep(t) \/ Dequeue(t) \/ DeqStep(t)

Next == (\E t \in Threads : Step(t)) /\ Observe

Spec == Init /\ [][Next]_vars

\* Only the dequeues of one thread are sure to be scheduled.
Runner == CHOOSE t \in Threads : TRUE

LockFreeSpec == Spec /\ WF_vars(DeqStep(Runner) /\ Observe)

-----------------------------------------------------------------------------
\* Properties

\* double_collect returns EMPTY (d-balanced-queue.c:81) only if at some instant
\* since the dequeue was called every sub-queue was empty, although it never
\* looks at two of them at once.
EmptyLinearizable == \A t \in Threads : pc[t] = "d_empty" => t \in sawEmpty

Contents == UNION {{content[q][k] : k \in 1..Len(content[q])} : q \in Queues}

Bag == INSTANCE RelaxedBag
         WITH bag <- Contents,
              used <- 1..issued,
              op <- [t \in Threads |-> IF pc[t] \in DeqPCs THEN <<"get">>
                                       ELSE IF pc[t] \in EnqPCs THEN <<"put", item[t]>>
                                       ELSE <<"idle">>]

\* The d-CBO queue loses no item, returns none twice, and is empty-linearizable:
\* it implements RelaxedBag.
IsRelaxedBag == Bag!Spec

\* What makes EmptyLinearizable inductive.  Round j of the current collect:
Round(t, j) == (startIndex[t] + j) % Width

\* a version never runs ahead of the count it was read from, and as long as it
\* still equals the count the sub-queue has stayed empty since it was found so;
CollectedEmpty(t, q) == /\ counts[t][q] <= enqCount[q]
                        /\ counts[t][q] = enqCount[q] => content[q] = << >>

CollectInv(t) ==
  /\ pc[t] \in {"c_version", "c_get"}
       => \A j \in 0..(i[t] - 1) : CollectedEmpty(t, Round(t, j))
  /\ pc[t] = "c_get" => counts[t][Index(t)] <= enqCount[Index(t)]

\* in the second pass, either all sub-queues were empty together at some instant
\* or one not yet rechecked has a newer version.
RecheckInv(t) ==
  pc[t] = "r_check" =>
    \/ t \in sawEmpty
    \/ \E j \in i[t]..(Width - 1) : counts[t][Round(t, j)] < enqCount[Round(t, j)]

DoubleCollectInv == /\ \A t \in Threads : CollectInv(t)
                    /\ \A t \in Threads : RecheckInv(t)
                    /\ EmptyLinearizable

\* A double collect restarts only because of an enqueue, so with finitely many
\* enqueues every dequeue ends, even if all other threads stop anywhere.
DequeueTerminates == pc[Runner] \in DeqPCs ~> pc[Runner] = "idle"
=============================================================================
