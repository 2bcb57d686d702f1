----------------------- MODULE DBalancedVariants_proofs -----------------------
(***************************************************************************)
(* Proofs about the d-CBO queue of dcbo-ms, and then about all eight d-CBO *)
(* queues at once, for every number of threads, sub-queues, samples and    *)
(* enqueues: whatever the design, the double collect is right about EMPTY, *)
(* no item is lost or returned twice, and the wrappers' counters are       *)
(* behind by the calls in progress only.                                   *)
(***************************************************************************)
EXTENDS DBalancedVariants, FiniteSetTheorems, TLAPS

-----------------------------------------------------------------------------
\* The d-CBO queue over MS queues

\* The index computation of double_collect (d-balanced-queue.c:64) wraps at
\* most once, because start_index is at most the width.
LEMMA Modulo ==
  ASSUME NEW x \in Nat, x < 2 * Width
  PROVE  x % Width = IF x < Width THEN x ELSE x - Width
  BY DBAssumption, SMT

\* Bounds of the indices the code derives from a sub-queue index.
LEMMA QueueIndex ==
  ASSUME NEW q \in Queues
  PROVE  q \in 0..Width /\ q + 1 \in 0..Width
  BY DBAssumption DEF Queues

LEMMA FirstQueue == 0 \in Queues
  BY DBAssumption DEF Queues

\* The loop counters of the sampling loop and of double_collect stay in range.
LEMMA NextSample ==
  ASSUME NEW n \in 0..(D - 1)
  PROVE  (IF n + 1 = D THEN 0 ELSE n + 1) \in 0..(D - 1)
  BY DBAssumption

LEMMA NextRound ==
  ASSUME NEW n \in Queues
  PROVE  (IF n + 1 = Width THEN 0 ELSE n + 1) \in Queues
  BY DBAssumption DEF Queues

\* Every round of double_collect addresses a sub-queue.
LEMMA RoundInRange ==
  ASSUME NEW s \in 0..Width, NEW j \in Queues
  PROVE  (s + j) % Width \in Queues
  BY DBAssumption, SMT DEF Queues

\* Whatever start_index is, the Width rounds of a pass reach every sub-queue.
LEMMA RoundsCover ==
  ASSUME NEW s \in 0..Width, NEW q \in Queues
  PROVE  \E j \in Queues : (s + j) % Width = q
<1>1. CASE s <= q
  <2>1. q - s \in Queues /\ s + (q - s) = q /\ q < 2 * Width /\ q \in Nat
    BY <1>1, DBAssumption DEF Queues
  <2>2. q % Width = q
    BY <2>1, Modulo, DBAssumption DEF Queues
  <2> QED BY <2>1, <2>2
<1>2. CASE s > q
  <2>1. /\ q + Width - s \in Queues
        /\ s + (q + Width - s) = q + Width
        /\ q + Width < 2 * Width
        /\ q + Width \in Nat
    BY <1>2, DBAssumption DEF Queues
  <2>2. (q + Width) % Width = q
    BY <2>1, Modulo, DBAssumption DEF Queues
  <2> QED BY <2>1, <2>2
<1> QED BY <1>1, <1>2, DBAssumption DEF Queues

-----------------------------------------------------------------------------
\* A call that returns leaves well-typed locals behind.
LEMMA ReturnTypes ==
  ASSUME TypeOK, NEW t \in Threads, Return(t), sawEmpty' \in SUBSET Threads
  PROVE  CallTypes' /\ LocalTypes'
<1> USE DBAssumption DEF TypeOK, CallTypes, LocalTypes, Return, PCs, EnqPCs, DeqPCs
<1>1. CallTypes'
  OBVIOUS
<1>2. LocalTypes'
  BY FirstQueue, DBAssumption
<1> QED BY <1>1, <1>2

\* A step keeps the types.
LEMMA TypeStep ==
  ASSUME TypeOK, NEW t \in Threads, Step(t), Observe
  PROVE  TypeOK'
<1> USE DBAssumption DEF TypeOK
<1>0. sawEmpty' \in SUBSET Threads
  BY DEF Observe, Dequeuers, CallTypes
<1>i. Index(t) \in Queues
  BY RoundInRange DEF Index, LocalTypes
<1>1. CASE Enqueue(t)
  <2>1. QueueTypes'
    BY <1>1 DEF Enqueue, Goto, queueVars, QueueTypes
  <2>2. CallTypes'
    BY <1>0, <1>1 DEF Enqueue, Goto, PCs, EnqPCs, DeqPCs, QueueTypes, CallTypes
  <2>3. LocalTypes'
    BY <1>1 DEF Enqueue, LocalTypes
  <2> QED BY <2>1, <2>2, <2>3
<1>2. CASE EnqSample(t)
  <2>1. QueueTypes'
    BY <1>2 DEF EnqSample, Goto, Sample, queueVars, QueueTypes
  <2>2. CallTypes'
    BY <1>0, <1>2 DEF EnqSample, Goto, Sample, PCs, EnqPCs, DeqPCs, CallTypes
  <2>3. LocalTypes'
    <3>0. samples[t] \in 0..(D - 1)
      BY DEF LocalTypes
    <3>1. (IF LastSample(t) THEN 0 ELSE samples[t] + 1) \in 0..(D - 1)
      BY <3>0, NextSample DEF LastSample
    <3> QED BY ZenonT(60), <3>1, <1>2 DEF EnqSample, Sample, QueueTypes, LocalTypes
  <2> QED BY <2>1, <2>2, <2>3
<1>3. CASE EnqPut(t)
  <2>1. QueueTypes'
    <3>1. item[t] \in Items /\ optIndex[t] \in Queues
      BY <1>3 DEF EnqPut, CallTypes, LocalTypes, Items, EnqPCs
    <3>2. Append(content[optIndex[t]], item[t]) \in Seq(Items)
      BY <3>1 DEF QueueTypes
    <3> QED BY SMTT(30), <1>3, <3>1, <3>2 DEF EnqPut, QueueTypes
  <2>2. Return(t)
    BY <1>3 DEF EnqPut
  <2> QED BY <1>0, <2>1, <2>2, ReturnTypes
<1>4. CASE Dequeue(t)
  <2>1. QueueTypes'
    BY <1>4 DEF Dequeue, Goto, queueVars, localVars, QueueTypes
  <2>2. CallTypes'
    BY <1>0, <1>4 DEF Dequeue, Goto, localVars, PCs, EnqPCs, DeqPCs, CallTypes
  <2>3. LocalTypes'
    BY <1>4 DEF Dequeue, LocalTypes, localVars
  <2> QED BY <2>1, <2>2, <2>3
<1>5. CASE DeqSample(t)
  <2>1. QueueTypes'
    BY <1>5 DEF DeqSample, Goto, Sample, queueVars, QueueTypes
  <2>2. CallTypes'
    BY <1>0, <1>5 DEF DeqSample, Goto, Sample, PCs, EnqPCs, DeqPCs, CallTypes
  <2>3. LocalTypes'
    <3>0. samples[t] \in 0..(D - 1)
      BY DEF LocalTypes
    <3>1. (IF LastSample(t) THEN 0 ELSE samples[t] + 1) \in 0..(D - 1)
      BY <3>0, NextSample DEF LastSample
    <3> QED BY ZenonT(60), <3>1, <1>5 DEF DeqSample, Sample, QueueTypes, LocalTypes
  <2> QED BY <2>1, <2>2, <2>3
<1>6. CASE DeqGet(t)
  <2>1. QueueTypes'
    BY SMTT(30), <1>6 DEF DeqGet, Take, QueueTypes, LocalTypes
  <2>2. Return(t)
    BY <1>6 DEF DeqGet, Take
  <2> QED BY <1>0, <2>1, <2>2, ReturnTypes
<1>7. CASE DeqFallback(t)
  <2>1. QueueTypes'
    BY <1>7 DEF DeqFallback, Goto, queueVars, QueueTypes
  <2>2. CallTypes'
    BY <1>0, <1>7 DEF DeqFallback, Goto, PCs, EnqPCs, DeqPCs, CallTypes
  <2>3. LocalTypes'
    <3>0. optIndex[t] \in Queues
      BY DEF LocalTypes
    <3>1. optIndex[t] + 1 \in 0..Width
      BY <3>0, QueueIndex
    <3> QED BY <1>7, <3>1, FirstQueue DEF DeqFallback, LocalTypes
  <2> QED BY <2>1, <2>2, <2>3
<1>8. CASE CollectVersion(t)
  <2>1. QueueTypes'
    BY <1>8 DEF CollectVersion, Goto, queueVars, QueueTypes
  <2>2. CallTypes'
    BY <1>0, <1>8 DEF CollectVersion, Goto, PCs, EnqPCs, DeqPCs, CallTypes
  <2>3. LocalTypes'
    BY <1>i, <1>8 DEF CollectVersion, QueueTypes, LocalTypes
  <2> QED BY <2>1, <2>2, <2>3
<1>9. CASE CollectGet(t)
  <2>1. QueueTypes'
    BY <1>i, <1>9 DEF CollectGet, Take, QueueTypes
  <2>2. Return(t)
    BY <1>9 DEF CollectGet, Take
  <2> QED BY <1>0, <2>1, <2>2, ReturnTypes
<1>10. CASE CollectEmpty(t)
  <2>1. QueueTypes'
    BY <1>10 DEF CollectEmpty, queueVars, QueueTypes
  <2>2. CallTypes'
    BY <1>0, <1>10 DEF CollectEmpty, Advance, PCs, EnqPCs, DeqPCs, CallTypes
  <2>3. LocalTypes'
    <3>0. i[t] \in Queues
      BY DEF LocalTypes
    <3>1. (IF LastRound(t) THEN 0 ELSE i[t] + 1) \in Queues
      BY <3>0, NextRound DEF LastRound
    <3> QED BY <3>1, <1>10 DEF CollectEmpty, Advance, LocalTypes
  <2> QED BY <2>1, <2>2, <2>3
<1>11. CASE RecheckSame(t)
  <2>1. QueueTypes'
    BY <1>11 DEF RecheckSame, queueVars, QueueTypes
  <2>2. CallTypes'
    BY <1>0, <1>11 DEF RecheckSame, Advance, PCs, EnqPCs, DeqPCs, CallTypes
  <2>3. LocalTypes'
    <3>0. i[t] \in Queues
      BY DEF LocalTypes
    <3>1. (IF LastRound(t) THEN 0 ELSE i[t] + 1) \in Queues
      BY <3>0, NextRound DEF LastRound
    <3> QED BY <3>1, <1>11 DEF RecheckSame, Advance, LocalTypes
  <2> QED BY <2>1, <2>2, <2>3
<1>12. CASE RecheckRestart(t)
  <2>1. QueueTypes'
    BY <1>12 DEF RecheckRestart, Goto, queueVars, QueueTypes
  <2>2. CallTypes'
    BY <1>0, <1>12 DEF RecheckRestart, Goto, PCs, EnqPCs, DeqPCs, CallTypes
  <2>3. LocalTypes'
    <3>1. Index(t) \in 0..Width /\ 0 \in Queues
      BY <1>i, QueueIndex, FirstQueue
    <3> QED BY <3>1, <1>12 DEF RecheckRestart, LocalTypes
  <2> QED BY <2>1, <2>2, <2>3
<1>13. CASE ReturnEmpty(t)
  <2>1. QueueTypes'
    BY <1>13 DEF ReturnEmpty, queueVars, QueueTypes
  <2>2. Return(t)
    BY <1>13 DEF ReturnEmpty
  <2> QED BY <1>0, <2>1, <2>2, ReturnTypes
<1> QED
  BY <1>1, <1>2, <1>3, <1>4, <1>5, <1>6, <1>7, <1>8, <1>9, <1>10,
     <1>11, <1>12, <1>13 DEF Step, EnqStep, DeqStep

\* The state of the d-CBO queue keeps its type: in particular start_index stays
\* in 0..width and every index the code computes is that of a sub-queue.
THEOREM TypeCorrect == Spec => []TypeOK
<1>1. Init => TypeOK
  BY DBAssumption
     DEF Init, TypeOK, QueueTypes, CallTypes, LocalTypes, Queues, PCs, EnqPCs, Items
<1>2. TypeOK /\ [Next]_vars => TypeOK'
  <2> SUFFICES ASSUME TypeOK, [Next]_vars PROVE TypeOK'
    OBVIOUS
  <2>1. CASE UNCHANGED vars
    BY <2>1 DEF vars, queueVars, localVars, TypeOK, QueueTypes, CallTypes, LocalTypes
  <2> QED BY <2>1, TypeStep DEF Next
<1> QED BY <1>1, <1>2, PTL DEF Spec

-----------------------------------------------------------------------------
\* The rounds of one pass address different sub-queues.
LEMMA RoundsDistinct ==
  ASSUME NEW s \in 0..Width, NEW j \in Queues, NEW k \in Queues, j < k
  PROVE  (s + j) % Width # (s + k) % Width
<1>1. ASSUME NEW x \in Nat, NEW y \in Nat, x < y, y < x + Width, y < 2 * Width
      PROVE  x % Width # y % Width
  <2>1. x % Width = IF x < Width THEN x ELSE x - Width
    BY <1>1, Modulo, DBAssumption
  <2>2. y % Width = IF y < Width THEN y ELSE y - Width
    BY <1>1, Modulo
  <2> QED BY <1>1, <2>1, <2>2, DBAssumption
<1>2. /\ s + j \in Nat /\ s + k \in Nat /\ s + j < s + k
      /\ s + k < (s + j) + Width /\ s + k < 2 * Width
  BY DBAssumption DEF Queues
<1> QED BY <1>1, <1>2

\* What any step does to a sub-queue: its version never decreases, and while
\* the version stays the same an empty sub-queue stays empty.
LEMMA QueueStep ==
  ASSUME TypeOK, NEW u \in Threads, Step(u), NEW q \in Queues
  PROVE  /\ enqCount[q] \in Nat /\ enqCount'[q] \in Nat
         /\ enqCount[q] <= enqCount'[q]
         /\ enqCount'[q] = enqCount[q] /\ content[q] = << >> => content'[q] = << >>
<1>0. enqCount[q] \in Nat
  BY DEF TypeOK, QueueTypes
<1>1. CASE UNCHANGED <<content, enqCount>>
  BY <1>0, <1>1
<1>2. CASE EnqPut(u)
  <2>1. enqCount' = [enqCount EXCEPT ![optIndex[u]] = @ + 1]
    BY <1>2 DEF EnqPut
  <2>2. content' = [content EXCEPT ![optIndex[u]] = Append(@, item[u])]
    BY <1>2 DEF EnqPut
  <2>3. CASE q = optIndex[u]
    <3>1. enqCount'[q] = enqCount[q] + 1
      BY <2>1, <2>3 DEF TypeOK, QueueTypes
    <3> QED BY <3>1, <1>0
  <2>4. CASE q # optIndex[u]
    <3>1. enqCount'[q] = enqCount[q] /\ content'[q] = content[q]
      BY <2>1, <2>2, <2>4 DEF TypeOK, QueueTypes
    <3> QED BY <3>1, <1>0
  <2> QED BY <2>3, <2>4
<1>3. ASSUME NEW r \in Queues, Take(u, r)
      PROVE  /\ enqCount[q] \in Nat /\ enqCount'[q] \in Nat
             /\ enqCount[q] <= enqCount'[q]
             /\ enqCount'[q] = enqCount[q] /\ content[q] = << >> => content'[q] = << >>
  <2>1. enqCount'[q] = enqCount[q]
    BY <1>3 DEF Take
  <2>2. content[q] = << >> => content'[q] = content[q]
    BY <1>3 DEF Take, TypeOK, QueueTypes
  <2> QED BY <2>1, <2>2, <1>0
<1>4. optIndex[u] \in Queues /\ Index(u) \in Queues
  BY RoundInRange DEF Index, TypeOK, LocalTypes
<1>5. CASE DeqGet(u) \/ CollectGet(u)
  BY <1>3, <1>4, <1>5 DEF DeqGet, CollectGet
<1> QED
  BY <1>1, <1>2, <1>5
     DEF Step, EnqStep, DeqStep, Enqueue, EnqSample, Dequeue, DeqSample, Sample,
         DeqFallback, CollectVersion, CollectEmpty, RecheckSame, RecheckRestart,
         ReturnEmpty, queueVars

\* A step of one thread leaves the double collect of another alone.
LEMMA OtherThread ==
  ASSUME TypeOK, NEW u \in Threads, Step(u), NEW t \in Threads, t # u
  PROVE  /\ pc'[t] = pc[t] /\ startIndex'[t] = startIndex[t]
         /\ i'[t] = i[t] /\ counts'[t] = counts[t]
<1> USE DEF TypeOK, CallTypes, LocalTypes
<1>1. CASE Enqueue(u) \/ EnqStep(u)
  BY <1>1 DEF Enqueue, EnqStep, EnqSample, EnqPut, Sample, Return, Goto
<1>2. CASE Dequeue(u) \/ DeqSample(u) \/ DeqGet(u) \/ DeqFallback(u)
  BY <1>2 DEF Dequeue, DeqSample, DeqGet, DeqFallback, Sample, Take, Return, Goto,
              localVars
<1>3. CASE CollectVersion(u) \/ CollectGet(u) \/ CollectEmpty(u)
  BY <1>3 DEF CollectVersion, CollectGet, CollectEmpty, Take, Return, Advance, Goto
<1>4. CASE RecheckSame(u) \/ RecheckRestart(u) \/ ReturnEmpty(u)
  BY <1>4 DEF RecheckSame, RecheckRestart, ReturnEmpty, Return, Advance, Goto
<1> QED BY <1>1, <1>2, <1>3, <1>4 DEF Step, DeqStep

\* A dequeue that has seen all sub-queues empty has seen it until it returns,
\* and one that is in progress when they all are empty has seen it.
LEMMA Seen ==
  ASSUME Observe, NEW t \in Threads, pc'[t] \in DeqPCs, t \in sawEmpty \/ AllEmpty'
  PROVE  t \in sawEmpty'
<1>1. t \in Dequeuers'
  BY DEF Dequeuers
<1> QED BY <1>1 DEF Observe

\* The three parts of DoubleCollectInv that speak about one thread.
ThreadInv(t) == /\ CollectInv(t)
                /\ RecheckInv(t)
                /\ pc[t] = "d_empty" => t \in sawEmpty

\* Thread t takes no part in the step, versions do not go back, and what t has
\* found empty stays so as long as its version does: t keeps its invariant.
LEMMA OtherKeeps ==
  ASSUME TypeOK, TypeOK', Observe, NEW t \in Threads, ThreadInv(t),
         pc'[t] = pc[t], startIndex'[t] = startIndex[t], i'[t] = i[t], counts'[t] = counts[t],
         \A q \in Queues : enqCount[q] <= enqCount'[q],
         \A q \in Queues :
           /\ pc[t] \in {"c_version", "c_get"}
           /\ \E j \in 0..(i[t] - 1) : Round(t, j) = q
           /\ counts[t][q] = enqCount[q] /\ enqCount'[q] = enqCount[q] /\ content[q] = << >>
           => content'[q] = << >>
  PROVE  ThreadInv(t)'
<1>1. \A q \in Queues : enqCount[q] \in Nat /\ enqCount'[q] \in Nat /\ counts[t][q] \in Nat
  BY DEF TypeOK, QueueTypes, LocalTypes
<1>2. i[t] \in Queues /\ startIndex[t] \in 0..Width
  BY DEF TypeOK, LocalTypes
<1>3. \A j \in Queues : Round(t, j) \in Queues /\ Round(t, j)' = Round(t, j)
  BY <1>2, RoundInRange DEF Round
<1>4. Index(t) \in Queues /\ Index(t)' = Index(t)
  BY <1>2, RoundInRange DEF Index
<1>5. CollectInv(t)'
  <2>1. ASSUME pc'[t] \in {"c_version", "c_get"}, NEW j \in 0..(i[t] - 1)
        PROVE  CollectedEmpty(t, Round(t, j))'
    <3>1. j \in Queues
      BY <1>2, DBAssumption DEF Queues
    <3>2. CollectedEmpty(t, Round(t, j))
      BY <2>1 DEF ThreadInv, CollectInv
    <3>3. Round(t, j) \in Queues /\ Round(t, j)' = Round(t, j)
      BY <3>1, <1>3
    <3>4. /\ counts'[t][Round(t, j)] <= enqCount'[Round(t, j)]
          /\ counts'[t][Round(t, j)] = enqCount'[Round(t, j)] => content'[Round(t, j)] = << >>
      BY <1>1, <2>1, <3>2, <3>3 DEF CollectedEmpty
    <3> QED BY <3>3, <3>4 DEF CollectedEmpty
  <2>2. ASSUME pc'[t] = "c_get" PROVE counts'[t][Index(t)'] <= enqCount'[Index(t)']
    <3>1. counts[t][Index(t)] <= enqCount[Index(t)]
      BY <2>2 DEF ThreadInv, CollectInv
    <3> QED BY <1>1, <1>4, <3>1
  <2> QED BY <2>1, <2>2 DEF CollectInv
<1>6. RecheckInv(t)'
  <2> SUFFICES ASSUME pc'[t] = "r_check", ~ (t \in sawEmpty')
               PROVE  \E j \in i'[t]..(Width - 1) :
                         counts'[t][Round(t, j)'] < enqCount'[Round(t, j)']
    BY DEF RecheckInv
  <2>1. ~ (t \in sawEmpty)
    BY Seen DEF DeqPCs
  <2>2. PICK j \in i[t]..(Width - 1) : counts[t][Round(t, j)] < enqCount[Round(t, j)]
    BY <2>1 DEF ThreadInv, RecheckInv
  <2>3. j \in Queues
    BY <1>2 DEF Queues
  <2>4. counts'[t][Round(t, j)] < enqCount'[Round(t, j)]
    BY <1>1, <1>3, <2>2, <2>3
  <2> QED BY <1>3, <2>3, <2>4
<1>7. pc'[t] = "d_empty" => t \in sawEmpty'
  BY Seen DEF ThreadInv, DeqPCs
<1> QED BY <1>5, <1>6, <1>7 DEF ThreadInv

\* A step of another thread preserves them.
LEMMA OtherPreserves ==
  ASSUME TypeOK, NEW u \in Threads, Step(u), Observe,
         NEW t \in Threads, t # u, ThreadInv(t)
  PROVE  ThreadInv(t)'
<1>1. /\ pc'[t] = pc[t] /\ startIndex'[t] = startIndex[t]
      /\ i'[t] = i[t] /\ counts'[t] = counts[t]
  BY OtherThread
<1>2. TypeOK'
  BY TypeStep
<1> QED BY <1>1, <1>2, QueueStep, OtherKeeps

\* A thread's own steps preserve them.
LEMMA OwnPreserves ==
  ASSUME TypeOK, NEW t \in Threads, Step(t), Observe, ThreadInv(t)
  PROVE  ThreadInv(t)'
<1> DEFINE Collecting == {"c_version", "c_get", "r_check", "d_empty"}
<1>t. /\ i[t] \in Queues /\ startIndex[t] \in 0..Width
      /\ pc \in [Threads -> PCs] /\ i \in [Threads -> Queues]
      /\ counts \in [Threads -> [Queues -> Nat]]
  BY DEF TypeOK, LocalTypes, CallTypes
<1>r. \A j \in Queues : Round(t, j) \in Queues
  BY <1>t, RoundInRange DEF Round
<1>x. Index(t) = Round(t, i[t]) /\ Index(t) \in Queues
  BY <1>t, <1>r DEF Index, Round
<1>1. ASSUME pc'[t] \notin Collecting PROVE ThreadInv(t)'
  BY <1>1 DEF ThreadInv, CollectInv, RecheckInv
<1>2. ASSUME pc'[t] = "c_version", i'[t] = 0 PROVE ThreadInv(t)'
  BY <1>2 DEF ThreadInv, CollectInv, RecheckInv
<1>3. CASE Enqueue(t) \/ EnqStep(t) \/ Dequeue(t) \/ DeqSample(t)
  <2>1. pc'[t] \in {"e_sample", "e_put", "idle", "d_sample", "d_get"}
    BY <1>3, <1>t DEF Enqueue, EnqStep, EnqSample, EnqPut, Dequeue, DeqSample, Return, Goto
  <2> QED BY <1>1, <2>1
<1>4. CASE DeqGet(t) \/ CollectGet(t) \/ ReturnEmpty(t)
  <2>1. pc'[t] = "idle"
    BY <1>4, <1>t DEF DeqGet, CollectGet, ReturnEmpty, Take, Return
  <2> QED BY <1>1, <2>1
<1>5. CASE DeqFallback(t) \/ RecheckRestart(t)
  <2>1. pc'[t] = "c_version" /\ i'[t] = 0
    BY <1>5, <1>t DEF DeqFallback, RecheckRestart, Goto
  <2> QED BY <1>2, <2>1
<1>6. CASE CollectVersion(t)
  <2>1. /\ pc[t] = "c_version" /\ pc'[t] = "c_get" /\ i' = i /\ startIndex' = startIndex
        /\ content' = content /\ enqCount' = enqCount
    BY <1>6, <1>t DEF CollectVersion, Goto, queueVars
  <2>2. counts'[t] = [counts[t] EXCEPT ![Index(t)] = enqCount[Index(t)]]
    BY <1>6, <1>t DEF CollectVersion
  <2>3. ASSUME NEW j \in 0..(i[t] - 1) PROVE CollectedEmpty(t, Round(t, j))'
    <3>1. j \in Queues /\ j < i[t]
      BY <1>t, DBAssumption DEF Queues
    <3>2. Round(t, j) # Index(t)
      BY <3>1, <1>t, <1>x, RoundsDistinct DEF Round
    <3>3. counts'[t][Round(t, j)] = counts[t][Round(t, j)]
      BY <1>t, <1>r, <2>2, <3>1, <3>2
    <3>4. CollectedEmpty(t, Round(t, j))
      BY <2>1 DEF ThreadInv, CollectInv
    <3>5. Round(t, j)' = Round(t, j)
      BY <2>1 DEF Round
    <3> QED BY <2>1, <3>3, <3>4, <3>5 DEF CollectedEmpty
  <2>4. counts'[t][Index(t)'] <= enqCount'[Index(t)']
    <3>1. Index(t)' = Index(t)
      BY <2>1 DEF Index
    <3>2. counts'[t][Index(t)] = enqCount[Index(t)] /\ enqCount[Index(t)] \in Nat
      BY <1>t, <1>x, <2>2 DEF TypeOK, QueueTypes
    <3> QED BY <2>1, <3>1, <3>2
  <2> QED BY <2>1, <2>3, <2>4 DEF ThreadInv, CollectInv, RecheckInv
<1>7. CASE CollectEmpty(t)
  <2>1. /\ pc[t] = "c_get" /\ content[Index(t)] = << >>
        /\ startIndex' = startIndex /\ content' = content /\ enqCount' = enqCount
        /\ counts' = counts
    BY <1>7 DEF CollectEmpty, queueVars
  <2>2. \A j \in Queues : Round(t, j)' = Round(t, j)
    BY <2>1 DEF Round
  <2>3. ASSUME NEW j \in 0..i[t] PROVE j \in Queues /\ CollectedEmpty(t, Round(t, j))
    <3>1. j \in Queues
      BY <1>t, DBAssumption DEF Queues
    <3>2. CASE j = i[t]
      BY <3>1, <3>2, <2>1, <1>x DEF ThreadInv, CollectInv, CollectedEmpty
    <3>3. CASE j # i[t]
      <4>1. j \in 0..(i[t] - 1)
        BY <3>3, <1>t DEF Queues
      <4> QED BY <3>1, <4>1, <2>1 DEF ThreadInv, CollectInv
    <3> QED BY <3>2, <3>3
  <2>4. CASE ~ LastRound(t)
    <3>1. pc'[t] = "c_version" /\ i'[t] = i[t] + 1
      BY <1>7, <1>t, <2>4 DEF CollectEmpty, Advance
    <3>2. ASSUME NEW j \in 0..(i'[t] - 1) PROVE CollectedEmpty(t, Round(t, j))'
      <4>1. j \in 0..i[t]
        BY <3>1, <1>t DEF Queues
      <4>2. j \in Queues /\ CollectedEmpty(t, Round(t, j))
        BY <4>1, <2>3
      <4> QED BY <2>1, <2>2, <4>2 DEF CollectedEmpty
    <3> QED BY <3>1, <3>2 DEF ThreadInv, CollectInv, RecheckInv
  <2>5. CASE LastRound(t)
    <3>0. i[t] = Width - 1
      BY <1>t, <2>5, DBAssumption DEF LastRound, Queues
    <3>1. pc'[t] = "r_check" /\ i'[t] = 0 /\ i[t] = Width - 1
      BY <1>7, <1>t, <2>5, <3>0 DEF CollectEmpty, Advance
    <3>2. \A j \in Queues : CollectedEmpty(t, Round(t, j))
      BY <2>3, <3>1 DEF Queues
    <3>3. \A q \in Queues : \E j \in Queues : Round(t, j) = q
      BY <1>t, RoundsCover DEF Round
    <3>4. CASE \E q \in Queues : counts[t][q] < enqCount[q]
      <4>1. PICK j \in Queues : counts[t][Round(t, j)] < enqCount[Round(t, j)]
        BY <3>3, <3>4
      <4>2. j \in i'[t]..(Width - 1)
        BY <3>1 DEF Queues
      <4>3. counts'[t][Round(t, j)'] < enqCount'[Round(t, j)']
        BY <2>1, <2>2, <4>1
      <4> QED BY <3>1, <4>2, <4>3 DEF ThreadInv, CollectInv, RecheckInv
    <3>5. CASE ~ \E q \in Queues : counts[t][q] < enqCount[q]
      <4>1. ASSUME NEW q \in Queues PROVE content'[q] = << >>
        <5>1. CollectedEmpty(t, q)
          BY <3>2, <3>3
        <5>2. counts[t][q] \in Nat /\ enqCount[q] \in Nat
          BY DEF TypeOK, LocalTypes, QueueTypes
        <5>3. counts[t][q] = enqCount[q]
          BY <3>5, <5>1, <5>2 DEF CollectedEmpty
        <5> QED BY <2>1, <5>1, <5>3 DEF CollectedEmpty
      <4>2. t \in sawEmpty'
        BY <3>1, <4>1, Seen DEF AllEmpty, DeqPCs
      <4> QED BY <3>1, <4>2 DEF ThreadInv, CollectInv, RecheckInv
    <3> QED BY <3>4, <3>5
  <2> QED BY <2>4, <2>5
<1>8. CASE RecheckSame(t)
  <2>1. /\ pc[t] = "r_check" /\ counts[t][Index(t)] = enqCount[Index(t)]
        /\ startIndex' = startIndex /\ counts' = counts /\ enqCount' = enqCount
    BY <1>8 DEF RecheckSame, queueVars
  <2>2. pc'[t] \in {"r_check", "d_empty"}
    BY <1>8, <1>t DEF RecheckSame, Advance
  <2>3. CASE t \in sawEmpty
    <3>1. t \in sawEmpty'
      BY <2>2, <2>3, Seen DEF DeqPCs
    <3> QED BY <2>2, <3>1 DEF ThreadInv, CollectInv, RecheckInv
  <2>4. CASE t \notin sawEmpty
    <3>1. PICK j \in i[t]..(Width - 1) : counts[t][Round(t, j)] < enqCount[Round(t, j)]
      BY <2>1, <2>4 DEF ThreadInv, RecheckInv
    <3>2. enqCount[Index(t)] \in Nat
      BY <1>x DEF TypeOK, QueueTypes
    <3>3. j # i[t]
      BY <1>x, <2>1, <3>1, <3>2
    <3>4. ~ LastRound(t) /\ j \in (i[t] + 1)..(Width - 1)
      BY <1>t, <3>1, <3>3, DBAssumption DEF LastRound, Queues
    <3>5. pc'[t] = "r_check" /\ i'[t] = i[t] + 1
      BY <1>8, <1>t, <3>4 DEF RecheckSame, Advance
    <3>6. Round(t, j)' = Round(t, j)
      BY <2>1 DEF Round
    <3> QED BY <2>1, <3>1, <3>4, <3>5, <3>6 DEF ThreadInv, CollectInv, RecheckInv
  <2> QED BY <2>3, <2>4
<1> QED BY <1>3, <1>4, <1>5, <1>6, <1>7, <1>8 DEF Step, DeqStep

-----------------------------------------------------------------------------
\* DoubleCollectInv is an invariant of the d-CBO queue.
THEOREM DoubleCollectCorrect == Spec => []DoubleCollectInv
<1>1. Init => DoubleCollectInv
  BY DEF Init, DoubleCollectInv, CollectInv, RecheckInv, EmptyLinearizable
<1>2. TypeOK /\ DoubleCollectInv /\ [Next]_vars => DoubleCollectInv'
  <2> SUFFICES ASSUME TypeOK, DoubleCollectInv, [Next]_vars PROVE DoubleCollectInv'
    OBVIOUS
  <2>0. \A t \in Threads : ThreadInv(t)
    BY DEF DoubleCollectInv, ThreadInv, EmptyLinearizable
  <2>1. CASE UNCHANGED vars
    BY <2>1 DEF DoubleCollectInv, EmptyLinearizable, CollectInv, RecheckInv,
                CollectedEmpty, Round, Index, vars, queueVars, localVars
  <2>2. ASSUME NEW u \in Threads, Step(u), Observe PROVE DoubleCollectInv'
    <3>1. ASSUME NEW t \in Threads PROVE ThreadInv(t)'
      BY <2>0, <2>2, OtherPreserves, OwnPreserves
    <3> QED BY <3>1 DEF DoubleCollectInv, ThreadInv, EmptyLinearizable
  <2> QED BY <2>1, <2>2 DEF Next
<1> QED BY <1>1, <1>2, TypeCorrect, PTL DEF Spec

\* The d-CBO queue is empty-linearizable: a dequeue answers EMPTY
\* (d-balanced-queue.c:81) only if all sub-queues were empty at one instant of
\* its call, for any number of threads and sub-queues.
THEOREM EmptyLinearizability == Spec => []EmptyLinearizable
<1>1. DoubleCollectInv => EmptyLinearizable
  BY DEF DoubleCollectInv
<1> QED BY <1>1, DoubleCollectCorrect, PTL

-----------------------------------------------------------------------------
\* All designs

\* The state the designs add.
VTypes == /\ design \in Designs
          /\ claimed \subseteq Threads
          /\ lost \subseteq claimed
          /\ extEnq \in [Queues -> Nat]
          /\ extDeq \in [Queues -> Nat]
          /\ debt \in [Threads -> {NoDebt} \cup ({"enq", "deq"} \X Queues)]

\* A place is claimed only within an enqueue of a design that announces, and a
\* count is owed only after the operation of a design that counts outside.
CallInv(t) == /\ t \in claimed => pc[t] = "e_put" /\ Announces
              /\ debt[t] # NoDebt => pc[t] = "idle" /\ External

\* The places of sub-queue q that no dequeue has reached: an item may still
\* appear in them without the version moving.
Unsettled(q) == Claims(q) \ lost

\* A sub-queue that a collect has passed and whose version has not moved since
\* holds no such place.  With an announcing design this is what makes
\* CollectedEmpty inductive.
ClaimsInv(t) ==
  pc[t] \in {"c_version", "c_get"} =>
    \A j \in 0..(i[t] - 1) :
      counts[t][Round(t, j)] = enqCount[Round(t, j)] => Unsettled(Round(t, j)) = {}

\* The history variable says no more than it should, and all there is to say.
SeenInv == /\ sawEmpty \subseteq Dequeuers
           /\ AllEmpty => sawEmpty = Dequeuers

\* An item is in one place: in one position of one sub-queue or in one enqueue.
ItemsInv ==
  /\ \A q \in Queues : \A k \in 1..Len(content[q]) : content[q][k] \in 1..issued
  /\ \A q, r \in Queues : \A k \in 1..Len(content[q]), l \in 1..Len(content[r]) :
       content[q][k] = content[r][l] => q = r /\ k = l
  /\ \A t \in Threads : pc[t] \in EnqPCs => item[t] \in 1..issued /\ item[t] \notin Contents
  /\ \A t, s \in Threads :
       pc[t] \in EnqPCs /\ pc[s] \in EnqPCs /\ item[t] = item[s] => t = s

\* The calls that owe a count of one kind to the wrapper of sub-queue q.
Owing(what, q) == {t \in Threads : debt[t] = <<what, q>>}

OwingFinite == \A q \in Queues : IsFiniteSet(Owing("enq", q)) /\ IsFiniteSet(Owing("deq", q))

VInv == /\ TypeOK /\ VTypes /\ SeenInv
        /\ \A t \in Threads : ThreadInv(t) /\ CallInv(t) /\ ClaimsInv(t)

-----------------------------------------------------------------------------
\* The steps that DBalancedQueue has too.
LEMMA CommonSteps ==
  ASSUME NEW u \in Threads, VStep(u)
  PROVE  \/ Step(u) \/ VEnqSample(u) \/ VDeqSample(u) \/ Claim(u) \/ Store(u)
         \/ StoreLost(u) \/ CountEnq(u) \/ CountDeq(u)
  BY DEF VStep, VEnqueue, VEnqStep, VEnqPut, VDequeue, VDeqStep, VGet, VNone, VRead,
         Step, EnqStep, DeqStep

LEMMA Heuristics ==
  ASSUME TypeOK, VTypes
  PROVE  EnqHeuristic \in [Queues -> Nat] /\ DeqHeuristic \in [Queues -> Nat]
  BY DEF TypeOK, QueueTypes, VTypes, EnqHeuristic, DeqHeuristic

\* Sampling keeps the types whatever heuristic it reads.
LEMMA SampleTypes ==
  ASSUME TypeOK, NEW u \in Threads, NEW h \in [Queues -> Nat], Sample(u, h),
         NEW a \in PCs, NEW b \in PCs, Goto(u, a, b),
         b \in EnqPCs => a \in EnqPCs, Observe
  PROVE  TypeOK'
<1> USE DBAssumption DEF TypeOK
<1>0. sawEmpty' \in SUBSET Threads
  BY DEF Observe, Dequeuers, CallTypes
<1>1. QueueTypes'
  BY DEF Goto, Sample, queueVars, QueueTypes
<1>2. CallTypes'
  BY <1>0 DEF Goto, Sample, CallTypes
<1>3. LocalTypes'
  <2>0. samples[u] \in 0..(D - 1)
    BY DEF LocalTypes
  <2>1. (IF LastSample(u) THEN 0 ELSE samples[u] + 1) \in 0..(D - 1)
    BY <2>0, NextSample DEF LastSample
  <2>2. samples' \in [Threads -> 0..(D - 1)]
    BY <2>1 DEF Sample, LocalTypes
  <2>3. optIndex' \in [Threads -> Queues] /\ opt' \in [Threads -> Nat]
    BY ZenonT(60) DEF Sample, LocalTypes
  <2>4. UNCHANGED <<startIndex, i, counts>>
    BY DEF Sample
  <2> QED BY <2>2, <2>3, <2>4 DEF LocalTypes
<1> QED BY <1>1, <1>2, <1>3

LEMMA SampleStep ==
  ASSUME TypeOK, VTypes, NEW u \in Threads, VEnqSample(u) \/ VDeqSample(u)
  PROVE  \E h \in [Queues -> Nat] : \E a, b \in PCs :
           /\ Sample(u, h) /\ Goto(u, a, b)
           /\ a \in {"e_sample", "d_sample"}
           /\ b \in {"e_sample", "d_sample", "e_put", "d_get"}
           /\ b \in EnqPCs <=> a \in EnqPCs
           /\ b \in DeqPCs <=> a \in DeqPCs
<1>1. CASE VEnqSample(u)
  BY <1>1, Heuristics DEF VEnqSample, PCs, EnqPCs, DeqPCs
<1>2. CASE VDeqSample(u)
  BY <1>2, Heuristics DEF VDeqSample, PCs, EnqPCs, DeqPCs
<1> QED BY <1>1, <1>2

\* Every step of every design keeps the types of the d-CBO queue.
LEMMA VTypeStep ==
  ASSUME TypeOK, VTypes, NEW u \in Threads, CallInv(u), VStep(u), Observe
  PROVE  TypeOK'
<1> USE DBAssumption
<1>0. sawEmpty' \in SUBSET Threads
  BY DEF Observe, Dequeuers, CallTypes
<1>1. CASE Step(u)
  BY <1>1, TypeStep
<1>2. CASE VEnqSample(u) \/ VDeqSample(u)
  BY <1>2, SampleStep, SampleTypes
<1>3. CASE Claim(u)
  <2>1. QueueTypes'
    BY SMTT(30), <1>3 DEF Claim, TypeOK, QueueTypes, LocalTypes
  <2> QED BY <2>1, <1>0, <1>3 DEF Claim, TypeOK, CallTypes, LocalTypes, localVars
<1>4. CASE Store(u)
  <2>1. pc[u] = "e_put"
    BY <1>4 DEF Store, CallInv
  <2>2. item[u] \in Items /\ optIndex[u] \in Queues
    BY <2>1 DEF TypeOK, CallTypes, LocalTypes, Items, EnqPCs
  <2>3. Append(content[optIndex[u]], item[u]) \in Seq(Items)
    BY <2>2 DEF TypeOK, QueueTypes
  <2>4. QueueTypes'
    BY <1>4, <2>2, <2>3 DEF Store, TypeOK, QueueTypes
  <2>5. Return(u)
    BY <1>4 DEF Store
  <2> QED BY <1>0, <2>4, <2>5, ReturnTypes DEF TypeOK
<1>5. CASE UNCHANGED vars
  BY <1>5 DEF vars, queueVars, localVars, TypeOK, QueueTypes, CallTypes, LocalTypes
<1> QED BY <1>1, <1>2, <1>3, <1>4, <1>5, CommonSteps DEF StoreLost, CountEnq, CountDeq

\* Every step keeps the types of what the designs add.
LEMMA VTypesStep ==
  ASSUME TypeOK, VTypes, NEW u \in Threads, VStep(u), UNCHANGED design
  PROVE  VTypes'
<1>1. Index(u) \in Queues /\ optIndex[u] \in Queues
  BY RoundInRange DEF Index, TypeOK, LocalTypes
<1>2. \A q : Claims(q) \subseteq claimed
  BY DEF Claims
<1>o. ASSUME NEW q \in Queues, NEW what \in {"enq", "deq"}, Owe(u, what, q)
      PROVE  debt' \in [Threads -> {NoDebt} \cup ({"enq", "deq"} \X Queues)]
  BY <1>o DEF Owe, VTypes
<1>3. CASE UNCHANGED variantVars
  BY <1>3 DEF variantVars, VTypes
<1>4. CASE VEnqPut(u)
  BY <1>1, <1>4, <1>o DEF VEnqPut, VTypes
<1>5. CASE Claim(u)
  BY <1>5 DEF Claim, VTypes
<1>6. CASE Store(u)
  BY <1>1, <1>6, <1>o DEF Store, VTypes
<1>7. CASE StoreLost(u)
  BY <1>7 DEF StoreLost, VTypes
<1>8. CASE CountEnq(u)
  BY <1>8 DEF CountEnq, VTypes, NoDebt
<1>9. CASE CountDeq(u)
  BY <1>9 DEF CountDeq, VTypes, NoDebt
<1>10. CASE VGet(u)
  BY <1>1, <1>2, <1>10, <1>o DEF VGet, PassSome, VTypes
<1>11. CASE VNone(u)
  BY <1>1, <1>2, <1>11 DEF VNone, PassAll, VTypes
<1> QED BY <1>3, <1>4, <1>5, <1>6, <1>7, <1>8, <1>9, <1>10, <1>11
        DEF VStep, VEnqueue, VEnqStep, VEnqSample, VDequeue, VDeqStep, VDeqSample, VRead

\* A step of thread u leaves the call of another thread alone.
LEMMA VOtherThread ==
  ASSUME TypeOK, VTypes, NEW u \in Threads, VStep(u), NEW t \in Threads, t # u
  PROVE  /\ pc'[t] = pc[t] /\ startIndex'[t] = startIndex[t] /\ i'[t] = i[t]
         /\ counts'[t] = counts[t] /\ item'[t] = item[t] /\ optIndex'[t] = optIndex[t]
         /\ debt'[t] = debt[t] /\ (t \in claimed' <=> t \in claimed)
<1> USE DEF TypeOK, CallTypes, LocalTypes, VTypes
<1>1. debt'[t] = debt[t] /\ (t \in claimed' <=> t \in claimed)
  BY DEF VStep, VEnqueue, VEnqStep, VEnqSample, VEnqPut, Claim, Store, StoreLost, CountEnq,
         VDequeue, VDeqStep, VDeqSample, VGet, VNone, VRead, CountDeq, Owe, variantVars
<1>2. CASE Enqueue(u) \/ EnqPut(u) \/ Dequeue(u)
  BY ZenonT(60), <1>1, <1>2 DEF Enqueue, EnqPut, Dequeue, Return, Goto, localVars
<1>3. CASE VEnqSample(u) \/ VDeqSample(u)
  BY <1>1, <1>3 DEF VEnqSample, VDeqSample, Sample, Goto
<1>4. CASE Claim(u) \/ Store(u) \/ UNCHANGED vars
  BY ZenonT(60), <1>1, <1>4 DEF Claim, Store, Return, vars, localVars
<1>5. CASE DeqGet(u) \/ DeqFallback(u)
  BY ZenonT(60), <1>1, <1>5 DEF DeqGet, DeqFallback, Take, Return, Goto
<1>6. CASE CollectVersion(u) \/ CollectGet(u) \/ CollectEmpty(u)
  BY <1>1, <1>6 DEF CollectVersion, CollectGet, CollectEmpty, Take, Return, Advance, Goto
<1>7. CASE RecheckSame(u) \/ RecheckRestart(u) \/ ReturnEmpty(u)
  BY <1>1, <1>7 DEF RecheckSame, RecheckRestart, ReturnEmpty, Return, Advance, Goto
<1> QED BY <1>2, <1>3, <1>4, <1>5, <1>6, <1>7
        DEF VStep, VEnqueue, VEnqStep, VEnqPut, VDequeue, VDeqStep, VGet, VNone, VRead,
            StoreLost, CountEnq, CountDeq

\* A place is claimed in, and a count owed by, the calls CallInv says.
LEMMA CallStep ==
  ASSUME TypeOK, VTypes, NEW u \in Threads, CallInv(u), VStep(u), UNCHANGED design
  PROVE  CallInv(u)'
<1> USE DEF TypeOK, CallTypes, LocalTypes, VTypes, CallInv, Announces, External
<1>1. CASE VEnqueue(u) \/ VDequeue(u)
  BY <1>1 DEF VEnqueue, VDequeue, Enqueue, Dequeue, Goto, variantVars
<1>2. CASE VEnqSample(u) \/ VDeqSample(u)
  BY <1>2 DEF VEnqSample, VDeqSample, Goto, variantVars
<1>3. CASE VEnqPut(u)
  BY <1>3 DEF VEnqPut, EnqPut, Return, Owe
<1>4. CASE Claim(u)
  BY <1>4 DEF Claim
<1>5. CASE Store(u)
  BY <1>5 DEF Store, Return, Owe
<1>6. CASE StoreLost(u)
  BY <1>6 DEF StoreLost, vars
<1>7. CASE CountEnq(u) \/ CountDeq(u)
  BY <1>7 DEF CountEnq, CountDeq, vars
<1>8. CASE VGet(u)
  BY <1>8 DEF VGet, DeqGet, CollectGet, Take, Return, Owe
<1>9. CASE VNone(u)
  BY <1>9 DEF VNone, DeqFallback, CollectEmpty, Goto, Advance
<1>10. CASE VRead(u)
  BY <1>10 DEF VRead, CollectVersion, RecheckSame, RecheckRestart, ReturnEmpty, Return,
               Goto, Advance, variantVars
<1> QED BY <1>1, <1>2, <1>3, <1>4, <1>5, <1>6, <1>7, <1>8, <1>9, <1>10
        DEF VStep, VEnqStep, VDeqStep

-----------------------------------------------------------------------------
\* A version never goes back, and an empty sub-queue whose version stays the
\* same can only receive an item in a place claimed before.
LEMMA VQueueStep ==
  ASSUME TypeOK, VTypes, NEW u \in Threads, CallInv(u), VStep(u), NEW q \in Queues
  PROVE  /\ enqCount[q] \in Nat /\ enqCount'[q] \in Nat
         /\ enqCount[q] <= enqCount'[q]
         /\ enqCount'[q] = enqCount[q] /\ content[q] = << >>
              => content'[q] = << >> \/ u \in Unsettled(q)
<1>0. enqCount[q] \in Nat
  BY DEF TypeOK, QueueTypes
<1>1. CASE Step(u)
  BY <1>1, QueueStep
<1>2. CASE Claim(u)
  <2>1. enqCount' = [enqCount EXCEPT ![optIndex[u]] = @ + 1] /\ content' = content
    BY <1>2 DEF Claim
  <2>2. enqCount'[q] = enqCount[q] \/ enqCount'[q] = enqCount[q] + 1
    BY <2>1 DEF TypeOK, QueueTypes
  <2> QED BY <1>0, <2>1, <2>2
<1>3. CASE Store(u)
  <2>1. enqCount' = enqCount
    BY <1>3 DEF Store
  <2>2. u \in claimed \ lost /\ content' = [content EXCEPT ![optIndex[u]] = Append(@, item[u])]
    BY <1>3 DEF Store
  <2>3. CASE optIndex[u] = q
    BY <1>0, <2>1, <2>2, <2>3 DEF Unsettled, Claims
  <2>4. CASE optIndex[u] # q
    <3>1. content'[q] = content[q]
      BY <2>2, <2>4 DEF TypeOK, QueueTypes
    <3> QED BY <1>0, <2>1, <3>1
  <2> QED BY <2>3, <2>4
<1>4. CASE UNCHANGED <<content, enqCount>>
  BY <1>0, <1>4
<1> QED BY <1>1, <1>2, <1>3, <1>4, CommonSteps
        DEF VEnqSample, VDeqSample, Sample, StoreLost, CountEnq, CountDeq, vars, queueVars

\* A new unsettled place moves the version.
LEMMA UnsettledStep ==
  ASSUME TypeOK, VTypes, NEW u \in Threads, CallInv(u), VStep(u), NEW q \in Queues
  PROVE  Unsettled(q)' \subseteq Unsettled(q) \/ enqCount'[q] = enqCount[q] + 1
<1>1. \A t \in Threads : t # u =>
        optIndex'[t] = optIndex[t] /\ (t \in claimed' <=> t \in claimed)
  BY VOtherThread
<1>2. claimed \subseteq Threads /\ lost \subseteq claimed
  BY DEF VTypes
<1>3. CASE Claim(u)
  <2>1. /\ enqCount' = [enqCount EXCEPT ![optIndex[u]] = @ + 1] /\ optIndex' = optIndex
        /\ claimed' = claimed \cup {u} /\ lost' = lost
    BY <1>3 DEF Claim, localVars
  <2>2. CASE optIndex[u] = q
    BY <2>1, <2>2 DEF TypeOK, QueueTypes
  <2>3. CASE optIndex[u] # q
    BY <2>1, <2>3 DEF Unsettled, Claims
  <2> QED BY <2>2, <2>3
<1>4. CASE ~ Claim(u)
  <2>1. u \in claimed => u \notin claimed' \/ optIndex'[u] = optIndex[u]
    BY DEF CallInv, VStep, VEnqueue, VEnqStep, VEnqSample, VEnqPut, Claim, Store, StoreLost,
         CountEnq, VDequeue, VDeqStep, VDeqSample, VGet, VNone, VRead, CountDeq,
         Enqueue, Dequeue, DeqGet, DeqFallback, CollectVersion, CollectGet, CollectEmpty,
         RecheckSame, RecheckRestart, ReturnEmpty, Goto, vars, localVars
  <2>2. claimed' \subseteq claimed
    BY <1>4 DEF VStep, VEnqueue, VEnqStep, VEnqSample, VEnqPut, Store, StoreLost, CountEnq,
         VDequeue, VDeqStep, VDeqSample, VGet, VNone, VRead, CountDeq, variantVars
  <2>3. lost \subseteq lost' \/ (lost' = lost \ {u} /\ claimed' = claimed \ {u})
    BY <1>4 DEF VStep, VEnqueue, VEnqStep, VEnqSample, VEnqPut, Store, StoreLost, CountEnq,
         VDequeue, VDeqStep, VDeqSample, VGet, VNone, VRead, CountDeq, variantVars,
         PassAll, PassSome
  <2>4. \A t \in claimed' : t \in claimed /\ optIndex'[t] = optIndex[t]
    BY <1>1, <1>2, <2>1, <2>2
  <2> QED BY <2>3, <2>4 DEF Unsettled, Claims
<1> QED BY <1>3, <1>4

\* A step of another thread keeps what a double collect relies on.
LEMMA VOtherPreserves ==
  ASSUME TypeOK, TypeOK', VTypes, NEW u \in Threads, CallInv(u), VStep(u), Observe,
         NEW t \in Threads, t # u, ThreadInv(t), ClaimsInv(t)
  PROVE  ThreadInv(t)' /\ ClaimsInv(t)'
<1>1. /\ pc'[t] = pc[t] /\ startIndex'[t] = startIndex[t]
      /\ i'[t] = i[t] /\ counts'[t] = counts[t]
  BY VOtherThread
<1>2. \A q \in Queues : enqCount[q] <= enqCount'[q]
  BY VQueueStep
<1>3. ASSUME NEW q \in Queues, pc[t] \in {"c_version", "c_get"},
             NEW j \in 0..(i[t] - 1), Round(t, j) = q,
             counts[t][q] = enqCount[q], enqCount'[q] = enqCount[q], content[q] = << >>
      PROVE  content'[q] = << >>
  <2>1. Unsettled(q) = {}
    BY <1>3 DEF ClaimsInv
  <2> QED BY <1>3, <2>1, VQueueStep
<1>4. ThreadInv(t)'
  BY <1>1, <1>2, <1>3, OtherKeeps
<1>5. ClaimsInv(t)'
  <2> SUFFICES ASSUME pc'[t] \in {"c_version", "c_get"}, NEW j \in 0..(i[t] - 1),
                      counts[t][Round(t, j)] = enqCount'[Round(t, j)]
               PROVE  Unsettled(Round(t, j))' = {}
    BY <1>1 DEF ClaimsInv, Round
  <2>1. i[t] \in Queues /\ startIndex[t] \in 0..Width
    BY DEF TypeOK, LocalTypes
  <2>2. j \in Queues
    BY <2>1, DBAssumption DEF Queues
  <2>3. Round(t, j) \in Queues /\ Round(t, j)' = Round(t, j)
    BY <1>1, <2>1, <2>2, RoundInRange DEF Round
  <2> DEFINE q == Round(t, j)
  <2>4. counts[t][q] <= enqCount[q]
    BY <1>1 DEF ThreadInv, CollectInv, CollectedEmpty
  <2>5. enqCount[q] \in Nat /\ enqCount[q] <= enqCount'[q] /\ counts[t][q] \in Nat
    BY <2>3, VQueueStep DEF TypeOK, LocalTypes
  <2>6. counts[t][q] = enqCount[q] /\ enqCount'[q] # enqCount[q] + 1
    BY <2>4, <2>5
  <2>7. Unsettled(q) = {}
    BY <1>1, <2>6 DEF ClaimsInv
  <2>8. Unsettled(q)' \subseteq Unsettled(q)
    BY <2>3, <2>6, UnsettledStep
  <2> QED BY <2>3, <2>7, <2>8
<1> QED BY <1>4, <1>5

\* So does a thread's own step.
LEMMA VOwnPreserves ==
  ASSUME TypeOK, TypeOK', VTypes, NEW t \in Threads, CallInv(t), VStep(t), Observe,
         ThreadInv(t), ClaimsInv(t)
  PROVE  ThreadInv(t)' /\ ClaimsInv(t)'
<1> DEFINE Collecting == {"c_version", "c_get", "r_check", "d_empty"}
<1>t. /\ i[t] \in Queues /\ startIndex[t] \in 0..Width
      /\ pc \in [Threads -> PCs] /\ i \in [Threads -> Queues]
      /\ counts \in [Threads -> [Queues -> Nat]]
  BY DEF TypeOK, LocalTypes, CallTypes
<1>1. ASSUME pc'[t] \notin Collecting PROVE ThreadInv(t)' /\ ClaimsInv(t)'
  BY <1>1 DEF ThreadInv, CollectInv, RecheckInv, ClaimsInv
<1>2. CASE VEnqSample(t) \/ VDeqSample(t)
  <2>1. pc'[t] \in {"e_sample", "e_put", "d_sample", "d_get"}
    BY <1>2, <1>t DEF VEnqSample, VDeqSample, Goto
  <2> QED BY <1>1, <2>1
<1>3. CASE Claim(t) \/ Store(t) \/ StoreLost(t) \/ CountEnq(t) \/ CountDeq(t)
  <2>1. pc[t] \in {"e_put", "idle"} /\ pc'[t] \in {pc[t], "idle"}
    BY <1>3, <1>t DEF Claim, Store, StoreLost, CountEnq, CountDeq, CallInv, VTypes, NoDebt,
                      Return, vars
  <2> QED BY <1>1, <2>1
<1>4. CASE Step(t)
  <2>1. ThreadInv(t)'
    BY <1>4, OwnPreserves
  <2> SUFFICES ClaimsInv(t)'
    BY <2>1
  <2>2. ASSUME pc'[t] \notin {"c_version", "c_get"} \/ i'[t] = 0
        PROVE  ClaimsInv(t)'
    BY <2>2 DEF ClaimsInv
  <2>3. CASE CollectVersion(t) /\ UNCHANGED variantVars
    <3>1. /\ pc[t] = "c_version" /\ i' = i /\ startIndex' = startIndex /\ optIndex' = optIndex
          /\ enqCount' = enqCount
          /\ counts'[t] = [counts[t] EXCEPT ![Index(t)] = enqCount[Index(t)]]
      BY <2>3, <1>t DEF CollectVersion, Goto, queueVars
    <3>2. ASSUME NEW j \in 0..(i'[t] - 1),
                 counts'[t][Round(t, j)'] = enqCount'[Round(t, j)']
          PROVE  Unsettled(Round(t, j))' = {}
      <4>1. j \in Queues /\ j < i[t] /\ j \in 0..(i[t] - 1)
        BY <3>1, <1>t, DBAssumption DEF Queues
      <4>2. Round(t, j)' = Round(t, j) /\ Round(t, j) \in Queues
        BY <3>1, <4>1, <1>t, RoundInRange DEF Round
      <4>3. Round(t, j) # Index(t)
        BY <4>1, <1>t, RoundsDistinct DEF Round, Index
      <4>4. counts'[t][Round(t, j)] = counts[t][Round(t, j)]
        BY <1>t, <3>1, <4>2, <4>3
      <4>5. Unsettled(Round(t, j)) = {}
        BY <3>1, <3>2, <4>1, <4>2, <4>4 DEF ClaimsInv
      <4> QED BY <2>3, <3>1, <4>2, <4>5 DEF variantVars, Unsettled, Claims
    <3> QED BY <3>2 DEF ClaimsInv
  <2>4. CASE CollectEmpty(t) /\ PassAll(Index(t)) /\ claimed' = claimed
    <3>1. /\ pc[t] = "c_get" /\ startIndex' = startIndex /\ optIndex' = optIndex
          /\ enqCount' = enqCount /\ counts' = counts
      BY <2>4 DEF CollectEmpty, queueVars
    <3>2. CASE LastRound(t)
      BY <2>2, <2>4, <3>2, <1>t DEF CollectEmpty, Advance
    <3>3. CASE ~ LastRound(t)
      <4>1. pc'[t] = "c_version" /\ i'[t] = i[t] + 1
        BY <2>4, <1>t, <3>3 DEF CollectEmpty, Advance
      <4>2. ASSUME NEW j \in 0..(i'[t] - 1),
                   counts'[t][Round(t, j)'] = enqCount'[Round(t, j)']
            PROVE  Unsettled(Round(t, j))' = {}
        <5>0. Round(t, j)' = Round(t, j)
          BY <3>1 DEF Round
        <5>1. CASE j = i[t]
          <6>1. Round(t, j) = Index(t)
            BY <5>1 DEF Round, Index
          <6> QED BY <2>4, <3>1, <5>0, <6>1 DEF PassAll, Unsettled, Claims
        <5>2. CASE j # i[t]
          <6>1. j \in 0..(i[t] - 1)
            BY <4>1, <5>2, <1>t DEF Queues
          <6>2. Unsettled(Round(t, j)) = {}
            BY <3>1, <4>2, <5>0, <6>1 DEF ClaimsInv
          <6> QED BY <2>4, <3>1, <5>0, <6>2 DEF PassAll, Unsettled, Claims
        <5> QED BY <5>1, <5>2
      <4> QED BY <4>1, <4>2 DEF ClaimsInv
    <3> QED BY <3>2, <3>3
  <2>5. CASE VEnqueue(t) \/ VEnqPut(t) \/ VDequeue(t) \/ VGet(t)
    <3>1. pc'[t] \in {"e_sample", "idle", "d_sample"}
      BY <2>5, <1>t DEF VEnqueue, VEnqPut, VDequeue, VGet, Enqueue, EnqPut, Dequeue, DeqGet,
                        CollectGet, Take, Return, Goto
    <3> QED BY <2>2, <3>1
  <2>6. CASE DeqFallback(t) \/ RecheckRestart(t) \/ ReturnEmpty(t) \/ RecheckSame(t)
    <3>1. pc'[t] \in {"idle", "r_check", "d_empty"} \/ i'[t] = 0
      BY <2>6, <1>t DEF DeqFallback, RecheckRestart, ReturnEmpty, RecheckSame, Return, Goto,
                        Advance
    <3> QED BY <2>2, <3>1
  <2> QED BY <1>2, <1>3, <2>3, <2>4, <2>5, <2>6
          DEF VStep, VEnqStep, VDeqStep, VNone, VRead
<1> QED BY <1>2, <1>3, <1>4, CommonSteps

-----------------------------------------------------------------------------
LEMMA VInvInit == VInit => VInv
<1> SUFFICES ASSUME VInit PROVE VInv
  OBVIOUS
<1>1. TypeOK
  BY DBAssumption
     DEF VInit, Init, TypeOK, QueueTypes, CallTypes, LocalTypes, Queues, PCs, EnqPCs, Items
<1>2. VTypes
  BY DEF VInit, VTypes
<1>3. SeenInv
  BY DEF VInit, Init, SeenInv, Dequeuers, DeqPCs
<1>4. \A t \in Threads : ThreadInv(t) /\ CallInv(t) /\ ClaimsInv(t)
  BY DEF VInit, Init, ThreadInv, CollectInv, RecheckInv, CallInv, ClaimsInv
<1> QED BY <1>1, <1>2, <1>3, <1>4 DEF VInv

LEMMA VInvStep == VInv /\ [VNext]_allVars => VInv'
<1> SUFFICES ASSUME VInv, [VNext]_allVars PROVE VInv'
  OBVIOUS
<1>1. CASE UNCHANGED allVars
  <2>1. TypeOK' /\ VTypes' /\ SeenInv'
    BY <1>1 DEF allVars, vars, queueVars, localVars, variantVars, VInv, VTypes, TypeOK,
                QueueTypes, CallTypes, LocalTypes, SeenInv, Dequeuers, AllEmpty
  <2>2. \A t \in Threads : ThreadInv(t)' /\ CallInv(t)' /\ ClaimsInv(t)'
    BY <1>1 DEF allVars, vars, queueVars, localVars, variantVars, VInv, ThreadInv,
                CollectInv, RecheckInv, CollectedEmpty, Round, Index, CallInv, Announces,
                External, ClaimsInv, Unsettled, Claims
  <2> QED BY <2>1, <2>2 DEF VInv
<1>2. ASSUME NEW u \in Threads, VStep(u), Observe, UNCHANGED design
      PROVE  VInv'
  <2>1. TypeOK' /\ VTypes'
    BY <1>2, VTypeStep, VTypesStep DEF VInv
  <2>2. SeenInv'
    BY <1>2 DEF SeenInv, Observe
  <2>3. ASSUME NEW t \in Threads PROVE ThreadInv(t)' /\ CallInv(t)' /\ ClaimsInv(t)'
    <3>1. CASE t = u
      BY <1>2, <2>1, <3>1, VOwnPreserves, CallStep DEF VInv
    <3>2. CASE t # u
      <4>1. CallInv(t)'
        BY <1>2, <3>2, VOtherThread DEF VInv, CallInv, Announces, External
      <4> QED BY <1>2, <2>1, <3>2, <4>1, VOtherPreserves DEF VInv
    <3> QED BY <3>1, <3>2
  <2> QED BY <2>1, <2>2, <2>3 DEF VInv
<1> QED BY <1>1, <1>2 DEF VNext

LEMMA VInvHolds == VSpec => []VInv
  BY VInvInit, VInvStep, PTL DEF VSpec

\* The state of all eight queues keeps its type.
THEOREM VTypeCorrect == VSpec => []TypeOK
<1>1. VInv => TypeOK
  BY DEF VInv
<1> QED BY <1>1, VInvHolds, PTL

\* DoubleCollectInv holds in all eight queues, also where an item may appear in
\* a sub-queue without its version moving (FAAAQ, LCRQ, the wait-free queue).
THEOREM VDoubleCollectCorrect == VSpec => []DoubleCollectInv
<1>1. VInv => DoubleCollectInv
  BY DEF VInv, ThreadInv, DoubleCollectInv, EmptyLinearizable
<1> QED BY <1>1, VInvHolds, PTL

\* All eight queues are empty-linearizable: double_collect (d-balanced-queue.c:81)
\* answers EMPTY only if at one instant of the dequeue no sub-queue held an item.
THEOREM VEmptyLinearizability == VSpec => []EmptyLinearizable
<1>1. VInv => EmptyLinearizable
  BY DEF VInv, ThreadInv, EmptyLinearizable
<1> QED BY <1>1, VInvHolds, PTL

-----------------------------------------------------------------------------
\* What a step is to the user of the queue and to the wrappers' counters: an
\* item is put in sub-queue q, one is taken from it, or neither.
PutStep(u, q) ==
  /\ pc[u] = "e_put"
  /\ content' = [content EXCEPT ![q] = Append(@, item[u])]
  /\ Return(u)
  /\ Owe(u, "enq", q)
  /\ UNCHANGED <<issued, extEnq, extDeq>>

TakeStep(u, q) ==
  /\ pc[u] \in DeqPCs
  /\ Take(u, q)
  /\ Owe(u, "deq", q)
  /\ UNCHANGED <<extEnq, extDeq>>

QuietStep(u) ==
  /\ UNCHANGED <<content, issued, item, extEnq, extDeq, debt>>
  /\ pc'[u] \in EnqPCs <=> pc[u] \in EnqPCs
  /\ pc'[u] \in DeqPCs <=> pc[u] \in DeqPCs

LEMMA StepKinds ==
  ASSUME TypeOK, VTypes, NEW u \in Threads, CallInv(u), VStep(u)
  PROVE  \/ VEnqueue(u) \/ VDequeue(u) \/ CountEnq(u) \/ CountDeq(u)
         \/ ReturnEmpty(u) /\ UNCHANGED variantVars
         \/ \E q \in Queues : PutStep(u, q) \/ TakeStep(u, q)
         \/ QuietStep(u)
<1>1. Index(u) \in Queues /\ optIndex[u] \in Queues /\ pc \in [Threads -> PCs]
  BY RoundInRange DEF Index, TypeOK, CallTypes, LocalTypes
<1>2. CASE VEnqSample(u) \/ VDeqSample(u)
  BY <1>1, <1>2 DEF VEnqSample, VDeqSample, Sample, Goto, queueVars, variantVars, QuietStep,
                    EnqPCs, DeqPCs
<1>3. CASE VEnqPut(u)
  BY <1>1, <1>3 DEF VEnqPut, EnqPut, PutStep
<1>4. CASE Claim(u)
  BY <1>4 DEF Claim, QuietStep, localVars
<1>5. CASE Store(u)
  BY <1>1, <1>5 DEF Store, CallInv, PutStep
<1>6. CASE StoreLost(u)
  BY <1>6 DEF StoreLost, QuietStep, vars, queueVars, localVars
<1>7. CASE VGet(u)
  BY <1>1, <1>7 DEF VGet, DeqGet, CollectGet, TakeStep, DeqPCs
<1>8. CASE VNone(u)
  BY <1>1, <1>8 DEF VNone, DeqFallback, CollectEmpty, Goto, Advance, queueVars, QuietStep,
                    EnqPCs, DeqPCs
<1>9. CASE VRead(u)
  BY <1>1, <1>9 DEF VRead, CollectVersion, RecheckSame, RecheckRestart, Goto, Advance,
                    queueVars, variantVars, QuietStep, EnqPCs, DeqPCs
<1> QED BY <1>2, <1>3, <1>4, <1>5, <1>6, <1>7, <1>8, <1>9 DEF VStep, VEnqStep, VDeqStep

-----------------------------------------------------------------------------
\* A call that had nothing to count now owes one count.
LEMMA OwesMore ==
  ASSUME VTypes, NEW u \in Threads, NEW w \in {"enq", "deq"}, NEW q \in Queues,
         debt[u] = NoDebt, debt' = [debt EXCEPT ![u] = <<w, q>>],
         NEW v \in {"enq", "deq"}, NEW r \in Queues, IsFiniteSet(Owing(v, r))
  PROVE  /\ IsFiniteSet(Owing(v, r)')
         /\ Cardinality(Owing(v, r)) \in Nat
         /\ Cardinality(Owing(v, r)') =
              Cardinality(Owing(v, r)) + (IF v = w /\ r = q THEN 1 ELSE 0)
<1>0. \A t \in Threads : debt'[t] = IF t = u THEN <<w, q>> ELSE debt[t]
  BY DEF VTypes
<1>1. u \notin Owing(v, r)
  BY DEF Owing, NoDebt
<1>2. Cardinality(Owing(v, r)) \in Nat
  BY FS_CardinalityType
<1>3. CASE v = w /\ r = q
  <2>1. Owing(v, r)' = Owing(v, r) \cup {u}
    BY <1>0, <1>3 DEF Owing
  <2> QED BY <1>1, <1>2, <1>3, <2>1, FS_AddElement
<1>4. CASE ~(v = w /\ r = q)
  <2>1. Owing(v, r)' = Owing(v, r)
    BY <1>0, <1>1, <1>4 DEF Owing
  <2> QED BY <1>2, <1>4, <2>1
<1> QED BY <1>3, <1>4

\* A call counts what it owed: those who owed a count before, and those who still do.
LEMMA OneLess ==
  ASSUME NEW Before, NEW After, NEW u, NEW b \in BOOLEAN, IsFiniteSet(Before),
         b => After = Before \ {u} /\ u \in Before, ~b => After = Before
  PROVE  /\ IsFiniteSet(After) /\ Cardinality(After) \in Nat
         /\ Cardinality(Before) = Cardinality(After) + (IF b THEN 1 ELSE 0)
<1>1. Cardinality(Before) \in Nat
  BY FS_CardinalityType
<1>2. CASE b
  <2>1. IsFiniteSet(After) /\ Cardinality(After) = Cardinality(Before) - 1
    BY <1>2, FS_RemoveElement
  <2>2. Cardinality(After) \in Nat
    BY <2>1, FS_CardinalityType
  <2> QED BY <1>1, <1>2, <2>1, <2>2
<1>3. CASE ~b
  BY <1>1, <1>3
<1> QED BY <1>2, <1>3

\* ExternalCounts for one sub-queue.
Balanced(q) == Len(content[q]) + extDeq[q] + Cardinality(Owing("deq", q))
                 = extEnq[q] + Cardinality(Owing("enq", q))

CountInv == External => \A q \in Queues : Balanced(q)

LEMMA CountInvInit == VInit => OwingFinite /\ CountInv
<1> SUFFICES ASSUME VInit PROVE OwingFinite /\ \A q \in Queues : Balanced(q)
  BY DEF CountInv
<1>1. \A q \in Queues : Owing("enq", q) = {} /\ Owing("deq", q) = {}
  BY DEF VInit, Owing, NoDebt
<1>2. IsFiniteSet({}) /\ Cardinality({}) = 0
  BY FS_EmptySet
<1>3. \A q \in Queues : content[q] = << >> /\ extEnq[q] = 0 /\ extDeq[q] = 0
  BY DEF VInit, Init
<1>4. ASSUME NEW q \in Queues PROVE Balanced(q)
  <2>1. Len(content[q]) = 0
    BY <1>3
  <2>2. 0 + 0 + 0 = 0 + 0
    OBVIOUS
  <2> QED BY <1>1, <1>2, <1>3, <2>1, <2>2, Zenon DEF Balanced
<1> QED BY <1>1, <1>2, <1>4 DEF OwingFinite

LEMMA CountInvStep ==
  ASSUME VInv, VInv', OwingFinite, CountInv, NEW u \in Threads, VStep(u), UNCHANGED design
  PROVE  OwingFinite' /\ CountInv'
<1>t. /\ VTypes /\ content \in [Queues -> Seq(Items)]
      /\ extEnq \in [Queues -> Nat] /\ extDeq \in [Queues -> Nat]
      /\ content' \in [Queues -> Seq(Items)]
  BY DEF VInv, TypeOK, QueueTypes, VTypes
<1>f. \A w \in {"enq", "deq"}, q \in Queues : IsFiniteSet(Owing(w, q))
  BY DEF OwingFinite
<1>e. External' = External
  BY DEF External
<1>1. CASE UNCHANGED <<content, debt, extEnq, extDeq>>
  <2>1. \A w, q : Owing(w, q)' = Owing(w, q)
    BY <1>1 DEF Owing
  <2> QED BY <1>1, <1>e, <2>1 DEF OwingFinite, CountInv, Balanced
<1>2. ASSUME NEW q \in Queues, PutStep(u, q) \/ TakeStep(u, q)
      PROVE  OwingFinite' /\ CountInv'
  <2>1. CASE ~External
    <3>1. debt' = debt
      BY <1>2, <2>1 DEF PutStep, TakeStep, Owe
    <3> QED BY <1>e, <2>1, <3>1 DEF OwingFinite, CountInv, Owing
  <2>2. CASE External
    <3>1. debt[u] = NoDebt
      BY <1>2 DEF VInv, CallInv, PutStep, TakeStep, DeqPCs
    <3>2. PICK w \in {"enq", "deq"} :
            /\ debt' = [debt EXCEPT ![u] = <<w, q>>] /\ UNCHANGED <<extEnq, extDeq>>
            /\ \A r \in Queues : r # q => content'[r] = content[r]
            /\ w = "enq" => Len(content'[q]) = Len(content[q]) + 1
            /\ w = "deq" => Len(content'[q]) + 1 = Len(content[q])
      <4>1. CASE PutStep(u, q)
        BY SMTT(30), <1>t, <2>2, <4>1 DEF PutStep, Owe
      <4>2. CASE TakeStep(u, q)
        <5>1. content[q] # << >> /\ content' = [content EXCEPT ![q] = Tail(@)]
          BY <4>2 DEF TakeStep, Take
        <5>2. content[q] \in Seq(Items) /\ Len(Tail(content[q])) = Len(content[q]) - 1
          BY <1>t, <5>1
        <5>3. Len(content[q]) \in Nat
          BY <5>2
        <5>4. Len(content'[q]) + 1 = Len(content[q])
          BY <1>t, <5>1, <5>2, <5>3
        <5> QED BY <1>t, <2>2, <4>2, <5>1, <5>4 DEF TakeStep, Owe
      <4> QED BY <1>2, <4>1, <4>2
    <3>3. ASSUME NEW r \in Queues
          PROVE  IsFiniteSet(Owing("enq", r)') /\ IsFiniteSet(Owing("deq", r)') /\ Balanced(r)'
      <4>1. Balanced(r)
        BY <2>2 DEF CountInv
      <4> DEFINE E == Cardinality(Owing("enq", r))
                 F == Cardinality(Owing("deq", r))
                 x == IF w = "enq" /\ r = q THEN 1 ELSE 0
                 y == IF w = "deq" /\ r = q THEN 1 ELSE 0
      <4>2. IsFiniteSet(Owing("enq", r)') /\ E \in Nat /\ Cardinality(Owing("enq", r)') = E + x
        BY <1>t, <1>f, <3>1, <3>2, OwesMore
      <4>3. IsFiniteSet(Owing("deq", r)') /\ F \in Nat /\ Cardinality(Owing("deq", r)') = F + y
        BY ZenonT(60), <1>t, <1>f, <3>1, <3>2, OwesMore
      <4>4. /\ Len(content[r]) \in Nat /\ extEnq[r] \in Nat /\ extDeq[r] \in Nat
            /\ extEnq'[r] = extEnq[r] /\ extDeq'[r] = extDeq[r]
        BY <1>t, <3>2
      <4>5. x \in Nat /\ y \in Nat /\ Len(content'[r]) = Len(content[r]) + x - y
        <5>1. CASE r # q
          BY <5>1, <4>4, <3>2
        <5>2. CASE r = q /\ w = "enq"
          BY <5>2, <4>4, <3>2
        <5>3. CASE r = q /\ w = "deq"
          <6>1. \A m : m + 1 = Len(content[r]) /\ m \in Nat => m = Len(content[r]) + 0 - 1
            BY <4>4
          <6>2. Len(content'[r]) \in Nat
            BY <1>t
          <6> QED BY <5>3, <6>1, <6>2, <3>2
        <5> QED BY <5>1, <5>2, <5>3
      <4>6. Len(content[r]) + extDeq[r] + F = extEnq[r] + E
        BY <4>1 DEF Balanced
      <4> DEFINE n == Len(content[r])  a == extDeq[r]  b == extEnq[r]
      <4>7. n \in Nat /\ a \in Nat /\ b \in Nat /\ n + a + F = b + E
        BY <4>4, <4>6
      <4>8. E \in Nat /\ F \in Nat /\ x \in Nat /\ y \in Nat
        BY <4>2, <4>3, <4>5
      <4> HIDE DEF E, F, x, y, n, a, b
      <4>9. (n + x - y) + a + (F + y) = b + (E + x)
        BY <4>7, <4>8
      <4>10. Balanced(r)'
        BY <4>2, <4>3, <4>4, <4>5, <4>9 DEF Balanced, n, a, b
      <4> QED BY <4>2, <4>3, <4>10
    <3> QED BY <3>3 DEF OwingFinite, CountInv
  <2> QED BY <2>1, <2>2
<1>3. CASE CountEnq(u) \/ CountDeq(u)
  <2>1. PICK w \in {"enq", "deq"}, q \in Queues :
          /\ debt[u] = <<w, q>> /\ debt' = [debt EXCEPT ![u] = NoDebt]
          /\ content' = content
          /\ extEnq' = IF w = "enq" THEN [extEnq EXCEPT ![q] = @ + 1] ELSE extEnq
          /\ extDeq' = IF w = "deq" THEN [extDeq EXCEPT ![q] = @ + 1] ELSE extDeq
    BY <1>3 DEF CountEnq, CountDeq, VInv, VTypes, NoDebt, vars, queueVars
  <2>2. External
    BY <2>1 DEF VInv, CallInv, NoDebt
  <2>l. ASSUME NEW v \in {"enq", "deq"}, NEW r \in Queues
        PROVE  /\ IsFiniteSet(Owing(v, r)') /\ Cardinality(Owing(v, r)') \in Nat
               /\ Cardinality(Owing(v, r)) =
                    Cardinality(Owing(v, r)') + (IF v = w /\ r = q THEN 1 ELSE 0)
    <3> DEFINE Before == Owing(v, r)
               After == Owing(v, r)'
               b == v = w /\ r = q
    <3>1. IsFiniteSet(Before)
      BY <1>f
    <3>2. \A t \in Threads : debt'[t] = IF t = u THEN NoDebt ELSE debt[t]
      BY <1>t, <2>1 DEF VTypes
    <3>3. b => After = Before \ {u} /\ u \in Before
      BY <2>1, <3>2 DEF Owing, NoDebt
    <3>4. ~b => After = Before
      BY <2>1, <3>2 DEF Owing, NoDebt
    <3>5. b \in BOOLEAN
      OBVIOUS
    <3> HIDE DEF Before, After, b
    <3>6. /\ IsFiniteSet(After) /\ Cardinality(After) \in Nat
          /\ Cardinality(Before) = Cardinality(After) + (IF b THEN 1 ELSE 0)
      BY <3>1, <3>3, <3>4, <3>5, OneLess
    <3> QED BY <3>6 DEF Before, After, b
  <2>3. ASSUME NEW r \in Queues
        PROVE  IsFiniteSet(Owing("enq", r)') /\ IsFiniteSet(Owing("deq", r)') /\ Balanced(r)'
    <3>1. Balanced(r)
      BY <2>2 DEF CountInv
    <3> DEFINE E == Cardinality(Owing("enq", r)')
               F == Cardinality(Owing("deq", r)')
               x == IF w = "enq" /\ r = q THEN 1 ELSE 0
               y == IF w = "deq" /\ r = q THEN 1 ELSE 0
    <3>2. IsFiniteSet(Owing("enq", r)') /\ E \in Nat /\ Cardinality(Owing("enq", r)) = E + x
      BY <2>l
    <3>3. IsFiniteSet(Owing("deq", r)') /\ F \in Nat /\ Cardinality(Owing("deq", r)) = F + y
      BY <2>l
    <3>4. /\ Len(content[r]) \in Nat /\ extEnq[r] \in Nat /\ extDeq[r] \in Nat
          /\ x \in Nat /\ y \in Nat /\ content'[r] = content[r]
          /\ extEnq'[r] = extEnq[r] + x /\ extDeq'[r] = extDeq[r] + y
      BY <1>t, <2>1
    <3>5. Len(content[r]) + extDeq[r] + Cardinality(Owing("deq", r))
            = extEnq[r] + Cardinality(Owing("enq", r))
      BY <3>1 DEF Balanced
    <3> DEFINE n == Len(content[r])  a == extDeq[r]  b == extEnq[r]
    <3>6. n \in Nat /\ a \in Nat /\ b \in Nat /\ n + a + (F + y) = b + (E + x)
      BY <3>2, <3>3, <3>4, <3>5
    <3>7. E \in Nat /\ F \in Nat /\ x \in Nat /\ y \in Nat
      BY <3>2, <3>3, <3>4
    <3> HIDE DEF E, F, x, y, n, a, b
    <3>8. n + (a + y) + F = (b + x) + E
      BY <3>6, <3>7
    <3>9. Len(content'[r]) + extDeq'[r] + F = extEnq'[r] + E
      BY <3>4, <3>8 DEF n, a, b
    <3> QED BY <3>2, <3>3, <3>9 DEF Balanced, E, F
  <2> QED BY <2>3 DEF OwingFinite, CountInv
<1> QED BY <1>1, <1>2, <1>3, StepKinds
        DEF VInv, VEnqueue, VDequeue, Enqueue, Dequeue, ReturnEmpty, QuietStep, variantVars,
            queueVars

\* A wrapper's counters (external-count-wrapper.c) differ from the numbers of
\* enqueues and dequeues of its sub-queue by the calls in progress only.
THEOREM CountersFollow == VSpec => []ExternalCounts
<1>1. OwingFinite /\ CountInv /\ VInv /\ [VNext]_allVars => (OwingFinite /\ CountInv)'
  <2> SUFFICES ASSUME OwingFinite, CountInv, VInv, [VNext]_allVars
               PROVE  (OwingFinite /\ CountInv)'
    OBVIOUS
  <2>1. CASE UNCHANGED allVars
    BY <2>1 DEF allVars, vars, queueVars, variantVars, OwingFinite, CountInv, Balanced, Owing,
                External
  <2> QED BY <2>1, CountInvStep, VInvStep DEF VNext
<1>2. CountInv => ExternalCounts
  BY DEF CountInv, Balanced, Owing, ExternalCounts
<1> QED BY <1>1, <1>2, CountInvInit, VInvHolds, PTL DEF VSpec

-----------------------------------------------------------------------------
LEMMA InContents ==
  ASSUME NEW x
  PROVE  x \in Contents <=> \E q \in Queues : \E k \in 1..Len(content[q]) : content[q][k] = x
  BY DEF Contents

LEMMA InContentsNext ==
  ASSUME NEW x
  PROVE  x \in Contents' <=> \E q \in Queues : \E k \in 1..Len(content'[q]) : content'[q][k] = x
  BY DEF Contents

\* What an item put at the end of a sub-queue, or taken from its head, does to
\* the positions.
LEMMA PutPositions ==
  ASSUME TypeOK, NEW q \in Queues, NEW x \in Items,
         content' = [content EXCEPT ![q] = Append(@, x)]
  PROVE  /\ \A r \in Queues : r # q => content'[r] = content[r]
         /\ Len(content[q]) \in Nat /\ Len(content'[q]) = Len(content[q]) + 1
         /\ \A k \in 1..Len(content[q]) : content'[q][k] = content[q][k]
         /\ content'[q][Len(content[q]) + 1] = x
<1>1. content \in [Queues -> Seq(Items)] /\ content[q] \in Seq(Items)
  BY DEF TypeOK, QueueTypes
<1>2. content'[q] = Append(content[q], x)
  BY <1>1
<1> QED BY <1>1, <1>2

LEMMA TakePositions ==
  ASSUME TypeOK, NEW q \in Queues, content[q] # << >>,
         content' = [content EXCEPT ![q] = Tail(@)]
  PROVE  /\ \A r \in Queues : r # q => content'[r] = content[r]
         /\ Len(content[q]) \in Nat \ {0} /\ Len(content'[q]) = Len(content[q]) - 1
         /\ \A k \in 1..Len(content'[q]) : content'[q][k] = content[q][k + 1]
         /\ Head(content[q]) = content[q][1]
<1>1. content \in [Queues -> Seq(Items)] /\ content[q] \in Seq(Items)
  BY DEF TypeOK, QueueTypes
<1>2. content'[q] = Tail(content[q])
  BY <1>1
<1> QED BY <1>1, <1>2

\* What an enqueue is about to put is nowhere in the queue; it is afterwards.
LEMMA PutContents ==
  ASSUME TypeOK, NEW q \in Queues, NEW x \in Items,
         content' = [content EXCEPT ![q] = Append(@, x)]
  PROVE  Contents' = Contents \cup {x}
<1>1. ASSUME NEW y \in Contents' PROVE y \in Contents \cup {x}
  <2>0. PICK r \in Queues : \E k \in 1..Len(content'[r]) : content'[r][k] = y
    BY <1>1, InContentsNext
  <2>1. PICK k \in 1..Len(content'[r]) : content'[r][k] = y
    BY <2>0
  <2>2. CASE r # q
    BY <2>1, <2>2, InContents, PutPositions
  <2>3. CASE r = q /\ k = Len(content[q]) + 1
    BY <2>1, <2>3, PutPositions
  <2>4. CASE r = q /\ k # Len(content[q]) + 1
    <3>1. k \in 1..Len(content[q])
      BY <2>1, <2>4, PutPositions
    <3> QED BY <2>1, <2>4, <3>1, InContents, PutPositions
  <2> QED BY <2>2, <2>3, <2>4
<1>2. ASSUME NEW y \in Contents PROVE y \in Contents'
  <2>0. PICK r \in Queues : \E k \in 1..Len(content[r]) : content[r][k] = y
    BY <1>2, InContents
  <2>1. PICK k \in 1..Len(content[r]) : content[r][k] = y
    BY <2>0
  <2>2. k \in 1..Len(content'[r]) /\ content'[r][k] = y
    <3>1. CASE r # q
      BY <2>1, <3>1, PutPositions
    <3>2. CASE r = q
      BY <2>1, <3>2, PutPositions
    <3> QED BY <3>1, <3>2
  <2> QED BY <2>2, InContentsNext
<1>3. x \in Contents'
  <2>0. /\ Len(content[q]) \in Nat /\ Len(content'[q]) = Len(content[q]) + 1
        /\ content'[q][Len(content[q]) + 1] = x
    BY PutPositions
  <2>1. Len(content[q]) + 1 \in 1..Len(content'[q])
    BY <2>0
  <2> QED BY <2>0, <2>1, InContentsNext
<1> QED BY <1>1, <1>2, <1>3

\* The item a dequeue returns was in the queue once, and is gone.
LEMMA TakeContents ==
  ASSUME TypeOK, ItemsInv, NEW q \in Queues, content[q] # << >>,
         content' = [content EXCEPT ![q] = Tail(@)]
  PROVE  Head(content[q]) \in Contents /\ Contents' = Contents \ {Head(content[q])}
<1>d. \A p, r \in Queues : \A k \in 1..Len(content[p]), l \in 1..Len(content[r]) :
        content[p][k] = content[r][l] => p = r /\ k = l
  BY DEF ItemsInv
<1>0. 1 \in 1..Len(content[q]) /\ Head(content[q]) = content[q][1]
  BY TakePositions
<1>1. Head(content[q]) \in Contents
  BY <1>0, InContents
<1>2. ASSUME NEW y \in Contents' PROVE y \in Contents /\ y # Head(content[q])
  <2>0. PICK r \in Queues : \E k \in 1..Len(content'[r]) : content'[r][k] = y
    BY <1>2, InContentsNext
  <2>1. PICK k \in 1..Len(content'[r]) : content'[r][k] = y
    BY <2>0
  <2>2. CASE r # q
    <3>1. k \in 1..Len(content[r]) /\ content[r][k] = y
      BY <2>1, <2>2, TakePositions
    <3>2. content[r][k] # content[q][1]
      BY <1>0, <1>d, <2>2, <3>1
    <3> QED BY <1>0, <3>1, <3>2, InContents
  <2>3. CASE r = q
    <3>0. /\ Len(content[q]) \in Nat /\ Len(content'[q]) = Len(content[q]) - 1
          /\ \A l \in 1..Len(content'[q]) : content'[q][l] = content[q][l + 1]
      BY TakePositions
    <3>1. k + 1 \in 1..Len(content[q]) /\ content[q][k + 1] = y /\ k + 1 # 1
      BY <2>1, <2>3, <3>0
    <3>2. content[q][k + 1] # content[q][1]
      BY <1>0, <1>d, <3>1
    <3> QED BY <1>0, <3>1, <3>2, InContents
  <2> QED BY <2>2, <2>3
<1>3. ASSUME NEW y \in Contents, y # Head(content[q]) PROVE y \in Contents'
  <2>0. PICK r \in Queues : \E k \in 1..Len(content[r]) : content[r][k] = y
    BY <1>3, InContents
  <2>1. PICK k \in 1..Len(content[r]) : content[r][k] = y
    BY <2>0
  <2>2. CASE r # q
    BY <2>1, <2>2, TakePositions, InContentsNext
  <2>3. CASE r = q
    <3>1. k # 1
      BY <1>0, <1>3, <2>1, <2>3
    <3>2. k - 1 \in 1..Len(content'[q]) /\ (k - 1) + 1 = k
      BY <2>1, <2>3, <3>1, TakePositions
    <3>3. content'[q][k - 1] = y
      BY ZenonT(60), <2>1, <2>3, <3>2, TakePositions
    <3> QED BY <3>2, <3>3, InContentsNext
  <2> QED BY <2>2, <2>3
<1> QED BY <1>1, <1>2, <1>3

-----------------------------------------------------------------------------
LEMMA ItemsInvStep ==
  ASSUME VInv, ItemsInv, NEW u \in Threads, VStep(u)
  PROVE  ItemsInv'
<1>t. /\ TypeOK /\ VTypes /\ CallInv(u) /\ issued \in Nat
      /\ pc \in [Threads -> PCs] /\ item \in [Threads -> 0..MaxItems]
  BY DEF VInv, TypeOK, CallTypes, QueueTypes
<1>o. \A t \in Threads : t # u => pc'[t] = pc[t] /\ item'[t] = item[t]
  BY <1>t, VOtherThread
<1>i. /\ \A q \in Queues : \A k \in 1..Len(content[q]) : content[q][k] \in 1..issued
      /\ \A p, r \in Queues : \A k \in 1..Len(content[p]), l \in 1..Len(content[r]) :
           content[p][k] = content[r][l] => p = r /\ k = l
      /\ \A t \in Threads : pc[t] \in EnqPCs => item[t] \in 1..issued /\ item[t] \notin Contents
      /\ \A t, s \in Threads :
           pc[t] \in EnqPCs /\ pc[s] \in EnqPCs /\ item[t] = item[s] => t = s
  BY DEF ItemsInv
<1>1. CASE VEnqueue(u)
  <2>1. /\ content' = content /\ issued' = issued + 1 /\ item'[u] = issued + 1
        /\ pc'[u] = "e_sample"
    BY <1>1, <1>t DEF VEnqueue, Enqueue, Goto, queueVars
  <2>2. Contents' = Contents
    BY <2>1 DEF Contents
  <2>3. issued + 1 \in 1..issued' /\ issued + 1 \notin 1..issued /\ 1..issued \subseteq 1..issued'
    BY <1>t, <2>1
  <2>4. issued + 1 \notin Contents
    BY <1>i, <2>3, InContents
  <2>5. \A q \in Queues : \A k \in 1..Len(content'[q]) : content'[q][k] \in 1..issued'
    BY <1>i, <2>1, <2>3
  <2>6. \A t \in Threads : pc'[t] \in EnqPCs => item'[t] \in 1..issued' /\ item'[t] \notin Contents'
    BY <1>i, <1>o, <2>1, <2>2, <2>3, <2>4
  <2>7. \A t, s \in Threads :
           pc'[t] \in EnqPCs /\ pc'[s] \in EnqPCs /\ item'[t] = item'[s] => t = s
    BY <1>i, <1>o, <2>1, <2>3
  <2> QED BY <1>i, <2>1, <2>5, <2>6, <2>7 DEF ItemsInv
<1>2. ASSUME NEW q \in Queues, PutStep(u, q) PROVE ItemsInv'
  <2>1. /\ content' = [content EXCEPT ![q] = Append(@, item[u])] /\ issued' = issued
        /\ pc[u] \in EnqPCs /\ pc'[u] = "idle"
    BY <1>2, <1>t DEF PutStep, Return, EnqPCs
  <2>2. item[u] \in Items /\ item[u] \in 1..issued /\ item[u] \notin Contents
    BY <1>i, <2>1, <1>t DEF TypeOK, CallTypes, Items
  <2>3. Contents' = Contents \cup {item[u]}
    BY <1>t, <2>1, <2>2, PutContents
  <2> DEFINE n == Len(content[q]) + 1
  <2>4. ASSUME NEW r \in Queues, NEW k \in 1..Len(content'[r])
        PROVE  \/ r = q /\ k = n /\ content'[r][k] = item[u]
               \/ k \in 1..Len(content[r]) /\ content'[r][k] = content[r][k]
    <3>1. CASE r # q
      BY <1>t, <2>1, <2>2, <3>1, PutPositions
    <3>2. CASE r = q /\ k = n
      BY <1>t, <2>1, <2>2, <3>2, PutPositions
    <3>3. CASE r = q /\ k # n
      <4>1. k \in 1..Len(content[q])
        BY <1>t, <2>1, <2>2, <3>3, PutPositions
      <4> QED BY <1>t, <2>1, <2>2, <3>3, <4>1, PutPositions
    <3> QED BY <3>1, <3>2, <3>3
  <2> HIDE DEF n
  <2>5. \A r \in Queues : \A k \in 1..Len(content[r]) : content[r][k] # item[u]
    BY <2>2, InContents
  <2>6. \A r \in Queues : \A k \in 1..Len(content'[r]) : content'[r][k] \in 1..issued'
    BY <1>i, <2>1, <2>2, <2>4
  <2>7. ASSUME NEW p \in Queues, NEW r \in Queues, NEW k \in 1..Len(content'[p]),
               NEW l \in 1..Len(content'[r]), content'[p][k] = content'[r][l]
        PROVE  p = r /\ k = l
    <3>1. \/ p = q /\ k = n /\ content'[p][k] = item[u]
          \/ k \in 1..Len(content[p]) /\ content'[p][k] = content[p][k]
      BY <2>4
    <3>2. \/ r = q /\ l = n /\ content'[r][l] = item[u]
          \/ l \in 1..Len(content[r]) /\ content'[r][l] = content[r][l]
      BY <2>4
    <3> QED BY <1>i, <2>5, <2>7, <3>1, <3>2
  <2>8. \A t \in Threads : pc'[t] \in EnqPCs => item'[t] \in 1..issued' /\ item'[t] \notin Contents'
    BY <1>i, <1>o, <2>1, <2>3 DEF EnqPCs
  <2>9. \A t, s \in Threads :
           pc'[t] \in EnqPCs /\ pc'[s] \in EnqPCs /\ item'[t] = item'[s] => t = s
    BY <1>i, <1>o, <2>1 DEF EnqPCs
  <2> QED BY <2>6, <2>7, <2>8, <2>9 DEF ItemsInv
<1>3. ASSUME NEW q \in Queues, TakeStep(u, q) PROVE ItemsInv'
  <2>1. /\ content[q] # << >> /\ content' = [content EXCEPT ![q] = Tail(@)]
        /\ issued' = issued /\ pc'[u] = "idle"
    BY <1>3, <1>t DEF TakeStep, Take, Return
  <2>3. Contents' \subseteq Contents
    BY <1>t, <2>1, TakeContents
  <2> DEFINE from(r, k) == IF r = q THEN k + 1 ELSE k
  <2>4. ASSUME NEW r \in Queues, NEW k \in 1..Len(content'[r])
        PROVE  from(r, k) \in 1..Len(content[r]) /\ content'[r][k] = content[r][from(r, k)]
    <3>1. CASE r # q
      BY <1>t, <2>1, <3>1, TakePositions
    <3>2. CASE r = q
      <4>1. /\ Len(content[q]) \in Nat /\ Len(content'[q]) = Len(content[q]) - 1
            /\ \A l \in 1..Len(content'[q]) : content'[q][l] = content[q][l + 1]
        BY <1>t, <2>1, TakePositions
      <4> QED BY <3>2, <4>1
    <3> QED BY <3>1, <3>2
  <2>5. \A r \in Queues : \A k \in 1..Len(content'[r]) : content'[r][k] \in 1..issued'
    BY <1>i, <2>1, <2>4
  <2>6. ASSUME NEW p \in Queues, NEW r \in Queues, NEW k \in 1..Len(content'[p]),
               NEW l \in 1..Len(content'[r]), content'[p][k] = content'[r][l]
        PROVE  p = r /\ k = l
    <3>1. p = r /\ from(p, k) = from(r, l)
      <4>1. PICK a \in 1..Len(content[p]) : a = from(p, k) /\ content'[p][k] = content[p][a]
        BY <2>4
      <4>2. PICK b \in 1..Len(content[r]) : b = from(r, l) /\ content'[r][l] = content[r][b]
        BY <2>4
      <4>3. content[p][a] = content[r][b]
        BY <2>6, <4>1, <4>2
      <4>4. p = r /\ a = b
        BY <1>i, <4>3
      <4> QED BY <4>1, <4>2, <4>4
    <3> QED BY <3>1
  <2>7. \A t \in Threads : pc'[t] \in EnqPCs => item'[t] \in 1..issued' /\ item'[t] \notin Contents'
    BY <1>i, <1>o, <2>1, <2>3 DEF EnqPCs
  <2>8. \A t, s \in Threads :
           pc'[t] \in EnqPCs /\ pc'[s] \in EnqPCs /\ item'[t] = item'[s] => t = s
    BY <1>i, <1>o, <2>1 DEF EnqPCs
  <2> QED BY <2>5, <2>6, <2>7, <2>8 DEF ItemsInv
<1>4. CASE /\ UNCHANGED <<content, issued>>
           /\ pc'[u] \in EnqPCs => pc[u] \in EnqPCs /\ item'[u] = item[u]
  <2>1. Contents' = Contents
    BY <1>4 DEF Contents
  <2>2. \A t \in Threads : pc'[t] \in EnqPCs => pc[t] \in EnqPCs /\ item'[t] = item[t]
    BY <1>4, <1>o
  <2> QED BY <1>4, <1>i, <2>1, <2>2 DEF ItemsInv
<1>5. CASE VDequeue(u) \/ CountEnq(u) \/ CountDeq(u) \/ ReturnEmpty(u)
  <2>1. UNCHANGED <<content, issued>>
    BY <1>5 DEF VDequeue, Dequeue, CountEnq, CountDeq, ReturnEmpty, vars, queueVars
  <2>2. pc'[u] \in EnqPCs => pc[u] \in EnqPCs /\ item'[u] = item[u]
    BY <1>5, <1>t DEF VDequeue, Dequeue, CountEnq, CountDeq, ReturnEmpty, vars, localVars,
                      Return, Goto, EnqPCs
  <2> QED BY <2>1, <2>2, <1>4
<1> QED BY <1>t, <1>1, <1>2, <1>3, <1>4, <1>5, StepKinds DEF QuietStep

-----------------------------------------------------------------------------
\* The call each thread is in, as RelaxedBag sees it.
BagOp == [t \in Threads |-> IF pc[t] \in DeqPCs THEN <<"get">>
                            ELSE IF pc[t] \in EnqPCs THEN <<"put", item[t]>>
                            ELSE <<"idle">>]

LEMMA BagEmpty == TypeOK => (Contents = {} <=> AllEmpty)
<1> SUFFICES ASSUME TypeOK PROVE Contents = {} <=> AllEmpty
  OBVIOUS
<1>0. \A q \in Queues : content[q] \in Seq(Items)
  BY DEF TypeOK, QueueTypes
<1>1. ASSUME Contents = {}, NEW q \in Queues PROVE content[q] = << >>
  <2>1. \A k \in 1..Len(content[q]) : FALSE
    BY <1>1, InContents
  <2>2. Len(content[q]) \in Nat
    BY <1>0
  <2>3. Len(content[q]) = 0
    <3>1. CASE Len(content[q]) > 0
      <4>1. 1 \in 1..Len(content[q])
        BY <2>2, <3>1
      <4> QED BY <2>1, <4>1
    <3> QED BY <2>2, <3>1
  <2> QED BY <1>0, <2>3
<1>2. ASSUME AllEmpty, NEW x \in Contents PROVE FALSE
  <2>1. PICK q \in Queues : \E k \in 1..Len(content[q]) : content[q][k] = x
    BY <1>2, InContents
  <2>2. content[q] = << >> /\ Len(<< >>) = 0
    BY <1>2 DEF AllEmpty
  <2> QED BY <2>1, <2>2
<1> QED BY <1>1, <1>2 DEF AllEmpty

LEMMA BagEmptyNext == (TypeOK => (Contents = {} <=> AllEmpty))'
  BY BagEmpty, PTL

\* The history variable of the queue is that of the bag.
LEMMA BagObserves ==
  ASSUME TypeOK', Observe
  PROVE  Bag!Observe
<1>1. Contents' = {} <=> AllEmpty'
  BY BagEmptyNext
<1>2. Dequeuers' = {t \in Threads : BagOp'[t] = <<"get">>}
  BY DEF Dequeuers, BagOp, EnqPCs, DeqPCs
<1> QED BY <1>1, <1>2 DEF Observe, Bag!Observe, Bag!Getters, BagOp

\* Every step of every design is a step of RelaxedBag or invisible to it.
LEMMA BagStep ==
  ASSUME VInv, VInv', ItemsInv, NEW u \in Threads, VStep(u), Observe
  PROVE  [Bag!Next]_(Bag!vars)
<1>t. /\ TypeOK /\ TypeOK' /\ VTypes /\ CallInv(u) /\ SeenInv /\ issued \in 0..MaxItems
      /\ pc \in [Threads -> PCs] /\ item \in [Threads -> 0..MaxItems]
  BY DEF VInv, TypeOK, CallTypes, QueueTypes
<1>b. Bag!Observe
  BY <1>t, BagObserves
<1>o. \A t \in Threads : t # u => pc'[t] = pc[t] /\ item'[t] = item[t]
  BY <1>t, VOtherThread
<1>p. ASSUME NEW c, BagOp'[u] = c PROVE BagOp' = [BagOp EXCEPT ![u] = c]
  BY <1>o, <1>p DEF BagOp
<1>1. CASE VEnqueue(u)
  <2>1. /\ content' = content /\ issued' = issued + 1 /\ item'[u] = issued + 1
        /\ pc[u] = "idle" /\ pc'[u] = "e_sample" /\ issued < MaxItems
    BY <1>1, <1>t DEF VEnqueue, Enqueue, Goto, queueVars
  <2>2. Contents' = Contents
    BY <2>1 DEF Contents
  <2>3. /\ issued + 1 \in Items /\ issued + 1 \notin 1..issued
        /\ 1..issued' = (1..issued) \cup {issued + 1}
    BY <1>t, <2>1, DBAssumption DEF Items
  <2>4. BagOp[u] = <<"idle">> /\ BagOp'[u] = <<"put", issued + 1>>
    BY <2>1 DEF BagOp, EnqPCs, DeqPCs
  <2>x. PICK x \in Items : x = issued + 1
    BY <2>3
  <2>5. Bag!CallPut(u, x)
    BY <2>x, <1>p, <2>2, <2>3, <2>4 DEF Bag!CallPut, BagOp
  <2> QED BY <1>b, <2>5 DEF Bag!Next
<1>2. ASSUME NEW q \in Queues, PutStep(u, q) PROVE Bag!Next
  <2>1. /\ content' = [content EXCEPT ![q] = Append(@, item[u])] /\ issued' = issued
        /\ pc[u] = "e_put" /\ pc'[u] = "idle"
    BY <1>2, <1>t DEF PutStep, Return
  <2>2. item[u] \in Items
    BY <2>1, <1>t DEF TypeOK, CallTypes, Items, EnqPCs
  <2>3. Contents' = Contents \cup {item[u]}
    BY <1>t, <2>1, <2>2, PutContents
  <2>4. BagOp[u] = <<"put", item[u]>> /\ BagOp'[u] = <<"idle">>
    BY <2>1 DEF BagOp, EnqPCs, DeqPCs
  <2>x. PICK x \in Items : x = item[u]
    BY <2>2
  <2>5. Bag!Put(u, x)
    BY <2>x, <1>p, <2>1, <2>3, <2>4 DEF Bag!Put, BagOp
  <2> QED BY <1>b, <2>5 DEF Bag!Next
<1>3. ASSUME NEW q \in Queues, TakeStep(u, q) PROVE Bag!Next
  <2>1. /\ content[q] # << >> /\ content' = [content EXCEPT ![q] = Tail(@)]
        /\ issued' = issued /\ pc[u] \in DeqPCs /\ pc'[u] = "idle"
    BY <1>3, <1>t DEF TakeStep, Take, Return
  <2>2. Head(content[q]) \in Contents /\ Contents' = Contents \ {Head(content[q])}
    BY <1>t, <2>1, TakeContents
  <2>3. Head(content[q]) \in Items
    BY <1>t, <2>1 DEF TypeOK, QueueTypes
  <2>4. BagOp[u] = <<"get">> /\ BagOp'[u] = <<"idle">>
    BY <2>1 DEF BagOp, EnqPCs, DeqPCs
  <2>x. PICK x \in Items : x = Head(content[q])
    BY <2>3
  <2>5. Bag!Get(u, x)
    BY <2>x, <1>p, <2>1, <2>2, <2>4 DEF Bag!Get, BagOp
  <2> QED BY <1>b, <2>5 DEF Bag!Next
<1>4. CASE VDequeue(u)
  <2>1. content' = content /\ issued' = issued /\ pc[u] = "idle" /\ pc'[u] = "d_sample"
    BY <1>4, <1>t DEF VDequeue, Dequeue, Goto, queueVars
  <2>2. Contents' = Contents
    BY <2>1 DEF Contents
  <2>3. BagOp[u] = <<"idle">> /\ BagOp'[u] = <<"get">>
    BY <2>1 DEF BagOp, EnqPCs, DeqPCs
  <2>4. Bag!CallGet(u)
    BY <1>p, <2>1, <2>2, <2>3 DEF Bag!CallGet, BagOp
  <2> QED BY <1>b, <2>4 DEF Bag!Next
<1>5. CASE ReturnEmpty(u)
  <2>1. content' = content /\ issued' = issued /\ pc[u] = "d_empty" /\ pc'[u] = "idle"
    BY <1>5, <1>t DEF ReturnEmpty, Return, queueVars
  <2>2. Contents' = Contents
    BY <2>1 DEF Contents
  <2>3. BagOp[u] = <<"get">> /\ BagOp'[u] = <<"idle">>
    BY <2>1 DEF BagOp, EnqPCs, DeqPCs
  <2>4. u \in sawEmpty
    BY <2>1 DEF VInv, ThreadInv
  <2>5. Bag!GetEmpty(u)
    BY <1>p, <2>1, <2>2, <2>3, <2>4 DEF Bag!GetEmpty, BagOp
  <2> QED BY <1>b, <2>5 DEF Bag!Next
<1>6. CASE QuietStep(u) \/ CountEnq(u) \/ CountDeq(u)
  <2>1. /\ content' = content /\ issued' = issued /\ item' = item
        /\ pc'[u] \in EnqPCs <=> pc[u] \in EnqPCs
        /\ pc'[u] \in DeqPCs <=> pc[u] \in DeqPCs
    BY <1>6 DEF QuietStep, CountEnq, CountDeq, vars, queueVars, localVars
  <2>2. Contents' = Contents /\ AllEmpty' = AllEmpty
    BY <2>1 DEF Contents, AllEmpty
  <2>3. BagOp' = BagOp /\ Dequeuers' = Dequeuers
    BY <1>o, <2>1 DEF BagOp, Dequeuers
  <2>4. sawEmpty' = sawEmpty
    BY <1>t, <2>2, <2>3 DEF Observe, SeenInv
  <2> QED BY <2>1, <2>2, <2>3, <2>4 DEF Bag!vars, BagOp
<1> QED BY <1>t, <1>1, <1>2, <1>3, <1>4, <1>5, <1>6, StepKinds

\* All eight d-CBO queues implement RelaxedBag: no item is lost or returned
\* twice, and EMPTY is answered only by a dequeue during which the whole queue
\* was empty, whatever the interleaving and the random choices.
THEOREM ImplementsRelaxedBag == VSpec => IsRelaxedBag
<1>1. VInit => ItemsInv /\ Bag!Init
  <2> SUFFICES ASSUME VInit PROVE ItemsInv /\ Bag!Init
    OBVIOUS
  <2>1. \A q \in Queues : content[q] = << >> /\ Len(content[q]) = 0
    BY DEF VInit, Init
  <2>2. Contents = {}
    BY <2>1, InContents
  <2>3. ItemsInv
    BY <2>1 DEF VInit, Init, ItemsInv, EnqPCs
  <2>4. 1..issued = {}
    BY DEF VInit, Init
  <2>5. BagOp = [t \in Threads |-> <<"idle">>]
    BY DEF VInit, Init, BagOp, EnqPCs, DeqPCs
  <2>6. Bag!Init
    BY <2>2, <2>4, <2>5 DEF VInit, Init, Bag!Init, BagOp
  <2> QED BY <2>3, <2>6
<1>2. VInv /\ ItemsInv /\ [VNext]_allVars => ItemsInv' /\ [Bag!Next]_(Bag!vars)
  <2> SUFFICES ASSUME VInv, ItemsInv, [VNext]_allVars
               PROVE  ItemsInv' /\ [Bag!Next]_(Bag!vars)
    OBVIOUS
  <2>1. CASE UNCHANGED allVars
    <3>1. UNCHANGED <<content, issued, pc, item, sawEmpty>>
      BY <2>1 DEF allVars, vars, queueVars, localVars
    <3>2. ItemsInv'
      BY <3>1 DEF ItemsInv, Contents
    <3>3. UNCHANGED Bag!vars
      BY <3>1 DEF Bag!vars, Contents
    <3> QED BY <3>2, <3>3
  <2>2. ASSUME NEW u \in Threads, VStep(u), Observe
        PROVE  ItemsInv' /\ (VInv' => [Bag!Next]_(Bag!vars))
    BY <2>2, ItemsInvStep, BagStep
  <2> QED BY <2>1, <2>2, VInvStep DEF VNext
<1> QED BY <1>1, <1>2, VInvHolds, PTL DEF VSpec, IsRelaxedBag, Bag!Spec
=============================================================================
