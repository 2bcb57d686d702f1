----------------------------- MODULE MC2D_proofs -----------------------------
(***************************************************************************)
(* Proofs about the 2Dd queue, the optimized one and the suite of the 2D   *)
(* systems, for every number of threads, width, depth, random hops, items. *)
(***************************************************************************)
EXTENDS MC2D, Window2Dd_proofs, FiniteSetTheorems

-----------------------------------------------------------------------------
\* The 2Dd queue

\* An enqueue before its node is linked.
BeforeLink == {"p_enter", "p_desc", "p_window", "p_shift", "p_resync", "p_done",
               "e_check", "e_link", "e_help"}
Enqueuing == {t \in Threads : pc[t] \in BeforeLink}

\* Every enqueue that has been called has linked its item or is still about to.
ItemsInv == /\ IsFiniteSet(Enqueuing)
            /\ linkedItems + Cardinality(Enqueuing) = started

\* The put count is that of the last node or of the one before it, and no node
\* is linked above the put window.
ListInv == \A q \in Subs : /\ put[q] = Linked(q) \/ put[q] = Linked(q) - 1
                           /\ Linked(q) <= PW

\* What an operation has read is at most what is there now; it helps, or moves a
\* head, only if there is a node to move to.
OpInv(t) ==
  /\ pc[t] \in {"e_check", "e_link", "e_help", "e_swing"} =>
       desc[t].put <= put[idx[t]] /\ desc[t].put < PW
  /\ pc[t] \in {"e_help", "e_swing"} => desc[t].put < Linked(idx[t])
  /\ pc[t] \in {"d_check", "d_help", "d_swing"} =>
       /\ desc[t].get <= get[idx[t]]
       /\ desc[t].get <= tailCount[t]
       /\ tailCount[t] <= put[idx[t]]
  /\ pc[t] = "d_help" => tailCount[t] < Linked(idx[t])
  /\ pc[t] = "d_swing" => desc[t].get < tailCount[t]

QueueInv == /\ TypeOK
            /\ CountsInv
            /\ ListInv
            /\ ItemsInv
            /\ \A t \in Threads : SearchInv(t) /\ OpInv(t)

-----------------------------------------------------------------------------
\* Facts about one state

LEMMA QueueFacts ==
  ASSUME TypeOK, NEW q \in Subs
  PROVE  /\ put[q] \in Nat /\ get[q] \in Nat /\ content[q] \in Seq(Items)
         /\ Len(content[q]) \in Nat /\ Linked(q) \in Nat /\ get[q] <= Linked(q)
  BY DEF TypeOK, WindowTypes, Linked

LEMMA ThreadFacts ==
  ASSUME TypeOK, NEW t \in Threads
  PROVE  /\ idx[t] \in Subs /\ desc[t].put \in Nat /\ desc[t].get \in Nat
         /\ tailCount[t] \in Nat /\ PW \in Nat /\ GW \in Nat /\ pc[t] \in QueuePCs
         /\ put[idx[t]] \in Nat /\ get[idx[t]] \in Nat /\ Linked(idx[t]) \in Nat
         /\ Len(content[idx[t]]) \in Nat /\ content[idx[t]] \in Seq(Items)
<1>1. WindowTypes /\ pc[t] \in QueuePCs
  BY DEF TypeOK
<1>2. idx[t] \in Subs
  BY <1>1, LocalTypes
<1> QED BY <1>1, <1>2, LocalTypes, QueueFacts

\* No enqueue is linked that was not called.
LEMMA RoomForItem ==
  ASSUME TypeOK, ItemsInv, NEW t \in Enqueuing
  PROVE  linkedItems + 1 \in Items /\ linkedItems + 1 \in 0..MaxItems
<1>1. Cardinality(Enqueuing) \in Nat /\ Cardinality(Enqueuing) # 0
  BY FS_CardinalityType, FS_EmptySet DEF ItemsInv
<1> QED BY <1>1, ItemsAssumption DEF TypeOK, ItemsInv, Items

LEMMA SameEnqueuing ==
  ASSUME TypeOK, ItemsInv, NEW t \in Threads, NEW x, pc' = [pc EXCEPT ![t] = x],
         x \in BeforeLink <=> pc[t] \in BeforeLink, UNCHANGED <<started, linkedItems>>
  PROVE  ItemsInv'
<1>1. Enqueuing' = Enqueuing
  BY DEF TypeOK, Enqueuing
<1> QED BY <1>1 DEF ItemsInv

-----------------------------------------------------------------------------
\* What a step leaves alone

StepFrame(t) ==
  /\ Grow
  /\ \A q \in Subs : Linked(q) <= Linked(q)'
  /\ \A s \in Threads \ {t} : SameLocals(s)

LEMMA Combine ==
  ASSUME QueueInv, TypeOK', NEW t \in Threads, StepFrame(t), CountsInv', ListInv', ItemsInv',
         SearchInv(t)', OpInv(t)'
  PROVE  QueueInv'
<1>1. ASSUME NEW s \in Threads \ {t} PROVE SearchInv(s)'
  <2>1. WindowTypes /\ WindowTypes'
    BY DEF QueueInv, TypeOK
  <2> QED BY <2>1, OthersStay DEF QueueInv, StepFrame
<1>2. ASSUME NEW s \in Threads \ {t} PROVE OpInv(s)'
  <2>1. OpInv(s) /\ SameLocals(s) /\ Grow
    BY DEF QueueInv, StepFrame
  <2>2. /\ idx[s] \in Subs /\ desc[s].put \in Nat /\ desc[s].get \in Nat
        /\ tailCount[s] \in Nat /\ PW \in Nat
        /\ put[idx[s]] \in Nat /\ get[idx[s]] \in Nat /\ Linked(idx[s]) \in Nat
    BY ThreadFacts DEF QueueInv
  <2>3. \A q \in Subs : put'[q] \in Nat /\ get'[q] \in Nat /\ Linked(q)' \in Nat
    <3>1. \A q \in Subs : put'[q] \in Nat /\ get'[q] \in Nat /\ content'[q] \in Seq(Items)
      BY DEF TypeOK, WindowTypes
    <3>2. \A q \in Subs : Len(content'[q]) \in Nat
      BY <3>1
    <3> QED BY <3>1, <3>2 DEF Linked
  <2>4. PW' \in Nat /\ Linked(idx[s]) <= Linked(idx[s])'
    <3>1. Linked(idx[s])' = get'[idx'[s]] + Len(content'[idx'[s]])
      BY DEF Linked
    <3> QED BY <2>1, <2>2, <3>1 DEF TypeOK, WindowTypes, StepFrame, SameLocals, Linked
  <2>5. /\ Linked(idx[s])' \in Nat /\ put'[idx'[s]] \in Nat /\ get'[idx'[s]] \in Nat
        /\ put[idx[s]] <= put'[idx'[s]] /\ get[idx[s]] <= get'[idx'[s]] /\ PW <= PW'
    BY <2>1, <2>2, <2>3 DEF SameLocals, Grow, Linked
  <2> QED BY <2>1, <2>2, <2>4, <2>5 DEF OpInv, SameLocals
<1> QED BY <1>1, <1>2 DEF QueueInv

\* Where a thread is not searching.
Outside == {"idle", "p_enter", "g_enter", "e_check", "e_link", "e_help", "e_swing",
            "d_check", "d_help", "d_swing"}

LEMMA OutsideSearch ==
  ASSUME NEW t \in Threads, SearchInv(t), pc'[t] \in Outside,
         hops'[t] = 0 \/ (hops'[t] = hops[t] /\ random'[t] = random[t])
  PROVE  SearchInv(t)'
<1>1. HopInv(t)'
  BY DEF SearchInv, HopInv
<1>2. PutInv(t)'
  BY DEF PutInv, PutLoop, Outside
<1>3. GetInv(t)'
  BY DEF GetInv, GetLoop, Outside
<1> QED BY <1>1, <1>2, <1>3 DEF SearchInv

LocalsTyped ==
  /\ pc \in [Threads -> QueuePCs]
  /\ idx \in [Threads -> Subs]
  /\ win \in [Threads -> Nat]
  /\ contention \in [Threads -> BOOLEAN]
  /\ hops \in [Threads -> 0..Width]
  /\ random \in [Threads -> 0..RandomHops]
  /\ notempty \in [Threads -> BOOLEAN]
  /\ desc \in [Threads -> [put : Nat, get : Nat]]
  /\ tailCount \in [Threads -> Nat]

LEMMA TypeParts ==
  TypeOK <=> /\ LocalsTyped
             /\ put \in [Subs -> Nat] /\ get \in [Subs -> Nat] /\ PW \in Nat /\ GW \in Nat
             /\ content \in [Subs -> Seq(Items)]
             /\ started \in 0..MaxItems /\ linkedItems \in 0..MaxItems
  BY DEF TypeOK, LocalsTyped, WindowTypes

\* The locals after the end of an operation, after a failed one and after a jump.
LEMMA LocalSteps ==
  ASSUME TypeOK, NEW t \in Threads, SearchInv(t),
         \/ Leave(t)
         \/ \E x \in {"p_enter", "g_enter"}, f \in BOOLEAN : Retry(t, x, f)
         \/ \E x \in Outside : pc' = [pc EXCEPT ![t] = x] /\ UNCHANGED searchVars
  PROVE  /\ LocalsTyped' /\ SearchInv(t)' /\ pc'[t] \in Outside
         /\ \A s \in Threads \ {t} : SameLocals(s)
<1>0. LocalsTyped
  BY TypeParts
<1>1. CASE Leave(t)
  <2>1. /\ LocalsTyped' /\ \A s \in Threads \ {t} : SameLocals(s)
        /\ pc'[t] = "idle" /\ hops'[t] = 0
    BY <1>0, <1>1, ConstantFacts DEF LocalsTyped, Leave, SameLocals, QueuePCs, NoDesc
  <2> QED BY <2>1, OutsideSearch DEF Outside
<1>2. ASSUME NEW x \in {"p_enter", "g_enter"}, NEW f \in BOOLEAN, Retry(t, x, f)
      PROVE  /\ LocalsTyped' /\ SearchInv(t)' /\ pc'[t] \in Outside
             /\ \A s \in Threads \ {t} : SameLocals(s)
  <2>1. /\ LocalsTyped' /\ \A s \in Threads \ {t} : SameLocals(s)
        /\ pc'[t] = x /\ hops'[t] = hops[t] /\ random'[t] = random[t]
    BY <1>0, <1>2 DEF LocalsTyped, Retry, SameLocals, QueuePCs, SearchPCs
  <2> QED BY <1>2, <2>1, OutsideSearch DEF Outside
<1>3. ASSUME NEW x \in Outside, pc' = [pc EXCEPT ![t] = x], UNCHANGED searchVars
      PROVE  /\ LocalsTyped' /\ SearchInv(t)' /\ pc'[t] \in Outside
             /\ \A s \in Threads \ {t} : SameLocals(s)
  <2>0. x \in QueuePCs
    BY DEF Outside, QueuePCs, SearchPCs
  <2>1. /\ LocalsTyped' /\ \A s \in Threads \ {t} : SameLocals(s)
        /\ pc'[t] = x /\ hops'[t] = hops[t] /\ random'[t] = random[t]
    BY <1>0, <1>3, <2>0 DEF LocalsTyped, SameLocals, searchVars
  <2> QED BY <2>1, OutsideSearch
<1> QED BY <1>1, <1>2, <1>3

-----------------------------------------------------------------------------
\* Steps that move no count

LEMMA QuietStep ==
  ASSUME QueueInv, NEW t \in Threads, LocalsTyped', SearchInv(t)', OpInv(t)', ItemsInv',
         \A s \in Threads \ {t} : SameLocals(s),
         UNCHANGED <<globalVars, content, linkedItems>>, started' \in 0..MaxItems
  PROVE  QueueInv'
<1>1. TypeOK'
  BY TypeParts DEF QueueInv, globalVars, LocalsTyped, TypeOK, WindowTypes
<1>2. \A q : Linked(q)' = Linked(q)
  BY DEF Linked, globalVars
<1>3. StepFrame(t)
  <2>1. \A q \in Subs : put[q] \in Nat /\ get[q] \in Nat /\ Linked(q) \in Nat
    BY QueueFacts DEF QueueInv
  <2> QED BY SMTT(30), <1>2, <2>1 DEF StepFrame, Grow, globalVars, QueueInv, TypeOK, WindowTypes
<1>4. CountsInv' /\ ListInv'
  BY <1>2 DEF QueueInv, CountsInv, ListInv, ShiftsApart, globalVars
<1> QED BY <1>1, <1>3, <1>4, Combine

LEMMA CallKeeps ==
  ASSUME QueueInv, NEW t \in Threads, Enqueue(t) \/ Dequeue(t)
  PROVE  QueueInv'
<1>0. TypeOK /\ SearchInv(t) /\ OpInv(t) /\ ItemsInv
  BY DEF QueueInv
<1>1. CASE Enqueue(t)
  <2>1. /\ pc[t] = "idle" /\ pc' = [pc EXCEPT ![t] = "p_enter"] /\ pc'[t] = "p_enter"
        /\ UNCHANGED <<globalVars, searchVars, content, linkedItems>>
        /\ started' = started + 1 /\ started' \in 0..MaxItems
    BY <1>0, <1>1, ItemsAssumption DEF Enqueue, Goto, TypeOK
  <2>2. /\ LocalsTyped' /\ SearchInv(t)' /\ \A s \in Threads \ {t} : SameLocals(s)
    BY <1>0, <2>1, LocalSteps DEF Outside
  <2>3. OpInv(t)'
    BY <2>1 DEF OpInv
  <2>4. ItemsInv'
    <3>1. Enqueuing' = Enqueuing \cup {t} /\ t \notin Enqueuing
      BY <1>0, <2>1 DEF Enqueuing, BeforeLink, TypeOK
    <3>2. IsFiniteSet(Enqueuing') /\ Cardinality(Enqueuing') = Cardinality(Enqueuing) + 1
      BY <1>0, <3>1, FS_AddElement DEF ItemsInv
    <3>3. Cardinality(Enqueuing) \in Nat
      BY <1>0, FS_CardinalityType DEF ItemsInv
    <3>4. linkedItems \in Nat /\ linkedItems' = linkedItems
      BY <1>0, <2>1, ItemsAssumption DEF TypeOK
    <3>5. linkedItems + Cardinality(Enqueuing) = started
      BY <1>0 DEF ItemsInv
    <3>6. linkedItems' + Cardinality(Enqueuing') = started'
      BY <2>1, <3>2, <3>3, <3>4, <3>5
    <3> QED BY <3>2, <3>6 DEF ItemsInv
  <2> QED BY <2>1, <2>2, <2>3, <2>4, QuietStep
<1>2. CASE Dequeue(t)
  <2>1. /\ pc[t] = "idle" /\ pc' = [pc EXCEPT ![t] = "g_enter"] /\ pc'[t] = "g_enter"
        /\ UNCHANGED <<globalVars, searchVars, content, linkedItems, started>>
    BY <1>0, <1>2 DEF Dequeue, Goto, TypeOK, queueVars
  <2>2. /\ LocalsTyped' /\ SearchInv(t)' /\ \A s \in Threads \ {t} : SameLocals(s)
    BY <1>0, <2>1, LocalSteps DEF Outside
  <2>3. OpInv(t)'
    BY <2>1 DEF OpInv
  <2>4. ItemsInv'
    BY <1>0, <2>1, SameEnqueuing DEF BeforeLink
  <2>5. started' \in 0..MaxItems
    BY <1>0, <2>1 DEF TypeOK
  <2> QED BY <2>1, <2>2, <2>3, <2>4, <2>5, QuietStep
<1> QED BY <1>1, <1>2

\* put_window and get_window
LEMMA SearchStepKeeps ==
  ASSUME QueueInv, NEW t \in Threads, PutSearch(t) \/ GetSearch(t), GetHop(t) => SeenInv(t),
         UNCHANGED queueVars
  PROVE  QueueInv'
<1>0. WindowTypes /\ TypeOK /\ pc \in [Threads -> QueuePCs] /\ SearchPCs \subseteq QueuePCs
  BY DEF QueueInv, TypeOK, QueuePCs
<1>1. /\ WindowTypes' /\ pc' \in [Threads -> QueuePCs] /\ Grow
      /\ pc'[t] \in SearchPCs
      /\ UNCHANGED <<put, get>> /\ \A s \in Threads \ {t} : SameLocals(s)
  BY <1>0, SearchFrame
<1>2. CountsInv' /\ SearchInv(t)'
  BY <1>0, SearchKeeps DEF QueueInv
<1>3. TypeOK'
  BY <1>0, <1>1 DEF TypeOK, queueVars
<1>4. \A q : Linked(q)' = Linked(q)
  BY <1>1 DEF Linked, queueVars
<1>5. ListInv'
  <2>1. \A q \in Subs : Linked(q) \in Nat
    BY <1>0, QueueFacts
  <2>2. PW \in Nat /\ PW' \in Nat /\ PW <= PW'
    BY <1>0, <1>1 DEF WindowTypes, Grow
  <2>3. ListInv
    BY DEF QueueInv
  <2> QED BY <1>1, <1>4, <2>1, <2>2, <2>3 DEF ListInv
<1>6. OpInv(t)'
  BY <1>1 DEF OpInv, SearchPCs
<1>7. ItemsInv'
  <2>1. pc' = [pc EXCEPT ![t] = pc'[t]]
    BY <1>0, <1>1 DEF SameLocals
  <2>2. pc'[t] \in BeforeLink <=> pc[t] \in BeforeLink
    BY <1>0 DEF PutSearch, GetSearch, PutEnter, PutReadDesc, PutSync, PutValid, PutHop, PutNone,
         PutShift, PutResync, GetEnter, GetReadDesc, GetReadCount, GetSync, GetValid, GetHop,
         GetNone, GetShift, GetResync, GetEmpty, Goto, BeforeLink
  <2> QED BY <1>0, <2>1, <2>2, SameEnqueuing DEF QueueInv, queueVars
<1>8. StepFrame(t)
  <2>1. \A q \in Subs : Linked(q) \in Nat
    BY <1>0, QueueFacts
  <2> QED BY <1>1, <1>4, <2>1 DEF StepFrame
<1> QED BY <1>2, <1>3, <1>5, <1>6, <1>7, <1>8, Combine

\* The tests of enqueue and dequeue
LEMMA TestKeeps ==
  ASSUME QueueInv, NEW t \in Threads, EnqNext(t) \/ EnqCheck(t) \/ DeqCheck(t)
  PROVE  QueueInv'
<1>0. /\ TypeOK /\ SearchInv(t) /\ PutInv(t) /\ OpInv(t) /\ ItemsInv
      /\ put[idx[t]] <= Linked(idx[t])
  <2>1. TypeOK /\ SearchInv(t) /\ OpInv(t) /\ ItemsInv
    BY DEF QueueInv
  <2>2. idx[t] \in Subs /\ Linked(idx[t]) \in Nat /\ put[idx[t]] \in Nat
    BY <2>1, ThreadFacts
  <2> QED BY <2>1, <2>2 DEF QueueInv, ListInv, SearchInv
<1>1. UNCHANGED <<globalVars, searchVars, content, linkedItems, started>>
  BY DEF EnqNext, EnqCheck, DeqCheck, queueVars
<1>2. /\ idx'[t] = idx[t] /\ desc'[t] = desc[t] /\ tailCount'[t] = tailCount[t]
      /\ UNCHANGED <<put, get, PW>> /\ Linked(idx[t])' = Linked(idx[t])
  BY <1>1 DEF searchVars, globalVars, Linked
<1>3. /\ idx[t] \in Subs /\ desc[t].put \in Nat /\ desc[t].get \in Nat
      /\ tailCount[t] \in Nat /\ put[idx[t]] \in Nat /\ Linked(idx[t]) \in Nat
  BY <1>0, ThreadFacts
<1>4. PICK x \in Outside : /\ pc' = [pc EXCEPT ![t] = x] /\ pc'[t] = x
                           /\ x \in BeforeLink <=> pc[t] \in BeforeLink
                           /\ \/ /\ pc[t] = "p_done"
                                 /\ \/ x = "e_check"
                                    \/ x = "e_help" /\ Linked(idx[t]) # desc[t].put
                              \/ pc[t] = "e_check" /\ x \in {"p_enter", "e_link"}
                              \/ /\ pc[t] = "d_check"
                                 /\ \/ /\ x = "d_help" /\ desc[t].get = tailCount[t]
                                       /\ Linked(idx[t]) # desc[t].get
                                    \/ x = "d_swing" /\ desc[t].get # tailCount[t]
  BY <1>0 DEF EnqNext, EnqCheck, DeqCheck, Goto, Outside, BeforeLink, TypeOK
<1>5. LocalsTyped' /\ SearchInv(t)' /\ \A s \in Threads \ {t} : SameLocals(s)
  BY <1>0, <1>1, <1>4, LocalSteps
<1>6. OpInv(t)'
  BY <1>0, <1>2, <1>3, <1>4 DEF OpInv, PutInv
<1>7. ItemsInv'
  BY <1>0, <1>1, <1>4, SameEnqueuing
<1>8. started' \in 0..MaxItems
  BY <1>0, <1>1 DEF TypeOK
<1> QED BY <1>1, <1>5, <1>6, <1>7, <1>8, QuietStep

LEMMA ReadTailKeeps ==
  ASSUME QueueInv, NEW t \in Threads, DeqReadTail(t)
  PROVE  QueueInv'
<1>0. TypeOK /\ SearchInv(t) /\ GetInv(t) /\ ItemsInv /\ LocalsTyped
  BY TypeParts DEF QueueInv, SearchInv
<1>1. /\ pc[t] = "g_done" /\ pc' = [pc EXCEPT ![t] = "d_check"]
      /\ tailCount' = [tailCount EXCEPT ![t] = put[idx[t]]]
      /\ UNCHANGED <<globalVars, content, linkedItems, started, idx, win, contention, hops,
                     random, notempty, desc>>
  BY DEF DeqReadTail, Goto, queueVars
<1>2. /\ idx[t] \in Subs /\ put[idx[t]] \in Nat /\ get[idx[t]] \in Nat /\ desc[t].get \in Nat
  BY <1>0, ThreadFacts
<1>3. LocalsTyped' /\ \A s \in Threads \ {t} : SameLocals(s)
  BY <1>0, <1>1, <1>2 DEF LocalsTyped, SameLocals, QueuePCs
<1>4. /\ pc'[t] = "d_check" /\ tailCount'[t] = put[idx[t]] /\ idx'[t] = idx[t]
      /\ desc'[t] = desc[t] /\ UNCHANGED <<put, get>>
  BY <1>0, <1>1 DEF LocalsTyped, globalVars
<1>5. SearchInv(t)'
  BY <1>0, <1>1, <1>4, OutsideSearch DEF Outside
<1>6. OpInv(t)'
  <2>1. desc[t].get <= get[idx[t]] /\ get[idx[t]] <= put[idx[t]]
    BY <1>0, <1>1, <1>2 DEF GetInv, QueueInv, CountsInv
  <2> QED BY <1>2, <1>4, <2>1 DEF OpInv
<1>7. ItemsInv'
  BY <1>0, <1>1, SameEnqueuing DEF BeforeLink
<1>8. started' \in 0..MaxItems
  BY <1>0, <1>1 DEF TypeOK
<1> QED BY <1>1, <1>3, <1>5, <1>6, <1>7, <1>8, QuietStep

LEMMA EmptyKeeps ==
  ASSUME QueueInv, NEW t \in Threads, DeqEmpty(t)
  PROVE  QueueInv'
<1>0. TypeOK /\ SearchInv(t) /\ ItemsInv
  BY DEF QueueInv
<1>1. /\ pc[t] = "d_check" /\ pc' = [pc EXCEPT ![t] = "idle"] /\ pc'[t] = "idle" /\ Leave(t)
      /\ UNCHANGED <<globalVars, content, linkedItems, started>>
  BY <1>0 DEF DeqEmpty, Leave, queueVars, TypeOK
<1>2. LocalsTyped' /\ SearchInv(t)' /\ \A s \in Threads \ {t} : SameLocals(s)
  BY <1>0, <1>1, LocalSteps
<1>3. OpInv(t)' /\ started' \in 0..MaxItems
  BY <1>0, <1>1 DEF OpInv, TypeOK
<1>4. ItemsInv'
  BY <1>0, <1>1, SameEnqueuing DEF BeforeLink
<1> QED BY <1>1, <1>2, <1>3, <1>4, QuietStep

-----------------------------------------------------------------------------
\* Steps that move a count

LEMMA AdvanceKeeps ==
  ASSUME QueueInv, NEW t \in Threads, NEW e \in Nat, AdvancePut(t, e),
         e < Linked(idx[t]), UNCHANGED queueVars,
         LocalsTyped', SearchInv(t)', OpInv(t)', ItemsInv',
         \A s \in Threads \ {t} : SameLocals(s)
  PROVE  QueueInv'
<1>0. TypeOK /\ idx[t] \in Subs /\ put[idx[t]] \in Nat /\ Linked(idx[t]) \in Nat /\ PW \in Nat
  BY ThreadFacts DEF QueueInv
<1>1. /\ UNCHANGED <<get, PW, GW, content, started, linkedItems>>
      /\ put' \in [Subs -> Nat]
      /\ \A q \in Subs : put'[q] = put[q] \/ (q = idx[t] /\ put[q] = e /\ put'[q] = put[q] + 1)
  BY SMTT(30), <1>0 DEF AdvancePut, queueVars, TypeOK, WindowTypes
<1>2. TypeOK'
  BY <1>1, TypeParts DEF QueueInv, TypeOK, WindowTypes, LocalsTyped
<1>3. \A q : Linked(q)' = Linked(q)
  BY <1>1 DEF Linked
<1>4. \A q \in Subs : /\ put[q] \in Nat /\ get[q] \in Nat /\ Linked(q) \in Nat
                      /\ put[q] <= put'[q] /\ put'[q] \in Nat
  BY SMTT(30), <1>0, <1>1, QueueFacts
<1>5. ListInv'
  BY <1>0, <1>1, <1>3, <1>4 DEF QueueInv, ListInv
<1>6. CountsInv'
  <2>1. ShiftsApart(PW, GW)'
    BY <1>1 DEF QueueInv, CountsInv, ShiftsApart
  <2>2. ASSUME NEW q \in Subs
        PROVE  /\ PW - Depth <= put'[q] /\ put'[q] <= PW
               /\ GW - 2 * Depth <= get[q] /\ get[q] <= put'[q]
    <3>1. /\ PW - Depth <= put[q] /\ put[q] <= PW
          /\ GW - 2 * Depth <= get[q] /\ get[q] <= put[q]
      BY DEF QueueInv, CountsInv
    <3>2. put'[q] <= PW
      BY <1>0, <1>1, <1>3, <1>4, <1>5 DEF ListInv
    <3> QED BY <1>0, <1>4, <3>1, <3>2, ConstantFacts
  <2> QED BY <1>1, <2>1, <2>2 DEF CountsInv
<1>7. StepFrame(t)
  BY SMTT(30), <1>0, <1>1, <1>3, <1>4 DEF StepFrame, Grow, TypeOK, WindowTypes
<1> QED BY <1>2, <1>5, <1>6, <1>7, Combine

\* Helping: the put count follows a node that is linked already.
LEMMA HelpKeeps ==
  ASSUME QueueInv, NEW t \in Threads, EnqHelp(t) \/ EnqSwing(t) \/ DeqHelp(t)
  PROVE  QueueInv'
<1>0. TypeOK /\ SearchInv(t) /\ OpInv(t) /\ ItemsInv /\ desc[t].put \in Nat /\ tailCount[t] \in Nat
  BY ThreadFacts DEF QueueInv
<1>1. CASE EnqHelp(t)
  <2>1. /\ pc[t] = "e_help" /\ pc' = [pc EXCEPT ![t] = "p_enter"] /\ pc'[t] = "p_enter"
        /\ AdvancePut(t, desc[t].put) /\ UNCHANGED queueVars
        /\ \E x \in {"p_enter", "g_enter"}, f \in BOOLEAN : Retry(t, x, f)
    BY <1>0, <1>1 DEF EnqHelp, Retry, TypeOK
  <2>2. LocalsTyped' /\ SearchInv(t)' /\ \A s \in Threads \ {t} : SameLocals(s)
    BY <1>0, <2>1, LocalSteps
  <2>3. OpInv(t)' /\ desc[t].put < Linked(idx[t])
    BY <1>0, <2>1 DEF OpInv
  <2>4. ItemsInv'
    BY <1>0, <2>1, SameEnqueuing DEF BeforeLink, queueVars
  <2> QED BY <1>0, <2>1, <2>2, <2>3, <2>4, AdvanceKeeps
<1>2. CASE EnqSwing(t)
  <2>1. /\ pc[t] = "e_swing" /\ pc' = [pc EXCEPT ![t] = "idle"] /\ pc'[t] = "idle"
        /\ AdvancePut(t, desc[t].put) /\ UNCHANGED queueVars /\ Leave(t)
    BY <1>0, <1>2 DEF EnqSwing, Leave, TypeOK
  <2>2. LocalsTyped' /\ SearchInv(t)' /\ \A s \in Threads \ {t} : SameLocals(s)
    BY <1>0, <2>1, LocalSteps
  <2>3. OpInv(t)' /\ desc[t].put < Linked(idx[t])
    BY <1>0, <2>1 DEF OpInv
  <2>4. ItemsInv'
    BY <1>0, <2>1, SameEnqueuing DEF BeforeLink, queueVars
  <2> QED BY <1>0, <2>1, <2>2, <2>3, <2>4, AdvanceKeeps
<1>3. CASE DeqHelp(t)
  <2>1. /\ pc[t] = "d_help" /\ pc' = [pc EXCEPT ![t] = "g_enter"] /\ pc'[t] = "g_enter"
        /\ AdvancePut(t, tailCount[t]) /\ UNCHANGED queueVars
        /\ \E x \in {"p_enter", "g_enter"}, f \in BOOLEAN : Retry(t, x, f)
    BY <1>0, <1>3 DEF DeqHelp, Retry, TypeOK
  <2>2. LocalsTyped' /\ SearchInv(t)' /\ \A s \in Threads \ {t} : SameLocals(s)
    BY <1>0, <2>1, LocalSteps
  <2>3. OpInv(t)' /\ tailCount[t] < Linked(idx[t])
    BY <1>0, <2>1 DEF OpInv
  <2>4. ItemsInv'
    BY <1>0, <2>1, SameEnqueuing DEF BeforeLink, queueVars
  <2> QED BY <1>0, <2>1, <2>2, <2>3, <2>4, AdvanceKeeps
<1> QED BY <1>1, <1>2, <1>3

\* enq_cas: a node is linked behind the one the search has read.
LEMMA LinkKeeps ==
  ASSUME QueueInv, NEW t \in Threads, EnqLink(t)
  PROVE  QueueInv'
<1>0. /\ TypeOK /\ SearchInv(t) /\ OpInv(t) /\ ItemsInv /\ ListInv /\ pc[t] = "e_link"
      /\ idx[t] \in Subs /\ desc[t].put \in Nat /\ PW \in Nat /\ put[idx[t]] \in Nat
      /\ Linked(idx[t]) \in Nat /\ get[idx[t]] \in Nat
      /\ content[idx[t]] \in Seq(Items) /\ Len(content[idx[t]]) \in Nat
  BY ThreadFacts DEF QueueInv, EnqLink
<1>1. CASE Linked(idx[t]) # desc[t].put
  <2>1. /\ pc' = [pc EXCEPT ![t] = "p_enter"] /\ pc'[t] = "p_enter"
        /\ Retry(t, "p_enter", TRUE)
        /\ UNCHANGED <<globalVars, content, linkedItems, started>>
    BY <1>0, <1>1 DEF EnqLink, Retry, TypeOK
  <2>2. LocalsTyped' /\ SearchInv(t)' /\ \A s \in Threads \ {t} : SameLocals(s)
    BY <1>0, <2>1, LocalSteps
  <2>3. OpInv(t)' /\ started' \in 0..MaxItems
    BY <1>0, <2>1 DEF OpInv, TypeOK
  <2>4. ItemsInv'
    BY <1>0, <2>1, SameEnqueuing DEF BeforeLink
  <2> QED BY <2>1, <2>2, <2>3, <2>4, QuietStep
<1>2. CASE Linked(idx[t]) = desc[t].put
  <2>1. /\ pc' = [pc EXCEPT ![t] = "e_swing"] /\ pc'[t] = "e_swing"
        /\ content' = [content EXCEPT ![idx[t]] = Append(@, linkedItems + 1)]
        /\ linkedItems' = linkedItems + 1
        /\ UNCHANGED <<put, get, PW, GW, started>> /\ UNCHANGED searchVars
    BY <1>0, <1>2 DEF EnqLink, TypeOK, globalVars
  <2>2. LocalsTyped' /\ SearchInv(t)' /\ \A s \in Threads \ {t} : SameLocals(s)
    BY <1>0, <2>1, LocalSteps DEF Outside
  <2>3. t \in Enqueuing
    BY <1>0 DEF Enqueuing, BeforeLink
  <2>4. linkedItems + 1 \in Items /\ linkedItems + 1 \in 0..MaxItems
    BY <1>0, <2>3, RoomForItem
  <2>5. ItemsInv'
    <3>1. Enqueuing' = Enqueuing \ {t}
      BY <1>0, <2>1 DEF Enqueuing, BeforeLink, TypeOK
    <3>2. IsFiniteSet(Enqueuing') /\ Cardinality(Enqueuing') = Cardinality(Enqueuing) - 1
      BY <1>0, <2>3, <3>1, FS_RemoveElement DEF ItemsInv
    <3>3. Cardinality(Enqueuing) \in Nat
      BY <1>0, FS_CardinalityType DEF ItemsInv
    <3> QED BY <1>0, <2>1, <3>2, <3>3 DEF ItemsInv, TypeOK
  <2>6. Append(content[idx[t]], linkedItems + 1) \in Seq(Items)
        /\ Len(Append(content[idx[t]], linkedItems + 1)) = Len(content[idx[t]]) + 1
    BY <1>0, <2>4
  <2>7. TypeOK'
    <3>1. content' \in [Subs -> Seq(Items)]
      BY <1>0, <2>1, <2>6 DEF TypeOK
    <3> QED BY <1>0, <2>1, <2>2, <2>4, <3>1, TypeParts DEF TypeOK, WindowTypes, LocalsTyped
  <2>8. ASSUME NEW q \in Subs
        PROVE  Linked(q)' = IF q = idx[t] THEN Linked(q) + 1 ELSE Linked(q)
    <3>1. CASE q = idx[t]
      <4>1. Len(content'[q]) = Len(content[q]) + 1
        BY <1>0, <2>1, <2>6, <3>1 DEF TypeOK
      <4>2. get[q] \in Nat /\ Len(content[q]) \in Nat /\ get'[q] = get[q]
        BY <1>0, <2>1, <3>1
      <4>3. get'[q] + Len(content'[q]) = (get[q] + Len(content[q])) + 1
        BY <4>1, <4>2
      <4> QED BY <3>1, <4>3 DEF Linked
    <3>2. CASE q # idx[t]
      BY <1>0, <2>1, <3>2 DEF Linked, TypeOK
    <3> QED BY <3>1, <3>2
  <2>9. /\ put[idx[t]] = Linked(idx[t]) /\ Linked(idx[t]) + 1 <= PW
    BY <1>0, <1>2 DEF OpInv, ListInv
  <2>10. \A q \in Subs : Linked(q) \in Nat /\ put[q] \in Nat /\ get[q] \in Nat
    BY <1>0, QueueFacts
  <2>11. ListInv'
    BY SMTT(30), <1>0, <2>1, <2>8, <2>9, <2>10 DEF ListInv
  <2>12. CountsInv'
    BY <2>1 DEF QueueInv, CountsInv, ShiftsApart
  <2>13. OpInv(t)'
    <3>1. Linked(idx[t])' = Linked(idx[t]) + 1 /\ idx'[t] = idx[t] /\ desc'[t] = desc[t]
      BY <1>0, <2>1, <2>8 DEF searchVars, Linked
    <3> QED BY <1>0, <1>2, <2>1, <3>1 DEF OpInv
  <2>14. StepFrame(t)
    <3>1. Grow
      <4>1. PW \in Nat /\ GW \in Nat
        BY <1>0 DEF TypeOK, WindowTypes
      <4>2. PW' = PW /\ GW' = GW /\ put' = put /\ get' = get
        BY <2>1
      <4> QED BY <2>10, <4>1, <4>2 DEF Grow
    <3>2. \A q \in Subs : Linked(q) <= Linked(q)'
      BY <2>8, <2>10
    <3> QED BY <2>2, <3>1, <3>2 DEF StepFrame
  <2> QED BY <2>2, <2>5, <2>7, <2>11, <2>12, <2>13, <2>14, Combine
<1> QED BY <1>1, <1>2

\* deq_cae: the head moves to a node that is there.
LEMMA SwingKeeps ==
  ASSUME QueueInv, NEW t \in Threads, DeqSwing(t)
  PROVE  QueueInv'
<1>0. /\ TypeOK /\ SearchInv(t) /\ OpInv(t) /\ ItemsInv /\ ListInv /\ CountsInv
      /\ pc[t] = "d_swing" /\ idx[t] \in Subs /\ desc[t].get \in Nat /\ tailCount[t] \in Nat
      /\ put[idx[t]] \in Nat /\ Linked(idx[t]) \in Nat /\ get[idx[t]] \in Nat
      /\ content[idx[t]] \in Seq(Items) /\ Len(content[idx[t]]) \in Nat /\ GW \in Nat
  BY ThreadFacts DEF QueueInv, DeqSwing
<1>1. CASE get[idx[t]] # desc[t].get
  <2>1. /\ pc' = [pc EXCEPT ![t] = "g_enter"] /\ pc'[t] = "g_enter"
        /\ Retry(t, "g_enter", TRUE)
        /\ UNCHANGED <<globalVars, content, linkedItems, started>>
    BY <1>0, <1>1 DEF DeqSwing, Retry, TypeOK, globalVars
  <2>2. LocalsTyped' /\ SearchInv(t)' /\ \A s \in Threads \ {t} : SameLocals(s)
    BY <1>0, <2>1, LocalSteps
  <2>3. OpInv(t)' /\ started' \in 0..MaxItems
    BY <1>0, <2>1 DEF OpInv, TypeOK
  <2>4. ItemsInv'
    BY <1>0, <2>1, SameEnqueuing DEF BeforeLink
  <2> QED BY <2>1, <2>2, <2>3, <2>4, QuietStep
<1>2. CASE get[idx[t]] = desc[t].get
  <2>1. /\ pc' = [pc EXCEPT ![t] = "idle"] /\ pc'[t] = "idle" /\ Leave(t)
        /\ get' = [get EXCEPT ![idx[t]] = @ + 1]
        /\ content' = [content EXCEPT ![idx[t]] = Tail(@)]
        /\ UNCHANGED <<put, PW, GW, started, linkedItems>>
    BY <1>0, <1>2 DEF DeqSwing, Leave, TypeOK
  <2>2. LocalsTyped' /\ SearchInv(t)' /\ \A s \in Threads \ {t} : SameLocals(s)
    BY <1>0, <2>1, LocalSteps
  <2>3. get[idx[t]] + 1 <= put[idx[t]] /\ content[idx[t]] # << >>
    <3>1. get[idx[t]] + 1 <= put[idx[t]]
      BY <1>0, <1>2 DEF OpInv
    <3>2. Len(content[idx[t]]) # 0
      BY SMTT(30), <1>0, <3>1 DEF ListInv, Linked
    <3> QED BY <3>1, <3>2
  <2>4. /\ Tail(content[idx[t]]) \in Seq(Items)
        /\ Len(Tail(content[idx[t]])) = Len(content[idx[t]]) - 1
    BY <1>0, <2>3
  <2>5. /\ content' \in [Subs -> Seq(Items)] /\ get' \in [Subs -> Nat]
    BY SMTT(30), <1>0, <2>1, <2>4 DEF TypeOK, WindowTypes
  <2>6. TypeOK'
    BY <1>0, <2>1, <2>2, <2>5, TypeParts DEF TypeOK, WindowTypes, LocalsTyped
  <2>7. ASSUME NEW q \in Subs
        PROVE  /\ Linked(q)' = Linked(q) /\ get[q] <= get'[q] /\ get[q] \in Nat /\ get'[q] \in Nat
               /\ Linked(q) \in Nat /\ put[q] \in Nat /\ get'[q] <= put[q]
    <3>0. get[q] \in Nat /\ Linked(q) \in Nat /\ put[q] \in Nat /\ get[q] <= put[q]
      BY <1>0, QueueFacts DEF CountsInv
    <3>1. CASE q = idx[t]
      <4>1. Len(content'[q]) = Len(content[q]) - 1 /\ get'[q] = get[q] + 1
        BY <1>0, <2>1, <2>4, <3>1 DEF TypeOK, WindowTypes
      <4>2. Len(content[q]) \in Nat /\ get[q] + 1 <= put[q]
        BY <1>0, <2>3, <3>1
      <4>3. get'[q] + Len(content'[q]) = get[q] + Len(content[q])
        BY SMTT(30), <3>0, <4>1, <4>2
      <4>4. Linked(q)' = Linked(q)
        BY <4>3 DEF Linked
      <4> QED BY <3>0, <4>1, <4>2, <4>4
    <3>2. CASE q # idx[t]
      <4>1. content'[q] = content[q] /\ get'[q] = get[q]
        BY <1>0, <2>1, <3>2 DEF TypeOK, WindowTypes
      <4> QED BY <3>0, <4>1 DEF Linked
    <3> QED BY <3>1, <3>2
  <2>8. ListInv'
    BY <1>0, <2>1, <2>7 DEF ListInv
  <2>9. CountsInv'
    <3>1. ShiftsApart(PW, GW)'
      BY <1>0, <2>1 DEF CountsInv, ShiftsApart
    <3>2. ASSUME NEW q \in Subs PROVE GW - 2 * Depth <= get'[q]
      <4>1. GW - 2 * Depth <= get[q]
        BY <1>0 DEF CountsInv
      <4> QED BY SMTT(30), <1>0, <2>7, <4>1, ConstantFacts
    <3> QED BY <1>0, <2>1, <2>7, <3>1, <3>2 DEF CountsInv
  <2>10. OpInv(t)'
    BY <2>1 DEF OpInv
  <2>11. ItemsInv'
    BY <1>0, <2>1, SameEnqueuing DEF BeforeLink
  <2>12. StepFrame(t)
    BY SMTT(30), <1>0, <2>1, <2>2, <2>7 DEF StepFrame, Grow, TypeOK, WindowTypes
  <2> QED BY <2>2, <2>6, <2>8, <2>9, <2>10, <2>11, <2>12, Combine
<1> QED BY <1>1, <1>2

-----------------------------------------------------------------------------
\* The theorems

LEMMA InitKeeps == Init => QueueInv
<1> SUFFICES ASSUME Init PROVE QueueInv
  OBVIOUS
<1>1. TypeOK
  BY ConstantFacts, ItemsAssumption
     DEF Init, WindowInit, TypeOK, WindowTypes, QueuePCs, NoDesc
<1>2. \A q \in Subs : Linked(q) = 0 /\ put[q] = 0 /\ get[q] = 0
  BY DEF Init, WindowInit, Linked
<1>3. CountsInv
  <2>1. ShiftsApart(Depth, Depth)
    <3>1. Depth = Depth + 0 * Depth
      BY ConstantFacts
    <3> QED BY <3>1 DEF ShiftsApart
  <2> QED BY <1>2, <2>1, ConstantFacts DEF Init, WindowInit, CountsInv
<1>4. ListInv
  BY <1>2, ConstantFacts DEF Init, WindowInit, ListInv
<1>5. ItemsInv
  <2>1. Enqueuing = {}
    BY DEF Init, Enqueuing, BeforeLink
  <2> QED BY <2>1, FS_EmptySet DEF Init, ItemsInv
<1>6. ASSUME NEW t \in Threads PROVE SearchInv(t) /\ OpInv(t)
  <2>1. pc[t] = "idle" /\ hops[t] = 0
    BY DEF Init, WindowInit
  <2> QED BY <2>1 DEF SearchInv, HopInv, PutInv, GetInv, PutLoop, GetLoop, OpInv
<1> QED BY <1>1, <1>3, <1>4, <1>5, <1>6 DEF QueueInv

LEMMA InitSeen == Init => \A t \in Threads : SeenInv(t)
  BY DEF Init, WindowInit, SeenInv

\* A thread has seen no more gets than puts when it has not moved, or is no longer
\* at the test of get_window.
LEMMA SeenStays ==
  ASSUME TypeOK, \A s \in Threads : SeenInv(s), NEW t \in Threads, SeenInv(t)',
         \A s \in Threads \ {t} : SameLocals(s)
  PROVE  \A s \in Threads : SeenInv(s)'
  BY DEF SeenInv, SameLocals

LEMMA StepSeen ==
  ASSUME QueueInv, \A s \in Threads : SeenInv(s), NEW t \in Threads,
         Enqueue(t) \/ Dequeue(t) \/ OpStep(t)
  PROVE  \A s \in Threads : SeenInv(s)'
<1>0. /\ TypeOK /\ WindowTypes /\ pc \in [Threads -> QueuePCs] /\ SearchPCs \subseteq QueuePCs
      /\ LocalsTyped
  BY TypeParts DEF QueueInv, TypeOK, QueuePCs
<1>1. CASE PutSearch(t) \/ GetSearch(t)
  <2>1. SeenInv(t)'
    BY <1>0, <1>1, SeenKeeps DEF QueueInv
  <2>2. \A s \in Threads \ {t} : SameLocals(s)
    BY <1>0, <1>1, SearchFrame
  <2> QED BY <1>0, <2>1, <2>2, SeenStays
<1>2. CASE ~ (PutSearch(t) \/ GetSearch(t))
  <2>1. pc'[t] # "g_window"
    BY <1>0, <1>2 DEF OpStep, Enqueue, Dequeue, EnqNext, EnqCheck, EnqLink, EnqHelp, EnqSwing,
           DeqReadTail, DeqEmpty, DeqCheck, DeqHelp, DeqSwing, Goto, Leave, Retry
  <2>2. \A s \in Threads \ {t} :
           pc'[s] = pc[s] /\ desc'[s] = desc[s] /\ tailCount'[s] = tailCount[s]
    BY SMTT(30), <1>0, <1>2 DEF OpStep, Enqueue, Dequeue, EnqNext, EnqCheck, EnqLink, EnqHelp, EnqSwing,
           DeqReadTail, DeqEmpty, DeqCheck, DeqHelp, DeqSwing, Goto, Leave, Retry, searchVars,
           LocalsTyped
  <2> QED BY <2>1, <2>2 DEF SeenInv
<1> QED BY <1>1, <1>2

\* The invariant that the properties below follow from: in every reachable state
\* of the 2Dd queue the counts follow the lists, the windows follow the counts,
\* and what each operation has read bounds what it will find.
LEMMA QueueStep ==
  ASSUME QueueInv, \A t \in Threads : SeenInv(t), [Next]_vars
  PROVE  QueueInv' /\ \A t \in Threads : SeenInv(t)'
<1>1. CASE UNCHANGED vars
  BY SMTT(30), <1>1 DEF QueueInv, TypeOK, WindowTypes, CountsInv, ListInv, ItemsInv, Enqueuing,
              SearchInv, HopInv, PutInv, GetInv, SeenInv, OpInv, Back, Linked, ShiftsApart,
              vars, windowVars, queueVars, globalVars, searchVars
<1>2. ASSUME NEW t \in Threads, Enqueue(t) \/ Dequeue(t) \/ OpStep(t)
      PROVE  QueueInv'
  BY <1>2, CallKeeps, SearchStepKeeps, TestKeeps, ReadTailKeeps, EmptyKeeps, HelpKeeps,
     LinkKeeps, SwingKeeps DEF OpStep
<1> QED BY <1>1, <1>2, StepSeen DEF Next

\* QueueInv is an invariant of the 2Dd queue.
THEOREM QueueCorrect == Spec => []QueueInv
<1> DEFINE AllSeen == \A t \in Threads : SeenInv(t)
<1>1. Init => QueueInv /\ AllSeen
  BY InitKeeps, InitSeen
<1>2. QueueInv /\ AllSeen /\ [Next]_vars => QueueInv' /\ AllSeen'
  BY QueueStep
<1> HIDE DEF AllSeen
<1> QED BY <1>1, <1>2, PTL DEF Spec

\* The 2Dd queue keeps its types: in particular no enqueue links an item that was
\* not called for, and no head moves beyond the last node.
THEOREM QueueTypes == Spec => []TypeOK
<1>1. QueueInv => TypeOK
  BY DEF QueueInv
<1> QED BY <1>1, QueueCorrect, PTL

\* What the invariant says of the lists.
LEMMA QueueProperties == QueueInv => CountsFollowList /\ SwingFindsItem
<1>1. QueueInv => CountsFollowList
  BY QueueFacts DEF QueueInv, ListInv, CountsInv, CountsFollowList
<1>2. QueueInv => SwingFindsItem
  <2> SUFFICES ASSUME QueueInv, NEW t \in Threads, pc[t] = "d_swing", get[idx[t]] = desc[t].get
               PROVE  content[idx[t]] # << >>
    BY DEF SwingFindsItem
  <2>1. /\ idx[t] \in Subs /\ put[idx[t]] \in Nat /\ get[idx[t]] \in Nat
        /\ tailCount[t] \in Nat /\ Linked(idx[t]) \in Nat /\ Len(content[idx[t]]) \in Nat
    BY ThreadFacts DEF QueueInv
  <2>2. get[idx[t]] < put[idx[t]] /\ put[idx[t]] <= Linked(idx[t])
    BY <2>1 DEF QueueInv, OpInv, ListInv
  <2>3. Len(content[idx[t]]) # 0
    BY <2>1, <2>2 DEF Linked
  <2> QED BY <2>3
<1> QED BY <1>1, <1>2

\* At most one linked node of a sub-queue is not counted, and no get count passes
\* its put count, although enqueuers and dequeuers advance the put count for each
\* other.
THEOREM CountsFollow == Spec => []CountsFollowList
<1> QED BY QueueProperties, QueueCorrect, PTL

\* deq_cae never moves a head to NULL: a dequeue whose head is still current finds
\* a node behind it.
THEOREM SwingSafe == Spec => []SwingFindsItem
<1> QED BY QueueProperties, QueueCorrect, PTL

\* The put window of the queue is exact: enqueues are spread over the sub-queues to
\* within Depth, whoever shifts the window and however stale the counts are that a
\* search has read.
THEOREM PutWindowIsExact == Spec => []PutWindowExact
<1>1. QueueInv => PutWindowExact
  BY WindowsCorrect DEF QueueInv, TypeOK
<1> QED BY <1>1, QueueCorrect, PTL

\* A put search whose window is current has found full what it hopped away from.
THEOREM PutSearchIsRight == Spec => []PutSearchInv
<1>1. QueueInv => PutSearchInv
  BY WindowsCorrect DEF QueueInv, TypeOK
<1> QED BY <1>1, QueueCorrect, PTL

\* The get window never overtakes the put window and leaves no sub-queue more than
\* two windows behind.
THEOREM GetWindowIsBehind == Spec => []GetWindowFollows
<1>1. QueueInv => GetWindowFollows
  BY WindowsCorrect DEF QueueInv, TypeOK
<1> QED BY <1>1, QueueCorrect, PTL
-----------------------------------------------------------------------------
\* How far a dequeue may be out of order

\* The values a window can have.
Aligned == {m * Depth : m \in Nat}

\* The items of a sub-queue are in the order in which they were linked.
SortedInv ==
  \A q \in Subs : \A n \in 1..Len(content[q]) :
    /\ content[q][n] <= linkedItems
    /\ \A m \in 1..Len(content[q]) : m < n => content[q][m] < content[q][n]

\* Node get[q] + n of sub-queue q is the n-th it still holds.  A node linked before
\* it is not above a put window that the node is not above: two nodes are linked out
\* of the order of their numbers only under one put window.
OrderInv ==
  \A q, r \in Subs, w \in Aligned :
    \A n \in 1..Len(content[q]), m \in 1..Len(content[r]) :
      content[r][m] < content[q][n] /\ get[q] + n <= w => get[r] + m <= w

RankInv == PW \in Aligned /\ GW \in Aligned /\ SortedInv /\ OrderInv

LEMMA AlignedNext ==
  ASSUME NEW a \in Aligned
  PROVE  a \in Nat /\ a + Depth \in Aligned
<1>1. PICK m \in Nat : a = m * Depth
  BY DEF Aligned
<1>2. Depth \in Nat /\ m * Depth \in Nat
  BY ConstantFacts
<1>3. a + Depth = (m + 1) * Depth
  BY <1>1, <1>2
<1> QED BY <1>1, <1>2, <1>3 DEF Aligned

LEMMA AlignedStep ==
  ASSUME NEW a \in Aligned, NEW b \in Aligned, b > a - Depth
  PROVE  b >= a
<1>1. PICK m \in Nat : a = m * Depth
  BY DEF Aligned
<1>2. PICK n \in Nat : b = n * Depth
  BY DEF Aligned
<1>3. Depth \in Nat /\ Depth > 0
  BY ConstantFacts
<1>4. (m - 1) * Depth = a - Depth
  BY <1>1, <1>3
<1>5. SUFFICES ASSUME n <= m - 1 PROVE FALSE
  <2>1. n >= m => n * Depth >= m * Depth
    BY <1>3
  <2> QED BY <1>1, <1>2, <1>5, <2>1
<1>6. n * Depth <= (m - 1) * Depth
  BY <1>3, <1>5
<1> QED BY <1>1, <1>2, <1>3, <1>4, <1>6

\* A position of a sub-queue and the item at it.
LEMMA ItemFacts ==
  ASSUME TypeOK, NEW q \in Subs, NEW n \in 1..Len(content[q])
  PROVE  content[q][n] \in Nat /\ n \in Nat /\ n >= 1 /\ n <= Len(content[q])
<1>1. content[q] \in Seq(Items) /\ Len(content[q]) \in Nat
  BY QueueFacts
<1>2. content[q][n] \in Items
  BY <1>1
<1> QED BY <1>1, <1>2, ItemsAssumption DEF Items

LEMMA AtMostNext ==
  ASSUME NEW n \in Nat, NEW a, a = n + 1 \/ (a <= n /\ a \in Nat)
  PROVE  a <= n + 1 /\ a \in Nat
  OBVIOUS

\* A step that moves no node.
LEMMA RankStays ==
  ASSUME RankInv, UNCHANGED <<content, get, linkedItems>>,
         PW' = PW \/ PW' = PW + Depth, GW' = GW \/ GW' = GW + Depth
  PROVE  RankInv'
<1>1. PW' \in Aligned /\ GW' \in Aligned
  BY AlignedNext DEF RankInv
<1>2. SortedInv' /\ OrderInv'
  BY DEF RankInv, SortedInv, OrderInv
<1> QED BY <1>1, <1>2 DEF RankInv, Aligned

\* enq_cas: the new node is the youngest, and no node is above the put window.
LEMMA LinkRank ==
  ASSUME QueueInv, RankInv, NEW t \in Threads, EnqLink(t)
  PROVE  RankInv'
<1> DEFINE q0 == idx[t]
<1>0. /\ TypeOK /\ q0 \in Subs /\ content \in [Subs -> Seq(Items)] /\ linkedItems \in Nat
      /\ PW \in Nat /\ Depth \in Nat
      /\ \A q \in Subs : /\ put[q] \in Nat /\ get[q] \in Nat /\ Len(content[q]) \in Nat
                         /\ content[q] \in Seq(Items) /\ Linked(q) \in Nat
  BY ThreadFacts, QueueFacts, ConstantFacts DEF QueueInv, TypeOK
<1>1. UNCHANGED <<get, PW, GW>>
  BY DEF EnqLink, globalVars
<1>2. CASE UNCHANGED <<content, linkedItems>>
  BY <1>1, <1>2, RankStays
<1>3. CASE /\ content' = [content EXCEPT ![q0] = Append(@, linkedItems + 1)]
           /\ linkedItems' = linkedItems + 1
  <2> DEFINE c == content[q0]
  <2>1. /\ content'[q0] = Append(c, linkedItems + 1)
        /\ \A q \in Subs \ {q0} : content'[q] = content[q]
    BY <1>0, <1>3
  <2>2. /\ Len(content'[q0]) = Len(c) + 1
        /\ content'[q0][Len(c) + 1] = linkedItems + 1
        /\ \A n \in 1..Len(c) : content'[q0][n] = c[n]
    BY <1>0, <2>1
  <2>3. \A q \in Subs : \A n \in 1..Len(content'[q]) :
          \/ n \in 1..Len(content[q]) /\ content'[q][n] = content[q][n]
          \/ q = q0 /\ n = Len(c) + 1 /\ content'[q][n] = linkedItems + 1
    <3> SUFFICES ASSUME NEW q \in Subs, NEW n \in 1..Len(content'[q])
                 PROVE  \/ n \in 1..Len(content[q]) /\ content'[q][n] = content[q][n]
                        \/ q = q0 /\ n = Len(c) + 1 /\ content'[q][n] = linkedItems + 1
      OBVIOUS
    <3>1. CASE q # q0
      BY <2>1, <3>1
    <3>2. CASE q = q0
      <4>1. Len(c) \in Nat /\ n \in 1..(Len(c) + 1)
        BY <1>0, <2>2, <3>2
      <4>2. n \in 1..Len(c) \/ n = Len(c) + 1
        BY <4>1
      <4> QED BY <2>2, <3>2, <4>2
    <3> QED BY <3>1, <3>2
  <2>4. \A q \in Subs : \A n \in 1..Len(content[q]) :
          content[q][n] <= linkedItems /\ content[q][n] \in Nat
    BY <1>0, ItemFacts DEF RankInv, SortedInv
  <2>5. SortedInv'
    <3> SUFFICES ASSUME NEW q \in Subs, NEW n \in 1..Len(content'[q])
                 PROVE  /\ content'[q][n] <= linkedItems + 1
                        /\ \A m \in 1..Len(content'[q]) : m < n => content'[q][m] < content'[q][n]
      BY <1>3 DEF SortedInv
    <3>1. content'[q][n] <= linkedItems + 1
      BY SMTT(30), <1>0, <2>3, <2>4
    <3>2. ASSUME NEW m \in 1..Len(content'[q]), m < n PROVE content'[q][m] < content'[q][n]
      <4>1. m \in Int /\ n \in Int /\ Len(content[q]) \in Nat /\ n <= Len(content[q]) + 1
        BY <1>0, <2>3
      <4>2. m \in 1..Len(content[q]) /\ content'[q][m] = content[q][m]
        BY <2>3, <3>2, <4>1
      <4>3. CASE n \in 1..Len(content[q]) /\ content'[q][n] = content[q][n]
        BY <3>2, <4>2, <4>3 DEF RankInv, SortedInv
      <4>4. CASE content'[q][n] = linkedItems + 1
        <5>1. content[q][m] <= linkedItems /\ content[q][m] \in Nat
          BY <2>4, <4>2
        <5> QED BY <1>0, <4>2, <4>4, <5>1
      <4> QED BY <2>3, <4>3, <4>4
    <3> QED BY <3>1, <3>2
  <2>6. ASSUME NEW w \in Aligned, get[q0] + (Len(c) + 1) <= w,
               NEW r \in Subs, NEW m \in 1..Len(content[r])
        PROVE  get[r] + m <= w
    <3>0. /\ put[q0] \in Nat /\ get[q0] \in Nat /\ Linked(q0) \in Nat /\ Len(c) \in Nat
          /\ get[r] \in Nat /\ Linked(r) \in Nat /\ Len(content[r]) \in Nat /\ w \in Nat
      BY <1>0, AlignedNext
    <3>1. put[q0] <= Linked(q0) /\ PW - Depth <= put[q0] /\ Linked(r) <= PW
      <4>0. q0 \in Subs
        BY <1>0
      <4> HIDE DEF q0, c
      <4>1. /\ put[q0] = Linked(q0) \/ put[q0] = Linked(q0) - 1
            /\ PW - Depth <= put[q0]
        BY <4>0 DEF QueueInv, CountsInv, ListInv
      <4>2. Linked(r) <= PW
        BY DEF QueueInv, CountsInv, ListInv
      <4> QED BY <3>0, <4>1, <4>2
    <3>2. w > PW - Depth
      <4>1. get[q0] + Len(c) = Linked(q0)
        BY DEF Linked
      <4> HIDE DEF q0, c
      <4> QED BY SMTT(30), <1>0, <2>6, <3>0, <3>1, <4>1
    <3>3. w >= PW
      BY <3>2, AlignedStep DEF RankInv
    <3>4. get[r] + Len(content[r]) = Linked(r)
      BY DEF Linked
    <3> HIDE DEF q0, c
    <3> QED BY SMTT(30), <1>0, <3>0, <3>1, <3>3, <3>4
  <2>7. OrderInv'
    <3> SUFFICES ASSUME NEW q \in Subs, NEW r \in Subs, NEW w \in Aligned,
                        NEW n \in 1..Len(content'[q]), NEW m \in 1..Len(content'[r]),
                        content'[r][m] < content'[q][n], get[q] + n <= w
                 PROVE  get[r] + m <= w
      BY <1>1 DEF OrderInv, Aligned
    <3>1. m \in 1..Len(content[r]) /\ content'[r][m] = content[r][m]
      <4>1. content'[q][n] <= linkedItems + 1 /\ content'[q][n] \in Nat
        <5> HIDE DEF q0, c
        <5>1. \/ content'[q][n] = linkedItems + 1
              \/ content'[q][n] <= linkedItems /\ content'[q][n] \in Nat
          BY <2>3, <2>4
        <5>2. linkedItems \in Nat
          BY <1>0
        <5> QED BY <5>1, <5>2, AtMostNext
      <4>2. content'[r][m] # linkedItems + 1
        BY SMTT(30), <1>0, <4>1
      <4> QED BY <2>3, <4>2
    <3>2. CASE n \in 1..Len(content[q]) /\ content'[q][n] = content[q][n]
      BY <3>1, <3>2 DEF RankInv, OrderInv
    <3>3. CASE q = q0 /\ n = Len(c) + 1
      BY <2>6, <3>1, <3>3
    <3> QED BY <2>3, <3>2, <3>3
  <2> QED BY <1>1, <2>5, <2>7 DEF RankInv, Aligned
<1> QED BY <1>2, <1>3 DEF EnqLink

\* deq_cae: the nodes that stay keep their numbers.
LEMMA SwingRank ==
  ASSUME QueueInv, RankInv, NEW t \in Threads, DeqSwing(t)
  PROVE  RankInv'
<1> DEFINE q0 == idx[t]
<1>0. /\ TypeOK /\ q0 \in Subs /\ content \in [Subs -> Seq(Items)] /\ get \in [Subs -> Nat]
      /\ \A q \in Subs : /\ get[q] \in Nat /\ Len(content[q]) \in Nat
                         /\ content[q] \in Seq(Items)
  BY ThreadFacts, QueueFacts DEF QueueInv, TypeOK, WindowTypes
<1>1. UNCHANGED <<linkedItems, PW, GW>>
  BY DEF DeqSwing
<1>2. CASE UNCHANGED <<content, get>>
  BY <1>1, <1>2, RankStays
<1>3. CASE /\ get[q0] = desc[t].get
           /\ get' = [get EXCEPT ![q0] = @ + 1]
           /\ content' = [content EXCEPT ![q0] = Tail(@)]
  <2>1. content[q0] # << >>
    BY <1>3, QueueProperties DEF DeqSwing, SwingFindsItem
  <2>2. /\ content'[q0] = Tail(content[q0]) /\ get'[q0] = get[q0] + 1
        /\ \A q \in Subs \ {q0} : content'[q] = content[q] /\ get'[q] = get[q]
    BY <1>0, <1>3
  <2>3. /\ Len(content'[q0]) = Len(content[q0]) - 1
        /\ \A n \in 1..(Len(content[q0]) - 1) : content'[q0][n] = content[q0][n + 1]
    BY <1>0, <2>1, <2>2
  <2> DEFINE d(q) == IF q = q0 THEN 1 ELSE 0
  <2>4. \A q \in Subs : get'[q] = get[q] + d(q) /\ d(q) \in {0, 1}
    BY <1>0, <2>2
  <2>5. \A q \in Subs : \A n \in 1..Len(content'[q]) :
          n + d(q) \in 1..Len(content[q]) /\ content'[q][n] = content[q][n + d(q)]
    <3> SUFFICES ASSUME NEW q \in Subs, NEW n \in 1..Len(content'[q])
                 PROVE  n + d(q) \in 1..Len(content[q]) /\ content'[q][n] = content[q][n + d(q)]
      OBVIOUS
    <3>1. CASE q # q0
      <4>1. d(q) = 0 /\ content'[q] = content[q] /\ n + 0 = n
        BY <2>2, <3>1
      <4> QED BY <4>1
    <3>2. CASE q = q0
      <4>1. d(q) = 1 /\ Len(content[q]) \in Nat /\ n \in 1..(Len(content[q]) - 1)
        BY <1>0, <2>3, <3>2
      <4>2. n + 1 \in 1..Len(content[q]) /\ content'[q][n] = content[q][n + 1]
        BY <2>3, <3>2, <4>1
      <4> QED BY <4>1, <4>2
    <3> QED BY <3>1, <3>2
  <2> HIDE DEF d
  <2>6. SortedInv'
    <3> SUFFICES ASSUME NEW q \in Subs, NEW n \in 1..Len(content'[q])
                 PROVE  /\ content'[q][n] <= linkedItems
                        /\ \A m \in 1..Len(content'[q]) : m < n => content'[q][m] < content'[q][n]
      BY <1>1 DEF SortedInv
    <3>0. n \in Int /\ d(q) \in Int
      BY <2>4
    <3>1. n + d(q) \in 1..Len(content[q]) /\ content'[q][n] = content[q][n + d(q)]
      BY <2>5
    <3>2. content'[q][n] <= linkedItems
      BY <3>1 DEF RankInv, SortedInv
    <3>3. ASSUME NEW m \in 1..Len(content'[q]), m < n PROVE content'[q][m] < content'[q][n]
      <4>1. m + d(q) \in 1..Len(content[q]) /\ content'[q][m] = content[q][m + d(q)]
        BY <2>5
      <4>2. m + d(q) < n + d(q)
        BY <3>0, <3>3
      <4> QED BY <3>1, <4>1, <4>2 DEF RankInv, SortedInv
    <3> QED BY <3>2, <3>3
  <2>7. OrderInv'
    <3> SUFFICES ASSUME NEW q \in Subs, NEW r \in Subs, NEW w \in Aligned,
                        NEW n \in 1..Len(content'[q]), NEW m \in 1..Len(content'[r]),
                        content'[r][m] < content'[q][n], get'[q] + n <= w
                 PROVE  get'[r] + m <= w
      BY DEF OrderInv, Aligned
    <3>1. /\ n + d(q) \in 1..Len(content[q]) /\ content'[q][n] = content[q][n + d(q)]
          /\ m + d(r) \in 1..Len(content[r]) /\ content'[r][m] = content[r][m + d(r)]
      BY <2>5
    <3>2. get'[q] + n = get[q] + (n + d(q)) /\ get'[r] + m = get[r] + (m + d(r))
      <4>1. /\ get'[q] = get[q] + d(q) /\ get'[r] = get[r] + d(r)
            /\ d(q) \in Int /\ d(r) \in Int /\ get[q] \in Int /\ get[r] \in Int
        BY SMTT(30), <1>0, <2>4
      <4>2. n \in Int /\ m \in Int
        OBVIOUS
      <4>3. get'[q] + n = get[q] + (n + d(q))
        BY ONLY <4>1, <4>2
      <4>4. get'[r] + m = get[r] + (m + d(r))
        BY ONLY <4>1, <4>2
      <4> QED BY <4>3, <4>4
    <3> QED BY SMTT(30), <3>1, <3>2 DEF RankInv, OrderInv
  <2> QED BY <1>1, <2>6, <2>7 DEF RankInv, Aligned
<1> QED BY <1>2, <1>3 DEF DeqSwing

LEMMA RankStep ==
  ASSUME QueueInv, RankInv, [Next]_vars
  PROVE  RankInv'
<1>1. CASE UNCHANGED vars
  BY <1>1, RankStays DEF vars, windowVars, globalVars, queueVars
<1>2. ASSUME NEW t \in Threads, Enqueue(t) \/ Dequeue(t) PROVE RankInv'
  BY <1>2, RankStays DEF Enqueue, Dequeue, globalVars, queueVars
<1>3. ASSUME NEW t \in Threads, PutSearch(t) \/ GetSearch(t), UNCHANGED queueVars PROVE RankInv'
  <2>1. UNCHANGED get /\ (PW' = PW \/ PW' = PW + Depth) /\ (GW' = GW \/ GW' = GW + Depth)
    BY <1>3 DEF PutSearch, GetSearch, PutEnter, PutReadDesc, PutSync, PutValid, PutHop, PutNone,
                PutShift, PutResync, GetEnter, GetReadDesc, GetReadCount, GetSync, GetValid,
                GetHop, GetNone, GetShift, GetResync, GetEmpty, Enter, Resync, globalVars
  <2> QED BY <1>3, <2>1, RankStays DEF queueVars
<1>4. ASSUME NEW t \in Threads,
             \/ EnqNext(t) \/ EnqCheck(t) \/ EnqHelp(t) \/ EnqSwing(t)
             \/ DeqReadTail(t) \/ DeqEmpty(t) \/ DeqCheck(t) \/ DeqHelp(t)
      PROVE  RankInv'
  <2>1. UNCHANGED <<get, PW, GW, content, linkedItems>>
    BY <1>4 DEF EnqNext, EnqCheck, EnqHelp, EnqSwing, DeqReadTail, DeqEmpty, DeqCheck, DeqHelp,
                AdvancePut, globalVars, queueVars
  <2> QED BY <2>1, RankStays
<1> QED BY <1>1, <1>2, <1>3, <1>4, LinkRank, SwingRank DEF Next, OpStep

\* There are at most 2 * K items among the first 2 * Depth of the other sub-queues.
LEMMA RankCount ==
  ASSUME NEW q \in Subs, NEW R,
         \A x \in R : \E r \in Subs \ {q}, n \in 1..(2 * Depth) : content[r][n] = x
  PROVE  Cardinality(R) <= 2 * K
<1> DEFINE A == Subs \ {q}
           B == 1..(2 * Depth)
           P == {p \in A \X B : content[p[1]][p[2]] \in R}
           f == [p \in P |-> content[p[1]][p[2]]]
<1>0. Width \in Nat /\ Width > 0 /\ Depth \in Nat /\ Depth > 0
  BY ConstantFacts
<1>1. IsFiniteSet(A) /\ Cardinality(A) = Width - 1
  <2>1. IsFiniteSet(Subs) /\ Cardinality(Subs) = Width
    BY <1>0, FS_Interval DEF Subs
  <2> QED BY <1>0, <2>1, FS_RemoveElement
<1>2. IsFiniteSet(B) /\ Cardinality(B) = 2 * Depth
  BY <1>0, FS_Interval
<1>3. IsFiniteSet(A \X B) /\ Cardinality(A \X B) = (Width - 1) * (2 * Depth)
  <2> HIDE DEF A, B
  <2> QED BY <1>1, <1>2, FS_Product
<1>4. IsFiniteSet(P) /\ Cardinality(P) <= Cardinality(A \X B)
  <2>1. P \in SUBSET (A \X B)
    OBVIOUS
  <2> HIDE DEF P, A, B
  <2> QED BY <1>3, <2>1, FS_Subset
<1>5. f \in Surjection(P, R)
  <2>1. f \in [P -> R]
    OBVIOUS
  <2>2. ASSUME NEW x \in R PROVE \E p \in P : f[p] = x
    <3>1. PICK r \in A, n \in B : content[r][n] = x
      OBVIOUS
    <3>2. <<r, n>> \in P /\ f[<<r, n>>] = x
      BY <3>1
    <3> QED BY <3>2
  <2> QED BY <2>1, <2>2 DEF Surjection
<1>6. Cardinality(R) <= Cardinality(P) /\ IsFiniteSet(R)
  <2> HIDE DEF P, f
  <2> QED BY <1>4, <1>5, FS_Surjection
<1>7. Cardinality(R) \in Nat /\ Cardinality(P) \in Nat /\ Cardinality(A \X B) \in Nat
  <2> HIDE DEF A, B, P
  <2> QED BY <1>3, <1>4, <1>6, FS_CardinalityType
<1> HIDE DEF A, B, P
<1>8. Cardinality(R) <= (Width - 1) * (2 * Depth)
  BY <1>3, <1>4, <1>6, <1>7
<1>9. (Width - 1) * (2 * Depth) = 2 * K
  BY <1>0 DEF K
<1> QED BY <1>8, <1>9

\* The items older than the one a dequeue takes from q inside the get window.
LEMMA RankBound ==
  ASSUME QueueInv, RankInv, NEW q \in Subs, content[q] # << >>, get[q] + 1 <= GW
  PROVE  RankError(q) <= 2 * K
<1> DEFINE R == {x \in Items : /\ x < Head(content[q])
                               /\ \E r \in Subs : \E n \in 1..Len(content[r]) : content[r][n] = x}
<1>0. /\ GW \in Nat /\ Depth \in Nat
      /\ \A r \in Subs : /\ get[r] \in Nat /\ Len(content[r]) \in Nat
                         /\ content[r] \in Seq(Items) /\ GW - 2 * Depth <= get[r]
  BY QueueFacts, ConstantFacts DEF QueueInv, TypeOK, WindowTypes, CountsInv
<1>1. 1 \in 1..Len(content[q]) /\ Head(content[q]) = content[q][1]
  BY <1>0
<1>2. ASSUME NEW x \in R
      PROVE  \E r \in Subs \ {q}, n \in 1..(2 * Depth) : content[r][n] = x
  <2>0. PICK r \in Subs : \E n \in 1..Len(content[r]) : content[r][n] = x
    OBVIOUS
  <2>1. PICK n \in 1..Len(content[r]) : content[r][n] = x
    BY <2>0
  <2>2. content[r][n] < content[q][1]
    BY <1>1, <2>1
  <2>3. r # q
    <3> SUFFICES ASSUME r = q PROVE FALSE
      OBVIOUS
    <3>1. content[q][1] \in Nat /\ content[q][n] \in Nat
      BY <1>1, <2>1, ItemFacts DEF QueueInv
    <3>2. n = 1 \/ content[q][1] < content[q][n]
      BY <1>0, <1>1, <2>1 DEF RankInv, SortedInv
    <3> QED BY <2>2, <3>1, <3>2
  <2>4. get[r] + n <= GW
    BY <1>1, <2>2 DEF RankInv, OrderInv
  <2>5. n \in 1..(2 * Depth)
    BY <1>0, <2>1, <2>4
  <2> QED BY <2>1, <2>3, <2>5
<1> HIDE DEF R
<1>3. Cardinality(R) <= 2 * K
  BY <1>2, RankCount
<1> QED BY <1>3 DEF RankError, R

\* A step that moves the head of q takes an item of q.
LEMMA SwingGets ==
  ASSUME QueueInv, NEW t \in Threads, DeqSwing(t), NEW q \in Subs, get'[q] # get[q]
  PROVE  content[q] # << >> /\ get'[q] = get[q] + 1
<1>1. get \in [Subs -> Nat] /\ idx[t] \in Subs
  BY ThreadFacts DEF QueueInv, TypeOK, WindowTypes
<1>2. get[idx[t]] = desc[t].get /\ get' = [get EXCEPT ![idx[t]] = @ + 1] /\ pc[t] = "d_swing"
  BY DEF DeqSwing
<1>3. q = idx[t]
  BY <1>1, <1>2
<1> QED BY <1>1, <1>2, <1>3, QueueProperties DEF SwingFindsItem

LEMMA OnlySwingGets ==
  ASSUME QueueInv, [Next]_vars, NEW q \in Subs, get'[q] # get[q]
  PROVE  content[q] # << >> /\ get'[q] = get[q] + 1
<1>1. PICK t \in Threads : DeqSwing(t)
  <2>1. ASSUME NEW t \in Threads, PutSearch(t) \/ GetSearch(t) PROVE get' = get
    BY <2>1 DEF PutSearch, GetSearch, PutEnter, PutReadDesc, PutSync, PutValid, PutHop, PutNone,
                PutShift, PutResync, GetEnter, GetReadDesc, GetReadCount, GetSync, GetValid,
                GetHop, GetNone, GetShift, GetResync, GetEmpty, Enter, Resync, globalVars
  <2>2. ASSUME NEW t \in Threads,
               \/ Enqueue(t) \/ Dequeue(t) \/ EnqNext(t) \/ EnqCheck(t) \/ EnqLink(t)
               \/ EnqHelp(t) \/ EnqSwing(t)
               \/ DeqReadTail(t) \/ DeqEmpty(t) \/ DeqCheck(t) \/ DeqHelp(t)
        PROVE  get' = get
    BY <2>2 DEF Enqueue, Dequeue, EnqNext, EnqCheck, EnqLink, EnqHelp, EnqSwing, DeqReadTail,
                DeqEmpty, DeqCheck, DeqHelp, AdvancePut, globalVars
  <2>3. CASE UNCHANGED vars
    BY <2>3 DEF vars, windowVars, globalVars
  <2> QED BY <2>1, <2>2, <2>3 DEF Next, OpStep
<1> QED BY <1>1, SwingGets

LEMMA RankProperty ==
  ASSUME QueueInv, RankInv, [Next]_vars, NEW q \in Subs, get'[q] # get[q], get'[q] <= GW
  PROVE  RankError(q) <= 2 * K
<1>1. content[q] # << >> /\ get'[q] = get[q] + 1
  BY OnlySwingGets
<1> QED BY <1>1, RankBound

LEMMA InitRank == Init => RankInv
<1> SUFFICES ASSUME Init PROVE RankInv
  OBVIOUS
<1>1. content = [q \in Subs |-> << >>] /\ PW = Depth /\ GW = Depth
  BY DEF Init, WindowInit
<1>2. Depth \in Aligned
  <2>1. Depth = 1 * Depth
    BY ConstantFacts
  <2> QED BY <2>1 DEF Aligned
<1>3. \A q \in Subs : Len(content[q]) = 0
  BY <1>1
<1>4. SortedInv /\ OrderInv
  BY <1>3 DEF SortedInv, OrderInv
<1> QED BY <1>1, <1>2, <1>4 DEF RankInv

\* A dequeue inside the get window overtakes at most 2 * Depth * (Width - 1) older
\* items, however long the enqueuers and dequeuers wait between the steps.
THEOREM InWindowIsBounded == Spec => InWindowBound
<1> DEFINE AllSeen == \A t \in Threads : SeenInv(t)
           Good == \A q \in Subs : get'[q] # get[q] /\ get'[q] <= GW => RankError(q) <= 2 * K
<1>1. Init => QueueInv /\ AllSeen /\ RankInv
  BY InitKeeps, InitSeen, InitRank
<1>2. QueueInv /\ AllSeen /\ RankInv /\ [Next]_vars => QueueInv' /\ AllSeen' /\ RankInv'
  BY QueueStep, RankStep
<1>3. QueueInv /\ RankInv /\ [Next]_vars => [Good]_vars
  BY RankProperty
<1> HIDE DEF AllSeen, Good
<1>4. Spec => [][Good]_vars
  BY <1>1, <1>2, <1>3, PTL DEF Spec
<1> QED BY <1>4 DEF InWindowBound, Good

-----------------------------------------------------------------------------
\* The optimized 2Dd queue and the suite

\* What a dequeue may conclude from its copy of the put window: it is at most the
\* put window, so it is at most Depth above every put count, and a dequeue that will
\* skip the test for empty has read a head that is behind the tail.
KnownInv(t) ==
  /\ pwin[t] \in Nat /\ pwin[t] <= PW
  /\ pwin[t] = 0 \/ pwin[t] >= Depth
  /\ pc[t] = "g_done" /\ Safe(t) => desc[t].get < put[idx[t]]

OptInv == /\ QueueInv
          /\ pwin \in [Threads -> Nat]
          /\ PW >= Depth
          /\ \A t \in Threads : KnownInv(t)

-----------------------------------------------------------------------------
\* A step of a search: the counts stay, the windows may grow.
LEMMA SearchLike ==
  ASSUME QueueInv, NEW t \in Threads, LocalsTyped', UNCHANGED <<put, get>>, UNCHANGED queueVars,
         PW' \in Nat, GW' \in Nat, PW <= PW', GW <= GW', CountsInv', SearchInv(t)',
         \A s \in Threads \ {t} : SameLocals(s),
         pc'[t] \in SearchPCs \cup {"g_behind"},
         pc'[t] \in BeforeLink <=> pc[t] \in BeforeLink
  PROVE  QueueInv'
<1>0. TypeOK /\ WindowTypes /\ pc \in [Threads -> QueuePCs]
  BY DEF QueueInv, TypeOK
<1>1. TypeOK'
  BY <1>0, TypeParts DEF LocalsTyped, TypeOK, WindowTypes, queueVars
<1>2. \A q : Linked(q)' = Linked(q)
  BY DEF Linked, queueVars
<1>3. \A q \in Subs : Linked(q) \in Nat /\ put[q] \in Nat /\ get[q] \in Nat
  BY <1>0, QueueFacts
<1>4. ListInv'
  <2>1. PW \in Nat /\ ListInv
    BY <1>0 DEF QueueInv, WindowTypes
  <2> QED BY <1>2, <1>3, <2>1 DEF ListInv
<1>5. OpInv(t)'
  BY DEF OpInv, SearchPCs
<1>6. ItemsInv'
  <2>1. pc' = [pc EXCEPT ![t] = pc'[t]]
    BY <1>0 DEF SameLocals, LocalsTyped
  <2> QED BY <1>0, <2>1, SameEnqueuing DEF QueueInv, queueVars
<1>7. StepFrame(t)
  BY <1>2, <1>3 DEF StepFrame, Grow
<1> QED BY <1>1, <1>4, <1>5, <1>6, <1>7, Combine

\* put_window: the shift, after which the search starts again at once.
LEMMA OptPutShiftKeeps ==
  ASSUME QueueInv, NEW t \in Threads, OptPutShift(t), UNCHANGED queueVars
  PROVE  QueueInv'
<1>0. /\ TypeOK /\ WindowTypes /\ LocalsTyped /\ CountsInv /\ SearchInv(t)
      /\ PW \in Nat /\ GW \in Nat /\ Depth \in Nat /\ Depth > 0
      /\ \A q \in Subs : put[q] \in Nat /\ get[q] \in Nat
  BY TypeParts, ConstantFacts DEF QueueInv, TypeOK, WindowTypes
<1>1. /\ pc[t] = "p_shift" /\ pc' = [pc EXCEPT ![t] = "p_desc"]
      /\ PW' = IF PW = win[t] THEN PW + Depth ELSE PW
      /\ win' = [win EXCEPT ![t] = PW']
      /\ hops' = [hops EXCEPT ![t] = 0]
      /\ notempty' = [notempty EXCEPT ![t] = FALSE]
      /\ UNCHANGED <<put, get, GW, idx, contention, random, desc, tailCount>>
  BY DEF OptPutShift, Goto
<1>2. PW' \in Nat /\ PW <= PW'
  BY <1>0, <1>1
<1>3. LocalsTyped' /\ \A s \in Threads \ {t} : SameLocals(s)
  BY <1>0, <1>1, <1>2, ConstantFacts DEF LocalsTyped, SameLocals, QueuePCs, SearchPCs
<1>4. pc'[t] = "p_desc" /\ win'[t] = PW' /\ hops'[t] = 0
  BY <1>0, <1>1 DEF LocalsTyped
<1>5. SearchInv(t)'
  BY <1>2, <1>4 DEF SearchInv, HopInv, PutInv, GetInv, PutLoop, GetLoop
<1>6. CountsInv'
  <2>1. CASE PW # win[t]
    BY <1>0, <1>1, <2>1 DEF CountsInv, ShiftsApart
  <2>2. CASE PW = win[t]
    <3>1. ASSUME NEW q \in Subs PROVE put[q] >= PW
      <4>1. idx[t] \in Subs /\ hops[t] = Width
        BY <1>0, <1>1, LocalTypes DEF SearchInv, PutInv
      <4>2. PICK j \in 1..Width : (idx[t] + Width - j) % Width = q
        BY <4>1, RoundCovers
      <4>3. put[Back(t, j)] >= PW
        BY <1>0, <1>1, <2>2, <4>1 DEF SearchInv, PutInv, PutLoop
      <4> QED BY <4>2, <4>3 DEF Back
    <3>2. PW' = PW + Depth
      BY <1>1, <2>2
    <3>3. ShiftsApart(PW', GW')
      BY <1>0, <1>1, <3>2, ShiftUp DEF CountsInv
    <3>4. \A q \in Subs : PW' - Depth <= put'[q] /\ put'[q] <= PW'
      BY <1>0, <1>1, <3>1, <3>2 DEF CountsInv
    <3>5. \A q \in Subs : GW' - 2 * Depth <= get'[q] /\ get'[q] <= put'[q]
      BY <1>0, <1>1 DEF CountsInv
    <3> QED BY <3>3, <3>4, <3>5 DEF CountsInv, ShiftsApart
  <2> QED BY <2>1, <2>2
<1>7. pc'[t] \in SearchPCs /\ pc'[t] \in BeforeLink /\ pc[t] \in BeforeLink
  BY <1>1, <1>4 DEF SearchPCs, BeforeLink
<1> QED BY <1>0, <1>1, <1>2, <1>3, <1>5, <1>6, <1>7, SearchLike

\* get_window: the shift
LEMMA OptGetShiftKeeps ==
  ASSUME QueueInv, NEW t \in Threads, OptGetShift(t), UNCHANGED queueVars
  PROVE  QueueInv'
<1>0. /\ TypeOK /\ WindowTypes /\ LocalsTyped /\ CountsInv /\ SearchInv(t)
      /\ PW \in Nat /\ GW \in Nat /\ Depth \in Nat /\ Depth > 0
      /\ \A q \in Subs : put[q] \in Nat /\ get[q] \in Nat
  BY TypeParts, ConstantFacts DEF QueueInv, TypeOK, WindowTypes
<1>1. /\ pc[t] = "g_shift" /\ pc' = [pc EXCEPT ![t] = "g_desc"]
      /\ GW' = IF GW = win[t] THEN GW + Depth ELSE GW
      /\ win' = [win EXCEPT ![t] = GW']
      /\ hops' = [hops EXCEPT ![t] = 0]
      /\ notempty' = [notempty EXCEPT ![t] = FALSE]
      /\ UNCHANGED <<put, get, PW, idx, contention, random, desc, tailCount>>
  BY DEF OptGetShift, Goto
<1>2. GW' \in Nat /\ GW <= GW'
  BY <1>0, <1>1
<1>3. LocalsTyped' /\ \A s \in Threads \ {t} : SameLocals(s)
  BY <1>0, <1>1, <1>2, ConstantFacts DEF LocalsTyped, SameLocals, QueuePCs, SearchPCs
<1>4. pc'[t] = "g_desc" /\ win'[t] = GW' /\ hops'[t] = 0 /\ notempty'[t] = FALSE
  BY <1>0, <1>1 DEF LocalsTyped
<1>5. SearchInv(t)'
  BY <1>2, <1>4 DEF SearchInv, HopInv, PutInv, GetInv, PutLoop, GetLoop
<1>6. CountsInv'
  <2>1. CASE GW # win[t]
    BY <1>0, <1>1, <2>1 DEF CountsInv, ShiftsApart
  <2>2. CASE GW = win[t]
    <3>1. ASSUME NEW q \in Subs PROVE get[q] >= GW - Depth
      <4>1. idx[t] \in Subs /\ hops[t] = Width
        BY <1>0, <1>1, LocalTypes DEF SearchInv, GetInv
      <4>2. PICK j \in 1..Width : (idx[t] + Width - j) % Width = q
        BY <4>1, RoundCovers
      <4>3. get[Back(t, j)] >= GW - Depth
        BY <1>0, <1>1, <2>2, <4>1 DEF SearchInv, GetInv, GetLoop
      <4> QED BY <4>2, <4>3 DEF Back
    <3>2. GW' = GW + Depth /\ GW < PW
      BY <1>0, <1>1, <2>2 DEF SearchInv, GetInv
    <3>3. ShiftsApart(PW', GW')
      BY <1>0, <1>1, <3>2, ShiftAfter DEF CountsInv
    <3>4. \A q \in Subs : GW' - 2 * Depth <= get'[q]
      BY <1>0, <1>1, <3>1, <3>2
    <3>5. \A q \in Subs : /\ PW' - Depth <= put'[q] /\ put'[q] <= PW'
                          /\ get'[q] <= put'[q]
      BY <1>0, <1>1 DEF CountsInv
    <3> QED BY <3>3, <3>4, <3>5 DEF CountsInv, ShiftsApart
  <2> QED BY <2>1, <2>2
<1>7. pc'[t] \in SearchPCs /\ pc'[t] \notin BeforeLink /\ pc[t] \notin BeforeLink
  BY <1>1, <1>4 DEF SearchPCs, BeforeLink
<1> QED BY <1>0, <1>1, <1>2, <1>3, <1>5, <1>6, <1>7, SearchLike

\* get_window: the put count, read or inferred, is one the sub-queue has reached.
LEMMA OptReadCountKeeps ==
  ASSUME OptInv, NEW t \in Threads, OptGetReadCount(t), UNCHANGED queueVars
  PROVE  QueueInv'
<1> DEFINE count == IF win[t] < pwin[t] THEN KnownPuts(t) ELSE put[idx[t]]
<1>0. /\ QueueInv /\ WindowTypes /\ LocalsTyped /\ CountsInv /\ SearchInv(t) /\ KnownInv(t)
      /\ PW \in Nat /\ GW \in Nat /\ Depth \in Nat /\ Depth > 0
      /\ idx[t] \in Subs /\ put[idx[t]] \in Nat /\ win[t] \in Nat /\ pwin[t] \in Nat
  BY TypeParts, ConstantFacts, LocalTypes DEF OptInv, QueueInv, TypeOK, WindowTypes, KnownInv
<1>1. /\ pc[t] = "g_count" /\ pc' = [pc EXCEPT ![t] = "g_window"]
      /\ tailCount' = [tailCount EXCEPT ![t] = count]
      /\ UNCHANGED <<put, get, PW, GW, idx, win, contention, hops, random, notempty, desc>>
  BY DEF OptGetReadCount, Goto, globalVars
<1>2. /\ count \in Nat /\ count <= put[idx[t]]
      /\ win[t] = GW => count >= GW - Depth
  <2>1. PW - Depth <= put[idx[t]] /\ GW <= PW
    BY <1>0, ShiftUp DEF CountsInv
  <2>2. pwin[t] <= PW /\ (pwin[t] = 0 \/ pwin[t] >= Depth)
    BY <1>0 DEF KnownInv
  <2> QED BY <1>0, <2>1, <2>2 DEF KnownPuts
<1> HIDE DEF count
<1>3. LocalsTyped' /\ \A s \in Threads \ {t} : SameLocals(s)
  BY <1>0, <1>1, <1>2 DEF LocalsTyped, SameLocals, QueuePCs, SearchPCs
<1>4. pc'[t] = "g_window" /\ tailCount'[t] = count
  BY <1>0, <1>1 DEF LocalsTyped
<1>5. \A j : Back(t, j)' = Back(t, j)
  BY <1>1 DEF Back
<1>6. SearchInv(t)'
  <2>1. HopInv(t)' /\ PutInv(t)'
    BY <1>0, <1>1, <1>4 DEF SearchInv, HopInv, PutInv, PutLoop
  <2>2. GetInv(t)'
    BY <1>0, <1>1, <1>2, <1>4, <1>5 DEF SearchInv, GetInv, GetLoop
  <2> QED BY <2>1, <2>2 DEF SearchInv
<1>7. CountsInv'
  BY <1>0, <1>1 DEF CountsInv, ShiftsApart
<1>8. pc'[t] \in SearchPCs /\ pc'[t] \notin BeforeLink /\ pc[t] \notin BeforeLink
  BY <1>1, <1>4 DEF SearchPCs, BeforeLink
<1> QED BY <1>0, <1>1, <1>3, <1>6, <1>7, <1>8, SearchLike

\* get_window: the tests that end a round
LEMMA OptRoundKeeps ==
  ASSUME QueueInv, NEW t \in Threads, OptGetValid(t) \/ OptGetRound(t) \/ OptGetBehind(t),
         UNCHANGED queueVars
  PROVE  QueueInv'
<1>0. /\ WindowTypes /\ LocalsTyped /\ CountsInv /\ SearchInv(t)
      /\ PW \in Nat /\ GW \in Nat /\ win[t] \in Nat
  BY TypeParts, LocalTypes DEF QueueInv, TypeOK, WindowTypes
<1>1. UNCHANGED globalVars /\ UNCHANGED searchVars
  BY DEF OptGetValid, OptGetRound, OptGetBehind
<1>2. PICK x \in {"g_done", "g_shift", "g_behind"} :
         /\ pc' = [pc EXCEPT ![t] = x]
         /\ pc[t] \in {"g_window", "g_behind"}
         /\ x # "g_done" => hops[t] = Width
         /\ x = "g_behind" => pc[t] = "g_window"
         /\ x = "g_shift" /\ win[t] = GW => notempty[t] \/ win[t] # PW
  BY <1>0 DEF OptGetValid, OptGetRound, OptGetBehind, Goto, SearchInv, GetInv
<1>3. LocalsTyped' /\ (\A s \in Threads \ {t} : SameLocals(s)) /\ pc'[t] = x
  BY <1>0, <1>1, <1>2 DEF LocalsTyped, SameLocals, QueuePCs, SearchPCs, searchVars
<1>4. /\ UNCHANGED <<put, get, PW, GW>>
      /\ idx'[t] = idx[t] /\ win'[t] = win[t] /\ hops'[t] = hops[t] /\ random'[t] = random[t]
      /\ notempty'[t] = notempty[t] /\ desc'[t] = desc[t] /\ tailCount'[t] = tailCount[t]
      /\ \A j : Back(t, j)' = Back(t, j)
  BY <1>1 DEF globalVars, searchVars, Back
<1>5. SearchInv(t)'
  <2>1. HopInv(t)' /\ PutInv(t)'
    BY <1>0, <1>2, <1>3, <1>4 DEF SearchInv, HopInv, PutInv, PutLoop
  <2>2. x = "g_shift" /\ win[t] = GW => GW < PW
    <3>1. GW <= PW
      BY <1>0, ShiftUp DEF CountsInv
    <3> QED BY <1>0, <1>2, <3>1 DEF SearchInv, GetInv, GetLoop
  <2>3. GetInv(t)
    BY <1>0 DEF SearchInv
  <2>4. GetInv(t)'
    BY <1>2, <1>3, <1>4, <2>2, <2>3 DEF GetInv, GetLoop
  <2> QED BY <2>1, <2>4 DEF SearchInv
<1>6. CountsInv'
  BY <1>0, <1>4 DEF CountsInv, ShiftsApart
<1>7. /\ pc'[t] \in SearchPCs \cup {"g_behind"} /\ pc'[t] \notin BeforeLink
      /\ pc[t] \notin BeforeLink
  BY <1>2, <1>3 DEF SearchPCs, BeforeLink
<1> QED BY <1>0, <1>3, <1>4, <1>5, <1>6, <1>7, SearchLike

\* get_window: a hop away from a sub-queue that has no item below the window
LEMMA OptHopKeeps ==
  ASSUME QueueInv, NEW t \in Threads, OptGetHop(t), UNCHANGED queueVars
  PROVE  QueueInv'
<1>0. /\ WindowTypes /\ LocalsTyped /\ CountsInv /\ SearchInv(t) /\ HopInv(t) /\ GetInv(t)
      /\ idx[t] \in Subs /\ win[t] \in Nat /\ PW \in Nat /\ GW \in Nat
      /\ desc[t].get \in Nat /\ get[idx[t]] \in Nat /\ put[idx[t]] \in Nat
      /\ tailCount[t] \in Nat /\ Depth \in Nat /\ Depth > 0
  BY TypeParts, LocalTypes, ConstantFacts DEF QueueInv, TypeOK, SearchInv
<1>1. /\ UNCHANGED <<put, get, PW, GW, win, contention, desc, tailCount>>
      /\ pc[t] = "g_window" /\ pc' = [pc EXCEPT ![t] = "g_desc"]
      /\ GW = win[t] /\ hops[t] # Width /\ Hop(t)
      /\ notempty' = [notempty EXCEPT ![t] = @ \/ OptSeesItem(t)]
      /\ desc[t].get >= GW \/ desc[t].get >= tailCount[t]
  BY <1>0 DEF OptGetHop, OptCanGet, OptSeesItem, Goto, globalVars
<1>2. /\ pc'[t] = "g_desc" /\ notempty'[t] = (notempty[t] \/ OptSeesItem(t))
  BY <1>0, <1>1 DEF LocalsTyped
<1>3. LocalsTyped' /\ \A s \in Threads \ {t} : SameLocals(s)
  <2>1. OptSeesItem(t) \in BOOLEAN
    BY DEF OptSeesItem
  <2> QED BY <1>0, <1>1, <2>1, HopTypes DEF LocalsTyped, SameLocals, QueuePCs, SearchPCs
<1>4. get[idx[t]] >= GW - Depth
  BY <1>0, <1>1 DEF GetInv
<1> DEFINE P == {q \in Subs : get[q] >= GW - Depth}
<1>5. (\A j \in 1..hops[t] : Back(t, j) \in P) /\ idx[t] \in P
  BY <1>0, <1>1, <1>4, LocalTypes DEF GetInv, GetLoop
<1> HIDE DEF P
<1>6. HopInv(t)' /\ \A j \in 1..hops'[t] : Back(t, j)' \in P
  BY <1>0, <1>1, <1>5, HopKeeps
<1>7. \A j \in 1..hops'[t] : get'[Back(t, j)'] >= GW - Depth
  BY <1>1, <1>6 DEF P
<1>8. notempty'[t] => GW < PW
  <2>1. put[idx[t]] <= PW
    BY <1>0 DEF CountsInv
  <2>2. OptSeesItem(t) => GW < PW
    BY <1>0, <1>1, <2>1 DEF GetInv, OptSeesItem
  <2> QED BY <1>0, <1>1, <1>2, <2>2 DEF GetInv, GetLoop
<1>9. SearchInv(t)'
  <2>1. PutInv(t)'
    BY <1>2 DEF PutInv, PutLoop
  <2>2. GetInv(t)'
    BY <1>0, <1>1, <1>2, <1>7, <1>8 DEF GetInv, GetLoop
  <2> QED BY <1>6, <2>1, <2>2 DEF SearchInv
<1>10. CountsInv'
  BY <1>0, <1>1 DEF CountsInv, ShiftsApart
<1>11. pc'[t] \in SearchPCs /\ pc'[t] \notin BeforeLink /\ pc[t] \notin BeforeLink
  BY <1>1, <1>2 DEF SearchPCs, BeforeLink
<1> QED BY <1>0, <1>1, <1>3, <1>9, <1>10, <1>11, SearchLike

-----------------------------------------------------------------------------
\* The steps of enqueue and dequeue that differ

LEMMA OptTestKeeps ==
  ASSUME QueueInv, NEW t \in Threads, OptEnqCheck(t) \/ OptEnqNext(t)
  PROVE  QueueInv'
<1>0. /\ TypeOK /\ SearchInv(t) /\ PutInv(t) /\ OpInv(t) /\ ItemsInv
      /\ put[idx[t]] <= Linked(idx[t])
  <2>1. TypeOK /\ SearchInv(t) /\ OpInv(t) /\ ItemsInv
    BY DEF QueueInv
  <2>2. idx[t] \in Subs /\ Linked(idx[t]) \in Nat /\ put[idx[t]] \in Nat
    BY <2>1, ThreadFacts
  <2> QED BY <2>1, <2>2 DEF QueueInv, ListInv, SearchInv
<1>1. UNCHANGED <<globalVars, searchVars, content, linkedItems, started>>
  BY DEF OptEnqCheck, OptEnqNext, queueVars
<1>2. /\ idx'[t] = idx[t] /\ desc'[t] = desc[t] /\ tailCount'[t] = tailCount[t]
      /\ UNCHANGED <<put, get, PW>> /\ Linked(idx[t])' = Linked(idx[t])
  BY <1>1 DEF searchVars, globalVars, Linked
<1>3. /\ idx[t] \in Subs /\ desc[t].put \in Nat /\ put[idx[t]] \in Nat
      /\ Linked(idx[t]) \in Nat
  BY <1>0, ThreadFacts
<1>4. PICK x \in Outside : /\ pc' = [pc EXCEPT ![t] = x] /\ pc'[t] = x
                           /\ x \in BeforeLink /\ pc[t] \in BeforeLink
                           /\ \/ pc[t] = "p_done" /\ x \in {"p_enter", "e_check"}
                              \/ /\ pc[t] = "e_check"
                                 /\ \/ x = "e_link"
                                    \/ x = "e_help" /\ Linked(idx[t]) # desc[t].put
  BY <1>0 DEF OptEnqCheck, OptEnqNext, Goto, Outside, BeforeLink, TypeOK
<1>5. LocalsTyped' /\ SearchInv(t)' /\ \A s \in Threads \ {t} : SameLocals(s)
  BY <1>0, <1>1, <1>4, LocalSteps
<1>6. OpInv(t)'
  BY <1>0, <1>2, <1>3, <1>4 DEF OpInv, PutInv
<1>7. ItemsInv'
  BY <1>0, <1>1, <1>4, SameEnqueuing
<1>8. started' \in 0..MaxItems
  BY <1>0, <1>1 DEF TypeOK
<1> QED BY <1>1, <1>5, <1>6, <1>7, <1>8, QuietStep

\* safe_deq: the head the search has read is behind the tail.
LEMMA OptReadTailKeeps ==
  ASSUME OptInv, NEW t \in Threads, OptDeqReadTail(t)
  PROVE  QueueInv'
<1>0. /\ QueueInv /\ TypeOK /\ SearchInv(t) /\ GetInv(t) /\ ItemsInv /\ LocalsTyped
      /\ KnownInv(t)
  BY TypeParts DEF OptInv, QueueInv, SearchInv
<1> DEFINE to == IF Safe(t) THEN "d_swing" ELSE "d_check"
<1>1. /\ pc[t] = "g_done" /\ pc' = [pc EXCEPT ![t] = to]
      /\ tailCount' = [tailCount EXCEPT ![t] = put[idx[t]]]
      /\ UNCHANGED <<globalVars, content, linkedItems, started, idx, win, contention, hops,
                     random, notempty, desc>>
  BY DEF OptDeqReadTail, Goto, queueVars
<1>2. /\ idx[t] \in Subs /\ put[idx[t]] \in Nat /\ get[idx[t]] \in Nat /\ desc[t].get \in Nat
  BY <1>0, ThreadFacts
<1>3. /\ to \in {"d_swing", "d_check"}
      /\ to = "d_swing" => desc[t].get < put[idx[t]]
  BY <1>0, <1>1 DEF KnownInv
<1> HIDE DEF to
<1>4. LocalsTyped' /\ \A s \in Threads \ {t} : SameLocals(s)
  BY <1>0, <1>1, <1>2, <1>3 DEF LocalsTyped, SameLocals, QueuePCs
<1>5. /\ pc'[t] = to /\ tailCount'[t] = put[idx[t]] /\ idx'[t] = idx[t]
      /\ desc'[t] = desc[t] /\ UNCHANGED <<put, get>>
  BY <1>0, <1>1 DEF LocalsTyped, globalVars
<1>6. SearchInv(t)'
  BY <1>0, <1>1, <1>3, <1>5, OutsideSearch DEF Outside
<1>7. OpInv(t)'
  <2>1. desc[t].get <= get[idx[t]] /\ get[idx[t]] <= put[idx[t]]
    BY <1>0, <1>1, <1>2 DEF GetInv, QueueInv, CountsInv
  <2> QED BY <1>2, <1>3, <1>5, <2>1 DEF OpInv
<1>8. ItemsInv'
  BY <1>0, <1>1, <1>3, SameEnqueuing DEF BeforeLink
<1>9. started' \in 0..MaxItems
  BY <1>0, <1>1 DEF TypeOK
<1> QED BY <1>0, <1>1, <1>4, <1>6, <1>7, <1>8, <1>9, QuietStep

-----------------------------------------------------------------------------
\* One step of a thread

OptMove(t) == \/ Enqueue(t) /\ UNCHANGED pwin
              \/ OptDequeue(t)
              \/ OptStep(t)

LEMMA OptMoveKeeps ==
  ASSUME OptInv, NEW t \in Threads, OptMove(t)
  PROVE  QueueInv'
<1>0. QueueInv
  BY DEF OptInv
<1>1. CASE Enqueue(t) \/ OptDequeue(t)
  BY <1>0, <1>1, CallKeeps DEF OptDequeue
<1>2. CASE OptSearch(t) /\ UNCHANGED queueVars
  <2>1. CASE \/ PutEnter(t) \/ PutReadDesc(t) \/ PutSync(t) \/ PutValid(t) \/ PutHop(t)
             \/ PutNone(t)
    <3>1. ~ GetHop(t)
      BY <2>1 DEF PutEnter, PutReadDesc, PutSync, PutValid, PutHop, PutNone, GetHop, Goto
    <3> QED BY <1>0, <1>2, <2>1, <3>1, SearchStepKeeps DEF PutSearch
  <2>2. CASE GetEnter(t) \/ GetReadDesc(t) \/ GetSync(t)
    <3>1. ~ GetHop(t)
      BY <2>2 DEF GetEnter, GetReadDesc, GetSync, GetHop, Goto
    <3> QED BY <1>0, <1>2, <2>2, <3>1, SearchStepKeeps DEF GetSearch
  <2> QED BY <1>0, <1>2, <2>1, <2>2, OptPutShiftKeeps, OptGetShiftKeeps, OptReadCountKeeps,
             OptRoundKeeps, OptHopKeeps DEF OptSearch
<1> QED BY <1>0, <1>1, <1>2, OptTestKeeps, OptReadTailKeeps, TestKeeps, EmptyKeeps, HelpKeeps,
           LinkKeeps, SwingKeeps DEF OptMove, OptStep

\* What a step does to the copies of the put window, and to other threads.
LEMMA OptMoveFrame ==
  ASSUME OptInv, NEW t \in Threads, OptMove(t)
  PROVE  /\ PW <= PW' /\ \A q \in Subs : put[q] <= put'[q]
         /\ \E x \in {pwin[t], 0, PW} : pwin' = [pwin EXCEPT ![t] = x]
         /\ \A s \in Threads \ {t} : /\ pc'[s] = pc[s] /\ idx'[s] = idx[s] /\ win'[s] = win[s]
                                      /\ desc'[s] = desc[s]
<1> DEFINE Others == \A s \in Threads \ {t} : /\ pc'[s] = pc[s] /\ idx'[s] = idx[s]
                                              /\ win'[s] = win[s] /\ desc'[s] = desc[s]
           Puts == PW <= PW' /\ \A q \in Subs : put[q] <= put'[q]
<1>0. /\ LocalsTyped /\ PW \in Nat /\ Depth \in Nat /\ put \in [Subs -> Nat]
      /\ \A q \in Subs : put[q] \in Nat
      /\ pwin \in [Threads -> Nat] /\ TypeOK /\ WindowTypes
  BY TypeParts, ConstantFacts DEF OptInv, QueueInv, TypeOK, WindowTypes
<1>1. \E x \in {pwin[t], 0, PW} : pwin' = [pwin EXCEPT ![t] = x]
  <2>1. pwin = [pwin EXCEPT ![t] = pwin[t]]
    BY <1>0
  <2> QED BY <2>1 DEF OptMove, OptDequeue, OptStep
<1>2. ASSUME UNCHANGED <<put, PW>> PROVE Puts
  BY <1>0, <1>2
<1>3. CASE Enqueue(t) \/ OptDequeue(t)
  BY <1>0, <1>1, <1>2, <1>3 DEF Enqueue, OptDequeue, Dequeue, Goto, LocalsTyped, globalVars,
     searchVars
<1>4. CASE OptSearch(t)
  <2>1. Puts
    <3>1. CASE UNCHANGED <<put, PW>>
      BY <1>2, <3>1
    <3>2. CASE ~ UNCHANGED <<put, PW>>
      <4>1. OptPutShift(t)
        BY <1>4, <3>2 DEF OptSearch, PutEnter, PutReadDesc, PutSync, PutValid, PutHop, PutNone,
           GetEnter, GetReadDesc, OptGetReadCount, GetSync, OptGetValid, OptGetHop, OptGetRound,
           OptGetBehind, OptGetShift, Enter, Resync, globalVars
      <4> QED BY <1>0, <4>1 DEF OptPutShift
    <3> QED BY <3>1, <3>2
  <2>2. Others
    BY <1>0, <1>4 DEF OptSearch, PutEnter, PutReadDesc, PutSync, PutValid, PutHop, PutNone,
       GetEnter, GetReadDesc, OptGetReadCount, GetSync, OptGetValid, OptGetHop, OptGetRound,
       OptGetBehind, OptGetShift, OptPutShift, Enter, Resync, Hop, Goto, LocalsTyped, searchVars
  <2> QED BY <1>1, <2>1, <2>2
<1>5. CASE OptEnqCheck(t) \/ OptEnqNext(t) \/ OptDeqReadTail(t) \/ DeqEmpty(t) \/ DeqCheck(t)
           \/ EnqLink(t) \/ DeqSwing(t)
  <2>1. UNCHANGED <<put, PW>>
    BY <1>5 DEF OptEnqCheck, OptEnqNext, OptDeqReadTail, DeqEmpty, DeqCheck, EnqLink, DeqSwing,
                globalVars
  <2>2. Others
    BY SMTT(30), <1>0, <1>5 DEF OptEnqCheck, OptEnqNext, OptDeqReadTail, DeqEmpty, DeqCheck, EnqLink,
       DeqSwing, Goto, Leave, Retry, LocalsTyped, searchVars
  <2> QED BY <1>1, <1>2, <2>1, <2>2
<1>6. CASE EnqHelp(t) \/ EnqSwing(t) \/ DeqHelp(t)
  <2>1. PICK e : AdvancePut(t, e)
    BY <1>6 DEF EnqHelp, EnqSwing, DeqHelp
  <2>2. Puts
    BY <1>0, <2>1 DEF AdvancePut
  <2>3. Others
    BY <1>0, <1>6 DEF EnqHelp, EnqSwing, DeqHelp, Leave, Retry, LocalsTyped
  <2> QED BY <1>1, <2>2, <2>3
<1> QED BY <1>3, <1>4, <1>5, <1>6 DEF OptMove, OptStep

\* A dequeue that will skip the test for empty has read a head behind the tail.
LEMMA OptMoveDone ==
  ASSUME OptInv, NEW t \in Threads, OptMove(t), pc'[t] = "g_done", Safe(t)'
  PROVE  desc'[t].get < put'[idx'[t]]
<1>0. /\ LocalsTyped /\ TypeOK /\ SearchInv(t) /\ KnownInv(t) /\ PW \in Nat
      /\ idx[t] \in Subs /\ put[idx[t]] \in Nat /\ tailCount[t] \in Nat
      /\ desc[t].get \in Nat /\ win[t] \in Nat /\ pwin[t] \in Nat
      /\ pwin \in [Threads -> Nat]
  BY SMTT(30), TypeParts, ThreadFacts, LocalTypes DEF OptInv, QueueInv, KnownInv, TypeOK
<1>1. OptStep(t) /\ (OptGetValid(t) \/ OptGetBehind(t))
  BY <1>0 DEF OptMove, OptStep, OptSearch, Enqueue, OptDequeue, Dequeue, PutEnter, PutReadDesc,
     PutSync, PutValid, PutHop, PutNone, GetEnter, GetReadDesc, OptGetReadCount, GetSync,
     OptGetHop, OptGetRound, OptGetShift, OptPutShift, OptEnqCheck, OptEnqNext, EnqLink,
     EnqHelp, EnqSwing, OptDeqReadTail, DeqEmpty, DeqCheck, DeqHelp, DeqSwing, Goto, Leave,
     Retry, LocalsTyped
<1>2. pwin' = pwin
  BY <1>1 DEF OptStep
<1>3. UNCHANGED <<put, idx, win, desc, PW>>
  BY <1>1 DEF OptGetValid, OptGetBehind, globalVars, searchVars
<1>4. pwin[t] > win[t]
  BY <1>2, <1>3 DEF Safe
<1>5. CASE OptGetValid(t)
  <2>1. desc[t].get < tailCount[t] /\ pc[t] = "g_window"
    BY <1>5 DEF OptGetValid, OptCanGet, OptSeesItem, Goto
  <2>2. tailCount[t] <= put[idx[t]]
    BY <1>0, <2>1 DEF SearchInv, GetInv
  <2> QED BY <1>0, <1>3, <2>1, <2>2
<1>6. CASE OptGetBehind(t)
  <2>1. win[t] = PW
    BY <1>0, <1>6 DEF OptGetBehind, Goto, LocalsTyped
  <2>2. pwin[t] <= PW
    BY <1>0 DEF KnownInv
  <2> QED BY <1>0, <1>4, <2>1, <2>2
<1> QED BY <1>1, <1>5, <1>6

LEMMA OptMoveInv ==
  ASSUME OptInv, NEW t \in Threads, OptMove(t)
  PROVE  OptInv'
<1>0. /\ QueueInv /\ pwin \in [Threads -> Nat] /\ PW >= Depth /\ TypeOK /\ PW \in Nat
      /\ Depth \in Nat
  BY ConstantFacts DEF OptInv, QueueInv, TypeOK, WindowTypes
<1>1. QueueInv' /\ TypeOK' /\ PW' \in Nat
  BY OptMoveKeeps DEF QueueInv, TypeOK, WindowTypes
<1>2. PICK x \in {pwin[t], 0, PW} : pwin' = [pwin EXCEPT ![t] = x]
  BY OptMoveFrame
<1>3. PW <= PW' /\ PW' >= Depth
  BY <1>0, <1>1, OptMoveFrame
<1>4. KnownInv(t)
  BY DEF OptInv
<1>5. x \in Nat /\ x <= PW' /\ (x = 0 \/ x >= Depth) /\ pwin'[t] = x
  BY <1>0, <1>1, <1>2, <1>3, <1>4 DEF KnownInv
<1>6. KnownInv(t)'
  BY <1>5, OptMoveDone DEF KnownInv
<1>7. ASSUME NEW s \in Threads \ {t} PROVE KnownInv(s)'
  <2>1. /\ pc'[s] = pc[s] /\ idx'[s] = idx[s] /\ win'[s] = win[s] /\ desc'[s] = desc[s]
        /\ pwin'[s] = pwin[s]
    BY <1>0, <1>2, OptMoveFrame
  <2>2. /\ idx[s] \in Subs /\ put[idx[s]] \in Nat /\ desc[s].get \in Nat /\ pwin[s] \in Nat
    BY <1>0, ThreadFacts
  <2>3. put'[idx[s]] \in Nat /\ put[idx[s]] <= put'[idx[s]]
    BY <1>1, <2>2, OptMoveFrame DEF TypeOK, WindowTypes
  <2>4. KnownInv(s)
    BY DEF OptInv
  <2> QED BY <1>0, <1>1, <1>3, <2>1, <2>2, <2>3, <2>4 DEF KnownInv, Safe
<1>8. pwin' \in [Threads -> Nat]
  BY <1>0, <1>2, <1>5
<1> QED BY <1>1, <1>3, <1>6, <1>7, <1>8 DEF OptInv

LEMMA OptInitInv == OptInit => OptInv
<1> SUFFICES ASSUME OptInit PROVE OptInv
  OBVIOUS
<1>1. QueueInv
  BY InitKeeps DEF OptInit
<1>2. PW = Depth /\ pwin = [t \in Threads |-> 0] /\ \A t \in Threads : pc[t] = "idle"
  BY DEF OptInit, Init, WindowInit
<1> QED BY <1>1, <1>2, ConstantFacts DEF OptInv, KnownInv

LEMMA OptStepInv ==
  ASSUME OptInv, [OptNext]_optVars
  PROVE  OptInv'
<1>1. CASE UNCHANGED optVars
  <2>1. QueueInv'
    <3>1. UNCHANGED vars
      BY <1>1 DEF optVars
    <3> QED BY SMTT(30), <3>1 DEF OptInv, QueueInv, TypeOK, WindowTypes, CountsInv, ListInv, ItemsInv,
              Enqueuing, SearchInv, HopInv, PutInv, GetInv, OpInv, Back, Linked,
              ShiftsApart, vars, windowVars, queueVars, globalVars, searchVars
  <2> QED BY <1>1, <2>1 DEF OptInv, KnownInv, Safe, optVars, vars, windowVars, globalVars,
                            searchVars
<1>2. ASSUME NEW t \in Threads, OptMove(t) PROVE OptInv'
  BY <1>2, OptMoveInv
<1> QED BY <1>1, <1>2 DEF OptNext, OptMove

\* The order of the items, which the rank bound rests on, is kept too: the optimized
\* queue links and dequeues the same way.
LEMMA OptRankStep ==
  ASSUME OptInv, RankInv, [OptNext]_optVars
  PROVE  RankInv'
<1>1. CASE UNCHANGED optVars
  BY <1>1, RankStays DEF optVars, vars, windowVars, globalVars, queueVars
<1>2. ASSUME NEW t \in Threads, OptMove(t) PROVE RankInv'
  <2>1. CASE Enqueue(t) \/ OptDequeue(t)
    BY <2>1, RankStays DEF Enqueue, OptDequeue, Dequeue, globalVars, queueVars
  <2>2. CASE OptSearch(t) /\ UNCHANGED queueVars
    <3>1. UNCHANGED get /\ (PW' = PW \/ PW' = PW + Depth) /\ (GW' = GW \/ GW' = GW + Depth)
      BY <2>2 DEF OptSearch, PutEnter, PutReadDesc, PutSync, PutValid, PutHop, PutNone,
         GetEnter, GetReadDesc, OptGetReadCount, GetSync, OptGetValid, OptGetHop, OptGetRound,
         OptGetBehind, OptGetShift, OptPutShift, Enter, Resync, globalVars
    <3> QED BY <2>2, <3>1, RankStays DEF queueVars
  <2>3. CASE \/ OptEnqCheck(t) \/ OptEnqNext(t) \/ EnqHelp(t) \/ EnqSwing(t)
             \/ OptDeqReadTail(t) \/ DeqEmpty(t) \/ DeqCheck(t) \/ DeqHelp(t)
    <3>1. UNCHANGED <<get, PW, GW, content, linkedItems>>
      BY <2>3 DEF OptEnqCheck, OptEnqNext, EnqHelp, EnqSwing, OptDeqReadTail, DeqEmpty,
         DeqCheck, DeqHelp, AdvancePut, globalVars, queueVars
    <3> QED BY <3>1, RankStays
  <2> QED BY <1>2, <2>1, <2>2, <2>3, LinkRank, SwingRank DEF OptMove, OptStep, OptInv
<1> QED BY <1>1, <1>2 DEF OptNext, OptMove

LEMMA OptSwingGets ==
  ASSUME OptInv, [OptNext]_optVars, NEW q \in Subs, get'[q] # get[q]
  PROVE  content[q] # << >> /\ get'[q] = get[q] + 1
<1>1. PICK t \in Threads : OptMove(t)
  BY DEF OptNext, OptMove, optVars, vars, windowVars, globalVars
<1>2. DeqSwing(t)
  <2>1. OptSearch(t) => get' = get
    BY DEF OptSearch, PutEnter, PutReadDesc, PutSync, PutValid, PutHop, PutNone,
       GetEnter, GetReadDesc, OptGetReadCount, GetSync, OptGetValid, OptGetHop, OptGetRound,
       OptGetBehind, OptGetShift, OptPutShift, Enter, Resync, globalVars
  <2>2. ~ DeqSwing(t) => get' = get
    BY <1>1, <2>1 DEF OptMove, OptStep, Enqueue, OptDequeue, Dequeue, OptEnqCheck, OptEnqNext,
       EnqLink, EnqHelp, EnqSwing, OptDeqReadTail, DeqEmpty, DeqCheck, DeqHelp, AdvancePut,
       globalVars
  <2> QED BY <2>2
<1> QED BY <1>2, SwingGets DEF OptInv

-----------------------------------------------------------------------------
\* The counter, the stack and the coupled structures are systems of their own: the steps
\* of the suite are those of their modules.

CP == INSTANCE Counter2Dd_proofs WITH OneArray <- TRUE, RandomHops <- 0, MaxPuts <- 4

LEMMA CounterConstants ==
  Width \in Nat \ {0} /\ Depth \in Nat \ {0} /\ 0 \in Nat /\ TRUE \in BOOLEAN
  BY WindowAssumption

LEMMA CounterStarts == Counter!Init => CP!CounterInv
<1>1. Counter!Init <=> CP!Init
  BY DEF Counter!Init, CP!Init, Counter!WindowInit, CP!WindowInit, Counter!Subs, CP!Subs,
         Counter!NoDesc, CP!NoDesc
<1> QED BY <1>1, CounterConstants, CP!CounterInit

LEMMA CounterMoves == CP!CounterInv /\ Counter!Next => CP!CounterInv'
<1>1. Counter!Next <=> CP!Next
  BY DEF
     Counter!Next, CP!Next, Counter!OpStep, CP!OpStep, Counter!Increment, CP!Increment,
     Counter!Decrement, CP!Decrement, Counter!IncCAE, CP!IncCAE, Counter!DecCAE,
     CP!DecCAE, Counter!DecZero, CP!DecZero, Counter!Unchanged, CP!Unchanged,
     Counter!Leave, CP!Leave, Counter!Retry, CP!Retry, Counter!Goto, CP!Goto,
     Counter!PutSearch, CP!PutSearch, Counter!GetSearch, CP!GetSearch, Counter!NoDesc,
     CP!NoDesc, Counter!PutEnter, CP!PutEnter, Counter!PutReadDesc, CP!PutReadDesc,
     Counter!PutSync, CP!PutSync, Counter!PutValid, CP!PutValid, Counter!PutHop,
     CP!PutHop, Counter!PutNone, CP!PutNone, Counter!PutShift, CP!PutShift,
     Counter!PutResync, CP!PutResync, Counter!GetEnter, CP!GetEnter,
     Counter!GetReadDesc, CP!GetReadDesc, Counter!GetReadCount, CP!GetReadCount,
     Counter!GetSync, CP!GetSync, Counter!GetValid, CP!GetValid, Counter!GetHop,
     CP!GetHop, Counter!GetNone, CP!GetNone, Counter!GetShift, CP!GetShift,
     Counter!GetResync, CP!GetResync, Counter!GetEmpty, CP!GetEmpty, Counter!Enter,
     CP!Enter, Counter!Resync, CP!Resync, Counter!Hop, CP!Hop, Counter!Subs, CP!Subs,
     Counter!PutDesc, CP!PutDesc, Counter!GetDesc, CP!GetDesc, Counter!CanGet,
     CP!CanGet, Counter!SeesItem, CP!SeesItem, Counter!globalVars, CP!globalVars,
     Counter!searchVars, CP!searchVars
<1>2. CP!Next => [CP!Next]_(CP!vars)
  OBVIOUS
<1> QED BY <1>1, <1>2, CounterConstants, CP!CounterStep

LEMMA CounterStays == CP!CounterInv /\ UNCHANGED CP!vars => CP!CounterInv'
<1>1. UNCHANGED CP!vars => [CP!Next]_(CP!vars)
  OBVIOUS
<1> QED BY <1>1, CounterConstants, CP!CounterStep

-----------------------------------------------------------------------------
\* The stack: without its items it is the counter, a push an increment and a pop a
\* decrement.

SP == INSTANCE Counter2Dd_proofs WITH OneArray <- TRUE, RandomHops <- 0, MaxPuts <- 4

\* The items of a sub-stack are as many as its counts say.
StackInv == /\ SP!CounterInv
            /\ content \in [Subs -> Seq(Nat)] /\ linkedItems \in Nat
            /\ \A q \in Subs : Len(content[q]) = put[q] - get[q]

LEMMA StackIsCounter == /\ Stack!Init => SP!Init
                        /\ Stack!Next => SP!Next
<1>1. Stack!Init => SP!Init
  BY SMTT(30) DEF Stack!Init, SP!Init, Stack!WindowInit, SP!WindowInit, Stack!Subs, SP!Subs,
         Stack!NoDesc, SP!NoDesc
<1>2. ASSUME NEW t \in Threads, Stack!Push(t) \/ Stack!Pop(t) \/ Stack!OpStep(t)
      PROVE  SP!Increment(t) \/ SP!Decrement(t) \/ SP!OpStep(t)
  BY <1>2 DEF
     Stack!Next, SP!Next, Stack!OpStep, SP!OpStep, Stack!Goto, SP!Goto, Stack!PutSearch,
     SP!PutSearch, Stack!GetSearch, SP!GetSearch, Stack!NoDesc, SP!NoDesc,
     Stack!PutEnter, SP!PutEnter, Stack!PutReadDesc, SP!PutReadDesc, Stack!PutSync,
     SP!PutSync, Stack!PutValid, SP!PutValid, Stack!PutHop, SP!PutHop, Stack!PutNone,
     SP!PutNone, Stack!PutShift, SP!PutShift, Stack!PutResync, SP!PutResync,
     Stack!GetEnter, SP!GetEnter, Stack!GetReadDesc, SP!GetReadDesc, Stack!GetReadCount,
     SP!GetReadCount, Stack!GetSync, SP!GetSync, Stack!GetValid, SP!GetValid,
     Stack!GetHop, SP!GetHop, Stack!GetNone, SP!GetNone, Stack!GetShift, SP!GetShift,
     Stack!GetResync, SP!GetResync, Stack!GetEmpty, SP!GetEmpty, Stack!Enter, SP!Enter,
     Stack!Resync, SP!Resync, Stack!Hop, SP!Hop, Stack!Subs, SP!Subs, Stack!PutDesc,
     SP!PutDesc, Stack!GetDesc, SP!GetDesc, Stack!CanGet, SP!CanGet, Stack!SeesItem,
     SP!SeesItem, Stack!Leave, SP!Leave, Stack!Retry, SP!Retry, Stack!Unchanged,
     SP!Unchanged, Stack!globalVars, SP!globalVars, Stack!searchVars, SP!searchVars,
     Stack!Push, SP!Increment, Stack!PushCAE, SP!IncCAE, Stack!Pop, SP!Decrement,
     Stack!PopCAE, SP!DecCAE, Stack!PopEmpty, SP!DecZero, Stack!stackVars
<1> QED BY <1>1, <1>2 DEF Stack!Next, SP!Next

LEMMA StackStarts == Stack!Init => StackInv
<1> SUFFICES ASSUME Stack!Init PROVE StackInv
  OBVIOUS
<1>1. SP!CounterInv
  BY StackIsCounter, CounterConstants, SP!CounterInit
<1>2. /\ content = [q \in Subs |-> << >>] /\ linkedItems = 0
      /\ put = [q \in Subs |-> 0] /\ get = [q \in Subs |-> 0]
  BY DEF Stack!Init, Stack!WindowInit, Stack!Subs, Subs
<1> QED BY <1>1, <1>2 DEF StackInv

\* A push or pop changes the items and the counts of one sub-stack together.
LEMMA StackSteps == StackInv /\ (Stack!Next \/ UNCHANGED Stack!vars) => StackInv'
<1> SUFFICES ASSUME StackInv, Stack!Next \/ UNCHANGED Stack!vars PROVE StackInv'
  OBVIOUS
<1>0. /\ content \in [Subs -> Seq(Nat)] /\ linkedItems \in Nat
      /\ \A q \in Subs : Len(content[q]) = put[q] - get[q]
      /\ put \in [Subs -> Nat] /\ get \in [Subs -> Nat] /\ idx \in [Threads -> Subs]
      /\ \A q \in Subs : get[q] <= put[q]
  BY CounterConstants, SP!CounterProperties
     DEF StackInv, SP!CounterInv, SP!WindowTypes, SP!Subs, Subs, SP!NeverNegative
<1>1. SP!CounterInv'
  <2>1. [SP!Next]_(SP!vars)
    BY StackIsCounter DEF Stack!vars, Stack!windowVars, Stack!stackVars, Stack!globalVars,
       Stack!searchVars, SP!vars, SP!windowVars, SP!globalVars, SP!searchVars
  <2> QED BY <2>1, CounterConstants, SP!CounterStep DEF StackInv
<1> DEFINE Matched == /\ content' \in [Subs -> Seq(Nat)] /\ linkedItems' \in Nat
                      /\ \A q \in Subs : Len(content'[q]) = put'[q] - get'[q]
<1>2. ASSUME UNCHANGED <<content, linkedItems, put, get>> PROVE Matched
  BY <1>0, <1>2
<1>3. ASSUME NEW t \in Threads, Stack!PushCAE(t), Stack!Unchanged(t) PROVE Matched
  <2>1. /\ idx[t] \in Subs /\ get' = get /\ linkedItems' = linkedItems + 1
        /\ put' = [put EXCEPT ![idx[t]] = @ + 1]
        /\ content' = [content EXCEPT ![idx[t]] = <<linkedItems + 1>> \o @]
    BY <1>0, <1>3 DEF Stack!PushCAE
  <2>2. /\ <<linkedItems + 1>> \o content[idx[t]] \in Seq(Nat)
        /\ Len(<<linkedItems + 1>> \o content[idx[t]]) = Len(content[idx[t]]) + 1
    BY <1>0, <2>1
  <2> QED BY SMTT(30), <1>0, <2>1, <2>2
<1>4. ASSUME NEW t \in Threads, Stack!PopCAE(t), Stack!Unchanged(t) PROVE Matched
  <2>1. /\ idx[t] \in Subs /\ put' = put /\ linkedItems' = linkedItems
        /\ get' = [get EXCEPT ![idx[t]] = @ + 1]
        /\ content' = [content EXCEPT ![idx[t]] = Tail(@)]
        /\ put[idx[t]] # get[idx[t]]
    BY <1>0, <1>4 DEF Stack!PopCAE, Stack!Unchanged
  <2>2. content[idx[t]] \in Seq(Nat) /\ Len(content[idx[t]]) > 0
    BY <1>0, <2>1
  <2>3. /\ Tail(content[idx[t]]) \in Seq(Nat)
        /\ Len(Tail(content[idx[t]])) = Len(content[idx[t]]) - 1
    BY <2>2
  <2> QED BY SMTT(30), <1>0, <2>1, <2>3
<1>5. Matched
  <2>1. ASSUME NEW t \in Threads, Stack!Push(t) \/ Stack!Pop(t) \/ Stack!PopEmpty(t)
        PROVE  Matched
    BY <1>2, <2>1 DEF Stack!Push, Stack!Pop, Stack!PopEmpty, Stack!globalVars, Stack!stackVars
  <2>2. ASSUME NEW t \in Threads, Stack!PutSearch(t) \/ Stack!GetSearch(t),
               UNCHANGED Stack!stackVars
        PROVE  Matched
    <3>1. UNCHANGED <<put, get>>
      BY <2>2 DEF Stack!PutSearch, Stack!GetSearch, Stack!PutEnter, Stack!PutReadDesc,
         Stack!PutSync, Stack!PutValid, Stack!PutHop, Stack!PutNone, Stack!PutShift,
         Stack!PutResync, Stack!GetEnter, Stack!GetReadDesc, Stack!GetReadCount,
         Stack!GetSync, Stack!GetValid, Stack!GetHop, Stack!GetNone, Stack!GetShift,
         Stack!GetResync, Stack!GetEmpty, Stack!Enter, Stack!Resync, Stack!globalVars
    <3> QED BY <1>2, <2>2, <3>1 DEF Stack!stackVars
  <2>3. ASSUME NEW t \in Threads, Stack!PushCAE(t) \/ Stack!PopCAE(t), ~ Stack!Unchanged(t)
        PROVE  Matched
    BY <1>2, <2>3 DEF Stack!PushCAE, Stack!PopCAE
  <2>4. CASE UNCHANGED Stack!vars
    BY <1>2, <2>4 DEF Stack!vars, Stack!windowVars, Stack!globalVars, Stack!stackVars
  <2> QED BY <1>3, <1>4, <2>1, <2>2, <2>3, <2>4 DEF Stack!Next, Stack!OpStep
<1> QED BY <1>1, <1>5 DEF StackInv

LEMMA StackMeans ==
  ASSUME StackInv
  PROVE  PutWindowExact /\ GetWindowFollows /\ Stack!HeightsClose
<1>0. /\ put \in [Subs -> Nat] /\ get \in [Subs -> Nat] /\ PW \in Nat /\ GW \in Nat
      /\ Depth \in Nat
  BY CounterConstants DEF StackInv, SP!CounterInv, SP!WindowTypes, SP!Subs, Subs
<1>1. PutWindowExact /\ GetWindowFollows
  <2>1. SP!PutWindowExact /\ SP!GetWindowFollows
    BY CounterConstants, SP!CounterProperties DEF StackInv
  <2> QED BY <2>1 DEF PutWindowExact, SP!PutWindowExact, GetWindowFollows,
                      SP!GetWindowFollows, Subs, SP!Subs
<1>2. ASSUME NEW q \in Subs, NEW r \in Subs, get[r] <= GW
      PROVE  Len(content[q]) <= Len(content[r]) + 3 * Depth
  <2>1. Len(content[q]) = put[q] - get[q] /\ Len(content[r]) = put[r] - get[r]
    BY DEF StackInv
  <2>2. put[q] <= PW /\ PW - Depth <= put[r] /\ GW - 2 * Depth <= get[q]
    BY <1>1 DEF PutWindowExact, GetWindowFollows
  <2>3. put[q] \in Nat /\ put[r] \in Nat /\ get[q] \in Nat /\ get[r] \in Nat
    BY <1>0
  <2> QED BY SMTT(30), <1>0, <1>2, <2>1, <2>2, <2>3
<1> QED BY <1>1, <1>2 DEF Stack!HeightsClose, Stack!Subs, Subs

-----------------------------------------------------------------------------
\* The coupled structures.

CO == INSTANCE Coupled2D_proofs WITH Depth <- 2, MaxItems <- 5, pushed <- linkedItems,
                                     empty <- notempty

LEMMA CoupledConstantsHold == CO!CoupledConstants
  BY WindowAssumption DEF CO!CoupledConstants

LEMMA CoupledSame == /\ Coupled!Init => CO!Init
                     /\ Coupled!Next => CO!Next
<1>1. Coupled!Init => CO!Init
  BY SMTT(30) DEF Coupled!Init, CO!Init, Coupled!Designs, CO!Designs, Coupled!stack_2Dc, CO!stack_2Dc,
     Coupled!counter_2Dc, CO!counter_2Dc, Coupled!stack_optimized, CO!stack_optimized,
     Coupled!window_2Dc, CO!window_2Dc, Coupled!window_optimized, CO!window_optimized,
     Coupled!Subs, CO!Subs
<1>2. Coupled!Next => CO!Next
  BY DEF
     Coupled!Next, CO!Next, Coupled!Observe, CO!Observe, Coupled!Direction,
     CO!Direction, Coupled!push, CO!push, Coupled!pop, CO!pop, Coupled!OpStep,
     CO!OpStep, Coupled!Search, CO!Search, Coupled!PushCAE, CO!PushCAE,
     Coupled!PopEmpty, CO!PopEmpty, Coupled!PopCAE, CO!PopCAE, Coupled!Enter, CO!Enter,
     Coupled!ReadWindow, CO!ReadWindow, Coupled!ReadVersion, CO!ReadVersion,
     Coupled!ReadDesc, CO!ReadDesc, Coupled!Sync, CO!Sync, Coupled!Valid, CO!Valid,
     Coupled!HopOn, CO!HopOn, Coupled!RoundEnds, CO!RoundEnds, Coupled!MayShift,
     CO!MayShift, Coupled!Shift, CO!Shift, Coupled!Goto, CO!Goto, Coupled!Set, CO!Set,
     Coupled!Current, CO!Current, Coupled!Restart, CO!Restart, Coupled!Hop, CO!Hop,
     Coupled!InWindow, CO!InWindow, Coupled!NewMax, CO!NewMax, Coupled!Leave, CO!Leave,
     Coupled!Retry, CO!Retry, Coupled!count, CO!count, Coupled!Subs, CO!Subs,
     Coupled!searchVars, CO!searchVars, Coupled!itemVars, CO!itemVars
<1> QED BY <1>1, <1>2

LEMMA CoupledKeeps ==
  ASSUME CO!CoupledInv, Coupled!Next \/ UNCHANGED CO!vars
  PROVE  CO!CoupledInv'
<1>1. [CO!Next]_(CO!vars)
  BY CoupledSame
<1> QED BY <1>1, CoupledConstantsHold, CO!CoupledSteps

LEMMA CoupledProperties ==
  ASSUME CO!CoupledInv
  PROVE  Coupled!ShiftAsserted /\ Coupled!WindowBounds /\ Coupled!ShiftsNotUndone
<1>1. CO!ShiftAsserted /\ CO!WindowBounds /\ CO!ShiftsNotUndone
  BY CoupledConstantsHold, CO!CoupledMeans
<1> QED BY <1>1 DEF Coupled!ShiftAsserted, CO!ShiftAsserted, Coupled!WindowBounds,
   CO!WindowBounds, Coupled!ShiftsNotUndone, CO!ShiftsNotUndone, Coupled!NewMax, CO!NewMax,
   Coupled!Subs, CO!Subs, Coupled!count, CO!count

-----------------------------------------------------------------------------
\* Sizing.  What create_ computed, once it has returned.
SizingInv ==
  /\ structure \in Sizes!Structures
  /\ options \in Sizes!Options
  /\ sized # Sizes!NotYet =>
       LET z == Sizes!Sized(structure.factor, options)
       IN  sized = [width |-> z.width, depth |-> z.depth, bound |-> z.bound,
                    allocated |-> Sizes!Allocated(structure, options, z.width)]

\* Division rounds down.
LEMMA Division ==
  ASSUME NEW k \in Nat, NEW m \in Nat \ {0}
  PROVE  k \div m \in Nat /\ m * (k \div m) <= k /\ k < m * ((k \div m) + 1)
  OBVIOUS

LEMMA Products ==
  ASSUME NEW a \in Nat, NEW b \in Nat, NEW c \in Nat
  PROVE  /\ a * b \in Nat /\ a * b = b * a /\ (a * b) * c = a * (b * c)
         /\ (a * b) * c = (a * c) * b
         /\ a > 0 /\ b > 0 => a * b > 0
         /\ b <= c => a * b <= a * c
  OBVIOUS

\* The width is given: the depth is rounded down, or the structure made narrower.
LEMMA WidthGiven ==
  ASSUME NEW c \in Nat \ {0}, NEW w \in Nat \ {0}, NEW k \in Nat,
         NEW z, z = Sizes!FromWidth(c, w, k)
  PROVE  /\ z.width \in Nat /\ z.depth \in Nat /\ z.width >= 1
         /\ c * z.depth * (z.width - 1) <= k
         /\ c * z.depth * (z.width - 1) <= z.bound
         /\ z.width > 1 => c * (z.depth + 1) * (z.width - 1) > k
<1>1. CASE w < 2
  <2>1. z.width = 1 /\ z.depth = k /\ z.bound = 0
    BY <1>1 DEF Sizes!FromWidth, Sizes!Size
  <2>2. c * k * 0 = 0
    BY Products
  <2> QED BY <2>1, <2>2
<1>2. CASE w >= 2
  <2> DEFINE m == c * (w - 1)
             d == k \div m
  <2>1. m \in Nat \ {0}
    BY <1>2, Products
  <2>2. d \in Nat /\ m * d <= k /\ k < m * (d + 1)
    BY <2>1, Division
  <2>3. CASE d < 1
    <3> DEFINE e == k \div c
    <3>1. e \in Nat /\ c * e <= k /\ k < c * (e + 1)
      BY Division
    <3>2. z = Sizes!Size(e + 1, 1, k)
      BY <1>2, <2>3 DEF Sizes!FromWidth
    <3> HIDE DEF e, d, m
    <3>3. z.width = e + 1 /\ z.depth = 1 /\ z.bound = k
      BY <3>2 DEF Sizes!Size
    <3>4. c * 1 * e = c * e
      BY <3>1
    <3>5. ASSUME e + 1 > 1 PROVE c * 2 * e > k
      <4>1. 2 * e \in Nat /\ e + 1 <= 2 * e
        BY <3>1, <3>5
      <4>2. c * 2 * e = c * (2 * e)
        BY <3>1, Products
      <4>3. c * (e + 1) <= c * (2 * e)
        BY <3>1, <4>1, Products
      <4>4. c * (e + 1) \in Nat /\ c * (2 * e) \in Nat
        BY <3>1, <4>1, Products
      <4> QED BY <3>1, <4>2, <4>3, <4>4
    <3>6. z.width - 1 = e /\ z.depth + 1 = 2
      BY <3>1, <3>3
    <3> QED BY <3>1, <3>3, <3>4, <3>5, <3>6
  <2>4. CASE ~ (d < 1)
    <3>1. z = Sizes!Size(w, d, k)
      BY <1>2, <2>4 DEF Sizes!FromWidth
    <3> HIDE DEF d
    <3>2. z.width = w /\ z.depth = d /\ z.bound = k
      BY <3>1 DEF Sizes!Size
    <3>3. c * d * (w - 1) = m * d
      BY <1>2, <2>2, Products
    <3>4. c * (d + 1) * (w - 1) = m * (d + 1)
      BY <1>2, <2>2, Products
    <3> HIDE DEF m
    <3> QED BY <1>2, <2>1, <2>2, <3>2, <3>3, <3>4
  <2> QED BY <2>3, <2>4
<1> QED BY <1>1, <1>2

\* The depth is given: the width is rounded down.
DepthKept(c, z, k) == /\ z.width \in Nat /\ z.depth \in Nat /\ z.width >= 1 /\ z.bound = k
                      /\ c * z.depth * (z.width - 1) <= k
                      /\ c * z.depth * z.width > k

LEMMA DepthGiven ==
  ASSUME NEW c \in Nat \ {0}, NEW d \in Nat \ {0}, NEW k \in Nat
  PROVE  DepthKept(c, Sizes!FromDepth(c, d, k), k)
<1> DEFINE m == c * d
           e == k \div m
           z == Sizes!FromDepth(c, d, k)
<1>1. m \in Nat \ {0}
  BY Products
<1>2. e \in Nat /\ m * e <= k /\ k < m * (e + 1)
  BY <1>1, Division
<1>3. z.width = e + 1 /\ z.depth = d /\ z.bound = k
  BY DEF Sizes!FromDepth, Sizes!Size
<1> HIDE DEF e, z
<1>4. z.width - 1 = e
  BY <1>2, <1>3
<1>5. DepthKept(c, z, k)
  BY <1>2, <1>3, <1>4 DEF DepthKept
<1> QED BY <1>5 DEF z

\* Both are given: the bound follows.
LEMMA BothGiven ==
  ASSUME NEW c \in Nat \ {0}, NEW w \in Nat \ {0}, NEW d \in Nat \ {0},
         NEW z, z = Sizes!FromBoth(c, w, d)
  PROVE  /\ z.width \in Nat /\ z.depth \in Nat /\ z.width >= 1
         /\ c * z.depth * (z.width - 1) <= z.bound
<1>1. z.width = w /\ z.depth = d /\ z.bound = c * d * (w - 1)
  BY DEF Sizes!FromBoth, Sizes!Size
<1>2. c * d * (w - 1) \in Nat
  BY Products
<1> QED BY <1>1, <1>2

-----------------------------------------------------------------------------
\* The invariant of the suite: each system keeps its own.
SuiteInv == /\ sys = "queue" => QueueInv /\ RankInv /\ \A t \in Threads : SeenInv(t)
            /\ sys = "optimized" => OptInv /\ RankInv
            /\ sys = "counter" => CP!CounterInv
            /\ sys = "stack" => StackInv
            /\ sys = "coupled" => CO!CoupledInv
            /\ sys = "sizing" => SizingInv

LEMMA SuiteStarts == SuiteInit => SuiteInv
<1> SUFFICES ASSUME SuiteInit PROVE SuiteInv
  OBVIOUS
<1>1. sys = "queue" => Init
  BY DEF SuiteInit
<1>2. sys = "optimized" => OptInit
  BY DEF SuiteInit
<1>3. sys = "counter" => Counter!Init
  BY DEF SuiteInit
<1>4. sys = "stack" => Stack!Init
  BY DEF SuiteInit
<1>5. sys = "coupled" => Coupled!Init
  BY DEF SuiteInit
<1>6. sys = "sizing" => Sizes!Init
  BY DEF SuiteInit
<1>7. sys = "sizing" => SizingInv
  BY <1>6 DEF SizingInv, Sizes!Init
<1>8. sys = "queue" => QueueInv /\ RankInv /\ \A t \in Threads : SeenInv(t)
  BY <1>1, InitKeeps, InitSeen, InitRank
<1>9. sys = "optimized" => OptInv /\ RankInv
  BY <1>2, OptInitInv, InitRank DEF OptInit
<1>10. sys = "coupled" => CO!CoupledInv
  BY <1>5, CoupledSame, CoupledConstantsHold, CO!CoupledStarts
<1> QED BY <1>3, <1>4, <1>7, <1>8, <1>9, <1>10, CounterStarts, StackStarts DEF SuiteInv

LEMMA SuiteSteps == SuiteInv /\ [SuiteNext]_allVars => SuiteInv'
<1> SUFFICES ASSUME SuiteInv, [SuiteNext]_allVars PROVE SuiteInv'
  OBVIOUS
<1>0. sys' = sys
  BY DEF SuiteNext, allVars
<1>1. sys = "queue" => [Next]_vars
  BY DEF SuiteNext, allVars, optVars
<1>2. sys = "optimized" => [OptNext]_optVars
  BY DEF SuiteNext, allVars
<1>3. sys = "counter" => Counter!Next \/ UNCHANGED CP!vars
  BY DEF SuiteNext, allVars, optVars, vars, windowVars, queueVars, globalVars, searchVars,
         CP!vars, CP!windowVars, CP!globalVars, CP!searchVars
<1>4. sys = "stack" => Stack!Next \/ UNCHANGED Stack!vars
  BY DEF SuiteNext, allVars, optVars, vars, windowVars, queueVars, globalVars, searchVars,
         Stack!vars, Stack!windowVars, Stack!globalVars, Stack!searchVars, Stack!stackVars
<1>5. sys = "coupled" => Coupled!Next \/ UNCHANGED CO!vars
  BY DEF SuiteNext, allVars, optVars, vars, windowVars, queueVars, globalVars, searchVars,
         coupledVars, CO!vars, CO!searchVars, CO!itemVars
<1>6. sys = "sizing" => Sizes!create \/ UNCHANGED sizingVars
  BY DEF SuiteNext, allVars
<1>7. sys = "queue" => QueueInv' /\ RankInv' /\ \A t \in Threads : SeenInv(t)'
  BY <1>1, QueueStep, RankStep DEF SuiteInv
<1>8. sys = "optimized" => OptInv' /\ RankInv'
  BY <1>2, OptStepInv, OptRankStep DEF SuiteInv
<1>9. sys = "counter" => CP!CounterInv'
  BY <1>3, CounterMoves, CounterStays DEF SuiteInv
<1>10. sys = "stack" => StackInv'
  BY <1>4, StackSteps DEF SuiteInv
<1>11. sys = "coupled" => CO!CoupledInv'
  BY <1>5, CoupledKeeps DEF SuiteInv
<1>12. sys = "sizing" => SizingInv'
  BY <1>6 DEF SuiteInv, SizingInv, Sizes!create, sizingVars
<1> QED BY <1>0, <1>7, <1>8, <1>9, <1>10, <1>11, <1>12 DEF SuiteInv

\* SuiteInv is an invariant of the suite.
THEOREM SuiteCorrect == SuiteSpec => []SuiteInv
<1> QED BY SuiteStarts, SuiteSteps, PTL DEF SuiteSpec

LEMMA CounterMeans ==
  CP!CounterInv => Counter!NeverNegative /\ PutWindowExact /\ GetWindowFollows
<1>1. CP!CounterInv => CP!NeverNegative /\ CP!PutWindowExact /\ CP!GetWindowFollows
  BY CounterConstants, CP!CounterProperties
<1> QED BY <1>1 DEF Counter!NeverNegative, CP!NeverNegative, PutWindowExact, CP!PutWindowExact,
                    GetWindowFollows, CP!GetWindowFollows, Subs, CP!Subs, Counter!Subs

\* The windows of the optimized queue, of the counter and of the stack stay exact,
\* although the optimized queue guesses the put counts from a copy of the put window.
THEOREM WindowsAlwaysHold == SuiteSpec => []WindowsHold
<1>1. SuiteInv => WindowsHold
  <2> SUFFICES ASSUME SuiteInv PROVE WindowsHold
    OBVIOUS
  <2>1. sys = "optimized" => PutWindowExact /\ GetWindowFollows /\ CountsFollowList
    BY WindowsCorrect, QueueProperties DEF SuiteInv, OptInv, QueueInv, TypeOK
  <2>2. sys = "counter" => PutWindowExact /\ GetWindowFollows
    BY CounterMeans DEF SuiteInv
  <2>3. sys = "stack" => PutWindowExact /\ GetWindowFollows
    BY StackMeans DEF SuiteInv
  <2> QED BY <2>1, <2>2, <2>3 DEF WindowsHold
<1> QED BY <1>1, SuiteCorrect, PTL

\* No dequeue moves a head beyond the last node: also not one of the optimized queue
\* that skipped the test for empty because its get window is behind its copy of the
\* put window.
THEOREM SwingAlwaysFinds == SuiteSpec => []SwingFinds
<1>1. SuiteInv => SwingFinds
  BY QueueProperties DEF SuiteInv, OptInv, SwingFinds, OfQueue
<1> QED BY <1>1, SuiteCorrect, PTL

\* No partial counter goes below zero.
THEOREM CounterAboveZero == SuiteSpec => []NeverBelowZero
<1>1. SuiteInv => NeverBelowZero
  BY CounterMeans DEF SuiteInv, NeverBelowZero
<1> QED BY <1>1, SuiteCorrect, PTL

\* The ten create_ functions stay within the relaxation bound asked for, and use it up
\* as far as the rounding allows.
THEOREM SizesRespectBound == SuiteSpec => []SizedWell
<1>1. SuiteInv => SizedWell
  <2> SUFFICES ASSUME SizingInv, sized # Sizes!NotYet
               PROVE  Sizes!BoundKept /\ Sizes!BoundUsed
    BY DEF SuiteInv, SizedWell, Sizes!BoundKept, Sizes!BoundUsed
  <2> DEFINE c == structure.factor
             o == options
             z == Sizes!Sized(c, o)
             k == o.relaxation_bound
  <2>1. c \in Nat \ {0}
    BY DEF SizingInv, Sizes!Structures, Sizes!twoDd_queue, Sizes!twoDd_queue_optimized,
           Sizes!twoDd_queue_law, Sizes!twoDd_queue_lpw, Sizes!twoDd_stack,
           Sizes!twoDd_counter, Sizes!twoDc_stack, Sizes!twoDc_stack_optimized,
           Sizes!twoDc_stack_lpw, Sizes!twoDc_counter
  <2>2. /\ o.num_threads \in Nat \ {0} /\ o.width \in Nat \ {0} /\ o.depth \in Nat
        /\ o.k_mode \in 0..3 /\ k \in Nat /\ o.max_width \in Nat
        /\ o.k_mode \in {0, 2} => o.depth \in Nat \ {0}
    BY DEF SizingInv, Sizes!Options
  <2>3. /\ sized.width = z.width /\ sized.depth = z.depth /\ sized.bound = z.bound
        /\ sized.allocated = Sizes!Allocated(structure, o, z.width)
    BY DEF SizingInv
  <2>4. o.num_threads * o.width \in Nat \ {0}
    BY <2>2, Products
  <2> HIDE DEF c, o
  <2>5. /\ z.width \in Nat /\ z.depth \in Nat /\ z.width >= 1
        /\ c * z.depth * (z.width - 1) <= z.bound
        /\ o.k_mode # 0 => c * z.depth * (z.width - 1) <= k
        /\ o.k_mode # 0 /\ z.width > 1 =>
             IF o.k_mode = 2 THEN c * z.depth * z.width > k
                             ELSE c * (z.depth + 1) * (z.width - 1) > k
    <3>1. CASE o.k_mode = 0
      <4>1. z = Sizes!FromBoth(c, o.width, o.depth)
        BY <3>1 DEF Sizes!Sized
      <4> HIDE DEF z
      <4> QED BY <2>1, <2>2, <3>1, <4>1, BothGiven
    <3>2. CASE o.k_mode = 1
      <4>1. z = Sizes!FromWidth(c, o.width, k)
        BY <3>2 DEF Sizes!Sized
      <4> HIDE DEF z, k
      <4>2. /\ z.width \in Nat /\ z.depth \in Nat /\ z.width >= 1
            /\ c * z.depth * (z.width - 1) <= k
            /\ c * z.depth * (z.width - 1) <= z.bound
            /\ z.width > 1 => c * (z.depth + 1) * (z.width - 1) > k
        BY <2>1, <2>2, <4>1, WidthGiven
      <4> QED BY <3>2, <4>2
    <3>3. CASE o.k_mode = 2
      <4>1. z = Sizes!FromDepth(c, o.depth, k)
        BY <3>3 DEF Sizes!Sized
      <4> HIDE DEF z, k
      <4>2. o.depth \in Nat \ {0} /\ k \in Nat
        BY <2>2, <3>3
      <4>3. DepthKept(c, z, k)
        BY <2>1, <4>1, <4>2, DepthGiven
      <4> QED BY <3>3, <4>3 DEF DepthKept
    <3>4. CASE o.k_mode = 3
      <4>1. z = Sizes!FromWidth(c, o.num_threads * o.width, k)
        BY <3>4 DEF Sizes!Sized
      <4> HIDE DEF z, k
      <4>2. /\ z.width \in Nat /\ z.depth \in Nat /\ z.width >= 1
            /\ c * z.depth * (z.width - 1) <= k
            /\ c * z.depth * (z.width - 1) <= z.bound
            /\ z.width > 1 => c * (z.depth + 1) * (z.width - 1) > k
        BY <2>1, <2>2, <2>4, <4>1, WidthGiven
      <4> QED BY <3>4, <4>2
    <3> QED BY <2>2, <3>1, <3>2, <3>3, <3>4
  <2> HIDE DEF z, k
  <2>6. z.width <= sized.allocated
    BY <2>2, <2>3, <2>5 DEF Sizes!Allocated
  <2>7. Sizes!BoundKept
    BY <2>3, <2>5, <2>6 DEF Sizes!BoundKept, Sizes!K, c, o, k
  <2>8. Sizes!BoundUsed
    BY <2>3, <2>5 DEF Sizes!BoundUsed, c, o, k
  <2> QED BY <2>7, <2>8
<1> QED BY <1>1, SuiteCorrect, PTL

\* The sub-stacks of the 2Dd stack stay close in height: get_window leaves no get count
\* more than two windows behind, and put_window keeps the put counts to one.
THEOREM StackStaysLevel == SuiteSpec => []StackHeights
<1>1. SuiteInv => StackHeights
  BY StackMeans DEF SuiteInv, StackHeights
<1> QED BY <1>1, SuiteCorrect, PTL

\* The assertion of get_window in the optimized coupled stack holds, and the test that
\* stands in its place in 2Dc-window.c never fails.
THEOREM CoupledAssertHolds == SuiteSpec => []CoupledAssert
<1>1. SuiteInv => CoupledAssert
  BY CoupledProperties DEF SuiteInv, CoupledAssert
<1> QED BY <1>1, SuiteCorrect, PTL

\* No push of the optimized coupled stack gets more than one shift above the window.
THEOREM CoupledBoundsHold == SuiteSpec => []CoupledBounds
<1>1. SuiteInv => CoupledBounds
  BY CoupledProperties DEF SuiteInv, CoupledBounds
<1> QED BY <1>1, SuiteCorrect, PTL

\* From its second shift without a success on, the coupled window moves one way.
THEOREM CoupledWorkHolds == SuiteSpec => []CoupledWork
<1>1. SuiteInv => CoupledWork
  BY CoupledProperties DEF SuiteInv, CoupledWork
<1> QED BY <1>1, SuiteCorrect, PTL

\* A dequeue of the queue or of the optimized queue that stays inside the get window
\* overtakes at most twice relaxation_bound older items.
THEOREM DequeueInWindow == SuiteSpec => InWindow
<1> DEFINE Good == OfQueue => (\A q \in Subs : get'[q] # get[q] /\ get'[q] <= GW
                                           => RankError(q) <= 2 * K)
<1>1. SuiteInv /\ [SuiteNext]_allVars => [Good]_allVars
  <2> SUFFICES ASSUME SuiteInv, [SuiteNext]_allVars, OfQueue,
                      NEW q \in Subs, get'[q] # get[q], get'[q] <= GW
               PROVE  RankError(q) <= 2 * K
    OBVIOUS
  <2>1. CASE sys = "queue"
    <3>1. [Next]_vars
      BY <2>1 DEF SuiteNext, allVars, optVars
    <3> QED BY <2>1, <3>1, RankProperty DEF SuiteInv
  <2>2. CASE sys = "optimized"
    <3>1. [OptNext]_optVars
      BY <2>2 DEF SuiteNext, allVars
    <3>2. content[q] # << >> /\ get'[q] = get[q] + 1
      BY <2>2, <3>1, OptSwingGets DEF SuiteInv
    <3> QED BY <2>2, <3>2, RankBound DEF SuiteInv, OptInv
  <2> QED BY <2>1, <2>2 DEF OfQueue
<1> HIDE DEF Good
<1>2. SuiteSpec => [][Good]_allVars
  BY <1>1, SuiteCorrect, PTL DEF SuiteSpec
<1> QED BY <1>2 DEF InWindow, Good
=============================================================================
