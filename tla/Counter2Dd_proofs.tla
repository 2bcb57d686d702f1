-------------------------- MODULE Counter2Dd_proofs --------------------------
(***************************************************************************)
(* Proofs about the 2Dd counter for every width, depth, number of threads  *)
(* and of increments.                                                      *)
(***************************************************************************)
EXTENDS Counter2Dd, Window2Dd_proofs

CounterPCs == {"idle"} \cup SearchPCs

CounterInv == /\ WindowTypes
              /\ pc \in [Threads -> CounterPCs]
              /\ CountsInv
              /\ \A t \in Threads : SearchInv(t) /\ SeenInv(t)

-----------------------------------------------------------------------------
\* The locals after the end of an operation, after a failed one and after a call.
LEMMA LocalSteps ==
  ASSUME CounterInv, NEW t \in Threads,
         put' \in [Subs -> Nat], get' \in [Subs -> Nat], UNCHANGED <<PW, GW>>, Grow,
         \/ Leave(t)
         \/ Retry(t, "p_enter", TRUE)
         \/ Retry(t, "g_enter", TRUE)
         \/ \E x \in {"p_enter", "g_enter"} : Goto(t, "idle", x) /\ UNCHANGED searchVars
  PROVE  /\ WindowTypes' /\ pc' \in [Threads -> CounterPCs]
         /\ \A s \in Threads : SearchInv(s)' /\ SeenInv(s)'
<1> DEFINE Out == {"idle", "p_enter", "g_enter"}
           Goal == /\ WindowTypes' /\ pc' \in [Threads -> CounterPCs]
                   /\ pc'[t] \in Out
                   /\ hops'[t] = 0 \/ (hops'[t] = hops[t] /\ random'[t] = random[t])
                   /\ \A s \in Threads \ {t} : SameLocals(s)
<1>0. /\ WindowTypes /\ pc \in [Threads -> CounterPCs] /\ Out \subseteq CounterPCs
      /\ PW' \in Nat /\ GW' \in Nat
  BY DEF CounterInv, CounterPCs, SearchPCs, WindowTypes
<1>1. ASSUME Leave(t) PROVE Goal
  BY <1>0, <1>1, ConstantFacts DEF Leave, WindowTypes, SameLocals, NoDesc
<1>2. ASSUME NEW x \in {"p_enter", "g_enter"}, Retry(t, x, TRUE)
      PROVE  Goal
  BY <1>0, <1>2 DEF Retry, WindowTypes, SameLocals
<1>3. ASSUME NEW x \in {"p_enter", "g_enter"}, Goto(t, "idle", x), UNCHANGED searchVars
      PROVE  Goal
  BY <1>0, <1>3 DEF Goto, searchVars, WindowTypes, SameLocals
<1>4. Goal
  BY <1>1, <1>2, <1>3
<1>5. SearchInv(t)'
  <2>1. HopInv(t)'
    BY <1>4 DEF CounterInv, SearchInv, HopInv
  <2>2. PutInv(t)' /\ GetInv(t)'
    BY <1>4 DEF PutInv, GetInv, PutLoop, GetLoop
  <2> QED BY <2>1, <2>2 DEF SearchInv
<1>6. \A s \in Threads \ {t} : SearchInv(s)'
  BY <1>0, <1>4, OthersStay DEF CounterInv
<1>7. \A s \in Threads : SeenInv(s)'
  BY <1>4 DEF CounterInv, SeenInv, SameLocals
<1> QED BY <1>4, <1>5, <1>6, <1>7

LEMMA QuietKeeps ==
  ASSUME CounterInv, NEW t \in Threads, UNCHANGED globalVars,
         \/ Leave(t)
         \/ Retry(t, "p_enter", TRUE)
         \/ Retry(t, "g_enter", TRUE)
         \/ \E x \in {"p_enter", "g_enter"} : Goto(t, "idle", x) /\ UNCHANGED searchVars
  PROVE  CounterInv'
<1>1. put' \in [Subs -> Nat] /\ get' \in [Subs -> Nat] /\ UNCHANGED <<PW, GW>> /\ Grow
  BY DEF CounterInv, WindowTypes, globalVars, Grow
<1>2. CountsInv'
  BY DEF CounterInv, CountsInv, ShiftsApart, globalVars
<1> QED BY <1>1, <1>2, LocalSteps DEF CounterInv

\* counter_cae in increment: the count the search has read was below the window.
LEMMA IncKeeps ==
  ASSUME CounterInv, NEW t \in Threads, IncCAE(t)
  PROVE  CounterInv'
<1>1. CASE ~ Unchanged(t)
  BY <1>1, QuietKeeps DEF IncCAE, globalVars
<1>2. CASE Unchanged(t)
  <2>0. /\ idx[t] \in Subs /\ put \in [Subs -> Nat] /\ get \in [Subs -> Nat]
        /\ PW \in Nat /\ GW \in Nat /\ Depth \in Nat
        /\ \A q \in Subs : put[q] \in Nat /\ get[q] \in Nat
    BY ConstantFacts DEF CounterInv, WindowTypes
  <2>1. /\ put' = [put EXCEPT ![idx[t]] = @ + 1] /\ UNCHANGED <<get, PW, GW>> /\ Leave(t)
        /\ pc[t] = "p_done"
    BY <1>2 DEF IncCAE
  <2>2. put[idx[t]] < PW
    BY <1>2, <2>1 DEF CounterInv, SearchInv, PutInv, Unchanged
  <2>3. \A q \in Subs : put'[q] = IF q = idx[t] THEN put[q] + 1 ELSE put[q]
    BY <2>0, <2>1
  <2>4. put' \in [Subs -> Nat] /\ get' \in [Subs -> Nat]
    BY <2>0, <2>1
  <2>5. Grow
    BY <2>0, <2>1, <2>3 DEF Grow
  <2>6. CountsInv'
    <3>1. ShiftsApart(PW, GW)'
      BY <2>1 DEF CounterInv, CountsInv, ShiftsApart
    <3>2. ASSUME NEW q \in Subs
          PROVE  PW - Depth <= put'[q] /\ put'[q] <= PW /\ get[q] <= put'[q]
      <4>1. PW - Depth <= put[q] /\ put[q] <= PW /\ get[q] <= put[q]
        BY DEF CounterInv, CountsInv
      <4> QED BY <2>0, <2>2, <2>3, <4>1
    <3> QED BY <2>1, <3>1, <3>2 DEF CounterInv, CountsInv
  <2> QED BY <2>1, <2>4, <2>5, <2>6, LocalSteps DEF CounterInv
<1> QED BY <1>1, <1>2

\* counter_cae in decrement: neither count has moved since they were seen to differ.
LEMMA DecKeeps ==
  ASSUME CounterInv, NEW t \in Threads, DecCAE(t)
  PROVE  CounterInv'
<1>1. CASE ~ Unchanged(t)
  BY <1>1, QuietKeeps DEF DecCAE, globalVars
<1>2. CASE Unchanged(t)
  <2>0. /\ idx[t] \in Subs /\ put \in [Subs -> Nat] /\ get \in [Subs -> Nat]
        /\ PW \in Nat /\ GW \in Nat /\ Depth \in Nat
        /\ \A q \in Subs : put[q] \in Nat /\ get[q] \in Nat
    BY ConstantFacts DEF CounterInv, WindowTypes
  <2>1. /\ get' = [get EXCEPT ![idx[t]] = @ + 1] /\ UNCHANGED <<put, PW, GW>> /\ Leave(t)
        /\ put[idx[t]] # get[idx[t]]
    BY <1>2 DEF DecCAE, Unchanged
  <2>2. get[idx[t]] < put[idx[t]]
    <3>1. get[idx[t]] <= put[idx[t]]
      BY <2>0 DEF CounterInv, CountsInv
    <3> QED BY <2>0, <2>1, <3>1
  <2>3. \A q \in Subs : get'[q] = IF q = idx[t] THEN get[q] + 1 ELSE get[q]
    BY <2>0, <2>1
  <2>4. put' \in [Subs -> Nat] /\ get' \in [Subs -> Nat]
    BY <2>0, <2>1
  <2>5. Grow
    BY <2>0, <2>1, <2>3 DEF Grow
  <2>6. CountsInv'
    <3>1. ShiftsApart(PW, GW)'
      BY <2>1 DEF CounterInv, CountsInv, ShiftsApart
    <3>2. ASSUME NEW q \in Subs
          PROVE  GW - 2 * Depth <= get'[q] /\ get'[q] <= put[q]
      <4>1. GW - 2 * Depth <= get[q] /\ get[q] <= put[q]
        BY DEF CounterInv, CountsInv
      <4>2. get'[q] \in Nat /\ get[q] <= get'[q]
        BY <2>0, <2>3
      <4>3. GW - 2 * Depth <= get'[q]
        BY <2>0, <4>1, <4>2
      <4> QED BY <2>0, <2>2, <2>3, <4>1, <4>3
    <3> QED BY <2>1, <3>1, <3>2 DEF CounterInv, CountsInv
  <2> QED BY <2>1, <2>4, <2>5, <2>6, LocalSteps DEF CounterInv
<1> QED BY <1>1, <1>2

-----------------------------------------------------------------------------
LEMMA CounterInit == Init => CounterInv
<1> SUFFICES ASSUME Init PROVE CounterInv
  OBVIOUS
<1>1. WindowTypes /\ pc \in [Threads -> CounterPCs]
  BY ConstantFacts DEF Init, WindowInit, WindowTypes, CounterPCs, NoDesc
<1>2. CountsInv
  <2>1. ShiftsApart(0, 0)
    <3>1. 0 = 0 + 0 * Depth
      BY ConstantFacts
    <3> QED BY <3>1 DEF ShiftsApart
  <2> QED BY <2>1, ConstantFacts DEF Init, WindowInit, CountsInv
<1>3. ASSUME NEW t \in Threads PROVE SearchInv(t) /\ SeenInv(t)
  <2>1. pc[t] = "idle" /\ hops[t] = 0
    BY DEF Init, WindowInit
  <2> QED BY <2>1 DEF SearchInv, SeenInv, HopInv, PutInv, GetInv, PutLoop, GetLoop
<1> QED BY <1>1, <1>2, <1>3 DEF CounterInv

LEMMA CounterStep ==
  ASSUME CounterInv, [Next]_vars
  PROVE  CounterInv'
<1>1. CASE UNCHANGED vars
  BY <1>1 DEF CounterInv, WindowTypes, CountsInv, ShiftsApart, SearchInv, HopInv, PutInv,
              GetInv, SeenInv, Back, vars, windowVars, globalVars, searchVars
<1>2. ASSUME NEW t \in Threads, Increment(t) \/ Decrement(t) \/ OpStep(t)
      PROVE  CounterInv'
  <2>1. CASE Increment(t) \/ Decrement(t) \/ DecZero(t)
    <3>1. UNCHANGED globalVars
      BY <2>1 DEF Increment, Decrement, DecZero, globalVars
    <3>2. \/ Leave(t)
          \/ \E x \in {"p_enter", "g_enter"} : Goto(t, "idle", x) /\ UNCHANGED searchVars
      BY <2>1 DEF Increment, Decrement, DecZero
    <3> QED BY <3>1, <3>2, QuietKeeps
  <2>2. CASE PutSearch(t) \/ GetSearch(t)
    <3>1. WindowTypes' /\ pc' \in [Threads -> CounterPCs]
      BY <2>2, SearchFrame DEF CounterInv, CounterPCs
    <3>2. CountsInv' /\ \A s \in Threads : SearchInv(s)'
      BY <2>2, SearchKeeps DEF CounterInv, CounterPCs
    <3>3. SeenInv(t)'
      BY <2>2, SeenKeeps DEF CounterInv
    <3>4. \A s \in Threads \ {t} : SameLocals(s)
      BY ZenonT(60), <2>2, SearchFrame DEF CounterInv, CounterPCs
    <3>5. \A s \in Threads : SeenInv(s)'
      BY <3>3, <3>4 DEF CounterInv, SeenInv, SameLocals
    <3> QED BY <3>1, <3>2, <3>5 DEF CounterInv
  <2> QED BY <1>2, <2>1, <2>2, IncKeeps, DecKeeps DEF OpStep
<1> QED BY <1>1, <1>2 DEF Next

\* What the invariant says of the counter.
LEMMA CounterProperties == CounterInv => NeverNegative /\ PutWindowExact /\ GetWindowFollows
<1> SUFFICES ASSUME CounterInv PROVE NeverNegative /\ PutWindowExact /\ GetWindowFollows
  OBVIOUS
<1>1. NeverNegative
  BY DEF CounterInv, CountsInv, NeverNegative
<1> QED BY <1>1, WindowsCorrect DEF CounterInv

LEMMA CounterInvHolds == Spec => []CounterInv
<1>1. CounterInv /\ [Next]_vars => CounterInv'
  BY CounterStep
<1> QED BY <1>1, CounterInit, PTL DEF Spec

\* No partial counter of the 2Dd counter goes below zero: a decrement compares both
\* counts of the descriptor (counter_cae), so two that race for the last unit do not
\* both get it.
THEOREM CounterNeverNegative == Spec => []NeverNegative
<1> QED BY CounterInvHolds, CounterProperties, PTL

\* The windows of the counter: increments are spread over the partial counters to
\* within Depth, and the get window is never ahead of the put window.
THEOREM CounterWindows == Spec => [](PutWindowExact /\ GetWindowFollows)
<1> QED BY CounterInvHolds, CounterProperties, PTL
=============================================================================
