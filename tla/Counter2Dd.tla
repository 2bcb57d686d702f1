------------------------------ MODULE Counter2Dd ------------------------------
(***************************************************************************)
(* The decoupled 2D counter, src/2Dd-counter/2Dd-counter.c: Width partial  *)
(* counters, each a pair of counts in one 16-byte descriptor, behind the   *)
(* put and get windows of Window2Dd (OneArray is TRUE).                    *)
(***************************************************************************)
EXTENDS Window2Dd, Functions

CONSTANT MaxPuts       \* bound: number of increments

VARIABLE started       \* increment calls so far

vars == <<windowVars, started>>

TypeOK == /\ WindowTypes
          /\ pc \in [Threads -> {"idle"} \cup SearchPCs]
          /\ started \in 0..MaxPuts

Init == /\ WindowInit(0)
        /\ pc = [t \in Threads |-> "idle"]
        /\ started = 0

-----------------------------------------------------------------------------
\* Mutation: only the put count is compared.
UnchangedPut(t) == put[idx[t]] = desc[t].put

\* the descriptor of thread_index is still the one the search returned
Unchanged(t) == put[idx[t]] = desc[t].put /\ get[idx[t]] = desc[t].get

Increment(t) == /\ started < MaxPuts
                /\ Goto(t, "idle", "p_enter")
                /\ started' = started + 1
                /\ UNCHANGED <<globalVars, searchVars>>

\* counter_cae in increment
IncCAE(t) ==
  /\ pc[t] = "p_done"
  /\ IF Unchanged(t)
     THEN Leave(t) /\ put' = [put EXCEPT ![idx[t]] = @ + 1]
     ELSE Retry(t, "p_enter", TRUE) /\ UNCHANGED put
  /\ UNCHANGED <<get, PW, GW, started>>

Decrement(t) == /\ Goto(t, "idle", "g_enter")
                /\ UNCHANGED <<globalVars, searchVars, started>>

\* counter_cae in decrement
DecCAE(t) ==
  /\ pc[t] = "g_done"
  /\ desc[t].put # desc[t].get
  /\ IF Unchanged(t)
     THEN Leave(t) /\ get' = [get EXCEPT ![idx[t]] = @ + 1]
     ELSE Retry(t, "g_enter", TRUE) /\ UNCHANGED get
  /\ UNCHANGED <<put, PW, GW, started>>

\* return 0
DecZero(t) == /\ pc[t] = "g_done"
              /\ desc[t].put = desc[t].get
              /\ Leave(t)
              /\ UNCHANGED <<globalVars, started>>

OpStep(t) == \/ (PutSearch(t) \/ GetSearch(t)) /\ UNCHANGED started
             \/ IncCAE(t) \/ DecCAE(t) \/ DecZero(t)

Next == \E t \in Threads : Increment(t) \/ Decrement(t) \/ OpStep(t)

Spec == Init /\ [][Next]_vars

-----------------------------------------------------------------------------
\* Properties

\* A partial counter never goes below zero: two decrements that race for the last
\* unit of a partial counter do not both get it.
NeverNegative == \A q \in Subs : get[q] <= put[q]

=============================================================================
