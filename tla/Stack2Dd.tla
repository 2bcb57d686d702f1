------------------------------- MODULE Stack2Dd -------------------------------
(***************************************************************************)
(* The decoupled 2D stack, src/2Dd-stack/2Dd-stack.c: Treiber sub-stacks,  *)
(* each a top pointer with its two counts in one 16-byte descriptor,       *)
(* behind the put and get windows of Window2Dd (OneArray is TRUE).  The    *)
(* counts only grow, so equal counts mean an equal top.                    *)
(***************************************************************************)
EXTENDS Window2Dd, Sequences

CONSTANT MaxItems      \* bound: number of pushes

VARIABLES content,     \* items of each sub-stack, the top first
          started,     \* push calls so far
          pushed       \* items pushed so far: the next item is pushed + 1

stackVars == <<content, started, pushed>>
vars == <<windowVars, stackVars>>

Items == 1..MaxItems

TypeOK == /\ WindowTypes
          /\ pc \in [Threads -> {"idle"} \cup SearchPCs]
          /\ content \in [Subs -> Seq(Items)]
          /\ started \in 0..MaxItems
          /\ pushed \in 0..MaxItems

Init == /\ WindowInit(0)
        /\ pc = [t \in Threads |-> "idle"]
        /\ content = [q \in Subs |-> << >>]
        /\ started = 0
        /\ pushed = 0

-----------------------------------------------------------------------------
\* the descriptor of thread_index is still the one the search returned
Unchanged(t) == put[idx[t]] = desc[t].put /\ get[idx[t]] = desc[t].get

Push(t) == /\ started < MaxItems
           /\ Goto(t, "idle", "p_enter")
           /\ started' = started + 1
           /\ UNCHANGED <<globalVars, searchVars, content, pushed>>

\* do_cae in push
PushCAE(t) ==
  /\ pc[t] = "p_done"
  /\ IF Unchanged(t)
     THEN /\ put' = [put EXCEPT ![idx[t]] = @ + 1]
          /\ content' = [content EXCEPT ![idx[t]] = <<pushed + 1>> \o @]
          /\ pushed' = pushed + 1
          /\ Leave(t)
     ELSE Retry(t, "p_enter", TRUE) /\ UNCHANGED <<put, content, pushed>>
  /\ UNCHANGED <<get, PW, GW, started>>

Pop(t) == /\ Goto(t, "idle", "g_enter")
          /\ UNCHANGED <<globalVars, searchVars, stackVars>>

\* do_cae in pop
PopCAE(t) ==
  /\ pc[t] = "g_done"
  /\ desc[t].put # desc[t].get
  /\ IF Unchanged(t)
     THEN /\ get' = [get EXCEPT ![idx[t]] = @ + 1]
          /\ content' = [content EXCEPT ![idx[t]] = Tail(@)]
          /\ Leave(t)
     ELSE Retry(t, "g_enter", TRUE) /\ UNCHANGED <<get, content>>
  /\ UNCHANGED <<put, PW, GW, started, pushed>>

\* descriptor.node == NULL: return 0
PopEmpty(t) == /\ pc[t] = "g_done"
               /\ desc[t].put = desc[t].get
               /\ Leave(t)
               /\ UNCHANGED <<globalVars, stackVars>>

\* Mutation: the put window shifts as soon as one sub-stack is full.
OpStepEarly(t) ==
  \/ (PutNoneEarly(t) \/ PutSearch(t) \/ GetSearch(t)) /\ UNCHANGED stackVars
  \/ PushCAE(t) \/ PopCAE(t) \/ PopEmpty(t)

\* the rest of a push or pop
OpStep(t) == \/ (PutSearch(t) \/ GetSearch(t)) /\ UNCHANGED stackVars
             \/ PushCAE(t) \/ PopCAE(t) \/ PopEmpty(t)

Next == \E t \in Threads : Push(t) \/ Pop(t) \/ OpStep(t)

Spec == Init /\ [][Next]_vars

-----------------------------------------------------------------------------
\* Properties

\* What relaxation_bound = 3 * depth * (width - 1) of create_stack rests on: one Depth
\* for the pushes and two for the pops.  No sub-stack is more than 3 * Depth higher than
\* one whose pops have stayed inside the get window, however late pushes and pops act
\* on the windows they have read.  (A pop that has seen every sub-stack empty pops from
\* the last one all the same if it has been filled since, whatever the window.)
HeightsClose == \A q, r \in Subs : get[r] <= GW =>
                  Len(content[q]) <= Len(content[r]) + 3 * Depth
=============================================================================
