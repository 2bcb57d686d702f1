------------------------------- MODULE Queue2Dd -------------------------------
(***************************************************************************)
(* The decoupled 2D queue, src/2Dd-queue/2Dd-queue.c: Michael-Scott sub-   *)
(* queues behind the put and get windows of Window2Dd.  Items are numbered *)
(* in the order in which they are linked, the order in which the           *)
(* repository's relaxation analysis numbers them.                          *)
(***************************************************************************)
EXTENDS Window2Dd, Sequences, FiniteSets

CONSTANT MaxItems      \* bound: number of enqueues

ASSUME ItemsAssumption == MaxItems \in Nat

VARIABLES content,     \* items of each sub-queue linked and not yet dequeued
          started,     \* enqueue calls so far
          linkedItems  \* items linked so far: the next item is linkedItems + 1

queueVars == <<content, started, linkedItems>>
vars == <<windowVars, queueVars>>

Items == 1..MaxItems

QueuePCs == {"idle", "e_check", "e_link", "e_help", "e_swing", "d_check",
             "d_help", "d_swing", "g_behind"} \cup SearchPCs

\* nodes ever linked into sub-queue q; node n has no successor iff Linked(q) = n
Linked(q) == get[q] + Len(content[q])

TypeOK == /\ WindowTypes
          /\ pc \in [Threads -> QueuePCs]
          /\ content \in [Subs -> Seq(Items)]
          /\ started \in 0..MaxItems
          /\ linkedItems \in 0..MaxItems

Init == /\ WindowInit(Depth)
        /\ pc = [t \in Threads |-> "idle"]
        /\ content = [q \in Subs |-> << >>]
        /\ started = 0
        /\ linkedItems = 0

-----------------------------------------------------------------------------
\* enqueue

Enqueue(t) == /\ started < MaxItems
              /\ Goto(t, "idle", "p_enter")
              /\ started' = started + 1
              /\ UNCHANGED <<globalVars, searchVars, content, linkedItems>>

\* tail->next == NULL?
EnqNext(t) ==
  /\ Goto(t, "p_done", IF Linked(idx[t]) = desc[t].put THEN "e_check" ELSE "e_help")
  /\ UNCHANGED <<globalVars, searchVars, queueVars>>

\* the double check of put_count
EnqCheck(t) ==
  /\ Goto(t, "e_check", IF put[idx[t]] >= win[t] THEN "p_enter" ELSE "e_link")
  /\ UNCHANGED <<globalVars, searchVars, queueVars>>

\* enq_cas(&tail->next, new_node)
EnqLink(t) ==
  /\ pc[t] = "e_link"
  /\ IF Linked(idx[t]) = desc[t].put
     THEN /\ content' = [content EXCEPT ![idx[t]] = Append(@, linkedItems + 1)]
          /\ linkedItems' = linkedItems + 1
          /\ pc' = [pc EXCEPT ![t] = "e_swing"]
          /\ UNCHANGED searchVars
     ELSE /\ Retry(t, "p_enter", TRUE)
          /\ UNCHANGED <<content, linkedItems>>
  /\ UNCHANGED <<globalVars, started>>

\* Mutation: the count goes up by one whatever it is.
AdvancePutBlind(t, expected) ==
  /\ put' = [put EXCEPT ![idx[t]] = @ + 1]
  /\ UNCHANGED <<get, PW, GW>>

\* CAE(&put_array[thread_index].descriptor, &expected, &new): the count goes up
AdvancePut(t, expected) ==
  /\ put' = IF put[idx[t]] = expected THEN [put EXCEPT ![idx[t]] = @ + 1] ELSE put
  /\ UNCHANGED <<get, PW, GW>>

\* Mutation: does not help, retries.
EnqHelpNot(t) ==
  /\ pc[t] = "e_help"
  /\ Retry(t, "p_enter", FALSE)
  /\ UNCHANGED <<globalVars, queueVars>>

EnqHelp(t) ==
  /\ pc[t] = "e_help"
  /\ AdvancePut(t, desc[t].put)
  /\ Retry(t, "p_enter", put[idx[t]] # desc[t].put)
  /\ UNCHANGED queueVars

EnqSwing(t) ==
  /\ pc[t] = "e_swing"
  /\ AdvancePut(t, desc[t].put)
  /\ Leave(t)
  /\ UNCHANGED queueVars

-----------------------------------------------------------------------------
\* dequeue

Dequeue(t) == /\ Goto(t, "idle", "g_enter")
              /\ UNCHANGED <<globalVars, searchVars, queueVars>>

\* enq_descriptor = put_array[thread_index].descriptor
DeqReadTail(t) ==
  /\ Goto(t, "g_done", "d_check")
  /\ tailCount' = [tailCount EXCEPT ![t] = put[idx[t]]]
  /\ UNCHANGED <<globalVars, idx, win, contention, hops, random, notempty, desc, queueVars>>

\* head == tail and head->next == NULL: return 0
DeqEmpty(t) ==
  /\ pc[t] = "d_check"
  /\ desc[t].get = tailCount[t]
  /\ Linked(idx[t]) = desc[t].get
  /\ Leave(t)
  /\ UNCHANGED <<globalVars, queueVars>>

DeqCheck(t) ==
  /\ \/ /\ desc[t].get = tailCount[t]
        /\ Linked(idx[t]) # desc[t].get
        /\ Goto(t, "d_check", "d_help")
     \/ /\ desc[t].get # tailCount[t]
        /\ Goto(t, "d_check", "d_swing")
  /\ UNCHANGED <<globalVars, searchVars, queueVars>>

DeqHelp(t) ==
  /\ pc[t] = "d_help"
  /\ AdvancePut(t, tailCount[t])
  /\ Retry(t, "g_enter", put[idx[t]] # tailCount[t])
  /\ UNCHANGED queueVars

\* deq_cae
DeqSwing(t) ==
  /\ pc[t] = "d_swing"
  /\ IF get[idx[t]] = desc[t].get
     THEN /\ get' = [get EXCEPT ![idx[t]] = @ + 1]
          /\ content' = [content EXCEPT ![idx[t]] = Tail(@)]
          /\ Leave(t)
     ELSE /\ Retry(t, "g_enter", TRUE)
          /\ UNCHANGED <<get, content>>
  /\ UNCHANGED <<put, PW, GW, started, linkedItems>>

-----------------------------------------------------------------------------
\* Mutation: the put window shifts as soon as one sub-queue is full.
OpStepEarly(t) ==
  \/ (PutNoneEarly(t) \/ PutSearch(t) \/ GetSearch(t)) /\ UNCHANGED queueVars
  \/ EnqNext(t) \/ EnqCheck(t) \/ EnqLink(t) \/ EnqHelp(t) \/ EnqSwing(t)
  \/ DeqReadTail(t) \/ DeqEmpty(t) \/ DeqCheck(t) \/ DeqHelp(t) \/ DeqSwing(t)

\* the rest of an enqueue or dequeue
OpStep(t) == \/ (PutSearch(t) \/ GetSearch(t)) /\ UNCHANGED queueVars
             \/ EnqNext(t) \/ EnqCheck(t) \/ EnqLink(t) \/ EnqHelp(t) \/ EnqSwing(t)
             \/ DeqReadTail(t) \/ DeqEmpty(t) \/ DeqCheck(t) \/ DeqHelp(t) \/ DeqSwing(t)

Next == \E t \in Threads : Enqueue(t) \/ Dequeue(t) \/ OpStep(t)

Spec == Init /\ [][Next]_vars

\* Only one thread is sure to be scheduled.
Runner == CHOOSE t \in Threads : TRUE
LockFreeSpec == Spec /\ WF_vars(OpStep(Runner))

-----------------------------------------------------------------------------
\* Properties

\* A put count follows the list: at most one linked node is not counted yet, and
\* a get count never passes the put count.
CountsFollowList ==
  \A q \in Subs : /\ put[q] \in {Linked(q), Linked(q) - 1}
                  /\ get[q] <= put[q]

\* A dequeue that is about to move the head of a sub-queue it read in this state
\* finds a node behind it (deq_cae would make the head NULL otherwise), although
\* it has compared the head with a tail, or with a window, it read before.
SwingFindsItem ==
  \A t \in Threads : pc[t] = "d_swing" /\ get[idx[t]] = desc[t].get => content[idx[t]] # << >>

\* relaxation_bound of create_queue
K == Depth * (Width - 1)

\* The older items a dequeue from q would overtake.
RankError(q) ==
  Cardinality({x \in Items : /\ x < Head(content[q])
                             /\ \E r \in Subs : \E n \in 1..Len(content[r]) : content[r][n] = x})

\* A dequeue overtakes at most relaxation_bound older items.
OutOfOrderBound == [][\A q \in Subs : get'[q] # get[q] => RankError(q) <= K]_vars

\* A dequeue that stays inside the get window overtakes at most twice as many.
InWindowBound ==
  [][\A q \in Subs : get'[q] # get[q] /\ get'[q] <= GW => RankError(q) <= 2 * K]_vars

\* Operations of one thread end even if the others stop anywhere.
Termination == pc[Runner] # "idle" ~> pc[Runner] = "idle"
=============================================================================
