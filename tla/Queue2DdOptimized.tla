-------------------------- MODULE Queue2DdOptimized --------------------------
(***************************************************************************)
(* The optimized 2Dd queue, src/2Dd-queue_optimized with its own           *)
(* 2Dd-window_optimized.c: the sub-queues and the put search of Queue2Dd,  *)
(* and a get search that avoids reading the tails.  A dequeue takes a copy *)
(* of the put window when it starts; as long as its get window is behind   *)
(* that copy, it takes every put count to be at least the copy minus depth *)
(* and dequeues without the test for empty.                                *)
(*                                                                         *)
(* put_window and get_window leave thread_put_index = thread_get_index, so *)
(* one index is enough.                                                    *)
(***************************************************************************)
EXTENDS Queue2Dd

VARIABLE pwin          \* thread_PWindow.max during a dequeue

optVars == <<vars, pwin>>

OptInit == Init /\ pwin = [t \in Threads |-> 0]

-----------------------------------------------------------------------------
\* put_window: after a shift the compare-and-exchange leaves the window as it is
\* in thread_PWindow, and the search goes on at once.
OptPutShift(t) ==
  /\ Goto(t, "p_shift", "p_desc")
  /\ PW' = IF PW = win[t] THEN PW + Depth ELSE PW
  /\ win' = [win EXCEPT ![t] = PW']
  /\ hops' = [hops EXCEPT ![t] = 0]
  /\ notempty' = [notempty EXCEPT ![t] = FALSE]
  /\ UNCHANGED <<put, get, GW, idx, contention, random, desc, tailCount>>

-----------------------------------------------------------------------------
\* get_window

\* what the copy of the put window tells about every put count
KnownPuts(t) == pwin[t] - Depth

OptGetReadCount(t) ==
  /\ Goto(t, "g_count", "g_window")
  /\ tailCount' = [tailCount EXCEPT ![t] = IF win[t] < pwin[t] THEN KnownPuts(t)
                                                               ELSE put[idx[t]]]
  /\ UNCHANGED <<globalVars, idx, win, contention, hops, random, notempty, desc>>

OptSeesItem(t) == desc[t].get < tailCount[t]
OptCanGet(t) == desc[t].get < GW /\ OptSeesItem(t)

OptGetValid(t) == /\ GW = win[t]
                  /\ OptCanGet(t)
                  /\ Goto(t, "g_window", "g_done")
                  /\ UNCHANGED <<globalVars, searchVars>>

OptGetHop(t) == /\ GW = win[t]
                /\ ~ OptCanGet(t)
                /\ hops[t] # Width
                /\ Goto(t, "g_window", "g_desc")
                /\ notempty' = [notempty EXCEPT ![t] = @ \/ OptSeesItem(t)]
                /\ Hop(t)
                /\ UNCHANGED <<globalVars, win, contention, desc, tailCount>>

OptGetRound(t) == /\ GW = win[t]
                  /\ ~ OptCanGet(t)
                  /\ hops[t] = Width
                  /\ Goto(t, "g_window", IF notempty[t] THEN "g_shift" ELSE "g_behind")
                  /\ UNCHANGED <<globalVars, searchVars>>

\* Mutation: empty as soon as no item was seen.
OptGetBehindNot(t) == /\ Goto(t, "g_behind", "g_done")
                      /\ UNCHANGED <<globalVars, searchVars>>

\* thread_GWindow.max != global_PWindow.content.max: shift, or return empty
OptGetBehind(t) == /\ Goto(t, "g_behind", IF win[t] # PW THEN "g_shift" ELSE "g_done")
                   /\ UNCHANGED <<globalVars, searchVars>>

OptGetShift(t) ==
  /\ Goto(t, "g_shift", "g_desc")
  /\ GW' = IF GW = win[t] THEN GW + Depth ELSE GW
  /\ win' = [win EXCEPT ![t] = GW']
  /\ hops' = [hops EXCEPT ![t] = 0]
  /\ notempty' = [notempty EXCEPT ![t] = FALSE]
  /\ UNCHANGED <<put, get, PW, idx, contention, random, desc, tailCount>>

OptSearch(t) ==
  \/ PutEnter(t) \/ PutReadDesc(t) \/ PutSync(t) \/ PutValid(t) \/ PutHop(t) \/ PutNone(t)
  \/ OptPutShift(t)
  \/ GetEnter(t) \/ GetReadDesc(t) \/ OptGetReadCount(t) \/ GetSync(t) \/ OptGetValid(t)
  \/ OptGetHop(t) \/ OptGetRound(t) \/ OptGetBehind(t) \/ OptGetShift(t)

-----------------------------------------------------------------------------
\* enqueue: the double check comes before the test of tail->next
OptEnqCheck(t) ==
  /\ Goto(t, "p_done", IF put[idx[t]] >= win[t] THEN "p_enter" ELSE "e_check")
  /\ UNCHANGED <<globalVars, searchVars, queueVars>>

OptEnqNext(t) ==
  /\ Goto(t, "e_check", IF Linked(idx[t]) = desc[t].put THEN "e_link" ELSE "e_help")
  /\ UNCHANGED <<globalVars, searchVars, queueVars>>

\* dequeue
OptDequeue(t) == /\ Dequeue(t)
                 /\ pwin' = [pwin EXCEPT ![t] = PW]

\* thread_PWindow.max > thread_GWindow.max: goto safe_deq
Safe(t) == pwin[t] > win[t]

OptDeqReadTail(t) ==
  /\ Goto(t, "g_done", IF Safe(t) THEN "d_swing" ELSE "d_check")
  /\ tailCount' = [tailCount EXCEPT ![t] = put[idx[t]]]
  /\ UNCHANGED <<globalVars, idx, win, contention, hops, random, notempty, desc, queueVars>>

-----------------------------------------------------------------------------
OptStep(t) ==
  /\ \/ OptSearch(t) /\ UNCHANGED queueVars
     \/ OptEnqCheck(t) \/ OptEnqNext(t) \/ EnqLink(t) \/ EnqHelp(t) \/ EnqSwing(t)
     \/ OptDeqReadTail(t) \/ DeqEmpty(t) \/ DeqCheck(t) \/ DeqHelp(t) \/ DeqSwing(t)
  /\ pwin' = IF pc'[t] = "idle" THEN [pwin EXCEPT ![t] = 0] ELSE pwin

OptNext == \E t \in Threads : \/ Enqueue(t) /\ UNCHANGED pwin
                              \/ OptDequeue(t) \/ OptStep(t)

=============================================================================
