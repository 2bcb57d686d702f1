----------------------------- MODULE ChoiceQueue -----------------------------
(***************************************************************************)
(* The d-RA queue, queue-dra/queue-dra.c: an array of Michael-Scott        *)
(* sub-queues.  An operation samples NUM_CHOICES sub-queues at random,     *)
(* goes on with the one of the smallest count, and samples again whenever  *)
(* it has to retry.  A dequeue answers empty on the evidence of the one    *)
(* sub-queue it chose.  One action per shared access.                      *)
(*                                                                         *)
(* A node of a sub-queue is its place in the list, 0 the first dummy.  The *)
(* count of a dummy is never written and those of its successors add to    *)
(* it, so the counts of a sub-queue start anywhere.  Nodes are not reused  *)
(* (ssmem, external).                                                      *)
(***************************************************************************)
EXTENDS CallHistory, FiniteSets, Functions

CONSTANTS Threads,
          Width,       \* number of sub-queues
          Choices,     \* the builds: values of NUM_CHOICES, 1 when undefined
          Garbage,     \* what the count of a dummy may be
          MaxPuts,     \* bound: number of enqueue calls
          MaxGets      \* bound: number of dequeue calls

Queues == 0..(Width - 1)

VARIABLES mem,   \* the build, the lists, put_array, get_array, the dummies' counts
          pc, loc, hist

vars == <<mem, pc, loc, hist>>

NoLocals == [val |-> 0, index |-> 0, node |-> 0, samples |-> 0]

\* create_queue
Init == /\ \E c \in Choices, g \in [Queues -> Garbage] :
             mem = [choices |-> c, garbage |-> g, list |-> [q \in Queues |-> << >>],
                    put |-> [q \in Queues |-> 0], get |-> [q \in Queues |-> 0]]
        /\ pc = [p \in Threads |-> "idle"]
        /\ loc = [p \in Threads |-> NoLocals]
        /\ hist = NewHistory(Threads)

Goto(p, from, to) == pc[p] = from /\ pc' = [pc EXCEPT ![p] = to]

Count(q, node)  == mem.garbage[q] + node
IsLast(q, node) == node = Len(mem.list[q])     \* node->next == NULL
Chosen(p)       == mem.list[loc[p].index]

\* One more random index, with the node its end of the sub-queue points to; it
\* replaces the one held if it is better.
Sample(p, ends, Better(_, _, _, _), at, then) ==
  LET l == loc[p]
      more == l.samples + 1 < mem.choices
  IN  /\ Goto(p, at, IF more THEN at ELSE then)
      /\ \E q \in Queues :
           loc' = [loc EXCEPT ![p] =
             [(IF l.samples = 0 \/ Better(q, ends[q], l.index, l.node)
               THEN [l EXCEPT !.index = q, !.node = ends[q]] ELSE l)
              EXCEPT !.samples = IF more THEN @ + 1 ELSE 0]]
      /\ UNCHANGED <<mem, hist>>

\* Nothing but the item is kept for the next round of the loop.
Retry(p) == loc' = [loc EXCEPT ![p] = [NoLocals EXCEPT !.val = loc[p].val]]

\* CAS(&set->put_array[index].node, tail, tail->next)
AdvancePut(p, tail) ==
  mem' = [mem EXCEPT !.put[loc[p].index] = IF @ = tail THEN tail + 1 ELSE @]

-----------------------------------------------------------------------------
Enqueue(p) ==
  /\ Issued(hist) < MaxPuts
  /\ Goto(p, "idle", "e_index")
  /\ hist' = BeginPut(hist)
  /\ loc' = [loc EXCEPT ![p] = [NoLocals EXCEPT !.val = Issued(hist) + 1]]
  /\ UNCHANGED mem

Fewer(q2, node2, q1, node1) == Count(q2, node2) < Count(q1, node1)

get_enqueue_index(p) == Sample(p, mem.put, Fewer, "e_index", "e_next")

EnqNext(p) ==
  /\ Goto(p, "e_next", IF IsLast(loc[p].index, loc[p].node) THEN "e_link" ELSE "e_help")
  /\ UNCHANGED <<mem, loc, hist>>

\* enq_cae
EnqLink(p) ==
  LET free == IsLast(loc[p].index, loc[p].node)
  IN  /\ Goto(p, "e_link", IF free THEN "e_swing" ELSE "e_index")
      /\ IF free
         THEN mem' = [mem EXCEPT !.list[loc[p].index] = Append(@, loc[p].val)] /\ UNCHANGED loc
         ELSE Retry(p) /\ UNCHANGED mem
      /\ UNCHANGED hist

EnqHelp(p) ==
  /\ Goto(p, "e_help", "e_index")
  /\ AdvancePut(p, loc[p].node)
  /\ Retry(p)
  /\ UNCHANGED hist

EnqSwing(p) ==
  /\ Goto(p, "e_swing", "idle")
  /\ AdvancePut(p, loc[p].node)
  /\ hist' = EndPut(hist, loc[p].val)
  /\ loc' = [loc EXCEPT ![p] = NoLocals]

-----------------------------------------------------------------------------
Dequeue(p) ==
  /\ hist.gets < MaxGets
  /\ Goto(p, "idle", "d_index")
  /\ hist' = BeginGet(hist, p)
  /\ loc' = [loc EXCEPT ![p] = NoLocals]
  /\ UNCHANGED mem

FewerOfFilled(q2, node2, q1, node1) ==
  \/ IsLast(q1, node1)
  \/ ~IsLast(q2, node2) /\ Count(q2, node2) < Count(q1, node1)

get_dequeue_index(p) == Sample(p, mem.get, FewerOfFilled, "d_index", "d_tail")

DeqReadTail(p) ==
  /\ Goto(p, "d_tail", IF loc[p].node = mem.put[loc[p].index] THEN "d_last" ELSE "d_swing")
  /\ UNCHANGED <<mem, loc, hist>>

DeqEmpty(p) ==
  /\ IsLast(loc[p].index, loc[p].node)
  /\ Goto(p, "d_last", "idle")
  /\ hist' = EndEmptyOf(hist, p, Range(Chosen(p)))
  /\ loc' = [loc EXCEPT ![p] = NoLocals]
  /\ UNCHANGED mem

DeqLagging(p) ==
  /\ ~IsLast(loc[p].index, loc[p].node)
  /\ Goto(p, "d_last", "d_help")
  /\ UNCHANGED <<mem, loc, hist>>

DeqHelp(p) ==
  /\ Goto(p, "d_help", "d_index")
  /\ AdvancePut(p, loc[p].node)     \* head == tail
  /\ Retry(p)
  /\ UNCHANGED hist

\* deq_cae, then head->next->val
DeqSwing(p) ==
  IF mem.get[loc[p].index] = loc[p].node
  THEN /\ Goto(p, "d_swing", "idle")
       /\ mem' = [mem EXCEPT !.get[loc[p].index] = @ + 1]
       /\ hist' = EndGet(hist, p, Chosen(p)[loc[p].node + 1])
       /\ loc' = [loc EXCEPT ![p] = NoLocals]
  ELSE /\ Goto(p, "d_swing", "d_index")
       /\ Retry(p)
       /\ UNCHANGED <<mem, hist>>

-----------------------------------------------------------------------------
EnqStep(p) == get_enqueue_index(p) \/ EnqNext(p) \/ EnqLink(p) \/ EnqHelp(p) \/ EnqSwing(p)

DeqStep(p) == \/ get_dequeue_index(p) \/ DeqReadTail(p) \/ DeqEmpty(p) \/ DeqLagging(p)
              \/ DeqHelp(p) \/ DeqSwing(p)

Next == \E p \in Threads : Enqueue(p) \/ EnqStep(p) \/ Dequeue(p) \/ DeqStep(p)

Spec == Init /\ [][Next]_vars

-----------------------------------------------------------------------------
\* Each sub-queue is first in, first out, however often an operation changes its mind
\* about the sub-queue and whoever moves the tail (put_array).
SubQueueOrder == \A q \in Queues : InOrderWithin(hist, Range(mem.list[q]))
=============================================================================
