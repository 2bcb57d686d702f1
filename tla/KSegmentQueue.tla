---------------------------- MODULE KSegmentQueue ----------------------------
(***************************************************************************)
(* The k-segment queue, queue-k-segment/queue-q_relaxed-k-segment.c: a     *)
(* list of segments of SegmentSize slots.  An insert takes any free slot   *)
(* of the last segment, a delete any item of the first one; a segment is   *)
(* appended when a walk round the last one found it full and removed when  *)
(* a walk round the first one found it used up.  One action per shared     *)
(* access.                                                                 *)
(*                                                                         *)
(* A segment is its place in the list.  try_create_segment takes the slots *)
(* from ssmem (external) and does not clear them: they are clear when the  *)
(* memory is new and as the last user left them when it is recycled.       *)
(***************************************************************************)
EXTENDS CallHistory, FiniteSets

CONSTANTS Threads,
          SegmentSize, \* segment_size: relaxation_bound + 1
          MaxSegments, \* bound: segments appended
          MaxPuts,     \* bound: number of insert calls
          MaxGets      \* bound: number of delete calls

EMPTY == 0
STALE == MaxPuts + 1   \* the node pointer a recycled slot still holds
NULL  == MaxSegments + 1

Segs  == 0..MaxSegments
Slots == 0..(SegmentSize - 1)

VARIABLES mem, pc, loc, hist
vars == <<mem, pc, loc, hist>>

Clear    == [s \in Slots |-> [node |-> EMPTY, deleted |-> FALSE]]
Recycled == [s \in Slots |-> [node |-> STALE, deleted |-> TRUE]]

NoLocals == [seg |-> 0, slot |-> 0, walk |-> 0, node |-> EMPTY, deleted |-> FALSE,
             pending |-> FALSE, val |-> EMPTY]

Init == /\ mem = [head |-> 0, tail |-> 0, freed |-> {},
                  next |-> [s \in Segs |-> NULL], slots |-> [s \in Segs |-> Clear]]
        /\ pc = [p \in Threads |-> "idle"]
        /\ loc = [p \in Threads |-> NoLocals]
        /\ hist = NewHistory(Threads)

Goto(p, from, to) == pc[p] = from /\ pc' = [pc EXCEPT ![p] = to]

Slot(p) == mem.slots[loc[p].seg][loc[p].slot]

\* push_slot += 1 or pop_slot += 1; past the end it starts again at 0
NextSlot(p) == (loc[p].slot + 1) % SegmentSize

AdvanceTail(p) ==
  mem' = IF mem.tail = loc[p].seg THEN [mem EXCEPT !.tail = mem.next[loc[p].seg]] ELSE mem

-----------------------------------------------------------------------------
\* queue_relaxed_insert

Insert(p) ==
  /\ Issued(hist) < MaxPuts
  /\ Goto(p, "idle", "i_start")
  /\ hist' = BeginPut(hist)
  /\ loc' = [loc EXCEPT ![p] = [NoLocals EXCEPT !.val = Issued(hist) + 1]]
  /\ UNCHANGED mem

\* get_push_slot
PushStart(p) ==
  /\ Goto(p, "i_start", "i_look")
  /\ \E s \in Slots : loc' = [loc EXCEPT ![p].slot = s, ![p].seg = mem.tail, ![p].walk = 0]
  /\ UNCHANGED <<mem, hist>>

PushLook(p) ==
  /\ Goto(p, "i_look", IF Slot(p).node = EMPTY THEN "i_store" ELSE "i_used")
  /\ UNCHANGED <<mem, loc, hist>>

\* Mutation: a segment counts as full one slot too early.
WalkedEarly(p) == loc[p].walk + 1 >= SegmentSize

Walked(p) == loc[p].walk >= SegmentSize

\* the slot is used and the segment is still the last: the next slot
PushHop(p) ==
  /\ mem.tail = loc[p].seg
  /\ Goto(p, "i_used", IF Walked(p) THEN "i_append" ELSE "i_look")
  /\ loc' = [loc EXCEPT ![p].slot = NextSlot(p), ![p].walk = IF Walked(p) THEN @ ELSE @ + 1]
  /\ UNCHANGED <<mem, hist>>

\* it is not: reload (the walk is 0 and then counted up)
PushReload(p) ==
  /\ mem.tail # loc[p].seg
  /\ Goto(p, "i_used", "i_look")
  /\ loc' = [loc EXCEPT ![p].seg = mem.tail, ![p].walk = 1]
  /\ UNCHANGED <<mem, hist>>

\* try_create_segment: CAS(&current_segment->next, NULL, new_segment)
Append_(p) ==
  /\ pc[p] = "i_append"
  /\ mem.next[loc[p].seg] = NULL
  /\ loc[p].seg < MaxSegments
  /\ Goto(p, "i_append", "i_swing")
  /\ \E slots \in {Clear} \cup (IF mem.freed = {} THEN {} ELSE {Recycled}) :
       mem' = [mem EXCEPT !.next[loc[p].seg] = loc[p].seg + 1, !.slots[loc[p].seg + 1] = slots]
  /\ UNCHANGED <<loc, hist>>

\* another thread was first: help move the tail if it has not moved
AppendLost(p) ==
  /\ pc[p] = "i_append"
  /\ mem.next[loc[p].seg] # NULL
  /\ Goto(p, "i_append", IF mem.tail = loc[p].seg THEN "i_swing" ELSE "i_reload")
  /\ UNCHANGED <<mem, loc, hist>>

Swing(p) ==
  /\ Goto(p, "i_swing", "i_reload")
  /\ AdvanceTail(p)
  /\ UNCHANGED <<loc, hist>>

AfterAppend(p) ==
  /\ Goto(p, "i_reload", "i_look")
  /\ loc' = [loc EXCEPT ![p].seg = mem.tail, ![p].walk = 0]
  /\ UNCHANGED <<mem, hist>>

\* enq_cae; otherwise the search starts again
Store(p) ==
  /\ Goto(p, "i_store", IF Slot(p).node = EMPTY THEN "i_ret" ELSE "i_start")
  /\ mem' = [mem EXCEPT !.slots[loc[p].seg][loc[p].slot].node = IF @ = EMPTY THEN loc[p].val ELSE @]
  /\ UNCHANGED <<loc, hist>>

InsertReturn(p) ==
  /\ Goto(p, "i_ret", "idle")
  /\ hist' = EndPut(hist, loc[p].val)
  /\ loc' = [loc EXCEPT ![p] = NoLocals]
  /\ UNCHANGED mem

-----------------------------------------------------------------------------
\* queue_relaxed_delete

Delete(p) ==
  /\ hist.gets < MaxGets
  /\ Goto(p, "idle", "g_start")
  /\ hist' = BeginGet(hist, p)
  /\ loc' = [loc EXCEPT ![p] = NoLocals]
  /\ UNCHANGED mem

\* get_pop_slot
PopStart(p) ==
  /\ Goto(p, "g_start", "g_round")
  /\ \E s \in Slots : loc' = [loc EXCEPT ![p].slot = s, ![p].seg = mem.head, ![p].walk = 0,
                                         ![p].pending = FALSE]
  /\ UNCHANGED <<mem, hist>>

PopCount(p) ==
  /\ ~Walked(p)
  /\ Goto(p, "g_round", "g_look")
  /\ loc' = [loc EXCEPT ![p].walk = @ + 1]
  /\ UNCHANGED <<mem, hist>>

\* walked round the last segment: leave with the slot looked at last
PopNone(p) ==
  /\ Walked(p)
  /\ loc[p].seg = mem.tail
  /\ Goto(p, "g_round", "g_empty")
  /\ UNCHANGED <<mem, loc, hist>>

\* Mutation: a segment is removed although a slot is still to be filled.
PopPendingIgnored(p) ==
  /\ Walked(p)
  /\ loc[p].seg # mem.tail
  /\ Goto(p, "g_round", "g_remove")
  /\ UNCHANGED <<mem, loc, hist>>

\* walked round another one: remove it, unless a slot was seen free
PopPending(p) ==
  /\ Walked(p)
  /\ loc[p].seg # mem.tail
  /\ Goto(p, "g_round", IF loc[p].pending THEN "g_look" ELSE "g_remove")
  /\ UNCHANGED <<mem, loc, hist>>

PopRemove(p) ==
  /\ Goto(p, "g_remove", "g_next")
  /\ mem' = IF mem.head = loc[p].seg
            THEN [mem EXCEPT !.head = mem.next[loc[p].seg], !.freed = @ \cup {loc[p].seg}]
            ELSE mem
  /\ UNCHANGED <<loc, hist>>

PopNext(p) ==
  /\ Goto(p, "g_next", "g_look")
  /\ loc' = [loc EXCEPT ![p].seg = mem.head, ![p].walk = 0]
  /\ UNCHANGED <<mem, hist>>

\* the node and its mark are two loads
PopLook(p) ==
  /\ Goto(p, "g_look", "g_mark")
  /\ loc' = [loc EXCEPT ![p].node = Slot(p).node]
  /\ UNCHANGED <<mem, hist>>

PopMark(p) ==
  /\ Goto(p, "g_mark", IF loc[p].node # EMPTY /\ ~Slot(p).deleted THEN "g_take" ELSE "g_head")
  /\ loc' = [loc EXCEPT ![p].deleted = Slot(p).deleted]
  /\ UNCHANGED <<mem, hist>>

PopHop(p) ==
  /\ loc[p].seg = mem.head
  /\ Goto(p, "g_head", "g_round")
  /\ loc' = [loc EXCEPT ![p].slot = NextSlot(p), ![p].pending = @ \/ loc[p].node = EMPTY]
  /\ UNCHANGED <<mem, hist>>

PopReload(p) ==
  /\ loc[p].seg # mem.head
  /\ Goto(p, "g_head", "g_round")
  /\ loc' = [loc EXCEPT ![p].seg = mem.head, ![p].walk = 0]
  /\ UNCHANGED <<mem, hist>>

\* Mutation: the slot is marked without comparing.
TakeBlind(p) ==
  /\ Goto(p, "g_take", "g_ret")
  /\ mem' = [mem EXCEPT !.slots[loc[p].seg][loc[p].slot].deleted = TRUE]
  /\ loc' = [loc EXCEPT ![p].val = loc[p].node]
  /\ UNCHANGED hist

\* CAS(&current_segment->indices[pop_slot].deleted, 0, 1)
Take(p) ==
  /\ Goto(p, "g_take", IF Slot(p).deleted THEN "g_start" ELSE "g_ret")
  /\ mem' = [mem EXCEPT !.slots[loc[p].seg][loc[p].slot].deleted = TRUE]
  /\ loc' = [loc EXCEPT ![p].val = IF Slot(p).deleted THEN EMPTY ELSE loc[p].node]
  /\ UNCHANGED hist

DeleteReturn(p) ==
  /\ Goto(p, "g_ret", "idle")
  /\ hist' = EndGet(hist, p, loc[p].val)
  /\ loc' = [loc EXCEPT ![p] = NoLocals]
  /\ UNCHANGED mem

DeleteEmpty(p) ==
  /\ Goto(p, "g_empty", "idle")
  /\ hist' = EndEmpty(hist, p)
  /\ loc' = [loc EXCEPT ![p] = NoLocals]
  /\ UNCHANGED mem

-----------------------------------------------------------------------------
PutStep(p) == \/ PushStart(p) \/ PushLook(p) \/ PushHop(p) \/ PushReload(p) \/ Append_(p)
              \/ AppendLost(p) \/ Swing(p) \/ AfterAppend(p) \/ Store(p) \/ InsertReturn(p)

GetStep(p) == \/ PopStart(p) \/ PopCount(p) \/ PopNone(p) \/ PopPending(p) \/ PopRemove(p)
              \/ PopNext(p) \/ PopLook(p) \/ PopMark(p) \/ PopHop(p) \/ PopReload(p)
              \/ Take(p) \/ DeleteReturn(p) \/ DeleteEmpty(p)

Next == \E p \in Threads : Insert(p) \/ PutStep(p) \/ Delete(p) \/ GetStep(p)

Spec == Init /\ [][Next]_vars

\* Every thread is scheduled while it is inside an operation.
FairSpec == Spec /\ \A p \in Threads : WF_vars(PutStep(p)) /\ WF_vars(GetStep(p))

-----------------------------------------------------------------------------
\* The queue is out of order by less than a segment (README.md of the queue:
\* "k out-of-order relaxation"): the items that went in before a returned one
\* and are still inside share its segment.
SegmentOrder == Quiet(hist) =>
  \A x \in hist.got : Cardinality(hist.before[x] \ hist.got) < SegmentSize

\* Once the inserts are over, a delete that was called ends.
DeleteEnds == \A p \in Threads : p \in hist.active ~> p \notin hist.active
=============================================================================
