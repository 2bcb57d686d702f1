------------------------------- MODULE Faaaq -------------------------------
(***************************************************************************)
(* The fetch-and-add array queue, faaaq/faaaq.c, and its use as a d-CBO    *)
(* sub-queue (partial-faaaq.c, the same code without its own registration):*)
(* a list of segments of BufferSize slots.  An enqueue claims a slot by    *)
(* incrementing enq_idx and stores into it if no dequeue has been there    *)
(* first; a dequeue claims a slot by incrementing deq_idx and swaps in     *)
(* TAKEN.  One action per shared access.                                   *)
(*                                                                         *)
(* A segment is its node_idx.  The new segment of an enqueue is private    *)
(* until it is linked, so linking it also fills it in.  ssmem (external)   *)
(* does not hand a freed segment out again while a thread that could hold  *)
(* it is inside an operation: segments are not reused.                     *)
(***************************************************************************)
EXTENDS CallHistory, FiniteSets

CONSTANTS Threads,
          BufferSize,  \* BUFFER_SIZE
          MaxPuts,     \* bound: number of enqueue calls
          MaxGets      \* bound: number of dequeue calls

EMPTY == 0
TAKEN == MaxPuts + 1
NULL  == MaxPuts + 1   \* no segment: there are at most MaxPuts + 1 of them

Segs  == 0..MaxPuts
Slots == 0..(BufferSize - 1)

VARIABLES mem,   \* head, tail, the segments, and the freed ones
          pc,
          loc,   \* the locals of each thread
          hist

vars == <<mem, pc, loc, hist>>

\* The copies of the queue: the sub-queue of a d-CBO queue is dequeued from under the
\* double collect, the stand-alone queue is not.
faaaq             == [collects |-> FALSE]
dcbo_faaaq        == [collects |-> TRUE]
simple_dcbo_faaaq == [collects |-> TRUE]
Copies == {faaaq, dcbo_faaaq, simple_dcbo_faaaq}

\* init_faaaq_queue
EmptySegment == [enq |-> 0, deq |-> 0, next |-> NULL, items |-> [s \in Slots |-> EMPTY]]

\* create_segment
create_segment(val) == [EmptySegment EXCEPT !.enq = 1, !.items[0] = val]

NoLocals == [seg |-> 0, idx |-> 0, val |-> EMPTY, ver |-> 0, empty |-> FALSE]

Init == /\ \E copy \in Copies :
             mem = [copy |-> copy, head |-> 0, tail |-> 0, freed |-> {},
                    seg |-> [s \in Segs |-> EmptySegment]]
        /\ pc = [p \in Threads |-> "idle"]
        /\ loc = [p \in Threads |-> NoLocals]
        /\ hist = NewHistory(Threads)

Goto(p, from, to) == pc[p] = from /\ pc' = [pc EXCEPT ![p] = to]

Seg(p) == mem.seg[loc[p].seg]

\* CAE(&q->tail, &tail, &next)
AdvanceTail(p) ==
  mem' = IF mem.tail = loc[p].seg THEN [mem EXCEPT !.tail = loc[p].seg + 1] ELSE mem

\* An index counts at most a full segment, however often it was incremented.
CountUpTo(idx, seg) == (IF idx > BufferSize - 1 THEN BufferSize ELSE idx) + BufferSize * seg

faaaq_enq_count == CountUpTo(mem.seg[mem.tail].enq, mem.tail)

-----------------------------------------------------------------------------
\* faaaq_enqueue

Enqueue(p) ==
  /\ Issued(hist) < MaxPuts
  /\ Goto(p, "idle", "e_tail")
  /\ hist' = BeginPut(hist)
  /\ loc' = [loc EXCEPT ![p] = [NoLocals EXCEPT !.val = Issued(hist) + 1]]
  /\ UNCHANGED mem

EnqReadTail(p) ==
  /\ Goto(p, "e_tail", "e_claim")
  /\ loc' = [loc EXCEPT ![p].seg = mem.tail]
  /\ UNCHANGED <<mem, hist>>

EnqClaim(p) ==
  /\ Goto(p, "e_claim", IF Seg(p).enq > BufferSize - 1 THEN "e_full" ELSE "e_store")
  /\ mem' = [mem EXCEPT !.seg[loc[p].seg].enq = @ + 1]
  /\ loc' = [loc EXCEPT ![p].idx = Seg(p).enq]
  /\ UNCHANGED hist

EnqFull(p) ==
  /\ Goto(p, "e_full", IF loc[p].seg # mem.tail THEN "e_tail" ELSE "e_next")
  /\ UNCHANGED <<mem, loc, hist>>

EnqReadNext(p) ==
  /\ Goto(p, "e_next", IF Seg(p).next = NULL THEN "e_link" ELSE "e_help")
  /\ UNCHANGED <<mem, loc, hist>>

EnqLink(p) ==
  /\ IF Seg(p).next = NULL
     THEN /\ Goto(p, "e_link", "e_swing")
          /\ mem' = [mem EXCEPT !.seg[loc[p].seg].next = loc[p].seg + 1,
                                !.seg[loc[p].seg + 1] = create_segment(loc[p].val)]
     ELSE /\ Goto(p, "e_link", "e_tail")
          /\ UNCHANGED mem
  /\ UNCHANGED <<loc, hist>>

EnqHelp(p) ==
  /\ Goto(p, "e_help", "e_tail")
  /\ AdvanceTail(p)
  /\ UNCHANGED <<loc, hist>>

\* Mutation: the enqueuer of a new segment leaves the tail to others.
EnqSwingNot(p) ==
  /\ Goto(p, "e_swing", "e_ret")
  /\ UNCHANGED <<mem, loc, hist>>

EnqSwing(p) ==
  /\ Goto(p, "e_swing", "e_ret")
  /\ AdvanceTail(p)
  /\ UNCHANGED <<loc, hist>>

\* enq_cae; without success, another slot
EnqStore(p) ==
  /\ Goto(p, "e_store", IF Seg(p).items[loc[p].idx] = EMPTY THEN "e_ret" ELSE "e_tail")
  /\ mem' = [mem EXCEPT !.seg[loc[p].seg].items[loc[p].idx] =
                          IF @ = EMPTY THEN loc[p].val ELSE @]
  /\ UNCHANGED <<loc, hist>>

EnqReturn(p) ==
  /\ Goto(p, "e_ret", "idle")
  /\ hist' = EndPut(hist, loc[p].val)
  /\ loc' = [loc EXCEPT ![p] = NoLocals]
  /\ UNCHANGED mem

-----------------------------------------------------------------------------
\* faaaq_dequeue

\* double_collect, if it is the caller, records the tail version before: the tail is
\* read now, its index in the next step.
Dequeue(p) ==
  /\ hist.gets < MaxGets
  /\ Goto(p, "idle", IF mem.copy.collects THEN "d_version" ELSE "d_head")
  /\ hist' = BeginGet(hist, p)
  /\ loc' = [loc EXCEPT ![p] = [NoLocals EXCEPT !.seg = mem.tail]]
  /\ UNCHANGED mem

DeqVersion(p) ==
  /\ Goto(p, "d_version", "d_head")
  /\ loc' = [loc EXCEPT ![p].ver = CountUpTo(Seg(p).enq, loc[p].seg)]
  /\ UNCHANGED <<mem, hist>>

DeqReadHead(p) ==
  /\ Goto(p, "d_head", "d_deq")
  /\ loc' = [loc EXCEPT ![p].seg = mem.head]
  /\ UNCHANGED <<mem, hist>>

\* head->deq_idx >= head->enq_idx && head->next == NULL, read from the left
DeqReadDeq(p) ==
  /\ Goto(p, "d_deq", "d_enq")
  /\ loc' = [loc EXCEPT ![p].idx = Seg(p).deq]
  /\ UNCHANGED <<mem, hist>>

DeqReadEnq(p) ==
  /\ Goto(p, "d_enq", IF loc[p].idx >= Seg(p).enq THEN "d_last" ELSE "d_claim")
  /\ UNCHANGED <<mem, loc, hist>>

DeqLast(p) ==
  /\ Goto(p, "d_last", IF Seg(p).next = NULL THEN "d_empty" ELSE "d_claim")
  /\ UNCHANGED <<mem, loc, hist>>

DeqClaim(p) ==
  /\ Goto(p, "d_claim", IF Seg(p).deq > BufferSize - 1 THEN "d_next" ELSE "d_swap")
  /\ mem' = [mem EXCEPT !.seg[loc[p].seg].deq = @ + 1]
  /\ loc' = [loc EXCEPT ![p].idx = Seg(p).deq]
  /\ UNCHANGED hist

DeqNext(p) ==
  /\ Goto(p, "d_next", IF Seg(p).next = NULL THEN "d_empty" ELSE "d_swing")
  /\ UNCHANGED <<mem, loc, hist>>

DeqSwing(p) ==
  /\ Goto(p, "d_swing", "d_head")
  /\ mem' = IF mem.head = loc[p].seg
            THEN [mem EXCEPT !.head = loc[p].seg + 1, !.freed = @ \cup {loc[p].seg}]
            ELSE mem
  /\ UNCHANGED <<loc, hist>>

\* deq_swp
DeqSwap(p) ==
  LET item == Seg(p).items[loc[p].idx]
  IN  /\ Goto(p, "d_swap", IF item = EMPTY THEN "d_head" ELSE "d_ret")
      /\ mem' = [mem EXCEPT !.seg[loc[p].seg].items[loc[p].idx] = TAKEN]
      /\ loc' = [loc EXCEPT ![p].val = item]
      /\ UNCHANGED hist

DeqReturn(p) ==
  /\ Goto(p, "d_ret", "idle")
  /\ hist' = EndGet(hist, p, loc[p].val)
  /\ loc' = [loc EXCEPT ![p] = NoLocals]
  /\ UNCHANGED mem

\* Only the recorded version outlives the call.
DeqEmpty(p) ==
  /\ Goto(p, "d_empty", "idle")
  /\ hist' = EndEmpty(hist, p)
  /\ loc' = [loc EXCEPT ![p] = [NoLocals EXCEPT !.ver = loc[p].ver, !.empty = TRUE]]
  /\ UNCHANGED mem

-----------------------------------------------------------------------------
EnqStep(p) == \/ EnqReadTail(p) \/ EnqClaim(p) \/ EnqFull(p) \/ EnqReadNext(p) \/ EnqLink(p)
              \/ EnqHelp(p) \/ EnqSwing(p) \/ EnqStore(p) \/ EnqReturn(p)

DeqStep(p) == \/ DeqVersion(p) \/ DeqReadHead(p) \/ DeqReadDeq(p) \/ DeqReadEnq(p) \/ DeqLast(p)
              \/ DeqClaim(p) \/ DeqNext(p) \/ DeqSwing(p) \/ DeqSwap(p)
              \/ DeqReturn(p) \/ DeqEmpty(p)

Next == \E p \in Threads : Enqueue(p) \/ EnqStep(p) \/ Dequeue(p) \/ DeqStep(p)

Spec == Init /\ [][Next]_vars

-----------------------------------------------------------------------------
\* The items in slots that no dequeue has claimed.
Stored == UNION {{mem.seg[s].items[k] : k \in {k \in Slots : k >= mem.seg[s].deq}}
                   : s \in mem.head..MaxPuts} \ {EMPTY, TAKEN}

\* After a thread has read the tail version and then been answered EMPTY, as long
\* as the version reads the same no returned enqueue has left an item behind.
VersionSound == \A p \in Threads : mem.copy.collects /\ loc[p].empty /\ loc[p].ver = faaaq_enq_count
                                     => Stored \cap hist.done = {}

=============================================================================
