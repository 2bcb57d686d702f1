-------------------------------- MODULE Lcrq --------------------------------
(***************************************************************************)
(* LCRQ, lcrq/lcrq.c, and its use as a sub-queue (lcrq.c of dcbo-lcrq and  *)
(* of simple-dcbo-lcrq): a list of rings.  Head and tail of a ring are     *)
(* fetched and incremented; ticket t owns cell t mod RingSize when the     *)
(* cell's index allows it.  Bit 63 of the tail closes the ring, bit 63 of  *)
(* a cell's index marks it unsafe.  One action per shared access.          *)
(*                                                                         *)
(* A ring is its place in the list.  A new ring is private until it is     *)
(* linked (one that could not be linked is kept in the handle and written  *)
(* again before its next use), so linking it also fills it in.  A cell is  *)
(* copied in one step: a copy of two halves that never were together only  *)
(* makes the compare-and-exchange that uses it fail.  Rings are not reused *)
(* (ssmem, external).                                                      *)
(***************************************************************************)
EXTENDS CallHistory, FiniteSets, Functions

CONSTANTS Threads,
          RingSizes,   \* the builds: values of LCRQ_RING_SIZE
          CloseTries,  \* attempts to close by compare-and-exchange: 10 in close_crq
          MaxPuts,     \* bound: number of enqueue calls
          MaxGets,     \* bound: number of dequeue calls
          MaxTickets   \* bound: tickets a ring gives out to enqueues; an enqueue and
                       \* a dequeue can chase each other round a ring without end

EMPTY == 0             \* -1 in a cell and as the answer of lcrq_get
NULL  == MaxPuts + 1

Rings == 0..MaxPuts

VARIABLES mem,   \* the build, head, tail, the rings, and the freed ones
          pc, loc, hist
vars == <<mem, pc, loc, hist>>

\* The copies of the queue.  A sub-queue of a d-CBO queue is dequeued from under the
\* double collect, which compares tail versions; the wrapper of the Simple d-CBO queue
\* returns the version as an int, of which only the index in the ring is left.
lcrq             == [collects |-> FALSE, truncates |-> FALSE]
dcbo_lcrq        == [collects |-> TRUE,  truncates |-> FALSE]
simple_dcbo_lcrq == [collects |-> TRUE,  truncates |-> TRUE]
Copies == {lcrq, dcbo_lcrq, simple_dcbo_lcrq}

Cell(val, idx, unsafe) == [val |-> val, idx |-> idx, unsafe |-> unsafe]

\* The cells of a ring of the given size.
Cells(size) == 0..(size - 1)

init_ring(size) == [head |-> 0, tail |-> 0, closed |-> FALSE, next |-> NULL, items_enqueued |-> 0,
                    cell |-> [c \in Cells(size) |-> Cell(EMPTY, c, FALSE)]]

NoVersion == [index |-> 0, items |-> 0]

NoLocals == [rq |-> 0, t |-> 0, cell |-> Cell(EMPTY, 0, FALSE), val |-> EMPTY, tries |-> 0,
             late |-> FALSE, closing |-> FALSE, ver |-> NoVersion, empty |-> FALSE]

\* queue_init
Init == /\ \E copy \in Copies, size \in RingSizes :
             mem = [copy |-> copy, size |-> size, head |-> 0, tail |-> 0, freed |-> {},
                    ring |-> [r \in Rings |-> init_ring(size)]]
        /\ pc = [p \in Threads |-> "idle"]
        /\ loc = [p \in Threads |-> NoLocals]
        /\ hist = NewHistory(Threads)

RingSize == mem.size

Goto(p, from, to) == pc[p] = from /\ pc' = [pc EXCEPT ![p] = to]

Ring(p) == mem.ring[loc[p].rq]
At(p)   == loc[p].t % RingSize       \* t & (RING_SIZE-1)
Now(p)  == Ring(p).cell[At(p)]

\* CAE on the cell of the thread's ticket: does it find what was read?
Same(p) == Now(p) = loc[p].cell
Replaced(p, new) == [mem EXCEPT !.ring[loc[p].rq].cell[At(p)] = IF @ = loc[p].cell THEN new ELSE @]

AdvanceTail(p) ==
  mem' = IF mem.tail = loc[p].rq THEN [mem EXCEPT !.tail = loc[p].rq + 1] ELSE mem

\* (tail_index(tail->tail) & 0xFFFFFFFF) | (tail->items_enqueued << 32)
lcrq_tail_version(r) == [index |-> mem.ring[r].tail, items |-> mem.ring[r].items_enqueued]

\* What double_collect gets to compare; wrapped_tail_version is an int.
PARTIAL_TAIL_VERSION(v) == IF mem.copy.truncates THEN [v EXCEPT !.items = 0] ELSE v

-----------------------------------------------------------------------------
\* lcrq_put

Enqueue(p) ==
  /\ Issued(hist) < MaxPuts
  /\ Goto(p, "idle", "e_tail")
  /\ hist' = BeginPut(hist)
  /\ loc' = [loc EXCEPT ![p] = [NoLocals EXCEPT !.val = Issued(hist) + 1]]
  /\ UNCHANGED mem

EnqReadTail(p) ==
  /\ Goto(p, "e_tail", "e_next")
  /\ loc' = [loc EXCEPT ![p].rq = mem.tail]
  /\ UNCHANGED <<mem, hist>>

EnqReadNext(p) ==
  /\ Goto(p, "e_next", IF Ring(p).next # NULL THEN "e_help" ELSE "e_claim")
  /\ UNCHANGED <<mem, loc, hist>>

EnqHelp(p) ==
  /\ Goto(p, "e_help", "e_tail")
  /\ AdvanceTail(p)
  /\ UNCHANGED <<loc, hist>>

\* FAI_U64(&rq->tail); the closed bit is part of what it returns
EnqClaim(p) ==
  /\ Ring(p).tail < MaxTickets
  /\ Goto(p, "e_claim", IF Ring(p).closed THEN "e_link" ELSE "e_cell")
  /\ mem' = [mem EXCEPT !.ring[loc[p].rq].tail = @ + 1]
  /\ loc' = [loc EXCEPT ![p].t = Ring(p).tail]
  /\ UNCHANGED hist

EnqReadCell(p) ==
  /\ pc[p] = "e_cell"
  /\ pc' = [pc EXCEPT ![p] = IF Now(p).val = EMPTY /\ Now(p).idx <= loc[p].t
                             THEN (IF Now(p).unsafe THEN "e_safe" ELSE "e_store")
                             ELSE "e_full"]
  /\ loc' = [loc EXCEPT ![p].cell = Now(p)]
  /\ UNCHANGED <<mem, hist>>

\* Mutation: a cell marked unsafe is used as it is.
EnqUnsafeUsed(p) ==
  /\ Goto(p, "e_safe", "e_store")
  /\ UNCHANGED <<mem, loc, hist>>

\* an unsafe cell only if no dequeuer can have passed it: rq->head < t
EnqUnsafe(p) ==
  /\ Goto(p, "e_safe", IF Ring(p).head < loc[p].t THEN "e_store" ELSE "e_full")
  /\ UNCHANGED <<mem, loc, hist>>

\* enq_cae
EnqStore(p) ==
  /\ Goto(p, "e_store", IF Same(p) THEN "e_ret" ELSE "e_full")
  /\ mem' = Replaced(p, Cell(loc[p].val, loc[p].t, FALSE))
  /\ UNCHANGED <<loc, hist>>

EnqFull(p) ==
  /\ Goto(p, "e_full", IF loc[p].t >= Ring(p).head + RingSize THEN "e_close" ELSE "e_tail")
  /\ loc' = [loc EXCEPT ![p].tries = IF loc[p].t >= Ring(p).head + RingSize /\ @ < CloseTries
                                     THEN @ + 1 ELSE @]
  /\ UNCHANGED <<mem, hist>>

\* close_crq: if no other ticket was given out since, or, after enough tries, in
\* any case; who closes the ring goes on to link a new one
close_crq(p) ==
  LET may == ~Ring(p).closed /\ (loc[p].tries < CloseTries => Ring(p).tail = loc[p].t + 1)
  IN  /\ Goto(p, "e_close", IF may THEN "e_link" ELSE "e_tail")
      /\ mem' = [mem EXCEPT !.ring[loc[p].rq].closed = @ \/ may]
      /\ UNCHANGED <<loc, hist>>

\* "Solo enqueue" into the new ring, then CAE(&rq->next, &next, &nrq)
EnqLink(p) ==
  /\ Goto(p, "e_link", IF Ring(p).next = NULL THEN "e_swing" ELSE "e_tail")
  /\ mem' = IF Ring(p).next # NULL THEN mem
            ELSE [mem EXCEPT !.ring[loc[p].rq].next = loc[p].rq + 1,
                             !.ring[loc[p].rq + 1] =
                               [init_ring(RingSize) EXCEPT !.tail = 1, !.cell[0] = Cell(loc[p].val, 0, FALSE),
                                                           !.items_enqueued = Ring(p).items_enqueued + loc[p].t]]
  /\ UNCHANGED <<loc, hist>>

EnqSwing(p) ==
  /\ Goto(p, "e_swing", "e_ret")
  /\ AdvanceTail(p)
  /\ UNCHANGED <<loc, hist>>

EnqReturn(p) ==
  /\ Goto(p, "e_ret", "idle")
  /\ hist' = EndPut(hist, loc[p].val)
  /\ loc' = [loc EXCEPT ![p] = NoLocals]
  /\ UNCHANGED mem

-----------------------------------------------------------------------------
\* lcrq_get

\* double_collect, if it is the caller, records the tail version before: the tail is
\* read now, its index in the next step.
Dequeue(p) ==
  /\ hist.gets < MaxGets
  /\ Goto(p, "idle", IF mem.copy.collects THEN "d_version" ELSE "d_ring")
  /\ hist' = BeginGet(hist, p)
  /\ loc' = [loc EXCEPT ![p] = [NoLocals EXCEPT !.rq = mem.tail]]
  /\ UNCHANGED mem

DeqVersion(p) ==
  /\ Goto(p, "d_version", "d_ring")
  /\ loc' = [loc EXCEPT ![p].ver = lcrq_tail_version(loc[p].rq)]
  /\ UNCHANGED <<mem, hist>>

DeqReadRing(p) ==
  /\ Goto(p, "d_ring", "d_head")
  /\ loc' = [loc EXCEPT ![p] = [NoLocals EXCEPT !.rq = mem.head, !.ver = loc[p].ver]]
  /\ UNCHANGED <<mem, hist>>

\* head >= tail && rq->next == NULL, read from the left.  The tail is read as a
\* signed number: a closed ring has a negative tail.
DeqReadHead(p) ==
  /\ Goto(p, "d_head", "d_tail")
  /\ loc' = [loc EXCEPT ![p].t = Ring(p).head]
  /\ UNCHANGED <<mem, hist>>

DeqReadTail(p) ==
  /\ Goto(p, "d_tail", IF Ring(p).closed \/ loc[p].t >= Ring(p).tail THEN "d_last" ELSE "d_claim")
  /\ loc' = [loc EXCEPT ![p].closing = Ring(p).closed /\ loc[p].t < Ring(p).tail]
  /\ UNCHANGED <<mem, hist>>

DeqLast(p) ==
  /\ Goto(p, "d_last", IF Ring(p).next = NULL THEN "d_empty" ELSE "d_claim")
  /\ loc' = [loc EXCEPT ![p].closing = @ /\ Ring(p).next = NULL]
  /\ UNCHANGED <<mem, hist>>

DeqClaim(p) ==
  /\ Goto(p, "d_claim", "d_cell")
  /\ mem' = [mem EXCEPT !.ring[loc[p].rq].head = @ + 1]
  /\ loc' = [loc EXCEPT ![p].t = Ring(p).head]
  /\ UNCHANGED hist

\* the first read of the cell, and what a failed CAE leaves in it
Reread(p) == loc' = [loc EXCEPT ![p].cell = Now(p)]

DeqReadCell(p) ==
  /\ Goto(p, "d_cell", "d_test")
  /\ Reread(p)
  /\ UNCHANGED <<mem, hist>>

\* idx > h: another ring round has begun
DeqPassed(p) ==
  /\ loc[p].cell.idx > loc[p].t
  /\ Goto(p, "d_test", "d_behind")
  /\ UNCHANGED <<mem, loc, hist>>

\* deq_cae
DeqTake(p) ==
  /\ loc[p].cell.val # EMPTY /\ loc[p].cell.idx = loc[p].t
  /\ Goto(p, "d_test", IF Same(p) THEN "d_ret" ELSE "d_test")
  /\ mem' = Replaced(p, Cell(EMPTY, loc[p].t + RingSize, loc[p].cell.unsafe))
  /\ loc' = [loc EXCEPT ![p].cell = Now(p), ![p].val = IF Same(p) THEN loc[p].cell.val ELSE EMPTY]
  /\ UNCHANGED hist

\* the item of an earlier round is still there
DeqMarkUnsafe(p) ==
  /\ loc[p].cell.val # EMPTY /\ loc[p].cell.idx < loc[p].t
  /\ Goto(p, "d_test", IF Same(p) THEN "d_behind" ELSE "d_test")
  /\ mem' = Replaced(p, [loc[p].cell EXCEPT !.unsafe = TRUE])
  /\ Reread(p)
  /\ UNCHANGED hist

\* An empty cell: skip it when it is unsafe, when no enqueuer has its ticket yet,
\* when the ring is closed, or when the patience (200000 rounds) is over.  The
\* tail is read again every 1024 rounds; the cell is not.
MaySkip(p) == \/ loc[p].cell.unsafe \/ loc[p].late
              \/ Ring(p).closed \/ Ring(p).tail < loc[p].t + 1

Empty(p) == loc[p].cell.val = EMPTY /\ loc[p].cell.idx <= loc[p].t

DeqSkip(p) ==
  /\ Empty(p) /\ MaySkip(p)
  /\ Goto(p, "d_test", IF ~Same(p) THEN "d_test"
                       ELSE IF loc[p].late /\ ~loc[p].cell.unsafe /\ Ring(p).tail > RingSize
                            THEN "d_close" ELSE "d_behind")
  /\ mem' = Replaced(p, Cell(EMPTY, loc[p].t + RingSize, loc[p].cell.unsafe))
  /\ Reread(p)
  /\ UNCHANGED hist

\* the last of the waiting rounds
DeqWait(p) ==
  /\ Empty(p) /\ ~MaySkip(p)
  /\ Goto(p, "d_test", "d_test")
  /\ loc' = [loc EXCEPT ![p].late = TRUE]
  /\ UNCHANGED <<mem, hist>>

DeqClose(p) ==
  /\ Goto(p, "d_close", "d_behind")
  /\ mem' = [mem EXCEPT !.ring[loc[p].rq].closed = TRUE]
  /\ UNCHANGED <<loc, hist>>

\* tail_index(rq->tail) <= h + 1: nothing behind the ticket
DeqBehind(p) ==
  /\ Goto(p, "d_behind", IF Ring(p).tail <= loc[p].t + 1 THEN "d_next" ELSE "d_ring")
  /\ UNCHANGED <<mem, loc, hist>>

DeqNext(p) ==
  /\ Goto(p, "d_next", IF Ring(p).next = NULL THEN "d_empty" ELSE "d_again")
  /\ UNCHANGED <<mem, loc, hist>>

DeqAgain(p) ==
  /\ Goto(p, "d_again", IF Ring(p).tail <= loc[p].t + 1 THEN "d_swing" ELSE "d_ring")
  /\ UNCHANGED <<mem, loc, hist>>

DeqSwing(p) ==
  /\ Goto(p, "d_swing", "d_ring")
  /\ mem' = IF mem.head = loc[p].rq
            THEN [mem EXCEPT !.head = loc[p].rq + 1, !.freed = @ \cup {loc[p].rq}]
            ELSE mem
  /\ UNCHANGED <<loc, hist>>

DeqReturn(p) ==
  /\ Goto(p, "d_ret", "idle")
  /\ hist' = EndGet(hist, p, loc[p].val)
  /\ loc' = [loc EXCEPT ![p] = NoLocals]
  /\ UNCHANGED mem

\* Only the recorded version outlives the call.
DeqEmpty(p) ==
  /\ Goto(p, "d_empty", "idle")
  /\ hist' = IF loc[p].closing THEN EndClosing(hist, p) ELSE EndEmpty(hist, p)
  /\ loc' = [loc EXCEPT ![p] = [NoLocals EXCEPT !.ver = loc[p].ver,
                                                !.empty = mem.copy.collects /\ ~loc[p].closing]]
  /\ UNCHANGED mem

-----------------------------------------------------------------------------
EnqStep(p) == \/ EnqReadTail(p) \/ EnqReadNext(p) \/ EnqHelp(p) \/ EnqClaim(p) \/ EnqReadCell(p)
              \/ EnqUnsafe(p) \/ EnqStore(p) \/ EnqFull(p) \/ close_crq(p)
              \/ EnqLink(p) \/ EnqSwing(p) \/ EnqReturn(p)

DeqStep(p) == \/ DeqVersion(p) \/ DeqReadRing(p) \/ DeqReadHead(p) \/ DeqReadTail(p) \/ DeqLast(p) \/ DeqClaim(p)
              \/ DeqReadCell(p) \/ DeqPassed(p) \/ DeqTake(p) \/ DeqMarkUnsafe(p)
              \/ DeqSkip(p) \/ DeqWait(p) \/ DeqClose(p) \/ DeqBehind(p) \/ DeqNext(p)
              \/ DeqAgain(p) \/ DeqSwing(p) \/ DeqReturn(p) \/ DeqEmpty(p)

Next == \E p \in Threads : Enqueue(p) \/ EnqStep(p) \/ Dequeue(p) \/ DeqStep(p)

Spec == Init /\ [][Next]_vars

-----------------------------------------------------------------------------
\* The items whose tickets no dequeue has claimed.
Stored == UNION {{c.val : c \in {c \in Range(mem.ring[r].cell) : c.idx >= mem.ring[r].head}}
                   : r \in mem.head..MaxPuts} \ {EMPTY}

\* After a thread has read the tail version and then been answered EMPTY, as long as the
\* version reads the same no returned enqueue has left an item behind (but for answers
\* given while a ring is closing).  The truncated version of the Simple d-CBO queue is
\* as good only while the tail stays in the same ring.
VersionSound ==
  LET now == lcrq_tail_version(mem.tail)
  IN  \A p \in Threads :
        /\ loc[p].empty
        /\ PARTIAL_TAIL_VERSION(loc[p].ver) = PARTIAL_TAIL_VERSION(now)
        /\ mem.copy.truncates => loc[p].ver.items = now.items
        => Stored \cap hist.done = {}

\* A dequeue that meets a ring in the course of being closed answers empty only when
\* no item was there all the time: lcrq_get is linearizable on empty answers.
EmptyJustified == Quiet(hist) => hist.closing = {}
=============================================================================
