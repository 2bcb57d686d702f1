------------------------------- MODULE MSQueue -------------------------------
(***************************************************************************)
(* The Michael-Scott sub-queue of the MS d-CBO queue (dcbo-ms/partial-ms.c)*)
(* at the grain of its shared-memory accesses: a linked list of nodes, a   *)
(* head and a tail descriptor <<node, count>> that a 16-byte compare-and-  *)
(* exchange moves, and threads that run ms_enqueue and ms_dequeue.  A node *)
(* is its allocation number and also stands for the value it carries.      *)
(*                                                                         *)
(* `tail = q->tail' is a plain copy of a volatile 16-byte struct.  With    *)
(* the default -O3 it is one 16-byte load; with VERSION=O0 or DEBUG of     *)
(* common/Makefile.common it is two loads, the count before the node.      *)
(* SplitReads selects the second build.                                    *)
(*                                                                         *)
(* ssmem (external) does not hand a freed node out again while a thread    *)
(* that could still hold it is inside an operation, so nodes are not       *)
(* reused here.                                                            *)
(***************************************************************************)
EXTENDS Naturals, Sequences, Functions

CONSTANTS Threads,
          MaxNodes,    \* bound: number of ms_enqueue calls
          SplitReads,  \* descriptors are copied by two 8-byte loads
          Null

Nodes == 0..MaxNodes   \* 0 is the node init_ms_queue allocates

ASSUME MSAssumption == /\ MaxNodes \in Nat
                       /\ SplitReads \in BOOLEAN
                       /\ Null \notin Nat

VARIABLES head, tail,  \* q->head and q->tail
          next,        \* next[n]: the next field of node n
          allocated,   \* nodes handed out by create_ms_node
          freed,       \* nodes given to ssmem_free
          pc,          \* where each thread is
          node,        \* new_node of ms_enqueue
          h, t,        \* the local copies `head' and `tail'
          res,         \* what the thread's last dequeue answered
          ver,         \* the tail version the thread recorded before it
          order        \* history: the nodes in the order they were linked

shared == <<head, tail, next, allocated, freed, order>>
vars == <<head, tail, next, allocated, freed, pc, node, h, t, res, ver, order>>

EMPTY == 0             \* partial-ms.h: EMPTY is 0; node 0 carries no value

Desc == [node : Nodes \cup {Null}, count : Nat]

PCs == {"idle", "e_tail", "e_node", "e_next", "e_link", "e_help", "e_swing",
        "e_ret", "d_head", "d_hnode", "d_tail", "d_tnode", "d_check",
        "d_help", "d_swing", "d_ret"}

TypeOK == /\ head \in Desc /\ tail \in Desc /\ Null \notin {head.node, tail.node}
          /\ next \in [Nodes -> Nodes \cup {Null}]
          /\ allocated \in Nodes
          /\ freed \in SUBSET Nodes
          /\ pc \in [Threads -> PCs]
          /\ node \in [Threads -> Nodes]
          /\ h \in [Threads -> Desc] /\ t \in [Threads -> Desc]
          /\ res \in [Threads -> Nodes \cup {Null}]
          /\ ver \in [Threads -> Nat \cup {Null}]
          /\ order \in Seq(Nodes)

\* init_ms_queue
InitDesc == [node |-> 0, count |-> 0]

Init == /\ head = InitDesc /\ tail = InitDesc
        /\ next = [n \in Nodes |-> Null]
        /\ allocated = 0
        /\ freed = {}
        /\ pc = [p \in Threads |-> "idle"]
        /\ node = [p \in Threads |-> 0]
        /\ h = [p \in Threads |-> InitDesc] /\ t = [p \in Threads |-> InitDesc]
        /\ res = [p \in Threads |-> Null]
        /\ ver = [p \in Threads |-> Null]
        /\ order = << >>

Goto(p, from, to) == pc[p] = from /\ pc' = [pc EXCEPT ![p] = to]

\* The copy of a descriptor into a local: in one load, or the count first and
\* the node later.
CopyDesc(p, loc, desc) ==
  loc' = [loc EXCEPT ![p] = IF SplitReads THEN [@ EXCEPT !.count = desc.count]
                                          ELSE desc]

CopyNode(p, loc, desc) == loc' = [loc EXCEPT ![p].node = desc.node]

\* CAE(&q->tail, &tail, &new_tail) with new_tail = <<n, tail.count + 1>>
SwingTail(p, n) ==
  tail' = IF tail = t[p] THEN [node |-> n, count |-> t[p].count + 1] ELSE tail

\* The locals of a call are gone when it returns.
LeaveScope(p) == /\ node' = [node EXCEPT ![p] = 0]
                 /\ h' = [h EXCEPT ![p] = InitDesc]
                 /\ t' = [t EXCEPT ![p] = InitDesc]

-----------------------------------------------------------------------------
\* ms_enqueue

\* create_ms_node
EnqStart(p) ==
  /\ allocated < MaxNodes
  /\ Goto(p, "idle", "e_tail")
  /\ allocated' = allocated + 1
  /\ node' = [node EXCEPT ![p] = allocated + 1]
  /\ next' = [next EXCEPT ![allocated + 1] = Null]
  /\ ver' = [ver EXCEPT ![p] = Null]
  /\ res' = [res EXCEPT ![p] = Null]
  /\ UNCHANGED <<head, tail, freed, h, t, order>>

EnqReadTail(p) ==
  /\ Goto(p, "e_tail", IF SplitReads THEN "e_node" ELSE "e_next")
  /\ CopyDesc(p, t, tail)
  /\ UNCHANGED <<shared, node, h, res, ver>>

EnqReadTailNode(p) ==
  /\ Goto(p, "e_node", "e_next")
  /\ CopyNode(p, t, tail)
  /\ UNCHANGED <<shared, node, h, res, ver>>

EnqReadNext(p) ==
  /\ Goto(p, "e_next", IF next[t[p].node] = Null THEN "e_link" ELSE "e_help")
  /\ UNCHANGED <<shared, node, h, t, res, ver>>

\* enq_cae: CAE(&tail.node->next, NULL, new_node)
EnqLink(p) ==
  /\ IF next[t[p].node] = Null
     THEN /\ Goto(p, "e_link", "e_swing")
          /\ next' = [next EXCEPT ![t[p].node] = node[p]]
          /\ order' = Append(order, node[p])
     ELSE /\ Goto(p, "e_link", "e_tail")
          /\ UNCHANGED <<next, order>>
  /\ UNCHANGED <<head, tail, allocated, freed, node, h, t, res, ver>>

\* Mutation: the enqueuer finds the tail lagging and just retries.
EnqHelpNot(p) ==
  /\ Goto(p, "e_help", "e_tail")
  /\ UNCHANGED <<shared, node, h, t, res, ver>>

\* The tail lags behind the last node: move it on and try again.
EnqHelp(p) ==
  /\ Goto(p, "e_help", "e_tail")
  /\ SwingTail(p, next[t[p].node])
  /\ UNCHANGED <<head, next, allocated, freed, node, h, t, res, ver, order>>

\* Mutation: the enqueuer leaves the tail for others to move.
EnqSwingNot(p) ==
  /\ Goto(p, "e_swing", "e_ret")
  /\ UNCHANGED <<shared, node, h, t, res, ver>>

EnqSwing(p) ==
  /\ Goto(p, "e_swing", "e_ret")
  /\ SwingTail(p, node[p])
  /\ UNCHANGED <<head, next, allocated, freed, node, h, t, res, ver, order>>

EnqReturn(p) ==
  /\ Goto(p, "e_ret", "idle")
  /\ LeaveScope(p)
  /\ UNCHANGED <<shared, res, ver>>

-----------------------------------------------------------------------------
\* ms_dequeue

\* PARTIAL_DEQUEUE as dequeue() calls it
DeqStart(p) ==
  /\ Goto(p, "idle", "d_head")
  /\ ver' = [ver EXCEPT ![p] = Null]
  /\ res' = [res EXCEPT ![p] = Null]
  /\ UNCHANGED <<shared, node, h, t>>

\* PARTIAL_DEQUEUE as double_collect() calls it: the tail version
\* (ms_enq_count) is recorded before
DeqCollect(p) ==
  /\ Goto(p, "idle", "d_head")
  /\ ver' = [ver EXCEPT ![p] = tail.count]
  /\ res' = [res EXCEPT ![p] = Null]
  /\ UNCHANGED <<shared, node, h, t>>

DeqReadHead(p) ==
  /\ Goto(p, "d_head", IF SplitReads THEN "d_hnode" ELSE "d_tail")
  /\ CopyDesc(p, h, head)
  /\ UNCHANGED <<shared, node, t, res, ver>>

DeqReadHeadNode(p) ==
  /\ Goto(p, "d_hnode", "d_tail")
  /\ CopyNode(p, h, head)
  /\ UNCHANGED <<shared, node, t, res, ver>>

DeqReadTail(p) ==
  /\ Goto(p, "d_tail", IF SplitReads THEN "d_tnode" ELSE "d_check")
  /\ CopyDesc(p, t, tail)
  /\ UNCHANGED <<shared, node, h, res, ver>>

DeqReadTailNode(p) ==
  /\ Goto(p, "d_tnode", "d_check")
  /\ CopyNode(p, t, tail)
  /\ UNCHANGED <<shared, node, h, res, ver>>

\* Mutation: no test for an empty queue.
DeqEmptyNot(p) ==
  /\ h[p].node = t[p].node
  /\ Goto(p, "d_check", "d_swing")
  /\ UNCHANGED <<shared, node, h, t, res, ver>>

\* head.node == tail.node and head.node->next == NULL: return EMPTY
DeqEmpty(p) ==
  /\ h[p].node = t[p].node
  /\ next[h[p].node] = Null
  /\ Goto(p, "d_check", "d_ret")
  /\ res' = [res EXCEPT ![p] = EMPTY]
  /\ UNCHANGED <<shared, node, h, t, ver>>

\* Mutation: a dequeuer that sees a successor takes it without helping the tail.
DeqCheckNoHelp(p) ==
  /\ next[h[p].node] # Null
  /\ Goto(p, "d_check", "d_swing")
  /\ UNCHANGED <<shared, node, h, t, res, ver>>

\* the other two branches of the comparison
DeqCheck(p) ==
  /\ \/ /\ h[p].node = t[p].node
        /\ next[h[p].node] # Null
        /\ Goto(p, "d_check", "d_help")
     \/ /\ h[p].node # t[p].node
        /\ Goto(p, "d_check", "d_swing")
  /\ UNCHANGED <<shared, node, h, t, res, ver>>

DeqHelp(p) ==
  /\ Goto(p, "d_help", "d_head")
  /\ SwingTail(p, next[t[p].node])
  /\ UNCHANGED <<head, next, allocated, freed, node, h, t, res, ver, order>>

\* Mutation: the head is stored without comparing it.
DeqSwingNoCompare(p) ==
  /\ Goto(p, "d_swing", "d_ret")
  /\ head' = [node |-> next[h[p].node], count |-> h[p].count + 1]
  /\ res' = [res EXCEPT ![p] = next[h[p].node]]
  /\ freed' = freed \cup {h[p].node}
  /\ UNCHANGED <<tail, next, allocated, node, h, t, ver, order>>

\* deq_cae; on success the value of the new first node is the answer and the
\* old one is freed
DeqSwing(p) ==
  /\ IF head = h[p]
     THEN /\ Goto(p, "d_swing", "d_ret")
          /\ head' = [node |-> next[h[p].node], count |-> h[p].count + 1]
          /\ res' = [res EXCEPT ![p] = next[h[p].node]]
          /\ freed' = freed \cup {h[p].node}
     ELSE /\ Goto(p, "d_swing", "d_head")
          /\ UNCHANGED <<head, res, freed>>
  /\ UNCHANGED <<tail, next, allocated, node, h, t, ver, order>>

\* Only an EMPTY answered to double_collect leaves something behind: the
\* recorded version, which is compared later.
DeqReturn(p) ==
  /\ Goto(p, "d_ret", "idle")
  /\ LeaveScope(p)
  /\ IF res[p] = EMPTY /\ ver[p] # Null
     THEN UNCHANGED <<res, ver>>
     ELSE /\ res' = [res EXCEPT ![p] = Null]
          /\ ver' = [ver EXCEPT ![p] = Null]
  /\ UNCHANGED shared

-----------------------------------------------------------------------------
EnqStep(p) == \/ EnqReadTail(p) \/ EnqReadTailNode(p) \/ EnqReadNext(p)
              \/ EnqLink(p) \/ EnqHelp(p) \/ EnqSwing(p) \/ EnqReturn(p)

DeqStep(p) == \/ DeqReadHead(p) \/ DeqReadHeadNode(p) \/ DeqReadTail(p)
              \/ DeqReadTailNode(p) \/ DeqEmpty(p) \/ DeqCheck(p)
              \/ DeqHelp(p) \/ DeqSwing(p) \/ DeqReturn(p)

Start(p) == EnqStart(p) \/ DeqStart(p) \/ DeqCollect(p)

Next == \E p \in Threads : Start(p) \/ EnqStep(p) \/ DeqStep(p)

Spec == Init /\ [][Next]_vars

\* One thread, Runner, keeps being scheduled while it is inside an operation;
\* every other thread may stop for good at any point.
Runner == CHOOSE p \in Threads : TRUE

LockFreeSpec == Spec /\ WF_vars(EnqStep(Runner) \/ DeqStep(Runner))

-----------------------------------------------------------------------------
\* Properties

\* The nodes that are in the list and not yet dequeued.
Live == {order[k] : k \in (head.count + 1)..Len(order)}

\* ssmem_free (partial-ms.c:165) is only given nodes that have left the queue
\* for good: neither descriptor points to one, and none is still to be
\* dequeued.
FreedUnreachable == ({head.node, tail.node} \cup Live) \cap freed = {}

\* What double_collect (d-balanced-queue.c:71-79) relies on: after a thread has
\* read the tail version and then got EMPTY from ms_dequeue, as long as the
\* version reads the same the queue holds no item of an enqueue that has
\* returned.
SameVersionStillEmpty ==
  \A p \in Threads :
    pc[p] = "idle" /\ res[p] = EMPTY /\ ver[p] = tail.count
      => \A n \in Live : \E q \in Threads : node[q] = n

\* The refinement: the content of the abstract queue is what lies between the
\* two descriptors, so an enqueue takes effect when the tail moves onto its
\* node, whoever moves it.
Published == {order[k] : k \in 1..tail.count}

absOp(p) ==
  CASE pc[p] = "idle" -> [st |-> "idle", val |-> EMPTY]
    [] pc[p] = "d_ret" -> [st |-> "deqDone", val |-> res[p]]
    [] node[p] \in Published -> [st |-> "enqDone", val |-> node[p]]
    [] node[p] \notin Published \cup {0} -> [st |-> "enq", val |-> node[p]]
    [] OTHER -> [st |-> "deq", val |-> EMPTY]

Abstract == INSTANCE PartialQueue
              WITH Items <- 1..MaxNodes, Empty <- EMPTY,
                   items <- SubSeq(order, head.count + 1, tail.count),
                   version <- tail.count,
                   op <- [p \in Threads |-> absOp(p)]

\* ms_enqueue and ms_dequeue together are a linearizable FIFO queue whose
\* version counts its enqueues: every step of the list algorithm is one step
\* of PartialQueue or none.
IsPartialQueue == Abstract!Spec

\* With split descriptor copies an enqueue may return before the tail has moved
\* onto its node, but the queue is still a linearizable FIFO queue if an enqueue
\* is taken to take effect when its node is linked.
linkedOp(p) ==
  IF node[p] \in Range(order) THEN [st |-> "enqDone", val |-> node[p]]
                              ELSE absOp(p)

AtLink == INSTANCE PartialQueue
            WITH Items <- 1..MaxNodes, Empty <- EMPTY,
                 items <- SubSeq(order, head.count + 1, Len(order)),
                 version <- Len(order),
                 op <- [p \in Threads |-> linkedOp(p)]

LinearizableAtLink == AtLink!Spec

\* Helping works: the operations of one thread end even if every other thread
\* stops half-way through its own, for instance after linking a node and before
\* moving the tail.
HelpedTermination == pc[Runner] # "idle" ~> pc[Runner] = "idle"

=============================================================================
