--------------------------- MODULE MSQueue_proofs ---------------------------
(***************************************************************************)
(* Proofs about the Michael-Scott sub-queue for every number of threads    *)
(* and enqueues: of both builds, unless a theorem assumes ~ SplitReads.    *)
(* The first part proves the invariants of the list, the second that the   *)
(* sub-queue implements PartialQueue.                                      *)
(***************************************************************************)
EXTENDS MSQueue, SequenceTheorems, TLAPS

EnqOwn == {"e_tail", "e_node", "e_next", "e_link", "e_help"}   \* not linked yet
EnqPCs == EnqOwn \cup {"e_swing", "e_ret"}

\* The node at position k of the list; position 0 is the dummy node.
At(k) == IF k = 0 THEN 0 ELSE order[k]

Linked == {order[k] : k \in 1..Len(order)}

\* The list: every node was linked once, the next fields follow the order of
\* linking, the descriptors point to the positions they count, the tail is at
\* the last node or the one before it, and the freed nodes are those the head
\* has passed.
OrderInv == /\ \A k \in 1..Len(order) : order[k] \in 1..allocated
            /\ \A j, k \in 1..Len(order) : order[j] = order[k] => j = k

EndsInv == /\ head.count <= tail.count
           /\ tail.count <= Len(order)
           /\ Len(order) <= tail.count + 1
           /\ head.node = At(head.count)
           /\ tail.node = At(tail.count)

NextInv == /\ \A k \in 0..(Len(order) - 1) : next[At(k)] = order[k + 1]
           /\ next[At(Len(order))] = Null

FreedInv == freed = {At(k) : k \in 0..(head.count - 1)}

ListInv == OrderInv /\ EndsInv /\ NextInv /\ FreedInv

\* A local copy of a descriptor, whether taken at once or in two halves: its
\* node is at a position the descriptor had when it was copied, and that is the
\* position it counts if the copy was taken at once.
CopyAt(d, k) == /\ d.count <= k
                /\ d.node = At(k)
                /\ SplitReads \/ k = d.count

TailCopy(p) == \E k \in 0..tail.count : CopyAt(t[p], k)
HeadCopy(p) == \E k \in 0..head.count : CopyAt(h[p], k)

\* The copied tail has a successor.
TailLags(p) ==
  \E k \in 0..tail.count : CopyAt(t[p], k) /\ k < Len(order)

EnqInv(p) ==
  /\ pc[p] \in EnqPCs <=> node[p] # 0
  /\ node[p] \in 0..allocated
  /\ pc[p] \in EnqOwn => node[p] \notin Linked /\ next[node[p]] = Null
  /\ pc[p] = "e_node" => SplitReads /\ t[p].count <= tail.count
  /\ pc[p] \in {"e_next", "e_link"} => TailCopy(p)
  /\ pc[p] = "e_help" => TailLags(p)
  /\ pc[p] = "e_swing" =>
       \E k \in 0..tail.count : /\ CopyAt(t[p], k)
                                /\ k < Len(order)
                                /\ order[k + 1] = node[p]
  /\ pc[p] = "e_ret" => node[p] \in Linked /\ (SplitReads \/ node[p] \in Published)

DeqInv(p) ==
  /\ pc[p] = "d_hnode" => SplitReads /\ h[p].count <= head.count
  /\ pc[p] \in {"d_tail", "d_tnode"} => HeadCopy(p)
  /\ pc[p] = "d_tnode" => SplitReads /\ t[p].count <= tail.count
  /\ pc[p] = "d_check" =>
       \E j \in 0..head.count, k \in 0..tail.count :
          CopyAt(h[p], j) /\ CopyAt(t[p], k) /\ j <= k
  /\ pc[p] = "d_help" => TailLags(p)
  /\ pc[p] = "d_swing" =>
       \E j \in 0..head.count : CopyAt(h[p], j) /\ j < tail.count

\* The version a thread recorded is not newer than the tail's, and when its
\* dequeue has answered EMPTY the head has reached it.
VersionInv(p) ==
  ver[p] # Null =>
    /\ pc[p] \notin EnqPCs
    /\ ver[p] <= tail.count
    /\ pc[p] \in {"idle", "d_ret"} /\ res[p] = EMPTY => ver[p] <= head.count

\* Nodes under construction have one owner.
OwnersInv == \A p, q \in Threads : node[p] = node[q] /\ node[p] # 0 => p = q

\* A node the tail has not reached belongs to a thread that is about to move
\* the tail (copies taken at once).
LagInv == \/ SplitReads
          \/ Len(order) = tail.count
          \/ \E q \in Threads : pc[q] = "e_swing" /\ node[q] = order[Len(order)]

ThreadInv(p) == EnqInv(p) /\ DeqInv(p) /\ VersionInv(p)

IInv == /\ TypeOK
        /\ ListInv
        /\ \A p \in Threads : ThreadInv(p)
        /\ OwnersInv
        /\ LagInv

-----------------------------------------------------------------------------
\* Facts about one state

\* Two positions of the list hold different nodes.
LEMMA Positions ==
  ASSUME TypeOK, ListInv
  PROVE  /\ \A k \in 0..Len(order) : At(k) \in 0..allocated /\ At(k) \in Nodes
         /\ \A j, k \in 0..Len(order) : At(j) = At(k) => j = k
         /\ \A k \in 1..Len(order) : order[k] # 0 /\ At(k) = order[k]
<1>1. Len(order) \in Nat /\ \A k \in 1..Len(order) : order[k] \in 1..allocated
  BY DEF ListInv, OrderInv, TypeOK
<1>2. allocated \in Nat /\ allocated <= MaxNodes
  BY MSAssumption DEF TypeOK, Nodes
<1> QED BY <1>1, <1>2, MSAssumption DEF ListInv, OrderInv, At, Nodes

LEMMA Counts ==
  ASSUME TypeOK
  PROVE  /\ head.count \in Nat /\ tail.count \in Nat /\ Len(order) \in Nat
         /\ allocated \in Nat /\ allocated <= MaxNodes /\ MaxNodes \in Nat
         /\ head = [node |-> head.node, count |-> head.count]
         /\ tail = [node |-> tail.node, count |-> tail.count]
         /\ \A p \in Threads : /\ h[p].count \in Nat /\ t[p].count \in Nat
                               /\ t[p] = [node |-> t[p].node, count |-> t[p].count]
                               /\ h[p] = [node |-> h[p].node, count |-> h[p].count]
                               /\ h[p] \in Desc /\ t[p] \in Desc
  BY MSAssumption DEF TypeOK, Desc, Nodes

\* A successful compare-and-exchange of the tail: the copy is the descriptor.
LEMMA SameTail ==
  ASSUME TypeOK, ListInv, NEW p \in Threads, tail = t[p],
         NEW k \in 0..tail.count, CopyAt(t[p], k)
  PROVE  k = tail.count
  BY Counts DEF CopyAt

LEMMA SameHead ==
  ASSUME TypeOK, ListInv, NEW p \in Threads, head = h[p],
         NEW k \in 0..head.count, CopyAt(h[p], k)
  PROVE  k = head.count
  BY Counts DEF CopyAt

-----------------------------------------------------------------------------
\* What a step does to the threads that do not take it

Grows == /\ head.count <= head'.count
         /\ tail.count <= tail'.count
         /\ allocated <= allocated'
         /\ Len(order) <= Len(order')
         /\ \A k \in 1..Len(order) : order'[k] = order[k]

OthersStay(p) ==
  \A q \in Threads \ {p} : /\ pc'[q] = pc[q] /\ node'[q] = node[q]
                           /\ h'[q] = h[q] /\ t'[q] = t[q]
                           /\ res'[q] = res[q] /\ ver'[q] = ver[q]
                           /\ node[q] # 0 /\ node[q] \notin Linked
                                => node[q] \notin Linked' /\ next'[node[q]] = next[node[q]]

\* Positions keep their nodes, so a copy stays where it was.
LEMMA CopyStays ==
  ASSUME TypeOK, ListInv, Grows, NEW d, NEW k \in 0..Len(order), CopyAt(d, k)
  PROVE  CopyAt(d, k)'
<1>1. At(k)' = At(k)
  BY Counts DEF Grows, At
<1> QED BY <1>1 DEF CopyAt

LEMMA OthersKept ==
  ASSUME IInv, TypeOK', NEW p \in Threads, Grows, OthersStay(p),
         NEW q \in Threads \ {p}
  PROVE  ThreadInv(q)'
<1> USE DEF IInv
<1>0. ThreadInv(q) /\ EndsInv
  BY DEF ListInv
<1>1. /\ pc'[q] = pc[q] /\ node'[q] = node[q] /\ h'[q] = h[q] /\ t'[q] = t[q]
      /\ res'[q] = res[q] /\ ver'[q] = ver[q]
      /\ node[q] # 0 /\ node[q] \notin Linked
           => node[q] \notin Linked' /\ next'[node[q]] = next[node[q]]
  BY DEF OthersStay
<1>2. /\ head.count \in Nat /\ tail.count \in Nat /\ Len(order) \in Nat
      /\ head'.count \in Nat /\ tail'.count \in Nat /\ Len(order') \in Nat
      /\ h[q].count \in Nat /\ t[q].count \in Nat
      /\ allocated \in Nat /\ allocated' \in Nat
  <2>1. /\ head'.count \in Nat /\ tail'.count \in Nat /\ Len(order') \in Nat
        /\ allocated' \in Nat
    BY MSAssumption DEF TypeOK, Desc, Nodes
  <2> QED BY <2>1, Counts
<1>3. \A k \in 0..Len(order) : /\ CopyAt(h[q], k) => CopyAt(h[q], k)'
                               /\ CopyAt(t[q], k) => CopyAt(t[q], k)'
  <2>1. ASSUME NEW d, NEW k \in 0..Len(order), CopyAt(d, k)
        PROVE  d.count <= k /\ d.node = At(k)' /\ (SplitReads \/ k = d.count)
    BY <2>1, CopyStays DEF CopyAt
  <2> QED BY <1>1, <2>1 DEF CopyAt
<1>5. \A k \in 0..tail.count : k \in 0..Len(order) /\ k \in 0..tail'.count
  BY SMTT(30), <1>0, <1>2 DEF Grows, EndsInv
<1>6. \A k \in 0..head.count : k \in 0..Len(order) /\ k \in 0..head'.count
  BY SMTT(30), <1>0, <1>2 DEF Grows, EndsInv
<1>7. /\ Linked \subseteq Linked'
      /\ Published \subseteq Published'
  <2>1. \A k \in 1..Len(order) : k \in 1..Len(order') /\ order'[k] = order[k]
    BY <1>2 DEF Grows
  <2>2. \A k \in 1..tail.count : k \in 1..tail'.count /\ order'[k] = order[k]
    BY SMTT(30), <1>0, <1>2, <2>1 DEF Grows, EndsInv
  <2> QED BY <2>1, <2>2 DEF Linked, Published
<1>8. EnqInv(q)'
  <2>1. /\ (pc[q] \in EnqPCs <=> node[q] # 0)'
        /\ (node[q] \in 0..allocated)'
        /\ (pc[q] = "e_node" => SplitReads /\ t[q].count <= tail.count)'
        /\ (pc[q] = "e_ret" => node[q] \in Linked /\ (SplitReads \/ node[q] \in Published))'
    BY SMTT(30), <1>0, <1>1, <1>2, <1>7 DEF ThreadInv, EnqInv, Grows
  <2>5. (pc[q] \in EnqOwn => node[q] \notin Linked /\ next[node[q]] = Null)'
    BY <1>0, <1>1 DEF ThreadInv, EnqInv, EnqPCs
  <2>2. (pc[q] \in {"e_next", "e_link"} => TailCopy(q))'
    BY <1>0, <1>1, <1>3, <1>5 DEF ThreadInv, EnqInv, TailCopy
  <2>3. (pc[q] = "e_help" => TailLags(q))'
    BY <1>0, <1>1, <1>2, <1>3, <1>5 DEF ThreadInv, EnqInv, TailLags, Grows
  <2>4. ASSUME pc[q] = "e_swing"
        PROVE  (\E k \in 0..tail.count : /\ CopyAt(t[q], k)
                                         /\ k < Len(order)
                                         /\ order[k + 1] = node[q])'
    <3>1. PICK k \in 0..tail.count : CopyAt(t[q], k) /\ k < Len(order) /\ order[k + 1] = node[q]
      BY <1>0, <2>4 DEF ThreadInv, EnqInv
    <3>2. CopyAt(t[q], k)' /\ k \in 0..tail'.count
      BY <3>1, <1>1, <1>3, <1>5
    <3>3. k < Len(order') /\ order'[k + 1] = node'[q]
      BY <3>1, <1>1, <1>2 DEF Grows
    <3> QED BY <3>2, <3>3
  <2> QED BY <1>1, <2>1, <2>2, <2>3, <2>4, <2>5 DEF EnqInv
<1>9. DeqInv(q)'
  <2>1. /\ (pc[q] = "d_hnode" => SplitReads /\ h[q].count <= head.count)'
        /\ (pc[q] = "d_tnode" => SplitReads /\ t[q].count <= tail.count)'
    BY SMTT(30), <1>0, <1>1, <1>2 DEF ThreadInv, DeqInv, Grows
  <2>2. (pc[q] \in {"d_tail", "d_tnode"} => HeadCopy(q))'
    BY <1>0, <1>1, <1>3, <1>6 DEF ThreadInv, DeqInv, HeadCopy
  <2>3. (pc[q] = "d_check" => \E j \in 0..head.count, k \in 0..tail.count :
                                CopyAt(h[q], j) /\ CopyAt(t[q], k) /\ j <= k)'
    BY <1>0, <1>1, <1>3, <1>5, <1>6 DEF ThreadInv, DeqInv
  <2>4. (pc[q] = "d_help" => TailLags(q))'
    BY <1>0, <1>1, <1>2, <1>3, <1>5 DEF ThreadInv, DeqInv, TailLags, Grows
  <2>5. (pc[q] = "d_swing" => \E j \in 0..head.count : CopyAt(h[q], j) /\ j < tail.count)'
    BY SMTT(30), <1>0, <1>1, <1>2, <1>3, <1>6 DEF ThreadInv, DeqInv, Grows
  <2> QED BY <2>1, <2>2, <2>3, <2>4, <2>5 DEF DeqInv
<1>10. VersionInv(q)'
  <2>1. ver[q] \in Nat \cup {Null}
    BY DEF TypeOK
  <2> QED BY SMTT(30), <1>0, <1>1, <1>2, <2>1 DEF ThreadInv, VersionInv, Grows
<1> QED BY <1>8, <1>9, <1>10 DEF ThreadInv

-----------------------------------------------------------------------------
\* What the steps do to the list

LEMMA ListStays ==
  ASSUME TypeOK, ListInv, UNCHANGED shared
  PROVE  ListInv' /\ Grows
  BY Counts DEF shared, ListInv, OrderInv, EndsInv, NextInv, FreedInv, At, Grows

\* create_ms_node
LEMMA NodeCreated ==
  ASSUME TypeOK, ListInv, allocated < MaxNodes, allocated' = allocated + 1,
         next' = [next EXCEPT ![allocated + 1] = Null],
         UNCHANGED <<head, tail, freed, order>>
  PROVE  ListInv' /\ Grows
<1>1. Grows
  BY Counts DEF Grows
<1>2. OrderInv' /\ EndsInv' /\ FreedInv'
  BY Counts DEF ListInv, OrderInv, EndsInv, FreedInv, At
<1>3. \A k \in 0..Len(order) : next'[At(k)] = next[At(k)]
  BY Positions, Counts DEF TypeOK
<1>4. NextInv'
  BY <1>3, Counts DEF ListInv, NextInv, At
<1> QED BY <1>1, <1>2, <1>4 DEF ListInv

\* The tail moves onto the node behind it.
LEMMA TailMoves ==
  ASSUME TypeOK, ListInv, tail.count < Len(order),
         tail' = [node |-> order[tail.count + 1], count |-> tail.count + 1],
         UNCHANGED <<head, next, allocated, freed, order>>
  PROVE  /\ ListInv' /\ Grows
         /\ tail' \in Desc /\ tail'.node # Null
         /\ Len(order) = tail.count + 1
<1>0. Len(order) = tail.count + 1
  BY Counts DEF ListInv, EndsInv
<1>1. Grows
  BY Counts DEF Grows
<1>2. OrderInv' /\ NextInv' /\ FreedInv'
  BY DEF ListInv, OrderInv, NextInv, FreedInv, At
<1>3. EndsInv'
  BY Counts DEF ListInv, EndsInv, At
<1>4. order[tail.count + 1] \in Nodes
  <2>1. tail.count + 1 \in 1..Len(order)
    BY Counts
  <2> QED BY <2>1, Positions DEF TypeOK
<1>5. Null \notin Nodes
  BY MSAssumption DEF Nodes
<1> QED BY <1>0, <1>1, <1>2, <1>3, <1>4, <1>5, Counts DEF ListInv, Desc

\* The new node is linked behind the last one.
LEMMA NodeLinked ==
  ASSUME TypeOK, ListInv, NEW n \in 1..allocated, n \notin Linked, next[n] = Null,
         tail.count = Len(order),
         next' = [next EXCEPT ![At(Len(order))] = n],
         order' = Append(order, n),
         UNCHANGED <<head, tail, allocated, freed>>
  PROVE  ListInv' /\ Grows /\ order' \in Seq(Nodes) /\ Len(order') = Len(order) + 1
         /\ order'[Len(order')] = n
<1>1. /\ Len(order') = Len(order) + 1
      /\ \A k \in 1..Len(order) : order'[k] = order[k]
      /\ order'[Len(order) + 1] = n
      /\ n \in Nodes /\ order' \in Seq(Nodes)
  BY Counts DEF TypeOK, Nodes
<1>2. Grows
  BY <1>1, Counts DEF Grows
<1>3. \A k \in 0..Len(order) : At(k)' = At(k)
  BY <1>1, Counts DEF At
<1>4. OrderInv'
  <2>1. \A k \in 1..Len(order) : order[k] # n
    BY DEF Linked
  <2>2. \A k \in 1..Len(order') : k \in 1..Len(order) \/ k = Len(order) + 1
    BY <1>1, Counts
  <2> QED BY <1>1, <2>1, <2>2, Counts DEF ListInv, OrderInv
<1>5. EndsInv'
  BY <1>1, <1>3, Counts DEF ListInv, EndsInv
<1>6. NextInv'
  <2>1. n # 0 /\ n \in Nodes /\ At(Len(order))' = n
    BY <1>1, Counts DEF At
  <2>2. \A k \in 0..Len(order) : n # At(k)
    BY <2>1, Counts DEF At, Linked
  <2>4. next'[n] = Null
    BY <2>1, <2>2, Counts DEF TypeOK
  <2>5. ASSUME NEW k \in 0..(Len(order') - 1) PROVE next'[At(k)'] = order'[k + 1]
    <3>1. k \in 0..Len(order) /\ At(k)' = At(k) /\ At(k) \in Nodes
      BY <1>1, <1>3, Counts, Positions
    <3>2. CASE k = Len(order)
      BY <1>1, <3>1, <3>2 DEF TypeOK
    <3>3. CASE k # Len(order)
      <4>1. k \in 0..(Len(order) - 1) /\ k + 1 \in 1..Len(order) /\ Len(order) \in 0..Len(order)
        BY <3>1, <3>3, Counts
      <4>2. At(k) # At(Len(order))
        BY <3>1, <3>3, <4>1, Positions
      <4> QED BY <1>1, <3>1, <4>1, <4>2 DEF TypeOK, ListInv, NextInv
    <3> QED BY <3>2, <3>3
  <2> QED BY <1>1, <2>1, <2>4, <2>5 DEF NextInv
<1>7. FreedInv'
  <2>1. \A k \in 0..(head.count - 1) : At(k)' = At(k)
    BY <1>3, Counts DEF ListInv, EndsInv
  <2> QED BY <2>1 DEF ListInv, FreedInv
<1> QED BY <1>1, <1>2, <1>4, <1>5, <1>6, <1>7 DEF ListInv

\* The head moves onto the node behind it, and its node is freed.
LEMMA HeadMoves ==
  ASSUME TypeOK, ListInv, head.count < tail.count,
         head' = [node |-> order[head.count + 1], count |-> head.count + 1],
         freed' = freed \cup {At(head.count)},
         UNCHANGED <<tail, next, allocated, order>>
  PROVE  /\ ListInv' /\ Grows
         /\ head' \in Desc /\ head'.node # Null
         /\ freed' \in SUBSET Nodes
<1>1. Grows
  BY Counts DEF Grows
<1>2. OrderInv' /\ NextInv' /\ \A k : At(k)' = At(k)
  BY DEF ListInv, OrderInv, NextInv, At
<1>3. EndsInv'
  BY Counts DEF ListInv, EndsInv, At
<1>4. order[head.count + 1] \in Nodes /\ At(head.count) \in Nodes
  <2>1. head.count + 1 \in 1..Len(order) /\ head.count \in 0..Len(order)
    BY Counts DEF ListInv, EndsInv
  <2> QED BY <2>1, Positions DEF TypeOK
<1>5. FreedInv'
  <2>1. 0..(head'.count - 1) = 0..(head.count - 1) \cup {head.count}
    BY Counts
  <2> QED BY <1>2, <2>1 DEF ListInv, FreedInv
<1>6. Null \notin Nodes
  BY MSAssumption DEF Nodes
<1> QED BY <1>1, <1>2, <1>3, <1>4, <1>5, <1>6, Counts DEF ListInv, Desc, TypeOK

-----------------------------------------------------------------------------
\* The invariant, one lemma per action.  First what the actions share.

LEMMA OwnersKept ==
  ASSUME IInv, NEW p \in Threads, OthersStay(p), node'[p] \in {node[p], 0}
  PROVE  OwnersInv'
  BY DEF IInv, OwnersInv, OthersStay

LEMMA LagKept ==
  ASSUME IInv, NEW p \in Threads, OthersStay(p), UNCHANGED <<tail, order>>,
         pc[p] # "e_swing"
  PROVE  LagInv'
  BY DEF IInv, LagInv, OthersStay

\* The tail has caught up.
LEMMA LagEnds ==
  ASSUME Len(order') = tail'.count
  PROVE  LagInv'
  BY DEF LagInv

LEMMA Combine ==
  ASSUME IInv, NEW p \in Threads, TypeOK', ListInv', Grows, OthersStay(p),
         ThreadInv(p)', OwnersInv', LagInv'
  PROVE  IInv'
<1>1. \A q \in Threads : ThreadInv(q)'
  BY OthersKept
<1> QED BY <1>1 DEF IInv

\* A step of thread p that changes only its own locals.
LEMMA LocalStep ==
  ASSUME IInv, NEW p \in Threads, UNCHANGED shared, OthersStay(p), TypeOK',
         pc[p] # "e_swing", node'[p] \in {node[p], 0}, ThreadInv(p)'
  PROVE  IInv'
<1>1. ListInv' /\ Grows
  BY ListStays DEF IInv
<1>2. OwnersInv' /\ LagInv'
  BY OwnersKept, LagKept DEF shared
<1> QED BY <1>1, <1>2, Combine

\* The locals keep their types.
LEMMA LocalTypes ==
  ASSUME TypeOK, NEW p \in Threads, UNCHANGED shared,
         NEW to \in PCs, pc' = [pc EXCEPT ![p] = to],
         NEW n \in Nodes, node' = [node EXCEPT ![p] = n],
         NEW c \in Desc, h' = [h EXCEPT ![p] = c],
         NEW d \in Desc, t' = [t EXCEPT ![p] = d],
         NEW r \in Nodes \cup {Null}, res' = [res EXCEPT ![p] = r],
         NEW v \in Nat \cup {Null}, ver' = [ver EXCEPT ![p] = v]
  PROVE  TypeOK' /\ OthersStay(p)
<1>1. TypeOK'
  BY DEF TypeOK, shared
<1>2. OthersStay(p)
  BY DEF OthersStay, TypeOK, Linked, shared
<1> QED BY <1>1, <1>2

LEMMA Same ==
  ASSUME TypeOK, NEW p \in Threads
  PROVE  /\ node = [node EXCEPT ![p] = node[p]] /\ node[p] \in Nodes
         /\ h = [h EXCEPT ![p] = h[p]] /\ t = [t EXCEPT ![p] = t[p]]
         /\ h[p] \in Desc /\ t[p] \in Desc
         /\ res = [res EXCEPT ![p] = res[p]] /\ res[p] \in Nodes \cup {Null}
         /\ ver = [ver EXCEPT ![p] = ver[p]] /\ ver[p] \in Nat \cup {Null}
         /\ 0 \in Nodes /\ InitDesc \in Desc /\ Null \notin Nat
         /\ Null \notin Nodes
  BY MSAssumption DEF TypeOK, Nodes, Desc, InitDesc

\* What CopyDesc and CopyNode assign to a local descriptor.
FirstCopy(d, g) == IF SplitReads THEN [d EXCEPT !.count = g.count] ELSE g
NodeCopy(d, g) == [d EXCEPT !.node = g.node]

LEMMA CopyType ==
  ASSUME NEW d \in Desc, NEW g \in Desc
  PROVE  /\ FirstCopy(d, g) \in Desc /\ FirstCopy(d, g).count = g.count
         /\ ~ SplitReads => FirstCopy(d, g) = g
         /\ NodeCopy(d, g) \in Desc /\ NodeCopy(d, g).count = d.count
         /\ NodeCopy(d, g).node = g.node
<1>1. CASE SplitReads
  BY <1>1 DEF Desc, FirstCopy, NodeCopy
<1>2. CASE ~ SplitReads
  BY <1>2 DEF Desc, FirstCopy, NodeCopy
<1> QED BY <1>1, <1>2

LEMMA ReadTailKeeps ==
  ASSUME IInv, NEW p \in Threads, EnqReadTail(p)
  PROVE  IInv'
<1> USE DEF IInv
<1> DEFINE d == FirstCopy(t[p], tail)
<1>0. t' = [t EXCEPT ![p] = d]
  BY DEF EnqReadTail, CopyDesc, FirstCopy
<1>1. d \in Desc /\ d.count = tail.count /\ (~ SplitReads => d = tail)
  BY Same, CopyType DEF TypeOK
<1> HIDE DEF d
<1>2. /\ UNCHANGED shared /\ UNCHANGED <<node, h, res, ver>>
      /\ pc[p] = "e_tail"
      /\ pc' = [pc EXCEPT ![p] = IF SplitReads THEN "e_node" ELSE "e_next"]
  BY DEF EnqReadTail, Goto
<1>3. TypeOK' /\ OthersStay(p)
  BY ZenonT(60), <1>0, <1>1, <1>2, Same, LocalTypes DEF PCs
<1>4. /\ pc'[p] = IF SplitReads THEN "e_node" ELSE "e_next"
      /\ t'[p] = d /\ node'[p] = node[p] /\ node[p] # 0 /\ node[p] \in 0..allocated
      /\ node[p] \notin Linked /\ next[node[p]] = Null
      /\ UNCHANGED <<tail, head, order, allocated, next>>
  BY <1>0, <1>1, <1>2 DEF TypeOK, ThreadInv, EnqInv, EnqOwn, EnqPCs, shared
<1>5. ~ SplitReads => TailCopy(p)'
  BY <1>1, <1>4, Counts DEF TailCopy, CopyAt, At, ListInv, EndsInv
<1>6. EnqInv(p)'
  BY <1>1, <1>4, <1>5, Counts DEF EnqInv, EnqPCs, EnqOwn, Linked
<1>7. DeqInv(p)' /\ VersionInv(p)'
  BY <1>2, <1>4 DEF ThreadInv, DeqInv, VersionInv, EnqPCs, EnqOwn
<1> QED BY <1>2, <1>3, <1>4, <1>6, <1>7, LocalStep DEF ThreadInv

LEMMA ReadTailNodeKeeps ==
  ASSUME IInv, NEW p \in Threads, EnqReadTailNode(p)
  PROVE  IInv'
<1> USE DEF IInv
<1> DEFINE d == NodeCopy(t[p], tail)
<1>0. t' = [t EXCEPT ![p] = d]
  BY DEF EnqReadTailNode, CopyNode, NodeCopy
<1>1. d \in Desc /\ d.count = t[p].count /\ d.node = tail.node
  BY Same, CopyType DEF TypeOK
<1> HIDE DEF d
<1>2. /\ UNCHANGED shared /\ UNCHANGED <<node, h, res, ver>>
      /\ pc[p] = "e_node" /\ pc' = [pc EXCEPT ![p] = "e_next"]
  BY DEF EnqReadTailNode, Goto
<1>3. TypeOK' /\ OthersStay(p)
  BY ZenonT(60), <1>0, <1>1, <1>2, Same, LocalTypes DEF PCs
<1>4. /\ pc'[p] = "e_next"
      /\ t'[p] = d /\ node'[p] = node[p] /\ node[p] # 0 /\ node[p] \in 0..allocated
      /\ node[p] \notin Linked /\ next[node[p]] = Null
      /\ UNCHANGED <<tail, head, order, allocated, next>>
      /\ d.count <= tail.count
  BY <1>0, <1>1, <1>2 DEF TypeOK, ThreadInv, EnqInv, EnqOwn, EnqPCs, shared
<1>5. TailCopy(p)'
  BY <1>1, <1>2, <1>4, Counts DEF TailCopy, CopyAt, At, ListInv, EndsInv, ThreadInv, EnqInv
<1>6. EnqInv(p)'
  BY <1>1, <1>4, <1>5, Counts DEF EnqInv, EnqPCs, EnqOwn, Linked
<1>7. DeqInv(p)' /\ VersionInv(p)'
  BY <1>2, <1>4 DEF ThreadInv, DeqInv, VersionInv, EnqPCs, EnqOwn
<1> QED BY <1>2, <1>3, <1>4, <1>6, <1>7, LocalStep DEF ThreadInv

LEMMA ReadNextKeeps ==
  ASSUME IInv, NEW p \in Threads, EnqReadNext(p)
  PROVE  IInv'
<1> USE DEF IInv
<1>1. /\ UNCHANGED shared /\ UNCHANGED <<node, h, t, res, ver>>
      /\ pc[p] = "e_next"
      /\ pc' = [pc EXCEPT ![p] = IF next[t[p].node] = Null THEN "e_link" ELSE "e_help"]
  BY DEF EnqReadNext, Goto
<1>2. TypeOK' /\ OthersStay(p)
  BY <1>1, Same, LocalTypes DEF PCs
<1>3. /\ pc'[p] = IF next[t[p].node] = Null THEN "e_link" ELSE "e_help"
      /\ node[p] # 0 /\ node[p] \in 0..allocated
      /\ node[p] \notin Linked /\ next[node[p]] = Null
      /\ TailCopy(p)
      /\ UNCHANGED <<tail, head, order, allocated, next>>
  BY <1>1 DEF TypeOK, ThreadInv, EnqInv, EnqOwn, EnqPCs, shared
<1>4. next[t[p].node] # Null => TailLags(p)
  BY <1>3, Counts DEF TailCopy, TailLags, CopyAt, ListInv, EndsInv, NextInv
<1>5. TailCopy(p)' /\ (next[t[p].node] # Null => TailLags(p)')
  BY <1>1, <1>3, <1>4 DEF TailCopy, TailLags, CopyAt, At
<1>6. EnqInv(p)'
  BY <1>1, <1>3, <1>5 DEF EnqInv, EnqPCs, EnqOwn, Linked
<1>7. DeqInv(p)' /\ VersionInv(p)'
  BY <1>1, <1>3 DEF ThreadInv, DeqInv, VersionInv, EnqPCs, EnqOwn
<1> QED BY <1>1, <1>2, <1>6, <1>7, LocalStep DEF ThreadInv

\* A call that returns.
LEMMA EnqReturnKeeps ==
  ASSUME IInv, NEW p \in Threads, EnqReturn(p)
  PROVE  IInv'
<1> USE DEF IInv
<1>1. /\ UNCHANGED shared /\ UNCHANGED <<res, ver>>
      /\ pc[p] = "e_ret" /\ pc' = [pc EXCEPT ![p] = "idle"]
      /\ node' = [node EXCEPT ![p] = 0]
      /\ h' = [h EXCEPT ![p] = InitDesc] /\ t' = [t EXCEPT ![p] = InitDesc]
  BY DEF EnqReturn, LeaveScope, Goto
<1>2. TypeOK' /\ OthersStay(p)
  BY <1>1, Same, LocalTypes DEF PCs
<1>3. pc'[p] = "idle" /\ node'[p] = 0 /\ UNCHANGED <<head, tail, allocated>> /\ allocated \in Nat
  BY <1>1, Counts DEF TypeOK, shared
<1>4. EnqInv(p)' /\ DeqInv(p)'
  BY <1>3 DEF EnqInv, DeqInv, EnqPCs, EnqOwn
<1>5. VersionInv(p)'
  BY <1>1, <1>3 DEF ThreadInv, VersionInv, EnqPCs
<1> QED BY <1>1, <1>2, <1>3, <1>4, <1>5, LocalStep DEF ThreadInv

\* ms_dequeue up to its compare-and-exchange

LEMMA DeqStartKeeps ==
  ASSUME IInv, NEW p \in Threads, DeqStart(p) \/ DeqCollect(p)
  PROVE  IInv'
<1> USE DEF IInv
<1>1. PICK v \in {Null, tail.count} :
         /\ UNCHANGED shared /\ UNCHANGED <<node, h, t>>
         /\ pc[p] = "idle" /\ pc' = [pc EXCEPT ![p] = "d_head"]
         /\ res' = [res EXCEPT ![p] = Null]
         /\ ver' = [ver EXCEPT ![p] = v]
  BY DEF DeqStart, DeqCollect, Goto
<1>0. v \in Nat \cup {Null}
  BY Counts
<1>2. TypeOK' /\ OthersStay(p)
  BY <1>0, <1>1, Same, LocalTypes DEF PCs
<1>3. /\ pc'[p] = "d_head" /\ node'[p] = 0 /\ ver'[p] = v
      /\ UNCHANGED <<head, tail, allocated>> /\ allocated \in Nat
  BY <1>1, Counts DEF TypeOK, shared, ThreadInv, EnqInv, EnqPCs, EnqOwn
<1>4. EnqInv(p)' /\ DeqInv(p)'
  BY <1>3 DEF EnqInv, DeqInv, EnqPCs, EnqOwn
<1>5. VersionInv(p)'
  BY <1>3, Counts DEF VersionInv, EnqPCs, EnqOwn
<1> QED BY <1>1, <1>2, <1>4, <1>5, LocalStep DEF ThreadInv

\* A dequeuer has no node, and its version is not changed before it has an answer.
LEMMA DeqLocals ==
  ASSUME IInv, NEW p \in Threads, UNCHANGED <<allocated, tail, node, ver>>,
         pc[p] \notin EnqPCs, pc'[p] \notin EnqPCs, pc'[p] \notin {"idle", "d_ret"}
  PROVE  EnqInv(p)' /\ VersionInv(p)'
<1>1. node[p] = 0 /\ allocated \in Nat
  BY Counts DEF IInv, ThreadInv, EnqInv
<1>2. EnqInv(p)'
  BY <1>1 DEF EnqInv, EnqPCs, EnqOwn
<1>3. VersionInv(p)'
  BY DEF IInv, ThreadInv, VersionInv
<1> QED BY <1>2, <1>3

LEMMA ReadHeadKeeps ==
  ASSUME IInv, NEW p \in Threads, DeqReadHead(p)
  PROVE  IInv'
<1> USE DEF IInv
<1> DEFINE d == FirstCopy(h[p], head)
<1>0. h' = [h EXCEPT ![p] = d]
  BY DEF DeqReadHead, CopyDesc, FirstCopy
<1>1. d \in Desc /\ d.count = head.count /\ (~ SplitReads => d = head)
  BY Same, CopyType DEF TypeOK
<1> HIDE DEF d
<1>2. /\ UNCHANGED shared /\ UNCHANGED <<node, t, res, ver>>
      /\ pc[p] = "d_head"
      /\ pc' = [pc EXCEPT ![p] = IF SplitReads THEN "d_hnode" ELSE "d_tail"]
  BY DEF DeqReadHead, Goto
<1>3. TypeOK' /\ OthersStay(p)
  BY ZenonT(60), <1>0, <1>1, <1>2, Same, LocalTypes DEF PCs
<1>4. /\ pc'[p] = IF SplitReads THEN "d_hnode" ELSE "d_tail"
      /\ h'[p] = d /\ UNCHANGED <<tail, head, order, allocated, next>>
  BY <1>0, <1>1, <1>2 DEF TypeOK, shared
<1>5. ~ SplitReads => HeadCopy(p)'
  BY <1>1, <1>4, Counts DEF HeadCopy, CopyAt, At, ListInv, EndsInv
<1>6. DeqInv(p)'
  BY <1>1, <1>4, <1>5, Counts DEF DeqInv
<1>7. EnqInv(p)' /\ VersionInv(p)'
  BY <1>2, <1>4, DeqLocals DEF EnqPCs, EnqOwn
<1> QED BY <1>2, <1>3, <1>6, <1>7, LocalStep DEF ThreadInv

LEMMA ReadHeadNodeKeeps ==
  ASSUME IInv, NEW p \in Threads, DeqReadHeadNode(p)
  PROVE  IInv'
<1> USE DEF IInv
<1> DEFINE d == NodeCopy(h[p], head)
<1>0. h' = [h EXCEPT ![p] = d]
  BY DEF DeqReadHeadNode, CopyNode, NodeCopy
<1>1. d \in Desc /\ d.count = h[p].count /\ d.node = head.node
  BY Same, CopyType DEF TypeOK
<1> HIDE DEF d
<1>2. /\ UNCHANGED shared /\ UNCHANGED <<node, t, res, ver>>
      /\ pc[p] = "d_hnode" /\ pc' = [pc EXCEPT ![p] = "d_tail"]
  BY DEF DeqReadHeadNode, Goto
<1>3. TypeOK' /\ OthersStay(p)
  BY ZenonT(60), <1>0, <1>1, <1>2, Same, LocalTypes DEF PCs
<1>4. /\ pc'[p] = "d_tail" /\ h'[p] = d
      /\ UNCHANGED <<tail, head, order, allocated, next>>
      /\ d.count <= head.count /\ SplitReads
  BY <1>0, <1>1, <1>2 DEF TypeOK, shared, ThreadInv, DeqInv
<1>5. HeadCopy(p)'
  BY <1>1, <1>4, Counts DEF HeadCopy, CopyAt, At, ListInv, EndsInv
<1>6. DeqInv(p)'
  BY <1>4, <1>5 DEF DeqInv
<1>7. EnqInv(p)' /\ VersionInv(p)'
  BY <1>2, <1>4, DeqLocals DEF EnqPCs, EnqOwn
<1> QED BY <1>2, <1>3, <1>6, <1>7, LocalStep DEF ThreadInv

\* A copy of the tail taken after the copy of the head is not behind it.
LEMMA DeqReadTailKeeps ==
  ASSUME IInv, NEW p \in Threads, DeqReadTail(p)
  PROVE  IInv'
<1> USE DEF IInv
<1> DEFINE d == FirstCopy(t[p], tail)
<1>0. t' = [t EXCEPT ![p] = d]
  BY DEF DeqReadTail, CopyDesc, FirstCopy
<1>1. d \in Desc /\ d.count = tail.count /\ (~ SplitReads => d = tail)
  BY Same, CopyType DEF TypeOK
<1> HIDE DEF d
<1>2. /\ UNCHANGED shared /\ UNCHANGED <<node, h, res, ver>>
      /\ pc[p] = "d_tail"
      /\ pc' = [pc EXCEPT ![p] = IF SplitReads THEN "d_tnode" ELSE "d_check"]
  BY DEF DeqReadTail, Goto
<1>3. TypeOK' /\ OthersStay(p)
  BY ZenonT(60), <1>0, <1>1, <1>2, Same, LocalTypes DEF PCs
<1>4. /\ pc'[p] = IF SplitReads THEN "d_tnode" ELSE "d_check"
      /\ t'[p] = d /\ h'[p] = h[p]
      /\ UNCHANGED <<tail, head, order, allocated, next>>
  BY <1>0, <1>1, <1>2 DEF TypeOK, shared
<1>5. PICK j \in 0..head.count : CopyAt(h[p], j)
  BY <1>2 DEF ThreadInv, DeqInv, HeadCopy
<1>6. CopyAt(h[p], j)' /\ j \in 0..head'.count /\ j <= tail.count
  BY <1>4, <1>5, Counts DEF CopyAt, At, ListInv, EndsInv
<1>7. ~ SplitReads => CopyAt(t[p], tail.count)' /\ tail.count \in 0..tail.count
  BY <1>1, <1>4, Counts DEF CopyAt, At, ListInv, EndsInv
<1>8. DeqInv(p)'
  BY <1>1, <1>4, <1>6, <1>7, Counts DEF DeqInv, HeadCopy
<1>9. EnqInv(p)' /\ VersionInv(p)'
  BY <1>2, <1>4, DeqLocals DEF EnqPCs, EnqOwn
<1> QED BY <1>2, <1>3, <1>8, <1>9, LocalStep DEF ThreadInv

LEMMA DeqReadTailNodeKeeps ==
  ASSUME IInv, NEW p \in Threads, DeqReadTailNode(p)
  PROVE  IInv'
<1> USE DEF IInv
<1> DEFINE d == NodeCopy(t[p], tail)
<1>0. t' = [t EXCEPT ![p] = d]
  BY DEF DeqReadTailNode, CopyNode, NodeCopy
<1>1. d \in Desc /\ d.count = t[p].count /\ d.node = tail.node
  BY Same, CopyType DEF TypeOK
<1> HIDE DEF d
<1>2. /\ UNCHANGED shared /\ UNCHANGED <<node, h, res, ver>>
      /\ pc[p] = "d_tnode" /\ pc' = [pc EXCEPT ![p] = "d_check"]
  BY DEF DeqReadTailNode, Goto
<1>3. TypeOK' /\ OthersStay(p)
  BY ZenonT(60), <1>0, <1>1, <1>2, Same, LocalTypes DEF PCs
<1>4. /\ pc'[p] = "d_check" /\ t'[p] = d /\ h'[p] = h[p]
      /\ UNCHANGED <<tail, head, order, allocated, next>>
      /\ d.count <= tail.count /\ SplitReads
  BY <1>0, <1>1, <1>2 DEF TypeOK, shared, ThreadInv, DeqInv
<1>5. PICK j \in 0..head.count : CopyAt(h[p], j)
  BY <1>2 DEF ThreadInv, DeqInv, HeadCopy
<1>6. CopyAt(h[p], j)' /\ j \in 0..head'.count /\ j <= tail.count
  BY <1>4, <1>5, Counts DEF CopyAt, At, ListInv, EndsInv
<1>7. CopyAt(t[p], tail.count)' /\ tail.count \in 0..tail'.count
  BY <1>1, <1>4, Counts DEF CopyAt, At, ListInv, EndsInv
<1>8. DeqInv(p)'
  BY <1>4, <1>6, <1>7 DEF DeqInv
<1>9. EnqInv(p)' /\ VersionInv(p)'
  BY <1>2, <1>4, DeqLocals DEF EnqPCs, EnqOwn
<1> QED BY <1>2, <1>3, <1>8, <1>9, LocalStep DEF ThreadInv

\* EMPTY is answered only when the head has reached the last node.
LEMMA EmptyAtEnd ==
  ASSUME IInv, NEW p \in Threads, DeqEmpty(p)
  PROVE  head.count = Len(order) /\ tail.count = Len(order)
<1> USE DEF IInv
<1>1. PICK j \in 0..head.count, k \in 0..tail.count :
         CopyAt(h[p], j) /\ CopyAt(t[p], k) /\ j <= k
  BY DEF DeqEmpty, Goto, ThreadInv, DeqInv
<1>2. j \in 0..Len(order) /\ next[At(j)] = Null
  BY <1>1, Counts DEF DeqEmpty, CopyAt, ListInv, EndsInv
<1>3. j = Len(order)
  <2>1. ASSUME j # Len(order) PROVE FALSE
    <3>1. j \in 0..(Len(order) - 1) /\ j + 1 \in 1..Len(order)
      BY <1>2, <2>1, Counts
    <3>2. order[j + 1] # Null
      BY <3>1, MSAssumption, Counts DEF ListInv, OrderInv
    <3> QED BY <1>2, <3>1, <3>2 DEF ListInv, NextInv
  <2> QED BY <2>1
<1> QED BY <1>3, Counts DEF ListInv, EndsInv

LEMMA DeqEmptyKeeps ==
  ASSUME IInv, NEW p \in Threads, DeqEmpty(p)
  PROVE  IInv'
<1> USE DEF IInv
<1>1. /\ UNCHANGED shared /\ UNCHANGED <<node, h, t, ver>>
      /\ pc[p] = "d_check" /\ pc' = [pc EXCEPT ![p] = "d_ret"]
      /\ res' = [res EXCEPT ![p] = EMPTY]
  BY DEF DeqEmpty, Goto
<1>2. TypeOK' /\ OthersStay(p)
  BY <1>1, Same, LocalTypes DEF PCs, EMPTY
<1>3. /\ pc'[p] = "d_ret" /\ node'[p] = 0
      /\ UNCHANGED <<head, tail, allocated>> /\ allocated \in Nat
  BY <1>1, Counts DEF TypeOK, shared, ThreadInv, EnqInv, EnqPCs, EnqOwn
<1>4. EnqInv(p)' /\ DeqInv(p)'
  BY <1>3 DEF EnqInv, DeqInv, EnqPCs, EnqOwn
<1>5. head.count = tail.count
  BY EmptyAtEnd
<1>6. VersionInv(p)'
  BY <1>1, <1>3, <1>5 DEF ThreadInv, VersionInv, EnqPCs, EnqOwn
<1> QED BY <1>1, <1>2, <1>4, <1>6, LocalStep DEF ThreadInv

LEMMA DeqCheckKeeps ==
  ASSUME IInv, NEW p \in Threads, DeqCheck(p)
  PROVE  IInv'
<1> USE DEF IInv
<1>1. PICK to \in {"d_help", "d_swing"} :
         /\ UNCHANGED shared /\ UNCHANGED <<node, h, t, res, ver>>
         /\ pc[p] = "d_check" /\ pc' = [pc EXCEPT ![p] = to]
         /\ to = "d_help" => h[p].node = t[p].node /\ next[h[p].node] # Null
         /\ to = "d_swing" => h[p].node # t[p].node
  BY DEF DeqCheck, Goto
<1>2. TypeOK' /\ OthersStay(p)
  BY <1>1, Same, LocalTypes DEF PCs
<1>3. pc'[p] = to /\ UNCHANGED <<tail, head, order, allocated, next>>
  BY <1>1 DEF TypeOK, shared
<1>4. PICK j \in 0..head.count, k \in 0..tail.count :
         CopyAt(h[p], j) /\ CopyAt(t[p], k) /\ j <= k
  BY <1>1 DEF ThreadInv, DeqInv
<1>5. CopyAt(h[p], j)' /\ CopyAt(t[p], k)'
  BY <1>1, <1>3, <1>4 DEF CopyAt, At
<1>6. to = "d_help" => k < Len(order)
  BY <1>1, <1>4, Counts DEF CopyAt, ListInv, EndsInv, NextInv
<1>7. to = "d_swing" => j < tail.count
  BY <1>1, <1>4, Counts DEF CopyAt
<1>8. DeqInv(p)'
  BY <1>1, <1>3, <1>4, <1>5, <1>6, <1>7 DEF DeqInv, TailLags
<1>9. EnqInv(p)' /\ VersionInv(p)'
  BY <1>1, <1>3, DeqLocals DEF EnqPCs, EnqOwn
<1> QED BY <1>1, <1>2, <1>8, <1>9, LocalStep DEF ThreadInv

LEMMA DeqReturnKeeps ==
  ASSUME IInv, NEW p \in Threads, DeqReturn(p)
  PROVE  IInv'
<1> USE DEF IInv
<1>1. PICK r \in {Null, res[p]}, v \in {Null, ver[p]} :
         /\ UNCHANGED shared
         /\ pc[p] = "d_ret" /\ pc' = [pc EXCEPT ![p] = "idle"]
         /\ node' = [node EXCEPT ![p] = 0]
         /\ h' = [h EXCEPT ![p] = InitDesc] /\ t' = [t EXCEPT ![p] = InitDesc]
         /\ res' = [res EXCEPT ![p] = r] /\ ver' = [ver EXCEPT ![p] = v]
         /\ v # Null => r = res[p]
  BY Same DEF DeqReturn, LeaveScope, Goto
<1>0. r \in Nodes \cup {Null} /\ v \in Nat \cup {Null}
  BY Same
<1>2. TypeOK' /\ OthersStay(p)
  BY <1>0, <1>1, Same, LocalTypes DEF PCs
<1>3. /\ pc'[p] = "idle" /\ node'[p] = 0 /\ res'[p] = r /\ ver'[p] = v
      /\ UNCHANGED <<head, tail, allocated>> /\ allocated \in Nat
  BY <1>1, Counts DEF TypeOK, shared
<1>4. EnqInv(p)' /\ DeqInv(p)'
  BY <1>3 DEF EnqInv, DeqInv, EnqPCs, EnqOwn
<1>5. VersionInv(p)'
  BY <1>1, <1>3 DEF ThreadInv, VersionInv, EnqPCs, EnqOwn
<1> QED BY <1>1, <1>2, <1>3, <1>4, <1>5, LocalStep DEF ThreadInv

-----------------------------------------------------------------------------
\* The steps on shared memory

LEMMA EnqStartKeeps ==
  ASSUME IInv, NEW p \in Threads, EnqStart(p)
  PROVE  IInv'
<1> USE DEF IInv
<1>0. allocated + 1 \in Nodes /\ allocated \in Nat /\ allocated + 1 # 0
  BY Counts DEF EnqStart, Nodes
<1>1. ListInv' /\ Grows
  BY NodeCreated DEF EnqStart
<1>2. TypeOK'
  BY <1>0 DEF EnqStart, Goto, TypeOK, PCs
<1>3. \A q \in Threads : node[q] # allocated + 1 /\ node[q] \in Nodes
  BY Counts, <1>0 DEF ThreadInv, EnqInv, TypeOK
<1>4. OthersStay(p)
  BY <1>0, <1>3 DEF OthersStay, EnqStart, Goto, TypeOK, Linked
<1>5. OwnersInv'
  BY <1>3 DEF OwnersInv, EnqStart, TypeOK
<1>6. LagInv'
  BY <1>4, LagKept DEF EnqStart, Goto
<1>7. /\ pc'[p] = "e_tail" /\ node'[p] = allocated + 1 /\ ver'[p] = Null
      /\ next'[allocated + 1] = Null /\ allocated' = allocated + 1
      /\ order' = order
  BY <1>0 DEF EnqStart, Goto, TypeOK
<1>8. allocated + 1 \notin Linked
  BY <1>0, Counts DEF Linked, ListInv, OrderInv
<1>9. EnqInv(p)'
  BY <1>0, <1>7, <1>8 DEF EnqInv, EnqPCs, EnqOwn, Linked
<1>10. DeqInv(p)' /\ VersionInv(p)'
  BY <1>7 DEF DeqInv, VersionInv
<1> QED BY <1>1, <1>2, <1>4, <1>5, <1>6, <1>9, <1>10, Combine DEF ThreadInv

\* The link succeeds only behind the last node, and the tail is there.
LEMMA LinksAtEnd ==
  ASSUME IInv, NEW p \in Threads, pc[p] = "e_link", next[t[p].node] = Null
  PROVE  /\ t[p].node = At(Len(order)) /\ tail.count = Len(order)
         /\ CopyAt(t[p], Len(order))
<1> USE DEF IInv
<1>1. PICK k \in 0..tail.count : CopyAt(t[p], k)
  BY DEF ThreadInv, EnqInv, TailCopy
<1>2. k \in 0..Len(order) /\ next[At(k)] = Null
  BY <1>1, Counts DEF CopyAt, ListInv, EndsInv
<1>3. k = Len(order)
  <2>1. ASSUME k # Len(order) PROVE FALSE
    <3>1. k \in 0..(Len(order) - 1) /\ k + 1 \in 1..Len(order)
      BY <1>2, <2>1, Counts
    <3>2. order[k + 1] # Null
      BY <3>1, MSAssumption, Counts DEF ListInv, OrderInv
    <3> QED BY <1>2, <3>1, <3>2 DEF ListInv, NextInv
  <2> QED BY <2>1
<1> QED BY <1>1, <1>3, Counts DEF ListInv, EndsInv, CopyAt

LEMMA EnqLinkKeeps ==
  ASSUME IInv, NEW p \in Threads, EnqLink(p)
  PROVE  IInv'
<1> USE DEF IInv
<1>0. /\ pc[p] = "e_link" /\ node[p] # 0 /\ node[p] \in 0..allocated
      /\ node[p] \notin Linked /\ next[node[p]] = Null
  BY DEF EnqLink, Goto, ThreadInv, EnqInv, EnqOwn, EnqPCs
<1>1. CASE next[t[p].node] = Null
  <2>1. /\ pc' = [pc EXCEPT ![p] = "e_swing"]
        /\ next' = [next EXCEPT ![t[p].node] = node[p]]
        /\ order' = Append(order, node[p])
        /\ UNCHANGED <<head, tail, allocated, freed, node, h, t, res, ver>>
    BY <1>1 DEF EnqLink, Goto
  <2>2. /\ t[p].node = At(Len(order)) /\ tail.count = Len(order)
        /\ CopyAt(t[p], Len(order))
    BY <1>0, <1>1, LinksAtEnd
  <2>n. node[p] \in 1..allocated
    BY <1>0, Counts
  <2>3. /\ ListInv' /\ Grows /\ order' \in Seq(Nodes)
        /\ Len(order') = Len(order) + 1 /\ order'[Len(order')] = node[p]
    BY <1>0, <2>1, <2>2, <2>n, NodeLinked
  <2>4. TypeOK'
    <3>1. At(Len(order)) \in Nodes
      BY Positions, Counts
    <3> QED BY <2>1, <2>2, <2>3, <3>1 DEF TypeOK, PCs
  <2>5. OthersStay(p)
    <3>1. ASSUME NEW q \in Threads \ {p}, node[q] # 0, node[q] \notin Linked
          PROVE  node[q] \notin Linked' /\ next'[node[q]] = next[node[q]]
      <4>1. node[q] # node[p]
        BY <3>1 DEF OwnersInv
      <4>2. \A k \in 1..Len(order') : order'[k] = node[p] \/ order'[k] \in Linked
        BY <2>1, <2>3, Counts DEF Linked, Grows
      <4>3. node[q] # At(Len(order))
        BY <3>1, Counts DEF At, Linked
      <4> QED BY <2>1, <2>2, <3>1, <4>1, <4>2, <4>3 DEF Linked, TypeOK
    <3> QED BY <2>1, <3>1 DEF OthersStay, TypeOK
  <2>6. OwnersInv'
    BY <2>1, <2>5, OwnersKept
  <2>7. pc'[p] = "e_swing" /\ node'[p] = node[p]
    BY <2>1 DEF TypeOK
  <2>8. LagInv'
    BY <2>3, <2>7 DEF LagInv
  <2>9. EnqInv(p)'
    <3>1. CopyAt(t[p], Len(order)) /\ t'[p] = t[p] /\ Len(order) \in 0..Len(order)
      BY <2>1, <2>2, Counts
    <3>2. \E k \in 0..tail'.count : /\ CopyAt(t[p], k)'
                                    /\ k < Len(order')
                                    /\ order'[k + 1] = node'[p]
      <4> DEFINE k == Len(order)
      <4>1. k \in 0..tail'.count /\ k < Len(order') /\ order'[k + 1] = node'[p]
        BY <2>1, <2>2, <2>3, Counts
      <4>2. At(Len(order)) = IF Len(order) = 0 THEN 0 ELSE order'[Len(order)]
        BY <2>3, Counts DEF At, Grows
      <4>3. /\ t'[p].count <= k /\ (SplitReads \/ k = t'[p].count)
            /\ t'[p].node = IF k = 0 THEN 0 ELSE order'[k]
        BY <3>1, <4>2 DEF CopyAt
      <4> HIDE DEF k
      <4> QED BY <4>1, <4>3 DEF CopyAt, At
    <3> QED BY <1>0, <2>1, <2>7, <3>2 DEF EnqInv, EnqPCs, EnqOwn
  <2>10. DeqInv(p)' /\ VersionInv(p)'
    BY <1>0, <2>1, <2>7 DEF ThreadInv, DeqInv, VersionInv, EnqPCs, EnqOwn
  <2> QED BY <2>3, <2>4, <2>5, <2>6, <2>8, <2>9, <2>10, Combine DEF ThreadInv
<1>2. CASE next[t[p].node] # Null
  <2>1. /\ pc' = [pc EXCEPT ![p] = "e_tail"]
        /\ UNCHANGED shared /\ UNCHANGED <<node, h, t, res, ver>>
    BY <1>2 DEF EnqLink, Goto, shared
  <2>2. TypeOK' /\ OthersStay(p)
    BY <2>1, Same, LocalTypes DEF PCs
  <2>3. pc'[p] = "e_tail" /\ UNCHANGED <<tail, order, allocated, next>>
    BY <2>1 DEF TypeOK, shared
  <2>4. EnqInv(p)'
    BY <1>0, <2>1, <2>3 DEF EnqInv, EnqPCs, EnqOwn, Linked
  <2>5. DeqInv(p)' /\ VersionInv(p)'
    BY <1>0, <2>1, <2>3 DEF ThreadInv, DeqInv, VersionInv, EnqPCs, EnqOwn
  <2> QED BY <1>0, <2>1, <2>2, <2>4, <2>5, LocalStep DEF ThreadInv
<1> QED BY <1>1, <1>2

\* The compare-and-exchange that moves the tail, whoever does it: it succeeds
\* only for a copy of the last but one position.
LEMMA TailSwing ==
  ASSUME IInv, NEW p \in Threads, NEW k \in 0..tail.count, CopyAt(t[p], k),
         k < Len(order), SwingTail(p, order[k + 1]),
         UNCHANGED <<head, next, allocated, freed, order>>
  PROVE  /\ ListInv' /\ Grows
         /\ tail' \in Desc /\ tail'.node # Null
         /\ tail = t[p] => k = tail.count /\ tail'.count = k + 1 /\ Len(order) = k + 1
         /\ tail # t[p] => tail' = tail
<1> USE DEF IInv
<1>1. CASE tail = t[p]
  <2>1. k = tail.count
    BY <1>1, SameTail
  <2>2. tail' = [node |-> order[tail.count + 1], count |-> tail.count + 1]
    BY <1>1, <2>1 DEF SwingTail
  <2>3. ListInv' /\ Grows /\ tail' \in Desc /\ tail'.node # Null /\ Len(order) = tail.count + 1
    BY <2>1, <2>2, TailMoves
  <2> QED BY <1>1, <2>1, <2>2, <2>3
<1>2. CASE tail # t[p]
  <2>1. UNCHANGED shared
    BY <1>2 DEF SwingTail, shared
  <2>2. ListInv' /\ Grows
    BY <2>1, ListStays
  <2> QED BY <1>2, <2>1, <2>2 DEF shared, TypeOK
<1> QED BY <1>1, <1>2

\* The types when the tail and a program counter change.
LEMMA SwingTypes ==
  ASSUME TypeOK, NEW p \in Threads, NEW to \in PCs, pc' = [pc EXCEPT ![p] = to],
         tail' \in Desc, tail'.node # Null,
         UNCHANGED <<head, next, allocated, freed, node, h, t, res, ver, order>>
  PROVE  TypeOK' /\ OthersStay(p)
<1>1. TypeOK'
  BY DEF TypeOK
<1>2. OthersStay(p)
  BY DEF OthersStay, TypeOK, Linked
<1> QED BY <1>1, <1>2

LEMMA EnqHelpKeeps ==
  ASSUME IInv, NEW p \in Threads, EnqHelp(p)
  PROVE  IInv'
<1> USE DEF IInv
<1>1. /\ pc[p] = "e_help" /\ pc' = [pc EXCEPT ![p] = "e_tail"]
      /\ SwingTail(p, next[t[p].node])
      /\ UNCHANGED <<head, next, allocated, freed, node, h, t, res, ver, order>>
  BY DEF EnqHelp, Goto
<1>2. PICK k \in 0..tail.count : CopyAt(t[p], k) /\ k < Len(order)
  BY <1>1 DEF ThreadInv, EnqInv, TailLags
<1>3. next[t[p].node] = order[k + 1]
  BY <1>2, Counts DEF CopyAt, ListInv, NextInv
<1>4. /\ ListInv' /\ Grows /\ tail' \in Desc /\ tail'.node # Null
      /\ tail' = tail \/ Len(order') = tail'.count
  BY <1>1, <1>2, <1>3, TailSwing
<1>5. TypeOK' /\ OthersStay(p)
  BY <1>1, <1>4, SwingTypes DEF PCs
<1>6. OwnersInv' /\ LagInv'
  BY <1>1, <1>4, <1>5, OwnersKept, LagKept, LagEnds
<1>7. /\ pc'[p] = "e_tail" /\ node'[p] = node[p]
      /\ node[p] # 0 /\ node[p] \in 0..allocated
      /\ node[p] \notin Linked /\ next[node[p]] = Null /\ ver[p] = Null
  BY <1>1 DEF TypeOK, ThreadInv, EnqInv, VersionInv, EnqOwn, EnqPCs
<1>8. EnqInv(p)'
  BY <1>1, <1>7 DEF EnqInv, EnqPCs, EnqOwn, Linked
<1>9. DeqInv(p)' /\ VersionInv(p)'
  BY <1>1, <1>7 DEF DeqInv, VersionInv
<1> QED BY <1>4, <1>5, <1>6, <1>8, <1>9, Combine DEF ThreadInv

LEMMA DeqHelpKeeps ==
  ASSUME IInv, NEW p \in Threads, DeqHelp(p)
  PROVE  IInv'
<1> USE DEF IInv
<1>1. /\ pc[p] = "d_help" /\ pc' = [pc EXCEPT ![p] = "d_head"]
      /\ SwingTail(p, next[t[p].node])
      /\ UNCHANGED <<head, next, allocated, freed, node, h, t, res, ver, order>>
  BY DEF DeqHelp, Goto
<1>2. PICK k \in 0..tail.count : CopyAt(t[p], k) /\ k < Len(order)
  BY <1>1 DEF ThreadInv, DeqInv, TailLags
<1>3. next[t[p].node] = order[k + 1]
  BY <1>2, Counts DEF CopyAt, ListInv, NextInv
<1>4. /\ ListInv' /\ Grows /\ tail' \in Desc /\ tail'.node # Null
      /\ tail' = tail \/ Len(order') = tail'.count
  BY <1>1, <1>2, <1>3, TailSwing
<1>5. TypeOK' /\ OthersStay(p)
  BY <1>1, <1>4, SwingTypes DEF PCs
<1>6. OwnersInv' /\ LagInv'
  BY <1>1, <1>4, <1>5, OwnersKept, LagKept, LagEnds
<1>7. /\ pc'[p] = "d_head" /\ node'[p] = 0 /\ allocated' \in Nat
  BY <1>1, Counts DEF TypeOK, ThreadInv, EnqInv, EnqOwn, EnqPCs
<1>8. EnqInv(p)' /\ DeqInv(p)'
  BY <1>7 DEF EnqInv, DeqInv, EnqPCs, EnqOwn
<1>9. VersionInv(p)'
  <2>1. ver[p] # Null => ver[p] \in Nat /\ ver[p] <= tail.count
    BY DEF ThreadInv, VersionInv, TypeOK
  <2>2. tail.count <= tail'.count /\ tail.count \in Nat /\ tail'.count \in Nat
    BY <1>4, Counts DEF Grows, Desc
  <2> QED BY <1>1, <1>7, <2>1, <2>2 DEF VersionInv, EnqPCs, EnqOwn
<1> QED BY <1>4, <1>5, <1>6, <1>8, <1>9, Combine DEF ThreadInv

\* An enqueuer whose own compare-and-exchange fails has been helped, if its copy
\* of the tail was taken at once.
LEMMA EnqSwingKeeps ==
  ASSUME IInv, NEW p \in Threads, EnqSwing(p)
  PROVE  IInv'
<1> USE DEF IInv
<1>1. /\ pc[p] = "e_swing" /\ pc' = [pc EXCEPT ![p] = "e_ret"]
      /\ SwingTail(p, node[p])
      /\ UNCHANGED <<head, next, allocated, freed, node, h, t, res, ver, order>>
  BY DEF EnqSwing, Goto
<1>2. PICK k \in 0..tail.count : CopyAt(t[p], k) /\ k < Len(order) /\ order[k + 1] = node[p]
  BY <1>1 DEF ThreadInv, EnqInv
<1>4. /\ ListInv' /\ Grows /\ tail' \in Desc /\ tail'.node # Null
      /\ tail = t[p] => k = tail.count /\ tail'.count = k + 1 /\ Len(order) = k + 1
      /\ tail # t[p] => tail' = tail
  BY <1>1, <1>2, TailSwing
<1>5. TypeOK' /\ OthersStay(p)
  BY <1>1, <1>4, SwingTypes DEF PCs
<1>6. OwnersInv'
  BY <1>1, <1>5, OwnersKept
<1>7. tail # t[p] => SplitReads \/ k + 1 <= tail.count
  <2>1. ASSUME tail # t[p], ~ SplitReads PROVE k # tail.count
    BY <1>2, <2>1, Counts DEF CopyAt, ListInv, EndsInv
  <2> QED BY <2>1, Counts
<1>8. k + 1 \in 1..Len(order) /\ (SplitReads \/ k + 1 \in 1..tail'.count)
  BY <1>2, <1>4, <1>7, Counts
<1>9. node'[p] \in Linked' /\ (SplitReads \/ node'[p] \in Published')
  BY <1>1, <1>2, <1>8 DEF Linked, Published
<1>10. LagInv'
  <2>1. CASE tail = t[p]
    BY <1>1, <1>4, <2>1, LagEnds
  <2>2. CASE tail # t[p] /\ ~ SplitReads /\ Len(order) # tail.count
    <3>1. PICK q \in Threads : pc[q] = "e_swing" /\ node[q] = order[Len(order)]
      BY <2>2 DEF LagInv
    <3>2. k + 1 # Len(order) /\ k + 1 \in 1..Len(order) /\ Len(order) \in 1..Len(order)
      BY <1>7, <1>8, <2>2, Counts DEF ListInv, EndsInv
    <3>3. q # p
      BY <1>2, <3>1, <3>2 DEF ListInv, OrderInv
    <3>4. pc'[q] = "e_swing" /\ node'[q] = order'[Len(order')]
      BY <1>1, <3>1, <3>3 DEF TypeOK
    <3> QED BY <3>4 DEF LagInv
  <2>3. CASE tail # t[p] /\ (SplitReads \/ Len(order) = tail.count)
    BY <1>1, <1>4, <2>3 DEF LagInv
  <2> QED BY <2>1, <2>2, <2>3
<1>11. EnqInv(p)'
  <2>1. pc'[p] = "e_ret" /\ node'[p] # 0 /\ node'[p] \in 0..allocated'
    BY <1>1 DEF TypeOK, ThreadInv, EnqInv, EnqPCs
  <2> QED BY <1>9, <2>1 DEF EnqInv, EnqPCs, EnqOwn
<1>12. DeqInv(p)' /\ VersionInv(p)'
  BY <1>1 DEF ThreadInv, DeqInv, VersionInv, TypeOK, EnqPCs, EnqOwn
<1> QED BY <1>4, <1>5, <1>6, <1>10, <1>11, <1>12, Combine DEF ThreadInv

\* A successful compare-and-exchange of the head: there is a node behind it.
LEMMA HeadHasNext ==
  ASSUME IInv, NEW p \in Threads, pc[p] = "d_swing", head = h[p]
  PROVE  /\ head.count < tail.count
         /\ h[p].node = At(head.count)
         /\ next[h[p].node] = order[head.count + 1]
         /\ head.count + 1 \in 1..Len(order)
<1> USE DEF IInv
<1>1. PICK j \in 0..head.count : CopyAt(h[p], j) /\ j < tail.count
  BY DEF ThreadInv, DeqInv
<1>2. j = head.count
  BY <1>1, SameHead
<1> QED BY <1>1, <1>2, Counts DEF ListInv, EndsInv, NextInv, CopyAt

LEMMA DeqSwingKeeps ==
  ASSUME IInv, NEW p \in Threads, DeqSwing(p)
  PROVE  IInv'
<1> USE DEF IInv
<1>0. pc[p] = "d_swing" /\ node[p] = 0
  BY DEF DeqSwing, Goto, ThreadInv, EnqInv, EnqPCs, EnqOwn
<1>1. CASE head = h[p]
  <2>1. /\ pc' = [pc EXCEPT ![p] = "d_ret"]
        /\ head' = [node |-> next[h[p].node], count |-> h[p].count + 1]
        /\ res' = [res EXCEPT ![p] = next[h[p].node]]
        /\ freed' = freed \cup {h[p].node}
        /\ UNCHANGED <<tail, next, allocated, node, h, t, ver, order>>
    BY <1>1 DEF DeqSwing, Goto
  <2>2. /\ head.count < tail.count
        /\ h[p].node = At(head.count)
        /\ next[h[p].node] = order[head.count + 1]
        /\ head.count + 1 \in 1..Len(order)
    BY <1>0, <1>1, HeadHasNext
  <2>3. ListInv' /\ Grows /\ head' \in Desc /\ head'.node # Null /\ freed' \in SUBSET Nodes
    BY <1>1, <2>1, <2>2, HeadMoves
  <2>4. order[head.count + 1] \in Nodes /\ order[head.count + 1] # 0
    BY <2>2, Positions
  <2>5. TypeOK'
    BY <2>1, <2>2, <2>3, <2>4 DEF TypeOK, PCs
  <2>6. OthersStay(p)
    BY <2>1 DEF OthersStay, TypeOK, Linked
  <2>7. OwnersInv' /\ LagInv'
    BY <1>0, <2>1, <2>6, OwnersKept, LagKept
  <2>8. pc'[p] = "d_ret" /\ node'[p] = 0 /\ res'[p] # EMPTY /\ allocated' \in Nat
    BY <1>0, <2>1, <2>2, <2>4, Counts DEF TypeOK, EMPTY
  <2>9. EnqInv(p)' /\ DeqInv(p)'
    BY <2>8 DEF EnqInv, DeqInv, EnqPCs, EnqOwn
  <2>10. VersionInv(p)'
    BY <2>1, <2>8 DEF ThreadInv, VersionInv, EnqPCs, EnqOwn
  <2> QED BY <2>3, <2>5, <2>6, <2>7, <2>9, <2>10, Combine DEF ThreadInv
<1>2. CASE head # h[p]
  <2>1. /\ pc' = [pc EXCEPT ![p] = "d_head"]
        /\ UNCHANGED shared /\ UNCHANGED <<node, h, t, res, ver>>
    BY <1>2 DEF DeqSwing, Goto, shared
  <2>2. TypeOK' /\ OthersStay(p)
    BY <2>1, Same, LocalTypes DEF PCs
  <2>3. pc'[p] = "d_head" /\ UNCHANGED <<tail, allocated>>
    BY <2>1 DEF TypeOK, shared
  <2>4. EnqInv(p)' /\ VersionInv(p)'
    BY <1>0, <2>1, <2>3, DeqLocals DEF EnqPCs, EnqOwn
  <2>5. DeqInv(p)'
    BY <2>3 DEF DeqInv
  <2> QED BY <1>0, <2>1, <2>2, <2>4, <2>5, LocalStep DEF ThreadInv
<1> QED BY <1>1, <1>2

-----------------------------------------------------------------------------
LEMMA InitKeeps ==
  ASSUME Init
  PROVE  IInv
<1> USE DEF Init
<1>1. TypeOK
  BY MSAssumption DEF TypeOK, InitDesc, Desc, Nodes, PCs
<1>2. ListInv
  <2>1. Len(order) = 0 /\ head.count = 0 /\ tail.count = 0 /\ head.node = 0 /\ tail.node = 0
    BY DEF InitDesc
  <2>2. next[0] = Null
    BY MSAssumption DEF Nodes
  <2> QED BY <2>1, <2>2 DEF ListInv, OrderInv, EndsInv, NextInv, FreedInv, At
<1>3. ASSUME NEW p \in Threads PROVE ThreadInv(p)
  BY DEF ThreadInv, EnqInv, DeqInv, VersionInv, EnqPCs, EnqOwn
<1>4. OwnersInv /\ LagInv
  BY DEF OwnersInv, LagInv, InitDesc
<1> QED BY <1>1, <1>2, <1>3, <1>4 DEF IInv

\* IInv is an invariant of the sub-queue, in both builds.
THEOREM ListCorrect == Spec => []IInv
<1>1. Init => IInv
  BY InitKeeps
<1>2. IInv /\ [Next]_vars => IInv'
  <2> SUFFICES ASSUME IInv, [Next]_vars PROVE IInv'
    OBVIOUS
  <2>1. CASE UNCHANGED vars
    BY <2>1 DEF vars, IInv, TypeOK, ListInv, OrderInv, EndsInv, NextInv, FreedInv, At,
                ThreadInv, EnqInv, DeqInv, VersionInv, OwnersInv, LagInv, TailCopy,
                HeadCopy, TailLags, CopyAt, Linked, Published
  <2>2. ASSUME NEW p \in Threads, Start(p) PROVE IInv'
    BY <2>2, EnqStartKeeps, DeqStartKeeps DEF Start
  <2>3. ASSUME NEW p \in Threads, EnqStep(p) PROVE IInv'
    BY <2>3, ReadTailKeeps, ReadTailNodeKeeps, ReadNextKeeps, EnqLinkKeeps,
       EnqHelpKeeps, EnqSwingKeeps, EnqReturnKeeps DEF EnqStep
  <2>4. ASSUME NEW p \in Threads, DeqStep(p) PROVE IInv'
    BY <2>4, ReadHeadKeeps, ReadHeadNodeKeeps, DeqReadTailKeeps, DeqReadTailNodeKeeps,
       DeqEmptyKeeps, DeqCheckKeeps, DeqHelpKeeps, DeqSwingKeeps, DeqReturnKeeps
       DEF DeqStep
  <2> QED BY <2>1, <2>2, <2>3, <2>4 DEF Next
<1> QED BY <1>1, <1>2, PTL DEF Spec

\* The state of the sub-queue keeps its type: no descriptor ever points to NULL.
THEOREM TypeCorrect == Spec => []TypeOK
<1>1. IInv => TypeOK
  BY DEF IInv
<1> QED BY <1>1, ListCorrect, PTL

\* ssmem_free (partial-ms.c:165) is given only nodes that have left the queue for
\* good, in both builds and for any number of threads.
THEOREM FreedNodesUnreachable == Spec => []FreedUnreachable
<1>1. IInv => FreedUnreachable
  <2> SUFFICES ASSUME IInv, NEW n \in {head.node, tail.node} \cup Live, n \in freed
               PROVE  FALSE
    BY DEF FreedUnreachable
  <2> USE DEF IInv
  <2>1. PICK j \in 0..(head.count - 1) : n = At(j)
    BY DEF ListInv, FreedInv
  <2>2. PICK k \in head.count..Len(order) : n = At(k)
    BY SMTT(30), Counts, Positions DEF Live, ListInv, EndsInv
  <2>3. j \in 0..Len(order) /\ k \in 0..Len(order) /\ j # k
    BY Counts DEF ListInv, EndsInv
  <2> QED BY <2>1, <2>2, <2>3, Positions
<1> QED BY <1>1, ListCorrect, PTL

\* What double_collect relies on: with descriptors copied at once, an unchanged
\* tail version after an EMPTY answer means that no returned enqueue is in the
\* sub-queue.
THEOREM VersionIsSound ==
  ASSUME ~ SplitReads
  PROVE  Spec => []SameVersionStillEmpty
<1>1. IInv => SameVersionStillEmpty
  <2> SUFFICES ASSUME IInv, NEW p \in Threads, pc[p] = "idle", res[p] = EMPTY,
                      ver[p] = tail.count, NEW n \in Live
               PROVE  \E q \in Threads : node[q] = n
    BY DEF SameVersionStillEmpty
  <2> USE DEF IInv
  <2>1. ver[p] # Null
    BY Counts, MSAssumption
  <2>2. tail.count <= head.count
    BY <2>1 DEF ThreadInv, VersionInv
  <2>3. PICK k \in (head.count + 1)..Len(order) : n = order[k]
    BY DEF Live
  <2>4. k = Len(order) /\ Len(order) # tail.count
    BY <2>2, <2>3, Counts DEF ListInv, EndsInv
  <2> QED BY <2>3, <2>4 DEF LagInv
<1> QED BY <1>1, ListCorrect, PTL

-----------------------------------------------------------------------------
(***************************************************************************)
(* The Michael-Scott sub-queue implements PartialQueue: every step of      *)
(* ms_enqueue and ms_dequeue is one step of the abstract queue or none.    *)
(* In both builds if an enqueue takes effect when its node is linked       *)
(* (AtLink), and, if descriptors are copied at once, also if it takes      *)
(* effect when the tail moves onto its node (Abstract), which is what ties *)
(* the tail version to the content.                                        *)
(***************************************************************************)

DeqPCs == {"d_head", "d_hnode", "d_tail", "d_tnode", "d_check", "d_help", "d_swing"}

-----------------------------------------------------------------------------
\* Slices of a sequence

LEMMA Slice ==
  ASSUME NEW S, NEW s \in Seq(S), NEW a \in Nat, NEW b \in a..Len(s)
  PROVE  /\ SubSeq(s, a + 1, b) \in Seq(S)
         /\ Len(SubSeq(s, a + 1, b)) = b - a
         /\ \A k \in 1..(b - a) : SubSeq(s, a + 1, b)[k] = s[a + k]
  OBVIOUS

LEMMA SliceGrows ==
  ASSUME NEW S, NEW s \in Seq(S), NEW a \in Nat, NEW b \in a..Len(s),
         NEW c \in a..Len(s), c = b + 1
  PROVE  SubSeq(s, a + 1, c) = Append(SubSeq(s, a + 1, b), s[c])
<1> DEFINE u == SubSeq(s, a + 1, b)
           v == SubSeq(s, a + 1, c)
           e == s[c]
           w == Append(u, e)
<1>1. /\ u \in Seq(S) /\ Len(u) = b - a
      /\ \A k \in 1..(b - a) : u[k] = s[a + k]
  BY Slice
<1>2. /\ v \in Seq(S) /\ Len(v) = c - a
      /\ \A k \in 1..(c - a) : v[k] = s[a + k]
  BY Slice
<1>3. e \in S /\ Len(s) \in Nat
  OBVIOUS
<1> HIDE DEF u, v, e
<1>4. /\ w \in Seq(S) /\ Len(w) = Len(u) + 1
      /\ \A k \in 1..Len(u) : w[k] = u[k]
      /\ w[Len(u) + 1] = e
  BY <1>1, <1>3, AppendProperties
<1> HIDE DEF w
<1>5. Len(v) = Len(w)
  BY <1>1, <1>2, <1>3, <1>4
<1>6. ASSUME NEW k \in 1..Len(v) PROVE v[k] = w[k]
  <2>1. v[k] = s[a + k]
    BY <1>2
  <2>2. CASE k \in 1..Len(u)
    BY <1>1, <1>4, <2>1, <2>2
  <2>3. CASE k = Len(u) + 1
    BY <1>1, <1>3, <1>4, <2>1, <2>3 DEF e
  <2>4. k \in Int /\ Len(u) \in Nat /\ Len(v) = Len(u) + 1
    BY <1>1, <1>2
  <2>5. k \in 1..Len(u) \/ k = Len(u) + 1
    BY <2>4
  <2> QED BY <2>2, <2>3, <2>5
<1>7. v = w
  BY <1>2, <1>4, <1>5, <1>6, SeqEqual
<1> QED BY <1>7 DEF u, v, w, e

\* A new last element does not change what lies before it.
LEMMA SliceKeeps ==
  ASSUME NEW S, NEW s \in Seq(S), NEW a \in Nat, NEW b \in a..Len(s), NEW n \in S
  PROVE  SubSeq(Append(s, n), a + 1, b) = SubSeq(s, a + 1, b)
<1> DEFINE w == Append(s, n)
<1>1. /\ w \in Seq(S) /\ Len(w) = Len(s) + 1
      /\ \A k \in 1..Len(s) : w[k] = s[k]
  BY AppendProperties
<1> HIDE DEF w
<1>2. b \in a..Len(w) /\ Len(s) \in Nat
  BY <1>1
<1>3. /\ SubSeq(w, a + 1, b) \in Seq(S)
      /\ Len(SubSeq(w, a + 1, b)) = b - a
      /\ \A k \in 1..(b - a) : SubSeq(w, a + 1, b)[k] = w[a + k]
  BY <1>1, <1>2, Slice
<1>4. /\ SubSeq(s, a + 1, b) \in Seq(S)
      /\ Len(SubSeq(s, a + 1, b)) = b - a
      /\ \A k \in 1..(b - a) : SubSeq(s, a + 1, b)[k] = s[a + k]
  BY Slice
<1>5. \A k \in 1..(b - a) : a + k \in 1..Len(s)
  BY <1>2
<1>6. \A k \in 1..(b - a) : SubSeq(w, a + 1, b)[k] = SubSeq(s, a + 1, b)[k]
  BY <1>1, <1>3, <1>4, <1>5
<1>7. SubSeq(w, a + 1, b) = SubSeq(s, a + 1, b)
  BY <1>3, <1>4, <1>6, SeqEqual
<1> QED BY <1>7 DEF w

LEMMA SliceTail ==
  ASSUME NEW S, NEW s \in Seq(S), NEW a \in Nat, NEW b \in a..Len(s), a < b
  PROVE  /\ SubSeq(s, a + 1, b) # << >>
         /\ Head(SubSeq(s, a + 1, b)) = s[a + 1]
         /\ Tail(SubSeq(s, a + 1, b)) = SubSeq(s, (a + 1) + 1, b)
<1>1. a + 1 \in 1..Len(s) /\ b \in (a + 1)..Len(s)
  OBVIOUS
<1>2. Len(SubSeq(s, a + 1, b)) # 0
  BY Slice
<1>3. SubSeq(s, a + 1, b) # << >>
  BY <1>2
<1> QED BY <1>1, <1>3, HeadTailOfSubSeq

\* The counts that delimit the content.
LEMMA Ends ==
  ASSUME IInv
  PROVE  /\ head.count \in Nat /\ Len(order) \in Nat /\ order \in Seq(Nodes)
         /\ tail.count \in head.count..Len(order)
         /\ Len(order) \in head.count..Len(order)
  BY Counts DEF IInv, TypeOK, ListInv, EndsInv

-----------------------------------------------------------------------------
\* Linearization at the link

LEMMA RangeIsLinked ==
  ASSUME TypeOK
  PROVE  Range(order) = Linked
  BY RangeEquality DEF TypeOK, Linked

\* What a call has done is told by where its thread is.
LinkedOps ==
  \A p \in Threads :
    /\ pc[p] = "idle" => linkedOp(p) = AtLink!Idle
    /\ pc[p] \in EnqOwn => linkedOp(p) = AtLink!Enq(node[p])
    /\ pc[p] \in {"e_swing", "e_ret"} => linkedOp(p) = AtLink!EnqDone(node[p])
    /\ pc[p] \in DeqPCs => linkedOp(p) = AtLink!Deq
    /\ pc[p] = "d_ret" => linkedOp(p) = AtLink!DeqDone(res[p])

LEMMA LinkedOpsHold == IInv => LinkedOps
<1> SUFFICES ASSUME IInv, NEW p \in Threads
             PROVE  /\ pc[p] = "idle" => linkedOp(p) = AtLink!Idle
                    /\ pc[p] \in EnqOwn => linkedOp(p) = AtLink!Enq(node[p])
                    /\ pc[p] \in {"e_swing", "e_ret"} => linkedOp(p) = AtLink!EnqDone(node[p])
                    /\ pc[p] \in DeqPCs => linkedOp(p) = AtLink!Deq
                    /\ pc[p] = "d_ret" => linkedOp(p) = AtLink!DeqDone(res[p])
  BY DEF LinkedOps
<1> USE DEF IInv
<1>1. Range(order) = Linked /\ 0 \notin Linked /\ Published \subseteq Linked /\ 0 \notin Published
  <2>1. Range(order) = Linked
    BY RangeIsLinked
  <2>2. 0 \notin Linked
    BY Positions DEF Linked
  <2>3. \A k \in 1..tail.count : k \in 1..Len(order)
    BY Counts DEF ListInv, EndsInv
  <2> QED BY <2>1, <2>2, <2>3 DEF Linked, Published
<1>2. EnqInv(p)
  BY DEF ThreadInv
<1>3. CASE pc[p] \in EnqOwn
  <2>1. node[p] \notin Linked /\ node[p] # 0
    BY <1>2, <1>3 DEF EnqInv, EnqPCs
  <2> QED BY <1>1, <1>3, <2>1 DEF linkedOp, absOp, AtLink!Enq, EnqOwn, DeqPCs
<1>4. CASE pc[p] \in {"e_swing", "e_ret"}
  <2>1. node[p] \in Linked
    BY <1>2, <1>4, Counts DEF EnqInv, Linked
  <2> QED BY <1>1, <1>4, <2>1 DEF linkedOp, AtLink!EnqDone, EnqOwn, DeqPCs
<1>5. CASE pc[p] \notin EnqPCs
  <2>1. node[p] = 0
    BY <1>2, <1>5 DEF EnqInv
  <2> QED BY <1>1, <1>5, <2>1 DEF linkedOp, absOp, AtLink!Idle, AtLink!Deq, AtLink!DeqDone,
                                  EnqPCs, EnqOwn, DeqPCs, EMPTY
<1> QED BY <1>3, <1>4, <1>5 DEF EnqPCs

LinkOp == [p \in Threads |-> linkedOp(p)]
LinkItems == SubSeq(order, head.count + 1, Len(order))

\* The threads that do not step.
StayAt(p) ==
  \A q \in Threads \ {p} : pc'[q] = pc[q] /\ node'[q] = node[q] /\ res'[q] = res[q]

LEMMA LinkOpStep ==
  ASSUME IInv, IInv', NEW p \in Threads, StayAt(p)
  PROVE  LinkOp' = [LinkOp EXCEPT ![p] = linkedOp(p)']
<1>1. LinkedOps /\ LinkedOps'
  <2>1. IInv' => LinkedOps'
    BY LinkedOpsHold, PTL
  <2> QED BY <2>1, LinkedOpsHold
<1>2. ASSUME NEW q \in Threads \ {p} PROVE linkedOp(q)' = linkedOp(q)
  <2>1. pc'[q] = pc[q] /\ node'[q] = node[q] /\ res'[q] = res[q] /\ pc[q] \in PCs
    BY DEF StayAt, IInv, TypeOK
  <2>2. /\ AtLink!Idle' = AtLink!Idle /\ AtLink!Deq' = AtLink!Deq
        /\ (AtLink!Enq(node[q]))' = AtLink!Enq(node'[q])
        /\ (AtLink!EnqDone(node[q]))' = AtLink!EnqDone(node'[q])
        /\ (AtLink!DeqDone(res[q]))' = AtLink!DeqDone(res'[q])
    BY DEF AtLink!Idle, AtLink!Deq, AtLink!Enq, AtLink!EnqDone, AtLink!DeqDone, EMPTY
  <2> QED BY <1>1, <2>1, <2>2 DEF LinkedOps, PCs, EnqOwn, DeqPCs
<1> QED BY <1>2 DEF LinkOp

\* The abstract queue does not move: the list is as before and the thread has got
\* no further with its call.
LEMMA LinkStutter ==
  ASSUME IInv, IInv', NEW p \in Threads, StayAt(p), UNCHANGED <<head, order>>,
         node'[p] = node[p],
         \/ pc[p] \in EnqOwn /\ pc'[p] \in EnqOwn
         \/ pc[p] \in {"e_swing", "e_ret"} /\ pc'[p] \in {"e_swing", "e_ret"}
         \/ pc[p] \in DeqPCs /\ pc'[p] \in DeqPCs
  PROVE  UNCHANGED AtLink!vars
<1>1. LinkedOps /\ LinkedOps'
  <2>1. IInv' => LinkedOps'
    BY LinkedOpsHold, PTL
  <2> QED BY <2>1, LinkedOpsHold
<1>2. linkedOp(p)' = linkedOp(p)
  BY <1>1 DEF LinkedOps, AtLink!Deq, AtLink!Enq, AtLink!EnqDone, EMPTY
<1>3. LinkOp' = LinkOp
  BY <1>2, LinkOpStep DEF LinkOp
<1> QED BY <1>3 DEF AtLink!vars, LinkOp

\* Calls and returns.
LEMMA LinkCalls ==
  ASSUME IInv, IInv', NEW p \in Threads, Start(p) \/ EnqReturn(p) \/ DeqReturn(p)
  PROVE  AtLink!Next
<1>0. TypeOK /\ LinkedOps /\ LinkedOps'
  <2>1. IInv' => LinkedOps'
    BY LinkedOpsHold, PTL
  <2> QED BY <2>1, LinkedOpsHold DEF IInv
<1>1. StayAt(p) /\ UNCHANGED <<head, order>>
  BY <1>0 DEF StayAt, TypeOK, Start, EnqStart, DeqStart, DeqCollect, EnqReturn, DeqReturn,
              LeaveScope, Goto, shared
<1>2. LinkOp' = [LinkOp EXCEPT ![p] = linkedOp(p)'] /\ LinkOp[p] = linkedOp(p)
  BY <1>1, LinkOpStep DEF LinkOp
<1>3. CASE EnqStart(p)
  <2>1. /\ pc[p] = "idle" /\ pc'[p] = "e_tail" /\ node'[p] = allocated + 1
        /\ allocated + 1 \in 1..MaxNodes
    BY <1>0, <1>3, Counts DEF EnqStart, Goto, TypeOK
  <2>2. linkedOp(p) = AtLink!Idle /\ linkedOp(p)' = AtLink!Enq(allocated + 1)
    BY <1>0, <2>1 DEF LinkedOps, EnqOwn, AtLink!Enq
  <2>3. AtLink!CallEnq(p, allocated + 1)
    BY <1>1, <1>2, <2>2 DEF AtLink!CallEnq, LinkOp
  <2> QED BY <2>1, <2>3 DEF AtLink!Next
<1>4. CASE DeqStart(p) \/ DeqCollect(p)
  <2>1. pc[p] = "idle" /\ pc'[p] = "d_head"
    BY <1>0, <1>4 DEF DeqStart, DeqCollect, Goto, TypeOK
  <2>2. linkedOp(p) = AtLink!Idle /\ linkedOp(p)' = AtLink!Deq
    BY <1>0, <2>1 DEF LinkedOps, DeqPCs, AtLink!Deq, EMPTY
  <2>3. AtLink!CallDeq(p)
    BY <1>1, <1>2, <2>2 DEF AtLink!CallDeq, LinkOp
  <2> QED BY <2>3 DEF AtLink!Next
<1>5. CASE EnqReturn(p)
  <2>1. pc[p] = "e_ret" /\ pc'[p] = "idle"
    BY <1>0, <1>5 DEF EnqReturn, Goto, TypeOK
  <2>2. linkedOp(p).st = "enqDone" /\ linkedOp(p)' = AtLink!Idle
    BY <1>0, <2>1 DEF LinkedOps, AtLink!EnqDone, AtLink!Idle, EMPTY
  <2>3. AtLink!Return(p)
    BY <1>1, <1>2, <2>2 DEF AtLink!Return, LinkOp
  <2> QED BY <2>3 DEF AtLink!Next
<1>6. CASE DeqReturn(p)
  <2>1. pc[p] = "d_ret" /\ pc'[p] = "idle"
    BY <1>0, <1>6 DEF DeqReturn, Goto, TypeOK
  <2>2. linkedOp(p).st = "deqDone" /\ linkedOp(p)' = AtLink!Idle
    BY <1>0, <2>1 DEF LinkedOps, AtLink!DeqDone, AtLink!Idle, EMPTY
  <2>3. AtLink!Return(p)
    BY <1>1, <1>2, <2>2 DEF AtLink!Return, LinkOp
  <2> QED BY <2>3 DEF AtLink!Next
<1> QED BY <1>3, <1>4, <1>5, <1>6 DEF Start

\* enq_cae: the abstract queue appends, or the enqueuer starts over.
LEMMA LinkEnqueues ==
  ASSUME IInv, IInv', NEW p \in Threads, EnqLink(p)
  PROVE  AtLink!Next \/ UNCHANGED AtLink!vars
<1>0. TypeOK /\ LinkedOps /\ LinkedOps'
  <2>1. IInv' => LinkedOps'
    BY LinkedOpsHold, PTL
  <2> QED BY <2>1, LinkedOpsHold DEF IInv
<1>1. CASE next[t[p].node] = Null
  <2>1. /\ pc[p] = "e_link" /\ pc' = [pc EXCEPT ![p] = "e_swing"]
        /\ order' = Append(order, node[p]) /\ UNCHANGED <<head, node, res>>
    BY <1>1 DEF EnqLink, Goto
  <2>2. StayAt(p) /\ pc'[p] = "e_swing" /\ node[p] \in Nodes /\ order \in Seq(Nodes)
    BY <1>0, <2>1 DEF StayAt, TypeOK
  <2>3. LinkOp' = [LinkOp EXCEPT ![p] = linkedOp(p)'] /\ LinkOp[p] = linkedOp(p)
    BY <2>2, LinkOpStep DEF LinkOp
  <2>4. linkedOp(p) = AtLink!Enq(node[p]) /\ linkedOp(p)' = AtLink!EnqDone(node[p])
    BY <1>0, <2>1, <2>2 DEF LinkedOps, EnqOwn, AtLink!EnqDone
  <2>5. Len(order') = Len(order) + 1 /\ order'[Len(order')] = node[p]
    BY <2>1, <2>2, AppendProperties
  <2>6. LinkItems' = Append(LinkItems, node[p])
    <3>0. /\ head.count \in Nat /\ Len(order) \in Nat /\ order' \in Seq(Nodes)
          /\ Len(order) \in head.count..Len(order)
          /\ Len(order) \in head.count..Len(order') /\ Len(order') \in head.count..Len(order')
      BY <2>2, <2>5, Ends DEF IInv, TypeOK
    <3>2. SubSeq(order', head.count + 1, Len(order'))
            = Append(SubSeq(order', head.count + 1, Len(order)), order'[Len(order')])
      BY <2>5, <3>0, SliceGrows
    <3>3. SubSeq(order', head.count + 1, Len(order)) = LinkItems
      BY ZenonT(60), <2>1, <2>2, <3>0, SliceKeeps DEF LinkItems
    <3> QED BY <2>1, <2>5, <3>2, <3>3 DEF LinkItems
  <2>7. /\ LinkOp[p].st = "enq" /\ LinkOp[p].val = node[p]
        /\ LinkOp' = [LinkOp EXCEPT ![p] = AtLink!EnqDone(node[p])]
    BY <2>3, <2>4 DEF AtLink!Enq
  <2>8. AtLink!LinEnq(p)
    BY <2>5, <2>6, <2>7 DEF AtLink!LinEnq, LinkOp, LinkItems, AtLink!EnqDone
  <2> QED BY <2>8 DEF AtLink!Next
<1>2. CASE next[t[p].node] # Null
  <2>1. /\ pc[p] = "e_link" /\ pc' = [pc EXCEPT ![p] = "e_tail"]
        /\ UNCHANGED <<head, node, order, res>>
    BY <1>2 DEF EnqLink, Goto
  <2>2. StayAt(p) /\ pc'[p] = "e_tail"
    BY <1>0, <2>1 DEF StayAt, TypeOK
  <2> QED BY <2>1, <2>2, LinkStutter DEF EnqOwn
<1> QED BY <1>1, <1>2

\* EMPTY is answered while the abstract queue is empty.
LEMMA LinkEmpty ==
  ASSUME IInv, IInv', NEW p \in Threads, DeqEmpty(p)
  PROVE  AtLink!Next
<1>0. TypeOK /\ LinkedOps /\ LinkedOps'
  <2>1. IInv' => LinkedOps'
    BY LinkedOpsHold, PTL
  <2> QED BY <2>1, LinkedOpsHold DEF IInv
<1>1. /\ pc[p] = "d_check" /\ pc'[p] = "d_ret" /\ res'[p] = EMPTY /\ StayAt(p)
      /\ UNCHANGED <<head, order>>
  BY <1>0 DEF DeqEmpty, Goto, StayAt, TypeOK, shared
<1>2. LinkOp' = [LinkOp EXCEPT ![p] = linkedOp(p)'] /\ LinkOp[p] = linkedOp(p)
  BY <1>1, LinkOpStep DEF LinkOp
<1>3. linkedOp(p) = AtLink!Deq /\ linkedOp(p)' = AtLink!DeqDone(EMPTY)
  BY <1>0, <1>1 DEF LinkedOps, DeqPCs, AtLink!DeqDone
<1>4. LinkItems = << >>
  <2>1. head.count = Len(order) /\ head.count \in Nat
    BY EmptyAtEnd, Counts DEF IInv
  <2>2. LinkItems \in Seq(Nodes) /\ Len(LinkItems) = 0
    BY <2>1, Ends, Slice DEF LinkItems
  <2> QED BY <2>2, EmptySeq
<1>5. AtLink!LinEmpty(p)
  BY <1>1, <1>2, <1>3, <1>4 DEF AtLink!LinEmpty, LinkOp, LinkItems
<1> QED BY <1>5 DEF AtLink!Next

\* deq_cae: the abstract queue loses its first item, or the dequeuer starts over.
LEMMA LinkDequeues ==
  ASSUME IInv, IInv', NEW p \in Threads, DeqSwing(p)
  PROVE  AtLink!Next \/ UNCHANGED AtLink!vars
<1>0. TypeOK /\ LinkedOps /\ LinkedOps'
  <2>1. IInv' => LinkedOps'
    BY LinkedOpsHold, PTL
  <2> QED BY <2>1, LinkedOpsHold DEF IInv
<1>1. CASE head = h[p]
  <2>1. /\ pc[p] = "d_swing" /\ pc' = [pc EXCEPT ![p] = "d_ret"]
        /\ head' = [node |-> next[h[p].node], count |-> h[p].count + 1]
        /\ res' = [res EXCEPT ![p] = next[h[p].node]]
        /\ UNCHANGED <<node, order>>
    BY <1>1 DEF DeqSwing, Goto
  <2>2. /\ StayAt(p) /\ pc'[p] = "d_ret" /\ res'[p] = next[h[p].node]
        /\ head'.count = head.count + 1
    BY <1>0, <1>1, <2>1 DEF StayAt, TypeOK
  <2>3. LinkOp' = [LinkOp EXCEPT ![p] = linkedOp(p)'] /\ LinkOp[p] = linkedOp(p)
    BY <2>2, LinkOpStep DEF LinkOp
  <2>4. /\ head.count + 1 \in 1..Len(order)
        /\ next[h[p].node] = order[head.count + 1]
    BY <1>1, <2>1, HeadHasNext
  <2>5. linkedOp(p) = AtLink!Deq /\ linkedOp(p)' = AtLink!DeqDone(order[head.count + 1])
    BY <1>0, <2>1, <2>2, <2>4 DEF LinkedOps, DeqPCs, AtLink!DeqDone
  <2>6. /\ LinkItems # << >> /\ Head(LinkItems) = order[head.count + 1]
        /\ Tail(LinkItems) = LinkItems'
    <3>1. head.count < Len(order)
      BY <2>4, Ends
    <3>2. /\ head.count \in Nat /\ order \in Seq(Nodes)
          /\ Len(order) \in head.count..Len(order)
      BY Ends
    <3>3. /\ SubSeq(order, head.count + 1, Len(order)) # << >>
          /\ Head(SubSeq(order, head.count + 1, Len(order))) = order[head.count + 1]
          /\ Tail(SubSeq(order, head.count + 1, Len(order)))
               = SubSeq(order, (head.count + 1) + 1, Len(order))
      BY <3>1, <3>2, SliceTail
    <3>4. LinkItems' = SubSeq(order, (head.count + 1) + 1, Len(order))
      BY <2>1, <2>2 DEF LinkItems
    <3> QED BY <3>3, <3>4 DEF LinkItems
  <2>7. AtLink!LinDeq(p)
    BY <2>1, <2>3, <2>5, <2>6 DEF AtLink!LinDeq, LinkOp, LinkItems
  <2> QED BY <2>7 DEF AtLink!Next
<1>2. CASE head # h[p]
  <2>1. /\ pc[p] = "d_swing" /\ pc' = [pc EXCEPT ![p] = "d_head"]
        /\ UNCHANGED <<head, node, order, res>>
    BY <1>2 DEF DeqSwing, Goto
  <2>2. StayAt(p) /\ pc'[p] = "d_head"
    BY <1>0, <2>1 DEF StayAt, TypeOK
  <2> QED BY <2>1, <2>2, LinkStutter DEF DeqPCs
<1> QED BY <1>1, <1>2

LEMMA LinkOthers ==
  ASSUME IInv, IInv', NEW p \in Threads,
         \/ EnqReadTail(p) \/ EnqReadTailNode(p) \/ EnqReadNext(p) \/ EnqHelp(p)
         \/ EnqSwing(p) \/ DeqReadHead(p) \/ DeqReadHeadNode(p) \/ DeqReadTail(p)
         \/ DeqReadTailNode(p) \/ DeqCheck(p) \/ DeqHelp(p)
  PROVE  UNCHANGED AtLink!vars
<1>0. TypeOK
  BY DEF IInv
<1>1. StayAt(p) /\ UNCHANGED <<head, order, node, res>>
  BY <1>0 DEF StayAt, TypeOK, EnqReadTail, EnqReadTailNode, EnqReadNext, EnqHelp,
     EnqSwing, DeqReadHead, DeqReadHeadNode, DeqReadTail, DeqReadTailNode, DeqCheck,
     DeqHelp, Goto, shared
<1>2. \/ pc[p] \in EnqOwn /\ pc'[p] \in EnqOwn
      \/ pc[p] \in {"e_swing", "e_ret"} /\ pc'[p] \in {"e_swing", "e_ret"}
      \/ pc[p] \in DeqPCs /\ pc'[p] \in DeqPCs
  BY <1>0 DEF TypeOK, EnqReadTail, EnqReadTailNode, EnqReadNext, EnqHelp,
     EnqSwing, DeqReadHead, DeqReadHeadNode, DeqReadTail, DeqReadTailNode, DeqCheck,
     DeqHelp, Goto, EnqOwn, DeqPCs
<1> QED BY <1>1, <1>2, LinkStutter

\* ms_enqueue and ms_dequeue are a linearizable FIFO queue in both builds, whatever
\* the number of threads: every step is a step of PartialQueue or none, if an
\* enqueue takes effect when its node is linked.
THEOREM LinearizableQueue == Spec => LinearizableAtLink
<1>1. Init => AtLink!Init
  <2> SUFFICES ASSUME Init PROVE AtLink!Init
    OBVIOUS
  <2>1. SubSeq(order, head.count + 1, Len(order)) = << >> /\ Len(order) = 0
    BY DEF Init, InitDesc
  <2>2. \A p \in Threads : linkedOp(p) = AtLink!Idle
    <3>1. IInv
      BY InitKeeps
    <3> QED BY <3>1, LinkedOpsHold DEF LinkedOps, Init
  <2> QED BY <2>1, <2>2 DEF AtLink!Init
<1>2. IInv /\ IInv' /\ [Next]_vars => [AtLink!Next]_(AtLink!vars)
  <2> SUFFICES ASSUME IInv, IInv', [Next]_vars
               PROVE  AtLink!Next \/ UNCHANGED AtLink!vars
    OBVIOUS
  <2>1. CASE UNCHANGED vars
    BY <2>1 DEF vars, AtLink!vars, linkedOp, absOp, Published
  <2>2. ASSUME NEW p \in Threads, Start(p) \/ EnqStep(p) \/ DeqStep(p)
        PROVE  AtLink!Next \/ UNCHANGED AtLink!vars
    BY <2>2, LinkCalls, LinkEnqueues, LinkEmpty, LinkDequeues, LinkOthers
       DEF EnqStep, DeqStep
  <2> QED BY <2>1, <2>2 DEF Next
<1> QED BY <1>1, <1>2, ListCorrect, PTL DEF Spec, LinearizableAtLink, AtLink!Spec

-----------------------------------------------------------------------------
\* Linearization when the tail moves (descriptors copied at once)

PublishedOps ==
  \A p \in Threads :
    /\ pc[p] = "idle" => absOp(p) = Abstract!Idle
    /\ pc[p] \in EnqPCs =>
         absOp(p) = IF node[p] \in Published THEN Abstract!EnqDone(node[p])
                                             ELSE Abstract!Enq(node[p])
    /\ pc[p] \in DeqPCs => absOp(p) = Abstract!Deq
    /\ pc[p] = "d_ret" => absOp(p) = Abstract!DeqDone(res[p])

LEMMA PublishedOpsHold == IInv => PublishedOps
<1> SUFFICES ASSUME IInv, NEW p \in Threads
             PROVE  /\ pc[p] = "idle" => absOp(p) = Abstract!Idle
                    /\ pc[p] \in EnqPCs =>
                         absOp(p) = IF node[p] \in Published
                                    THEN Abstract!EnqDone(node[p])
                                    ELSE Abstract!Enq(node[p])
                    /\ pc[p] \in DeqPCs => absOp(p) = Abstract!Deq
                    /\ pc[p] = "d_ret" => absOp(p) = Abstract!DeqDone(res[p])
  BY DEF PublishedOps
<1>1. EnqInv(p)
  BY DEF IInv, ThreadInv
<1>2. CASE pc[p] \in EnqPCs
  <2>1. node[p] # 0
    BY <1>1, <1>2 DEF EnqInv
  <2> QED BY <1>2, <2>1 DEF absOp, Abstract!Enq, Abstract!EnqDone, EnqPCs, EnqOwn, DeqPCs
<1>3. CASE pc[p] \notin EnqPCs
  <2>1. node[p] = 0
    BY <1>1, <1>3 DEF EnqInv
  <2>2. 0 \notin Published
    <3>1. \A k \in 1..tail.count : k \in 1..Len(order)
      BY Counts DEF IInv, ListInv, EndsInv
    <3> QED BY <3>1, Positions DEF IInv, Published
  <2> QED BY <1>3, <2>1, <2>2 DEF absOp, Abstract!Idle, Abstract!Deq, Abstract!DeqDone,
                                  EnqPCs, EnqOwn, DeqPCs, EMPTY
<1> QED BY <1>2, <1>3

AbsOp == [p \in Threads |-> absOp(p)]
AbsItems == SubSeq(order, head.count + 1, tail.count)

\* The thread is no further with its call.
SameCall(p) ==
  \/ pc[p] \in EnqPCs /\ pc'[p] \in EnqPCs /\ node'[p] = node[p]
  \/ pc[p] \in DeqPCs /\ pc'[p] \in DeqPCs
  \/ pc'[p] = pc[p] /\ node'[p] = node[p] /\ res'[p] = res[p]

LEMMA AbsOpKept ==
  ASSUME IInv, IInv', NEW p \in Threads, SameCall(p),
         node[p] \in Published' <=> node[p] \in Published
  PROVE  absOp(p)' = absOp(p)
<1>1. PublishedOps /\ PublishedOps'
  <2>1. IInv' => PublishedOps'
    BY PublishedOpsHold, PTL
  <2> QED BY <2>1, PublishedOpsHold
<1>2. pc[p] \in PCs
  BY DEF IInv, TypeOK
<1>3. /\ Abstract!Idle' = Abstract!Idle /\ Abstract!Deq' = Abstract!Deq
      /\ (Abstract!Enq(node[p]))' = Abstract!Enq(node'[p])
      /\ (Abstract!EnqDone(node[p]))' = Abstract!EnqDone(node'[p])
      /\ (Abstract!DeqDone(res[p]))' = Abstract!DeqDone(res'[p])
  BY DEF Abstract!Idle, Abstract!Deq, Abstract!Enq, Abstract!EnqDone, Abstract!DeqDone, EMPTY
<1> QED BY <1>1, <1>2, <1>3 DEF PublishedOps, SameCall, PCs, EnqPCs, EnqOwn, DeqPCs

\* Only thread p gets further with its call.
LEMMA AbsOpStep ==
  ASSUME IInv, IInv', NEW p \in Threads, Published' = Published,
         \A q \in Threads \ {p} : SameCall(q)
  PROVE  AbsOp' = [AbsOp EXCEPT ![p] = absOp(p)'] /\ AbsOp[p] = absOp(p)
<1>1. \A q \in Threads \ {p} : absOp(q)' = absOp(q)
  BY AbsOpKept
<1> QED BY <1>1 DEF AbsOp

LEMMA StayIsSame ==
  ASSUME NEW p \in Threads, StayAt(p)
  PROVE  \A q \in Threads \ {p} : SameCall(q)
  BY DEF StayAt, SameCall

LEMMA AbsStutter ==
  ASSUME IInv, IInv', NEW p \in Threads, StayAt(p), SameCall(p), UNCHANGED <<head, tail, order>>
  PROVE  UNCHANGED Abstract!vars
<1>1. Published' = Published
  BY DEF Published
<1>2. absOp(p)' = absOp(p)
  BY <1>1, AbsOpKept
<1>3. AbsOp' = AbsOp
  BY <1>1, <1>2, AbsOpStep, StayIsSame DEF AbsOp
<1> QED BY <1>3 DEF Abstract!vars, AbsOp

LEMMA AbsCalls ==
  ASSUME IInv, IInv', ~ SplitReads, NEW p \in Threads,
         Start(p) \/ EnqReturn(p) \/ DeqReturn(p)
  PROVE  Abstract!Next
<1>0. TypeOK /\ PublishedOps /\ PublishedOps'
  <2>1. IInv' => PublishedOps'
    BY PublishedOpsHold, PTL
  <2> QED BY <2>1, PublishedOpsHold DEF IInv
<1>1. StayAt(p) /\ UNCHANGED <<head, tail, order>>
  BY <1>0 DEF StayAt, TypeOK, Start, EnqStart, DeqStart, DeqCollect, EnqReturn, DeqReturn,
              LeaveScope, Goto, shared
<1>2. AbsOp' = [AbsOp EXCEPT ![p] = absOp(p)'] /\ AbsOp[p] = absOp(p)
  <2>1. Published' = Published
    BY <1>1 DEF Published
  <2> QED BY <1>1, <2>1, AbsOpStep, StayIsSame
<1>3. CASE EnqStart(p)
  <2>1. /\ pc[p] = "idle" /\ pc'[p] = "e_tail" /\ node'[p] = allocated + 1
        /\ allocated + 1 \in 1..MaxNodes
    BY <1>0, <1>3, Counts DEF EnqStart, Goto, TypeOK
  <2>2. allocated + 1 \notin Published
    <3>1. \A k \in 1..tail.count : k \in 1..Len(order)
      BY Counts DEF IInv, ListInv, EndsInv
    <3>2. \A k \in 1..Len(order) : order[k] \in 1..allocated
      BY DEF IInv, ListInv, OrderInv
    <3> QED BY <3>1, <3>2, Counts DEF IInv, Published
  <2>3. Published' = Published
    BY <1>1 DEF Published
  <2>4. absOp(p) = Abstract!Idle /\ absOp(p)' = Abstract!Enq(allocated + 1)
    BY <1>0, <2>1, <2>2, <2>3 DEF PublishedOps, EnqPCs, EnqOwn, Abstract!Enq
  <2>5. Abstract!CallEnq(p, allocated + 1)
    BY <1>1, <1>2, <2>4 DEF Abstract!CallEnq, AbsOp
  <2> QED BY <2>1, <2>5 DEF Abstract!Next
<1>4. CASE DeqStart(p) \/ DeqCollect(p)
  <2>1. pc[p] = "idle" /\ pc'[p] = "d_head"
    BY <1>0, <1>4 DEF DeqStart, DeqCollect, Goto, TypeOK
  <2>2. absOp(p) = Abstract!Idle /\ absOp(p)' = Abstract!Deq
    BY <1>0, <2>1 DEF PublishedOps, DeqPCs, Abstract!Deq, EMPTY
  <2>3. Abstract!CallDeq(p)
    BY <1>1, <1>2, <2>2 DEF Abstract!CallDeq, AbsOp
  <2> QED BY <2>3 DEF Abstract!Next
<1>5. CASE EnqReturn(p)
  <2>1. pc[p] = "e_ret" /\ pc'[p] = "idle"
    BY <1>0, <1>5 DEF EnqReturn, Goto, TypeOK
  <2>2. node[p] \in Published
    BY <2>1 DEF IInv, ThreadInv, EnqInv
  <2>3. absOp(p).st = "enqDone" /\ absOp(p)' = Abstract!Idle
    BY <1>0, <2>1, <2>2 DEF PublishedOps, EnqPCs, Abstract!EnqDone, Abstract!Idle, EMPTY
  <2>4. Abstract!Return(p)
    BY <1>1, <1>2, <2>3 DEF Abstract!Return, AbsOp
  <2> QED BY <2>4 DEF Abstract!Next
<1>6. CASE DeqReturn(p)
  <2>1. pc[p] = "d_ret" /\ pc'[p] = "idle"
    BY <1>0, <1>6 DEF DeqReturn, Goto, TypeOK
  <2>2. absOp(p).st = "deqDone" /\ absOp(p)' = Abstract!Idle
    BY <1>0, <2>1 DEF PublishedOps, Abstract!DeqDone, Abstract!Idle, EMPTY
  <2>3. Abstract!Return(p)
    BY <1>1, <1>2, <2>2 DEF Abstract!Return, AbsOp
  <2> QED BY <2>3 DEF Abstract!Next
<1> QED BY <1>3, <1>4, <1>5, <1>6 DEF Start

\* Linking a node publishes nothing yet.
LEMMA AbsLinks ==
  ASSUME IInv, IInv', NEW p \in Threads, EnqLink(p)
  PROVE  UNCHANGED Abstract!vars
<1>0. TypeOK
  BY DEF IInv
<1>1. CASE next[t[p].node] = Null
  <2>1. /\ pc[p] = "e_link" /\ pc' = [pc EXCEPT ![p] = "e_swing"]
        /\ order' = Append(order, node[p]) /\ UNCHANGED <<head, tail, node, res>>
    BY <1>1 DEF EnqLink, Goto
  <2>2. \A q \in Threads : SameCall(q)
    BY <1>0, <2>1 DEF SameCall, TypeOK, EnqPCs, EnqOwn
  <2>3. node[p] \in Nodes /\ order \in Seq(Nodes)
    BY <1>0 DEF TypeOK
  <2>4. \A k \in 1..tail.count : order'[k] = order[k]
    <3>1. \A k \in 1..tail.count : k \in 1..Len(order)
      BY <1>0, Counts DEF IInv, ListInv, EndsInv
    <3> QED BY <2>1, <2>3, <3>1, AppendProperties
  <2>5. Published' = Published
    BY <2>1, <2>4 DEF Published
  <2>6. AbsOp' = AbsOp
    BY <2>2, <2>5, AbsOpKept DEF AbsOp
  <2>7. AbsItems' = AbsItems
    <3>1. head.count \in Nat /\ tail.count \in head.count..Len(order)
      BY Ends
    <3>2. SubSeq(Append(order, node[p]), head.count + 1, tail.count)
            = SubSeq(order, head.count + 1, tail.count)
      BY <2>3, <3>1, SliceKeeps
    <3> QED BY <2>1, <3>2 DEF AbsItems
  <2> QED BY <2>1, <2>6, <2>7 DEF Abstract!vars, AbsOp, AbsItems
<1>2. CASE next[t[p].node] # Null
  <2>1. /\ pc[p] = "e_link" /\ pc' = [pc EXCEPT ![p] = "e_tail"]
        /\ UNCHANGED <<head, tail, node, order, res>>
    BY <1>2 DEF EnqLink, Goto
  <2>2. StayAt(p) /\ SameCall(p)
    BY <1>0, <2>1 DEF StayAt, SameCall, TypeOK, EnqPCs, EnqOwn
  <2> QED BY <2>1, <2>2, AbsStutter
<1> QED BY <1>1, <1>2

\* A step that moves the tail publishes the last node, for the thread that linked
\* it and has not moved the tail itself.
LEMMA AbsTailMoves ==
  ASSUME IInv, IInv', ~ SplitReads, \A p \in Threads : SameCall(p),
         tail'.count = tail.count + 1, UNCHANGED <<head, order, node>>
  PROVE  Abstract!Next
<1>0. TypeOK /\ Len(order) = tail.count + 1 /\ tail'.count = Len(order) /\ tail.count \in Nat
  <2>1. tail'.count <= Len(order)
    BY DEF IInv, ListInv, EndsInv
  <2> QED BY <2>1, Counts DEF IInv, ListInv, EndsInv
<1>1. PICK q \in Threads : pc[q] = "e_swing" /\ node[q] = order[Len(order)]
  BY <1>0 DEF IInv, LagInv
<1>2. Published' = Published \cup {node[q]}
  <2>1. 1..(tail.count + 1) = (1..tail.count) \cup {tail.count + 1}
    BY <1>0
  <2> QED BY <1>0, <1>1, <2>1 DEF Published
<1>3. node[q] \notin Published
  <2>1. \A k \in 1..tail.count : k \in 1..Len(order) /\ k # Len(order) /\ Len(order) \in 1..Len(order)
    BY <1>0
  <2> QED BY <1>1, <2>1 DEF IInv, ListInv, OrderInv, Published
<1>4. ASSUME NEW r \in Threads \ {q} PROVE absOp(r)' = absOp(r)
  <2>1. node[r] # node[q]
    <3>1. node[q] # 0
      BY <1>1 DEF IInv, ThreadInv, EnqInv, EnqPCs
    <3> QED BY <3>1 DEF IInv, OwnersInv
  <2> QED BY <1>2, <2>1, AbsOpKept
<1>5. PublishedOps /\ PublishedOps'
  <2>1. IInv' => PublishedOps'
    BY PublishedOpsHold, PTL
  <2> QED BY <2>1, PublishedOpsHold
<1>6. absOp(q) = Abstract!Enq(node[q]) /\ absOp(q)' = Abstract!EnqDone(node[q])
  <2>1. pc[q] \in EnqPCs /\ pc'[q] \in EnqPCs /\ node'[q] = node[q]
    BY <1>1 DEF SameCall, EnqPCs, EnqOwn, DeqPCs
  <2>2. absOp(q) = Abstract!Enq(node[q])
    BY <1>3, <1>5, <2>1 DEF PublishedOps
  <2>3. absOp(q)' = Abstract!EnqDone(node[q])
    BY <1>2, <1>5, <2>1 DEF PublishedOps, Abstract!EnqDone
  <2> QED BY <2>2, <2>3
<1>7. /\ AbsOp[q].st = "enq" /\ AbsOp[q].val = node[q]
      /\ AbsOp' = [AbsOp EXCEPT ![q] = Abstract!EnqDone(node[q])]
  <2>1. AbsOp[q].st = "enq" /\ AbsOp[q].val = node[q]
    BY <1>6 DEF AbsOp, Abstract!Enq
  <2>2. AbsOp' = [AbsOp EXCEPT ![q] = absOp(q)']
    BY <1>4 DEF AbsOp
  <2> QED BY <1>6, <2>1, <2>2
<1>8. AbsItems' = Append(AbsItems, node[q])
  <2>1. /\ head.count \in Nat /\ order \in Seq(Nodes)
        /\ tail.count \in head.count..Len(order) /\ Len(order) \in head.count..Len(order)
    BY Ends
  <2>2. SubSeq(order, head.count + 1, Len(order))
          = Append(SubSeq(order, head.count + 1, tail.count), order[Len(order)])
    BY <1>0, <2>1, SliceGrows
  <2> QED BY <1>0, <1>1, <2>2 DEF AbsItems
<1>9. Abstract!LinEnq(q)
  BY <1>0, <1>7, <1>8 DEF Abstract!LinEnq, AbsOp, AbsItems, Abstract!EnqDone
<1> QED BY <1>9 DEF Abstract!Next

LEMMA AbsHelps ==
  ASSUME IInv, IInv', ~ SplitReads, NEW p \in Threads, EnqHelp(p) \/ EnqSwing(p) \/ DeqHelp(p)
  PROVE  Abstract!Next \/ UNCHANGED Abstract!vars
<1>0. TypeOK
  BY DEF IInv
<1>1. /\ UNCHANGED <<head, order, node, res>>
      /\ StayAt(p) /\ SameCall(p)
  BY <1>0 DEF StayAt, SameCall, TypeOK, EnqHelp, EnqSwing, DeqHelp, Goto, EnqPCs, EnqOwn, DeqPCs
<1>2. CASE tail = t[p]
  <2>1. tail'.count = tail.count + 1
    BY <1>2 DEF EnqHelp, EnqSwing, DeqHelp, SwingTail
  <2>2. \A q \in Threads : SameCall(q)
    BY <1>1, StayIsSame
  <2> QED BY <1>1, <2>1, <2>2, AbsTailMoves
<1>3. CASE tail # t[p]
  <2>1. tail' = tail
    BY <1>3 DEF EnqHelp, EnqSwing, DeqHelp, SwingTail
  <2> QED BY <1>1, <2>1, AbsStutter
<1> QED BY <1>2, <1>3

LEMMA AbsEmpty ==
  ASSUME IInv, IInv', NEW p \in Threads, DeqEmpty(p)
  PROVE  Abstract!Next
<1>0. TypeOK /\ PublishedOps /\ PublishedOps'
  <2>1. IInv' => PublishedOps'
    BY PublishedOpsHold, PTL
  <2> QED BY <2>1, PublishedOpsHold DEF IInv
<1>1. /\ pc[p] = "d_check" /\ pc'[p] = "d_ret" /\ res'[p] = EMPTY /\ StayAt(p)
      /\ UNCHANGED <<head, tail, order>>
  BY <1>0 DEF DeqEmpty, Goto, StayAt, TypeOK, shared
<1>2. AbsOp' = [AbsOp EXCEPT ![p] = absOp(p)'] /\ AbsOp[p] = absOp(p)
  <2>1. Published' = Published
    BY <1>1 DEF Published
  <2> QED BY <1>1, <2>1, AbsOpStep, StayIsSame
<1>3. absOp(p) = Abstract!Deq /\ absOp(p)' = Abstract!DeqDone(EMPTY)
  BY <1>0, <1>1 DEF PublishedOps, DeqPCs, Abstract!DeqDone
<1>4. AbsItems = << >>
  <2>1. head.count = tail.count /\ head.count \in Nat
    BY EmptyAtEnd, Counts DEF IInv, ListInv, EndsInv
  <2>2. AbsItems \in Seq(Nodes) /\ Len(AbsItems) = 0
    BY <2>1, Ends, Slice DEF AbsItems
  <2> QED BY <2>2, EmptySeq
<1>5. Abstract!LinEmpty(p)
  BY <1>1, <1>2, <1>3, <1>4 DEF Abstract!LinEmpty, AbsOp, AbsItems
<1> QED BY <1>5 DEF Abstract!Next

LEMMA AbsDequeues ==
  ASSUME IInv, IInv', NEW p \in Threads, DeqSwing(p)
  PROVE  Abstract!Next \/ UNCHANGED Abstract!vars
<1>0. TypeOK /\ PublishedOps /\ PublishedOps'
  <2>1. IInv' => PublishedOps'
    BY PublishedOpsHold, PTL
  <2> QED BY <2>1, PublishedOpsHold DEF IInv
<1>1. CASE head = h[p]
  <2>1. /\ pc[p] = "d_swing" /\ pc' = [pc EXCEPT ![p] = "d_ret"]
        /\ head' = [node |-> next[h[p].node], count |-> h[p].count + 1]
        /\ res' = [res EXCEPT ![p] = next[h[p].node]]
        /\ UNCHANGED <<tail, node, order>>
    BY <1>1 DEF DeqSwing, Goto
  <2>2. /\ StayAt(p) /\ pc'[p] = "d_ret" /\ res'[p] = next[h[p].node]
        /\ head'.count = head.count + 1
    BY <1>0, <1>1, <2>1 DEF StayAt, TypeOK
  <2>3. AbsOp' = [AbsOp EXCEPT ![p] = absOp(p)'] /\ AbsOp[p] = absOp(p)
    <3>1. Published' = Published
      BY <2>1 DEF Published
    <3> QED BY <2>2, <3>1, AbsOpStep, StayIsSame
  <2>4. /\ head.count + 1 \in 1..Len(order)
        /\ next[h[p].node] = order[head.count + 1]
    BY <1>1, <2>1, HeadHasNext
  <2>5. absOp(p) = Abstract!Deq /\ absOp(p)' = Abstract!DeqDone(order[head.count + 1])
    BY <1>0, <2>1, <2>2, <2>4 DEF PublishedOps, DeqPCs, Abstract!DeqDone
  <2>6. /\ AbsItems # << >> /\ Head(AbsItems) = order[head.count + 1]
        /\ Tail(AbsItems) = AbsItems'
    <3>1. head.count < tail.count
      <4>1. head'.count <= tail.count
        BY <2>1 DEF IInv, ListInv, EndsInv
      <4> QED BY <2>2, <4>1, Ends
    <3>2. /\ head.count \in Nat /\ order \in Seq(Nodes)
          /\ tail.count \in head.count..Len(order)
      BY Ends
    <3>3. /\ SubSeq(order, head.count + 1, tail.count) # << >>
          /\ Head(SubSeq(order, head.count + 1, tail.count)) = order[head.count + 1]
          /\ Tail(SubSeq(order, head.count + 1, tail.count))
               = SubSeq(order, (head.count + 1) + 1, tail.count)
      BY <3>1, <3>2, SliceTail
    <3>4. AbsItems' = SubSeq(order, (head.count + 1) + 1, tail.count)
      BY <2>1, <2>2 DEF AbsItems
    <3> QED BY <3>3, <3>4 DEF AbsItems
  <2>7. Abstract!LinDeq(p)
    BY <2>1, <2>3, <2>5, <2>6 DEF Abstract!LinDeq, AbsOp, AbsItems
  <2> QED BY <2>7 DEF Abstract!Next
<1>2. CASE head # h[p]
  <2>1. /\ pc[p] = "d_swing" /\ pc' = [pc EXCEPT ![p] = "d_head"]
        /\ UNCHANGED <<head, tail, node, order, res>>
    BY <1>2 DEF DeqSwing, Goto
  <2>2. StayAt(p) /\ SameCall(p)
    BY <1>0, <2>1 DEF StayAt, SameCall, TypeOK, DeqPCs
  <2> QED BY <2>1, <2>2, AbsStutter
<1> QED BY <1>1, <1>2

LEMMA AbsReads ==
  ASSUME IInv, IInv', NEW p \in Threads,
         \/ EnqReadTail(p) \/ EnqReadTailNode(p) \/ EnqReadNext(p)
         \/ DeqReadHead(p) \/ DeqReadHeadNode(p) \/ DeqReadTail(p)
         \/ DeqReadTailNode(p) \/ DeqCheck(p)
  PROVE  UNCHANGED Abstract!vars
<1>0. TypeOK
  BY DEF IInv
<1>1. StayAt(p) /\ UNCHANGED <<head, tail, order>> /\ SameCall(p)
  BY <1>0 DEF StayAt, SameCall, TypeOK, EnqReadTail, EnqReadTailNode, EnqReadNext,
     DeqReadHead, DeqReadHeadNode, DeqReadTail, DeqReadTailNode, DeqCheck,
     Goto, shared, EnqPCs, EnqOwn, DeqPCs
<1> QED BY <1>1, AbsStutter

\* In the build that copies a descriptor at once the sub-queue is the queue that
\* d-balanced-queue.c takes it for: items appear, and the tail version counts
\* them, in the same instant, before the enqueue returns, whoever moves the tail.
THEOREM ImplementsPartialQueue ==
  ASSUME ~ SplitReads
  PROVE  Spec => IsPartialQueue
<1>1. Init => Abstract!Init
  <2> SUFFICES ASSUME Init PROVE Abstract!Init
    OBVIOUS
  <2>1. SubSeq(order, head.count + 1, tail.count) = << >> /\ tail.count = 0
    BY DEF Init, InitDesc
  <2>2. \A p \in Threads : absOp(p) = Abstract!Idle
    <3>1. IInv
      BY InitKeeps
    <3> QED BY <3>1, PublishedOpsHold DEF PublishedOps, Init
  <2> QED BY <2>1, <2>2 DEF Abstract!Init
<1>2. IInv /\ IInv' /\ [Next]_vars => [Abstract!Next]_(Abstract!vars)
  <2> SUFFICES ASSUME IInv, IInv', [Next]_vars
               PROVE  Abstract!Next \/ UNCHANGED Abstract!vars
    OBVIOUS
  <2>1. CASE UNCHANGED vars
    BY <2>1 DEF vars, Abstract!vars, absOp, Published
  <2>2. ASSUME NEW p \in Threads, Start(p) \/ EnqStep(p) \/ DeqStep(p)
        PROVE  Abstract!Next \/ UNCHANGED Abstract!vars
    BY <2>2, AbsCalls, AbsLinks, AbsHelps, AbsEmpty, AbsDequeues, AbsReads
       DEF EnqStep, DeqStep
  <2> QED BY <2>1, <2>2 DEF Next
<1> QED BY <1>1, <1>2, ListCorrect, PTL DEF Spec, IsPartialQueue, Abstract!Spec
=============================================================================
