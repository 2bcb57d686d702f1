----------------------------- MODULE ChoiceStack -----------------------------
(***************************************************************************)
(* Arrays of Treiber stacks: the d-RA stack (stack-dra.c), the random      *)
(* multi-stack (multi-stack_random-relaxed.c), which differs in what the   *)
(* timestamp of a node is, and the Treiber stack itself (stack-treiber.c), *)
(* an array of one.  An operation samples sub-stacks at random, goes on    *)
(* with the one whose top has the best timestamp, and samples again if its *)
(* compare-and-exchange fails.  A pop answers empty on the evidence of the *)
(* sub-stack it chose.                                                     *)
(*                                                                         *)
(* A node is its item.  It is private until it is pushed, so pushing it    *)
(* also fills it in; after that it does not change.  Nodes are not reused  *)
(* (ssmem, external).                                                      *)
(***************************************************************************)
EXTENDS CallHistory, FiniteSets

CONSTANTS Threads,
          Width,       \* number of sub-stacks
          Choices,     \* the builds: values of NUM_CHOICES, 1 when undefined
          MaxPuts,     \* bound: number of push calls
          MaxGets      \* bound: number of pop calls

NULL == 0
Stacks == 0..(Width - 1)
Items == 1..MaxPuts

VARIABLES mem,   \* the design and build, the tops, and the nodes
          pc, loc, hist

vars == <<mem, pc, loc, hist>>

\* The designs.
stack_dra   == [array |-> TRUE,  ticks |-> FALSE]
multi_stack == [array |-> TRUE,  ticks |-> TRUE]
treiber     == [array |-> FALSE, ticks |-> FALSE]

NoLocals == [val |-> NULL, index |-> 0, node |-> NULL, samples |-> 0]

NoNode == [next |-> NULL, timestamp |-> 0, at |-> 0]

\* create_stack
Init == /\ \E d \in {stack_dra, multi_stack, treiber}, c \in Choices :
             /\ ~d.array => c = 1
             /\ mem = [design |-> d, choices |-> c, top |-> [s \in Stacks |-> NULL],
                       node |-> [x \in Items |-> NoNode]]
        /\ pc = [p \in Threads |-> "idle"]
        /\ loc = [p \in Threads |-> NoLocals]
        /\ hist = NewHistory(Threads)

Goto(p, from, to) == pc[p] = from /\ pc' = [pc EXCEPT ![p] = to]

\* random_index
Indices == IF mem.design.array THEN Stacks ELSE {0}

\* One more random index, with the top of that sub-stack; it replaces the one held
\* if it is better.
Sample(p, Better(_, _), Enough(_), at, then) ==
  LET l == loc[p]
  IN  \E s \in Indices :
        LET new  == IF l.samples = 0 \/ Better(mem.top[s], l.node)
                    THEN [l EXCEPT !.index = s, !.node = mem.top[s]] ELSE l
            more == l.samples + 1 < mem.choices /\ ~Enough(new.node)
        IN  /\ Goto(p, at, IF more THEN at ELSE then)
            /\ loc' = [loc EXCEPT ![p] = [new EXCEPT !.samples = IF more THEN @ + 1 ELSE 0]]
            /\ UNCHANGED <<mem, hist>>

\* Nothing but the item is kept for the next round of the loop.
Retry(p) == loc' = [loc EXCEPT ![p] = [NoLocals EXCEPT !.val = loc[p].val]]

\* stack_cae: does the top still point to the node read?
Same(p) == mem.top[loc[p].index] = loc[p].node

-----------------------------------------------------------------------------
Push(p) ==
  /\ Issued(hist) < MaxPuts
  /\ Goto(p, "idle", "push_index")
  /\ hist' = BeginPut(hist)
  /\ loc' = [loc EXCEPT ![p] = [NoLocals EXCEPT !.val = Issued(hist) + 1]]
  /\ UNCHANGED mem

Lower(node2, node1) == \/ node2 = NULL
                       \/ node1 # NULL /\ mem.node[node2].timestamp < mem.node[node1].timestamp

IsNull(node) == node = NULL

get_push_index(p) == Sample(p, Lower, IsNull, "push_index", "push_cae")

\* getticks(), a clock that every call moves; or the number of nodes below
Timestamp(node) == IF mem.design.ticks THEN Issued(hist) + hist.gets
                   ELSE IF node = NULL THEN 0 ELSE mem.node[node].timestamp + 1

PushCAE(p) ==
  IF Same(p)
  THEN /\ Goto(p, "push_cae", "idle")
       /\ mem' = [mem EXCEPT !.top[loc[p].index] = loc[p].val,
                             !.node[loc[p].val] = [next |-> loc[p].node, at |-> loc[p].index,
                                                   timestamp |-> Timestamp(loc[p].node)]]
       /\ hist' = EndPut(hist, loc[p].val)
       /\ loc' = [loc EXCEPT ![p] = NoLocals]
  ELSE /\ Goto(p, "push_cae", "push_index")
       /\ Retry(p)
       /\ UNCHANGED <<mem, hist>>

-----------------------------------------------------------------------------
Pop(p) ==
  /\ hist.gets < MaxGets
  /\ Goto(p, "idle", "pop_index")
  /\ hist' = BeginGet(hist, p)
  /\ loc' = [loc EXCEPT ![p] = NoLocals]
  /\ UNCHANGED mem

Higher(node2, node1) ==
  \/ node1 = NULL
  \/ node2 # NULL /\ mem.node[node2].timestamp > mem.node[node1].timestamp

Never(node) == FALSE

get_pop_index(p) == Sample(p, Higher, Never, "pop_index", "pop_cae")

\* The items that were pushed on sub-stack s.
PushedOn(s) == {x \in hist.done : mem.node[x].at = s}

PopEmpty(p) ==
  /\ loc[p].node = NULL
  /\ Goto(p, "pop_cae", "idle")
  /\ hist' = EndEmptyOf(hist, p, PushedOn(loc[p].index))
  /\ loc' = [loc EXCEPT ![p] = NoLocals]
  /\ UNCHANGED mem

\* the items pushed on the same sub-stack after x
Above(x) == {y \in PushedOn(mem.node[x].at) : x \in hist.before[y]}

PopCAE(p) ==
  /\ loc[p].node # NULL
  /\ IF Same(p)
     THEN /\ Goto(p, "pop_cae", "idle")
          /\ mem' = [mem EXCEPT !.top[loc[p].index] = mem.node[loc[p].node].next]
          /\ hist' = EndGetOver(hist, p, loc[p].node, Above(loc[p].node))
          /\ loc' = [loc EXCEPT ![p] = NoLocals]
     ELSE /\ Goto(p, "pop_cae", "pop_index")
          /\ Retry(p)
          /\ UNCHANGED <<mem, hist>>

-----------------------------------------------------------------------------
Step(p) == get_push_index(p) \/ PushCAE(p) \/ get_pop_index(p) \/ PopEmpty(p) \/ PopCAE(p)

Next == \E p \in Threads : Push(p) \/ Pop(p) \/ Step(p)

Spec == Init /\ [][Next]_vars
=============================================================================
