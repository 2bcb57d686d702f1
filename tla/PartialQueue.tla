---------------------------- MODULE PartialQueue ----------------------------
(***************************************************************************)
(* What d-balanced-queue.c expects of a sub-queue: the interface that      *)
(* partial-ms.h publishes through the macros PARTIAL_ENQUEUE,              *)
(* PARTIAL_DEQUEUE, PARTIAL_TAIL_VERSION, PARTIAL_ENQ_COUNT and            *)
(* PARTIAL_DEQ_COUNT.  Every call takes effect at one instant between its  *)
(* call and its return: an enqueue appends and advances the tail version   *)
(* in the same instant, a dequeue takes the oldest item, and EMPTY is      *)
(* answered only at an instant when there is no item.                      *)
(***************************************************************************)
EXTENDS Naturals, Sequences

CONSTANTS Threads,   \* the threads that call the sub-queue
          Items,     \* the values, one per enqueue call
          Empty      \* the EMPTY answer, not an item

VARIABLES items,     \* the content, oldest first
          version,   \* number of enqueues so far: the tail version
          op         \* what each thread's current call has done

vars == <<items, version, op>>

Idle       == [st |-> "idle", val |-> Empty]
Enq(x)     == [st |-> "enq", val |-> x]
EnqDone(x) == [st |-> "enqDone", val |-> x]
Deq        == [st |-> "deq", val |-> Empty]
DeqDone(x) == [st |-> "deqDone", val |-> x]

Ops == {Idle, Deq} \cup {Enq(x) : x \in Items} \cup {EnqDone(x) : x \in Items}
         \cup {DeqDone(x) : x \in Items \cup {Empty}}

TypeOK == /\ items \in Seq(Items)
          /\ version \in Nat
          /\ op \in [Threads -> Ops]

\* PARTIAL_DEQ_COUNT: the items that have left
DeqCount == version - Len(items)

Init == /\ items = << >>
        /\ version = 0
        /\ op = [t \in Threads |-> Idle]

CallEnq(t, x) == /\ op[t] = Idle
                 /\ op' = [op EXCEPT ![t] = Enq(x)]
                 /\ UNCHANGED <<items, version>>

LinEnq(t) == /\ op[t].st = "enq"
             /\ items' = Append(items, op[t].val)
             /\ version' = version + 1
             /\ op' = [op EXCEPT ![t] = EnqDone(op[t].val)]

CallDeq(t) == /\ op[t] = Idle
              /\ op' = [op EXCEPT ![t] = Deq]
              /\ UNCHANGED <<items, version>>

LinDeq(t) == /\ op[t] = Deq
             /\ items # << >>
             /\ items' = Tail(items)
             /\ op' = [op EXCEPT ![t] = DeqDone(Head(items))]
             /\ UNCHANGED version

LinEmpty(t) == /\ op[t] = Deq
               /\ items = << >>
               /\ op' = [op EXCEPT ![t] = DeqDone(Empty)]
               /\ UNCHANGED <<items, version>>

Return(t) == /\ op[t].st \in {"enqDone", "deqDone"}
             /\ op' = [op EXCEPT ![t] = Idle]
             /\ UNCHANGED <<items, version>>

Next == \E t \in Threads :
          \/ \E x \in Items : CallEnq(t, x)
          \/ LinEnq(t) \/ CallDeq(t) \/ LinDeq(t) \/ LinEmpty(t) \/ Return(t)

Spec == Init /\ [][Next]_vars
=============================================================================
