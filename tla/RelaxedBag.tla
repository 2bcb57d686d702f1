------------------------------ MODULE RelaxedBag ------------------------------
(***************************************************************************)
(* What a relaxed container promises whatever order it serves items in:    *)
(* each put adds one item, each successful get removes one item that was   *)
(* there, and a get answers EMPTY only if at some instant between its call *)
(* and its return the container held nothing (empty-linearizability, which *)
(* README.md says the d-CBO queues keep and only the Simple d-CBO queues   *)
(* give up).                                                               *)
(***************************************************************************)
CONSTANTS Threads,
          Items      \* one value per put call

VARIABLES bag,       \* the items in the container
          used,      \* the items some put was called with
          op,        \* the call each thread is in: "idle", "get" or <<x>>
          sawEmpty   \* the getters during whose call the bag has been empty

vars == <<bag, used, op, sawEmpty>>

Getters == {t \in Threads : op[t] = <<"get">>}

TypeOK == /\ bag \in SUBSET Items
          /\ used \in SUBSET Items
          /\ op \in [Threads -> {<<"idle">>, <<"get">>} \cup ({"put"} \X Items)]
          /\ sawEmpty \in SUBSET Threads

Init == /\ bag = {}
        /\ used = {}
        /\ op = [t \in Threads |-> <<"idle">>]
        /\ sawEmpty = {}

\* Every step is observed by the gets in progress.
Observe == sawEmpty' = IF bag' = {} THEN Getters' ELSE sawEmpty \cap Getters'

CallPut(t, x) == /\ op[t] = <<"idle">>
                 /\ x \notin used
                 /\ op' = [op EXCEPT ![t] = <<"put", x>>]
                 /\ used' = used \cup {x}
                 /\ UNCHANGED bag

Put(t, x) == /\ op[t] = <<"put", x>>
             /\ bag' = bag \cup {x}
             /\ op' = [op EXCEPT ![t] = <<"idle">>]
             /\ UNCHANGED used

CallGet(t) == /\ op[t] = <<"idle">>
              /\ op' = [op EXCEPT ![t] = <<"get">>]
              /\ UNCHANGED <<bag, used>>

Get(t, x) == /\ op[t] = <<"get">>
             /\ x \in bag
             /\ bag' = bag \ {x}
             /\ op' = [op EXCEPT ![t] = <<"idle">>]
             /\ UNCHANGED used

GetEmpty(t) == /\ op[t] = <<"get">>
               /\ t \in sawEmpty
               /\ op' = [op EXCEPT ![t] = <<"idle">>]
               /\ UNCHANGED <<bag, used>>

Next == /\ \E t \in Threads : \/ \E x \in Items : CallPut(t, x) \/ Put(t, x) \/ Get(t, x)
                              \/ CallGet(t) \/ GetEmpty(t)
        /\ Observe

Spec == Init /\ [][Next]_vars
=============================================================================
