------------------------------ MODULE Window2Dd ------------------------------
(***************************************************************************)
(* The decoupled 2D window, include/2Dd-window.c, which the 2Dd queue,     *)
(* stack and counter include.  Width sub-structures carry a put count and  *)
(* a get count; a put (get) may use a sub-structure whose count is below   *)
(* the global put (get) window, and a thread that finds none moves the     *)
(* window up by Depth.  The module has the state of the search and the     *)
(* steps of put_window and get_window; the structure that uses it adds the *)
(* rest of its operations.                                                 *)
(*                                                                         *)
(* A descriptor is read by one 16-byte load (-O3).  A count also names the *)
(* node the descriptor points to, so only counts appear.                   *)
(***************************************************************************)
EXTENDS Integers

CONSTANTS Threads,
          Width,        \* number of sub-structures
          Depth,        \* how far a shift moves a window
          RandomHops,   \* set->random_hops
          OneArray      \* put_array and get_array are one array of descriptors

ASSUME WindowAssumption == /\ Width \in Nat \ {0}
                           /\ Depth \in Nat \ {0}
                           /\ RandomHops \in Nat
                           /\ OneArray \in BOOLEAN

Subs == 0..(Width - 1)

VARIABLES put, get,     \* put_count and get_count of each sub-structure
          PW, GW,       \* global_PWindow.max, global_GWindow.max
          pc,
          idx,          \* thread_index: survives the operation
          win,          \* thread_PWindow.max or thread_GWindow.max
          contention,   \* the last CAS of the operation failed
          hops, random, \* linear and random hops of the search
          notempty,     \* get_window has seen a sub-structure that is not empty
          desc,         \* the descriptor the search has read
          tailCount     \* put_count as read by get_window and by dequeue

searchVars == <<idx, win, contention, hops, random, notempty, desc, tailCount>>
globalVars == <<put, get, PW, GW>>
windowVars == <<globalVars, pc, searchVars>>

NoDesc == [put |-> 0, get |-> 0]

\* initialize_global_window sets both windows to depth; create_counter and
\* create_stack do not call it and leave them at 0.
WindowInit(max) ==
  /\ put = [q \in Subs |-> 0] /\ get = [q \in Subs |-> 0]
  /\ PW = max /\ GW = max
  /\ idx = [t \in Threads |-> 0]
  /\ win = [t \in Threads |-> 0]
  /\ contention = [t \in Threads |-> FALSE]
  /\ hops = [t \in Threads |-> 0]
  /\ random = [t \in Threads |-> 0]
  /\ notempty = [t \in Threads |-> FALSE]
  /\ desc = [t \in Threads |-> NoDesc]
  /\ tailCount = [t \in Threads |-> 0]

SearchPCs == {"p_enter", "p_desc", "p_window", "p_shift", "p_resync", "p_done",
              "g_enter", "g_desc", "g_count", "g_window", "g_shift", "g_resync",
              "g_done"}

WindowTypes ==
  /\ put \in [Subs -> Nat] /\ get \in [Subs -> Nat]
  /\ PW \in Nat /\ GW \in Nat
  /\ idx \in [Threads -> Subs]
  /\ win \in [Threads -> Nat]
  /\ contention \in [Threads -> BOOLEAN]
  /\ hops \in [Threads -> 0..Width]
  /\ random \in [Threads -> 0..RandomHops]
  /\ notempty \in [Threads -> BOOLEAN]
  /\ desc \in [Threads -> [put : Nat, get : Nat]]
  /\ tailCount \in [Threads -> Nat]

Goto(t, from, to) == pc[t] = from /\ pc' = [pc EXCEPT ![t] = to]

\* What a load of put_array[q].descriptor or get_array[q].descriptor returns.
PutDesc(q) == [put |-> put[q], get |-> IF OneArray THEN get[q] ELSE 0]
GetDesc(q) == [put |-> IF OneArray THEN put[q] ELSE 0, get |-> get[q]]

\* Mutation: the index is not wrapped.
HopNoWrap(t) ==
  IF random[t] < RandomHops
  THEN /\ random' = [random EXCEPT ![t] = @ + 1]
       /\ \E q \in Subs : idx' = [idx EXCEPT ![t] = q]
       /\ UNCHANGED hops
  ELSE /\ hops' = [hops EXCEPT ![t] = @ + 1]
       /\ idx' = [idx EXCEPT ![t] = IF @ + 1 > Width THEN 0 ELSE @ + 1]
       /\ UNCHANGED random

\* hop: random at first, then to the next sub-structure
Hop(t) ==
  IF random[t] < RandomHops
  THEN /\ random' = [random EXCEPT ![t] = @ + 1]
       /\ \E q \in Subs : idx' = [idx EXCEPT ![t] = q]
       /\ UNCHANGED hops
  ELSE /\ hops' = [hops EXCEPT ![t] = @ + 1]
       /\ idx' = [idx EXCEPT ![t] = IF @ + 1 >= Width THEN 0 ELSE @ + 1]
       /\ UNCHANGED random

\* The head of both searches: a random sub-structure after contention, the
\* thread's copy of the window brought up to date.
Enter(t, window) ==
  /\ \E q \in Subs : /\ contention[t] \/ q = idx[t]
                     /\ idx' = [idx EXCEPT ![t] = q]
  /\ win' = [win EXCEPT ![t] = window]
  /\ hops' = [hops EXCEPT ![t] = 0]
  /\ random' = [random EXCEPT ![t] = 0]
  /\ notempty' = [notempty EXCEPT ![t] = FALSE]
  /\ UNCHANGED <<globalVars, contention, desc, tailCount>>

\* The search starts again with a newer window.
Resync(t, window) ==
  /\ win' = [win EXCEPT ![t] = window]
  /\ hops' = [hops EXCEPT ![t] = 0]
  /\ notempty' = [notempty EXCEPT ![t] = FALSE]
  /\ UNCHANGED <<globalVars, idx, contention, random, desc, tailCount>>

-----------------------------------------------------------------------------
\* put_window

PutEnter(t) == Goto(t, "p_enter", "p_desc") /\ Enter(t, PW)

PutReadDesc(t) ==
  /\ Goto(t, "p_desc", "p_window")
  /\ desc' = [desc EXCEPT ![t] = PutDesc(idx[t])]
  /\ UNCHANGED <<globalVars, idx, win, contention, hops, random, notempty, tailCount>>

\* Mutation: the hops of the old window are kept.
PutSyncKeepsHops(t) ==
  /\ PW # win[t]
  /\ Goto(t, "p_window", "p_desc")
  /\ win' = [win EXCEPT ![t] = PW]
  /\ UNCHANGED <<globalVars, idx, contention, hops, random, notempty, desc, tailCount>>

PutSync(t) == /\ PW # win[t]
              /\ Goto(t, "p_window", "p_desc")
              /\ Resync(t, PW)

PutValid(t) == /\ PW = win[t]
               /\ desc[t].put < PW
               /\ Goto(t, "p_window", "p_done")
               /\ UNCHANGED <<globalVars, searchVars>>

PutHop(t) == /\ PW = win[t]
             /\ desc[t].put >= PW
             /\ hops[t] # Width
             /\ Goto(t, "p_window", "p_desc")
             /\ Hop(t)
             /\ UNCHANGED <<globalVars, win, contention, notempty, desc, tailCount>>

\* Mutation: shifts as soon as one sub-structure is full.
PutNoneEarly(t) == /\ PW = win[t]
                   /\ desc[t].put >= PW
                   /\ Goto(t, "p_window", "p_shift")
                   /\ UNCHANGED <<globalVars, searchVars>>

PutNone(t) == /\ PW = win[t]
              /\ desc[t].put >= PW
              /\ hops[t] = Width
              /\ Goto(t, "p_window", "p_shift")
              /\ UNCHANGED <<globalVars, searchVars>>

\* Mutation: a plain store in place of the CAE.
PutShiftBlind(t) ==
  /\ Goto(t, "p_shift", "p_resync")
  /\ PW' = PW + Depth
  /\ UNCHANGED <<put, get, GW, searchVars>>

\* CAE(&global_PWindow.content, &thread_PWindow, &new_window)
PutShift(t) ==
  /\ Goto(t, "p_shift", "p_resync")
  /\ PW' = IF PW = win[t] THEN PW + Depth ELSE PW
  /\ UNCHANGED <<put, get, GW, searchVars>>

PutResync(t) == Goto(t, "p_resync", "p_desc") /\ Resync(t, PW)

-----------------------------------------------------------------------------
\* get_window

GetEnter(t) == Goto(t, "g_enter", "g_desc") /\ Enter(t, GW)

GetReadDesc(t) ==
  /\ Goto(t, "g_desc", "g_count")
  /\ desc' = [desc EXCEPT ![t] = GetDesc(idx[t])]
  /\ UNCHANGED <<globalVars, idx, win, contention, hops, random, notempty, tailCount>>

GetReadCount(t) ==
  /\ Goto(t, "g_count", "g_window")
  /\ tailCount' = [tailCount EXCEPT ![t] = put[idx[t]]]
  /\ UNCHANGED <<globalVars, idx, win, contention, hops, random, notempty, desc>>

GetSync(t) == /\ GW # win[t]
              /\ Goto(t, "g_window", "g_desc")
              /\ Resync(t, GW)

SeesItem(t) == tailCount[t] # desc[t].get
CanGet(t) == desc[t].get < GW /\ SeesItem(t)

GetValid(t) == /\ GW = win[t]
               /\ CanGet(t)
               /\ Goto(t, "g_window", "g_done")
               /\ UNCHANGED <<globalVars, searchVars>>

GetHop(t) == /\ GW = win[t]
             /\ ~ CanGet(t)
             /\ hops[t] # Width
             /\ Goto(t, "g_window", "g_desc")
             /\ notempty' = [notempty EXCEPT ![t] = @ \/ SeesItem(t)]
             /\ Hop(t)
             /\ UNCHANGED <<globalVars, win, contention, desc, tailCount>>

GetNone(t) == /\ GW = win[t]
              /\ ~ CanGet(t)
              /\ hops[t] = Width
              /\ notempty[t]
              /\ Goto(t, "g_window", "g_shift")
              /\ UNCHANGED <<globalVars, searchVars>>

\* Mutation: a plain store in place of the CAE.
GetShiftBlind(t) ==
  /\ Goto(t, "g_shift", "g_resync")
  /\ GW' = GW + Depth
  /\ UNCHANGED <<put, get, PW, searchVars>>

GetShift(t) ==
  /\ Goto(t, "g_shift", "g_resync")
  /\ GW' = IF GW = win[t] THEN GW + Depth ELSE GW
  /\ UNCHANGED <<put, get, PW, searchVars>>

GetResync(t) == Goto(t, "g_resync", "g_desc") /\ Resync(t, GW)

\* "Empty return": no sub-structure seen with an item
GetEmpty(t) == /\ GW = win[t]
               /\ ~ CanGet(t)
               /\ hops[t] = Width
               /\ ~ notempty[t]
               /\ Goto(t, "g_window", "g_done")
               /\ UNCHANGED <<globalVars, searchVars>>

-----------------------------------------------------------------------------
PutSearch(t) == \/ PutEnter(t) \/ PutReadDesc(t) \/ PutSync(t) \/ PutValid(t)
                \/ PutHop(t) \/ PutNone(t) \/ PutShift(t) \/ PutResync(t)

GetSearch(t) == \/ GetEnter(t) \/ GetReadDesc(t) \/ GetReadCount(t) \/ GetSync(t)
                \/ GetValid(t) \/ GetHop(t) \/ GetNone(t) \/ GetShift(t)
                \/ GetResync(t) \/ GetEmpty(t)

\* The end of an operation: only thread_index lives on.
Leave(t) == /\ pc' = [pc EXCEPT ![t] = "idle"]
            /\ win' = [win EXCEPT ![t] = 0]
            /\ contention' = [contention EXCEPT ![t] = FALSE]
            /\ hops' = [hops EXCEPT ![t] = 0]
            /\ random' = [random EXCEPT ![t] = 0]
            /\ notempty' = [notempty EXCEPT ![t] = FALSE]
            /\ desc' = [desc EXCEPT ![t] = NoDesc]
            /\ tailCount' = [tailCount EXCEPT ![t] = 0]
            /\ UNCHANGED idx

\* A failed CAS sends the operation back to the search.
Retry(t, search, failed) ==
  /\ pc' = [pc EXCEPT ![t] = search]
  /\ contention' = [contention EXCEPT ![t] = @ \/ failed]
  /\ UNCHANGED <<idx, win, hops, random, notempty, desc, tailCount>>

-----------------------------------------------------------------------------
\* Properties of the put window

\* The put window is exact: no put count is above it and none is more than Depth
\* below it, so the puts on any two sub-structures differ by at most Depth
\* (put_window returns a descriptor only below the window, and shifts only when a
\* full round found every sub-structure at the window).
PutWindowExact == \A q \in Subs : PW - Depth <= put[q] /\ put[q] <= PW

\* The sub-structure the search of thread t was at j linear hops ago.
Back(t, j) == (idx[t] + Width - j) % Width

\* What makes PutWindowExact inductive: a search whose window is still current
\* has found full every sub-structure it has hopped away from.
PutSearchInv ==
  \A t \in Threads :
    pc[t] \in {"p_desc", "p_window", "p_shift"} /\ win[t] = PW =>
      /\ \A j \in 1..hops[t] : put[Back(t, j)] >= PW
      /\ pc[t] = "p_shift" => hops[t] = Width
-----------------------------------------------------------------------------
\* Properties of the get window

\* The get window moves up only behind the put window, and leaves no sub-structure
\* more than two windows behind: get_window shifts only after it has seen an item
\* above the window, and passes by only what is at the window or was empty.
GetWindowFollows ==
  /\ GW <= PW
  /\ \A q \in Subs : GW - 2 * Depth <= get[q]
=============================================================================
