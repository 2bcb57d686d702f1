------------------------------ MODULE Coupled2D ------------------------------
(***************************************************************************)
(* The coupled 2D window and the three structures built on it: the stack   *)
(* src/2Dc-stack and the counter src/2Dc-counter over include/2Dc-window.c,*)
(* and src/2Dc-stack_optimized over its own 2Dc-window_optimized.c.  One   *)
(* window bounds pushes and pops alike: it moves up by shift when every    *)
(* sub-structure is full, and down by shift when nothing is left in it.    *)
(*                                                                         *)
(* A sub-structure is the sequence of its items, the top first; its count  *)
(* is the length, and two descriptors are equal when the sequences are.    *)
(* The counter has no items, so all its items are the same.                *)
(***************************************************************************)
EXTENDS Integers, Sequences

CONSTANTS Threads, Width, Depth, RandomHops,
          MaxItems       \* bound: number of pushes or increments

VARIABLES design,        \* which of the three structures is running
          content,       \* set_array: the items of each sub-structure
          W,             \* global_Window.content
          tw,            \* thread_Window: survives the operation
          op,            \* "p" or "g" while in put_window or get_window
          pc, idx, contention, hops, random, empty, desc,
          started,       \* push calls so far
          pushed,        \* items pushed so far: the next item is pushed + 1
          idleShifts     \* history: how the window has moved since the last success

searchVars == <<op, idx, contention, hops, random, empty, desc>>
itemVars == <<content, started, pushed>>
vars == <<design, W, tw, pc, searchVars, itemVars, idleShifts>>

Subs == 0..(Width - 1)
count(d) == Len(d)

\* What the two windows differ in: whether read_window takes max and version by two
\* loads, whether get_window tests or only asserts that the window stays above depth.
window_2Dc       == [split |-> TRUE,  tests |-> TRUE]
window_optimized == [split |-> FALSE, tests |-> FALSE]

\* Mutation: the window moves by its whole depth.
stack_2Dc_whole == [window |-> window_2Dc, shift |-> Depth, version |-> 1, counts |-> FALSE]

\* What the structures differ in: the window, how far it moves, its first version,
\* whether they hold items or count.
stack_2Dc == [window |-> window_2Dc, shift |-> IF Depth \div 2 > 1 THEN Depth \div 2 ELSE 1,
              version |-> 1, counts |-> FALSE]
counter_2Dc == [window |-> window_2Dc, shift |-> IF Depth \div 2 > 1 THEN Depth \div 2 ELSE 1,
                version |-> 0, counts |-> TRUE]
stack_optimized == [window |-> window_optimized, shift |-> (Depth + 1) \div 2,
                    version |-> 1, counts |-> FALSE]
Designs == {stack_2Dc, counter_2Dc, stack_optimized}

Init == /\ design \in Designs
        /\ content = [q \in Subs |-> << >>]
        /\ W = [max |-> Depth, version |-> design.version]
        /\ tw = [t \in Threads |-> [max |-> 0, version |-> 0]]
        /\ op = [t \in Threads |-> "none"]
        /\ pc = [t \in Threads |-> "idle"]
        /\ idx = [t \in Threads |-> 0]
        /\ contention = [t \in Threads |-> FALSE]
        /\ hops = [t \in Threads |-> 0]
        /\ random = [t \in Threads |-> 0]
        /\ empty = [t \in Threads |-> TRUE]
        /\ desc = [t \in Threads |-> << >>]
        /\ started = 0 /\ pushed = 0 /\ idleShifts = "none"

Goto(t, from, to) == pc[t] = from /\ pc' = [pc EXCEPT ![t] = to]
Set(f, t, v) == [f EXCEPT ![t] = v]

-----------------------------------------------------------------------------
\* Steps that put_window and get_window share; k is "p" or "g".

Current(t) == W.version = tw[t].version

\* the head: a random sub-structure after contention
Enter(t) ==
  /\ Goto(t, "enter", IF Current(t) THEN "desc" ELSE "read")
  /\ \E q \in Subs : /\ contention[t] \/ q = idx[t]
                     /\ idx' = Set(idx, t, q)
  /\ hops' = Set(hops, t, 0) /\ random' = Set(random, t, 0) /\ empty' = Set(empty, t, TRUE)
  /\ UNCHANGED <<design, W, tw, op, contention, desc, itemVars>>

\* read_window: max and then version, or both by one atomic load
ReadWindow(t) ==
  /\ Goto(t, "read", IF design.window.split THEN "version" ELSE "desc")
  /\ tw' = Set(tw, t, IF design.window.split THEN [tw[t] EXCEPT !.max = W.max] ELSE W)
  /\ UNCHANGED <<design, W, searchVars, itemVars>>

ReadVersion(t) ==
  /\ Goto(t, "version", "desc")
  /\ tw' = [tw EXCEPT ![t].version = W.version]
  /\ UNCHANGED <<design, W, searchVars, itemVars>>

ReadDesc(t) ==
  /\ Goto(t, "desc", "check")
  /\ desc' = Set(desc, t, content[idx[t]])
  /\ UNCHANGED <<design, W, tw, op, idx, contention, hops, random, empty, itemVars>>

Restart(t) == hops' = Set(hops, t, 0) /\ empty' = Set(empty, t, TRUE)

\* Mutation: what the search saw under the old window is kept.
SyncKeepsSeen(t) == /\ Goto(t, "check", "read")
                    /\ ~ Current(t)
                    /\ hops' = Set(hops, t, 0)
                    /\ UNCHANGED <<design, W, tw, op, idx, contention, random, empty, desc, itemVars>>

Sync(t) == /\ Goto(t, "check", "read")
           /\ ~ Current(t)
           /\ Restart(t)
           /\ UNCHANGED <<design, W, tw, op, idx, contention, random, desc, itemVars>>

\* hop
Hop(t) ==
  IF random[t] < RandomHops
  THEN /\ random' = Set(random, t, random[t] + 1)
       /\ \E q \in Subs : idx' = Set(idx, t, q)
       /\ UNCHANGED hops
  ELSE /\ hops' = Set(hops, t, hops[t] + 1)
       /\ idx' = Set(idx, t, IF idx[t] + 1 >= Width THEN 0 ELSE idx[t] + 1)
       /\ UNCHANGED random

\* the descriptor is inside the window of the thread
InWindow(t) == IF op[t] = "p" THEN count(desc[t]) < tw[t].max
                             ELSE count(desc[t]) + Depth > tw[t].max

Valid(t) == /\ Goto(t, "check", "done")
            /\ Current(t)
            /\ InWindow(t)
            /\ UNCHANGED <<design, W, tw, searchVars, itemVars>>

HopOn(t) == /\ Goto(t, "check", "desc")
            /\ Current(t)
            /\ ~ InWindow(t)
            /\ hops[t] # Width
            /\ empty' = Set(empty, t, empty[t] /\ (op[t] = "g" => count(desc[t]) = 0))
            /\ Hop(t)
            /\ UNCHANGED <<design, W, tw, op, contention, desc, itemVars>>

\* Mutation: one sub-structure outside the window is enough.
RoundEndsEarly(t) == /\ Goto(t, "check",
                             IF op[t] = "g" /\ empty[t] THEN "done" ELSE "shift")
                     /\ Current(t)
                     /\ ~ InWindow(t)
                     /\ UNCHANGED <<design, W, tw, searchVars, itemVars>>

\* a full round found nothing inside the window: the get returns an empty
\* descriptor if it saw no item, any other search shifts the window
RoundEnds(t) == /\ Goto(t, "check",
                        IF op[t] = "g" /\ empty[t] THEN "done" ELSE "shift")
                /\ Current(t)
                /\ ~ InWindow(t)
                /\ hops[t] = Width
                /\ UNCHANGED <<design, W, tw, searchVars, itemVars>>

NewMax(t) == IF op[t] = "p" THEN tw[t].max + design.shift ELSE tw[t].max - design.shift

\* the test before the CAE
MayShift(t) ==
  /\ Goto(t, "shift",
          IF Current(t) /\ (op[t] = "g" /\ design.window.tests => NewMax(t) >= Depth)
          THEN "cae" ELSE "desc")
  /\ IF Current(t) /\ (op[t] = "g" /\ design.window.tests => NewMax(t) >= Depth)
     THEN UNCHANGED <<hops, empty>> ELSE Restart(t)
  /\ UNCHANGED <<design, W, tw, op, idx, contention, random, desc, itemVars>>

\* CAE(&global_Window.content, &thread_Window, &new_window)
Shift(t) ==
  /\ Goto(t, "cae", IF W = tw[t] THEN "desc" ELSE "read")
  /\ W' = IF W = tw[t] THEN [max |-> NewMax(t), version |-> tw[t].version + 1] ELSE W
  /\ tw' = Set(tw, t, W')
  /\ Restart(t)
  /\ UNCHANGED <<design, op, idx, contention, random, desc, itemVars>>

Search(t) == \/ Enter(t) \/ ReadWindow(t) \/ ReadVersion(t) \/ ReadDesc(t)
             \/ Sync(t) \/ Valid(t) \/ HopOn(t) \/ RoundEnds(t)
             \/ MayShift(t) \/ Shift(t)

-----------------------------------------------------------------------------
\* The end of an operation: thread_index and thread_Window live on.
Leave(t) == /\ pc' = Set(pc, t, "idle")
            /\ op' = Set(op, t, "none")
            /\ contention' = Set(contention, t, FALSE)
            /\ hops' = Set(hops, t, 0) /\ random' = Set(random, t, 0)
            /\ empty' = Set(empty, t, TRUE) /\ desc' = Set(desc, t, << >>)
            /\ UNCHANGED idx

\* The CAE on the descriptor failed.
Retry(t) == /\ pc' = Set(pc, t, "enter")
            /\ contention' = Set(contention, t, TRUE)
            /\ UNCHANGED <<op, idx, hops, random, empty, desc>>

push(t) == /\ started < MaxItems
           /\ Goto(t, "idle", "enter")
           /\ op' = Set(op, t, "p")
           /\ started' = started + 1
           /\ UNCHANGED <<design, W, tw, idx, contention, hops, random, empty, desc, content, pushed>>

PushCAE(t) ==
  /\ pc[t] = "done" /\ op[t] = "p"
  /\ IF content[idx[t]] = desc[t]
     THEN /\ pushed' = pushed + 1
          /\ content' = [content EXCEPT ![idx[t]] =
                           <<IF design.counts THEN 0 ELSE pushed + 1>> \o @]
          /\ Leave(t)
     ELSE Retry(t) /\ UNCHANGED <<content, pushed>>
  /\ UNCHANGED <<design, W, tw, started>>

pop(t) == /\ Goto(t, "idle", "enter")
          /\ op' = Set(op, t, "g")
          /\ UNCHANGED <<design, W, tw, idx, contention, hops, random, empty, desc, itemVars>>

PopEmpty(t) == /\ pc[t] = "done" /\ op[t] = "g"
               /\ desc[t] = << >>
               /\ Leave(t)
               /\ UNCHANGED <<design, W, tw, itemVars>>

PopCAE(t) ==
  /\ pc[t] = "done" /\ op[t] = "g"
  /\ desc[t] # << >>
  /\ IF content[idx[t]] = desc[t]
     THEN /\ content' = [content EXCEPT ![idx[t]] = Tail(@)]
          /\ Leave(t)
     ELSE Retry(t) /\ UNCHANGED content
  /\ UNCHANGED <<design, W, tw, started, pushed>>

OpStep(t) == \/ Search(t)
             \/ PushCAE(t) \/ PopEmpty(t) \/ PopCAE(t)

\* History: no shift, one, then which way the later shifts go, until a push or a pop
\* succeeds.
Direction == IF W'.max > W.max THEN "up" ELSE "down"
Observe ==
  idleShifts' = IF content' # content THEN "none"
                ELSE IF W' = W THEN idleShifts
                ELSE IF idleShifts = "none" THEN "once"
                ELSE IF idleShifts \in {"once", Direction} THEN Direction ELSE "undone"

Next == (\E t \in Threads : push(t) \/ pop(t) \/ OpStep(t)) /\ Observe

Spec == Init /\ [][Next]_vars

-----------------------------------------------------------------------------
\* Properties

\* The one window is there "bounding the sub-counters upward and downward"
\* (2Dc-counter/README.md), as far as the relaxation bound (2*shift+depth)(width-1)
\* of create_stack needs it: while searches go on with what they saw before the
\* last shift, no count is more than one shift outside the window.

\* Upward, where read_window is one atomic load: however many shifts come between
\* put_window and the compare-and-exchange of a push, and although a descriptor may
\* come back after other pushes and pops, no push gets more than one shift above
\* the window.
WindowBounds == ~ design.window.split =>
                  \A q \in Subs : count(content[q]) <= W.max + design.shift

\* "Reads the global window into the thread local one, can think of it as atomic"
\* (2Dc-window.c): both bounds also hold where read_window is two loads.
AsIfAtomic == design.window.split =>
                \A q \in Subs : /\ count(content[q]) <= W.max + design.shift
                                /\ count(content[q]) >= W.max - Depth - design.shift

\* assert(new_window.max >= set->depth), with the question "Should never want to
\* shift down below zero right as we then would return empty instead?": a get that
\* has seen an item and found none in the window never has to shift below depth.
ShiftAsserted == \A t \in Threads : pc[t] = "shift" /\ op[t] = "g" => NewMax(t) >= Depth

\* Pushes that move the window up and pops that move it down do not undo each
\* other's shifts: the first shift may rest on what was seen before the last success,
\* but from then on the window moves one way until an operation succeeds.  With depth
\* 1 the window moves by its whole depth, and two threads can shift it up and down
\* for ever.
ShiftsNotUndone == Depth > 1 => idleShifts # "undone"
=============================================================================
