---------------------------- MODULE CallHistory ----------------------------
(***************************************************************************)
(* What the callers of a queue can tell: which puts have returned, what    *)
(* the gets answered, and which call was over before which began.  A       *)
(* queue model keeps a record of this form in its variable hist and moves  *)
(* it with the operators below; the properties are stated on it, so they   *)
(* are the same for every queue.                                           *)
(***************************************************************************)
EXTENDS Naturals, Sequences

NewHistory(threads) ==
  [gets   |-> 0,           \* gets called
   before |-> << >>,       \* before[x]: items whose put had returned when x's began
   done   |-> {},          \* items whose put has returned
   got    |-> {},          \* items a get has returned
   twice  |-> {},          \* items two gets have returned
   owed   |-> {},          \* items that were there throughout a get that found none
   closing |-> {},         \* the same for answers given while a ring was closing
   here   |-> [p \in threads |-> {}],  \* items that were there when p's get began
   active |-> {}]          \* threads inside a get

\* The items are numbered by their puts.
Issued(h) == Len(h.before)

BeginPut(h) == [h EXCEPT !.before = Append(@, h.done)]

EndPut(h, x) == [h EXCEPT !.done = @ \cup {x}]

BeginGet(h, p) == [h EXCEPT !.gets = @ + 1, !.active = @ \cup {p},
                            !.here[p] = h.done \ h.got]

EndGet(h, p, x) == [h EXCEPT !.active = @ \ {p}, !.here[p] = {},
                             !.got = @ \cup {x},
                             !.twice = IF x \in h.got THEN @ \cup {x} ELSE @,
                             !.owed = @ \ {x}, !.closing = @ \ {x}]

\* The get owed its answer to the items of S, if there were any.
EndGetOver(h, p, x, S) ==
  [EndGet(h, p, x) EXCEPT !.owed = @ \cup ((h.here[p] \cap S) \ (h.got \cup {x}))]

EndEmptyOf(h, p, S) == [h EXCEPT !.active = @ \ {p}, !.here[p] = {},
                                 !.owed = @ \cup ((h.here[p] \cap S) \ h.got)]

EndEmpty(h, p) == EndEmptyOf(h, p, h.here[p])

EndClosing(h, p) == [h EXCEPT !.active = @ \ {p}, !.here[p] = {},
                              !.closing = @ \cup (h.here[p] \ h.got)]

\* No get is running that could still return something.
Quiet(h) == h.active = {}

\* No item is returned twice.
Once(h) == h.twice = {}

\* First in, first out: an item whose put began after another's had returned is
\* not returned before it; the get of the older item has at least begun, so
\* once no get runs it has been returned too.
InOrder(h) == Quiet(h) => \A x \in h.got : h.before[x] \subseteq h.got

\* The same among the items of S.
InOrderWithin(h, S) == Quiet(h) => \A x \in h.got \cap S : h.before[x] \cap S \subseteq h.got

\* An item that was there from before a get began until it found nothing was
\* on its way to another get.
NoneMissed(h) == Quiet(h) => h.owed = {}
=============================================================================
