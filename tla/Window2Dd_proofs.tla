-------------------------- MODULE Window2Dd_proofs --------------------------
(***************************************************************************)
(* What put_window and get_window (include/2Dd-window.c) keep true in any  *)
(* structure that uses them, for every width, depth and number of threads. *)
(* The lemmas say that a step of a search preserves the invariants below;  *)
(* the proofs about the queue and the counter add the steps of their own.  *)
(***************************************************************************)
EXTENDS Window2Dd, TLAPS

PutLoop == {"p_desc", "p_window", "p_shift"}
GetLoop == {"g_desc", "g_count", "g_window", "g_behind", "g_shift"}

\* The counts and the windows: no get passes its puts, the put window is exact,
\* and the get window is a number of shifts behind it.
ShiftsApart(high, low) == \E m \in Nat : high = low + m * Depth

CountsInv ==
  /\ ShiftsApart(PW, GW)
  /\ \A q \in Subs : /\ PW - Depth <= put[q] /\ put[q] <= PW
                     /\ GW - 2 * Depth <= get[q] /\ get[q] <= put[q]

\* A search hops at random only before it hops linearly.
HopInv(t) == hops[t] # 0 => random[t] = RandomHops

\* A put search whose window is current has left only full sub-structures behind,
\* and what it has read is at most what is there now.
PutInv(t) ==
  /\ pc[t] \in PutLoop => win[t] <= PW
  /\ pc[t] \in PutLoop /\ win[t] = PW => \A j \in 1..hops[t] : put[Back(t, j)] >= PW
  /\ pc[t] = "p_shift" => hops[t] = Width
  /\ pc[t] \in {"p_window", "p_done"} => desc[t].put <= put[idx[t]]
  /\ pc[t] = "p_done" => desc[t].put < PW

\* A get search whose window is current has left behind only sub-structures whose
\* gets are at most one depth below the window, and if it has seen an item it did
\* not take, that item is above the window.  The optimized search, which passes
\* "g_behind" and does not always read a put count, keeps this too.
GetInv(t) ==
  /\ pc[t] \in GetLoop => win[t] <= GW
  /\ pc[t] \in GetLoop /\ win[t] = GW =>
       \A j \in 1..hops[t] : get[Back(t, j)] >= GW - Depth
  /\ pc[t] \in GetLoop /\ win[t] = GW /\ notempty[t] => GW < PW
  /\ pc[t] = "g_shift" /\ win[t] = GW => GW < PW
  /\ pc[t] \in {"g_behind", "g_shift"} => hops[t] = Width
  /\ pc[t] \in {"g_count", "g_window", "g_behind", "g_done"} => desc[t].get <= get[idx[t]]
  /\ pc[t] = "g_window" => tailCount[t] <= put[idx[t]]
  /\ pc[t] = "g_window" /\ win[t] = GW => tailCount[t] >= GW - Depth

SearchInv(t) == HopInv(t) /\ PutInv(t) /\ GetInv(t)

\* get_window of 2Dd-window.c reads the put count after the get count.
SeenInv(t) == pc[t] = "g_window" => desc[t].get <= tailCount[t]

-----------------------------------------------------------------------------
\* Arithmetic of the search

LEMMA ConstantFacts ==
  /\ Width \in Nat /\ Width > 0 /\ Depth \in Nat /\ Depth > 0 /\ RandomHops \in Nat
  /\ 0 \in Subs /\ \A q \in Subs : q \in Nat /\ q < Width
  /\ \A q \in Nat : q < Width => q \in Subs
  BY WindowAssumption DEF Subs

LEMMA Wrap ==
  ASSUME NEW x \in Nat, x < 2 * Width
  PROVE  x % Width = IF x < Width THEN x ELSE x - Width
  BY ConstantFacts, SMT

\* j hops back from sub-structure s
LEMMA BackIs ==
  ASSUME NEW s \in Subs, NEW j \in 1..Width
  PROVE  (s + Width - j) % Width = IF j <= s THEN s - j ELSE s + Width - j
<1>1. s + Width - j \in Nat /\ s + Width - j < 2 * Width /\ s \in Nat /\ s < Width
  BY ConstantFacts
<1>2. (s + Width - j) % Width
        = IF s + Width - j < Width THEN s + Width - j ELSE (s + Width - j) - Width
  BY <1>1, Wrap
<1> QED BY <1>1, <1>2, ConstantFacts

LEMMA BackInSubs ==
  ASSUME NEW s \in Subs, NEW j \in 1..Width
  PROVE  (s + Width - j) % Width \in Subs
<1>1. (IF j <= s THEN s - j ELSE s + Width - j) \in Subs
  BY ConstantFacts
<1> QED BY <1>1, BackIs

\* A full round has come by every sub-structure.
LEMMA RoundCovers ==
  ASSUME NEW s \in Subs, NEW q \in Subs
  PROVE  \E j \in 1..Width : (s + Width - j) % Width = q
<1>1. CASE q < s
  <2>1. s - q \in 1..Width /\ s - q <= s /\ s - (s - q) = q
    BY <1>1, ConstantFacts
  <2> QED BY <2>1, BackIs
<1>2. CASE ~ (q < s)
  <2>1. s + Width - q \in 1..Width /\ s + Width - (s + Width - q) = q
    BY <1>2, ConstantFacts
  <2>2. (s + Width - (s + Width - q)) % Width = q
    BY <2>1, ConstantFacts, Wrap
  <2> QED BY <2>1, <2>2
<1> QED BY <1>1, <1>2

\* One linear hop moves every sub-structure behind it one further back.
Succ(s) == IF s + 1 >= Width THEN 0 ELSE s + 1

LEMMA HopBack ==
  ASSUME NEW s \in Subs, NEW j \in 1..Width
  PROVE  /\ Succ(s) \in Subs
         /\ j = 1 => (Succ(s) + Width - j) % Width = s
         /\ j # 1 => /\ j - 1 \in 1..Width
                     /\ (Succ(s) + Width - j) % Width = (s + Width - (j - 1)) % Width
<1>1. Succ(s) \in Subs
  BY ConstantFacts DEF Succ
<1>2. (Succ(s) + Width - j) % Width = IF j <= Succ(s) THEN Succ(s) - j ELSE Succ(s) + Width - j
  BY <1>1, BackIs
<1>3. j # 1 => /\ j - 1 \in 1..Width
               /\ (s + Width - (j - 1)) % Width
                    = IF j - 1 <= s THEN s - (j - 1) ELSE s + Width - (j - 1)
  BY BackIs, ConstantFacts
<1> QED BY <1>1, <1>2, <1>3, ConstantFacts DEF Succ

LEMMA ShiftUp ==
  ASSUME NEW a \in Nat, NEW b \in Nat, ShiftsApart(a, b)
  PROVE  b <= a /\ ShiftsApart(a + Depth, b)
<1>1. PICK m \in Nat : a = b + m * Depth
  BY DEF ShiftsApart
<1>2. m * Depth \in Nat /\ (m + 1) * Depth = m * Depth + Depth
  BY ConstantFacts
<1>3. a + Depth = b + (m + 1) * Depth
  BY <1>1, <1>2, ConstantFacts
<1> QED BY <1>1, <1>2, <1>3 DEF ShiftsApart

LEMMA ShiftAfter ==
  ASSUME NEW a \in Nat, NEW b \in Nat, ShiftsApart(a, b), b < a
  PROVE  ShiftsApart(a, b + Depth) /\ b + Depth <= a
<1>1. PICK m \in Nat : a = b + m * Depth
  BY DEF ShiftsApart
<1>2. m # 0
  BY <1>1, ConstantFacts
<1>3. m - 1 \in Nat /\ (m - 1) * Depth \in Nat /\ m * Depth = (m - 1) * Depth + Depth
  BY <1>2, ConstantFacts
<1>4. a = (b + Depth) + (m - 1) * Depth
  BY <1>1, <1>3, ConstantFacts
<1> QED BY <1>3, <1>4, ConstantFacts DEF ShiftsApart

-----------------------------------------------------------------------------
\* What a step leaves alone

\* The counts and the windows only grow.
Grow == /\ PW <= PW' /\ GW <= GW'
        /\ \A q \in Subs : put[q] <= put'[q] /\ get[q] <= get'[q]

SameLocals(t) ==
  /\ pc'[t] = pc[t] /\ idx'[t] = idx[t] /\ win'[t] = win[t]
  /\ hops'[t] = hops[t] /\ random'[t] = random[t] /\ notempty'[t] = notempty[t]
  /\ desc'[t] = desc[t] /\ tailCount'[t] = tailCount[t]

LEMMA LocalTypes ==
  ASSUME WindowTypes, NEW t \in Threads
  PROVE  /\ idx[t] \in Subs /\ win[t] \in Nat /\ hops[t] \in 0..Width
         /\ hops[t] \in Nat /\ hops[t] <= Width
         /\ random[t] \in Nat /\ random[t] <= RandomHops /\ notempty[t] \in BOOLEAN
         /\ desc[t].put \in Nat /\ desc[t].get \in Nat /\ tailCount[t] \in Nat
         /\ put[idx[t]] \in Nat /\ get[idx[t]] \in Nat /\ PW \in Nat /\ GW \in Nat
         /\ \A j \in 1..hops[t] : /\ j \in 1..Width /\ Back(t, j) \in Subs
                                  /\ put[Back(t, j)] \in Nat /\ get[Back(t, j)] \in Nat
<1>1. /\ idx[t] \in Subs /\ win[t] \in Nat /\ hops[t] \in 0..Width
      /\ random[t] \in 0..RandomHops /\ notempty[t] \in BOOLEAN
      /\ desc[t].put \in Nat /\ desc[t].get \in Nat /\ tailCount[t] \in Nat
      /\ PW \in Nat /\ GW \in Nat
      /\ \A q \in Subs : put[q] \in Nat /\ get[q] \in Nat
  BY DEF WindowTypes
<1>2. \A j \in 1..hops[t] : j \in 1..Width
  BY <1>1, ConstantFacts
<1>3. \A j \in 1..hops[t] : Back(t, j) \in Subs
  BY <1>1, <1>2, BackInSubs DEF Back
<1> QED BY <1>1, <1>2, <1>3, ConstantFacts

\* A thread keeps its invariant while others move the counts and the windows.
LEMMA OthersStay ==
  ASSUME WindowTypes, WindowTypes', Grow,
         NEW t \in Threads, SameLocals(t), SearchInv(t)
  PROVE  SearchInv(t)'
<1>1. /\ idx[t] \in Subs /\ win[t] \in Nat /\ hops[t] \in Nat
      /\ desc[t].put \in Nat /\ desc[t].get \in Nat /\ tailCount[t] \in Nat
      /\ PW \in Nat /\ GW \in Nat /\ PW' \in Nat /\ GW' \in Nat
      /\ \A q \in Subs : put[q] \in Nat /\ get[q] \in Nat /\ put'[q] \in Nat /\ get'[q] \in Nat
      /\ \A j \in 1..hops[t] : Back(t, j) \in Subs
  BY LocalTypes DEF WindowTypes
<1>2. \A j \in 1..hops[t] : Back(t, j)' = Back(t, j)
  BY DEF Back, SameLocals
<1>3. HopInv(t)'
  BY DEF SearchInv, HopInv, SameLocals
<1>4. PutInv(t)'
  BY <1>1, <1>2 DEF SearchInv, PutInv, SameLocals, Grow
<1>5. GetInv(t)'
  <2>1. GetInv(t)
    BY DEF SearchInv
  <2>2. pc[t] \in GetLoop => win[t] <= GW'
    BY <1>1, <2>1 DEF GetInv, Grow
  <2>3. ASSUME pc[t] \in GetLoop, win[t] = GW'
        PROVE  /\ GW' = GW /\ win[t] = GW
               /\ notempty[t] \/ pc[t] = "g_shift" => GW < PW'
               /\ \A j \in 1..hops[t] : get'[Back(t, j)] >= GW - Depth
    <3>1. GW' = GW /\ win[t] = GW
      BY <1>1, <2>1, <2>3 DEF GetInv, Grow
    <3>2. notempty[t] \/ pc[t] = "g_shift" => GW < PW'
      BY <1>1, <2>1, <2>3, <3>1 DEF GetInv, Grow
    <3>3. ASSUME NEW j \in 1..hops[t] PROVE get'[Back(t, j)] >= GW - Depth
      <4>1. get[Back(t, j)] >= GW - Depth
        BY <2>1, <2>3, <3>1 DEF GetInv
      <4> QED BY <1>1, <4>1, ConstantFacts DEF Grow
    <3> QED BY <3>1, <3>2, <3>3
  <2>4. /\ pc[t] \in {"g_count", "g_window", "g_behind", "g_done"} => desc[t].get <= get'[idx[t]]
        /\ pc[t] = "g_window" => tailCount[t] <= put'[idx[t]]
    BY <1>1, <2>1 DEF GetInv, Grow
  <2>5. pc[t] = "g_window" /\ win[t] = GW' => tailCount[t] >= GW' - Depth
    BY <2>1, <2>3 DEF GetInv, GetLoop
  <2> QED BY <1>2, <2>1, <2>2, <2>3, <2>4, <2>5 DEF GetInv, GetLoop, SameLocals
<1> QED BY <1>3, <1>4, <1>5 DEF SearchInv

\* Hop is a step to some sub-structure.
LEMMA HopTypes ==
  ASSUME WindowTypes, NEW t \in Threads, Hop(t), hops[t] # Width
  PROVE  /\ idx' \in [Threads -> Subs] /\ hops' \in [Threads -> 0..Width]
         /\ random' \in [Threads -> 0..RandomHops]
         /\ \A s \in Threads \ {t} : /\ idx'[s] = idx[s] /\ hops'[s] = hops[s]
                                      /\ random'[s] = random[s]
<1>1. CASE random[t] < RandomHops
  <2>1. random[t] + 1 \in 0..RandomHops
    BY <1>1, LocalTypes, ConstantFacts
  <2> QED BY ZenonT(60), <1>1, <2>1 DEF Hop, WindowTypes
<1>2. CASE ~ (random[t] < RandomHops)
  <2>1. hops[t] + 1 \in 0..Width /\ Succ(idx[t]) \in Subs
    BY LocalTypes, ConstantFacts DEF Succ
  <2> QED BY ZenonT(60), <1>2, <2>1 DEF Hop, WindowTypes, Succ
<1> QED BY <1>1, <1>2

\* A step of a search moves no count and no other thread.
LEMMA SearchFrame ==
  ASSUME WindowTypes, NEW t \in Threads, PutSearch(t) \/ GetSearch(t),
         NEW S, pc \in [Threads -> S], SearchPCs \subseteq S
  PROVE  /\ WindowTypes' /\ pc' \in [Threads -> S] /\ Grow
         /\ pc[t] \in SearchPCs /\ pc'[t] \in SearchPCs
         /\ UNCHANGED <<put, get>> /\ \A s \in Threads \ {t} : SameLocals(s)
<1> DEFINE Goal == /\ WindowTypes' /\ pc' \in [Threads -> S] /\ Grow
                   /\ pc[t] \in SearchPCs /\ pc'[t] \in SearchPCs
                   /\ UNCHANGED <<put, get>> /\ \A s \in Threads \ {t} : SameLocals(s)
<1>1. ASSUME NEW w \in Nat, Enter(t, w), NEW x \in SearchPCs, NEW y \in SearchPCs, Goto(t, x, y)
      PROVE  Goal
  BY <1>1, ConstantFacts DEF Enter, Goto, WindowTypes, Grow, SameLocals, globalVars
<1>2. ASSUME NEW w \in Nat, Resync(t, w), NEW x \in SearchPCs, NEW y \in SearchPCs, Goto(t, x, y)
      PROVE  Goal
  BY <1>2, ConstantFacts DEF Resync, Goto, WindowTypes, Grow, SameLocals, globalVars
<1>3. ASSUME NEW x \in SearchPCs, NEW y \in SearchPCs, Goto(t, x, y),
             UNCHANGED <<globalVars, searchVars>>
      PROVE  Goal
  BY <1>3 DEF Goto, WindowTypes, Grow, SameLocals, globalVars, searchVars
<1>4. PW \in Nat /\ GW \in Nat
  BY SMTT(30) DEF WindowTypes
<1>5. CASE PutEnter(t)
  BY <1>1, <1>4, <1>5 DEF PutEnter, SearchPCs
<1>6. CASE PutReadDesc(t)
  <2>1. PutDesc(idx[t]) \in [put : Nat, get : Nat]
    BY SMTT(30), LocalTypes DEF PutDesc
  <2> QED BY <1>6, <2>1
          DEF PutReadDesc, Goto, WindowTypes, Grow, SameLocals, globalVars, SearchPCs
<1>7. CASE PutSync(t) \/ PutResync(t)
  BY <1>2, <1>4, <1>7 DEF PutSync, PutResync, SearchPCs
<1>8. CASE PutValid(t) \/ PutNone(t)
  BY <1>3, <1>8 DEF PutValid, PutNone, SearchPCs
<1>9. CASE PutHop(t)
  BY <1>9, HopTypes DEF PutHop, Goto, WindowTypes, Grow, SameLocals, globalVars, SearchPCs
<1>10. CASE PutShift(t)
  BY SMTT(30), <1>4, <1>10, ConstantFacts
     DEF PutShift, Goto, WindowTypes, Grow, SameLocals, searchVars, SearchPCs
<1>11. CASE GetEnter(t)
  BY <1>1, <1>4, <1>11 DEF GetEnter, SearchPCs
<1>12. CASE GetReadDesc(t)
  <2>1. GetDesc(idx[t]) \in [put : Nat, get : Nat]
    BY LocalTypes DEF GetDesc
  <2> QED BY <1>12, <2>1
          DEF GetReadDesc, Goto, WindowTypes, Grow, SameLocals, globalVars, SearchPCs
<1>13. CASE GetReadCount(t)
  BY SMTT(30), <1>13, LocalTypes
     DEF GetReadCount, Goto, WindowTypes, Grow, SameLocals, globalVars, SearchPCs
<1>14. CASE GetSync(t) \/ GetResync(t)
  BY <1>2, <1>4, <1>14 DEF GetSync, GetResync, SearchPCs
<1>15. CASE GetValid(t) \/ GetNone(t) \/ GetEmpty(t)
  BY <1>3, <1>15 DEF GetValid, GetNone, GetEmpty, SearchPCs
<1>16. CASE GetHop(t)
  <2>1. SeesItem(t) \in BOOLEAN
    BY DEF SeesItem
  <2> QED BY <1>16, <2>1, HopTypes
          DEF GetHop, Goto, WindowTypes, Grow, SameLocals, globalVars, SearchPCs
<1>17. CASE GetShift(t)
  BY <1>4, <1>17, ConstantFacts
     DEF GetShift, Goto, WindowTypes, Grow, SameLocals, searchVars, SearchPCs
<1> QED BY <1>5, <1>6, <1>7, <1>8, <1>9, <1>10, <1>11, <1>12, <1>13, <1>14, <1>15, <1>16, <1>17
        DEF PutSearch, GetSearch

-----------------------------------------------------------------------------
\* The counts and the windows

\* The put window moves up by Depth only when every sub-structure is at it, the
\* get window only behind the put window.
LEMMA SearchCounts ==
  ASSUME WindowTypes, CountsInv, NEW t \in Threads, SearchInv(t), PutSearch(t) \/ GetSearch(t)
  PROVE  CountsInv'
<1>0. /\ PW \in Nat /\ GW \in Nat /\ \A q \in Subs : put[q] \in Nat /\ get[q] \in Nat
      /\ Depth \in Nat
  BY ConstantFacts DEF WindowTypes
<1>1. CASE UNCHANGED globalVars
  BY <1>1 DEF CountsInv, ShiftsApart, globalVars
<1>2. CASE PutShift(t) /\ PW = win[t]
  <2>1. PW' = PW + Depth /\ UNCHANGED <<put, get, GW>> /\ pc[t] = "p_shift"
    BY <1>2 DEF PutShift, Goto
  <2>2. ASSUME NEW q \in Subs PROVE put[q] >= PW
    <3>1. idx[t] \in Subs /\ hops[t] = Width
      BY <2>1, LocalTypes DEF SearchInv, PutInv
    <3>2. PICK j \in 1..Width : (idx[t] + Width - j) % Width = q
      BY <3>1, RoundCovers
    <3>3. put[Back(t, j)] >= PW
      BY <1>2, <2>1, <3>1 DEF SearchInv, PutInv, PutLoop
    <3> QED BY <3>2, <3>3 DEF Back
  <2>3. ShiftsApart(PW', GW')
    BY <1>0, <2>1, ShiftUp DEF CountsInv
  <2>4. \A q \in Subs : PW' - Depth <= put'[q] /\ put'[q] <= PW'
    BY <1>0, <2>1, <2>2 DEF CountsInv
  <2>5. \A q \in Subs : GW' - 2 * Depth <= get'[q] /\ get'[q] <= put'[q]
    BY <2>1 DEF CountsInv
  <2> QED BY <2>3, <2>4, <2>5 DEF CountsInv, ShiftsApart
<1>3. CASE GetShift(t) /\ GW = win[t]
  <2>1. GW' = GW + Depth /\ UNCHANGED <<put, get, PW>> /\ pc[t] = "g_shift"
    BY <1>3 DEF GetShift, Goto
  <2>2. GW < PW
    BY <1>3, <2>1 DEF SearchInv, GetInv, GetLoop
  <2>3. ASSUME NEW q \in Subs PROVE get[q] >= GW - Depth
    <3>1. idx[t] \in Subs /\ hops[t] = Width
      BY <2>1, LocalTypes DEF SearchInv, GetInv
    <3>2. PICK j \in 1..Width : (idx[t] + Width - j) % Width = q
      BY <3>1, RoundCovers
    <3>3. get[Back(t, j)] >= GW - Depth
      BY <1>3, <2>1, <3>1 DEF SearchInv, GetInv, GetLoop
    <3> QED BY <3>2, <3>3 DEF Back
  <2>4. ShiftsApart(PW', GW')
    BY <1>0, <2>1, <2>2, ShiftAfter DEF CountsInv
  <2>5. \A q \in Subs : GW' - 2 * Depth <= get'[q]
    BY <1>0, <2>1, <2>3
  <2> QED BY <2>1, <2>4, <2>5 DEF CountsInv, ShiftsApart
<1>4. UNCHANGED globalVars \/ (PutShift(t) /\ PW = win[t]) \/ (GetShift(t) /\ GW = win[t])
  BY DEF PutSearch, GetSearch, PutEnter, PutReadDesc, PutSync, PutValid, PutHop, PutNone,
         PutShift, PutResync, GetEnter, GetReadDesc, GetReadCount, GetSync, GetValid, GetHop,
         GetNone, GetShift, GetResync, GetEmpty, Enter, Resync, globalVars
<1> QED BY <1>1, <1>2, <1>3, <1>4

-----------------------------------------------------------------------------
\* The thread that searches

\* What a hop leaves behind.
LEMMA HopKeeps ==
  ASSUME WindowTypes, NEW t \in Threads, HopInv(t), Hop(t), hops[t] # Width,
         NEW P, \A j \in 1..hops[t] : Back(t, j) \in P, idx[t] \in P
  PROVE  HopInv(t)' /\ \A j \in 1..hops'[t] : Back(t, j)' \in P
<1>0. /\ idx[t] \in Subs /\ hops[t] \in Nat /\ hops[t] + 1 <= Width
      /\ random[t] \in Nat /\ random[t] <= RandomHops /\ RandomHops \in Nat
  BY SMTT(30), LocalTypes, ConstantFacts
<1>1. CASE random[t] < RandomHops
  <2>1. hops'[t] = hops[t] /\ hops[t] = 0
    BY <1>0, <1>1 DEF Hop, HopInv
  <2> QED BY <2>1 DEF HopInv
<1>2. CASE ~ (random[t] < RandomHops)
  <2>1. hops'[t] = hops[t] + 1 /\ idx'[t] = Succ(idx[t]) /\ random'[t] = random[t]
    BY <1>2 DEF Hop, WindowTypes, Succ
  <2>2. HopInv(t)'
    BY <1>0, <1>2, <2>1 DEF HopInv
  <2>3. ASSUME NEW j \in 1..hops'[t] PROVE Back(t, j)' \in P
    <3>1. j \in 1..Width /\ Back(t, j)' = (Succ(idx[t]) + Width - j) % Width
      BY <1>0, <2>1, ConstantFacts DEF Back
    <3>2. CASE j = 1
      BY <1>0, <3>1, <3>2, HopBack
    <3>3. CASE j # 1
      <4>1. (Succ(idx[t]) + Width - j) % Width = (idx[t] + Width - (j - 1)) % Width
        BY <1>0, <3>1, <3>3, HopBack
      <4>2. j - 1 \in 1..hops[t]
        BY <1>0, <2>1, <3>3
      <4> QED BY <3>1, <4>1, <4>2 DEF Back
    <3> QED BY <3>2, <3>3
  <2> QED BY <2>2, <2>3
<1> QED BY <1>1, <1>2

LEMMA PutKeeps ==
  ASSUME WindowTypes, CountsInv, NEW t \in Threads, SearchInv(t), PutSearch(t),
         NEW S, pc \in [Threads -> S], SearchPCs \subseteq S
  PROVE  SearchInv(t)'
<1>0. /\ idx[t] \in Subs /\ win[t] \in Nat /\ PW \in Nat /\ GW \in Nat
      /\ desc[t].put \in Nat /\ put[idx[t]] \in Nat /\ Depth \in Nat /\ Depth > 0
      /\ HopInv(t) /\ PutInv(t)
  BY LocalTypes, ConstantFacts DEF SearchInv
<1>1. /\ WindowTypes' /\ UNCHANGED <<put, get>>
  BY SearchFrame
<1>2. GetInv(t)'
  <2>1. pc'[t] \in {"p_desc", "p_window", "p_shift", "p_resync", "p_done"}
    BY DEF PutSearch, PutEnter, PutReadDesc, PutSync, PutValid, PutHop, PutNone,
           PutShift, PutResync, Goto
  <2> QED BY <2>1 DEF GetInv, GetLoop
<1>3. CASE PutEnter(t)
  <2>1. hops'[t] = 0 /\ win'[t] = PW /\ PW' = PW /\ pc'[t] = "p_desc"
    BY <1>3 DEF PutEnter, Enter, Goto, WindowTypes, globalVars
  <2> QED BY <1>0, <1>2, <2>1 DEF SearchInv, HopInv, PutInv, PutLoop
<1>4. CASE PutReadDesc(t)
  <2>1. /\ hops'[t] = hops[t] /\ random'[t] = random[t] /\ win'[t] = win[t] /\ PW' = PW
        /\ idx'[t] = idx[t] /\ pc[t] = "p_desc" /\ pc'[t] = "p_window"
        /\ desc'[t].put = put[idx[t]]
    BY <1>4 DEF PutReadDesc, PutDesc, Goto, WindowTypes, globalVars
  <2>2. \A j : Back(t, j)' = Back(t, j)
    BY <2>1 DEF Back
  <2> QED BY <1>0, <1>1, <1>2, <2>1, <2>2 DEF SearchInv, HopInv, PutInv, PutLoop
<1>5. CASE PutSync(t) \/ PutResync(t)
  <2>1. hops'[t] = 0 /\ win'[t] = PW /\ PW' = PW /\ pc'[t] = "p_desc"
    BY <1>5 DEF PutSync, PutResync, Resync, Goto, WindowTypes, globalVars
  <2> QED BY <1>0, <1>2, <2>1 DEF SearchInv, HopInv, PutInv, PutLoop
<1>6. CASE PutValid(t) \/ PutNone(t)
  <2>1. /\ hops'[t] = hops[t] /\ random'[t] = random[t] /\ win'[t] = win[t] /\ PW' = PW
        /\ idx'[t] = idx[t] /\ desc'[t] = desc[t] /\ pc[t] = "p_window"
        /\ \/ pc'[t] = "p_done" /\ desc[t].put < PW
           \/ pc'[t] = "p_shift" /\ hops[t] = Width
    BY <1>6 DEF PutValid, PutNone, Goto, globalVars, searchVars
  <2>2. \A j : Back(t, j)' = Back(t, j)
    BY <2>1 DEF Back
  <2> QED BY <1>0, <1>1, <1>2, <2>1, <2>2 DEF SearchInv, HopInv, PutInv, PutLoop
<1>7. CASE PutHop(t)
  <2>1. /\ PW' = PW /\ win'[t] = win[t] /\ pc[t] = "p_window" /\ pc'[t] = "p_desc"
        /\ PW = win[t] /\ desc[t].put >= PW /\ hops[t] # Width /\ Hop(t)
    BY <1>7 DEF PutHop, Goto, globalVars
  <2>2. put[idx[t]] >= PW
    BY <1>0, <2>1 DEF PutInv
  <2> DEFINE P == {q \in Subs : put[q] >= PW}
  <2>3. \A j \in 1..hops[t] : Back(t, j) \in P
    BY <1>0, <2>1, LocalTypes DEF PutInv, PutLoop
  <2>4. idx[t] \in P
    BY <1>0, <2>2
  <2> HIDE DEF P
  <2>5. HopInv(t)' /\ \A j \in 1..hops'[t] : Back(t, j)' \in P
    BY <1>0, <2>1, <2>3, <2>4, HopKeeps
  <2>6. \A j \in 1..hops'[t] : put'[Back(t, j)'] >= PW
    BY <1>1, <2>5 DEF P
  <2> QED BY <1>0, <1>2, <2>1, <2>5, <2>6 DEF SearchInv, PutInv, PutLoop
<1>8. CASE PutShift(t)
  <2>1. hops'[t] = hops[t] /\ random'[t] = random[t] /\ pc'[t] = "p_resync"
    BY <1>8 DEF PutShift, Goto, searchVars
  <2> QED BY <1>0, <1>2, <2>1 DEF SearchInv, HopInv, PutInv, PutLoop
<1> QED BY <1>3, <1>4, <1>5, <1>6, <1>7, <1>8 DEF PutSearch

LEMMA GetKeeps ==
  ASSUME WindowTypes, CountsInv, NEW t \in Threads, SearchInv(t), GetSearch(t),
         GetHop(t) => SeenInv(t), NEW S, pc \in [Threads -> S], SearchPCs \subseteq S
  PROVE  SearchInv(t)'
<1>0. /\ idx[t] \in Subs /\ win[t] \in Nat /\ PW \in Nat /\ GW \in Nat
      /\ desc[t].get \in Nat /\ get[idx[t]] \in Nat /\ put[idx[t]] \in Nat
      /\ tailCount[t] \in Nat /\ Depth \in Nat /\ Depth > 0
      /\ HopInv(t) /\ GetInv(t)
  BY LocalTypes, ConstantFacts DEF SearchInv
<1>1. /\ WindowTypes' /\ UNCHANGED <<put, get>>
  BY SearchFrame
<1>2. PutInv(t)'
  <2>1. pc'[t] \in {"g_desc", "g_count", "g_window", "g_shift", "g_resync", "g_done"}
    BY DEF GetSearch, GetEnter, GetReadDesc, GetReadCount, GetSync, GetValid, GetHop, GetNone,
           GetShift, GetResync, GetEmpty, Goto
  <2> QED BY <2>1 DEF PutInv, PutLoop
<1>3. CASE GetEnter(t) \/ GetSync(t) \/ GetResync(t)
  <2>1. /\ hops'[t] = 0 /\ win'[t] = GW /\ GW' = GW /\ pc'[t] = "g_desc"
        /\ notempty'[t] = FALSE
    BY <1>3 DEF GetEnter, GetSync, GetResync, Enter, Resync, Goto, WindowTypes, globalVars
  <2> QED BY <1>0, <1>2, <2>1 DEF SearchInv, HopInv, GetInv, GetLoop
<1>4. CASE GetReadDesc(t)
  <2>1. /\ hops'[t] = hops[t] /\ random'[t] = random[t] /\ win'[t] = win[t] /\ GW' = GW
        /\ PW' = PW /\ notempty'[t] = notempty[t]
        /\ idx'[t] = idx[t] /\ pc[t] = "g_desc" /\ pc'[t] = "g_count"
        /\ desc'[t].get = get[idx[t]]
    BY <1>4 DEF GetReadDesc, GetDesc, Goto, WindowTypes, globalVars
  <2>2. \A j : Back(t, j)' = Back(t, j)
    BY <2>1 DEF Back
  <2> QED BY <1>0, <1>1, <1>2, <2>1, <2>2 DEF SearchInv, HopInv, GetInv, GetLoop
<1>5. CASE GetReadCount(t)
  <2>1. /\ hops'[t] = hops[t] /\ random'[t] = random[t] /\ win'[t] = win[t] /\ GW' = GW
        /\ PW' = PW /\ notempty'[t] = notempty[t] /\ desc'[t] = desc[t]
        /\ idx'[t] = idx[t] /\ pc[t] = "g_count" /\ pc'[t] = "g_window"
        /\ tailCount'[t] = put[idx[t]]
    BY <1>5 DEF GetReadCount, Goto, WindowTypes, globalVars
  <2>2. \A j : Back(t, j)' = Back(t, j)
    BY <2>1 DEF Back
  <2>3. desc[t].get <= put[idx[t]] /\ GW - Depth <= put[idx[t]]
    <3>1. GW <= PW /\ PW - Depth <= put[idx[t]] /\ get[idx[t]] <= put[idx[t]]
      BY <1>0, ShiftUp DEF CountsInv
    <3>2. desc[t].get <= get[idx[t]]
      BY <1>0, <2>1 DEF GetInv
    <3> QED BY <1>0, <3>1, <3>2
  <2> QED BY <1>0, <1>1, <1>2, <2>1, <2>2, <2>3 DEF SearchInv, HopInv, GetInv, GetLoop
<1>6. CASE GetValid(t) \/ GetNone(t) \/ GetEmpty(t)
  <2>1. /\ hops'[t] = hops[t] /\ random'[t] = random[t] /\ win'[t] = win[t] /\ GW' = GW
        /\ PW' = PW /\ notempty'[t] = notempty[t]
        /\ idx'[t] = idx[t] /\ desc'[t] = desc[t] /\ pc[t] = "g_window"
        /\ \/ pc'[t] = "g_done"
           \/ pc'[t] = "g_shift" /\ hops[t] = Width /\ GW = win[t] /\ notempty[t]
    BY <1>6 DEF GetValid, GetNone, GetEmpty, Goto, globalVars, searchVars
  <2>2. \A j : Back(t, j)' = Back(t, j)
    BY <2>1 DEF Back
  <2> QED BY <1>0, <1>1, <1>2, <2>1, <2>2 DEF SearchInv, HopInv, GetInv, GetLoop
<1>7. CASE GetHop(t)
  <2>1. /\ GW' = GW /\ PW' = PW /\ win'[t] = win[t] /\ pc[t] = "g_window" /\ pc'[t] = "g_desc"
        /\ GW = win[t] /\ hops[t] # Width /\ Hop(t)
        /\ notempty'[t] = (notempty[t] \/ SeesItem(t))
        /\ desc[t].get >= GW \/ tailCount[t] = desc[t].get
    BY <1>0, <1>7 DEF GetHop, CanGet, SeesItem, Goto, globalVars, WindowTypes
  <2>2. get[idx[t]] >= GW - Depth
    BY <1>0, <2>1 DEF GetInv, GetLoop
  <2> DEFINE P == {q \in Subs : get[q] >= GW - Depth}
  <2>3. \A j \in 1..hops[t] : Back(t, j) \in P
    BY <1>0, <2>1, LocalTypes DEF GetInv, GetLoop
  <2>4. idx[t] \in P
    BY <1>0, <2>2
  <2> HIDE DEF P
  <2>5. HopInv(t)' /\ \A j \in 1..hops'[t] : Back(t, j)' \in P
    BY <1>0, <2>1, <2>3, <2>4, HopKeeps
  <2>6. \A j \in 1..hops'[t] : get'[Back(t, j)'] >= GW - Depth
    BY <1>1, <2>5 DEF P
  <2>7. SeesItem(t) => GW < PW
    <3>1. put[idx[t]] <= PW
      BY <1>0 DEF CountsInv
    <3> QED BY <1>0, <1>7, <2>1, <3>1 DEF GetInv, SeenInv, SeesItem
  <2>8. notempty'[t] => GW < PW
    BY <1>0, <2>1, <2>7 DEF GetInv, GetLoop
  <2> QED BY <1>0, <1>2, <2>1, <2>5, <2>6, <2>8 DEF SearchInv, GetInv, GetLoop
<1>8. CASE GetShift(t)
  <2>1. hops'[t] = hops[t] /\ random'[t] = random[t] /\ pc'[t] = "g_resync"
    BY <1>8 DEF GetShift, Goto, searchVars
  <2> QED BY <1>0, <1>2, <2>1 DEF SearchInv, HopInv, GetInv, GetLoop
<1> QED BY <1>3, <1>4, <1>5, <1>6, <1>7, <1>8 DEF GetSearch

\* A step of a search keeps everything.
LEMMA SearchKeeps ==
  ASSUME WindowTypes, CountsInv, \A s \in Threads : SearchInv(s),
         NEW t \in Threads, PutSearch(t) \/ GetSearch(t), GetHop(t) => SeenInv(t),
         NEW S, pc \in [Threads -> S], SearchPCs \subseteq S
  PROVE  CountsInv' /\ \A s \in Threads : SearchInv(s)'
<1>1. CountsInv'
  BY SearchCounts
<1>2. SearchInv(t)'
  BY PutKeeps, GetKeeps
<1>3. \A s \in Threads \ {t} : SearchInv(s)'
  <2>1. WindowTypes' /\ Grow /\ \A s \in Threads \ {t} : SameLocals(s)
    BY SearchFrame
  <2> QED BY <2>1, OthersStay
<1> QED BY <1>1, <1>2, <1>3

\* The thread that reads the put count of what it has read the get count of has
\* seen no more gets than puts.
LEMMA SeenKeeps ==
  ASSUME WindowTypes, CountsInv, NEW t \in Threads, SearchInv(t), PutSearch(t) \/ GetSearch(t),
         NEW S, pc \in [Threads -> S]
  PROVE  SeenInv(t)'
<1>1. CASE GetReadCount(t)
  <2>1. pc[t] = "g_count" /\ desc'[t] = desc[t] /\ tailCount'[t] = put[idx[t]]
    BY <1>1 DEF GetReadCount, Goto, WindowTypes
  <2>2. desc[t].get <= get[idx[t]] /\ get[idx[t]] <= put[idx[t]]
    BY <2>1, LocalTypes DEF SearchInv, GetInv, CountsInv
  <2> QED BY <2>1, <2>2, LocalTypes DEF SeenInv
<1>2. CASE ~ GetReadCount(t)
  <2>1. pc'[t] # "g_window"
    BY <1>2 DEF PutSearch, GetSearch, PutEnter, PutReadDesc, PutSync, PutValid, PutHop, PutNone,
           PutShift, PutResync, GetEnter, GetReadDesc, GetSync, GetValid, GetHop,
           GetNone, GetShift, GetResync, GetEmpty, Goto
  <2> QED BY <2>1 DEF SeenInv
<1> QED BY <1>1, <1>2

\* The properties that runs check.
LEMMA WindowsCorrect ==
  ASSUME WindowTypes, CountsInv, \A t \in Threads : SearchInv(t)
  PROVE  PutWindowExact /\ PutSearchInv /\ GetWindowFollows
<1>1. PutWindowExact
  BY DEF CountsInv, PutWindowExact
<1>2. PutSearchInv
  BY DEF SearchInv, PutInv, PutSearchInv, PutLoop
<1>3. GetWindowFollows
  BY ShiftUp DEF WindowTypes, CountsInv, GetWindowFollows
<1> QED BY <1>1, <1>2, <1>3
=============================================================================
