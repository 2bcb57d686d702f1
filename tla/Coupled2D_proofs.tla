-------------------------- MODULE Coupled2D_proofs --------------------------
(***************************************************************************)
(* Proofs about the coupled 2D window and the structures built on it, for  *)
(* every number of threads, width, depth, random hops and pushes.          *)
(***************************************************************************)
EXTENDS Coupled2D, TLAPS

\* What the code justifies of the options: both are positive.
CoupledConstants == /\ Width \in Nat \ {0}
                    /\ Depth \in Nat \ {0}
                    /\ RandomHops \in Nat
                    /\ MaxItems \in Nat

CoupledPCs == {"idle", "enter", "read", "version", "desc", "check", "shift", "cae", "done"}

Moves == {"none", "once", "up", "down", "undone"}

CoupledTypes ==
  /\ design \in Designs
  /\ content \in [Subs -> Seq(Nat)]
  /\ W \in [max : Nat, version : Nat]
  /\ tw \in [Threads -> [max : Nat, version : Nat]]
  /\ op \in [Threads -> {"none", "p", "g"}]
  /\ pc \in [Threads -> CoupledPCs]
  /\ idx \in [Threads -> Subs]
  /\ contention \in [Threads -> BOOLEAN]
  /\ hops \in [Threads -> Nat]
  /\ random \in [Threads -> Nat]
  /\ empty \in [Threads -> BOOLEAN]
  /\ desc \in [Threads -> Seq(Nat)]
  /\ started \in Nat /\ pushed \in Nat /\ idleShifts \in Moves

\* The window is a whole number of shifts above Depth.
Shifted(x) == \E i \in Nat : x = Depth + i * design.shift

\* A get that has seen an item outside its window has a window above Depth, and it
\* asks for a shift only then.
AskInv(t) == /\ pc[t] # "idle" => op[t] \in {"p", "g"}
             /\ ~ empty[t] => tw[t].max > Depth
             /\ pc[t] \in {"read", "version"} => empty[t]
             /\ pc[t] \in {"shift", "cae"} /\ op[t] = "g" => ~ empty[t]

AssertInv == /\ CoupledTypes
             /\ Shifted(W.max)
             /\ \A t \in Threads : tw[t].max = 0 \/ Shifted(tw[t].max)
             /\ \A t \in Threads : AskInv(t)

-----------------------------------------------------------------------------
LEMMA DesignFacts ==
  ASSUME CoupledConstants, design \in Designs
  PROVE  /\ design.shift \in Nat \ {0} /\ design.shift <= Depth
         /\ design.version \in Nat
<1>1. Depth \in Nat \ {0}
  BY DEF CoupledConstants
<1> DEFINE half == IF Depth \div 2 > 1 THEN Depth \div 2 ELSE 1
<1>2. /\ half \in Nat \ {0} /\ half <= Depth
      /\ (Depth + 1) \div 2 \in Nat \ {0} /\ (Depth + 1) \div 2 <= Depth
  BY <1>1
<1>3. CASE design = stack_2Dc
  <2>1. design.shift = half /\ design.version = 1
    BY <1>3 DEF stack_2Dc
  <2> HIDE DEF half
  <2> QED BY <1>2, <2>1
<1>4. CASE design = counter_2Dc
  <2>1. design.shift = half /\ design.version = 0
    BY <1>4 DEF counter_2Dc
  <2> HIDE DEF half
  <2> QED BY <1>2, <2>1
<1>5. CASE design = stack_optimized
  <2>1. design.shift = (Depth + 1) \div 2 /\ design.version = 1
    BY <1>5 DEF stack_optimized
  <2> QED BY <1>2, <2>1
<1> QED BY <1>3, <1>4, <1>5 DEF Designs

\* Only the optimized stack reads its window at once.
LEMMA AtomicDesign ==
  ASSUME design \in Designs, ~ design.window.split
  PROVE  design.counts = FALSE /\ design.version = 1
<1>1. window_2Dc.split
  BY DEF window_2Dc
<1>2. stack_2Dc.window = window_2Dc /\ counter_2Dc.window = window_2Dc
  BY DEF stack_2Dc, counter_2Dc
<1>3. design = stack_optimized
  BY <1>1, <1>2 DEF Designs
<1> QED BY <1>3 DEF stack_optimized

LEMMA Distribute ==
  ASSUME NEW i \in Int, NEW s \in Int
  PROVE  i * s \in Int /\ (i + 1) * s = i * s + s /\ (i - 1) * s = i * s - s
  OBVIOUS

LEMMA ShiftedUp ==
  ASSUME CoupledConstants, design \in Designs, NEW x \in Nat, Shifted(x)
  PROVE  x + design.shift \in Nat /\ Shifted(x + design.shift)
<1>1. PICK i \in Nat : x = Depth + i * design.shift
  BY DEF Shifted
<1>2. design.shift \in Nat /\ Depth \in Nat
  BY DesignFacts DEF CoupledConstants
<1>3. x + design.shift = Depth + (i + 1) * design.shift
  <2>1. (i + 1) * design.shift = i * design.shift + design.shift /\ i * design.shift \in Int
    BY <1>2, Distribute
  <2> QED BY <1>1, <1>2, <2>1
<1> QED BY <1>2, <1>3 DEF Shifted

LEMMA ShiftedDown ==
  ASSUME CoupledConstants, design \in Designs, NEW x \in Nat, Shifted(x), x > Depth
  PROVE  /\ x - design.shift \in Nat /\ Shifted(x - design.shift)
         /\ x - design.shift >= Depth
<1>1. PICK i \in Nat : x = Depth + i * design.shift
  BY DEF Shifted
<1>2. design.shift \in Nat \ {0} /\ Depth \in Nat
  BY DesignFacts DEF CoupledConstants
<1>3. i # 0
  BY <1>1, <1>2
<1>4. x - design.shift = Depth + (i - 1) * design.shift
  <2>1. (i - 1) * design.shift = i * design.shift - design.shift /\ i * design.shift \in Int
    BY <1>2, Distribute
  <2> QED BY <1>1, <1>2, <2>1
<1>5. (i - 1) * design.shift \in Nat
  BY <1>2, <1>3
<1>6. x - design.shift >= Depth
  BY <1>2, <1>4, <1>5
<1> QED BY <1>2, <1>3, <1>4, <1>6 DEF Shifted

LEMMA AssertInit == ASSUME CoupledConstants, Init PROVE AssertInv
<1>1. design \in Designs /\ Depth \in Nat /\ design.version \in Nat /\ 0 \in Subs
  BY DesignFacts DEF Init, CoupledConstants, Subs
<1>2. CoupledTypes
  BY <1>1 DEF Init, CoupledTypes, CoupledPCs, Moves
<1>3. Shifted(W.max)
  <2>1. W.max = Depth + 0 * design.shift
    BY <1>1, DesignFacts DEF Init
  <2> QED BY <2>1 DEF Shifted
<1> QED BY <1>1, <1>2, <1>3 DEF Init, AssertInv, AskInv

\* A window is the one read, or the old one.
LEMMA StepKeepsDesign ==
  ASSUME Next
  PROVE  design' = design
  BY DEF Next, push, pop, OpStep, Search, Enter, ReadWindow, ReadVersion, ReadDesc, Sync,
         Valid, HopOn, RoundEnds, MayShift, Shift, PushCAE, PopEmpty, PopCAE

\* The thread moves alone.
Others(t) == \A s \in Threads \ {t} : /\ pc'[s] = pc[s] /\ op'[s] = op[s] /\ tw'[s] = tw[s]
                                      /\ idx'[s] = idx[s] /\ hops'[s] = hops[s]
                                      /\ random'[s] = random[s] /\ empty'[s] = empty[s]
                                      /\ desc'[s] = desc[s]

\* Steps that leave the window and the sub-structures alone.
QuietStep(t) == \/ Enter(t) \/ ReadWindow(t) \/ ReadVersion(t) \/ ReadDesc(t)
                \/ Sync(t) \/ Valid(t) \/ HopOn(t) \/ RoundEnds(t) \/ MayShift(t)
                \/ push(t) \/ pop(t) \/ PopEmpty(t)

Quiet == UNCHANGED <<design, W, content, pushed>>

LEMMA QuietTypes ==
  ASSUME CoupledConstants, CoupledTypes, NEW t \in Threads,
         QuietStep(t), idleShifts' \in Moves
  PROVE  CoupledTypes' /\ Others(t) /\ Quiet
<1>0. Width \in Nat \ {0} /\ RandomHops \in Nat /\ 0 \in Subs
  BY DesignFacts DEF CoupledConstants, CoupledTypes, Subs
<1>1. CASE Enter(t)
  BY SMTT(30), <1>0, <1>1 DEF CoupledTypes, CoupledPCs, Others, Quiet, Enter, Goto, Set, itemVars
<1>2. CASE ReadWindow(t)
  BY ZenonT(60), <1>0, <1>2 DEF CoupledTypes, CoupledPCs, Others, Quiet, ReadWindow, Goto, Set, itemVars, searchVars
<1>3. CASE ReadVersion(t)
  BY <1>0, <1>3 DEF CoupledTypes, CoupledPCs, Others, Quiet, ReadVersion, Goto, itemVars, searchVars
<1>4. CASE ReadDesc(t)
  BY <1>0, <1>4 DEF CoupledTypes, CoupledPCs, Others, Quiet, ReadDesc, Goto, Set, itemVars
<1>5. CASE Sync(t)
  BY <1>0, <1>5 DEF CoupledTypes, CoupledPCs, Others, Quiet, Sync, Restart, Goto, Set, itemVars
<1>6. CASE Valid(t)
  BY <1>0, <1>6 DEF CoupledTypes, CoupledPCs, Others, Quiet, Valid, Goto, itemVars, searchVars
<1>7. CASE HopOn(t)
  <2>1. /\ idx' \in [Threads -> Subs] /\ hops' \in [Threads -> Nat] /\ random' \in [Threads -> Nat]
        /\ \A s \in Threads \ {t} : idx'[s] = idx[s] /\ hops'[s] = hops[s] /\ random'[s] = random[s]
    <3>1. idx[t] \in 0..(Width - 1) /\ hops[t] \in Nat /\ random[t] \in Nat
      BY DEF CoupledTypes, Subs
    <3>2. /\ idx \in [Threads -> Subs] /\ hops \in [Threads -> Nat]
          /\ random \in [Threads -> Nat]
      BY DEF CoupledTypes
    <3>3. Hop(t)
      BY <1>7 DEF HopOn
    <3>4. CASE random[t] < RandomHops
      <4>1. PICK q \in Subs : idx' = [idx EXCEPT ![t] = q]
        BY <3>3, <3>4 DEF Hop, Set
      <4>2. random' = [random EXCEPT ![t] = random[t] + 1] /\ hops' = hops
        BY <3>3, <3>4 DEF Hop, Set
      <4> QED BY <3>1, <3>2, <4>1, <4>2
    <3>5. CASE ~ (random[t] < RandomHops)
      <4>1. (IF idx[t] + 1 >= Width THEN 0 ELSE idx[t] + 1) \in Subs
        BY <1>0, <3>1 DEF Subs
      <4> QED BY <3>1, <3>2, <3>3, <3>5, <4>1 DEF Hop, Set
    <3> QED BY <3>4, <3>5
  <2> QED BY <1>0, <1>7, <2>1 DEF CoupledTypes, CoupledPCs, Others, Quiet, HopOn, Goto, Set, itemVars
<1>8. CASE RoundEnds(t)
  BY <1>0, <1>8 DEF CoupledTypes, CoupledPCs, Others, Quiet, RoundEnds, Goto, itemVars, searchVars
<1>9. CASE MayShift(t)
  <2>1. \E x \in {"cae", "desc"} : pc' = [pc EXCEPT ![t] = x]
    BY <1>9 DEF MayShift, Goto
  <2>2. \/ UNCHANGED <<hops, empty>>
        \/ hops' = [hops EXCEPT ![t] = 0] /\ empty' = [empty EXCEPT ![t] = TRUE]
    BY <1>9 DEF MayShift, Restart, Set
  <2>3. UNCHANGED <<design, W, tw, op, idx, contention, random, desc, itemVars>>
    BY <1>9 DEF MayShift
  <2>4. /\ pc' \in [Threads -> CoupledPCs] /\ hops' \in [Threads -> Nat]
        /\ empty' \in [Threads -> BOOLEAN]
    <3>1. pc' \in [Threads -> CoupledPCs]
      BY <2>1 DEF CoupledTypes, CoupledPCs
    <3>2. hops' \in [Threads -> Nat]
      <4>1. hops \in [Threads -> Nat]
        BY DEF CoupledTypes
      <4>2. hops' = hops \/ hops' = [hops EXCEPT ![t] = 0]
        BY <2>2
      <4> QED BY <4>1, <4>2
    <3>3. empty' \in [Threads -> BOOLEAN]
      <4>1. empty \in [Threads -> BOOLEAN]
        BY DEF CoupledTypes
      <4>2. empty' = empty \/ empty' = [empty EXCEPT ![t] = TRUE]
        BY <2>2
      <4> QED BY <4>1, <4>2
    <3> QED BY <3>1, <3>2, <3>3
  <2>5. \A s \in Threads \ {t} : pc'[s] = pc[s] /\ hops'[s] = hops[s] /\ empty'[s] = empty[s]
    BY <2>1, <2>2 DEF CoupledTypes
  <2> QED BY <2>3, <2>4, <2>5 DEF CoupledTypes, Others, Quiet, itemVars
<1>10. CASE push(t)
  BY SMTT(30), <1>0, <1>10 DEF CoupledTypes, CoupledPCs, Others, Quiet, push, Goto, Set
<1>11. CASE pop(t)
  BY <1>0, <1>11 DEF CoupledTypes, CoupledPCs, Others, Quiet, pop, Goto, Set, itemVars
<1>12. CASE PopEmpty(t)
  BY <1>0, <1>12 DEF CoupledTypes, CoupledPCs, Others, Quiet, PopEmpty, Leave, Set, itemVars
<1> QED BY <1>1, <1>2, <1>3, <1>4, <1>5, <1>6, <1>7, <1>8, <1>9, <1>10, <1>11, <1>12
        DEF QuietStep

\* The window only moves by a shift that was asked for.
LEMMA NewWindow ==
  ASSUME CoupledConstants, AssertInv, NEW t \in Threads, pc[t] \in {"shift", "cae"}, W = tw[t]
  PROVE  NewMax(t) \in Nat /\ Shifted(NewMax(t))
<1>1. design \in Designs /\ W.max \in Nat /\ tw[t].max = W.max /\ Shifted(W.max)
  BY DEF AssertInv, CoupledTypes
<1>2. CASE op[t] = "p"
  BY <1>1, <1>2, ShiftedUp DEF NewMax
<1>3. CASE op[t] = "g"
  <2>1. AskInv(t)
    BY DEF AssertInv
  <2>2. W.max > Depth
    BY <1>1, <1>3, <2>1 DEF AskInv
  <2> QED BY <1>1, <1>3, <2>2, ShiftedDown DEF NewMax
<1>4. op[t] \in {"p", "g"}
  BY DEF AssertInv, AskInv
<1> QED BY <1>2, <1>3, <1>4

LEMMA ShiftKeepsAssert ==
  ASSUME CoupledConstants, AssertInv, NEW t \in Threads, Shift(t), idleShifts' \in Moves
  PROVE  AssertInv' /\ Others(t) /\ UNCHANGED <<design, content, pushed>>
<1>0. CoupledTypes /\ W.version \in Nat /\ tw[t].version \in Nat /\ W \in [max : Nat, version : Nat]
  BY DEF AssertInv, CoupledTypes
<1>1. /\ pc[t] = "cae" /\ \E x \in {"desc", "read"} : pc' = [pc EXCEPT ![t] = x]
      /\ tw' = [tw EXCEPT ![t] = W']
      /\ hops' = [hops EXCEPT ![t] = 0] /\ empty' = [empty EXCEPT ![t] = TRUE]
      /\ UNCHANGED <<design, op, idx, contention, random, desc, content, started, pushed>>
  BY DEF Shift, Goto, Set, Restart, itemVars
<1>2. W' = IF W = tw[t] THEN [max |-> NewMax(t), version |-> tw[t].version + 1] ELSE W
  BY DEF Shift
<1>3. W' \in [max : Nat, version : Nat] /\ Shifted(W'.max)
  <2>1. CASE W = tw[t]
    <3>1. NewMax(t) \in Nat /\ Shifted(NewMax(t))
      BY <1>1, <2>1, NewWindow
    <3>2. W' = [max |-> NewMax(t), version |-> tw[t].version + 1]
      BY <1>2, <2>1
    <3> QED BY <1>0, <3>1, <3>2
  <2>2. CASE W # tw[t]
    BY <1>0, <1>2, <2>2 DEF AssertInv
  <2> QED BY <2>1, <2>2
<1>4. CoupledTypes'
  BY SMTT(30), <1>0, <1>1, <1>3 DEF CoupledTypes, CoupledPCs
<1>5. Others(t)
  BY <1>0, <1>1 DEF Others, CoupledTypes
<1>6. /\ tw'[t] = W' /\ empty'[t] = TRUE /\ op'[t] = op[t]
      /\ pc'[t] \in {"desc", "read"}
  BY <1>0, <1>1 DEF CoupledTypes
<1>7. ASSUME NEW s \in Threads PROVE AskInv(s)' /\ (tw'[s].max = 0 \/ Shifted(tw'[s].max))
  <2>1. CASE s = t
    BY <1>1, <1>3, <1>6, <2>1 DEF AskInv, AssertInv
  <2>2. CASE s # t
    BY <1>5, <2>2 DEF Others, AssertInv, AskInv
  <2> QED BY <2>1, <2>2
<1>8. Shifted(W.max)' /\ \A s \in Threads : (tw[s].max = 0 \/ Shifted(tw[s].max))'
  BY <1>1, <1>3, <1>7 DEF Shifted
<1> QED BY <1>1, <1>4, <1>5, <1>7, <1>8 DEF AssertInv

\* The compare-and-exchanges of push and pop change a sub-structure or try again.
LEMMA ItemTypes ==
  ASSUME CoupledConstants, CoupledTypes, NEW t \in Threads, PushCAE(t) \/ PopCAE(t),
         idleShifts' \in Moves
  PROVE  /\ CoupledTypes' /\ Others(t) /\ UNCHANGED <<design, W, tw>>
         /\ pc'[t] \in {"idle", "enter"}
         /\ pc'[t] = "enter" => op'[t] = op[t] /\ empty'[t] = empty[t]
         /\ pc'[t] = "idle" => empty'[t] = TRUE
<1>1. /\ content' \in [Subs -> Seq(Nat)] /\ pushed' \in Nat /\ started' \in Nat
      /\ UNCHANGED <<design, W, tw>>
      /\ Leave(t) \/ Retry(t)
  <2>1. /\ content \in [Subs -> Seq(Nat)] /\ pushed \in Nat /\ started \in Nat
        /\ idx[t] \in Subs /\ content[idx[t]] \in Seq(Nat)
    BY DEF CoupledTypes
  <2>2. CASE PushCAE(t)
    <3> DEFINE x == IF design.counts THEN 0 ELSE pushed + 1
    <3>1. x \in Nat
      BY <2>1
    <3> HIDE DEF x
    <3>2. <<x>> \o content[idx[t]] \in Seq(Nat)
      BY <2>1, <3>1
    <3>3. \/ content' = content /\ pushed' = pushed
          \/ content' = [content EXCEPT ![idx[t]] = <<x>> \o content[idx[t]]] /\ pushed' = pushed + 1
      BY <2>2 DEF PushCAE, x
    <3> DEFINE c == <<x>> \o content[idx[t]]
    <3>4. content' = content \/ content' = [content EXCEPT ![idx[t]] = c]
      BY <3>3
    <3>5. c \in Seq(Nat)
      BY <3>2
    <3> HIDE DEF c
    <3>6. content' \in [Subs -> Seq(Nat)]
      BY <2>1, <3>4, <3>5
    <3>7. pushed' \in Nat
      BY <2>1, <3>3
    <3> QED BY <2>1, <2>2, <3>6, <3>7 DEF PushCAE
  <2>3. CASE PopCAE(t)
    <3>1. content' = content \/ content' = [content EXCEPT ![idx[t]] = Tail(content[idx[t]])]
      BY <2>3 DEF PopCAE
    <3>2. content' # content => content[idx[t]] # << >>
      BY <2>3 DEF PopCAE
    <3>3. content' # content => Tail(content[idx[t]]) \in Seq(Nat)
      BY <2>1, <3>2
    <3>4. content' \in [Subs -> Seq(Nat)]
      BY <2>1, <3>1, <3>3
    <3> QED BY <2>1, <2>3, <3>4 DEF PopCAE
  <2> QED BY <2>2, <2>3
<1>2. CASE Leave(t)
  <2>1. /\ pc' \in [Threads -> CoupledPCs] /\ op' \in [Threads -> {"none", "p", "g"}]
        /\ idx' \in [Threads -> Subs] /\ desc' \in [Threads -> Seq(Nat)]
        /\ hops' \in [Threads -> Nat] /\ random' \in [Threads -> Nat]
    BY <1>2 DEF CoupledTypes, CoupledPCs, Leave, Set
  <2>2. contention' \in [Threads -> BOOLEAN] /\ empty' \in [Threads -> BOOLEAN]
    BY <1>2 DEF CoupledTypes, Leave, Set
  <2>3. Others(t) /\ pc'[t] = "idle" /\ empty'[t] = TRUE
    BY <1>1, <1>2 DEF CoupledTypes, Others, Leave, Set
  <2>4. CoupledTypes'
    BY <1>1, <2>1, <2>2 DEF CoupledTypes
  <2> QED BY <1>1, <2>3, <2>4
<1>3. CASE Retry(t)
  <2>1. pc' \in [Threads -> CoupledPCs] /\ pc'[t] = "enter"
    BY <1>3 DEF CoupledTypes, CoupledPCs, Retry, Set
  <2>2. contention' \in [Threads -> BOOLEAN]
    BY <1>3 DEF CoupledTypes, Retry, Set
  <2>3. UNCHANGED <<op, idx, hops, random, empty, desc>>
    BY <1>3 DEF Retry
  <2>4. Others(t)
    BY <1>1, <1>3, <2>3 DEF CoupledTypes, Others, Retry, Set
  <2>5. CoupledTypes'
    BY <1>1, <2>1, <2>2, <2>3 DEF CoupledTypes
  <2> QED BY <1>1, <2>1, <2>3, <2>4, <2>5
<1> QED BY <1>1, <1>2, <1>3

LEMMA QuietAsks ==
  ASSUME CoupledConstants, AssertInv, NEW t \in Threads, QuietStep(t)
  PROVE  AskInv(t)' /\ (tw'[t].max = 0 \/ Shifted(tw'[t].max))
<1>0. /\ CoupledTypes /\ AskInv(t) /\ Shifted(W.max)
      /\ tw[t].max = 0 \/ Shifted(tw[t].max)
      /\ Depth \in Nat \ {0} /\ tw[t].max \in Nat /\ W.max \in Nat
      /\ desc[t] \in Seq(Nat) /\ Len(desc[t]) \in Nat 
  BY SMTT(30) DEF AssertInv, CoupledTypes, CoupledConstants
<1>1. CASE Enter(t)
  BY <1>0, <1>1 DEF AskInv, CoupledTypes, Enter, Goto, Set
<1>2. CASE ReadWindow(t)
  BY <1>0, <1>2 DEF AskInv, CoupledTypes, ReadWindow, Goto, Set, searchVars
<1>3. CASE ReadVersion(t)
  BY <1>0, <1>3 DEF AskInv, CoupledTypes, ReadVersion, Goto, searchVars
<1>4. CASE ReadDesc(t)
  BY <1>0, <1>4 DEF AskInv, CoupledTypes, ReadDesc, Goto, Set
<1>5. CASE Sync(t)
  BY <1>0, <1>5 DEF AskInv, CoupledTypes, Sync, Restart, Goto, Set
<1>6. CASE Valid(t)
  BY <1>0, <1>6 DEF AskInv, CoupledTypes, Valid, Goto, searchVars
<1>7. CASE HopOn(t)
  BY <1>0, <1>7 DEF AskInv, CoupledTypes, HopOn, InWindow, count, Goto, Set
<1>8. CASE RoundEnds(t)
  BY <1>0, <1>8 DEF AskInv, CoupledTypes, RoundEnds, Goto, searchVars
<1>9. CASE MayShift(t)
  BY <1>0, <1>9 DEF AskInv, CoupledTypes, MayShift, Restart, Goto, Set
<1>10. CASE push(t)
  BY <1>0, <1>10 DEF AskInv, CoupledTypes, push, Goto, Set
<1>11. CASE pop(t)
  BY <1>0, <1>11 DEF AskInv, CoupledTypes, pop, Goto, Set
<1>12. CASE PopEmpty(t)
  BY <1>0, <1>12 DEF AskInv, CoupledTypes, PopEmpty, Leave, Set
<1> QED BY <1>1, <1>2, <1>3, <1>4, <1>5, <1>6, <1>7, <1>8, <1>9, <1>10, <1>11, <1>12
        DEF QuietStep

LEMMA ObserveTypes ==
  ASSUME Observe, idleShifts \in Moves
  PROVE  idleShifts' \in Moves
  BY DEF Observe, Direction, Moves

\* A step is one of a thread.
LEMMA StepCases ==
  ASSUME Next
  PROVE  \E t \in Threads : QuietStep(t) \/ Shift(t) \/ PushCAE(t) \/ PopCAE(t)
  BY DEF Next, OpStep, Search, QuietStep

LEMMA AssertStep ==
  ASSUME CoupledConstants, AssertInv, [Next]_vars
  PROVE  AssertInv'
<1>1. CASE UNCHANGED vars
  BY <1>1 DEF AssertInv, CoupledTypes, Shifted, AskInv, vars, searchVars, itemVars
<1>2. CASE Next
  <2>0. idleShifts' \in Moves
    BY <1>2, ObserveTypes DEF Next, AssertInv, CoupledTypes
  <2>1. PICK t \in Threads : QuietStep(t) \/ Shift(t) \/ PushCAE(t) \/ PopCAE(t)
    BY <1>2, StepCases
  <2>2. CASE Shift(t)
    BY <2>0, <2>2, ShiftKeepsAssert
  <2>3. CASE QuietStep(t) \/ PushCAE(t) \/ PopCAE(t)
    <3>1. CoupledTypes' /\ Others(t) /\ UNCHANGED <<design, W>>
      BY <2>0, <2>3, QuietTypes, ItemTypes DEF AssertInv, Quiet
    <3>2. AskInv(t)' /\ (tw'[t].max = 0 \/ Shifted(tw'[t].max))
      <4>1. CASE QuietStep(t)
        BY <4>1, QuietAsks
      <4>2. CASE PushCAE(t) \/ PopCAE(t)
        <5>1. /\ tw' = tw /\ pc'[t] \in {"idle", "enter"}
              /\ pc'[t] = "enter" => op'[t] = op[t] /\ empty'[t] = empty[t]
              /\ pc'[t] = "idle" => empty'[t] = TRUE
          BY <2>0, <4>2, ItemTypes DEF AssertInv
        <5>2. pc[t] = "done" /\ AskInv(t) /\ (tw[t].max = 0 \/ Shifted(tw[t].max))
          BY <4>2 DEF AssertInv, PushCAE, PopCAE
        <5> QED BY <5>1, <5>2 DEF AskInv
      <4> QED BY <2>3, <4>1, <4>2
    <3>3. \A s \in Threads : AskInv(s)' /\ (tw'[s].max = 0 \/ Shifted(tw'[s].max))
      BY <3>1, <3>2 DEF Others, AssertInv, AskInv
    <3>4. Shifted(W.max)' /\ \A s \in Threads : (tw[s].max = 0 \/ Shifted(tw[s].max))'
      BY <3>1, <3>3 DEF Shifted, AssertInv
    <3> QED BY <3>1, <3>3, <3>4 DEF AssertInv
  <2> QED BY <2>1, <2>2, <2>3
<1> QED BY <1>1, <1>2

LEMMA AssertMeans ==
  ASSUME CoupledConstants, AssertInv
  PROVE  ShiftAsserted
<1> SUFFICES ASSUME NEW t \in Threads, pc[t] = "shift", op[t] = "g"
             PROVE  NewMax(t) >= Depth
  BY DEF ShiftAsserted
<1>1. tw[t].max \in Nat /\ design \in Designs
  BY DEF AssertInv, CoupledTypes
<1>2. tw[t].max > Depth
  BY DEF AssertInv, AskInv
<1>3. Shifted(tw[t].max)
  BY <1>1, <1>2 DEF AssertInv, CoupledConstants
<1> QED BY <1>1, <1>2, <1>3, ShiftedDown DEF NewMax

\* The assertion of get_window holds, in the optimized stack that makes it and in the
\* two structures that test instead: a get that has seen an item and found none in
\* its window never has to shift below depth.
THEOREM AssertionHolds ==
  ASSUME CoupledConstants
  PROVE  Spec => []ShiftAsserted
<1>1. Init => AssertInv
  BY AssertInit
<1>2. AssertInv /\ [Next]_vars => AssertInv'
  BY AssertStep
<1>3. AssertInv => ShiftAsserted
  BY AssertMeans
<1> QED BY <1>1, <1>2, <1>3, PTL DEF Spec

-----------------------------------------------------------------------------
(***************************************************************************)
(* How far the pushes of the optimized stack leave the window.  A push     *)
(* that was let through by an older window succeeds only if its descriptor *)
(* is still there; then no item of it has been popped meanwhile, because   *)
(* items do not come back, so the gets that moved the window down have met *)
(* at least as many items as the push did.                                 *)
(***************************************************************************)

\* d is what c was before some pushes.
Suffix(d, c) == /\ Len(d) <= Len(c)
                /\ \A i \in 1..Len(d) : d[i] = c[Len(c) - Len(d) + i]

\* A push that put_window has let through, whether its items are all still there, and
\* whether the window has moved since.
Pending(t) == pc[t] = "done" /\ op[t] = "p"
Alive(t) == Suffix(desc[t], content[idx[t]])
Old(t) == tw[t].version # W.version

PushInv(t) == Pending(t) =>
                /\ ~ Old(t) => Len(desc[t]) < W.max
                /\ Old(t) /\ Alive(t) => Len(desc[t]) < W.max + design.shift

\* What a get knows of a sub-stack that it found below the window.
Visited(q) == /\ Len(content[q]) <= W.max
              /\ \A t \in Threads : Pending(t) /\ Old(t) /\ idx[t] = q /\ Alive(t)
                                    => Len(desc[t]) + Depth <= W.max

\* The sub-structures that the last hops have left behind.
Behind(t, q) == \E j \in 1..hops[t] : q = idx[t] - j \/ q = idx[t] - j + Width

ScanInv(t) == op[t] = "g" /\ ~ Old(t) /\ pc[t] \in {"desc", "check", "shift", "cae"} =>
                /\ \A q \in Subs : Behind(t, q) => Visited(q)
                /\ pc[t] = "check" /\ Len(desc[t]) + Depth <= W.max => Visited(idx[t])

HopsInv(t) == /\ hops[t] <= Width
              /\ hops[t] # 0 => random[t] >= RandomHops
              /\ pc[t] \in {"shift", "cae"} => hops[t] = Width
              /\ pc[t] \in {"read", "version"} => hops[t] = 0

\* The window is copied at once.
CopyInv(t) == /\ pc[t] # "version"
              /\ tw[t].version <= W.version
              /\ ~ Old(t) => tw[t] = W

NoneNewer(c) == \A i \in 1..Len(c) : c[i] <= pushed

BoundInv == /\ \A q \in Subs : Len(content[q]) <= W.max + design.shift
            /\ \A q \in Subs : NoneNewer(content[q])
            /\ \A t \in Threads : NoneNewer(desc[t])
            /\ \A t \in Threads : HopsInv(t) /\ CopyInv(t) /\ PushInv(t) /\ ScanInv(t)

-----------------------------------------------------------------------------
\* A push does not bring old items back, and neither does a pop.
LEMMA PushSuffix ==
  ASSUME NEW c \in Seq(Nat), NEW d \in Seq(Nat), NEW x \in Nat,
         \A i \in 1..Len(d) : d[i] # x, Suffix(d, <<x>> \o c)
  PROVE  Suffix(d, c)
<1> DEFINE e == <<x>> \o c
<1>1. /\ Len(e) = Len(c) + 1 /\ e[1] = x
      /\ \A k \in 1..Len(c) : e[k + 1] = c[k]
  OBVIOUS
<1>2. Len(d) <= Len(e) /\ \A i \in 1..Len(d) : d[i] = e[Len(e) - Len(d) + i]
  BY DEF Suffix
<1>3. Len(c) \in Nat /\ Len(d) \in Nat
  OBVIOUS
<1> HIDE DEF e
<1>4. Len(d) <= Len(c)
  <2>1. ASSUME Len(d) = Len(c) + 1 PROVE FALSE
    <3>1. 1 \in 1..Len(d) /\ Len(e) - Len(d) + 1 = 1
      BY <1>1, <1>3, <2>1
    <3>2. d[1] = e[1]
      BY <1>2, <3>1
    <3> QED BY <1>1, <3>1, <3>2
  <2> QED BY <1>1, <1>2, <1>3, <2>1
<1>5. ASSUME NEW i \in 1..Len(d) PROVE d[i] = c[Len(c) - Len(d) + i]
  <2>1. /\ Len(c) - Len(d) + i \in 1..Len(c)
        /\ Len(e) - Len(d) + i = (Len(c) - Len(d) + i) + 1
    BY <1>1, <1>3, <1>4
  <2>2. d[i] = e[(Len(c) - Len(d) + i) + 1]
    BY <1>2, <2>1
  <2> QED BY <1>1, <2>1, <2>2
<1> QED BY <1>4, <1>5 DEF Suffix

LEMMA PopSuffix ==
  ASSUME NEW c \in Seq(Nat), c # << >>, NEW d \in Seq(Nat), Suffix(d, Tail(c))
  PROVE  Suffix(d, c)
<1> DEFINE e == Tail(c)
<1>1. /\ Len(c) = Len(e) + 1
      /\ \A k \in 1..Len(e) : e[k] = c[k + 1]
  OBVIOUS
<1>2. Len(d) <= Len(e) /\ \A i \in 1..Len(d) : d[i] = e[Len(e) - Len(d) + i]
  BY DEF Suffix
<1>3. Len(e) \in Nat /\ Len(d) \in Nat
  OBVIOUS
<1> HIDE DEF e
<1>4. Len(d) <= Len(c)
  BY <1>1, <1>2, <1>3
<1>5. ASSUME NEW i \in 1..Len(d) PROVE d[i] = c[Len(c) - Len(d) + i]
  <2>1. /\ Len(e) - Len(d) + i \in 1..Len(e)
        /\ (Len(e) - Len(d) + i) + 1 = Len(c) - Len(d) + i
    BY <1>1, <1>2, <1>3
  <2> QED BY <1>1, <1>2, <2>1
<1> QED BY <1>4, <1>5 DEF Suffix

LEMMA SuffixRefl ==
  ASSUME NEW c \in Seq(Nat)
  PROVE  Suffix(c, c)
  BY DEF Suffix

-----------------------------------------------------------------------------
\* A hop leaves the sub-structure behind; a full round has left all behind.
LEMMA HopBehind ==
  ASSUME CoupledConstants, CoupledTypes, NEW t \in Threads, HopsInv(t), Hop(t), hops[t] # Width
  PROVE  /\ hops'[t] <= Width
         /\ hops'[t] # 0 => random'[t] >= RandomHops
         /\ \A q \in Subs : Behind(t, q)' => Behind(t, q) \/ q = idx[t]
<1>0. /\ Width \in Nat \ {0} /\ RandomHops \in Nat /\ idx[t] \in 0..(Width - 1)
      /\ hops[t] \in Nat /\ random[t] \in Nat /\ hops[t] <= Width
      /\ hops \in [Threads -> Nat] /\ idx \in [Threads -> Subs] /\ random \in [Threads -> Nat]
  BY DEF CoupledConstants, CoupledTypes, Subs, HopsInv
<1>1. CASE random[t] < RandomHops
  <2>1. hops[t] = 0
    BY <1>0, <1>1 DEF HopsInv
  <2>2. hops' = hops
    BY <1>1 DEF Hop
  <2>3. ~ \E j \in 1..hops'[t] : TRUE
    BY <2>1, <2>2
  <2> QED BY <1>0, <2>1, <2>2, <2>3 DEF Behind
<1>2. CASE ~ (random[t] < RandomHops)
  <2>1. /\ hops'[t] = hops[t] + 1 /\ random' = random
        /\ idx'[t] = IF idx[t] + 1 >= Width THEN 0 ELSE idx[t] + 1
    BY <1>0, <1>2 DEF Hop, Set
  <2>2. ASSUME NEW q \in Subs, Behind(t, q)' PROVE Behind(t, q) \/ q = idx[t]
    <3>1. PICK j \in 1..(hops[t] + 1) : q = idx'[t] - j \/ q = idx'[t] - j + Width
      BY <2>1, <2>2 DEF Behind
    <3>2. q \in 0..(Width - 1)
      BY DEF Subs
    <3>3. CASE j = 1
      BY <1>0, <2>1, <3>1, <3>2, <3>3
    <3>4. CASE j # 1
      <4>1. j - 1 \in 1..hops[t]
        BY <1>0, <3>4
      <4>2. q = idx[t] - (j - 1) \/ q = idx[t] - (j - 1) + Width
        BY <1>0, <2>1, <3>1, <3>2, <4>1
      <4> QED BY <4>1, <4>2 DEF Behind
    <3> QED BY <3>3, <3>4
  <2> QED BY <1>0, <1>2, <2>1, <2>2
<1> QED BY <1>1, <1>2

LEMMA RoundBehind ==
  ASSUME CoupledConstants, CoupledTypes, NEW t \in Threads, hops[t] = Width, NEW q \in Subs
  PROVE  Behind(t, q)
<1>0. Width \in Nat \ {0} /\ idx[t] \in 0..(Width - 1) /\ q \in 0..(Width - 1)
  BY DEF CoupledConstants, CoupledTypes, Subs
<1>1. CASE q < idx[t]
  <2>1. idx[t] - q \in 1..hops[t] /\ q = idx[t] - (idx[t] - q)
    BY <1>0, <1>1
  <2> QED BY <2>1 DEF Behind
<1>2. CASE ~ (q < idx[t])
  <2>1. idx[t] - q + Width \in 1..hops[t] /\ q = idx[t] - (idx[t] - q + Width) + Width
    BY <1>0, <1>2
  <2> QED BY <2>1 DEF Behind
<1> QED BY <1>1, <1>2

LEMMA BoundFacts ==
  ASSUME CoupledConstants, CoupledTypes
  PROVE  /\ Depth \in Nat \ {0} /\ Width \in Nat \ {0} /\ RandomHops \in Nat
         /\ design.shift \in Nat \ {0} /\ design.shift <= Depth
         /\ W.max \in Nat /\ W.version \in Nat /\ pushed \in Nat
         /\ \A q \in Subs : content[q] \in Seq(Nat) /\ Len(content[q]) \in Nat
         /\ \A t \in Threads : /\ desc[t] \in Seq(Nat) /\ Len(desc[t]) \in Nat
                                /\ idx[t] \in Subs /\ hops[t] \in Nat /\ random[t] \in Nat
                                /\ tw[t] \in [max : Nat, version : Nat]
                                /\ tw[t].max \in Nat /\ tw[t].version \in Nat
  BY DesignFacts DEF CoupledConstants, CoupledTypes

\* A quiet step makes a push pending only if it is inside the current window.
LEMMA QuietPending ==
  ASSUME CoupledConstants, CoupledTypes, NEW t \in Threads, QuietStep(t), CopyInv(t), Pending(t)'
  PROVE  ~ Old(t)' /\ Len(desc'[t]) < W'.max
<1>1. Valid(t) /\ op[t] = "p"
  BY DEF QuietStep, Pending, CoupledTypes, Enter, ReadWindow, ReadVersion, ReadDesc, Sync,
         HopOn, RoundEnds, MayShift, push, pop, PopEmpty, Leave, Goto, Set, Valid, searchVars
<1>2. /\ W' = W /\ tw' = tw /\ desc' = desc
      /\ W.version = tw[t].version /\ Len(desc[t]) < tw[t].max
  BY <1>1 DEF Valid, Current, InWindow, count, searchVars
<1> QED BY <1>2 DEF Old, CopyInv

\* A quiet step keeps what is known of the sub-structures visited.
LEMMA QuietVisited ==
  ASSUME CoupledConstants, CoupledTypes, NEW t \in Threads, QuietStep(t), CopyInv(t),
         Others(t), Quiet, NEW q \in Subs, Visited(q)
  PROVE  Visited(q)'
<1>1. content' = content /\ W' = W
  BY DEF Quiet
<1>2. ASSUME NEW s \in Threads, Pending(s)', Old(s)', idx'[s] = q, Alive(s)'
      PROVE  Len(desc'[s]) + Depth <= W'.max
  <2>1. s # t
    BY <1>2, QuietPending
  <2>2. Pending(s) /\ Old(s) /\ idx[s] = q /\ Alive(s) /\ desc'[s] = desc[s]
    BY <1>1, <1>2, <2>1 DEF Others, Pending, Old, Alive, Suffix
  <2> QED BY <1>1, <2>2 DEF Visited
<1> QED BY <1>1, <1>2 DEF Visited

LEMMA QuietCopy ==
  ASSUME CoupledConstants, CoupledTypes, ~ design.window.split, NEW t \in Threads,
         QuietStep(t), CopyInv(t)
  PROVE  CopyInv(t)'
<1>0. /\ W.version \in Nat /\ tw[t].version \in Nat /\ pc \in [Threads -> CoupledPCs]
      /\ tw \in [Threads -> [max : Nat, version : Nat]]
  BY BoundFacts DEF CoupledTypes
<1>1. CASE ReadWindow(t)
  <2>1. W' = W /\ tw'[t] = W /\ pc'[t] = "desc"
    BY <1>0, <1>1 DEF ReadWindow, Set, Goto
  <2> QED BY <1>0, <2>1 DEF CopyInv, Old
<1>2. CASE ReadVersion(t)
  BY <1>2 DEF ReadVersion, Goto, CopyInv
<1>3. CASE ~ ReadWindow(t) /\ ~ ReadVersion(t)
  <2>1. UNCHANGED <<W, tw>>
    BY <1>3 DEF QuietStep, Enter, ReadDesc, Sync, Valid, HopOn, RoundEnds, MayShift, push,
                pop, PopEmpty
  <2>2. pc'[t] # "version"
    BY <1>0, <1>3 DEF QuietStep, Enter, ReadDesc, Sync, Valid, HopOn, RoundEnds, MayShift, push,
                      pop, PopEmpty, Goto, Leave, Set
  <2> QED BY <2>1, <2>2 DEF CopyInv, Old
<1> QED BY <1>1, <1>2, <1>3

LEMMA QuietHops ==
  ASSUME CoupledConstants, CoupledTypes, NEW t \in Threads, QuietStep(t), HopsInv(t)
  PROVE  HopsInv(t)'
<1>0. /\ Width \in Nat \ {0} /\ RandomHops \in Nat
      /\ hops[t] \in Nat /\ random[t] \in Nat
      /\ pc \in [Threads -> CoupledPCs] /\ hops \in [Threads -> Nat]
      /\ random \in [Threads -> Nat]
  BY BoundFacts DEF CoupledTypes
<1>2. CASE Enter(t)
  BY <1>0, <1>2 DEF HopsInv, Enter, Goto, Set
<1>3. CASE ReadWindow(t)
  BY <1>0, <1>3 DEF HopsInv, ReadWindow, Goto, searchVars
<1>4. CASE ReadVersion(t)
  BY <1>0, <1>4 DEF ReadVersion, Goto, HopsInv, searchVars
<1>5. CASE ReadDesc(t)
  BY <1>0, <1>5 DEF HopsInv, ReadDesc, Goto
<1>6. CASE Sync(t)
  BY <1>0, <1>6 DEF HopsInv, Sync, Restart, Goto, Set
<1>7. CASE Valid(t)
  BY <1>0, <1>7 DEF HopsInv, Valid, Goto, searchVars
<1>8. CASE HopOn(t)
  <2>1. hops'[t] <= Width /\ (hops'[t] # 0 => random'[t] >= RandomHops)
    BY <1>8, HopBehind DEF HopOn
  <2> QED BY <1>0, <1>8, <2>1 DEF HopsInv, HopOn, Goto
<1>9. CASE RoundEnds(t)
  BY <1>0, <1>9 DEF HopsInv, RoundEnds, Goto, searchVars
<1>10. CASE MayShift(t)
  BY <1>0, <1>10 DEF HopsInv, MayShift, Restart, Goto, Set
<1>11. CASE push(t) \/ pop(t)
  BY <1>0, <1>11 DEF HopsInv, push, pop, Goto
<1>12. CASE PopEmpty(t)
  BY <1>0, <1>12 DEF HopsInv, PopEmpty, Leave, Set
<1> QED BY <1>2, <1>3, <1>4, <1>5, <1>6, <1>7, <1>8, <1>9, <1>10, <1>11, <1>12
        DEF QuietStep

\* The search of a get: what it has left behind it has found below the window.
LEMMA QuietScans ==
  ASSUME CoupledConstants, AssertInv, BoundInv, NEW t \in Threads, QuietStep(t),
         Quiet, HopsInv(t)', \A q \in Subs : Visited(q) => Visited(q)'
  PROVE  ScanInv(t)'
<1>0. /\ CoupledTypes /\ HopsInv(t) /\ CopyInv(t) /\ ScanInv(t)
      /\ content' = content /\ W' = W
  BY DEF AssertInv, BoundInv, Quiet
<1>1. /\ Depth \in Nat \ {0} /\ W.max \in Nat /\ idx[t] \in Subs /\ hops[t] \in Nat
      /\ pc \in [Threads -> CoupledPCs] /\ hops \in [Threads -> Nat]
      /\ desc \in [Threads -> Seq(Nat)] /\ op[t] \in {"none", "p", "g"}
  BY <1>0, BoundFacts DEF CoupledTypes
<1>2. ASSUME hops'[t] = 0, pc'[t] # "check" PROVE ScanInv(t)'
  <2>1. \A q : ~ Behind(t, q)'
    BY <1>2 DEF Behind
  <2> QED BY <1>2, <2>1 DEF ScanInv
<1>3. CASE Enter(t)
  BY <1>1, <1>2, <1>3 DEF Enter, Goto, Set
<1>4. CASE ReadWindow(t)
  <2>1. pc[t] = "read" /\ hops' = hops /\ pc'[t] \in {"version", "desc"}
    BY <1>1, <1>4 DEF ReadWindow, Goto, searchVars
  <2> QED BY <1>0, <1>2, <2>1 DEF HopsInv
<1>5. CASE ReadDesc(t)
  <2>1. /\ pc[t] = "desc" /\ pc'[t] = "check" /\ desc'[t] = content[idx[t]]
        /\ UNCHANGED <<tw, op, idx, hops>>
    BY <1>1, <1>5 DEF ReadDesc, Goto, Set
  <2>2. \A q : Behind(t, q)' = Behind(t, q)
    BY <2>1 DEF Behind
  <2>3. ASSUME Len(content[idx[t]]) + Depth <= W.max PROVE Visited(idx[t])
    <3>1. Len(content[idx[t]]) \in Nat
      BY <1>0, <1>1, BoundFacts
    <3>2. ASSUME NEW s \in Threads, idx[s] = idx[t], Alive(s)
          PROVE  Len(desc[s]) + Depth <= W.max
      <4>1. Len(desc[s]) <= Len(content[idx[t]]) /\ Len(desc[s]) \in Nat
        BY <1>0, <3>2, BoundFacts DEF Alive, Suffix
      <4> QED BY <1>1, <2>3, <3>1, <4>1
    <3> QED BY <1>1, <2>3, <3>1, <3>2 DEF Visited
  <2>4. (Old(t) <=> Old(t)') /\ idx'[t] \in Subs
    BY <1>0, <1>1, <2>1 DEF Old
  <2> QED BY <1>0, <1>1, <2>1, <2>2, <2>3, <2>4 DEF ScanInv
<1>6. CASE HopOn(t)
  <2>1. pc[t] = "check" /\ pc'[t] = "desc" /\ UNCHANGED <<tw, op, desc>>
    BY <1>1, <1>6 DEF HopOn, Goto
  <2>2. ASSUME op[t] = "g" PROVE Visited(idx[t]) /\ ~ Old(t)
    <3>1. ~ Old(t) /\ tw[t] = W /\ ~ (Len(desc[t]) + Depth > tw[t].max) /\ Len(desc[t]) \in Nat
      BY <1>0, <1>6, <2>2, BoundFacts DEF HopOn, Current, Old, CopyInv, InWindow, count
    <3> QED BY <1>0, <1>1, <2>1, <2>2, <3>1 DEF ScanInv
  <2>3. \A q \in Subs : Behind(t, q)' => Behind(t, q) \/ q = idx[t]
    BY <1>0, <1>6, HopBehind DEF HopOn
  <2> QED BY <1>0, <1>1, <2>1, <2>2, <2>3 DEF ScanInv
<1>7. CASE RoundEnds(t)
  <2>1. pc[t] = "check" /\ pc'[t] \in {"done", "shift"} /\ UNCHANGED <<tw, op, idx, hops>>
    BY <1>1, <1>7 DEF RoundEnds, Goto, searchVars
  <2>2. \A q : Behind(t, q)' = Behind(t, q)
    BY <2>1 DEF Behind
  <2>3. Old(t) <=> Old(t)'
    BY <1>0, <2>1 DEF Old
  <2> QED BY <1>0, <2>1, <2>2, <2>3 DEF ScanInv
<1>8. CASE MayShift(t)
  <2>1. /\ pc[t] = "shift" /\ UNCHANGED <<tw, op, idx>>
        /\ \/ pc'[t] = "cae" /\ hops' = hops
           \/ pc'[t] = "desc" /\ hops'[t] = 0
    BY <1>1, <1>8 DEF MayShift, Restart, Goto, Set
  <2>2. CASE pc'[t] = "cae"
    <3>1. \A q : Behind(t, q)' = Behind(t, q)
      BY <2>1, <2>2 DEF Behind
    <3>2. Old(t) <=> Old(t)'
      BY <1>0, <2>1 DEF Old
    <3> QED BY <1>0, <2>1, <2>2, <3>1, <3>2 DEF ScanInv
  <2>3. CASE pc'[t] = "desc"
    BY <1>2, <2>1, <2>3
  <2> QED BY <2>1, <2>2, <2>3
<1>9. CASE Sync(t) \/ Valid(t) \/ push(t) \/ pop(t) \/ PopEmpty(t) \/ ReadVersion(t)
  <2>1. pc'[t] \in {"read", "done", "enter", "idle"} \/ pc[t] = "version"
    BY <1>1, <1>9 DEF Sync, Valid, push, pop, PopEmpty, ReadVersion, Leave, Goto, Set
  <2> QED BY <1>0, <2>1 DEF ScanInv, CopyInv
<1> QED BY <1>3, <1>4, <1>5, <1>6, <1>7, <1>8, <1>9 DEF QuietStep

LEMMA QuietBound ==
  ASSUME CoupledConstants, AssertInv, BoundInv, ~ design.window.split, NEW t \in Threads,
         QuietStep(t), idleShifts' \in Moves
  PROVE  BoundInv'
<1>0. CoupledTypes /\ CoupledTypes' /\ Others(t) /\ Quiet
  BY QuietTypes DEF AssertInv
<1>1. HopsInv(t)' /\ CopyInv(t)'
  BY <1>0, QuietHops, QuietCopy DEF BoundInv
<1>2. \A q \in Subs : Visited(q) => Visited(q)'
  BY <1>0, QuietVisited DEF BoundInv
<1>3. ScanInv(t)'
  BY <1>0, <1>1, <1>2, QuietScans
<1>4. PushInv(t)'
  BY <1>0, QuietPending DEF BoundInv, PushInv
<1>5. W' = W /\ content' = content /\ pushed' = pushed /\ design' = design
  BY <1>0 DEF Quiet
<1>6. ASSUME NEW s \in Threads, s # t
      PROVE  HopsInv(s)' /\ CopyInv(s)' /\ PushInv(s)' /\ ScanInv(s)' /\ desc'[s] = desc[s]
  <2>1. /\ pc'[s] = pc[s] /\ op'[s] = op[s] /\ tw'[s] = tw[s] /\ idx'[s] = idx[s]
        /\ hops'[s] = hops[s] /\ random'[s] = random[s] /\ desc'[s] = desc[s]
    BY <1>0, <1>6 DEF Others
  <2>2. HopsInv(s) /\ CopyInv(s) /\ PushInv(s) /\ ScanInv(s) /\ idx[s] \in Subs
    BY <1>0, BoundFacts DEF BoundInv
  <2>3. HopsInv(s)' /\ CopyInv(s)'
    BY <1>5, <2>1, <2>2 DEF HopsInv, CopyInv, Old
  <2>4. PushInv(s)'
    BY <1>5, <2>1, <2>2 DEF PushInv, Pending, Old, Alive, Suffix
  <2>5. ScanInv(s)'
    <3>1. \A q : Behind(s, q)' = Behind(s, q)
      BY <2>1 DEF Behind
    <3>2. Old(s)' = Old(s)
      BY <1>5, <2>1 DEF Old
    <3> QED BY <1>2, <1>5, <2>1, <2>2, <3>1, <3>2 DEF ScanInv
  <2> QED BY <2>1, <2>3, <2>4, <2>5
<1>7. NoneNewer(desc[t])'
  <2>1. desc'[t] \in {desc[t], content[idx[t]], << >>}
    BY ZenonT(60), <1>0 DEF QuietStep, CoupledTypes, Enter, ReadWindow, ReadVersion, ReadDesc, Sync, Valid,
           HopOn, RoundEnds, MayShift, push, pop, PopEmpty, Leave, Set, searchVars
  <2>2. NoneNewer(desc[t]) /\ NoneNewer(content[idx[t]])
    BY <1>0, BoundFacts DEF BoundInv
  <2> QED BY <1>5, <2>1, <2>2 DEF NoneNewer
<1>8. \A s \in Threads : NoneNewer(desc[s])'
  BY <1>5, <1>6, <1>7 DEF BoundInv, NoneNewer
<1>9. \A q \in Subs : (Len(content[q]) <= W.max + design.shift)' /\ NoneNewer(content[q])'
  BY <1>5 DEF BoundInv, NoneNewer
<1> QED BY <1>1, <1>3, <1>4, <1>6, <1>8, <1>9 DEF BoundInv

\* The shift: pushes that are pending stay within one shift of the new window.
LEMMA ShiftBound ==
  ASSUME CoupledConstants, AssertInv, BoundInv, ~ design.window.split, NEW t \in Threads,
         Shift(t), idleShifts' \in Moves
  PROVE  BoundInv'
<1>0. /\ CoupledTypes /\ CoupledTypes' /\ Others(t)
      /\ UNCHANGED <<design, content, pushed>>
  BY ShiftKeepsAssert DEF AssertInv
<1>1. /\ pc[t] = "cae" /\ pc'[t] = (IF W = tw[t] THEN "desc" ELSE "read")
      /\ tw'[t] = W' /\ hops'[t] = 0 /\ UNCHANGED <<op, idx, desc>>
  BY <1>0 DEF Shift, Goto, Set, Restart, CoupledTypes
<1>2. W' = IF W = tw[t] THEN [max |-> NewMax(t), version |-> tw[t].version + 1] ELSE W
  BY DEF Shift
<1>3. /\ Depth \in Nat \ {0} /\ Width \in Nat \ {0} /\ design.shift \in Nat \ {0}
      /\ design.shift <= Depth /\ W.max \in Nat /\ W.version \in Nat
      /\ W'.max \in Nat /\ W'.version \in Nat
      /\ \A q \in Subs : Len(content[q]) \in Nat
      /\ \A s \in Threads : Len(desc[s]) \in Nat /\ tw[s].version \in Nat /\ idx[s] \in Subs
  BY <1>0, BoundFacts DEF CoupledTypes
<1>4. HopsInv(t)' /\ CopyInv(t)' /\ PushInv(t)' /\ ScanInv(t)'
  <2>1. \A q : ~ Behind(t, q)'
    BY <1>1 DEF Behind
  <2> QED BY <1>1, <1>3, <2>1 DEF HopsInv, CopyInv, Old, PushInv, Pending, ScanInv
<1>5. /\ \A q \in Subs : Len(content[q]) <= W'.max + design.shift
      /\ \A s \in Threads : Pending(s) /\ Alive(s) => Len(desc[s]) < W'.max + design.shift
  <2>1. CASE W # tw[t]
    BY <1>2, <1>3, <2>1 DEF BoundInv, PushInv
  <2>2. CASE W = tw[t] /\ op[t] = "p"
    <3>1. W'.max = W.max + design.shift
      BY <1>2, <2>2 DEF NewMax
    <3>2. ASSUME NEW q \in Subs PROVE Len(content[q]) <= W'.max + design.shift
      <4>1. Len(content[q]) <= W.max + design.shift /\ Len(content[q]) \in Nat
        BY <1>3 DEF BoundInv
      <4> QED BY <1>3, <3>1, <4>1
    <3>3. ASSUME NEW s \in Threads, Pending(s), Alive(s)
          PROVE  Len(desc[s]) < W'.max + design.shift
      <4>1. PushInv(s) /\ Len(desc[s]) \in Nat
        BY <1>3 DEF BoundInv
      <4>2. Len(desc[s]) < W.max + design.shift
        BY <1>3, <3>3, <4>1 DEF PushInv
      <4> QED BY <1>3, <3>1, <4>1, <4>2
    <3> QED BY <3>2, <3>3
  <2>3. CASE W = tw[t] /\ op[t] = "g"
    <3>1. W'.max = W.max - design.shift
      BY <1>2, <2>3 DEF NewMax
    <3>2. ASSUME NEW q \in Subs PROVE Visited(q)
      <4>1. hops[t] = Width /\ ScanInv(t)
        BY <1>1 DEF BoundInv, HopsInv
      <4>2. Behind(t, q)
        BY <1>0, <4>1, RoundBehind
      <4> QED BY <1>1, <2>3, <4>1, <4>2 DEF ScanInv, Old
    <3>3. \A q \in Subs : Len(content[q]) <= W'.max + design.shift
      BY <1>3, <3>1, <3>2 DEF Visited
    <3>4. ASSUME NEW s \in Threads, Pending(s), Alive(s)
          PROVE  Len(desc[s]) < W'.max + design.shift
      <4>1. CASE Old(s)
        <5>1. Len(desc[s]) + Depth <= W.max /\ Len(desc[s]) \in Nat
          BY <1>3, <3>2, <3>4, <4>1 DEF Visited
        <5> QED BY SMTT(30), <1>3, <3>1, <5>1
      <4>2. CASE ~ Old(s)
        <5>1. Len(desc[s]) < W.max /\ Len(desc[s]) \in Nat
          BY <1>3, <3>4, <4>2 DEF BoundInv, PushInv
        <5> QED BY <1>3, <3>1, <5>1
      <4> QED BY <4>1, <4>2
    <3> QED BY <3>3, <3>4
  <2>4. op[t] \in {"p", "g"}
    BY <1>1 DEF AssertInv, AskInv
  <2> QED BY <2>1, <2>2, <2>3, <2>4
<1>6. ASSUME NEW s \in Threads, s # t
      PROVE  HopsInv(s)' /\ CopyInv(s)' /\ PushInv(s)' /\ ScanInv(s)'
  <2>1. /\ pc'[s] = pc[s] /\ op'[s] = op[s] /\ tw'[s] = tw[s] /\ idx'[s] = idx[s]
        /\ hops'[s] = hops[s] /\ random'[s] = random[s] /\ desc'[s] = desc[s]
    BY <1>0, <1>6 DEF Others
  <2>2. HopsInv(s) /\ CopyInv(s) /\ PushInv(s) /\ ScanInv(s) /\ idx[s] \in Subs
    BY <1>3 DEF BoundInv
  <2>3. HopsInv(s)'
    BY <2>1, <2>2 DEF HopsInv
  <2>4. Alive(s)' = Alive(s) /\ Pending(s)' = Pending(s)
    BY <1>0, <2>1 DEF Alive, Suffix, Pending
  <2>5. CASE W = tw[t]
    <3>1. W'.version = W.version + 1
      BY <1>2, <2>5
    <3>2. Old(s)' /\ CopyInv(s)'
      BY <1>3, <2>1, <2>2, <3>1 DEF Old, CopyInv
    <3>3. PushInv(s)'
      BY <1>0, <1>5, <2>1, <2>4, <3>2 DEF PushInv
    <3> QED BY <2>3, <3>2, <3>3 DEF ScanInv
  <2>6. CASE W # tw[t]
    <3>1. W' = W
      BY <1>2, <2>6
    <3>2. Old(s)' = Old(s) /\ CopyInv(s)'
      BY <2>1, <2>2, <3>1 DEF Old, CopyInv
    <3>3. PushInv(s)'
      BY <1>0, <2>1, <2>2, <2>4, <3>1, <3>2 DEF PushInv
    <3>4. ASSUME NEW q \in Subs, Visited(q) PROVE Visited(q)'
      <4>1. ASSUME NEW r \in Threads, Pending(r)', Old(r)', idx'[r] = q, Alive(r)'
            PROVE  Len(desc'[r]) + Depth <= W'.max
        <5>1. r # t
          BY <1>1, <4>1 DEF Pending
        <5>2. Pending(r) /\ Old(r) /\ idx[r] = q /\ Alive(r) /\ desc'[r] = desc[r]
          BY <1>0, <3>1, <4>1, <5>1 DEF Others, Pending, Old, Alive, Suffix
        <5> QED BY <3>1, <3>4, <5>2 DEF Visited
      <4> QED BY <1>0, <3>1, <3>4, <4>1 DEF Visited
    <3>5. \A q : Behind(s, q)' = Behind(s, q)
      BY <2>1 DEF Behind
    <3>6. ScanInv(s)'
      BY <2>1, <2>2, <3>1, <3>2, <3>4, <3>5 DEF ScanInv
    <3> QED BY <2>3, <3>2, <3>3, <3>6
  <2> QED BY <2>5, <2>6
<1>7. \A s \in Threads : NoneNewer(desc[s])'
  BY <1>0, <1>1 DEF BoundInv, NoneNewer
<1>8. \A q \in Subs : (Len(content[q]) <= W.max + design.shift)' /\ NoneNewer(content[q])'
  BY <1>0, <1>5 DEF BoundInv, NoneNewer
<1> QED BY <1>4, <1>6, <1>7, <1>8 DEF BoundInv


\* What is left to show of a step of push or pop: no other push comes back to life,
\* and the sub-stack that changed stays in bounds.
LEMMA ItemKeepsBound ==
  ASSUME CoupledConstants, AssertInv, BoundInv, NEW t \in Threads, PushCAE(t) \/ PopCAE(t),
         idleShifts' \in Moves, pushed <= pushed',
         \A s \in Threads \ {t} : Alive(s)' => Alive(s),
         \A q \in Subs : Len(content'[q]) <= W.max + design.shift,
         \A q \in Subs : Visited(q) => Len(content'[q]) <= W.max,
         \A q \in Subs : NoneNewer(content[q])'
  PROVE  BoundInv'
<1>0. /\ CoupledTypes /\ CoupledTypes' /\ Others(t) /\ UNCHANGED <<design, W, tw>>
      /\ pc'[t] \in {"idle", "enter"}
  BY ItemTypes DEF AssertInv
<1>1. /\ hops'[t] \in {0, hops[t]}
      /\ hops'[t] # 0 => random'[t] = random[t]
      /\ desc'[t] \in {<< >>, desc[t]}
  BY ZenonT(60), <1>0 DEF PushCAE, PopCAE, Leave, Retry, Set, CoupledTypes
<1>2. /\ HopsInv(t) /\ CopyInv(t) /\ Width \in Nat \ {0} /\ pushed \in Nat /\ pushed' \in Nat
      /\ desc[t] \in Seq(Nat)
  BY <1>0, BoundFacts DEF BoundInv, CoupledTypes
<1>3. HopsInv(t)' /\ CopyInv(t)' /\ PushInv(t)' /\ ScanInv(t)'
  <2>1. HopsInv(t)'
    BY <1>0, <1>1, <1>2 DEF HopsInv
  <2>2. CopyInv(t)'
    BY <1>0, <1>2 DEF CopyInv, Old
  <2> QED BY <1>0, <2>1, <2>2 DEF PushInv, Pending, ScanInv
<1>4. ASSUME NEW q \in Subs, Visited(q) PROVE Visited(q)'
  <2>1. ASSUME NEW r \in Threads, Pending(r)', Old(r)', idx'[r] = q, Alive(r)'
        PROVE  Len(desc'[r]) + Depth <= W'.max
    <3>1. r # t
      BY <1>0, <2>1 DEF Pending
    <3>2. Pending(r) /\ Old(r) /\ idx[r] = q /\ Alive(r) /\ desc'[r] = desc[r]
      BY <1>0, <2>1, <3>1 DEF Others, Pending, Old
    <3> QED BY <1>0, <1>4, <3>2 DEF Visited
  <2> QED BY <1>0, <1>4, <2>1 DEF Visited
<1>5. ASSUME NEW s \in Threads, s # t
      PROVE  HopsInv(s)' /\ CopyInv(s)' /\ PushInv(s)' /\ ScanInv(s)'
  <2>1. /\ pc'[s] = pc[s] /\ op'[s] = op[s] /\ idx'[s] = idx[s]
        /\ hops'[s] = hops[s] /\ random'[s] = random[s] /\ desc'[s] = desc[s]
    BY <1>0, <1>5 DEF Others
  <2>2. HopsInv(s) /\ CopyInv(s) /\ PushInv(s) /\ ScanInv(s) /\ idx[s] \in Subs
    BY <1>0, BoundFacts DEF BoundInv
  <2>3. HopsInv(s)' /\ CopyInv(s)' /\ Old(s)' = Old(s)
    BY <1>0, <2>1, <2>2 DEF HopsInv, CopyInv, Old
  <2>4. PushInv(s)'
    BY <1>0, <1>5, <2>1, <2>2, <2>3 DEF PushInv, Pending
  <2>5. \A q : Behind(s, q)' = Behind(s, q)
    BY <2>1 DEF Behind
  <2>6. ScanInv(s)'
    BY <1>0, <1>4, <2>1, <2>2, <2>3, <2>5 DEF ScanInv
  <2> QED BY <2>3, <2>4, <2>6
<1>6. \A s \in Threads : NoneNewer(desc[s])'
  <2>1. ASSUME NEW s \in Threads PROVE NoneNewer(desc[s])'
    <3>1. /\ desc'[s] \in {<< >>, desc[s]} /\ desc[s] \in Seq(Nat)
          /\ \A i \in 1..Len(desc[s]) : desc[s][i] <= pushed /\ desc[s][i] \in Nat
      <4>1. desc'[s] \in {<< >>, desc[s]}
        BY <1>0, <1>1 DEF Others
      <4>2. desc[s] \in Seq(Nat)
        BY <1>0, BoundFacts
      <4>3. NoneNewer(desc[s])
        BY DEF BoundInv
      <4> QED BY <4>1, <4>2, <4>3 DEF NoneNewer
    <3>2. CASE desc'[s] = << >>
      BY <3>2 DEF NoneNewer
    <3>3. CASE desc'[s] = desc[s]
      BY <1>2, <3>1, <3>3 DEF NoneNewer
    <3> QED BY <3>1, <3>2, <3>3
  <2> QED BY <2>1
<1> QED BY <1>0, <1>3, <1>5, <1>6 DEF BoundInv

LEMMA PushBound ==
  ASSUME CoupledConstants, AssertInv, BoundInv, ~ design.window.split, NEW t \in Threads,
         PushCAE(t), idleShifts' \in Moves
  PROVE  BoundInv'
<1> DEFINE k == idx[t]
           x == pushed + 1
           c == content[k]
<1>0. CoupledTypes /\ Others(t)
  BY ItemTypes DEF AssertInv
<1>1. /\ design.shift \in Nat \ {0} /\ Depth \in Nat \ {0} /\ W.max \in Nat /\ pushed \in Nat
      /\ k \in Subs /\ c \in Seq(Nat) /\ Len(c) \in Nat /\ Pending(t) /\ desc[t] \in Seq(Nat)
      /\ content \in [Subs -> Seq(Nat)]
  BY <1>0, BoundFacts DEF PushCAE, Pending, CoupledTypes
<1>2. CASE c # desc[t]
  <2>1. content' = content /\ pushed' = pushed
    BY <1>2 DEF PushCAE
  <2>2. \A s \in Threads \ {t} : Alive(s)' => Alive(s)
    BY <1>0, <2>1 DEF Others, Alive, Suffix
  <2>3. \A q \in Subs : NoneNewer(content[q])'
    BY <2>1 DEF BoundInv, NoneNewer
  <2>4. pushed <= pushed'
    BY <1>1, <2>1
  <2>5. \A q \in Subs : Visited(q) => Len(content'[q]) <= W.max
    BY <2>1 DEF Visited
  <2>6. \A q \in Subs : Len(content'[q]) <= W.max + design.shift
    BY <2>1 DEF BoundInv
  <2> QED BY <2>2, <2>3, <2>4, <2>5, <2>6, ItemKeepsBound
<1>3. CASE c = desc[t]
  <2>0. design.counts = FALSE
    BY <1>0, AtomicDesign DEF CoupledTypes
  <2>1. content' = [content EXCEPT ![k] = <<x>> \o c] /\ pushed' = x
    BY <1>3, <2>0 DEF PushCAE
  <2> DEFINE e == <<x>> \o c
  <2>2. /\ e \in Seq(Nat) /\ Len(e) = Len(c) + 1 /\ e[1] = x
        /\ \A i \in 1..Len(c) : e[i + 1] = c[i]
    BY SMTT(30), <1>1
  <2>3. content'[k] = e /\ \A q \in Subs \ {k} : content'[q] = content[q]
    BY <1>1, <2>1
  <2>4. ASSUME NEW s \in Threads \ {t}, Alive(s)' PROVE Alive(s)
    <3>1. idx'[s] = idx[s] /\ desc'[s] = desc[s] /\ idx[s] \in Subs /\ desc[s] \in Seq(Nat)
      BY <1>0, BoundFacts DEF Others
    <3>2. CASE idx[s] = k
      <4>1. Suffix(desc[s], e)
        BY ZenonT(60), <2>3, <2>4, <3>1, <3>2 DEF Alive, Suffix
      <4>2. \A i \in 1..Len(desc[s]) : desc[s][i] # x
        <5>1. \A i \in 1..Len(desc[s]) : desc[s][i] <= pushed /\ desc[s][i] \in Nat
          BY <3>1 DEF BoundInv, NoneNewer
        <5> QED BY <1>1, <5>1
      <4>3. x \in Nat
        BY <1>1
      <4>4. Suffix(desc[s], c)
        BY <1>1, <3>1, <4>1, <4>2, <4>3, PushSuffix
      <4> QED BY <3>2, <4>4 DEF Alive
    <3>3. CASE idx[s] # k
      BY ZenonT(60), <2>3, <2>4, <3>1, <3>3 DEF Alive, Suffix
    <3> QED BY <3>2, <3>3
  <2>5. Alive(t)
    BY <1>1, <1>3, SuffixRefl DEF Alive
  <2> HIDE DEF e
  <2>6. ASSUME NEW q \in Subs PROVE Len(content'[q]) <= W.max + design.shift
    <3>1. CASE q = k
      <4>1. Len(c) < W.max + design.shift
        BY <1>1, <1>3, <2>5 DEF BoundInv, PushInv
      <4>2. Len(content'[q]) = Len(c) + 1
        BY <2>2, <2>3, <3>1
      <4> QED BY <1>1, <4>1, <4>2
    <3>2. CASE q # k
      BY <2>3, <3>2 DEF BoundInv
    <3> QED BY <3>1, <3>2
  <2>7. ASSUME NEW q \in Subs, Visited(q) PROVE Len(content'[q]) <= W.max
    <3>1. CASE q = k
      <4>1. Len(c) < W.max
        <5>1. CASE Old(t)
          <6>1. Len(desc[t]) + Depth <= W.max
            BY <1>1, <2>5, <2>7, <3>1, <5>1 DEF Visited
          <6> QED BY <1>1, <1>3, <6>1
        <5>2. CASE ~ Old(t)
          BY <1>1, <1>3, <5>2 DEF BoundInv, PushInv
        <5> QED BY <5>1, <5>2
      <4> QED BY SMTT(30), <1>1, <2>2, <2>3, <3>1, <4>1
    <3>2. CASE q # k
      BY <2>3, <2>7, <3>2 DEF Visited
    <3> QED BY <3>1, <3>2
  <2>8. ASSUME NEW q \in Subs PROVE NoneNewer(content[q])'
    <3>1. /\ content[q] \in Seq(Nat)
          /\ \A i \in 1..Len(content[q]) : content[q][i] <= pushed /\ content[q][i] \in Nat
      BY SMTT(30), <1>1 DEF BoundInv, NoneNewer
    <3>2. CASE q # k
      <4>1. content'[q] = content[q] /\ pushed' = pushed + 1
        BY <2>1, <2>3, <3>2
      <4>2. \A i \in 1..Len(content[q]) : content[q][i] <= pushed + 1
        BY SMTT(30), <1>1, <3>1
      <4> QED BY <4>1, <4>2 DEF NoneNewer
    <3>3. CASE q = k
      <4>1. ASSUME NEW i \in 1..(Len(c) + 1) PROVE e[i] <= x
        <5>1. CASE i = 1
          BY <1>1, <2>2, <5>1
        <5>2. CASE i # 1
          <6>1. i - 1 \in 1..Len(c) /\ (i - 1) + 1 = i
            BY <1>1, <5>2
          <6>2. e[i] = c[i - 1] /\ c[i - 1] <= pushed /\ c[i - 1] \in Nat
            BY <2>2, <3>1, <3>3, <6>1
          <6> QED BY <1>1, <6>2
        <5> QED BY <5>1, <5>2
      <4> QED BY <2>1, <2>2, <2>3, <3>3, <4>1 DEF NoneNewer
    <3> QED BY <3>2, <3>3
  <2>9. pushed <= pushed'
    BY <1>1, <2>1
  <2> QED BY <2>4, <2>6, <2>7, <2>8, <2>9, ItemKeepsBound
<1> QED BY <1>2, <1>3

LEMMA PopBound ==
  ASSUME CoupledConstants, AssertInv, BoundInv, NEW t \in Threads, PopCAE(t),
         idleShifts' \in Moves
  PROVE  BoundInv'
<1> DEFINE k == idx[t]
           c == content[k]
           e == Tail(c)
<1>0. CoupledTypes /\ Others(t)
  BY ItemTypes DEF AssertInv
<1>1. /\ design.shift \in Nat \ {0} /\ W.max \in Nat /\ pushed \in Nat /\ pushed' = pushed
      /\ k \in Subs /\ c \in Seq(Nat) /\ Len(c) \in Nat /\ content \in [Subs -> Seq(Nat)]
  BY <1>0, BoundFacts DEF PopCAE, CoupledTypes
<1>2. \/ content' = content
      \/ c # << >> /\ content' = [content EXCEPT ![k] = e]
  BY DEF PopCAE
<1>3. c # << >> => /\ e \in Seq(Nat) /\ Len(c) = Len(e) + 1 /\ Len(e) \in Nat
                   /\ \A i \in 1..Len(e) : i + 1 \in 1..Len(c) /\ e[i] = c[i + 1]
  BY <1>1
<1>4. ASSUME NEW s \in Threads \ {t}, Alive(s)' PROVE Alive(s)
  <2>1. idx'[s] = idx[s] /\ desc'[s] = desc[s] /\ idx[s] \in Subs /\ desc[s] \in Seq(Nat)
    BY <1>0, BoundFacts DEF Others
  <2>2. Suffix(desc[s], content'[idx[s]])
    BY <1>4, <2>1 DEF Alive, Suffix
  <2>3. CASE content'[idx[s]] = content[idx[s]]
    BY <2>2, <2>3 DEF Alive
  <2>4. CASE content'[idx[s]] # content[idx[s]]
    <3>1. idx[s] = k /\ c # << >> /\ content'[idx[s]] = e
      BY <1>1, <1>2, <2>1, <2>4
    <3>2. Suffix(desc[s], Tail(c))
      BY <2>2, <3>1
    <3>3. Suffix(desc[s], c)
      BY <1>1, <2>1, <3>1, <3>2, PopSuffix
    <3> QED BY <3>1, <3>3 DEF Alive
  <2> QED BY <2>3, <2>4
<1> HIDE DEF e
<1>5. ASSUME NEW q \in Subs
      PROVE  /\ content'[q] = content[q] \/ (q = k /\ c # << >> /\ content'[q] = e)
             /\ Len(content'[q]) <= Len(content[q]) /\ Len(content'[q]) \in Nat
             /\ Len(content[q]) \in Nat
  <2>1. content'[q] = content[q] \/ (q = k /\ c # << >> /\ content'[q] = e)
    BY <1>1, <1>2
  <2>2. Len(content[q]) \in Nat
    BY <1>0, BoundFacts
  <2> QED BY <1>3, <2>1, <2>2
<1>6. ASSUME NEW q \in Subs PROVE Len(content'[q]) <= W.max + design.shift
  <2>1. Len(content[q]) <= W.max + design.shift
    BY DEF BoundInv
  <2> QED BY <1>1, <1>5, <2>1
<1>7. ASSUME NEW q \in Subs, Visited(q) PROVE Len(content'[q]) <= W.max
  <2>1. Len(content[q]) <= W.max
    BY <1>7 DEF Visited
  <2> QED BY <1>1, <1>5, <2>1
<1>8. ASSUME NEW q \in Subs PROVE NoneNewer(content[q])'
  <2>1. \A i \in 1..Len(content[q]) : content[q][i] <= pushed
    BY DEF BoundInv, NoneNewer
  <2>2. CASE content'[q] = content[q]
    BY <1>1, <2>1, <2>2 DEF NoneNewer
  <2>3. CASE q = k /\ c # << >> /\ content'[q] = e
    <3>1. \A i \in 1..Len(e) : e[i] <= pushed
      BY <1>3, <2>1, <2>3
    <3> QED BY <1>1, <2>3, <3>1 DEF NoneNewer
  <2> QED BY <1>5, <2>2, <2>3
<1>9. pushed <= pushed'
  BY <1>1
<1> QED BY <1>4, <1>6, <1>7, <1>8, <1>9, ItemKeepsBound

LEMMA BoundInit ==
  ASSUME CoupledConstants, Init, ~ design.window.split
  PROVE  BoundInv
<1>0. CoupledTypes /\ Depth \in Nat \ {0} /\ design.shift \in Nat \ {0} /\ Width \in Nat \ {0}
  BY AssertInit, BoundFacts DEF AssertInv
<1>1. design.version = 1
  BY AtomicDesign DEF Init
<1>2. /\ W.max = Depth /\ W.version = 1 /\ \A q \in Subs : content[q] = << >>
      /\ \A t \in Threads : /\ desc[t] = << >> /\ tw[t].version = 0 /\ pc[t] = "idle"
                             /\ hops[t] = 0
  BY <1>1 DEF Init
<1> QED BY <1>0, <1>2 DEF BoundInv, NoneNewer, HopsInv, CopyInv, Old, PushInv, Pending, ScanInv

LEMMA BoundStep ==
  ASSUME CoupledConstants, AssertInv, BoundInv, ~ design.window.split, [Next]_vars
  PROVE  BoundInv' /\ design' = design
<1>1. CASE UNCHANGED vars
  <2>1. UNCHANGED <<design, W, tw, pc, op, idx, hops, random, desc, content, pushed>>
    BY <1>1 DEF vars, searchVars, itemVars
  <2>2. \A t : Pending(t)' = Pending(t) /\ Old(t)' = Old(t) /\ Alive(t)' = Alive(t)
    BY <2>1 DEF Pending, Old, Alive, Suffix
  <2>3. \A q : Visited(q)' = Visited(q) /\ \A t : Behind(t, q)' = Behind(t, q)
    BY <2>1, <2>2 DEF Visited, Behind
  <2>4. \A t : HopsInv(t)' = HopsInv(t) /\ CopyInv(t)' = CopyInv(t)
    BY <2>1, <2>2 DEF HopsInv, CopyInv
  <2>5. \A t : PushInv(t)' = PushInv(t) /\ ScanInv(t)' = ScanInv(t)
    BY <2>1, <2>2, <2>3 DEF PushInv, ScanInv
  <2> QED BY <2>1, <2>4, <2>5 DEF BoundInv, NoneNewer
<1>2. CASE Next
  <2>0. idleShifts' \in Moves
    BY <1>2, ObserveTypes DEF Next, AssertInv, CoupledTypes
  <2>1. PICK t \in Threads : QuietStep(t) \/ Shift(t) \/ PushCAE(t) \/ PopCAE(t)
    BY <1>2, StepCases
  <2> QED BY <1>2, <2>0, <2>1, QuietBound, ShiftBound, PushBound, PopBound, StepKeepsDesign
<1> QED BY <1>1, <1>2

\* The pushes of the optimized stack keep to the window: whatever shifts come between
\* put_window and the compare-and-exchange, no sub-stack is more than one shift above
\* the window.
THEOREM PushesKeepToWindow ==
  ASSUME CoupledConstants
  PROVE  Spec => []WindowBounds
<1> DEFINE Inv == AssertInv /\ (~ design.window.split => BoundInv)
<1>1. Init => Inv
  BY AssertInit, BoundInit
<1>2. Inv /\ [Next]_vars => Inv'
  <2>1. [Next]_vars => design' = design
    BY StepKeepsDesign DEF vars
  <2> QED BY <2>1, AssertStep, BoundStep
<1>3. Inv => WindowBounds
  BY DEF BoundInv, WindowBounds, count
<1> HIDE DEF Inv
<1> QED BY <1>1, <1>2, <1>3, PTL DEF Spec
-----------------------------------------------------------------------------
(***************************************************************************)
(* Why shifts are not undone.  A shift gives the window a new version and  *)
(* sends every search back to the start of its round, so a round that ends *)
(* in a second shift without a success saw the sub-structures as they are  *)
(* now.  All were above the window that moves up, or below the one that    *)
(* moves down, and one shift in between is less than the depth.            *)
(***************************************************************************)

\* Sub-structure q has nothing for the operation of t in the window.
Out(t, q) == IF op[t] = "p" THEN Len(content[q]) >= W.max
                           ELSE Len(content[q]) + Depth <= W.max

\* What a search under the current window has seen, once the window has moved since
\* the last success.
RoundInv(t) ==
  idleShifts # "none" /\ tw[t] = W /\ pc[t] \in {"desc", "check", "shift", "cae"} =>
    /\ \A q \in Subs : Behind(t, q) => Out(t, q)
    /\ pc[t] = "check" => desc[t] = content[idx[t]]

\* Where the last shift has left the sub-structures.
MoveInv ==
  Depth > 1 =>
    /\ idleShifts = "up" => \A q \in Subs : Len(content[q]) + design.shift >= W.max
    /\ idleShifts = "down" => \A q \in Subs : Len(content[q]) + Depth <= W.max + design.shift
    /\ idleShifts # "undone"

WorkInv == /\ MoveInv
           /\ \A t \in Threads : HopsInv(t) /\ RoundInv(t) /\ tw[t].version <= W.version

LEMMA ShiftBelowDepth ==
  ASSUME CoupledConstants, design \in Designs, Depth > 1
  PROVE  design.shift < Depth
<1>1. Depth \in Nat /\ Depth > 1
  BY DEF CoupledConstants
<1> DEFINE half == IF Depth \div 2 > 1 THEN Depth \div 2 ELSE 1
<1>2. half < Depth /\ (Depth + 1) \div 2 < Depth
  BY <1>1
<1>3. design.shift = half \/ design.shift = (Depth + 1) \div 2
  BY DEF Designs, stack_2Dc, counter_2Dc, stack_optimized
<1> QED BY <1>2, <1>3

LEMMA QuietRound ==
  ASSUME CoupledConstants, CoupledTypes, NEW t \in Threads, QuietStep(t), Quiet,
         idleShifts' = idleShifts, HopsInv(t), RoundInv(t), HopsInv(t)'
  PROVE  RoundInv(t)'
<1>0. content' = content /\ W' = W
  BY DEF Quiet
<1>1. /\ Depth \in Nat \ {0} /\ W.max \in Nat /\ idx[t] \in Subs /\ hops[t] \in Nat
      /\ pc \in [Threads -> CoupledPCs] /\ hops \in [Threads -> Nat]
      /\ desc \in [Threads -> Seq(Nat)] /\ op[t] \in {"none", "p", "g"}
  BY BoundFacts DEF CoupledTypes
<1>2. ASSUME hops'[t] = 0, pc'[t] # "check" PROVE RoundInv(t)'
  BY <1>2 DEF RoundInv, Behind
<1>3. CASE Enter(t)
  <2>1. hops'[t] = 0 /\ pc'[t] # "check"
    BY <1>1, <1>3 DEF Enter, Goto, Set
  <2> QED BY <1>2, <2>1
<1>4. CASE ReadWindow(t) \/ ReadVersion(t)
  <2>1. hops'[t] = 0 /\ pc'[t] # "check"
    BY <1>1, <1>4 DEF ReadWindow, ReadVersion, Goto, HopsInv, searchVars
  <2> QED BY <1>2, <2>1
<1>5. CASE ReadDesc(t)
  <2>1. /\ pc[t] = "desc" /\ pc'[t] = "check" /\ desc'[t] = content[idx[t]]
        /\ UNCHANGED <<op, idx, hops, tw>>
    BY <1>1, <1>5 DEF ReadDesc, Goto, Set
  <2>2. \A q : Behind(t, q)' = Behind(t, q) /\ Out(t, q)' = Out(t, q)
    BY <1>0, <2>1 DEF Behind, Out
  <2> QED BY <1>0, <2>1, <2>2 DEF RoundInv
<1>6. CASE HopOn(t)
  <2>1. /\ pc[t] = "check" /\ pc'[t] = "desc" /\ UNCHANGED <<op, tw>> /\ Hop(t)
        /\ ~ InWindow(t) /\ hops[t] # Width
    BY <1>1, <1>6 DEF HopOn, Goto
  <2> SUFFICES ASSUME idleShifts # "none", tw[t] = W, NEW q \in Subs, Behind(t, q)'
               PROVE  Out(t, q)'
    BY <1>0, <2>1 DEF RoundInv
  <2>2. Behind(t, q) \/ q = idx[t]
    BY <2>1, HopBehind
  <2>3. Out(t, q)' = Out(t, q)
    BY <1>0, <2>1 DEF Out
  <2>4. CASE Behind(t, q)
    BY <2>1, <2>3, <2>4 DEF RoundInv
  <2>5. CASE q = idx[t]
    <3>1. desc[t] = content[q] /\ tw[t].max = W.max
      BY <2>1, <2>5 DEF RoundInv
    <3>2. Len(content[q]) \in Nat
      BY BoundFacts
    <3>3. Out(t, q)
      BY <1>1, <2>1, <3>1, <3>2 DEF InWindow, count, Out
    <3> QED BY <2>3, <3>3
  <2> QED BY <2>2, <2>4, <2>5
<1>7. CASE RoundEnds(t)
  <2>1. /\ pc[t] = "check" /\ pc'[t] \in {"done", "shift"} /\ UNCHANGED <<op, idx, hops, tw>>
    BY <1>1, <1>7 DEF RoundEnds, Goto, searchVars
  <2>2. \A q : Behind(t, q)' = Behind(t, q) /\ Out(t, q)' = Out(t, q)
    BY <1>0, <2>1 DEF Behind, Out
  <2> QED BY <1>0, <2>1, <2>2 DEF RoundInv
<1>8. CASE MayShift(t)
  <2>1. /\ pc[t] = "shift" /\ UNCHANGED <<op, idx, tw>>
        /\ \/ pc'[t] = "cae" /\ UNCHANGED hops
           \/ pc'[t] = "desc" /\ hops'[t] = 0
    BY <1>1, <1>8 DEF MayShift, Restart, Goto, Set
  <2>2. CASE pc'[t] = "cae" /\ UNCHANGED hops
    <3>1. \A q : Behind(t, q)' = Behind(t, q) /\ Out(t, q)' = Out(t, q)
      BY <1>0, <2>1, <2>2 DEF Behind, Out
    <3> QED BY <1>0, <2>1, <2>2, <3>1 DEF RoundInv
  <2>3. CASE pc'[t] = "desc" /\ hops'[t] = 0
    BY <1>2, <2>3
  <2> QED BY <2>1, <2>2, <2>3
<1>9. CASE Sync(t) \/ Valid(t) \/ push(t) \/ pop(t) \/ PopEmpty(t)
  <2>1. pc'[t] \in {"read", "done", "enter", "idle"}
    BY <1>1, <1>9 DEF Sync, Valid, push, pop, PopEmpty, Leave, Goto, Set
  <2> QED BY <2>1 DEF RoundInv
<1> QED BY <1>3, <1>4, <1>5, <1>6, <1>7, <1>8, <1>9 DEF QuietStep

\* A step that does not move the window: the other searches are as they were, unless
\* an operation succeeds and starts the history anew.
LEMMA OtherRounds ==
  ASSUME WorkInv, NEW t \in Threads, Others(t), W' = W,
         \/ idleShifts' = "none"
         \/ idleShifts' = idleShifts /\ content' = content,
         NEW s \in Threads, s # t
  PROVE  HopsInv(s)' /\ RoundInv(s)' /\ tw'[s].version <= W'.version
<1>1. /\ pc'[s] = pc[s] /\ op'[s] = op[s] /\ tw'[s] = tw[s] /\ idx'[s] = idx[s]
      /\ hops'[s] = hops[s] /\ random'[s] = random[s] /\ desc'[s] = desc[s]
  BY DEF Others
<1>2. HopsInv(s) /\ RoundInv(s) /\ tw[s].version <= W.version
  BY DEF WorkInv
<1>3. HopsInv(s)' /\ tw'[s].version <= W'.version
  BY <1>1, <1>2 DEF HopsInv
<1>4. CASE idleShifts' = "none"
  BY <1>3, <1>4 DEF RoundInv
<1>5. CASE idleShifts' = idleShifts /\ content' = content
  <2>1. \A q : Behind(s, q)' = Behind(s, q) /\ Out(s, q)' = Out(s, q)
    BY <1>1, <1>5 DEF Behind, Out
  <2>2. RoundInv(s)'
    BY <1>1, <1>2, <1>5, <2>1 DEF RoundInv
  <2> QED BY <1>3, <2>2
<1> QED BY <1>4, <1>5

LEMMA QuietWork ==
  ASSUME CoupledConstants, CoupledTypes, WorkInv, NEW t \in Threads, QuietStep(t), Observe,
         idleShifts' \in Moves
  PROVE  WorkInv'
<1>1. CoupledTypes' /\ Others(t) /\ Quiet
  BY QuietTypes
<1>2. W' = W /\ content' = content /\ design' = design /\ idleShifts' = idleShifts
  BY <1>1 DEF Quiet, Observe
<1>3. HopsInv(t)'
  BY QuietHops DEF WorkInv
<1>4. RoundInv(t)'
  BY <1>1, <1>2, <1>3, QuietRound DEF WorkInv
<1>5. tw'[t].version <= W'.version
  <2>1. /\ W.version \in Nat /\ tw[t].version <= W.version
        /\ tw \in [Threads -> [max : Nat, version : Nat]]
    BY DEF CoupledTypes, WorkInv
  <2>2. tw'[t].version \in {tw[t].version, W.version}
    <3>1. CASE ReadWindow(t)
      BY <2>1, <3>1 DEF ReadWindow, Set
    <3>2. CASE ReadVersion(t)
      BY <2>1, <3>2 DEF ReadVersion
    <3>3. CASE ~ ReadWindow(t) /\ ~ ReadVersion(t)
      <4>1. tw' = tw
        BY <3>3 DEF QuietStep, Enter, ReadDesc, Sync, Valid, HopOn, RoundEnds, MayShift, push,
                    pop, PopEmpty
      <4> QED BY <4>1
    <3> QED BY <3>1, <3>2, <3>3
  <2> QED BY <1>2, <2>1, <2>2
<1>6. MoveInv'
  BY <1>2 DEF WorkInv, MoveInv
<1>7. \A s \in Threads : HopsInv(s)' /\ RoundInv(s)' /\ tw'[s].version <= W'.version
  BY <1>1, <1>2, <1>3, <1>4, <1>5, OtherRounds
<1> QED BY <1>6, <1>7 DEF WorkInv

LEMMA ItemWork ==
  ASSUME CoupledConstants, CoupledTypes, WorkInv, NEW t \in Threads, PushCAE(t) \/ PopCAE(t),
         Observe, idleShifts' \in Moves
  PROVE  WorkInv'
<1>1. CoupledTypes' /\ Others(t) /\ UNCHANGED <<design, W, tw>> /\ pc'[t] \in {"idle", "enter"}
  BY ItemTypes
<1>2. \/ idleShifts' = "none"
      \/ idleShifts' = idleShifts /\ content' = content
  BY <1>1 DEF Observe
<1>3. HopsInv(t)'
  <2>1. /\ hops'[t] \in {0, hops[t]}
        /\ hops'[t] # 0 => random'[t] = random[t]
    BY DEF PushCAE, PopCAE, Leave, Retry, Set, CoupledTypes
  <2>2. HopsInv(t) /\ Width \in Nat
    BY BoundFacts DEF WorkInv
  <2> QED BY <1>1, <2>1, <2>2 DEF HopsInv
<1>4. RoundInv(t)'
  BY <1>1 DEF RoundInv
<1>5. MoveInv'
  BY <1>1, <1>2 DEF WorkInv, MoveInv
<1>6. tw'[t].version <= W'.version
  BY <1>1 DEF WorkInv
<1>7. \A s \in Threads : HopsInv(s)' /\ RoundInv(s)' /\ tw'[s].version <= W'.version
  BY <1>1, <1>2, <1>3, <1>4, <1>6, OtherRounds
<1> QED BY <1>5, <1>7 DEF WorkInv

\* The shift of t, with what its round has seen.
LEMMA ShiftWork ==
  ASSUME CoupledConstants, AssertInv, WorkInv, NEW t \in Threads, Shift(t), Observe,
         idleShifts' \in Moves
  PROVE  WorkInv'
<1>0. CoupledTypes /\ Others(t) /\ UNCHANGED <<design, content, pushed>>
  BY ShiftKeepsAssert DEF AssertInv
<1>1. /\ pc[t] = "cae" /\ pc'[t] \in {"desc", "read"} /\ tw'[t] = W' /\ hops'[t] = 0
      /\ W' = IF W = tw[t] THEN [max |-> NewMax(t), version |-> tw[t].version + 1] ELSE W
  BY <1>0 DEF Shift, Goto, Set, Restart, CoupledTypes
<1>2. /\ W.max \in Nat /\ W.version \in Nat /\ design.shift \in Nat \ {0} /\ Depth \in Nat \ {0}
      /\ Width \in Nat \ {0} /\ tw[t].version \in Nat
      /\ \A q \in Subs : Len(content[q]) \in Nat
      /\ \A s \in Threads : tw[s].version \in Nat
  BY <1>0, BoundFacts DEF CoupledTypes
<1>3. HopsInv(t)' /\ RoundInv(t)' /\ tw'[t].version <= W'.version
  <2>1. HopsInv(t)'
    BY <1>1, <1>2 DEF HopsInv
  <2>2. RoundInv(t)'
    BY <1>1 DEF RoundInv, Behind
  <2>3. W'.version \in Nat
    BY <1>1, <1>2
  <2> QED BY <1>1, <2>1, <2>2, <2>3
<1>4. CASE W # tw[t]
  <2>1. W' = W /\ idleShifts' = idleShifts
    BY <1>0, <1>1, <1>4 DEF Observe
  <2>2. MoveInv'
    BY <1>0, <2>1 DEF WorkInv, MoveInv
  <2>3. \A s \in Threads : HopsInv(s)' /\ RoundInv(s)' /\ tw'[s].version <= W'.version
    BY <1>0, <1>3, <2>1, OtherRounds
  <2> QED BY <2>2, <2>3 DEF WorkInv
<1>5. CASE W = tw[t]
  <2>1. W'.max = NewMax(t) /\ W'.version = W.version + 1 /\ tw[t].max = W.max
    BY <1>1, <1>5
  <2>2. ASSUME NEW s \in Threads, s # t
        PROVE  HopsInv(s)' /\ RoundInv(s)' /\ tw'[s].version <= W'.version
    <3>1. /\ pc'[s] = pc[s] /\ tw'[s] = tw[s] /\ hops'[s] = hops[s] /\ random'[s] = random[s]
          /\ HopsInv(s) /\ tw[s].version <= W.version
      BY <1>0, <2>2 DEF Others, WorkInv
    <3>2. HopsInv(s)'
      BY <3>1 DEF HopsInv
    <3>3. tw'[s].version < W'.version
      BY <1>2, <2>1, <3>1
    <3>4. RoundInv(s)'
      <4>1. tw'[s].version \in Nat
        BY <1>2, <3>1
      <4>2. tw'[s] # W'
        BY <3>3, <4>1
      <4> QED BY <4>2 DEF RoundInv
    <3> QED BY <1>2, <2>1, <3>1, <3>2, <3>4
  <2>3. MoveInv'
    <3> SUFFICES ASSUME Depth > 1
                 PROVE  /\ idleShifts' = "up" => \A q \in Subs : Len(content[q]) + design.shift >= W'.max
                        /\ idleShifts' = "down" => \A q \in Subs : Len(content[q]) + Depth <= W'.max + design.shift
                        /\ idleShifts' # "undone"
      BY <1>0 DEF MoveInv
    <3>1. design.shift < Depth
      BY <1>0, ShiftBelowDepth DEF CoupledTypes
    <3>2. W' # W
      BY <1>2, <2>1
    <3>3. CASE idleShifts = "none"
      BY <1>0, <3>2, <3>3 DEF Observe
    <3>4. CASE idleShifts # "none"
      <4>1. \A q \in Subs : Out(t, q)
        <5>1. hops[t] = Width
          BY <1>1 DEF WorkInv, HopsInv
        <5>2. RoundInv(t)
          BY DEF WorkInv
        <5> QED BY <1>0, <1>1, <1>5, <3>4, <5>1, <5>2, RoundBehind DEF RoundInv
      <4>2. 0 \in Subs
        BY <1>2 DEF Subs
      <4>3. /\ idleShifts = "up" => \A q \in Subs : Len(content[q]) + design.shift >= W.max
            /\ idleShifts = "down" => \A q \in Subs : Len(content[q]) + Depth <= W.max + design.shift
            /\ idleShifts # "undone"
        BY DEF WorkInv, MoveInv
      <4>4. idleShifts' = IF idleShifts \in {"once", Direction} THEN Direction ELSE "undone"
        BY <1>0, <3>2, <3>4 DEF Observe
      <4>5. idleShifts \in {"once", "up", "down"}
        BY <1>0, <3>4, <4>3 DEF CoupledTypes, Moves
      <4>6. CASE op[t] = "p"
        <5>1. W'.max = W.max + design.shift /\ Direction = "up"
          BY <1>2, <2>1, <4>6 DEF NewMax, Direction
        <5>2. \A q \in Subs : Len(content[q]) >= W.max
          BY <4>1, <4>6 DEF Out
        <5>3. idleShifts # "down"
          BY <1>2, <3>1, <4>2, <4>3, <5>2
        <5>4. idleShifts' = "up"
          BY <4>4, <4>5, <5>1, <5>3
        <5> QED BY <1>2, <5>1, <5>2, <5>4
      <4>7. CASE op[t] # "p"
        <5>1. W'.max = W.max - design.shift /\ Direction = "down"
          BY <1>2, <2>1, <4>7 DEF NewMax, Direction
        <5>2. \A q \in Subs : Len(content[q]) + Depth <= W.max
          BY <4>1, <4>7 DEF Out
        <5>3. idleShifts # "up"
          BY <1>2, <3>1, <4>2, <4>3, <5>2
        <5>4. idleShifts' = "down"
          BY <4>4, <4>5, <5>1, <5>3
        <5> QED BY <1>2, <5>1, <5>2, <5>4
      <4> QED BY <4>6, <4>7
    <3> QED BY <3>3, <3>4
  <2> QED BY <1>3, <2>2, <2>3 DEF WorkInv
<1> QED BY <1>4, <1>5

LEMMA WorkInit ==
  ASSUME CoupledConstants, Init
  PROVE  WorkInv
<1>1. design.version \in Nat /\ Width \in Nat
  BY DesignFacts DEF Init, CoupledConstants
<1> QED BY <1>1 DEF Init, WorkInv, MoveInv, HopsInv, RoundInv

LEMMA WorkStep ==
  ASSUME CoupledConstants, AssertInv, WorkInv, [Next]_vars
  PROVE  WorkInv'
<1>1. CASE UNCHANGED vars
  <2>1. UNCHANGED <<design, W, tw, pc, op, idx, hops, random, desc, content, idleShifts>>
    BY <1>1 DEF vars, searchVars, itemVars
  <2>2. \A t, q : Behind(t, q)' = Behind(t, q) /\ Out(t, q)' = Out(t, q)
    BY <2>1 DEF Behind, Out
  <2>3. \A t : HopsInv(t)' = HopsInv(t) /\ RoundInv(t)' = RoundInv(t)
    BY <2>1, <2>2 DEF HopsInv, RoundInv
  <2>4. MoveInv' = MoveInv
    BY <2>1 DEF MoveInv
  <2> QED BY <2>1, <2>3, <2>4 DEF WorkInv
<1>2. CASE Next
  <2>0. idleShifts' \in Moves /\ Observe /\ CoupledTypes
    BY <1>2, ObserveTypes DEF Next, AssertInv, CoupledTypes
  <2>1. PICK t \in Threads : QuietStep(t) \/ Shift(t) \/ PushCAE(t) \/ PopCAE(t)
    BY <1>2, StepCases
  <2> QED BY <2>0, <2>1, QuietWork, ShiftWork, ItemWork
<1> QED BY <1>1, <1>2

\* In none of the three structures do the shifts of pushes and pops undo each other
\* when the depth is more than 1: after its first shift the window moves one way until
\* an operation succeeds.
THEOREM ShiftsAreNotUndone ==
  ASSUME CoupledConstants
  PROVE  Spec => []ShiftsNotUndone
<1>1. Init => AssertInv /\ WorkInv
  BY AssertInit, WorkInit
<1>2. AssertInv /\ WorkInv /\ [Next]_vars => AssertInv' /\ WorkInv'
  BY AssertStep, WorkStep
<1>3. WorkInv => ShiftsNotUndone
  BY DEF WorkInv, MoveInv, ShiftsNotUndone
<1> QED BY <1>1, <1>2, <1>3, PTL DEF Spec

-----------------------------------------------------------------------------
\* The three invariants together.
CoupledInv == /\ AssertInv
              /\ ~ design.window.split => BoundInv
              /\ WorkInv

LEMMA CoupledStarts == ASSUME CoupledConstants, Init PROVE CoupledInv
  BY AssertInit, BoundInit, WorkInit DEF CoupledInv

LEMMA CoupledSteps == ASSUME CoupledConstants, CoupledInv, [Next]_vars PROVE CoupledInv'
<1>1. design' = design
  BY StepKeepsDesign DEF vars
<1> QED BY <1>1, AssertStep, BoundStep, WorkStep DEF CoupledInv

LEMMA CoupledMeans ==
  ASSUME CoupledConstants, CoupledInv
  PROVE  ShiftAsserted /\ WindowBounds /\ ShiftsNotUndone
<1>1. ShiftAsserted
  BY AssertMeans DEF CoupledInv
<1>2. WindowBounds
  BY DEF CoupledInv, BoundInv, WindowBounds, count
<1>3. ShiftsNotUndone
  BY DEF CoupledInv, WorkInv, MoveInv, ShiftsNotUndone
<1> QED BY <1>1, <1>2, <1>3
=============================================================================
