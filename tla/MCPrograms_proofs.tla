-------------------------- MODULE MCPrograms_proofs --------------------------
(***************************************************************************)
(* Proofs about the programs for every number of threads, sub-structures,  *)
(* operations and time stamps, every command line and every graph: about   *)
(* the graph of graph.h, the search of test-bfs.c and the benchmarks.      *)
(***************************************************************************)
EXTENDS MCPrograms, FiniteSetTheorems, TLAPS

-----------------------------------------------------------------------------
\* Induction and recursion, and the graph of graph.h

\* Induction over the naturals, for a set instead of a predicate: the least number outside T
\* would have a predecessor outside T.
LEMMA SetInduction ==
  ASSUME NEW T, 0 \in T, \A n \in Nat : n \in T => n + 1 \in T
  PROVE  Nat \subseteq T
<1> SUFFICES ASSUME NEW k \in Nat, k \notin T PROVE FALSE
  OBVIOUS
<1> DEFINE A == {n \in 0..k : n \notin T}
           f == [n \in A |-> n - 1]
<1>1. IsFiniteSet(A) /\ k \in A
  <2>1. IsFiniteSet(0..k)
    BY FS_Interval
  <2> QED BY <2>1, FS_Subset
<1>2. IsFiniteSet(A \ {k}) /\ Cardinality(A \ {k}) = Cardinality(A) - 1 /\ Cardinality(A) \in Nat
  BY <1>1, FS_RemoveElement, FS_CardinalityType
<1>3. f \in [A -> A \ {k}]
  OBVIOUS
<1>4. PICK x, y \in A : x # y /\ f[x] = f[y]
  <2> HIDE DEF A, f
  <2>1. Cardinality(A \ {k}) < Cardinality(A)
    BY <1>2
  <2> QED BY <1>1, <1>2, <1>3, <2>1, FS_PigeonHole
<1> QED BY <1>4

Computes(f, X, x0, S, N) == /\ f \in [0..N -> X]
                            /\ f[0] = x0
                            /\ \A k \in 1..N : f[k] = S[k][f[k - 1]]

\* A function given step by step exists: there is a finite sequence of values that starts with
\* x0 and applies S[k] to get the k-th.
LEMMA Recursion ==
  ASSUME NEW X, NEW x0 \in X, NEW N \in Nat, NEW S \in [1..N -> [X -> X]]
  PROVE  \E f : Computes(f, X, x0, S, N)
<1> DEFINE Good(m, f) == \A k \in 0..m : f[k] = IF k = 0 THEN x0 ELSE S[k][f[k - 1]]
           T == {m \in Nat : m <= N => \E f \in [0..m -> X] : Good(m, f)}
<1>1. 0 \in T
  <2>1. [k \in 0..0 |-> x0] \in [0..0 -> X] /\ Good(0, [k \in 0..0 |-> x0])
    OBVIOUS
  <2> QED BY <2>1
<1>2. \A m \in Nat : m \in T => m + 1 \in T
  <2> SUFFICES ASSUME NEW m \in Nat, m + 1 <= N, m \in T
               PROVE  \E f \in [0..(m + 1) -> X] : Good(m + 1, f)
    BY SMTT(30)
  <2>1. PICK f \in [0..m -> X] : Good(m, f)
    OBVIOUS
  <2> DEFINE h == [k \in 0..(m + 1) |-> IF k = m + 1 THEN S[m + 1][f[m]] ELSE f[k]]
  <2>2. h \in [0..(m + 1) -> X]
    <3>1. S[m + 1] \in [X -> X] /\ f[m] \in X
      OBVIOUS
    <3> QED BY <3>1
  <2>3. Good(m + 1, h)
    <3> SUFFICES ASSUME NEW k \in 0..(m + 1)
                 PROVE  h[k] = IF k = 0 THEN x0 ELSE S[k][h[k - 1]]
      OBVIOUS
    <3>1. CASE k = m + 1
      BY <3>1
    <3>2. CASE k # m + 1
      BY <2>1, <3>2
    <3> QED BY <3>1, <3>2
  <2> QED BY <2>2, <2>3
<1>3. N \in T
  <2> HIDE DEF T
  <2> QED BY <1>1, <1>2, SetInduction
<1>4. PICK f \in [0..N -> X] : Good(N, f)
  BY <1>3
<1> QED BY <1>4 DEF Computes

-----------------------------------------------------------------------------
\* The running sums of parse_mtx_file.
LEMMA EndsStep ==
  ASSUME NEW n \in Nat, NEW degrees \in [0..n -> Nat]
  PROVE  /\ Ends(n, degrees) \in [0..n -> Nat]
         /\ Ends(n, degrees)[0] = degrees[0]
         /\ \A v \in 1..n : Ends(n, degrees)[v] = degrees[v] + Ends(n, degrees)[v - 1]
<1> DEFINE S == [v \in 1..n |-> [x \in Nat |-> degrees[v] + x]]
           Step(f, v) == IF v = 0 THEN degrees[0] ELSE degrees[v] + f[v - 1]
           P(f) == f = [v \in 0..n |-> Step(f, v)]
           f0 == CHOOSE f : P(f)
<1>1. \E f : P(f)
  <2>1. S \in [1..n -> [Nat -> Nat]] /\ degrees[0] \in Nat
    OBVIOUS
  <2>2. PICK f : Computes(f, Nat, degrees[0], S, n)
    <3> HIDE DEF S
    <3> QED BY <2>1, Recursion
  <2> f \in [0..n -> Nat] /\ f[0] = degrees[0] /\ \A v \in 1..n : f[v] = S[v][f[v - 1]]
    BY <2>2 DEF Computes
  <2>3. ASSUME NEW v \in 0..n PROVE f[v] = Step(f, v)
    <3>1. CASE v = 0
      BY <3>1
    <3>2. CASE v \in 1..n
      <4>1. f[v - 1] \in Nat
        BY <3>2
      <4> QED BY <3>2, <4>1
    <3> QED BY <3>1, <3>2
  <2>4. f = [v \in 0..n |-> f[v]]
    OBVIOUS
  <2> HIDE DEF Step
  <2>5. f = [v \in 0..n |-> Step(f, v)]
    BY <2>3, <2>4
  <2> QED BY <2>5
<1>2. P(f0)
  BY <1>1
<1>3. Ends(n, degrees) = f0
  BY DEF Ends
<1>4. \A v \in 0..n : f0[v] = Step(f0, v)
  <2> HIDE DEF f0, Step
  <2> QED BY <1>2
<1>5. DOMAIN f0 = 0..n /\ f0 = [v \in 0..n |-> f0[v]]
  <2> HIDE DEF f0, Step
  <2>1. DOMAIN f0 = 0..n
    BY <1>2
  <2>2. f0 = [v \in 0..n |-> f0[v]]
    BY <1>2, <1>4
  <2> QED BY <2>1, <2>2
<1> HIDE DEF f0
<1>6. \A v \in 0..n : f0[v] \in Nat
  <2> DEFINE T == {k \in Nat : k <= n => f0[k] \in Nat}
  <2>1. 0 \in T
    BY <1>4
  <2>2. ASSUME NEW k \in Nat, k \in T PROVE k + 1 \in T
    <3> SUFFICES ASSUME k + 1 <= n PROVE f0[k + 1] \in Nat
      OBVIOUS
    <3>1. f0[k] \in Nat /\ degrees[k + 1] \in Nat
      BY <2>2
    <3>2. f0[k + 1] = degrees[k + 1] + f0[k]
      BY <1>4
    <3> QED BY <3>1, <3>2
  <2> HIDE DEF T
  <2>3. Nat \subseteq T
    BY <2>1, <2>2, SetInduction
  <2> QED BY <2>3 DEF T
<1>7. f0 \in [0..n -> Nat]
  BY <1>5, <1>6
<1>8. f0[0] = degrees[0] /\ \A v \in 1..n : f0[v] = degrees[v] + f0[v - 1]
  BY <1>4
<1> QED BY <1>3, <1>7, <1>8

ArcLists(n) == Seq((1..n) \X (1..n))
UpTo(arcs, v) == {j \in DOMAIN arcs : arcs[j][1] <= v}

\* The arcs of a vertex are finitely many.
LEMMA ArcsFromFinite ==
  ASSUME NEW arcs, NEW v, NEW k \in Nat
  PROVE  /\ IsFiniteSet(ArcsFrom(arcs, v, k))
         /\ Cardinality(ArcsFrom(arcs, v, k)) \in Nat
<1>1. IsFiniteSet(1..k)
  BY FS_Interval
<1>2. ArcsFrom(arcs, v, k) \subseteq 1..k
  BY DEF ArcsFrom
<1> QED BY <1>1, <1>2, FS_Subset, FS_CardinalityType

\* One more arc is one more arc of its first vertex.
LEMMA ArcsFromStep ==
  ASSUME NEW arcs, NEW v, NEW k \in Nat
  PROVE  /\ arcs[k + 1][1] = v =>
              /\ ArcsFrom(arcs, v, k + 1) = ArcsFrom(arcs, v, k) \cup {k + 1}
              /\ Cardinality(ArcsFrom(arcs, v, k + 1)) = Cardinality(ArcsFrom(arcs, v, k)) + 1
         /\ arcs[k + 1][1] # v => ArcsFrom(arcs, v, k + 1) = ArcsFrom(arcs, v, k)
<1> DEFINE A == ArcsFrom(arcs, v, k)
           B == ArcsFrom(arcs, v, k + 1)
<1>1. IsFiniteSet(A) /\ Cardinality(A) \in Nat
  BY ArcsFromFinite
<1>2. k + 1 \notin A
  BY DEF ArcsFrom
<1>3. ASSUME arcs[k + 1][1] = v PROVE B = A \cup {k + 1}
  BY <1>3 DEF ArcsFrom
<1>4. ASSUME arcs[k + 1][1] # v PROVE B = A
  BY <1>4 DEF ArcsFrom
<1>5. Cardinality(A \cup {k + 1}) = Cardinality(A) + 1
  <2> HIDE DEF A
  <2> QED BY <1>1, <1>2, FS_AddElement
<1> QED BY <1>3, <1>4, <1>5

\* More arcs of the list are more arcs of a vertex.
LEMMA ArcsFromMonotone ==
  ASSUME NEW arcs, NEW v, NEW m \in Nat, NEW k \in 0..m
  PROVE  Cardinality(ArcsFrom(arcs, v, k)) <= Cardinality(ArcsFrom(arcs, v, m))
<1>1. ArcsFrom(arcs, v, k) \subseteq ArcsFrom(arcs, v, m)
  BY DEF ArcsFrom
<1> QED BY <1>1, ArcsFromFinite, FS_Subset

\* The parts of the vertices follow each other, each as long as the vertex has arcs, and the
\* last ends where the arcs do.
LEMMA EndsCount ==
  ASSUME NEW n \in Nat, NEW arcs \in ArcLists(n)
  PROVE  LET E == Ends(n, Degrees(n, arcs))
         IN  /\ E \in [0..n -> Nat]
             /\ E[0] = 0
             /\ E[n] = Len(arcs)
             /\ \A v \in 1..n : E[v] = E[v - 1] + Cardinality(ArcsFrom(arcs, v, Len(arcs)))
             /\ \A u, v \in 0..n : u <= v => E[u] <= E[v]
<1> DEFINE m == Len(arcs)
           D == Degrees(n, arcs)
           E == Ends(n, D)
<1>1. m \in Nat /\ DOMAIN arcs = 1..m /\ \A j \in 1..m : arcs[j][1] \in 1..n
  BY DEF ArcLists
<1>2. D \in [0..n -> Nat] /\ \A v \in 0..n : D[v] = Cardinality(ArcsFrom(arcs, v, m))
  <2>1. D = [v \in 0..n |-> Cardinality(ArcsFrom(arcs, v, m))]
    BY DEF Degrees
  <2>2. \A v \in 0..n : Cardinality(ArcsFrom(arcs, v, m)) \in Nat
    BY <1>1, ArcsFromFinite
  <2> HIDE DEF D, m
  <2> QED BY <2>1, <2>2
<1>3. /\ E \in [0..n -> Nat]
      /\ E[0] = D[0]
      /\ \A v \in 1..n : E[v] = D[v] + E[v - 1]
  <2> HIDE DEF D, m
  <2> QED BY <1>2, EndsStep
<1>4. E[0] = 0
  <2>1. ArcsFrom(arcs, 0, m) = {}
    BY <1>1 DEF ArcsFrom
  <2> HIDE DEF D, m, E
  <2>2. E[0] = Cardinality(ArcsFrom(arcs, 0, m))
    BY <1>2, <1>3
  <2>3. Cardinality({}) = 0
    BY FS_EmptySet
  <2> QED BY ONLY <2>1, <2>2, <2>3
<1>5. \A v \in 1..n : E[v] = E[v - 1] + Cardinality(ArcsFrom(arcs, v, m))
  <2> HIDE DEF D, m, E
  <2> TAKE v \in 1..n
  <2>1. D[v] = Cardinality(ArcsFrom(arcs, v, m)) /\ D[v] \in Nat /\ E[v - 1] \in Nat /\ E[v] = D[v] + E[v - 1]
    BY <1>2, <1>3
  <2> QED BY <2>1
<1> HIDE DEF D, E
<1>6. \A v \in 0..n : IsFiniteSet(UpTo(arcs, v))
  <2>1. IsFiniteSet(1..m)
    BY <1>1, FS_Interval
  <2>2. \A v \in 0..n : UpTo(arcs, v) \subseteq 1..m
    BY <1>1 DEF UpTo
  <2> QED BY <2>1, <2>2, FS_Subset
<1>7. \A v \in 0..n : E[v] = Cardinality(UpTo(arcs, v))
  <2> DEFINE T == {v \in Nat : v <= n => E[v] = Cardinality(UpTo(arcs, v))}
  <2>1. 0 \in T
    <3>1. UpTo(arcs, 0) = {}
      BY <1>1 DEF UpTo
    <3> QED BY <1>4, <3>1, FS_EmptySet
  <2>2. ASSUME NEW v \in Nat, v \in T PROVE v + 1 \in T
    <3> SUFFICES ASSUME v + 1 <= n PROVE E[v + 1] = Cardinality(UpTo(arcs, v + 1))
      OBVIOUS
    <3> DEFINE A == UpTo(arcs, v)
               B == ArcsFrom(arcs, v + 1, m)
    <3>1. UpTo(arcs, v + 1) = A \cup B /\ A \cap B = {}
      BY <1>1 DEF UpTo, ArcsFrom
    <3>2. IsFiniteSet(A) /\ IsFiniteSet(B) /\ Cardinality(B) \in Nat
      BY <1>1, <1>6, ArcsFromFinite
    <3>3. E[v] = Cardinality(A) /\ E[v] \in Nat /\ E[v + 1] = E[v] + Cardinality(B)
      BY <1>3, <1>5, <2>2
    <3>4. Cardinality(A \cap B) = 0
      BY <3>1, FS_EmptySet
    <3> HIDE DEF A, B
    <3>5. Cardinality(A \cup B) = Cardinality(A) + Cardinality(B) - Cardinality(A \cap B)
      BY <3>2, FS_Union
    <3>6. Cardinality(A) \in Nat
      BY <3>2, FS_CardinalityType
    <3>7. Cardinality(A \cup B) = Cardinality(A) + Cardinality(B)
      BY <3>2, <3>4, <3>5, <3>6
    <3> QED BY ONLY <3>1, <3>3, <3>7
  <2> HIDE DEF T
  <2>3. Nat \subseteq T
    BY <2>1, <2>2, SetInduction
  <2> QED BY <2>3 DEF T
<1>8. E[n] = m
  <2>1. UpTo(arcs, n) = 1..m
    BY <1>1 DEF UpTo
  <2>2. Cardinality(1..m) = m
    <3> HIDE DEF m
    <3> QED BY <1>1, FS_Interval
  <2> QED BY <1>7, <2>1, <2>2
<1>9. \A u, v \in 0..n : u <= v => E[u] <= E[v]
  <2> SUFFICES ASSUME NEW u \in 0..n, NEW v \in 0..n, u <= v PROVE E[u] <= E[v]
    OBVIOUS
  <2>1. UpTo(arcs, u) \subseteq UpTo(arcs, v)
    BY <1>1 DEF UpTo
  <2>2. Cardinality(UpTo(arcs, u)) <= Cardinality(UpTo(arcs, v))
    BY <1>6, <2>1, FS_Subset
  <2> QED BY <1>7, <2>2
<1> QED BY <1>3, <1>4, <1>5, <1>8, <1>9 DEF D, E

CSRs(n, m) == [verticies : [0..n -> Int], neighbors : [0..(m - 1) -> Nat]]

\* The second pass keeps the shape of the graph.
LEMMA PlaceType ==
  ASSUME NEW n \in Nat, NEW m \in Nat, NEW c \in CSRs(n, m), NEW v \in 1..n, NEW w \in Nat
  PROVE  Place(c, v, w) \in CSRs(n, m)
<1>1. c.verticies \in [0..n -> Int] /\ c.neighbors \in [0..(m - 1) -> Nat]
  BY DEF CSRs
<1>2. c.verticies[v] - 1 \in Int
  BY <1>1
<1>3. [c.verticies EXCEPT ![v] = c.verticies[v] - 1] \in [0..n -> Int]
  BY <1>1, <1>2
<1>4. [c.neighbors EXCEPT ![c.verticies[v] - 1] = w] \in [0..(m - 1) -> Nat]
  BY <1>1
<1> QED BY <1>3, <1>4 DEF Place, CSRs

\* The second pass, arc by arc.
LEMMA FilledSteps ==
  ASSUME NEW n \in Nat, NEW arcs \in ArcLists(n), NEW csr \in CSRs(n, Len(arcs))
  PROVE  \E after : /\ after[0] = csr
                    /\ \A k \in 0..Len(arcs) : after[k] \in CSRs(n, Len(arcs))
                    /\ \A k \in 1..Len(arcs) :
                         after[k] = Place(after[k - 1], arcs[k][1], arcs[k][2])
                    /\ Filled(csr, arcs) = after[Len(arcs)]
<1> DEFINE m == Len(arcs)
           X == CSRs(n, m)
           S == [k \in 1..m |-> [c \in X |-> Place(c, arcs[k][1], arcs[k][2])]]
           Step(f, k) == IF k = 0 THEN csr ELSE Place(f[k - 1], arcs[k][1], arcs[k][2])
           P(f) == f = [k \in 0..m |-> Step(f, k)]
           f0 == CHOOSE f : P(f)
<1>1. m \in Nat /\ \A k \in 1..m : arcs[k][1] \in 1..n /\ arcs[k][2] \in 1..n
  BY DEF ArcLists
<1>2. \A k \in 1..m : \A c \in X : Place(c, arcs[k][1], arcs[k][2]) \in X
  <2> TAKE k \in 1..m
  <2> TAKE c \in X
  <2>1. arcs[k][1] \in 1..n /\ arcs[k][2] \in Nat
    BY <1>1
  <2> HIDE DEF m
  <2> QED BY <1>1, <2>1, PlaceType
<1> HIDE DEF X, m
<1>3. \E f : P(f)
  <2>1. S \in [1..m -> [X -> X]]
    BY <1>2
  <2>2. csr \in X
    BY DEF X, m
  <2>3. PICK f : Computes(f, X, csr, S, m)
    <3> HIDE DEF S
    <3> QED BY <1>1, <2>1, <2>2, Recursion
  <2> f \in [0..m -> X] /\ f[0] = csr /\ \A k \in 1..m : f[k] = S[k][f[k - 1]]
    BY <2>3 DEF Computes
  <2>4. ASSUME NEW k \in 0..m PROVE f[k] = Step(f, k)
    <3>1. CASE k = 0
      BY <3>1
    <3>2. CASE k \in 1..m
      <4>1. f[k - 1] \in X
        BY <1>1, <3>2
      <4> QED BY <3>2, <4>1
    <3> QED BY <1>1, <3>1, <3>2
  <2>5. f = [k \in 0..m |-> f[k]]
    OBVIOUS
  <2> HIDE DEF Step
  <2>6. f = [k \in 0..m |-> Step(f, k)]
    BY <2>4, <2>5
  <2> QED BY <2>6
<1>4. P(f0)
  BY <1>3
<1>5. Filled(csr, arcs) = f0[m]
  BY DEF Filled, m
<1>6. \A k \in 0..m : f0[k] = Step(f0, k)
  <2> HIDE DEF f0, Step
  <2> QED BY <1>4
<1> HIDE DEF f0
<1>7. f0[0] = csr
  <2>1. 0 \in 0..m
    BY <1>1
  <2>2. Step(f0, 0) = csr
    OBVIOUS
  <2> HIDE DEF Step
  <2> QED BY <1>6, <2>1, <2>2
<1>8. \A k \in 1..m : f0[k] = Place(f0[k - 1], arcs[k][1], arcs[k][2])
  BY <1>1, <1>6
<1>9. \A k \in 0..m : f0[k] \in X
  <2> DEFINE T == {k \in Nat : k <= m => f0[k] \in X}
  <2>1. 0 \in T
    BY <1>7 DEF X, m
  <2>2. ASSUME NEW k \in Nat, k \in T PROVE k + 1 \in T
    <3> SUFFICES ASSUME k + 1 <= m PROVE f0[k + 1] \in X
      OBVIOUS
    <3>1. k <= m /\ k + 1 \in 1..m /\ (k + 1) - 1 = k
      BY <1>1, k \in Nat, k + 1 <= m
    <3>0. f0[k] \in X
      BY <2>2, <3>1
    <3>2. f0[k + 1] = Place(f0[k], arcs[k + 1][1], arcs[k + 1][2])
      BY ONLY <1>8, <3>1
    <3> QED BY <1>2, <3>0, <3>1, <3>2
  <2> HIDE DEF T
  <2>3. Nat \subseteq T
    BY <2>1, <2>2, SetInduction
  <2> QED BY <1>1, <2>3 DEF T
<1> QED BY <1>5, <1>7, <1>8, <1>9 DEF X, m

\* After k arcs the part of v ends where it should, and what has been placed in it is
\* what these arcs lead to.
FilledPart(c, ends, v) == {c.neighbors[p] : p \in c.verticies[v]..(ends[v] - 1)}

\* After the second pass the part of each vertex holds the ends of its arcs, all of them and
\* nothing else.
LEMMA FilledSound ==
  ASSUME NEW n \in Nat, NEW arcs \in ArcLists(n), NEW csr \in CSRs(n, Len(arcs)),
         csr.verticies = Ends(n, Degrees(n, arcs))
  PROVE  LET E == Ends(n, Degrees(n, arcs))
             c == Filled(csr, arcs)
         IN  /\ c \in CSRs(n, Len(arcs))
             /\ \A v \in 1..n : /\ c.verticies[v] = E[v - 1]
                                /\ FilledPart(c, E, v) = {arcs[j][2] : j \in ArcsFrom(arcs, v, Len(arcs))}
<1> DEFINE m == Len(arcs)
           E == Ends(n, Degrees(n, arcs))
           C(v, k) == Cardinality(ArcsFrom(arcs, v, k))
           Targets(v, k) == {arcs[j][2] : j \in ArcsFrom(arcs, v, k)}
<1>1. m \in Nat /\ \A k \in 1..m : arcs[k][1] \in 1..n /\ arcs[k][2] \in 1..n
  BY DEF ArcLists
<1>2. /\ E \in [0..n -> Nat]
      /\ E[n] = m
      /\ \A v \in 1..n : E[v] = E[v - 1] + C(v, m)
      /\ \A u, v \in 0..n : u <= v => E[u] <= E[v]
  BY EndsCount
<1>3. PICK after : /\ after[0] = csr
                   /\ \A k \in 0..m : after[k] \in CSRs(n, m)
                   /\ \A k \in 1..m : after[k] = Place(after[k - 1], arcs[k][1], arcs[k][2])
                   /\ Filled(csr, arcs) = after[m]
  BY FilledSteps
<1> HIDE DEF m, E
<1> DEFINE Good(k) == \A v \in 1..n : /\ after[k].verticies[v] = E[v] - C(v, k)
                                      /\ FilledPart(after[k], E, v) = Targets(v, k)
           T == {k \in Nat : k <= m => Good(k)}
<1>4. \A v \in 1..n : \A k \in 0..m : C(v, k) \in Nat /\ C(v, k) <= C(v, m)
  <2> TAKE v \in 1..n
  <2> TAKE k \in 0..m
  <2> QED BY <1>1, ArcsFromFinite, ArcsFromMonotone
<1>5. 0 \in T
  <2> SUFFICES ASSUME NEW v \in 1..n
               PROVE  /\ after[0].verticies[v] = E[v] - C(v, 0)
                      /\ FilledPart(after[0], E, v) = Targets(v, 0)
    OBVIOUS
  <2>1. ArcsFrom(arcs, v, 0) = {}
    BY DEF ArcsFrom
  <2>2. C(v, 0) = 0
    BY <2>1, FS_EmptySet
  <2>3. after[0].verticies[v] = E[v] /\ E[v] \in Nat
    BY <1>2, <1>3 DEF E
  <2>4. FilledPart(after[0], E, v) = {}
    BY <2>3 DEF FilledPart
  <2>5. Targets(v, 0) = {}
    BY <2>1
  <2> HIDE DEF C, Targets
  <2> QED BY <2>2, <2>3, <2>4, <2>5
<1>6. ASSUME NEW k \in Nat, k \in T PROVE k + 1 \in T
  <2> SUFFICES ASSUME k + 1 <= m, NEW v \in 1..n
               PROVE  /\ after[k + 1].verticies[v] = E[v] - C(v, k + 1)
                      /\ FilledPart(after[k + 1], E, v) = Targets(v, k + 1)
    BY DEF Good
  <2> DEFINE c == after[k]
             d == after[k + 1]
             u == arcs[k + 1][1]
             w == arcs[k + 1][2]
             p0 == E[u] - C(u, k) - 1
  <2>1. Good(k) /\ k \in 0..m /\ k + 1 \in 1..m /\ (k + 1) - 1 = k
    BY <1>1, <1>6
  <2>2. u \in 1..n /\ w \in 1..n
    BY <1>1, <2>1
  <2>3. c \in CSRs(n, m) /\ d = Place(c, u, w)
    BY <1>3, <2>1
  <2>4. c.verticies[u] = E[u] - C(u, k) /\ C(u, k) \in Nat /\ C(u, k + 1) \in Nat
        /\ C(u, k + 1) = C(u, k) + 1 /\ C(u, k + 1) <= C(u, m)
    <3> HIDE DEF c, d, w
    <3>1. c.verticies[u] = E[u] - C(u, k)
      BY <2>1, <2>2 DEF c
    <3>2. C(u, k + 1) = C(u, k) + 1
      BY ArcsFromStep
    <3> HIDE DEF C, u
    <3> QED BY <1>1, <1>4, <2>1, <2>2, <3>1, <3>2
  <2>5. p0 \in E[u - 1]..(E[u] - 1) /\ p0 \in 0..(m - 1)
    <3>1. E[u] = E[u - 1] + C(u, m) /\ E[u] \in Nat /\ E[u - 1] \in Nat /\ E[u] <= m
      <4> HIDE DEF C, u
      <4>1. u \in 0..n /\ n \in 0..n /\ u <= n /\ u - 1 \in 0..n
        BY <2>2
      <4> QED BY <1>2, <2>2, <4>1
    <3>2. C(u, m) \in Nat
      <4> HIDE DEF C, u
      <4> QED BY <1>1, <1>4, <2>2
    <3> HIDE DEF C, u
    <3>3. C(u, k) \in Nat /\ C(u, k) + 1 <= C(u, m)
      BY <2>4
    <3>4. ASSUME NEW e0 \in Nat, NEW e1 \in Nat, NEW ck \in Nat, NEW cm \in Nat, NEW mm \in Nat,
                 e1 = e0 + cm, ck + 1 <= cm, e1 <= mm
          PROVE  e1 - ck - 1 \in e0..(e1 - 1) /\ e1 - ck - 1 \in 0..(mm - 1)
      BY ONLY <3>4
    <3> QED BY <1>1, <3>1, <3>2, <3>3, <3>4 DEF p0
  <2>6. /\ d.verticies = [c.verticies EXCEPT ![u] = p0]
        /\ d.neighbors = [c.neighbors EXCEPT ![p0] = w]
        /\ c.verticies \in [0..n -> Int] /\ c.neighbors \in [0..(m - 1) -> Nat]
    <3> HIDE DEF c, d, u, w, C
    <3> QED BY <2>3, <2>4 DEF Place, CSRs
  <2> HIDE DEF c, d, u, w, p0, C, Targets
  <2>7. CASE v = u
    <3>1. d.verticies[v] = p0 /\ p0 = E[u] - C(u, k + 1) /\ E[u] \in Nat
      <4>1. E[u] \in Nat /\ u \in 0..n
        BY <1>2, <2>2
      <4>2. p0 = E[u] - C(u, k + 1)
        BY <2>4, <4>1 DEF p0
      <4> QED BY <2>6, <2>7, <4>1, <4>2
    <3>2. FilledPart(d, E, v) = FilledPart(c, E, v) \cup {w}
      <4>1. c.verticies[v] = p0 + 1 /\ p0 \in 0..(m - 1) /\ p0 < E[v] /\ E[v] <= m /\ E[v] \in Nat
        <5>1. E[v] \in Nat /\ E[v] <= m
          <6>1. v \in 0..n /\ n \in 0..n /\ v <= n
            BY <2>2
          <6> QED BY <1>2, <6>1
        <5>2. c.verticies[v] = p0 + 1 /\ p0 \in 0..(m - 1)
          BY SMTT(30), <2>4, <2>5, <2>7, <5>1 DEF p0
        <5>3. p0 < E[v]
          BY SMTT(30), <2>4, <2>5, <2>7, <5>1 DEF p0
        <5> QED BY <5>1, <5>2, <5>3
      <4>2. \A p \in (p0 + 1)..(E[v] - 1) : d.neighbors[p] = c.neighbors[p]
        BY <2>6
      <4>3. d.neighbors[p0] = w
        BY <2>6, <4>1
      <4>4. p0..(E[v] - 1) = {p0} \cup ((p0 + 1)..(E[v] - 1))
        BY <4>1
      <4>5. d.verticies[v]..(E[v] - 1) = p0..(E[v] - 1)
            /\ c.verticies[v]..(E[v] - 1) = (p0 + 1)..(E[v] - 1)
        BY <3>1, <4>1
      <4> DEFINE I == (p0 + 1)..(E[v] - 1)
      <4>6. FilledPart(d, E, v) = {d.neighbors[p] : p \in {p0} \cup I}
        BY <4>4, <4>5 DEF FilledPart
      <4>7. FilledPart(c, E, v) = {c.neighbors[p] : p \in I}
        BY <4>5 DEF FilledPart
      <4> HIDE DEF I
      <4> QED BY <4>2, <4>3, <4>6, <4>7 DEF I
    <3>3. FilledPart(c, E, v) = Targets(v, k)
      BY <2>1 DEF c
    <3>4. Targets(v, k + 1) = Targets(v, k) \cup {w}
      <4>1. ArcsFrom(arcs, v, k + 1) = ArcsFrom(arcs, v, k) \cup {k + 1}
        BY <2>7, ArcsFromStep DEF u
      <4> QED BY <4>1 DEF Targets, w
    <3> QED BY <2>7, <3>1, <3>2, <3>3, <3>4 DEF d
  <2>8. CASE v # u
    <3>1. ArcsFrom(arcs, v, k + 1) = ArcsFrom(arcs, v, k)
      BY <2>8, ArcsFromStep DEF u
    <3>2. C(v, k + 1) = C(v, k) /\ Targets(v, k + 1) = Targets(v, k)
      BY <3>1 DEF C, Targets
    <3>3. d.verticies[v] = c.verticies[v] /\ c.verticies[v] = E[v] - C(v, k)
      BY <2>1, <2>6, <2>8 DEF c
    <3>4. p0 \notin c.verticies[v]..(E[v] - 1)
      <4>1. E[v] = E[v - 1] + C(v, m) /\ C(v, k) <= C(v, m) /\ C(v, k) \in Nat /\ C(v, m) \in Nat
            /\ E[v] \in Nat /\ E[v - 1] \in Nat /\ E[u] \in Nat /\ E[u - 1] \in Nat
        <5>1. v - 1 \in 0..n /\ v \in 0..n /\ u - 1 \in 0..n /\ u \in 0..n /\ m \in 0..m
          BY <1>1, <2>2
        <5> QED BY <1>2, <1>4, <2>1, <5>1
      <4>2. E[u] <= E[v - 1] \/ E[v] <= E[u - 1]
        <5>1. u <= v - 1 \/ v <= u - 1
          BY <2>2, <2>8
        <5>2. u \in 0..n /\ v \in 0..n /\ u - 1 \in 0..n /\ v - 1 \in 0..n
          BY <2>2
        <5> QED BY <1>2, <5>1, <5>2
      <4>3. c.verticies[v] >= E[v - 1]
        BY <3>3, <4>1
      <4>4. p0 < E[u] /\ p0 >= E[u - 1] /\ p0 \in Int
        BY SMTT(30), <2>5, <4>1
      <4>5. ASSUME NEW p \in Int, NEW cv \in Int, NEW eu \in Nat, NEW eu1 \in Nat, NEW ev \in Nat,
                   NEW ev1 \in Nat, eu <= ev1 \/ ev <= eu1, cv >= ev1, p < eu, p >= eu1
            PROVE  p \notin cv..(ev - 1)
        BY ONLY <4>5
      <4>6. c.verticies[v] \in Int
        BY <2>6
      <4> QED BY ONLY <4>1, <4>2, <4>3, <4>4, <4>5, <4>6
    <3>5. \A p \in c.verticies[v]..(E[v] - 1) : d.neighbors[p] = c.neighbors[p]
      BY SMTT(30), <2>6, <3>4
    <3>6. FilledPart(d, E, v) = FilledPart(c, E, v)
      BY <3>3, <3>5 DEF FilledPart
    <3>7. FilledPart(c, E, v) = Targets(v, k)
      BY <2>1 DEF c
    <3> QED BY <3>2, <3>3, <3>6, <3>7 DEF d
  <2> QED BY <2>7, <2>8
<1>7. Good(m)
  <2> HIDE DEF T
  <2>1. Nat \subseteq T
    BY <1>5, <1>6, SetInduction
  <2> HIDE DEF Good
  <2>2. m <= m
    BY <1>1
  <2> QED BY <1>1, <2>1, <2>2 DEF T
<1>8. Filled(csr, arcs) \in CSRs(n, m)
  BY <1>1, <1>3
<1>9. \A v \in 1..n : Filled(csr, arcs).verticies[v] = E[v - 1]
  <2> TAKE v \in 1..n
  <2>1. E[v] = E[v - 1] + C(v, m) /\ C(v, m) \in Nat /\ E[v - 1] \in Nat
    BY <1>1, <1>2, <1>4
  <2>2. Filled(csr, arcs).verticies[v] = E[v] - C(v, m)
    BY <1>3, <1>7
  <2> HIDE DEF C
  <2> QED BY <2>1, <2>2
<1>10. \A v \in 1..n : FilledPart(Filled(csr, arcs), E, v) = Targets(v, m)
  BY <1>3, <1>7
<1> QED BY <1>8, <1>9, <1>10 DEF E, m

IsArc(edges, directed, v, w) ==
  \E k \in DOMAIN edges : \/ edges[k] = <<v, w>>
                          \/ ~ directed /\ edges[k] = <<w, v>>

\* The places of an edge and of the same edge the other way round.
LEMMA HalfFacts ==
  ASSUME NEW j \in Nat
  PROVE  /\ (2 * j) \div 2 = j /\ (2 * j + 1) \div 2 = j
         /\ (2 * j) % 2 = 0 /\ (2 * j - 1) % 2 = 1
<1>1. (2 * j) \div 2 = j
  BY SMTT(30)
<1>2. (2 * j + 1) \div 2 = j
  BY SMTT(30)
<1>3. (2 * j) % 2 = 0
  BY SMTT(30)
<1>4. (2 * j - 1) % 2 = 1
  BY SMTT(30)
<1> QED BY <1>1, <1>2, <1>3, <1>4

\* The arcs of the passes are those of the file.
LEMMA ArcsType ==
  ASSUME NEW n \in Nat, NEW edges \in ArcLists(n), NEW directed \in BOOLEAN
  PROVE  /\ Arcs(edges, directed) \in ArcLists(n)
         /\ \A v, w : (\E k \in DOMAIN Arcs(edges, directed) : Arcs(edges, directed)[k] = <<v, w>>)
                      <=> IsArc(edges, directed, v, w)
<1>1. CASE directed
  BY <1>1 DEF Arcs, IsArc
<1>2. CASE ~ directed
  <2> DEFINE m == Len(edges)
             A == [k \in 1..(2 * m) |-> LET e == edges[(k + 1) \div 2]
                                        IN  IF k % 2 = 1 THEN <<e[1], e[2]>> ELSE <<e[2], e[1]>>]
  <2>1. Arcs(edges, directed) = A
    BY <1>2 DEF Arcs
  <2>2. m \in Nat /\ DOMAIN edges = 1..m /\ \A k \in 1..m : edges[k] \in (1..n) \X (1..n)
    BY DEF ArcLists
  <2>3. \A k \in 1..(2 * m) : (k + 1) \div 2 \in 1..m
    <3> HIDE DEF m
    <3> QED BY <2>2
  <2>4. A \in ArcLists(n)
    <3>1. \A k \in 1..(2 * m) : A[k] \in (1..n) \X (1..n)
      <4> TAKE k \in 1..(2 * m)
      <4>1. edges[(k + 1) \div 2] \in (1..n) \X (1..n)
        BY <2>2, <2>3
      <4> QED BY <4>1
    <3>2. 2 * m \in Nat
      BY <2>2
    <3>3. A \in [1..(2 * m) -> (1..n) \X (1..n)]
      BY <3>1
    <3> HIDE DEF A, m
    <3> QED BY <3>2, <3>3 DEF ArcLists
  <2>5. ASSUME NEW v, NEW w, NEW k \in 1..(2 * m), A[k] = <<v, w>>
        PROVE  \E j \in 1..m : edges[j] = <<v, w>> \/ edges[j] = <<w, v>>
    <3> DEFINE j == (k + 1) \div 2
    <3>1. j \in 1..m /\ edges[j] \in (1..n) \X (1..n)
      BY <2>2, <2>3
    <3>2. edges[j] = <<v, w>> \/ edges[j] = <<w, v>>
      <4>1. A[k] = IF k % 2 = 1 THEN <<edges[j][1], edges[j][2]>> ELSE <<edges[j][2], edges[j][1]>>
        OBVIOUS
      <4> HIDE DEF A, j
      <4> QED BY <2>5, <3>1, <4>1
    <3> QED BY <3>1, <3>2
  <2>6. ASSUME NEW v, NEW w, NEW j \in 1..m, edges[j] = <<v, w>> \/ edges[j] = <<w, v>>
        PROVE  \E k \in 1..(2 * m) : A[k] = <<v, w>>
    <3>1. CASE edges[j] = <<v, w>>
      <4>1. 2 * j - 1 \in 1..(2 * m) /\ ((2 * j - 1) + 1) \div 2 = j /\ (2 * j - 1) % 2 = 1
        <5>1. j \in Nat /\ 2 * j - 1 \in 1..(2 * m) /\ (2 * j - 1) + 1 = 2 * j
          BY <2>2
        <5> QED BY <5>1, HalfFacts
      <4>2. A[2 * j - 1] = <<edges[j][1], edges[j][2]>>
        BY <4>1
      <4> HIDE DEF A, m
      <4>3. A[2 * j - 1] = <<v, w>>
        BY <3>1, <4>2
      <4> DEFINE q == 2 * j - 1
      <4>4. q \in 1..(2 * m) /\ A[q] = <<v, w>>
        BY <4>1, <4>3
      <4> HIDE DEF q
      <4> QED BY <4>4
    <3>2. CASE edges[j] = <<w, v>>
      <4>1. 2 * j \in 1..(2 * m) /\ (2 * j + 1) \div 2 = j /\ (2 * j) % 2 = 0
        <5>1. j \in Nat /\ 2 * j \in 1..(2 * m)
          BY <2>2
        <5> QED BY <5>1, HalfFacts
      <4>2. A[2 * j] = <<edges[j][2], edges[j][1]>>
        BY <4>1
      <4> HIDE DEF A, m
      <4>3. A[2 * j] = <<v, w>>
        BY <3>2, <4>2
      <4> DEFINE q == 2 * j
      <4>4. q \in 1..(2 * m) /\ A[q] = <<v, w>>
        BY <4>1, <4>3
      <4> HIDE DEF q
      <4> QED BY <4>4
    <3> QED BY <2>6, <3>1, <3>2
  <2>7. DOMAIN A = 1..(2 * m)
    OBVIOUS
  <2> HIDE DEF A, m
  <2>8. ASSUME NEW v, NEW w
        PROVE  (\E k \in 1..(2 * m) : A[k] = <<v, w>>)
               <=> \E k \in 1..m : edges[k] = <<v, w>> \/ edges[k] = <<w, v>>
    BY <2>5, <2>6
  <2> QED BY ONLY ZenonT(60), <1>2, <2>1, <2>2, <2>4, <2>7, <2>8 DEF IsArc
<1> QED BY <1>1, <1>2

Graphs(n, m) == [n_verticies : {n}, n_edges : {m}, verticies : [0..n -> Int],
                 neighbors : [0..(m - 1) -> Nat]]

\* parse_mtx_file builds the graph of the file: get_neighbors gives each vertex the ends of its
\* arcs, for every list of edges.
THEOREM ParseFaithful ==
  ASSUME NEW n \in Nat, NEW edges \in ArcLists(n), NEW directed \in BOOLEAN
  PROVE  LET G == parse_mtx_file(n, edges, directed)
             Out(v) == get_neighbors(G, v)
         IN  /\ \E m \in Nat : G \in Graphs(n, m)
             /\ \A v \in 1..n :
                  /\ \E m \in Nat : DOMAIN Out(v) = 1..m
                  /\ \A j \in DOMAIN Out(v) : Out(v)[j] \in 1..n /\ IsArc(edges, directed, v, Out(v)[j])
                  /\ \A w : IsArc(edges, directed, v, w) => \E j \in DOMAIN Out(v) : Out(v)[j] = w
<1> DEFINE arcs == Arcs(edges, directed)
           m == Len(arcs)
           E == Ends(n, Degrees(n, arcs))
           csr == [verticies |-> E, neighbors |-> [k \in 0..(m - 1) |-> 0]]
           c == Filled(csr, arcs)
           G == parse_mtx_file(n, edges, directed)
<1>1. /\ arcs \in ArcLists(n)
      /\ \A v, w : (\E k \in DOMAIN arcs : arcs[k] = <<v, w>>) <=> IsArc(edges, directed, v, w)
  BY ArcsType
<1>2. G = [n_verticies |-> n, n_edges |-> m, verticies |-> c.verticies, neighbors |-> c.neighbors]
  BY DEF parse_mtx_file
<1> HIDE DEF arcs
<1>3. m \in Nat /\ DOMAIN arcs = 1..m /\ \A k \in 1..m : arcs[k] \in (1..n) \X (1..n)
  BY <1>1 DEF ArcLists
<1>4. /\ E \in [0..n -> Nat]
      /\ E[n] = m
      /\ \A v \in 1..n : E[v] = E[v - 1] + Cardinality(ArcsFrom(arcs, v, m))
  BY <1>1, EndsCount
<1> HIDE DEF m
<1>5. csr \in CSRs(n, m)
  <2>1. E \in [0..n -> Int] /\ [k \in 0..(m - 1) |-> 0] \in [0..(m - 1) -> Nat]
    <3> HIDE DEF E
    <3> QED BY <1>4
  <2> HIDE DEF E
  <2> QED BY <2>1 DEF CSRs
<1>6. /\ c \in CSRs(n, m)
      /\ \A v \in 1..n : /\ c.verticies[v] = E[v - 1]
                         /\ FilledPart(c, E, v) = {arcs[j][2] : j \in ArcsFrom(arcs, v, m)}
  <2>1. csr.verticies = E
    OBVIOUS
  <2> HIDE DEF csr
  <2> QED BY <1>1, <1>5, <2>1, FilledSound DEF m, E
<1> HIDE DEF E, c, G
<1>7. G \in Graphs(n, m)
  BY <1>2, <1>6 DEF Graphs, CSRs
<1>8. ASSUME NEW v \in 1..n
      PROVE  /\ \E k \in Nat : DOMAIN get_neighbors(G, v) = 1..k
             /\ \A j \in DOMAIN get_neighbors(G, v) : get_neighbors(G, v)[j] \in 1..n
                                                     /\ IsArc(edges, directed, v, get_neighbors(G, v)[j])
             /\ \A w : IsArc(edges, directed, v, w) =>
                  \E j \in DOMAIN get_neighbors(G, v) : get_neighbors(G, v)[j] = w
  <2> DEFINE s == get_neighbors(G, v)
             size == E[v] - E[v - 1]
             Part == {c.neighbors[p] : p \in E[v - 1]..(E[v] - 1)}
  <2>1. E[v] \in Nat /\ E[v - 1] \in Nat /\ size \in Nat
    <3>1. Cardinality(ArcsFrom(arcs, v, m)) \in Nat
      BY <1>3, ArcsFromFinite
    <3>2. v \in 0..n /\ v - 1 \in 0..n
      OBVIOUS
    <3> QED BY <1>4, <3>1, <3>2
  <2>2. c.verticies[v] = E[v - 1] /\ Part = {arcs[j][2] : j \in ArcsFrom(arcs, v, m)}
    BY <1>6 DEF FilledPart
  <2>3. s = [j \in 1..size |-> c.neighbors[E[v - 1] + j - 1]]
    <3>1. CASE v = n
      BY <1>2, <1>4, <2>2, <3>1 DEF get_neighbors
    <3>2. CASE v # n
      <4>1. c.verticies[v + 1] = E[v]
        <5>1. v + 1 \in 1..n /\ (v + 1) - 1 = v
          BY <3>2
        <5> QED BY <1>6, <5>1
      <4> QED BY <1>2, <2>2, <3>2, <4>1 DEF get_neighbors
    <3> QED BY <3>1, <3>2
  <2> HIDE DEF s
  <2>4. DOMAIN s = 1..size
    BY <2>3
  <2>5. ASSUME NEW j \in 1..size PROVE \E k \in ArcsFrom(arcs, v, m) : arcs[k][2] = s[j]
    <3>1. E[v - 1] + j - 1 \in E[v - 1]..(E[v] - 1)
      BY <2>1
    <3>2. s[j] \in Part
      BY <2>3, <3>1
    <3> HIDE DEF Part
    <3> QED BY <2>2, <3>2
  <2>6. ASSUME NEW k \in ArcsFrom(arcs, v, m) PROVE \E j \in 1..size : s[j] = arcs[k][2]
    <3>1. arcs[k][2] \in Part
      BY <2>2
    <3>2. PICK p \in E[v - 1]..(E[v] - 1) : c.neighbors[p] = arcs[k][2]
      BY <3>1
    <3>3. p - E[v - 1] + 1 \in 1..size /\ E[v - 1] + (p - E[v - 1] + 1) - 1 = p
      BY <2>1
    <3> QED BY <2>3, <3>2, <3>3
  <2>7. ASSUME NEW j \in 1..size PROVE s[j] \in 1..n /\ IsArc(edges, directed, v, s[j])
    <3>1. PICK k \in ArcsFrom(arcs, v, m) : arcs[k][2] = s[j]
      BY <2>5
    <3>2. k \in 1..m /\ arcs[k] = <<v, s[j]>> /\ s[j] \in 1..n
      BY <1>3, <3>1 DEF ArcsFrom
    <3> QED BY <1>1, <1>3, <3>2
  <2>8. ASSUME NEW w, IsArc(edges, directed, v, w) PROVE \E j \in 1..size : s[j] = w
    <3>1. PICK k \in 1..m : arcs[k] = <<v, w>>
      BY <1>1, <1>3, <2>8
    <3>2. k \in ArcsFrom(arcs, v, m) /\ arcs[k][2] = w
      BY <3>1 DEF ArcsFrom
    <3> QED BY <2>6, <3>2
  <2> HIDE DEF size
  <2> QED BY <2>1, <2>4, <2>7, <2>8 DEF s
<1> QED BY <1>3, <1>7, <1>8 DEF G

\* What stays where when two sequences are joined.
LEMMA ConcatIndex ==
  ASSUME NEW a \in Seq(Int), NEW b \in Seq(Int)
  PROVE  /\ a \o b \in Seq(Int) /\ Len(a \o b) = Len(a) + Len(b)
         /\ \A k \in 1..Len(a) : (a \o b)[k] = a[k]
         /\ \A k \in 1..Len(b) : (a \o b)[Len(a) + k] = b[k]
  OBVIOUS

\* The binary file gives back the graph that was written.
THEOREM BinaryFaithful ==
  ASSUME NEW n \in Nat, NEW m \in Nat, NEW G \in Graphs(n, m)
  PROVE  mmap_graph(serialize_graph(G)) = G
<1> DEFINE f1 == <<n, m>>
           f2 == [k \in 1..(n + 1) |-> G.verticies[k - 1]]
           f3 == [k \in 1..m |-> G.neighbors[k - 1]]
           f == f1 \o f2 \o f3
<1>1. /\ G.verticies \in [0..n -> Int] /\ G.neighbors \in [0..(m - 1) -> Nat]
      /\ G = [n_verticies |-> n, n_edges |-> m, verticies |-> G.verticies, neighbors |-> G.neighbors]
  BY DEF Graphs
<1>2. serialize_graph(G) = f
  <2>1. G.n_verticies = n /\ G.n_edges = m
    BY DEF Graphs
  <2> QED BY <2>1 DEF serialize_graph
<1>3. f1 \in Seq(Int) /\ Len(f1) = 2 /\ f1[1] = n /\ f1[2] = m
  OBVIOUS
<1>4. f2 \in Seq(Int) /\ Len(f2) = n + 1 /\ \A k \in 1..(n + 1) : f2[k] = G.verticies[k - 1]
  <2>1. f2 \in [1..(n + 1) -> Int] /\ n + 1 \in Nat
    BY SMTT(30), <1>1
  <2>2. \A k \in 1..(n + 1) : f2[k] = G.verticies[k - 1]
    OBVIOUS
  <2> HIDE DEF f2
  <2> QED BY SMTT(30), <2>1, <2>2
<1>5. f3 \in Seq(Int) /\ Len(f3) = m /\ \A k \in 1..m : f3[k] = G.neighbors[k - 1]
  <2>1. f3 \in [1..m -> Int]
    BY SMTT(30), <1>1
  <2>2. \A k \in 1..m : f3[k] = G.neighbors[k - 1]
    OBVIOUS
  <2> HIDE DEF f3
  <2> QED BY SMTT(30), <2>1, <2>2
<1> HIDE DEF f1, f2, f3
<1> DEFINE f12 == f1 \o f2
<1>12. /\ f12 \in Seq(Int) /\ Len(f12) = n + 3
      /\ f12[1] = n /\ f12[2] = m /\ \A k \in 1..(n + 1) : f12[2 + k] = f2[k]
  <2>1. /\ f12 \in Seq(Int) /\ Len(f12) = Len(f1) + Len(f2)
        /\ \A k \in 1..Len(f1) : f12[k] = f1[k]
        /\ \A k \in 1..Len(f2) : f12[Len(f1) + k] = f2[k]
    BY <1>3, <1>4, ConcatIndex
  <2> HIDE DEF f12
  <2> QED BY <1>3, <1>4, <2>1
<1> HIDE DEF f12
<1>13. /\ \A k \in 1..(n + 3) : f[k] = f12[k]
      /\ \A k \in 1..m : f[n + 3 + k] = f3[k]
  <2>1. f = f12 \o f3
    BY DEF f12
  <2>2. /\ \A k \in 1..Len(f12) : f[k] = f12[k]
        /\ \A k \in 1..Len(f3) : f[Len(f12) + k] = f3[k]
    <3> HIDE DEF f
    <3> QED BY <1>12, <1>5, <2>1, ConcatIndex
  <2> HIDE DEF f
  <2> QED BY <1>12, <1>5, <2>2
<1> HIDE DEF f
<1>6. f[1] = n /\ f[2] = m
  BY <1>12, <1>13
<1>7. \A k \in 0..n : f[3 + k] = G.verticies[k]
  <2> TAKE k \in 0..n
  <2>1. k + 1 \in 1..(n + 1) /\ 3 + k = 2 + (k + 1) /\ (k + 1) - 1 = k /\ 3 + k \in 1..(n + 3)
    OBVIOUS
  <2>2. f[3 + k] = f2[k + 1]
    BY SMTT(30), <1>12, <1>13, <2>1
  <2> QED BY <1>4, <2>1, <2>2
<1>8. \A k \in 0..(m - 1) : f[4 + n + k] = G.neighbors[k]
  <2> TAKE k \in 0..(m - 1)
  <2>1. k + 1 \in 1..m /\ 4 + n + k = n + 3 + (k + 1) /\ (k + 1) - 1 = k
    OBVIOUS
  <2>2. f[4 + n + k] = f3[k + 1]
    BY <1>13, <2>1
  <2> QED BY <1>5, <2>1, <2>2
<1>9. [k \in 0..n |-> f[3 + k]] = G.verticies
  BY <1>1, <1>7
<1>10. [k \in 0..(m - 1) |-> f[4 + n + k]] = G.neighbors
  BY <1>1, <1>8
<1>11. mmap_graph(f) = [n_verticies |-> n, n_edges |-> m, verticies |-> G.verticies,
                        neighbors |-> G.neighbors]
  BY <1>6, <1>9, <1>10 DEF mmap_graph
<1> QED BY <1>1, <1>2, <1>11

-----------------------------------------------------------------------------
\* The search of test-bfs.c

Nbrs(v) == get_neighbors(g, v)

GraphOK ==
  \A v \in AllVertices :
    /\ \E m \in Nat : DOMAIN Nbrs(v) = 1..m
    /\ \A j \in DOMAIN Nbrs(v) : Nbrs(v)[j] \in AllVertices /\ Arc(input, v, Nbrs(v)[j])
    /\ \A w : Arc(input, v, w) => \E j \in DOMAIN Nbrs(v) : Nbrs(v)[j] = w

Static == prog \in Programs /\ input \in Inputs /\ g \in Loaded(input)

\* Whether it was parsed or comes from the binary file, the graph has the arcs of the file.
LEMMA LoadedFaithful ==
  ASSUME Static
  PROVE  GraphOK
<1> DEFINE P == Parsed(input)
<1>1. input.n \in Nat /\ input.edges \in ArcLists(input.n) /\ input.directed \in BOOLEAN
  BY BfsAssumption DEF Static, ArcLists
<1>2. /\ \E m \in Nat : P \in Graphs(input.n, m)
      /\ \A v \in 1..input.n :
           /\ \E m \in Nat : DOMAIN get_neighbors(P, v) = 1..m
           /\ \A j \in DOMAIN get_neighbors(P, v) :
                get_neighbors(P, v)[j] \in 1..input.n /\ Arc(input, v, get_neighbors(P, v)[j])
           /\ \A w : Arc(input, v, w) => \E j \in DOMAIN get_neighbors(P, v) : get_neighbors(P, v)[j] = w
  <2>1. \A v, w : Arc(input, v, w) <=> IsArc(input.edges, input.directed, v, w)
    BY DEF Arc, IsArc
  <2>2. P = parse_mtx_file(input.n, input.edges, input.directed)
    BY DEF Parsed
  <2> HIDE DEF P
  <2> QED BY <1>1, <2>1, <2>2, ParseFaithful
<1> HIDE DEF P
<1>3. mmap_graph(serialize_graph(P)) = P
  BY <1>1, <1>2, BinaryFaithful
<1>4. g = P
  BY <1>3 DEF Static, Loaded, P
<1> QED BY <1>2, <1>4 DEF GraphOK, Nbrs, AllVertices

\* The recursion of Ball.
LEMMA BallSteps ==
  ASSUME NEW in \in Inputs
  PROVE  /\ Ball(in)[0] = {Root}
         /\ \A k \in 1..in.n :
              Ball(in)[k] = Ball(in)[k - 1] \cup {w \in 1..in.n : \E v \in Ball(in)[k - 1] : Arc(in, v, w)}
         /\ \A k \in 0..in.n : Ball(in)[k] \subseteq 1..in.n
<1> DEFINE n == in.n
           X == SUBSET (1..n)
           Grown(B) == B \cup {w \in 1..n : \E v \in B : Arc(in, v, w)}
           S == [k \in 1..n |-> [B \in X |-> Grown(B)]]
           Step(f, k) == IF k = 0 THEN {Root} ELSE Grown(f[k - 1])
           P(f) == f = [k \in 0..n |-> Step(f, k)]
           f0 == CHOOSE f : P(f)
<1>1. n \in Nat /\ Root \in 1..n
  BY BfsAssumption
<1>2. Ball(in) = f0
  BY DEF Ball
<1> HIDE DEF n
<1>3. \E f : P(f)
  <2>1. S \in [1..n -> [X -> X]]
    <3>1. \A B \in X : Grown(B) \in X
      OBVIOUS
    <3> HIDE DEF X, Grown
    <3> QED BY <3>1
  <2>2. {Root} \in X
    BY <1>1
  <2>3. PICK f : Computes(f, X, {Root}, S, n)
    <3> HIDE DEF S, X
    <3> QED BY <1>1, <2>1, <2>2, Recursion
  <2> HIDE DEF Grown
  <2>4. f \in [0..n -> X] /\ f[0] = {Root} /\ \A k \in 1..n : f[k] = Grown(f[k - 1])
    <3>1. f \in [0..n -> X] /\ f[0] = {Root} /\ \A k \in 1..n : f[k] = S[k][f[k - 1]]
      <4> HIDE DEF S, X
      <4> QED BY <2>3 DEF Computes
    <3>2. ASSUME NEW k \in 1..n PROVE f[k] = Grown(f[k - 1])
      <4>1. k - 1 \in 0..n
        BY <1>1
      <4>2. f[k - 1] \in X
        <5> HIDE DEF X
        <5> QED BY <3>1, <4>1
      <4> HIDE DEF X
      <4>3. S[k][f[k - 1]] = Grown(f[k - 1])
        BY <4>2
      <4> HIDE DEF S
      <4> QED BY <3>1, <4>3
    <3> QED BY <3>1, <3>2
  <2>5. ASSUME NEW k \in 0..n PROVE f[k] = Step(f, k)
    BY <1>1, <2>4
  <2>6. f = [k \in 0..n |-> f[k]]
    <3> HIDE DEF X
    <3> QED BY <2>4
  <2> HIDE DEF Step
  <2>7. f = [k \in 0..n |-> Step(f, k)]
    BY <2>5, <2>6
  <2> QED BY <2>7
<1>4. P(f0)
  BY <1>3
<1>5. \A k \in 0..n : f0[k] = Step(f0, k)
  <2> HIDE DEF f0, Step
  <2> QED BY <1>4
<1> HIDE DEF f0, Grown
<1>6. f0[0] = {Root}
  BY <1>1, <1>5
<1>7. \A k \in 1..n : f0[k] = Grown(f0[k - 1])
  BY <1>1, <1>5
<1>8. \A k \in 0..n : f0[k] \in X
  <2> DEFINE T == {k \in Nat : k <= n => f0[k] \in X}
  <2>1. 0 \in T
    BY <1>1, <1>6
  <2>2. ASSUME NEW k \in Nat, k \in T PROVE k + 1 \in T
    <3> SUFFICES ASSUME k + 1 <= n PROVE f0[k + 1] \in X
      OBVIOUS
    <3>1. k <= n /\ k + 1 \in 1..n /\ (k + 1) - 1 = k
      BY <1>1
    <3>2. f0[k] \in X
      BY <2>2, <3>1
    <3>3. f0[k + 1] = Grown(f0[k])
      BY <1>7, <3>1
    <3> QED BY <3>2, <3>3 DEF Grown
  <2> HIDE DEF T
  <2>3. Nat \subseteq T
    BY <2>1, <2>2, SetInduction
  <2> HIDE DEF X
  <2> QED BY <1>1, <2>3 DEF T
<1> QED BY <1>2, <1>6, <1>7, <1>8 DEF Grown, n

-----------------------------------------------------------------------------
Busy == {"mark", "read", "edge", "cae", "add"}
Scanning == {"edge", "cae", "add"}
ThreadLabels == {"start", "barrier", "while", "remove", "done"} \cup Busy

BfsTypeOK ==
  /\ Static
  /\ distances \in [AllVertices -> Nat]
  /\ queue \in [SubQueues -> Seq(AllVertices)]
  /\ pc \in [0..NumThreads -> ThreadLabels \cup {"join", "report"}]
  /\ \A t \in Threads : pc[t] \in ThreadLabels
  /\ pc[Main] \in {"join", "report"}
  /\ seen \in [Threads -> SUBSET SubQueues]
  /\ current \in [Threads -> Nat]
  /\ current_distance \in [Threads -> Nat]
  /\ i \in [Threads -> Nat \ {0}]
  /\ distance \in [Threads -> Nat]
  /\ failures \in [Threads -> Nat]

\* Before the barrier: only the root has a distance, and only thread 0 has added it.
Starting ==
  /\ \A t \in Threads : pc[t] \in {"start", "barrier"}
  /\ pc[Main] = "join"
  /\ \A v \in AllVertices \ {Root} : distances[v] = Infinity
  /\ \A t \in Threads : pc[t] = "barrier" => distances[Root] = 0
  /\ pc[0] = "start" => queue = [s \in SubQueues |-> <<>>]
  /\ pc[0] = "barrier" => queue = [s \in SubQueues |-> IF s = 1 THEN <<Root>> ELSE <<>>]
  /\ \A t \in Threads : failures[t] = 0 /\ seen[t] = {}

Near(d, in, k) == {x \in 1..in.n : d[x] <= k}

\* k is the length of a way to v, and no more than the other vertices allow.
Reachable(d, in, v, k) ==
  k < in.n /\ v \in Ball(in)[k] /\ Cardinality(Near(d, in, k)) >= k + 1

SoundInv ==
  /\ \A v \in AllVertices : distances[v] # Infinity => Reachable(distances, input, v, distances[v])
  /\ \A s \in SubQueues : \A k \in DOMAIN queue[s] : distances[queue[s][k]] # Infinity

LocalInv(t) ==
  /\ pc[t] \in Busy => /\ current[t] \in AllVertices
                       /\ distances[current[t]] # Infinity
                       /\ seen[t] = {}
  /\ pc[t] \in Scanning => Reachable(distances, input, current[t], current_distance[t])
  /\ pc[t] \in {"cae", "add"} => i[t] \in DOMAIN Nbrs(current[t])
  /\ pc[t] = "cae" => distances[Nbrs(current[t])[i[t]]] <= distance[t]
  /\ pc[t] = "add" => distances[Nbrs(current[t])[i[t]]] <= current_distance[t] + 1

\* t will still try to lower the distance of w from v.
WillLower(t, v, w) ==
  \/ pc[t] = "add" /\ Nbrs(current[t])[i[t]] = v
  \/ pc[t] \in {"mark", "read"} /\ current[t] = v
  \/ /\ pc[t] \in Scanning
     /\ current[t] = v
     /\ current_distance[t] = distances[v]
     /\ \E j \in DOMAIN Nbrs(v) : j >= i[t] /\ Nbrs(v)[j] = w

WorkInv ==
  \A v, w \in AllVertices :
    Arc(input, v, w) /\ CanLower(v, w) => Queued(v) \/ \E t \in Threads : WillLower(t, v, w)

\* t has not yet given up on sub-queue s.
Looks(t, s) == \/ pc[t] \in Busy
               \/ pc[t] = "remove" /\ s \notin seen[t]
               \/ pc[t] = "while" /\ failures[t] = 0

QuiesceInv == \A s \in SubQueues : queue[s] # <<>> => \E t \in Threads : Looks(t, s)

ReportInv ==
  pc[Main] = "report" => /\ \A t \in Threads : pc[t] = "done"
                         /\ visited = Cardinality(Reached)
                         /\ total = SumFunctionOnSet(distances, Reached)

Searching ==
  /\ \A t \in Threads : pc[t] \notin {"start", "barrier"}
  /\ distances[Root] = 0
  /\ SoundInv
  /\ \A t \in Threads : LocalInv(t)
  /\ WorkInv
  /\ QuiesceInv
  /\ ReportInv

BfsInv == BfsTypeOK /\ (Starting \/ Searching)

-----------------------------------------------------------------------------
LEMMA BallMonotone ==
  ASSUME NEW in \in Inputs, NEW j \in 0..in.n, NEW k \in 0..in.n, j <= k
  PROVE  Ball(in)[j] \subseteq Ball(in)[k]
<1> DEFINE T == {m \in Nat : j + m <= in.n => Ball(in)[j] \subseteq Ball(in)[j + m]}
<1>1. in.n \in Nat
  BY BfsAssumption
<1>2. 0 \in T
  BY <1>1
<1>3. ASSUME NEW m \in Nat, m \in T PROVE m + 1 \in T
  <2> SUFFICES ASSUME j + (m + 1) <= in.n PROVE Ball(in)[j] \subseteq Ball(in)[j + (m + 1)]
    OBVIOUS
  <2>1. j + m <= in.n /\ j + (m + 1) \in 1..in.n /\ j + (m + 1) - 1 = j + m
    BY <1>1
  <2>2. Ball(in)[j + m] \subseteq Ball(in)[j + (m + 1)]
    BY <2>1, BallSteps
  <2> QED BY <1>3, <2>1, <2>2
<1> HIDE DEF T
<1>4. Nat \subseteq T
  BY <1>2, <1>3, SetInduction
<1>5. k - j \in Nat /\ j + (k - j) = k /\ k <= in.n
  BY <1>1
<1> QED BY <1>4, <1>5 DEF T

\* When nobody can lower a distance any more, the distances are those of the graph.
LEMMA SettledExact ==
  ASSUME BfsTypeOK, SoundInv, distances[Root] = 0,
         \A v, w \in AllVertices : Arc(input, v, w) => ~ CanLower(v, w)
  PROVE  /\ \A v \in AllVertices : distances[v] = TrueDistance(v)
         /\ Reached = Ball(input)[input.n]
<1> DEFINE n == input.n
<1>1. /\ input \in Inputs /\ n \in Nat \ {0} /\ n < Infinity /\ Infinity \in Nat
      /\ AllVertices = 1..n /\ Root \in 1..n /\ distances \in [1..n -> Nat]
  BY BfsAssumption DEF BfsTypeOK, Static, AllVertices
<1> HIDE DEF n
<1>2. \A k \in 0..n : \A v \in Ball(input)[k] : v \in 1..n /\ distances[v] <= k
  <2> DEFINE T == {k \in Nat : k <= n => \A v \in Ball(input)[k] : v \in 1..n /\ distances[v] <= k}
  <2>1. 0 \in T
    BY <1>1, BallSteps
  <2>2. ASSUME NEW k \in Nat, k \in T PROVE k + 1 \in T
    <3> SUFFICES ASSUME k + 1 <= n, NEW w \in Ball(input)[k + 1]
                 PROVE  w \in 1..n /\ distances[w] <= k + 1
      OBVIOUS
    <3>1. k <= n /\ k + 1 \in 1..n /\ (k + 1) - 1 = k
      BY <1>1
    <3>2. \A v \in Ball(input)[k] : v \in 1..n /\ distances[v] <= k
      BY <2>2, <3>1
    <3>3. CASE w \in Ball(input)[k]
      BY <1>1, <3>2, <3>3
    <3>4. CASE w \in 1..n /\ \E v \in Ball(input)[k] : Arc(input, v, w)
      <4>1. PICK v \in Ball(input)[k] : Arc(input, v, w)
        BY <3>4
      <4>2. v \in 1..n /\ distances[v] <= k /\ distances[v] \in Nat /\ distances[w] \in Nat
        BY <1>1, <3>2, <3>4
      <4>3. distances[v] # Infinity
        BY <1>1, <3>1, <4>2
      <4>4. ~ CanLower(v, w)
        BY <1>1, <3>4, <4>1, <4>2
      <4> QED BY <3>4, <4>2, <4>3, <4>4 DEF CanLower
    <3>5. Ball(input)[k + 1] = Ball(input)[k] \cup {x \in 1..n : \E v \in Ball(input)[k] : Arc(input, v, x)}
      BY <1>1, <3>1, BallSteps DEF n
    <3> QED BY <3>3, <3>4, <3>5
  <2> HIDE DEF T
  <2>3. Nat \subseteq T
    BY <2>1, <2>2, SetInduction
  <2> QED BY <1>1, <2>3 DEF T
<1>3. ASSUME NEW v \in 1..n, distances[v] # Infinity
      PROVE  /\ distances[v] \in 0..n /\ distances[v] < n
             /\ v \in Ball(input)[distances[v]]
             /\ v \in Ball(input)[n]
  <2>1. Reachable(distances, input, v, distances[v])
    BY <1>1, <1>3 DEF SoundInv
  <2>2. distances[v] \in Nat /\ distances[v] < n /\ v \in Ball(input)[distances[v]]
    BY <1>1, <2>1 DEF Reachable, n
  <2>3. distances[v] \in 0..n /\ n \in 0..n /\ distances[v] <= n
    BY <1>1, <2>2
  <2>4. Ball(input)[distances[v]] \subseteq Ball(input)[n]
    BY <1>1, <2>3, BallMonotone DEF n
  <2> QED BY <2>2, <2>3, <2>4
<1>4. ASSUME NEW v \in 1..n, distances[v] = Infinity PROVE v \notin Ball(input)[n]
  BY <1>1, <1>2, <1>4
<1>5. ASSUME NEW v \in 1..n PROVE distances[v] = TrueDistance(v)
  <2>1. CASE distances[v] = Infinity
    BY <1>4, <2>1 DEF TrueDistance, n
  <2>2. CASE distances[v] # Infinity
    <3> DEFINE d == distances[v]
    <3>1. d \in 0..n /\ d < n /\ v \in Ball(input)[d] /\ v \in Ball(input)[n]
      BY <1>3, <2>2
    <3> HIDE DEF d
    <3>2. IsFewest(input, v, d)
      <4> SUFFICES ASSUME d > 0, v \in Ball(input)[d - 1] PROVE FALSE
        BY <3>1 DEF IsFewest
      <4>1. d - 1 \in 0..n
        BY <1>1, <3>1
      <4>2. d <= d - 1
        BY <1>2, <4>1 DEF d
      <4> QED BY <3>1, <4>2
    <3>3. ASSUME NEW k \in 0..n, IsFewest(input, v, k) PROVE k = d
      <4>1. v \in Ball(input)[k] /\ (k > 0 => v \notin Ball(input)[k - 1])
        BY <3>3 DEF IsFewest
      <4>2. d <= k
        BY <1>2, <4>1 DEF d
      <4>3. ASSUME k > d PROVE FALSE
        <5>1. k - 1 \in 0..n /\ d <= k - 1 /\ k > 0
          BY <1>1, <3>1, <4>3
        <5>2. Ball(input)[d] \subseteq Ball(input)[k - 1]
          BY <1>1, <3>1, <5>1, BallMonotone DEF n
        <5> QED BY <3>1, <4>1, <5>1, <5>2
      <4> QED BY <1>1, <3>1, <4>2, <4>3
    <3>4. (CHOOSE k \in 0..n : IsFewest(input, v, k)) = d
      BY <3>1, <3>2, <3>3
    <3> QED BY <3>1, <3>4 DEF TrueDistance, n, d
  <2> QED BY <2>1, <2>2
<1>6. Reached = Ball(input)[n]
  <2>1. n \in 0..n
    BY <1>1
  <2>2. Ball(input)[n] \subseteq 1..n
    BY <1>2, <2>1
  <2> QED BY <1>1, <1>3, <1>4, <2>2 DEF Reached
<1> QED BY <1>1, <1>5, <1>6 DEF n

\* Once every thread is done, the queue is empty and nobody holds a vertex.
LEMMA DoneSettled ==
  ASSUME BfsTypeOK, WorkInv, QuiesceInv, \A t \in Threads : pc[t] = "done"
  PROVE  \A v, w \in AllVertices : Arc(input, v, w) => ~ CanLower(v, w)
<1>1. \A s \in SubQueues : queue[s] = <<>>
  BY DEF QuiesceInv, Looks, Busy
<1>2. \A v \in AllVertices : ~ Queued(v)
  <2>1. \A s \in SubQueues : DOMAIN queue[s] = {}
    BY <1>1
  <2> QED BY <2>1 DEF Queued
<1>3. \A v, w \in AllVertices : \A t \in Threads : ~ WillLower(t, v, w)
  BY DEF WillLower, Scanning
<1> QED BY <1>2, <1>3 DEF WorkInv

\* The invariant contains both properties of Bfs.
LEMMA BfsInvImpliesExact ==
  ASSUME BfsInv
  PROVE  DistancesExact
<1> SUFFICES ASSUME pc[Main] = "report"
             PROVE  /\ \A v \in AllVertices : distances[v] = TrueDistance(v)
                    /\ visited = Cardinality(Ball(input)[input.n])
                    /\ total = SumFunctionOnSet([v \in AllVertices |-> TrueDistance(v)],
                                                Ball(input)[input.n])
  BY DEF DistancesExact
<1>1. BfsTypeOK /\ Searching
  BY DEF BfsInv, Starting
<1>2. /\ \A v \in AllVertices : distances[v] = TrueDistance(v)
      /\ Reached = Ball(input)[input.n]
  BY <1>1, DoneSettled, SettledExact DEF Searching, ReportInv
<1>3. [v \in AllVertices |-> TrueDistance(v)] = distances
  <2>1. distances = [v \in AllVertices |-> distances[v]]
    BY <1>1 DEF BfsTypeOK
  <2> QED BY <1>2, <2>1
<1> QED BY <1>1, <1>2, <1>3 DEF Searching, ReportInv

\* The invariant contains Bfs!WorkPending.
LEMMA BfsInvImpliesPending ==
  ASSUME BfsInv
  PROVE  WorkPending
<1> SUFFICES ASSUME pc[Main] = "join", \A t \in Threads : pc[t] \notin {"start", "barrier"},
                    NEW v \in AllVertices, NEW w \in AllVertices, Arc(input, v, w), CanLower(v, w)
             PROVE  Queued(v) \/ Held(v)
  <2>1. \A k \in DOMAIN input.edges : input.edges[k] \in AllVertices \X AllVertices
    <3>1. input.edges \in Seq(AllVertices \X AllVertices)
      BY BfsAssumption DEF BfsInv, BfsTypeOK, Static, AllVertices
    <3> QED BY <3>1
  <2>2. ASSUME NEW k \in DOMAIN input.edges
        PROVE  LET a == input.edges[k][1]
                   b == input.edges[k][2]
               IN  /\ a \in AllVertices /\ b \in AllVertices
                   /\ Arc(input, a, b)
                   /\ ~ input.directed => Arc(input, b, a)
    <3>1. input.edges[k] = <<input.edges[k][1], input.edges[k][2]>>
          /\ input.edges[k][1] \in AllVertices /\ input.edges[k][2] \in AllVertices
      BY <2>1
    <3> QED BY <3>1 DEF Arc
  <2> QED BY <2>2 DEF WorkPending
<1>1. Searching
  <2>1. 0 \in Threads
    BY BfsAssumption DEF Threads
  <2> QED BY <2>1 DEF BfsInv, Starting
<1>2. CASE \E t \in Threads : WillLower(t, v, w)
  BY <1>2 DEF WillLower, Held, Scanning, Nbrs, Neighbors
<1> QED BY <1>1, <1>2 DEF Searching, WorkInv

-----------------------------------------------------------------------------
\* The invariant holds when main has read the graph.
LEMMA InitInv == Init => BfsInv
<1> SUFFICES ASSUME Init PROVE BfsInv
  OBVIOUS
<1> USE BfsAssumption
<1>1. BfsTypeOK
  BY DEF Init, BfsTypeOK, Static, ForThreads, Threads, Main, ThreadLabels
<1>2. Starting
  BY DEF Init, Starting, ForThreads, Threads, Main
<1> QED BY <1>1, <1>2 DEF BfsInv

PcType == pc \in [0..NumThreads -> ThreadLabels \cup {"join", "report"}]

\* What a step of one thread does to the places of all.
LEMMA GotoFacts ==
  ASSUME PcType, NEW t \in Threads, NEW from, NEW to \in ThreadLabels, Goto(t, from, to)
  PROVE  /\ PcType' /\ pc'[Main] = pc[Main]
         /\ pc[t] = from /\ pc'[t] = to
         /\ \A u \in Threads \ {t} : pc'[u] = pc[u]
<1>1. /\ t \in 0..NumThreads /\ Main \in 0..NumThreads /\ Main # t
      /\ Threads \subseteq 0..NumThreads
  BY BfsAssumption DEF Threads, Main
<1> QED BY <1>1 DEF PcType, Goto

Same(t, f, h) == \A u \in Threads \ {t} : h[u] = f[u]

\* What a step of thread t leaves alone of the others.
OthersSame(t) ==
  /\ pc'[Main] = pc[Main] /\ Same(t, pc, pc')
  /\ Same(t, seen, seen') /\ Same(t, current, current')
  /\ Same(t, current_distance, current_distance') /\ Same(t, i, i')
  /\ Same(t, distance, distance') /\ Same(t, failures, failures')

GraphSame == /\ UNCHANGED graphVars
             /\ AllVertices' = AllVertices /\ SubQueues' = SubQueues
             /\ \A v : Nbrs(v)' = Nbrs(v)

\* The graph does not change after main has read it.
LEMMA GraphKept ==
  ASSUME UNCHANGED graphVars PROVE GraphSame
BY DEF graphVars, GraphSame, AllVertices, SubQueues, Nbrs

Locals == /\ seen \in [Threads -> SUBSET SubQueues]
          /\ current \in [Threads -> Nat]
          /\ current_distance \in [Threads -> Nat]
          /\ i \in [Threads -> Nat \ {0}]
          /\ distance \in [Threads -> Nat]
          /\ failures \in [Threads -> Nat]

LocalsSame(t) ==
  /\ Same(t, seen, seen') /\ Same(t, current, current')
  /\ Same(t, current_distance, current_distance') /\ Same(t, i, i')
  /\ Same(t, distance, distance') /\ Same(t, failures, failures')

\* The parts of a step's type correctness, put together.
LEMMA TypeParts ==
  ASSUME BfsTypeOK, NEW t \in Threads, UNCHANGED graphVars,
         \E from, to \in ThreadLabels : Goto(t, from, to),
         Locals', LocalsSame(t),
         distances' \in [AllVertices -> Nat], queue' \in [SubQueues -> Seq(AllVertices)]
  PROVE  BfsTypeOK' /\ OthersSame(t) /\ GraphSame
<1>1. GraphSame
  BY GraphKept
<1>2. Static'
  BY DEF BfsTypeOK, Static, graphVars
<1>3. PcType' /\ pc'[Main] = pc[Main] /\ Same(t, pc, pc') /\ pc'[t] \in ThreadLabels
  <2>1. PcType
    BY DEF BfsTypeOK, PcType
  <2>2. PICK from, to \in ThreadLabels : Goto(t, from, to)
    OBVIOUS
  <2> QED BY <2>1, <2>2, GotoFacts DEF Same
<1>4. \A u \in Threads : pc'[u] \in ThreadLabels
  BY <1>3 DEF BfsTypeOK, Same
<1>5. OthersSame(t)
  BY <1>3 DEF OthersSame, LocalsSame
<1>6. AllVertices' = AllVertices /\ SubQueues' = SubQueues
  BY <1>1 DEF GraphSame
<1> QED BY <1>1, <1>2, <1>3, <1>4, <1>5, <1>6 DEF BfsTypeOK, PcType, Locals

\* The vertex a thread works on and the neighbour it looks at are vertices.
LEMMA VertexUse ==
  ASSUME BfsTypeOK, GraphOK, NEW t \in Threads, LocalInv(t)
  PROVE  /\ pc[t] \in Busy => /\ current[t] \in AllVertices
                              /\ distances[current[t]] \in Nat
                              /\ Neighbors(t) \in Seq(AllVertices)
                              /\ Len(Neighbors(t)) \in Nat
                              /\ DOMAIN Neighbors(t) = 1..Len(Neighbors(t))
         /\ pc[t] \in {"cae", "add"} => i[t] \in DOMAIN Neighbors(t)
         /\ pc[t] \in Busy /\ i[t] \in DOMAIN Neighbors(t) =>
              /\ Neighbors(t)[i[t]] \in AllVertices
              /\ distances[Neighbors(t)[i[t]]] \in Nat
<1>1. Neighbors(t) = Nbrs(current[t])
  BY DEF Neighbors, Nbrs
<1>2. pc[t] \in Busy => current[t] \in AllVertices
  BY DEF LocalInv
<1>3. ASSUME pc[t] \in Busy PROVE Neighbors(t) \in Seq(AllVertices)
  <2>1. PICK m \in Nat : DOMAIN Nbrs(current[t]) = 1..m
    BY <1>2, <1>3 DEF GraphOK
  <2>2. \A j \in 1..m : Nbrs(current[t])[j] \in AllVertices
    BY <1>2, <1>3, <2>1 DEF GraphOK
  <2>3. Nbrs(current[t]) = [j \in 1..m |-> Nbrs(current[t])[j]]
    BY <2>1 DEF Nbrs, get_neighbors
  <2> QED BY <1>1, <2>2, <2>3
<1>4. pc[t] \in {"cae", "add"} => i[t] \in DOMAIN Neighbors(t)
  BY <1>1 DEF LocalInv
<1> QED BY <1>2, <1>3, <1>4 DEF BfsTypeOK

\* The steps of a thread keep the types.
LEMMA StartType ==
  ASSUME BfsTypeOK, GraphOK, NEW t \in Threads, LocalInv(t), Start(t)
  PROVE  BfsTypeOK' /\ OthersSame(t) /\ GraphSame
<1>1. UNCHANGED graphVars /\ SubQueues' = SubQueues
  BY GraphKept DEF Start, GraphSame
<1>2. \E from, to \in ThreadLabels : Goto(t, from, to)
  BY DEF Start, ThreadLabels, Busy
<1>3. seen' \in [Threads -> SUBSET SubQueues] /\ Same(t, seen, seen')
  BY DEF Start, BfsTypeOK, Same, localVars
<1>4. current' \in [Threads -> Nat] /\ Same(t, current, current')
  BY DEF Start, BfsTypeOK, Same, localVars
<1>5. current_distance' \in [Threads -> Nat] /\ Same(t, current_distance, current_distance')
  BY DEF Start, BfsTypeOK, Same, localVars
<1>6. i' \in [Threads -> Nat \ {0}] /\ Same(t, i, i')
  BY DEF Start, BfsTypeOK, Same, localVars
<1>7. distance' \in [Threads -> Nat] /\ Same(t, distance, distance')
  BY DEF Start, BfsTypeOK, Same, localVars
<1>8. failures' \in [Threads -> Nat] /\ Same(t, failures, failures')
  BY DEF Start, BfsTypeOK, Same, localVars
<1>9. distances' \in [AllVertices -> Nat]
  BY BfsAssumption DEF Start, BfsTypeOK, Static, AllVertices
<1>10. queue' \in [SubQueues -> Seq(AllVertices)]
  <2>1. 1 \in SubQueues
    BY BfsAssumption DEF BfsTypeOK, Static, SubQueues
  <2>2. <<Root>> \in Seq(AllVertices)
    <3>1. Root \in AllVertices
      BY BfsAssumption DEF BfsTypeOK, Static, AllVertices
    <3> QED BY <3>1
  <2> QED BY <2>1, <2>2 DEF Start, BfsTypeOK
<1>11. Locals' /\ LocalsSame(t)
  BY <1>1, <1>3, <1>4, <1>5, <1>6, <1>7, <1>8 DEF Locals, LocalsSame
<1> QED BY <1>1, <1>2, <1>9, <1>10, <1>11, TypeParts

\* Each step of the search keeps the types, here the test of the outer loop.
LEMMA WhileType ==
  ASSUME BfsTypeOK, GraphOK, NEW t \in Threads, LocalInv(t), While(t)
  PROVE  BfsTypeOK' /\ OthersSame(t) /\ GraphSame
<1>1. UNCHANGED graphVars /\ SubQueues' = SubQueues
  BY GraphKept DEF While, GraphSame
<1>2. \E from, to \in ThreadLabels : Goto(t, from, to)
  BY DEF While, ThreadLabels, Busy
<1>3. seen' \in [Threads -> SUBSET SubQueues] /\ Same(t, seen, seen')
  <2>1. {} \in SUBSET SubQueues
    BY DEF SubQueues
  <2>2. seen' = Set(seen, t, {})
    BY DEF While
  <2> QED BY <2>1, <2>2 DEF BfsTypeOK, Set, Same
<1>4. current' \in [Threads -> Nat] /\ Same(t, current, current')
  BY DEF While, BfsTypeOK, Same, localVars
<1>5. current_distance' \in [Threads -> Nat] /\ Same(t, current_distance, current_distance')
  BY DEF While, BfsTypeOK, Same, localVars
<1>6. i' \in [Threads -> Nat \ {0}] /\ Same(t, i, i')
  BY DEF While, BfsTypeOK, Same, localVars
<1>7. distance' \in [Threads -> Nat] /\ Same(t, distance, distance')
  BY DEF While, BfsTypeOK, Same, localVars
<1>8. failures' \in [Threads -> Nat] /\ Same(t, failures, failures')
  BY DEF While, BfsTypeOK, Same, localVars
<1>9. distances' \in [AllVertices -> Nat]
  BY DEF While, BfsTypeOK
<1>10. queue' \in [SubQueues -> Seq(AllVertices)]
  BY DEF While, BfsTypeOK
<1>11. Locals' /\ LocalsSame(t)
  BY <1>1, <1>3, <1>4, <1>5, <1>6, <1>7, <1>8 DEF Locals, LocalsSame
<1> QED BY <1>1, <1>2, <1>9, <1>10, <1>11, TypeParts

\* The types, when a vertex is taken.
LEMMA TakeType ==
  ASSUME BfsTypeOK, GraphOK, NEW t \in Threads, LocalInv(t), Take(t)
  PROVE  BfsTypeOK' /\ OthersSame(t) /\ GraphSame
<1>1. UNCHANGED graphVars /\ SubQueues' = SubQueues
  BY GraphKept DEF Take, GraphSame
<1>2. \E from, to \in ThreadLabels : Goto(t, from, to)
  BY DEF Take, ThreadLabels, Busy
<1> PICK s \in SubQueues \ seen[t] : /\ queue[s] # <<>>
                                    /\ current' = Set(current, t, Head(queue[s]))
                                    /\ queue' = [queue EXCEPT ![s] = Tail(@)]
  BY DEF Take
<1>20. Head(queue[s]) \in AllVertices /\ Tail(queue[s]) \in Seq(AllVertices)
  BY DEF BfsTypeOK
<1>3. seen' \in [Threads -> SUBSET SubQueues] /\ Same(t, seen, seen')
  <2>1. {} \in SUBSET SubQueues
    BY DEF SubQueues
  <2>2. seen' = Set(seen, t, {})
    BY DEF Take
  <2> QED BY <2>1, <2>2 DEF BfsTypeOK, Set, Same
<1>4. current' \in [Threads -> Nat] /\ Same(t, current, current')
  <2>1. Head(queue[s]) \in Nat
    BY <1>20, BfsAssumption DEF BfsTypeOK, Static, AllVertices
  <2> QED BY <2>1 DEF BfsTypeOK, Set, Same
<1>5. current_distance' \in [Threads -> Nat] /\ Same(t, current_distance, current_distance')
  BY DEF Take, BfsTypeOK, Same, localVars
<1>6. i' \in [Threads -> Nat \ {0}] /\ Same(t, i, i')
  BY DEF Take, BfsTypeOK, Same, localVars
<1>7. distance' \in [Threads -> Nat] /\ Same(t, distance, distance')
  BY DEF Take, BfsTypeOK, Same, localVars
<1>8. failures' \in [Threads -> Nat] /\ Same(t, failures, failures')
  BY DEF Take, BfsTypeOK, Same, localVars
<1>9. distances' \in [AllVertices -> Nat]
  BY DEF Take, BfsTypeOK
<1>10. queue' \in [SubQueues -> Seq(AllVertices)]
  BY <1>20 DEF BfsTypeOK
<1>11. Locals' /\ LocalsSame(t)
  BY <1>1, <1>3, <1>4, <1>5, <1>6, <1>7, <1>8 DEF Locals, LocalsSame
<1> QED BY <1>1, <1>2, <1>9, <1>10, <1>11, TypeParts

\* The types, when nothing is found.
LEMMA MissType ==
  ASSUME BfsTypeOK, GraphOK, NEW t \in Threads, LocalInv(t), Miss(t)
  PROVE  BfsTypeOK' /\ OthersSame(t) /\ GraphSame
<1>1. UNCHANGED graphVars /\ SubQueues' = SubQueues
  BY GraphKept DEF Miss, GraphSame
<1>2. \E from, to \in ThreadLabels : Goto(t, from, to)
  BY DEF Miss, ThreadLabels, Busy
<1> PICK s \in SubQueues \ seen[t] : seen' = Set(seen, t, seen[t] \cup {s})
  BY DEF Miss
<1>3. seen' \in [Threads -> SUBSET SubQueues] /\ Same(t, seen, seen')
  <2>1. seen[t] \cup {s} \in SUBSET SubQueues
    BY DEF BfsTypeOK
  <2> QED BY <2>1 DEF BfsTypeOK, Set, Same
<1>4. current' \in [Threads -> Nat] /\ Same(t, current, current')
  BY DEF Miss, BfsTypeOK, Same, localVars
<1>5. current_distance' \in [Threads -> Nat] /\ Same(t, current_distance, current_distance')
  BY DEF Miss, BfsTypeOK, Same, localVars
<1>6. i' \in [Threads -> Nat \ {0}] /\ Same(t, i, i')
  BY DEF Miss, BfsTypeOK, Same, localVars
<1>7. distance' \in [Threads -> Nat] /\ Same(t, distance, distance')
  BY DEF Miss, BfsTypeOK, Same, localVars
<1>8. failures' \in [Threads -> Nat] /\ Same(t, failures, failures')
  BY DEF Miss, BfsTypeOK, Same, localVars
<1>9. distances' \in [AllVertices -> Nat]
  BY DEF Miss, BfsTypeOK
<1>10. queue' \in [SubQueues -> Seq(AllVertices)]
  BY DEF Miss, BfsTypeOK
<1>11. Locals' /\ LocalsSame(t)
  BY <1>1, <1>3, <1>4, <1>5, <1>6, <1>7, <1>8 DEF Locals, LocalsSame
<1> QED BY <1>1, <1>2, <1>9, <1>10, <1>11, TypeParts

\* The types, when a thread is active again.
LEMMA MarkActiveType ==
  ASSUME BfsTypeOK, GraphOK, NEW t \in Threads, LocalInv(t), MarkActive(t)
  PROVE  BfsTypeOK' /\ OthersSame(t) /\ GraphSame
<1>1. UNCHANGED graphVars /\ SubQueues' = SubQueues
  BY GraphKept DEF MarkActive, GraphSame
<1>2. \E from, to \in ThreadLabels : Goto(t, from, to)
  BY DEF MarkActive, ThreadLabels, Busy
<1>3. seen' \in [Threads -> SUBSET SubQueues] /\ Same(t, seen, seen')
  BY DEF MarkActive, BfsTypeOK, Same, localVars
<1>4. current' \in [Threads -> Nat] /\ Same(t, current, current')
  BY DEF MarkActive, BfsTypeOK, Same, localVars
<1>5. current_distance' \in [Threads -> Nat] /\ Same(t, current_distance, current_distance')
  BY DEF MarkActive, BfsTypeOK, Same, localVars
<1>6. i' \in [Threads -> Nat \ {0}] /\ Same(t, i, i')
  BY DEF MarkActive, BfsTypeOK, Same, localVars
<1>7. distance' \in [Threads -> Nat] /\ Same(t, distance, distance')
  BY DEF MarkActive, BfsTypeOK, Same, localVars
<1>8. failures' \in [Threads -> Nat] /\ Same(t, failures, failures')
  <2>1. 0 \in Nat
    BY DEF Threads
  <2>2. failures' = Set(failures, t, 0)
    BY DEF MarkActive
  <2> QED BY <2>1, <2>2 DEF BfsTypeOK, Set, Same
<1>9. distances' \in [AllVertices -> Nat]
  BY DEF MarkActive, BfsTypeOK
<1>10. queue' \in [SubQueues -> Seq(AllVertices)]
  BY DEF MarkActive, BfsTypeOK
<1>11. Locals' /\ LocalsSame(t)
  BY <1>1, <1>3, <1>4, <1>5, <1>6, <1>7, <1>8 DEF Locals, LocalsSame
<1> QED BY <1>1, <1>2, <1>9, <1>10, <1>11, TypeParts

\* The types, when the distance of the vertex is read.
LEMMA ReadDistanceType ==
  ASSUME BfsTypeOK, GraphOK, NEW t \in Threads, LocalInv(t), ReadDistance(t)
  PROVE  BfsTypeOK' /\ OthersSame(t) /\ GraphSame
<1>1. UNCHANGED graphVars /\ SubQueues' = SubQueues
  BY GraphKept DEF ReadDistance, GraphSame
<1>2. \E from, to \in ThreadLabels : Goto(t, from, to)
  BY DEF ReadDistance, ThreadLabels, Busy
<1>3. seen' \in [Threads -> SUBSET SubQueues] /\ Same(t, seen, seen')
  BY DEF ReadDistance, BfsTypeOK, Same, localVars
<1>4. current' \in [Threads -> Nat] /\ Same(t, current, current')
  BY DEF ReadDistance, BfsTypeOK, Same, localVars
<1>5. current_distance' \in [Threads -> Nat] /\ Same(t, current_distance, current_distance')
  <2>1. distances[current[t]] \in Nat
    BY VertexUse DEF ReadDistance, Goto, Busy
  <2>2. current_distance' = Set(current_distance, t, distances[current[t]])
    BY DEF ReadDistance
  <2> QED BY <2>1, <2>2 DEF BfsTypeOK, Set, Same
<1>6. i' \in [Threads -> Nat \ {0}] /\ Same(t, i, i')
  <2>1. 1 \in Nat \ {0}
    BY DEF Threads
  <2>2. i' = Set(i, t, 1)
    BY DEF ReadDistance
  <2> QED BY <2>1, <2>2 DEF BfsTypeOK, Set, Same
<1>7. distance' \in [Threads -> Nat] /\ Same(t, distance, distance')
  BY DEF ReadDistance, BfsTypeOK, Same, localVars
<1>8. failures' \in [Threads -> Nat] /\ Same(t, failures, failures')
  BY DEF ReadDistance, BfsTypeOK, Same, localVars
<1>9. distances' \in [AllVertices -> Nat]
  BY DEF ReadDistance, BfsTypeOK
<1>10. queue' \in [SubQueues -> Seq(AllVertices)]
  BY DEF ReadDistance, BfsTypeOK
<1>11. Locals' /\ LocalsSame(t)
  BY <1>1, <1>3, <1>4, <1>5, <1>6, <1>7, <1>8 DEF Locals, LocalsSame
<1> QED BY <1>1, <1>2, <1>9, <1>10, <1>11, TypeParts

\* The types, when the next neighbour is read.
LEMMA EdgeType ==
  ASSUME BfsTypeOK, GraphOK, NEW t \in Threads, LocalInv(t), Edge(t)
  PROVE  BfsTypeOK' /\ OthersSame(t) /\ GraphSame
<1>1. UNCHANGED graphVars /\ SubQueues' = SubQueues
  BY GraphKept DEF Edge, GraphSame
<1>2. \E from, to \in ThreadLabels : Goto(t, from, to)
  BY DEF Edge, ThreadLabels, Busy
<1>3. seen' \in [Threads -> SUBSET SubQueues] /\ Same(t, seen, seen')
  BY DEF Edge, BfsTypeOK, Same, localVars
<1>4. current' \in [Threads -> Nat] /\ Same(t, current, current')
  BY DEF Edge, BfsTypeOK, Same, localVars
<1>5. current_distance' \in [Threads -> Nat] /\ Same(t, current_distance, current_distance')
  BY DEF Edge, BfsTypeOK, Same, localVars
<1>6. i' \in [Threads -> Nat \ {0}] /\ Same(t, i, i')
  BY DEF Edge, BfsTypeOK, Same, localVars
<1>7. distance' \in [Threads -> Nat] /\ Same(t, distance, distance')
  <2>1. CASE /\ i[t] <= Len(Neighbors(t)) /\ pc[t] = "edge"
             /\ distance' = Set(distance, t, distances[Neighbors(t)[i[t]]])
    <3>1. i[t] \in 1..Len(Neighbors(t))
      BY <2>1, VertexUse DEF BfsTypeOK, Busy
    <3>2. distances[Neighbors(t)[i[t]]] \in Nat
      BY <2>1, <3>1, VertexUse DEF Busy
    <3> QED BY <2>1, <3>2 DEF BfsTypeOK, Set, Same
  <2>2. CASE distance' = distance
    BY <2>2 DEF BfsTypeOK, Same
  <2> QED BY <2>1, <2>2 DEF Edge, Goto, localVars
<1>8. failures' \in [Threads -> Nat] /\ Same(t, failures, failures')
  BY DEF Edge, BfsTypeOK, Same, localVars
<1>9. distances' \in [AllVertices -> Nat]
  BY DEF Edge, BfsTypeOK
<1>10. queue' \in [SubQueues -> Seq(AllVertices)]
  BY DEF Edge, BfsTypeOK
<1>11. Locals' /\ LocalsSame(t)
  BY <1>1, <1>3, <1>4, <1>5, <1>6, <1>7, <1>8 DEF Locals, LocalsSame
<1> QED BY <1>1, <1>2, <1>9, <1>10, <1>11, TypeParts

\* The types, when the neighbour is near enough.
LEMMA NotLowerType ==
  ASSUME BfsTypeOK, GraphOK, NEW t \in Threads, LocalInv(t), NotLower(t)
  PROVE  BfsTypeOK' /\ OthersSame(t) /\ GraphSame
<1>1. UNCHANGED graphVars /\ SubQueues' = SubQueues
  BY GraphKept DEF NotLower, GraphSame
<1>2. \E from, to \in ThreadLabels : Goto(t, from, to)
  BY DEF NotLower, ThreadLabels, Busy
<1>3. seen' \in [Threads -> SUBSET SubQueues] /\ Same(t, seen, seen')
  BY DEF NotLower, BfsTypeOK, Same, localVars
<1>4. current' \in [Threads -> Nat] /\ Same(t, current, current')
  BY DEF NotLower, BfsTypeOK, Same, localVars
<1>5. current_distance' \in [Threads -> Nat] /\ Same(t, current_distance, current_distance')
  BY DEF NotLower, BfsTypeOK, Same, localVars
<1>6. i' \in [Threads -> Nat \ {0}] /\ Same(t, i, i')
  <2>1. i[t] + 1 \in Nat \ {0}
    BY DEF BfsTypeOK
  <2>2. i' = Set(i, t, i[t] + 1)
    BY DEF NotLower
  <2> QED BY <2>1, <2>2 DEF BfsTypeOK, Set, Same
<1>7. distance' \in [Threads -> Nat] /\ Same(t, distance, distance')
  BY DEF NotLower, BfsTypeOK, Same, localVars
<1>8. failures' \in [Threads -> Nat] /\ Same(t, failures, failures')
  BY DEF NotLower, BfsTypeOK, Same, localVars
<1>9. distances' \in [AllVertices -> Nat]
  BY DEF NotLower, BfsTypeOK
<1>10. queue' \in [SubQueues -> Seq(AllVertices)]
  BY DEF NotLower, BfsTypeOK
<1>11. Locals' /\ LocalsSame(t)
  BY <1>1, <1>3, <1>4, <1>5, <1>6, <1>7, <1>8 DEF Locals, LocalsSame
<1> QED BY <1>1, <1>2, <1>9, <1>10, <1>11, TypeParts

\* The types, when the distance of a neighbour is lowered.
LEMMA LowerDistanceType ==
  ASSUME BfsTypeOK, GraphOK, NEW t \in Threads, LocalInv(t), LowerDistance(t)
  PROVE  BfsTypeOK' /\ OthersSame(t) /\ GraphSame
<1>1. UNCHANGED graphVars /\ SubQueues' = SubQueues
  BY GraphKept DEF LowerDistance, GraphSame
<1>2. \E from, to \in ThreadLabels : Goto(t, from, to)
  BY DEF LowerDistance, ThreadLabels, Busy
<1>20. /\ Neighbors(t)[i[t]] \in AllVertices /\ distances[Neighbors(t)[i[t]]] \in Nat
      /\ Lower(t) \in Nat
  BY SMTT(30), VertexUse DEF LowerDistance, Busy, BfsTypeOK, Lower
<1>3. seen' \in [Threads -> SUBSET SubQueues] /\ Same(t, seen, seen')
  BY DEF LowerDistance, BfsTypeOK, Same, localVars
<1>4. current' \in [Threads -> Nat] /\ Same(t, current, current')
  BY DEF LowerDistance, BfsTypeOK, Same, localVars
<1>5. current_distance' \in [Threads -> Nat] /\ Same(t, current_distance, current_distance')
  BY DEF LowerDistance, BfsTypeOK, Same, localVars
<1>6. i' \in [Threads -> Nat \ {0}] /\ Same(t, i, i')
  BY DEF LowerDistance, BfsTypeOK, Same, localVars
<1>7. distance' \in [Threads -> Nat] /\ Same(t, distance, distance')
  <2>1. \/ distance' = distance
        \/ distance' = Set(distance, t, distances[Neighbors(t)[i[t]]])
    BY DEF LowerDistance
  <2> QED BY <1>20, <2>1 DEF BfsTypeOK, Set, Same
<1>8. failures' \in [Threads -> Nat] /\ Same(t, failures, failures')
  BY DEF LowerDistance, BfsTypeOK, Same, localVars
<1>9. distances' \in [AllVertices -> Nat]
  BY <1>20 DEF LowerDistance, BfsTypeOK
<1>10. queue' \in [SubQueues -> Seq(AllVertices)]
  BY DEF LowerDistance, BfsTypeOK
<1>11. Locals' /\ LocalsSame(t)
  BY <1>1, <1>3, <1>4, <1>5, <1>6, <1>7, <1>8 DEF Locals, LocalsSame
<1> QED BY <1>1, <1>2, <1>9, <1>10, <1>11, TypeParts

\* The types, when the neighbour is added.
LEMMA AddType ==
  ASSUME BfsTypeOK, GraphOK, NEW t \in Threads, LocalInv(t), Add(t)
  PROVE  BfsTypeOK' /\ OthersSame(t) /\ GraphSame
<1>1. UNCHANGED graphVars /\ SubQueues' = SubQueues
  BY GraphKept DEF Add, GraphSame
<1>2. \E from, to \in ThreadLabels : Goto(t, from, to)
  BY DEF Add, ThreadLabels, Busy
<1>3. seen' \in [Threads -> SUBSET SubQueues] /\ Same(t, seen, seen')
  BY DEF Add, BfsTypeOK, Same, localVars
<1>4. current' \in [Threads -> Nat] /\ Same(t, current, current')
  BY DEF Add, BfsTypeOK, Same, localVars
<1>5. current_distance' \in [Threads -> Nat] /\ Same(t, current_distance, current_distance')
  BY DEF Add, BfsTypeOK, Same, localVars
<1>6. i' \in [Threads -> Nat \ {0}] /\ Same(t, i, i')
  <2>1. i[t] + 1 \in Nat \ {0}
    BY DEF BfsTypeOK
  <2>2. i' = Set(i, t, i[t] + 1)
    BY DEF Add
  <2> QED BY <2>1, <2>2 DEF BfsTypeOK, Set, Same
<1>7. distance' \in [Threads -> Nat] /\ Same(t, distance, distance')
  BY DEF Add, BfsTypeOK, Same, localVars
<1>8. failures' \in [Threads -> Nat] /\ Same(t, failures, failures')
  BY DEF Add, BfsTypeOK, Same, localVars
<1>9. distances' \in [AllVertices -> Nat]
  BY DEF Add, BfsTypeOK
<1>10. queue' \in [SubQueues -> Seq(AllVertices)]
  <2>1. Neighbors(t)[i[t]] \in AllVertices
    BY VertexUse DEF Add, Goto, Busy
  <2> QED BY <2>1 DEF Add, BfsTypeOK
<1>11. Locals' /\ LocalsSame(t)
  BY <1>1, <1>3, <1>4, <1>5, <1>6, <1>7, <1>8 DEF Locals, LocalsSame
<1> QED BY <1>1, <1>2, <1>9, <1>10, <1>11, TypeParts

\* The types, when a thread counts the idle ones.
LEMMA IdleType ==
  ASSUME BfsTypeOK, GraphOK, NEW t \in Threads, LocalInv(t), Idle(t)
  PROVE  BfsTypeOK' /\ OthersSame(t) /\ GraphSame
<1>1. UNCHANGED graphVars /\ SubQueues' = SubQueues
  BY GraphKept DEF Idle, GraphSame
<1>2. \E from, to \in ThreadLabels : Goto(t, from, to)
  BY DEF Idle, ThreadLabels, Busy
<1>3. seen' \in [Threads -> SUBSET SubQueues] /\ Same(t, seen, seen')
  <2>1. {} \in SUBSET SubQueues
    BY DEF SubQueues
  <2>2. seen' = Set(seen, t, {})
    BY DEF Idle
  <2> QED BY <2>1, <2>2 DEF BfsTypeOK, Set, Same
<1>4. current' \in [Threads -> Nat] /\ Same(t, current, current')
  BY DEF Idle, BfsTypeOK, Same, localVars
<1>5. current_distance' \in [Threads -> Nat] /\ Same(t, current_distance, current_distance')
  BY DEF Idle, BfsTypeOK, Same, localVars
<1>6. i' \in [Threads -> Nat \ {0}] /\ Same(t, i, i')
  BY DEF Idle, BfsTypeOK, Same, localVars
<1>7. distance' \in [Threads -> Nat] /\ Same(t, distance, distance')
  BY DEF Idle, BfsTypeOK, Same, localVars
<1>8. failures' \in [Threads -> Nat] /\ Same(t, failures, failures')
  <2>1. failures[t] + 1 \in Nat /\ failures[t] \in Nat
    BY DEF BfsTypeOK
  <2>2. failures' = Set(failures, t, failures[t] + 1) \/ failures' = Set(failures, t, failures[t])
    BY DEF Idle
  <2> QED BY <2>1, <2>2 DEF BfsTypeOK, Set, Same
<1>9. distances' \in [AllVertices -> Nat]
  BY DEF Idle, BfsTypeOK
<1>10. queue' \in [SubQueues -> Seq(AllVertices)]
  BY DEF Idle, BfsTypeOK
<1>11. Locals' /\ LocalsSame(t)
  BY <1>1, <1>3, <1>4, <1>5, <1>6, <1>7, <1>8 DEF Locals, LocalsSame
<1> QED BY <1>1, <1>2, <1>9, <1>10, <1>11, TypeParts

-----------------------------------------------------------------------------
\* What a step may do to the distances.
Lowered == \A x \in AllVertices : distances'[x] <= distances[x]

\* Lower distances keep the ways that have been found.
LEMMA ReachableKept ==
  ASSUME NEW in \in Inputs, NEW d \in [1..in.n -> Nat], NEW e \in [1..in.n -> Nat],
         \A x \in 1..in.n : e[x] <= d[x], NEW v, NEW k \in Nat, Reachable(d, in, v, k)
  PROVE  Reachable(e, in, v, k)
<1>1. Near(d, in, k) \subseteq Near(e, in, k)
  BY DEF Near
<1>0. in.n \in Nat
  BY BfsAssumption
<1>2. IsFiniteSet(1..in.n) /\ in.n \in Nat
  BY <1>0, FS_Interval
<1>3. IsFiniteSet(Near(d, in, k)) /\ IsFiniteSet(Near(e, in, k))
  BY <1>2, FS_Subset DEF Near
<1>4. /\ Cardinality(Near(d, in, k)) <= Cardinality(Near(e, in, k))
      /\ Cardinality(Near(d, in, k)) \in Nat /\ Cardinality(Near(e, in, k)) \in Nat
  BY <1>1, <1>3, FS_Subset, FS_CardinalityType
<1> QED BY <1>2, <1>4 DEF Reachable

\* A vertex one arc further can be reached too, if it is not so near already.
LEMMA ReachableNext ==
  ASSUME NEW in \in Inputs, NEW d \in [1..in.n -> Nat], NEW e \in [1..in.n -> Nat],
         \A x \in 1..in.n : e[x] <= d[x], NEW v, NEW k \in Nat, Reachable(d, in, v, k),
         NEW w \in 1..in.n, Arc(in, v, w), d[w] > k + 1, e[w] = k + 1
  PROVE  Reachable(e, in, w, k + 1)
<1> DEFINE A == Near(d, in, k)
           B == Near(e, in, k + 1)
<1>0. in.n \in Nat
  BY BfsAssumption
<1>1. IsFiniteSet(1..in.n) /\ in.n \in Nat /\ Cardinality(1..in.n) = in.n
  <2>1. ASSUME NEW m \in Nat PROVE IsFiniteSet(1..m) /\ Cardinality(1..m) = m
    <3>1. IsFiniteSet(1..m)
      BY FS_Interval
    <3>2. Cardinality(1..m) = IF 1 > m THEN 0 ELSE m - 1 + 1
      BY FS_Interval
    <3> QED BY <3>1, <3>2
  <2> QED BY <1>0, <2>1
<1>2. A \subseteq 1..in.n /\ B \subseteq 1..in.n /\ w \notin A /\ A \cup {w} \subseteq B
  <2>1. w \notin A
    BY DEF Near
  <2>2. \A x \in A : x \in B
    BY DEF Near
  <2> QED BY <2>1, <2>2 DEF Near
<1> HIDE DEF A, B
<1>3. IsFiniteSet(A) /\ IsFiniteSet(B) /\ Cardinality(A) \in Nat /\ Cardinality(B) \in Nat
  BY <1>1, <1>2, FS_Subset, FS_CardinalityType
<1>4. Cardinality(A \cup {w}) = Cardinality(A) + 1 /\ IsFiniteSet(A \cup {w})
  BY <1>2, <1>3, FS_AddElement
<1>5. Cardinality(A \cup {w}) <= Cardinality(B) /\ Cardinality(B) <= in.n
  <2>1. Cardinality(A \cup {w}) <= Cardinality(B)
    BY <1>2, <1>3, FS_Subset
  <2>2. Cardinality(B) <= Cardinality(1..in.n)
    BY <1>1, <1>2, FS_Subset
  <2> QED BY <1>1, <2>1, <2>2
<1>6. Cardinality(A) >= k + 1 /\ v \in Ball(in)[k] /\ k < in.n
  BY DEF Reachable, A
<1>7. k + 1 < in.n /\ Cardinality(B) >= (k + 1) + 1
  BY <1>1, <1>3, <1>4, <1>5, <1>6
<1>8. w \in Ball(in)[k + 1]
  <2>1. k + 1 \in 1..in.n /\ (k + 1) - 1 = k
    BY <1>1, <1>7
  <2> QED BY SMTT(30), <1>6, <2>1, BallSteps
<1> QED BY <1>7, <1>8 DEF Reachable, B

\* what the steps of a search have in common
Step(t) == /\ BfsTypeOK /\ BfsTypeOK' /\ GraphOK /\ GraphSame /\ UNCHANGED graphVars
           /\ Searching /\ OthersSame(t) /\ Lowered

\* What the type says of one vertex.
LEMMA VertexBounds ==
  ASSUME BfsTypeOK
  PROVE  /\ input \in Inputs /\ AllVertices = 1..input.n /\ input.n \in Nat \ {0}
         /\ input.n < Infinity /\ Infinity \in Nat
         /\ distances \in [1..input.n -> Nat] /\ Root \in AllVertices
BY BfsAssumption DEF BfsTypeOK, Static, AllVertices

\* A finite distance stays finite.
LEMMA FiniteKept ==
  ASSUME NEW t \in Threads, Step(t), NEW v \in AllVertices, distances[v] # Infinity
  PROVE  distances'[v] # Infinity
<1>1. distances[v] < input.n /\ distances[v] \in Nat /\ distances'[v] \in Nat /\ distances'[v] <= distances[v]
  <2>1. distances[v] < input.n
    BY DEF Step, Searching, SoundInv, Reachable
  <2> QED BY <2>1 DEF Step, BfsTypeOK, GraphSame, Lowered
<1> QED BY <1>1, VertexBounds DEF Step

\* What is reachable stays reachable, for the input does not change.
LEMMA ReachableStep ==
  ASSUME NEW t \in Threads, Step(t), NEW v, NEW k \in Nat, Reachable(distances, input, v, k)
  PROVE  Reachable(distances, input, v, k)'
<1>1. /\ input \in Inputs /\ input' = input
      /\ distances \in [1..input.n -> Nat] /\ distances' \in [1..input.n -> Nat]
      /\ \A x \in 1..input.n : distances'[x] <= distances[x]
  BY VertexBounds DEF Step, graphVars, BfsTypeOK, GraphSame, Lowered, AllVertices
<1>2. Reachable(distances', input, v, k)
  BY <1>1, ReachableKept
<1> QED BY <1>1, <1>2

\* What a step of t leaves true of another thread.
LEMMA OthersLocal ==
  ASSUME NEW t \in Threads, Step(t), NEW u \in Threads \ {t}
  PROVE  LocalInv(u)'
<1>1. /\ pc'[u] = pc[u] /\ seen'[u] = seen[u] /\ current'[u] = current[u]
      /\ current_distance'[u] = current_distance[u] /\ i'[u] = i[u] /\ distance'[u] = distance[u]
  BY DEF Step, OthersSame, Same
<1>2. LocalInv(u) /\ AllVertices' = AllVertices /\ \A v : Nbrs(v)' = Nbrs(v)
  BY DEF Step, Searching, GraphSame
<1>3. pc[u] \in Scanning => pc[u] \in Busy
  BY DEF Scanning, Busy
<1>4. pc[u] \in Busy => /\ current[u] \in AllVertices
                        /\ distances'[current[u]] # Infinity
                        /\ seen[u] = {}
  BY <1>2, FiniteKept DEF LocalInv
<1>5. pc[u] \in Scanning => Reachable(distances, input, current[u], current_distance[u])'
  <2> SUFFICES ASSUME pc[u] \in Scanning
               PROVE  Reachable(distances', input', current'[u], current_distance'[u])
    OBVIOUS
  <2>1. Reachable(distances, input, current[u], current_distance[u]) /\ current_distance[u] \in Nat
    BY <1>2 DEF LocalInv, Step, BfsTypeOK
  <2>2. Reachable(distances', input', current[u], current_distance[u])
    BY <2>1, ReachableStep
  <2> QED BY <1>1, <2>2
<1>6. pc[u] \in {"cae", "add"} =>
        /\ i[u] \in DOMAIN Nbrs(current[u])
        /\ Nbrs(current[u])[i[u]] \in AllVertices
        /\ distances'[Nbrs(current[u])[i[u]]] <= distances[Nbrs(current[u])[i[u]]]
        /\ distances'[Nbrs(current[u])[i[u]]] \in Nat /\ distances[Nbrs(current[u])[i[u]]] \in Nat
  <2> SUFFICES ASSUME pc[u] \in {"cae", "add"}
               PROVE  /\ i[u] \in DOMAIN Nbrs(current[u])
                      /\ Nbrs(current[u])[i[u]] \in AllVertices
    BY DEF Step, Lowered, BfsTypeOK, GraphSame
  <2>1. i[u] \in DOMAIN Nbrs(current[u]) /\ current[u] \in AllVertices
    BY <1>2 DEF LocalInv, Busy
  <2> QED BY <2>1 DEF Step, GraphOK
<1>7. pc[u] = "cae" => distances'[Nbrs(current[u])[i[u]]] <= distance[u]
  <2>1. distance[u] \in Nat
    BY DEF Step, BfsTypeOK
  <2> QED BY <1>2, <1>6, <2>1 DEF LocalInv
<1>8. pc[u] = "add" => distances'[Nbrs(current[u])[i[u]]] <= current_distance[u] + 1
  <2>1. current_distance[u] \in Nat
    BY DEF Step, BfsTypeOK
  <2> QED BY <1>2, <1>6, <2>1 DEF LocalInv
<1> QED BY <1>1, <1>2, <1>4, <1>5, <1>6, <1>7, <1>8 DEF LocalInv

\* What another thread still has to do is not touched by a step.
LEMMA OthersWill ==
  ASSUME NEW t \in Threads, OthersSame(t), GraphSame, NEW u \in Threads \ {t},
         NEW v, NEW w, WillLower(u, v, w), distances'[v] = distances[v]
  PROVE  WillLower(u, v, w)'
<1>1. /\ pc'[u] = pc[u] /\ current'[u] = current[u]
      /\ current_distance'[u] = current_distance[u] /\ i'[u] = i[u]
  BY DEF OthersSame, Same
<1>2. \A x : Nbrs(x)' = Nbrs(x)
  BY DEF GraphSame
<1> QED BY <1>1, <1>2 DEF WillLower

\* The obligations of thread t in a step that lowers no distance.
LEMMA WorkStep ==
  ASSUME NEW t \in Threads, Step(t), distances' = distances,
         \A v \in AllVertices : \A w \in AllVertices :
           Arc(input, v, w) /\ CanLower(v, w) /\ (Queued(v) \/ WillLower(t, v, w))
           => Queued(v)' \/ WillLower(t, v, w)'
  PROVE  WorkInv'
<1>1. input' = input /\ AllVertices' = AllVertices
  BY DEF Step, graphVars, GraphSame
<1> SUFFICES ASSUME NEW v \in AllVertices, NEW w \in AllVertices, Arc(input, v, w), CanLower(v, w)
             PROVE  Queued(v)' \/ \E u \in Threads : WillLower(u, v, w)'
  BY <1>1 DEF WorkInv, CanLower
<1>2. Queued(v) \/ \E u \in Threads : WillLower(u, v, w)
  BY DEF Step, Searching, WorkInv
<1>3. CASE Queued(v) \/ WillLower(t, v, w)
  BY <1>3
<1>4. ASSUME NEW u \in Threads \ {t}, WillLower(u, v, w) PROVE WillLower(u, v, w)'
  BY <1>4, OthersWill DEF Step
<1> QED BY <1>2, <1>3, <1>4

\* A step keeps QuiesceInv if t goes on looking where there is something to find.
LEMMA QuiesceStep ==
  ASSUME NEW t \in Threads, Step(t),
         \A s \in SubQueues : queue'[s] # <<>> /\ (queue[s] = <<>> \/ Looks(t, s)) => Looks(t, s)'
  PROVE  QuiesceInv'
<1>1. SubQueues' = SubQueues
  BY DEF Step, GraphSame
<1> SUFFICES ASSUME NEW s \in SubQueues, queue'[s] # <<>>
             PROVE  \E u \in Threads : Looks(u, s)'
  BY <1>1 DEF QuiesceInv
<1>2. queue[s] = <<>> \/ \E u \in Threads : Looks(u, s)
  BY DEF Step, Searching, QuiesceInv
<1>3. ASSUME NEW u \in Threads \ {t}, Looks(u, s) PROVE Looks(u, s)'
  BY <1>3 DEF Step, OthersSame, Same, Looks
<1> QED BY <1>2, <1>3

\* What is left to show of a step.
LEMMA SearchingStep ==
  ASSUME NEW t \in Threads, Step(t), pc[t] # "done", pc'[t] \notin {"start", "barrier"},
         \A v \in AllVertices :
           distances'[v] # distances[v] => Reachable(distances', input', v, distances'[v]),
         \A s \in SubQueues : \A k \in DOMAIN queue'[s] :
            \/ \E j \in DOMAIN queue[s] : queue'[s][k] = queue[s][j]
            \/ queue'[s][k] \in AllVertices /\ distances'[queue'[s][k]] # Infinity,
         LocalInv(t)', WorkInv', QuiesceInv'
  PROVE  Searching'
<1>1. \A u \in Threads : pc'[u] \notin {"start", "barrier"}
  BY DEF Step, Searching, OthersSame, Same
<1>2. distances'[Root] = 0
  <2>1. distances[Root] = 0 /\ distances'[Root] <= distances[Root] /\ distances'[Root] \in Nat
    BY VertexBounds DEF Step, Searching, Lowered, BfsTypeOK, GraphSame
  <2> QED BY <2>1
<1>3. SoundInv'
  <2>1. AllVertices' = AllVertices /\ SubQueues' = SubQueues /\ input' = input
    BY DEF Step, GraphSame, graphVars
  <2>2. ASSUME NEW v \in AllVertices, distances'[v] # Infinity
        PROVE  Reachable(distances', input', v, distances'[v])
    <3>1. CASE distances'[v] = distances[v]
      <4>1. Reachable(distances, input, v, distances[v]) /\ distances[v] \in Nat
        BY <2>2, <3>1 DEF Step, Searching, SoundInv, BfsTypeOK
      <4>2. Reachable(distances', input', v, distances[v])
        BY <4>1, ReachableStep
      <4> QED BY <3>1, <4>2
    <3> QED BY <3>1
  <2>3. ASSUME NEW s \in SubQueues, NEW k \in DOMAIN queue'[s]
        PROVE  distances'[queue'[s][k]] # Infinity
    <3>1. ASSUME NEW j \in DOMAIN queue[s], queue'[s][k] = queue[s][j]
          PROVE  distances'[queue'[s][k]] # Infinity
      <4>1. queue[s][j] \in AllVertices /\ distances[queue[s][j]] # Infinity
        BY SMTT(30) DEF Step, Searching, SoundInv, BfsTypeOK
      <4> QED BY <3>1, <4>1, FiniteKept
    <3> QED BY <3>1
  <2> QED BY <2>1, <2>2, <2>3 DEF SoundInv
<1>4. \A u \in Threads : LocalInv(u)'
  BY OthersLocal
<1>5. ReportInv'
  BY DEF Step, Searching, ReportInv, OthersSame
<1> QED BY <1>1, <1>2, <1>3, <1>4, <1>5 DEF Searching

\* What is to be shown of a step of one thread.
LEMMA StepFacts ==
  ASSUME BfsTypeOK, Searching, NEW t \in Threads, BfsTypeOK', OthersSame(t), GraphSame,
         UNCHANGED graphVars, Lowered
  PROVE  Step(t)
<1>1. GraphOK
  BY LoadedFaithful DEF BfsTypeOK
<1> QED BY <1>1 DEF Step

\* A step that writes no distance lowers none.
LEMMA SameLowered ==
  ASSUME BfsTypeOK, distances' = distances PROVE Lowered
<1>1. \A x \in AllVertices : distances[x] \in Nat
  BY DEF BfsTypeOK
<1> QED BY <1>1 DEF Lowered

-----------------------------------------------------------------------------
\* One lemma for each step of a thread.

\* The steps of run_bfs, one by one.
LEMMA WhileKeeps ==
  ASSUME BfsTypeOK, Searching, NEW t \in Threads, While(t)
  PROVE  BfsTypeOK' /\ Searching'
<1>0. GraphOK /\ LocalInv(t)
  BY LoadedFaithful DEF BfsTypeOK, Searching
<1>1. BfsTypeOK' /\ OthersSame(t) /\ GraphSame
  BY <1>0, WhileType
<1>2. Step(t)
  BY <1>1, SameLowered, StepFacts DEF While
<1>3. /\ pc[t] = "while" /\ pc'[t] \in {"remove", "done"} /\ seen'[t] = {}
      /\ failures[t] = 0 => pc'[t] = "remove"
  <2>1. t \in 0..NumThreads
    BY BfsAssumption DEF Threads
  <2>2. pc'[t] = IF KeepsRunning(t) THEN "remove" ELSE "done"
    BY <2>1 DEF While, Goto, BfsTypeOK
  <2>3. failures[t] = 0 => KeepsRunning(t)
    BY BfsAssumption DEF KeepsRunning
  <2> QED BY <2>2, <2>3 DEF While, Goto, Set, BfsTypeOK
<1>4. LocalInv(t)'
  BY <1>3 DEF LocalInv, Busy, Scanning
<1>5. WorkInv'
  <2>1. \A v \in AllVertices : Queued(v) => Queued(v)'
    BY <1>1 DEF While, Queued, GraphSame
  <2>2. \A v, w \in AllVertices : ~ WillLower(t, v, w)
    BY <1>3 DEF WillLower, Scanning
  <2> QED BY <1>2, <2>1, <2>2, WorkStep DEF While
<1>6. QuiesceInv'
  <2>1. \A s \in SubQueues : Looks(t, s) => Looks(t, s)'
    BY <1>3 DEF Looks, Busy
  <2> QED BY <1>2, <2>1, QuiesceStep DEF While
<1>7. \A s \in SubQueues : \A k \in DOMAIN queue'[s] :
         \/ \E j \in DOMAIN queue[s] : queue'[s][k] = queue[s][j]
         \/ queue'[s][k] \in AllVertices /\ distances'[queue'[s][k]] # Infinity
  BY DEF While
<1>8. \A v \in AllVertices : distances'[v] # distances[v] => Reachable(distances', input', v, distances'[v])
  BY DEF While
<1> QED BY <1>1, <1>2, <1>3, <1>4, <1>5, <1>6, <1>7, <1>8, SearchingStep

\* What stays where in a queue whose head is taken.
LEMMA TailFacts ==
  ASSUME NEW S, NEW q \in Seq(S), q # <<>>
  PROVE  /\ Head(q) = q[1] /\ 1 \in DOMAIN q
         /\ \A k \in DOMAIN Tail(q) : k + 1 \in DOMAIN q /\ Tail(q)[k] = q[k + 1]
         /\ \A k \in DOMAIN q : k = 1 \/ (k - 1 \in DOMAIN Tail(q) /\ Tail(q)[k - 1] = q[k])
OBVIOUS

\* What stays where in a queue that gets one more element.
LEMMA AppendFacts ==
  ASSUME NEW S, NEW q \in Seq(S), NEW x \in S
  PROVE  /\ \A k \in DOMAIN q : k \in DOMAIN Append(q, x) /\ Append(q, x)[k] = q[k]
         /\ \A k \in DOMAIN Append(q, x) : (k \in DOMAIN q /\ Append(q, x)[k] = q[k]) \/ Append(q, x)[k] = x
         /\ \E k \in DOMAIN Append(q, x) : Append(q, x)[k] = x
<1>1. Len(q) + 1 \in DOMAIN Append(q, x) /\ Append(q, x)[Len(q) + 1] = x
  OBVIOUS
<1> QED BY <1>1

\* Each step of the search keeps its invariant, here a miss.
LEMMA MissKeeps ==
  ASSUME BfsTypeOK, Searching, NEW t \in Threads, Miss(t)
  PROVE  BfsTypeOK' /\ Searching'
<1>0. GraphOK /\ LocalInv(t)
  BY LoadedFaithful DEF BfsTypeOK, Searching
<1>1. BfsTypeOK' /\ OthersSame(t) /\ GraphSame
  BY <1>0, MissType
<1>2. Step(t)
  BY <1>1, SameLowered, StepFacts DEF Miss
<1>3. /\ pc[t] = "remove" /\ pc'[t] = "remove"
      /\ \E s \in SubQueues : queue[s] = <<>> /\ seen'[t] = seen[t] \cup {s}
  <2>1. t \in 0..NumThreads
    BY BfsAssumption DEF Threads
  <2> QED BY <2>1 DEF Miss, Goto, Set, BfsTypeOK, localVars
<1>4. LocalInv(t)'
  BY <1>3 DEF LocalInv, Busy, Scanning
<1>5. WorkInv'
  <2>1. \A v \in AllVertices : Queued(v) => Queued(v)'
    BY <1>1 DEF Miss, Queued, GraphSame
  <2>2. \A v, w \in AllVertices : ~ WillLower(t, v, w)
    BY <1>3 DEF WillLower, Scanning
  <2> QED BY <1>2, <2>1, <2>2, WorkStep DEF Miss
<1>6. QuiesceInv'
  <2>1. queue' = queue
    BY DEF Miss
  <2>2. \A s \in SubQueues : queue[s] # <<>> /\ Looks(t, s) => Looks(t, s)'
    BY <1>3 DEF Looks, Busy
  <2> QED BY <1>2, <2>1, <2>2, QuiesceStep
<1>7. \A s \in SubQueues : \A k \in DOMAIN queue'[s] :
         \/ \E j \in DOMAIN queue[s] : queue'[s][k] = queue[s][j]
         \/ queue'[s][k] \in AllVertices /\ distances'[queue'[s][k]] # Infinity
  BY DEF Miss
<1>8. \A v \in AllVertices : distances'[v] # distances[v] => Reachable(distances', input', v, distances'[v])
  BY DEF Miss
<1> QED BY <1>1, <1>2, <1>3, <1>4, <1>5, <1>6, <1>7, <1>8, SearchingStep

\* The invariant, when a thread is active again.
LEMMA MarkActiveKeeps ==
  ASSUME BfsTypeOK, Searching, NEW t \in Threads, MarkActive(t)
  PROVE  BfsTypeOK' /\ Searching'
<1>0. GraphOK /\ LocalInv(t)
  BY LoadedFaithful DEF BfsTypeOK, Searching
<1>1. BfsTypeOK' /\ OthersSame(t) /\ GraphSame
  BY <1>0, MarkActiveType
<1>2. Step(t)
  BY <1>1, SameLowered, StepFacts DEF MarkActive
<1>3. pc[t] = "mark" /\ pc'[t] = "read" /\ current'[t] = current[t] /\ seen'[t] = seen[t]
  <2>1. t \in 0..NumThreads
    BY BfsAssumption DEF Threads
  <2> QED BY <2>1 DEF MarkActive, Goto, Set, BfsTypeOK, localVars
<1>4. LocalInv(t)'
  <2>1. /\ current[t] \in AllVertices /\ distances[current[t]] # Infinity /\ seen[t] = {}
    BY <1>0, <1>3 DEF LocalInv, Busy
  <2>2. AllVertices' = AllVertices /\ distances' = distances
    BY <1>1 DEF GraphSame, MarkActive
  <2> QED BY <1>3, <2>1, <2>2 DEF LocalInv, Busy, Scanning
<1>5. WorkInv'
  <2>1. \A v \in AllVertices : Queued(v) => Queued(v)'
    BY <1>1 DEF MarkActive, Queued, GraphSame
  <2>2. \A v, w \in AllVertices : WillLower(t, v, w) => WillLower(t, v, w)'
    BY <1>3 DEF WillLower, Scanning
  <2> QED BY <1>2, <2>1, <2>2, WorkStep DEF MarkActive
<1>6. QuiesceInv'
  <2>1. \A s \in SubQueues : Looks(t, s)'
    BY <1>3 DEF Looks, Busy
  <2> QED BY <1>2, <2>1, QuiesceStep
<1>7. \A s \in SubQueues : \A k \in DOMAIN queue'[s] :
         \/ \E j \in DOMAIN queue[s] : queue'[s][k] = queue[s][j]
         \/ queue'[s][k] \in AllVertices /\ distances'[queue'[s][k]] # Infinity
  BY DEF MarkActive
<1>8. \A v \in AllVertices : distances'[v] # distances[v] => Reachable(distances', input', v, distances'[v])
  BY DEF MarkActive
<1> QED BY <1>1, <1>2, <1>3, <1>4, <1>5, <1>6, <1>7, <1>8, SearchingStep

\* The invariant, when the distance of the vertex is read.
LEMMA ReadDistanceKeeps ==
  ASSUME BfsTypeOK, Searching, NEW t \in Threads, ReadDistance(t)
  PROVE  BfsTypeOK' /\ Searching'
<1>0. GraphOK /\ LocalInv(t)
  BY LoadedFaithful DEF BfsTypeOK, Searching
<1>1. BfsTypeOK' /\ OthersSame(t) /\ GraphSame
  BY <1>0, ReadDistanceType
<1>2. Step(t)
  BY <1>1, SameLowered, StepFacts DEF ReadDistance
<1>3. /\ pc[t] = "read" /\ pc'[t] = "edge" /\ current'[t] = current[t] /\ seen'[t] = seen[t]
      /\ current_distance'[t] = distances[current[t]] /\ i'[t] = 1 /\ distances' = distances
  <2>1. t \in 0..NumThreads
    BY BfsAssumption DEF Threads
  <2> QED BY <2>1 DEF ReadDistance, Goto, Set, BfsTypeOK, localVars
<1>4. LocalInv(t)'
  <2>1. /\ current[t] \in AllVertices /\ distances[current[t]] # Infinity /\ seen[t] = {}
    BY <1>0, <1>3 DEF LocalInv, Busy
  <2>2. AllVertices' = AllVertices /\ input' = input
    BY <1>1 DEF GraphSame, ReadDistance, graphVars
  <2>3. Reachable(distances, input, current[t], distances[current[t]])
    BY <2>1 DEF Searching, SoundInv
  <2>4. Reachable(distances', input', current'[t], current_distance'[t])
    BY <1>3, <2>2, <2>3
  <2> QED BY <1>3, <2>1, <2>2, <2>4 DEF LocalInv, Busy, Scanning
<1>5. WorkInv'
  <2>1. \A v \in AllVertices : Queued(v) => Queued(v)'
    BY <1>1 DEF ReadDistance, Queued, GraphSame
  <2>2. ASSUME NEW v \in AllVertices, NEW w \in AllVertices, Arc(input, v, w), WillLower(t, v, w)
        PROVE  WillLower(t, v, w)'
    <3>1. current[t] = v
      BY <1>3, <2>2 DEF WillLower, Scanning
    <3>2. PICK j \in DOMAIN Nbrs(v) : Nbrs(v)[j] = w
      BY <1>0, <2>2 DEF GraphOK
    <3>3. j >= 1
      BY <1>0 DEF GraphOK
    <3>4. Nbrs(v)' = Nbrs(v)
      BY <1>1 DEF GraphSame
    <3> QED BY <1>3, <3>1, <3>2, <3>3, <3>4 DEF WillLower, Scanning
  <2> QED BY <1>2, <2>1, <2>2, WorkStep DEF ReadDistance
<1>6. QuiesceInv'
  <2>1. \A s \in SubQueues : Looks(t, s)'
    BY <1>3 DEF Looks, Busy
  <2> QED BY <1>2, <2>1, QuiesceStep
<1>7. \A s \in SubQueues : \A k \in DOMAIN queue'[s] :
         \/ \E j \in DOMAIN queue[s] : queue'[s][k] = queue[s][j]
         \/ queue'[s][k] \in AllVertices /\ distances'[queue'[s][k]] # Infinity
  BY DEF ReadDistance
<1>8. \A v \in AllVertices : distances'[v] # distances[v] => Reachable(distances', input', v, distances'[v])
  BY DEF ReadDistance
<1> QED BY <1>1, <1>2, <1>3, <1>4, <1>5, <1>6, <1>7, <1>8, SearchingStep

\* The invariant, when a thread counts the idle ones.
LEMMA IdleKeeps ==
  ASSUME BfsTypeOK, Searching, NEW t \in Threads, Idle(t)
  PROVE  BfsTypeOK' /\ Searching'
<1>0. GraphOK /\ LocalInv(t)
  BY LoadedFaithful DEF BfsTypeOK, Searching
<1>1. BfsTypeOK' /\ OthersSame(t) /\ GraphSame
  BY <1>0, IdleType
<1>2. Step(t)
  BY <1>1, SameLowered, StepFacts DEF Idle
<1>3. /\ pc[t] = "remove" /\ pc'[t] = "while" /\ seen[t] = SubQueues
  <2>1. t \in 0..NumThreads
    BY BfsAssumption DEF Threads
  <2> QED BY <2>1 DEF Idle, Goto, Set, BfsTypeOK, localVars
<1>4. LocalInv(t)'
  BY <1>3 DEF LocalInv, Busy, Scanning
<1>5. WorkInv'
  <2>1. \A v \in AllVertices : Queued(v) => Queued(v)'
    BY <1>1 DEF Idle, Queued, GraphSame
  <2>2. \A v, w \in AllVertices : ~ WillLower(t, v, w)
    BY <1>3 DEF WillLower, Scanning
  <2> QED BY <1>2, <2>1, <2>2, WorkStep DEF Idle
<1>6. QuiesceInv'
  <2>1. queue' = queue
    BY DEF Idle
  <2>2. \A s \in SubQueues : ~ Looks(t, s)
    BY <1>3 DEF Looks, Busy
  <2> QED BY <1>2, <2>1, <2>2, QuiesceStep
<1>7. \A s \in SubQueues : \A k \in DOMAIN queue'[s] :
         \/ \E j \in DOMAIN queue[s] : queue'[s][k] = queue[s][j]
         \/ queue'[s][k] \in AllVertices /\ distances'[queue'[s][k]] # Infinity
  BY DEF Idle
<1>8. \A v \in AllVertices : distances'[v] # distances[v] => Reachable(distances', input', v, distances'[v])
  BY DEF Idle
<1> QED BY <1>1, <1>2, <1>3, <1>4, <1>5, <1>6, <1>7, <1>8, SearchingStep

\* The invariant, when the neighbour is near enough.
LEMMA NotLowerKeeps ==
  ASSUME BfsTypeOK, Searching, NEW t \in Threads, NotLower(t)
  PROVE  BfsTypeOK' /\ Searching'
<1>0. GraphOK /\ LocalInv(t)
  BY LoadedFaithful DEF BfsTypeOK, Searching
<1>1. BfsTypeOK' /\ OthersSame(t) /\ GraphSame
  BY <1>0, NotLowerType
<1>2. Step(t)
  BY <1>1, SameLowered, StepFacts DEF NotLower
<1>3. /\ pc[t] = "cae" /\ pc'[t] = "edge" /\ current'[t] = current[t] /\ seen'[t] = seen[t]
      /\ current_distance'[t] = current_distance[t] /\ i'[t] = i[t] + 1 /\ distances' = distances
  <2>1. t \in 0..NumThreads
    BY BfsAssumption DEF Threads
  <2> QED BY <2>1 DEF NotLower, Goto, Set, BfsTypeOK, localVars
<1>4. LocalInv(t)'
  <2>1. /\ current[t] \in AllVertices /\ distances[current[t]] # Infinity /\ seen[t] = {}
        /\ Reachable(distances, input, current[t], current_distance[t])
    BY <1>0, <1>3 DEF LocalInv, Busy, Scanning
  <2>2. AllVertices' = AllVertices /\ input' = input
    BY <1>1 DEF GraphSame, NotLower, graphVars
  <2>3. Reachable(distances', input', current'[t], current_distance'[t])
    BY <1>3, <2>1, <2>2
  <2> QED BY <1>3, <2>1, <2>2, <2>3 DEF LocalInv, Busy, Scanning
<1>5. WorkInv'
  <2>1. \A v \in AllVertices : Queued(v) => Queued(v)'
    BY <1>1 DEF NotLower, Queued, GraphSame
  <2>2. ASSUME NEW v \in AllVertices, NEW w \in AllVertices, CanLower(v, w), WillLower(t, v, w)
        PROVE  WillLower(t, v, w)'
    <3>1. current[t] = v /\ current_distance[t] = distances[v]
      BY <1>3, <2>2 DEF WillLower, Scanning
    <3>2. PICK j \in DOMAIN Nbrs(v) : j >= i[t] /\ Nbrs(v)[j] = w
      BY <1>3, <2>2 DEF WillLower, Scanning
    <3>3. j # i[t]
      <4> SUFFICES ASSUME j = i[t] PROVE FALSE
        OBVIOUS
      <4>1. distances[w] <= distance[t]
        BY <1>0, <1>3, <3>1, <3>2 DEF LocalInv
      <4>2. distances[v] + 1 >= distance[t]
        BY <3>1 DEF NotLower, Lower
      <4>3. distances[w] > distances[v] + 1
        BY <2>2 DEF CanLower
      <4>4. distances[v] \in Nat /\ distances[w] \in Nat /\ distance[t] \in Nat
        BY DEF BfsTypeOK
      <4> QED BY <4>1, <4>2, <4>3, <4>4
    <3>4. j \in Nat /\ i[t] \in Nat
      BY SMTT(30), <1>0 DEF GraphOK, BfsTypeOK
    <3>5. Nbrs(v)' = Nbrs(v)
      BY <1>1 DEF GraphSame
    <3>6. j >= i'[t]
      BY <1>3, <3>2, <3>3, <3>4
    <3> QED BY <1>3, <3>1, <3>2, <3>5, <3>6 DEF WillLower, Scanning
  <2> QED BY <1>2, <2>1, <2>2, WorkStep DEF NotLower
<1>6. QuiesceInv'
  <2>1. \A s \in SubQueues : Looks(t, s)'
    BY <1>3 DEF Looks, Busy
  <2> QED BY <1>2, <2>1, QuiesceStep
<1>7. \A s \in SubQueues : \A k \in DOMAIN queue'[s] :
         \/ \E j \in DOMAIN queue[s] : queue'[s][k] = queue[s][j]
         \/ queue'[s][k] \in AllVertices /\ distances'[queue'[s][k]] # Infinity
  BY DEF NotLower
<1>8. \A v \in AllVertices : distances'[v] # distances[v] => Reachable(distances', input', v, distances'[v])
  BY DEF NotLower
<1> QED BY <1>1, <1>2, <1>3, <1>4, <1>5, <1>6, <1>7, <1>8, SearchingStep

\* The invariant, when a vertex is taken.
LEMMA TakeKeeps ==
  ASSUME BfsTypeOK, Searching, NEW t \in Threads, Take(t)
  PROVE  BfsTypeOK' /\ Searching'
<1>0. GraphOK /\ LocalInv(t)
  BY LoadedFaithful DEF BfsTypeOK, Searching
<1>1. BfsTypeOK' /\ OthersSame(t) /\ GraphSame
  BY <1>0, TakeType
<1>2. Step(t)
  BY <1>1, SameLowered, StepFacts DEF Take
<1> PICK s \in SubQueues \ seen[t] : /\ queue[s] # <<>>
                                    /\ current' = Set(current, t, Head(queue[s]))
                                    /\ queue' = [queue EXCEPT ![s] = Tail(@)]
  BY DEF Take
<1>3. /\ pc[t] = "remove" /\ pc'[t] \in {"read", "mark"} /\ seen'[t] = {}
      /\ current'[t] = Head(queue[s]) /\ distances' = distances
      /\ queue'[s] = Tail(queue[s]) /\ \A r \in SubQueues \ {s} : queue'[r] = queue[r]
      /\ queue[s] \in Seq(AllVertices)
  <2>1. t \in 0..NumThreads
    BY BfsAssumption DEF Threads
  <2> QED BY <2>1 DEF Take, Goto, Set, BfsTypeOK, localVars
<1>9. /\ Head(queue[s]) = queue[s][1] /\ 1 \in DOMAIN queue[s]
      /\ \A k \in DOMAIN Tail(queue[s]) : k + 1 \in DOMAIN queue[s] /\ Tail(queue[s])[k] = queue[s][k + 1]
      /\ \A k \in DOMAIN queue[s] :
           k = 1 \/ (k - 1 \in DOMAIN Tail(queue[s]) /\ Tail(queue[s])[k - 1] = queue[s][k])
  BY <1>3, TailFacts
<1>4. LocalInv(t)'
  <2>1. /\ current'[t] \in AllVertices /\ distances[current'[t]] # Infinity
    BY <1>3, <1>9 DEF Searching, SoundInv, BfsTypeOK
  <2>2. AllVertices' = AllVertices
    BY <1>1 DEF GraphSame
  <2> QED BY <1>3, <2>1, <2>2 DEF LocalInv, Busy, Scanning
<1>5. WorkInv'
  <2>1. ASSUME NEW v \in AllVertices, NEW w \in AllVertices, Queued(v)
        PROVE  Queued(v)' \/ WillLower(t, v, w)'
    <3>0. PICK r \in SubQueues : \E k \in DOMAIN queue[r] : queue[r][k] = v
      BY <2>1 DEF Queued
    <3>1. PICK k \in DOMAIN queue[r] : queue[r][k] = v
      BY <3>0
    <3>2. SubQueues' = SubQueues
      BY <1>1 DEF GraphSame
    <3>3. CASE r # s
      BY <1>3, <3>1, <3>2, <3>3 DEF Queued
    <3>4. CASE r = s /\ k = 1
      BY <1>3, <1>9, <3>1, <3>4 DEF WillLower
    <3>5. CASE r = s /\ k - 1 \in DOMAIN Tail(queue[s]) /\ Tail(queue[s])[k - 1] = queue[s][k]
      BY <1>3, <3>1, <3>2, <3>5 DEF Queued
    <3> QED BY <1>9, <3>1, <3>3, <3>4, <3>5
  <2>2. \A v, w \in AllVertices : ~ WillLower(t, v, w)
    BY <1>3 DEF WillLower, Scanning
  <2> QED BY <1>2, <1>3, <2>1, <2>2, WorkStep
<1>6. QuiesceInv'
  <2>1. \A z \in SubQueues : Looks(t, z)'
    BY <1>3 DEF Looks, Busy
  <2> QED BY <1>2, <2>1, QuiesceStep
<1>7. \A z \in SubQueues : \A k \in DOMAIN queue'[z] :
         \/ \E j \in DOMAIN queue[z] : queue'[z][k] = queue[z][j]
         \/ queue'[z][k] \in AllVertices /\ distances'[queue'[z][k]] # Infinity
  BY <1>3, <1>9
<1>8. \A v \in AllVertices : distances'[v] # distances[v] => Reachable(distances', input', v, distances'[v])
  BY DEF Take
<1> QED BY <1>1, <1>2, <1>3, <1>4, <1>5, <1>6, <1>7, <1>8, SearchingStep

\* The invariant, when the neighbour is added.
LEMMA AddKeeps ==
  ASSUME BfsTypeOK, Searching, NEW t \in Threads, Add(t)
  PROVE  BfsTypeOK' /\ Searching'
<1>0. GraphOK /\ LocalInv(t)
  BY LoadedFaithful DEF BfsTypeOK, Searching
<1>1. BfsTypeOK' /\ OthersSame(t) /\ GraphSame
  BY <1>0, AddType
<1>2. Step(t)
  BY <1>1, SameLowered, StepFacts DEF Add
<1> DEFINE x == Neighbors(t)[i[t]]
<1> PICK s \in SubQueues : queue' = [queue EXCEPT ![s] = Append(@, x)]
  BY DEF Add
<1>3. /\ pc[t] = "add" /\ pc'[t] = "edge" /\ current'[t] = current[t] /\ seen'[t] = seen[t]
      /\ current_distance'[t] = current_distance[t] /\ i'[t] = i[t] + 1 /\ distances' = distances
      /\ queue'[s] = Append(queue[s], x) /\ \A r \in SubQueues \ {s} : queue'[r] = queue[r]
      /\ queue[s] \in Seq(AllVertices)
  <2>1. t \in 0..NumThreads
    BY BfsAssumption DEF Threads
  <2> QED BY <2>1 DEF Add, Goto, Set, BfsTypeOK, localVars
<1>9. x \in AllVertices /\ x = Nbrs(current[t])[i[t]]
  BY <1>0, <1>3, VertexUse DEF Busy, Neighbors, Nbrs
<1> HIDE DEF x
<1>10. /\ \A k \in DOMAIN queue[s] : k \in DOMAIN queue'[s] /\ queue'[s][k] = queue[s][k]
       /\ \A k \in DOMAIN queue'[s] :
            (k \in DOMAIN queue[s] /\ queue'[s][k] = queue[s][k]) \/ queue'[s][k] = x
       /\ \E k \in DOMAIN queue'[s] : queue'[s][k] = x
  BY SMTT(30), <1>3, <1>9, AppendFacts
<1>4. LocalInv(t)'
  <2>1. /\ current[t] \in AllVertices /\ distances[current[t]] # Infinity /\ seen[t] = {}
        /\ Reachable(distances, input, current[t], current_distance[t])
    BY <1>0, <1>3 DEF LocalInv, Busy, Scanning
  <2>2. AllVertices' = AllVertices /\ input' = input
    BY <1>1 DEF GraphSame, Add, graphVars
  <2>3. Reachable(distances', input', current'[t], current_distance'[t])
    BY <1>3, <2>1, <2>2
  <2> QED BY <1>3, <2>1, <2>2, <2>3 DEF LocalInv, Busy, Scanning
<1>5. WorkInv'
  <2>0. SubQueues' = SubQueues
    BY <1>1 DEF GraphSame
  <2>1. \A v \in AllVertices : Queued(v) => Queued(v)'
    BY <1>3, <1>10, <2>0 DEF Queued
  <2>2. \A v \in AllVertices : v = x => Queued(v)'
    BY <1>3, <1>10, <2>0 DEF Queued
  <2>3. ASSUME NEW v \in AllVertices, NEW w \in AllVertices, CanLower(v, w), WillLower(t, v, w)
        PROVE  Queued(v)' \/ WillLower(t, v, w)'
    <3>1. CASE v = x
      BY <2>2, <3>1
    <3>2. CASE v # x
      <4>1. current[t] = v /\ current_distance[t] = distances[v]
        BY <1>3, <1>9, <2>3, <3>2 DEF WillLower, Scanning
      <4>2. PICK j \in DOMAIN Nbrs(v) : j >= i[t] /\ Nbrs(v)[j] = w
        BY <1>3, <1>9, <2>3, <3>2 DEF WillLower, Scanning
      <4>3. j # i[t]
        <5> SUFFICES ASSUME j = i[t] PROVE FALSE
          OBVIOUS
        <5>1. distances[w] <= distances[v] + 1
          BY <1>0, <1>3, <4>1, <4>2 DEF LocalInv
        <5>2. distances[w] > distances[v] + 1
          BY <2>3 DEF CanLower
        <5>3. distances[v] \in Nat /\ distances[w] \in Nat
          BY DEF BfsTypeOK
        <5> QED BY <5>1, <5>2, <5>3
      <4>4. j \in Nat /\ i[t] \in Nat
        BY SMTT(30), <1>0 DEF GraphOK, BfsTypeOK
      <4>5. Nbrs(v)' = Nbrs(v)
        BY <1>1 DEF GraphSame
      <4>6. j >= i'[t]
        BY <1>3, <4>2, <4>3, <4>4
      <4> QED BY <1>3, <4>1, <4>2, <4>5, <4>6 DEF WillLower, Scanning
    <3> QED BY <3>1, <3>2
  <2> QED BY <1>2, <1>3, <2>1, <2>3, WorkStep
<1>6. QuiesceInv'
  <2>1. \A z \in SubQueues : Looks(t, z)'
    BY <1>3 DEF Looks, Busy
  <2> QED BY <1>2, <2>1, QuiesceStep
<1>7. \A z \in SubQueues : \A k \in DOMAIN queue'[z] :
         \/ \E j \in DOMAIN queue[z] : queue'[z][k] = queue[z][j]
         \/ queue'[z][k] \in AllVertices /\ distances'[queue'[z][k]] # Infinity
  <2>1. distances'[x] # Infinity
    <3>1. current_distance[t] + 1 <= input.n /\ distances[x] <= current_distance[t] + 1
      <4>1. current_distance[t] < input.n /\ current_distance[t] \in Nat
        BY <1>0, <1>3 DEF LocalInv, Reachable, Scanning, BfsTypeOK
      <4>2. distances[x] <= current_distance[t] + 1
        BY <1>0, <1>3, <1>9 DEF LocalInv
      <4> QED BY <4>1, <4>2, VertexBounds
    <3>2. distances[x] \in Nat /\ current_distance[t] \in Nat
      BY <1>9 DEF BfsTypeOK
    <3> HIDE DEF x
    <3> QED BY <1>3, <3>1, <3>2, VertexBounds
  <2> QED BY <1>3, <1>9, <1>10, <2>1
<1>8. \A v \in AllVertices : distances'[v] # distances[v] => Reachable(distances', input', v, distances'[v])
  BY DEF Add
<1> QED BY <1>1, <1>2, <1>3, <1>4, <1>5, <1>6, <1>7, <1>8, SearchingStep

\* The invariant, when the next neighbour is read.
LEMMA EdgeKeeps ==
  ASSUME BfsTypeOK, Searching, NEW t \in Threads, Edge(t)
  PROVE  BfsTypeOK' /\ Searching'
<1>0. GraphOK /\ LocalInv(t)
  BY LoadedFaithful DEF BfsTypeOK, Searching
<1>1. BfsTypeOK' /\ OthersSame(t) /\ GraphSame
  BY <1>0, EdgeType
<1>2. Step(t)
  BY <1>1, SameLowered, StepFacts DEF Edge
<1>3. /\ pc[t] = "edge" /\ current'[t] = current[t] /\ seen'[t] = seen[t]
      /\ current_distance'[t] = current_distance[t] /\ i'[t] = i[t] /\ distances' = distances
      /\ \/ /\ pc'[t] = "cae" /\ i[t] <= Len(Neighbors(t))
            /\ distance'[t] = distances[Neighbors(t)[i[t]]]
         \/ pc'[t] = "remove" /\ i[t] > Len(Neighbors(t))
  <2>1. t \in 0..NumThreads
    BY BfsAssumption DEF Threads
  <2> QED BY <2>1 DEF Edge, Goto, Set, BfsTypeOK, localVars
<1>9. /\ DOMAIN Neighbors(t) = 1..Len(Neighbors(t)) /\ Len(Neighbors(t)) \in Nat /\ i[t] \in Nat \ {0}
      /\ i[t] <= Len(Neighbors(t)) => /\ i[t] \in DOMAIN Neighbors(t)
                                      /\ distances[Neighbors(t)[i[t]]] \in Nat
  <2>1. DOMAIN Neighbors(t) = 1..Len(Neighbors(t)) /\ Len(Neighbors(t)) \in Nat /\ i[t] \in Nat \ {0}
    BY <1>0, <1>3, VertexUse DEF Busy, BfsTypeOK
  <2>2. i[t] <= Len(Neighbors(t)) => i[t] \in DOMAIN Neighbors(t)
    BY <2>1
  <2> QED BY <1>0, <1>3, <2>1, <2>2, VertexUse DEF Busy
<1>4. LocalInv(t)'
  <2>1. /\ current[t] \in AllVertices /\ distances[current[t]] # Infinity /\ seen[t] = {}
        /\ Reachable(distances, input, current[t], current_distance[t])
    BY <1>0, <1>3 DEF LocalInv, Busy, Scanning
  <2>2. AllVertices' = AllVertices /\ input' = input /\ \A v : Nbrs(v)' = Nbrs(v)
    BY <1>1 DEF GraphSame, Edge, graphVars
  <2>3. Reachable(distances', input', current'[t], current_distance'[t])
    BY <1>3, <2>1, <2>2
  <2>4. CASE pc'[t] = "remove"
    BY <2>4 DEF LocalInv, Busy, Scanning
  <2>5. CASE pc'[t] = "cae" /\ i[t] <= Len(Neighbors(t)) /\ distance'[t] = distances[Neighbors(t)[i[t]]]
    <3>1. i[t] \in DOMAIN Nbrs(current[t]) /\ Neighbors(t) = Nbrs(current[t])
      BY <1>9, <2>5 DEF Neighbors, Nbrs
    <3>2. distances'[Nbrs(current[t])[i[t]]] <= distance'[t]
      BY <1>3, <1>9, <2>5, <3>1
    <3> QED BY <1>3, <2>1, <2>2, <2>3, <2>5, <3>1, <3>2 DEF LocalInv, Busy, Scanning
  <2> QED BY <1>3, <2>4, <2>5
<1>5. WorkInv'
  <2>1. \A v \in AllVertices : Queued(v) => Queued(v)'
    BY <1>1 DEF Edge, Queued, GraphSame
  <2>2. ASSUME NEW v \in AllVertices, NEW w \in AllVertices, WillLower(t, v, w)
        PROVE  WillLower(t, v, w)'
    <3>1. current[t] = v /\ current_distance[t] = distances[v]
      BY <1>3, <2>2 DEF WillLower, Scanning
    <3>2. PICK j \in DOMAIN Nbrs(v) : j >= i[t] /\ Nbrs(v)[j] = w
      BY <1>3, <2>2 DEF WillLower, Scanning
    <3>3. j \in 1..Len(Neighbors(t))
      BY <1>9, <3>1, <3>2 DEF Neighbors, Nbrs
    <3>4. pc'[t] = "cae"
      BY <1>3, <1>9, <3>2, <3>3
    <3>5. Nbrs(v)' = Nbrs(v)
      BY <1>1 DEF GraphSame
    <3> QED BY <1>3, <3>1, <3>2, <3>4, <3>5 DEF WillLower, Scanning
  <2> QED BY <1>2, <2>1, <2>2, WorkStep DEF Edge
<1>6. QuiesceInv'
  <2>1. seen[t] = {}
    BY <1>0, <1>3 DEF LocalInv, Busy
  <2>2. \A s \in SubQueues : Looks(t, s)'
    BY <1>3, <2>1 DEF Looks, Busy
  <2> QED BY <1>2, <2>2, QuiesceStep
<1>7. \A s \in SubQueues : \A k \in DOMAIN queue'[s] :
         \/ \E j \in DOMAIN queue[s] : queue'[s][k] = queue[s][j]
         \/ queue'[s][k] \in AllVertices /\ distances'[queue'[s][k]] # Infinity
  BY DEF Edge
<1>8. \A v \in AllVertices : distances'[v] # distances[v] => Reachable(distances', input', v, distances'[v])
  BY DEF Edge
<1> QED BY <1>1, <1>2, <1>3, <1>4, <1>5, <1>6, <1>7, <1>8, SearchingStep

\* The invariant, when the distance of a neighbour is lowered.
LEMMA LowerDistanceKeeps ==
  ASSUME BfsTypeOK, Searching, NEW t \in Threads, LowerDistance(t)
  PROVE  BfsTypeOK' /\ Searching'
<1>0. GraphOK /\ LocalInv(t)
  BY LoadedFaithful DEF BfsTypeOK, Searching
<1>1. BfsTypeOK' /\ OthersSame(t) /\ GraphSame
  BY <1>0, LowerDistanceType
<1> DEFINE x == Neighbors(t)[i[t]]
           cd == current_distance[t]
<1>2. /\ pc[t] = "cae" /\ x \in AllVertices /\ x = Nbrs(current[t])[i[t]] /\ i[t] \in DOMAIN Nbrs(current[t])
      /\ current[t] \in AllVertices /\ distances[current[t]] # Infinity /\ seen[t] = {}
      /\ Reachable(distances, input, current[t], cd)
      /\ cd \in Nat /\ distances[x] \in Nat /\ distance[t] \in Nat
  <2>1. pc[t] = "cae" /\ distance[t] \in Nat /\ cd \in Nat
    BY DEF LowerDistance, BfsTypeOK
  <2>2. x \in AllVertices /\ distances[x] \in Nat
    BY <1>0, <2>1, VertexUse DEF Busy
  <2>3. x = Nbrs(current[t])[i[t]]
    BY DEF Neighbors, Nbrs
  <2> HIDE DEF x
  <2> QED BY <1>0, <2>1, <2>2, <2>3 DEF LocalInv, Busy, Scanning
<1>3. /\ current'[t] = current[t] /\ current_distance'[t] = cd /\ i'[t] = i[t] /\ seen'[t] = seen[t]
      /\ queue' = queue /\ cd + 1 < distance[t]
      /\ \/ /\ pc'[t] = "add" /\ distances[x] = distance[t]
            /\ distances' = [distances EXCEPT ![x] = cd + 1]
         \/ pc'[t] = "cae" /\ distance'[t] = distances[x] /\ distances' = distances
  <2>1. t \in 0..NumThreads
    BY BfsAssumption DEF Threads
  <2>2. /\ current'[t] = current[t] /\ current_distance'[t] = cd /\ i'[t] = i[t] /\ seen'[t] = seen[t]
        /\ queue' = queue /\ cd + 1 < distance[t]
    BY DEF LowerDistance, Lower
  <2>3. CASE distances[x] = distance[t]
    BY <2>1, <2>3 DEF LowerDistance, Goto, Lower, BfsTypeOK
  <2>4. CASE distances[x] # distance[t]
    BY <2>1, <2>4 DEF LowerDistance, Goto, Set, Lower, BfsTypeOK
  <2> QED BY <2>2, <2>3, <2>4
<1> HIDE DEF x
<1>4. \A v \in AllVertices : distances'[v] <= distances[v] /\ (v # x => distances'[v] = distances[v])
  BY <1>2, <1>3 DEF BfsTypeOK
<1>5. Step(t)
  BY <1>1, <1>4, StepFacts DEF LowerDistance, Lowered
<1>6. \A v \in AllVertices : distances'[v] # distances[v] => Reachable(distances', input', v, distances'[v])
  <2> SUFFICES ASSUME distances'[x] # distances[x] PROVE Reachable(distances', input', x, distances'[x])
    BY <1>4
  <2>1. distances'[x] = cd + 1 /\ distances[x] > cd + 1
    BY <1>2, <1>3 DEF BfsTypeOK
  <2>2. /\ input' = input /\ AllVertices = 1..input.n /\ input \in Inputs
        /\ distances \in [1..input.n -> Nat] /\ distances' \in [1..input.n -> Nat]
    BY <1>1, VertexBounds DEF Step, graphVars, BfsTypeOK, GraphSame, LowerDistance
  <2>3. Arc(input, current[t], x)
    BY <1>0, <1>2 DEF GraphOK
  <2>4. Reachable(distances', input, x, cd + 1)
    BY <1>2, <1>4, <2>1, <2>2, <2>3, ReachableNext
  <2> QED BY <2>1, <2>2, <2>4
<1>7. LocalInv(t)'
  <2>1. AllVertices' = AllVertices /\ input' = input /\ \A v : Nbrs(v)' = Nbrs(v)
    BY <1>1 DEF GraphSame, LowerDistance, graphVars
  <2>2. distances'[current[t]] # Infinity
    BY <1>2, <1>5, FiniteKept
  <2>3. Reachable(distances', input', current[t], cd)
    BY <1>2, <1>5, ReachableStep
  <2>4. pc'[t] \in {"add", "cae"}
    BY <1>3
  <2>5. pc'[t] = "cae" => distances'[x] <= distance'[t]
    BY <1>2, <1>3
  <2>6. pc'[t] = "add" => distances'[x] <= cd + 1
    BY <1>2, <1>3 DEF BfsTypeOK
  <2> HIDE DEF cd
  <2> QED BY <1>2, <1>3, <2>1, <2>2, <2>3, <2>4, <2>5, <2>6 DEF LocalInv, Busy, Scanning
<1>8. WorkInv'
  <2>1. input' = input /\ AllVertices' = AllVertices /\ SubQueues' = SubQueues /\ \A v : Nbrs(v)' = Nbrs(v)
    BY <1>1 DEF GraphSame, LowerDistance, graphVars
  <2> SUFFICES ASSUME NEW v \in AllVertices, NEW w \in AllVertices, Arc(input, v, w), CanLower(v, w)'
               PROVE  Queued(v)' \/ \E u \in Threads : WillLower(u, v, w)'
    BY <2>1 DEF WorkInv
  <2>2. CASE v = x /\ pc'[t] = "add"
    BY <1>2, <1>3, <2>1, <2>2 DEF WillLower
  <2>3. CASE distances'[v] = distances[v]
    <3>1. CanLower(v, w)
      <4>1. /\ distances'[v] # Infinity /\ distances'[w] > distances'[v] + 1 /\ distances'[w] <= distances[w]
            /\ distances[v] \in Nat /\ distances[w] \in Nat /\ distances'[w] \in Nat
        BY <1>1, <1>4 DEF CanLower, BfsTypeOK, GraphSame
      <4> QED BY <2>3, <4>1 DEF CanLower
    <3>2. Queued(v) \/ \E u \in Threads : WillLower(u, v, w)
      BY <3>1 DEF Searching, WorkInv
    <3>3. CASE Queued(v)
      BY <1>3, <2>1, <3>3 DEF Queued
    <3>4. ASSUME NEW u \in Threads \ {t}, WillLower(u, v, w) PROVE WillLower(u, v, w)'
      BY <1>1, <2>3, <3>4, OthersWill
    <3>5. ASSUME WillLower(t, v, w) PROVE WillLower(t, v, w)'
      <4>1. /\ current[t] = v /\ current_distance[t] = distances[v]
            /\ \E j \in DOMAIN Nbrs(v) : j >= i[t] /\ Nbrs(v)[j] = w
        BY <1>2, <3>5 DEF WillLower, Scanning
      <4>2. pc'[t] \in Scanning
        BY <1>3 DEF Scanning
      <4> QED BY <1>3, <2>1, <2>3, <4>1, <4>2 DEF WillLower
    <3> QED BY <3>2, <3>3, <3>4, <3>5
  <2> QED BY <1>3, <1>4, <2>2, <2>3
<1>9. QuiesceInv'
  <2>1. \A s \in SubQueues : Looks(t, s)'
    BY <1>3 DEF Looks, Busy
  <2> QED BY <1>5, <2>1, QuiesceStep
<1>10. pc[t] # "done" /\ pc'[t] \notin {"start", "barrier"}
  BY <1>2, <1>3
<1>11. \A s \in SubQueues : \A k \in DOMAIN queue'[s] : \E j \in DOMAIN queue[s] : queue'[s][k] = queue[s][j]
  BY <1>3
<1> QED BY <1>1, <1>5, <1>6, <1>7, <1>8, <1>9, <1>10, <1>11, SearchingStep

-----------------------------------------------------------------------------
\* What remains is the start, main, and the theorems.

\* The steps before the barrier, the barrier and the report.
LEMMA StartKeeps ==
  ASSUME BfsTypeOK, Starting, NEW t \in Threads, Start(t)
  PROVE  BfsTypeOK' /\ Starting'
<1>1. pc[t] = "start" /\ pc'[t] = "barrier" /\ GraphOK /\ LocalInv(t) /\ 0 \in Threads
  <2>1. pc[t] = "start" /\ t \in 0..NumThreads /\ 0 \in Threads
    BY BfsAssumption DEF Start, Goto, Threads
  <2>2. pc'[t] = "barrier"
    BY <2>1 DEF Start, Goto, BfsTypeOK
  <2> QED BY <2>1, <2>2, LoadedFaithful DEF LocalInv, Busy, Scanning, BfsTypeOK
<1>2. BfsTypeOK' /\ OthersSame(t) /\ GraphSame
  BY <1>1, StartType
<1>3. /\ AllVertices' = AllVertices /\ SubQueues' = SubQueues
      /\ pc'[Main] = pc[Main] /\ \A u \in Threads \ {t} : pc'[u] = pc[u]
  BY <1>2 DEF GraphSame, OthersSame, Same
<1>4. /\ \A u \in Threads : pc'[u] \in {"start", "barrier"}
      /\ pc'[Main] = "join"
  BY <1>1, <1>3 DEF Starting
<1>5. /\ \A v \in AllVertices \ {Root} : distances'[v] = Infinity
      /\ distances'[Root] = 0
  BY VertexBounds DEF Start, Starting, BfsTypeOK
<1>6. \A u \in Threads : failures'[u] = 0 /\ seen'[u] = {}
  BY DEF Start, Starting, localVars
<1>7. pc'[0] = "start" => queue' = [s \in SubQueues |-> <<>>]
  <2>1. pc'[0] = "start" => t # 0 /\ pc[0] = "start"
    BY <1>1, <1>3
  <2> QED BY <2>1 DEF Start, Starting
<1>8. pc'[0] = "barrier" => queue' = [s \in SubQueues |-> IF s = 1 THEN <<Root>> ELSE <<>>]
  <2>1. CASE t = 0
    BY <1>1, <2>1 DEF Start, Starting
  <2>2. CASE t # 0
    BY <1>1, <1>3, <2>2 DEF Start, Starting
  <2> QED BY <2>1, <2>2
<1> QED BY <1>2, <1>3, <1>4, <1>5, <1>6, <1>7, <1>8 DEF Starting

\* The invariant, at the barrier before the search.
LEMMA BarrierKeeps ==
  ASSUME BfsTypeOK, Starting, Barrier
  PROVE  BfsTypeOK' /\ Searching'
<1>1. /\ \A t \in Threads : t \in 0..NumThreads /\ t # Main /\ pc[t] = "barrier" /\ pc'[t] = "while"
      /\ Main \in 0..NumThreads /\ pc'[Main] = "join" /\ 0 \in Threads
  BY BfsAssumption DEF Barrier, Starting, Threads, Main
<1>2. GraphSame /\ UNCHANGED graphVars
  BY GraphKept DEF Barrier
<1>3. AllVertices' = AllVertices /\ SubQueues' = SubQueues /\ input' = input
  BY <1>2 DEF GraphSame, graphVars
<1>4. BfsTypeOK'
  <2>1. pc' \in [0..NumThreads -> ThreadLabels \cup {"join", "report"}]
    BY <1>1 DEF Barrier, Starting, ThreadLabels
  <2>2. \A t \in Threads : pc'[t] \in ThreadLabels
    BY <1>1 DEF ThreadLabels
  <2> QED BY <1>1, <1>2, <1>3, <2>1, <2>2 DEF BfsTypeOK, Static, graphVars, localVars, Barrier
<1>5. /\ distances' = distances /\ distances[Root] = 0
      /\ \A v \in AllVertices \ {Root} : distances[v] = Infinity
      /\ queue' = queue /\ queue = [s \in SubQueues |-> IF s = 1 THEN <<Root>> ELSE <<>>]
      /\ \A t \in Threads : failures'[t] = 0 /\ seen'[t] = {}
  BY <1>1 DEF Barrier, Starting, localVars
<1>6. Root \in AllVertices /\ input \in Inputs /\ AllVertices = 1..input.n /\ input.n \in Nat \ {0}
      /\ Infinity # 0 /\ Infinity \in Nat /\ 1 \in SubQueues
  <2>1. 1 \in SubQueues
    BY BfsAssumption DEF BfsTypeOK, Static, SubQueues
  <2>2. Infinity # 0
    BY VertexBounds
  <2> QED BY <2>1, <2>2, VertexBounds
<1>7. Reachable(distances, input, Root, 0)
  <2>1. Root \in Ball(input)[0]
    BY <1>6, BallSteps
  <2>2. Cardinality(Near(distances, input, 0)) >= 1
    <3>1. Near(distances, input, 0) = {Root}
      BY <1>5, <1>6 DEF Near
    <3> QED BY <3>1, FS_Singleton
  <2> QED BY <1>6, <2>1, <2>2 DEF Reachable
<1>8. SoundInv'
  <2>1. \A v \in AllVertices : distances[v] # Infinity => Reachable(distances, input, v, distances[v])
    BY <1>5, <1>7
  <2>2. \A s \in SubQueues : \A k \in DOMAIN queue[s] : queue[s][k] = Root
    BY <1>5
  <2> QED BY <1>3, <1>5, <1>6, <2>1, <2>2 DEF SoundInv
<1>9. \A t \in Threads : LocalInv(t)'
  BY <1>1 DEF LocalInv, Busy, Scanning
<1>10. WorkInv'
  <2> SUFFICES ASSUME NEW v \in AllVertices, distances[v] # Infinity PROVE Queued(v)'
    BY <1>3, <1>5 DEF WorkInv, CanLower
  <2>1. v = Root /\ queue'[1] = <<Root>>
    BY <1>5, <1>6
  <2>2. 1 \in DOMAIN queue'[1] /\ queue'[1][1] = v
    BY <2>1
  <2> QED BY <1>3, <1>6, <2>2 DEF Queued
<1>11. QuiesceInv'
  <2>1. \A s : Looks(0, s)'
    BY <1>1, <1>5 DEF Looks
  <2> QED BY <1>1, <2>1 DEF QuiesceInv
<1>12. ReportInv'
  BY <1>1 DEF ReportInv
<1> QED BY <1>1, <1>4, <1>5, <1>8, <1>9, <1>10, <1>11, <1>12 DEF Searching

\* The invariant, when main reports.
LEMMA ReportKeeps ==
  ASSUME BfsTypeOK, Searching, Report
  PROVE  BfsTypeOK' /\ Searching'
<1>1. /\ \A t \in Threads : t # Main /\ pc[t] = "done" /\ pc'[t] = "done"
      /\ Main \in 0..NumThreads /\ pc'[Main] = "report"
      /\ pc' \in [0..NumThreads -> ThreadLabels \cup {"join", "report"}]
  BY SMTT(30), BfsAssumption DEF Report, Goto, Threads, Main, BfsTypeOK
<1>2. GraphSame /\ UNCHANGED graphVars
  BY GraphKept DEF Report
<1>3. AllVertices' = AllVertices /\ SubQueues' = SubQueues /\ input' = input
      /\ distances' = distances /\ queue' = queue /\ UNCHANGED localVars
  BY <1>2 DEF GraphSame, graphVars, Report
<1>4. BfsTypeOK'
  <2>1. "done" \in ThreadLabels
    BY DEF ThreadLabels
  <2> QED BY <1>1, <1>2, <1>3, <2>1 DEF BfsTypeOK, Static, graphVars, localVars
<1>5. SoundInv'
  BY <1>3 DEF Searching, SoundInv
<1>6. \A t \in Threads : LocalInv(t)'
  BY <1>1 DEF LocalInv, Busy, Scanning
<1>7. WorkInv'
  <2>1. \A v : Queued(v)' <=> Queued(v)
    BY <1>3 DEF Queued
  <2>2. \A t \in Threads : \A v, w : ~ WillLower(t, v, w)
    BY <1>1 DEF WillLower, Scanning
  <2> QED BY <1>3, <2>1, <2>2 DEF Searching, WorkInv, CanLower
<1>8. QuiesceInv'
  <2>1. \A t \in Threads : \A s : ~ Looks(t, s)
    BY <1>1 DEF Looks, Busy
  <2> QED BY <1>3, <2>1 DEF Searching, QuiesceInv
<1>9. ReportInv'
  <2>1. Reached' = Reached
    BY <1>3 DEF Reached
  <2> QED BY <1>1, <1>3, <2>1 DEF ReportInv, Report
<1>10. distances'[Root] = 0 /\ \A t \in Threads : pc'[t] \notin {"start", "barrier"}
  BY <1>1, <1>3 DEF Searching
<1> QED BY <1>4, <1>5, <1>6, <1>7, <1>8, <1>9, <1>10 DEF Searching

\* Every step of test-bfs.c keeps the invariant.
LEMMA BfsInvNext == BfsInv /\ [Next]_vars => BfsInv'
<1> SUFFICES ASSUME BfsInv, [Next]_vars PROVE BfsInv'
  OBVIOUS
<1>1. BfsTypeOK
  BY DEF BfsInv
<1>2. 0 \in Threads
  BY BfsAssumption DEF Threads
<1>3. CASE Starting /\ Next
  <2>1. pc[Main] = "join" /\ \A t \in Threads : pc[t] \in {"start", "barrier"}
    BY <1>3 DEF Starting
  <2>2. CASE Report
    BY <1>2, <2>1, <2>2 DEF Report
  <2>3. CASE Barrier
    BY <1>1, <1>3, <2>3, BarrierKeeps DEF BfsInv
  <2>4. ASSUME NEW t \in Threads, ThreadStep(t) PROVE BfsInv'
    <3>1. Start(t)
      BY <2>1, <2>4 DEF ThreadStep, While, Take, Miss, MarkActive, ReadDistance, Edge, NotLower,
                        LowerDistance, Add, Idle, Goto
    <3> QED BY <1>1, <1>3, <3>1, StartKeeps DEF BfsInv
  <2> QED BY <1>3, <2>2, <2>3, <2>4 DEF Next
<1>4. CASE Searching /\ Next
  <2>1. \A t \in Threads : pc[t] \notin {"start", "barrier"}
    BY <1>4 DEF Searching
  <2>2. CASE Report
    BY <1>1, <1>4, <2>2, ReportKeeps DEF BfsInv
  <2>3. CASE Barrier
    BY <1>2, <2>1, <2>3 DEF Barrier
  <2>4. ASSUME NEW t \in Threads, ThreadStep(t) PROVE BfsInv'
    <3>1. ~ Start(t)
      BY <2>1 DEF Start, Goto
    <3> QED BY <1>1, <1>4, <2>4, <3>1, WhileKeeps, TakeKeeps, MissKeeps, MarkActiveKeeps,
               ReadDistanceKeeps, EdgeKeeps, NotLowerKeeps, LowerDistanceKeeps, AddKeeps, IdleKeeps
            DEF ThreadStep, BfsInv
  <2> QED BY <1>4, <2>2, <2>3, <2>4 DEF Next
<1>5. CASE UNCHANGED vars
  <2>1. GraphSame
    BY <1>5, GraphKept DEF vars
  <2>2. AllVertices' = AllVertices /\ SubQueues' = SubQueues /\ \A v : Nbrs(v)' = Nbrs(v)
    BY <2>1 DEF GraphSame
  <2>3. BfsTypeOK'
    BY <1>1, <1>5, <2>2 DEF vars, graphVars, localVars, BfsTypeOK, Static
  <2>4. Starting => Starting'
    BY <1>5, <2>2 DEF vars, localVars, Starting
  <2>5. ASSUME Searching PROVE Searching'
    <3>1. SoundInv'
      BY <1>5, <2>2, <2>5 DEF vars, graphVars, Searching, SoundInv
    <3>2. \A t \in Threads : LocalInv(t)'
      BY <1>5, <2>2, <2>5 DEF vars, graphVars, localVars, Searching, LocalInv
    <3>3. WorkInv'
      <4>1. \A v : Queued(v)' <=> Queued(v)
        BY <1>5, <2>2 DEF vars, Queued
      <4>2. \A t \in Threads : \A v, w : WillLower(t, v, w) => WillLower(t, v, w)'
        BY <1>5, <2>2 DEF vars, localVars, WillLower
      <4> QED BY <1>5, <2>2, <2>5, <4>1, <4>2 DEF vars, graphVars, Searching, WorkInv, CanLower
    <3>4. QuiesceInv'
      BY <1>5, <2>2, <2>5 DEF vars, localVars, Searching, QuiesceInv, Looks
    <3>5. ReportInv'
      BY <1>5, <2>2, <2>5 DEF vars, Searching, ReportInv, Reached
    <3> QED BY <1>5, <2>5, <3>1, <3>2, <3>3, <3>4, <3>5 DEF vars, Searching
  <2> QED BY <2>3, <2>4, <2>5 DEF BfsInv
<1> QED BY <1>3, <1>4, <1>5 DEF BfsInv

\* Bfs!DistancesExact for every number of threads and of sub-queues, every input and every
\* value of MAX_FAILURES.
THEOREM SearchRight == Spec => []DistancesExact
<1>1. Spec => []BfsInv
  BY InitInv, BfsInvNext, PTL DEF Spec
<1> QED BY <1>1, BfsInvImpliesExact, PTL

\* In a run of test-bfs.c the variables of the search satisfy its invariant.
SuiteBfsInv == sys = "bfs" => BfsInv

\* The invariant of the search holds in every state of a program.
LEMMA SuiteBfsInvariant == SuiteSpec => []SuiteBfsInv
<1>1. SuiteInit => SuiteBfsInv
  BY InitInv DEF SuiteInit, SuiteBfsInv
<1>2. SuiteBfsInv /\ [SuiteNext]_allVars => SuiteBfsInv'
  <2>1. CASE sys # "bfs" /\ [SuiteNext]_allVars
    BY <2>1 DEF SuiteNext, SuiteBfsInv, allVars
  <2>2. CASE SuiteBfsInv /\ sys = "bfs" /\ [SuiteNext]_allVars
    <3>1. BfsInv /\ [Next]_vars
      BY <2>2 DEF SuiteNext, SuiteBfsInv, allVars, bfsVars, vars, graphVars
    <3> QED BY <3>1, BfsInvNext DEF SuiteBfsInv
  <2> QED BY <2>1, <2>2
<1> QED BY <1>1, <1>2, PTL DEF SuiteSpec

\* MCPrograms!DistancesRight, which is Bfs!DistancesExact of a run of test-bfs.c: main reports
\* the distances, the number of vertices and the sum of a sequential search, for every number of
\* threads and of sub-queues, every input and every value of MAX_FAILURES.
THEOREM DistancesRightHolds == SuiteSpec => []DistancesRight
<1>1. SuiteBfsInv => DistancesRight
  BY BfsInvImpliesExact DEF SuiteBfsInv, DistancesRight
<1> QED BY <1>1, SuiteBfsInvariant, PTL

\* MCPrograms!NoWorkForgotten, which is Bfs!WorkPending: run_bfs never loses a vertex that could
\* lower the distance of a neighbour.
THEOREM NoWorkForgottenHolds == SuiteSpec => []NoWorkForgotten
<1>1. SuiteBfsInv => NoWorkForgotten
  BY BfsInvImpliesPending DEF SuiteBfsInv, NoWorkForgotten
<1> QED BY <1>1, SuiteBfsInvariant, PTL

-----------------------------------------------------------------------------
\* Sums over finite sets: SumFunctionOnSet is a fold in an unspecified order.
Picked(s) == CHOOSE x \in s : TRUE

IsSum(f, A, h) == h = [s \in SUBSET A |->
                         IF s = {} THEN 0 ELSE f[Picked(s)] + h[s \ {Picked(s)}]]

\* SumFunctionOnSet is defined by a recursion over the subsets of A.
LEMMA SumUnfolds ==
  ASSUME NEW f, NEW A
  PROVE  SumFunctionOnSet(f, A) = (CHOOSE h : IsSum(f, A, h))[A]
BY DEF SumFunctionOnSet, FoldFunctionOnSet, MapThenFoldSet, Picked, IsSum

\* The element a finite sum takes first.
LEMMA PickedFacts ==
  ASSUME NEW s, IsFiniteSet(s), s # {}
  PROVE  /\ Picked(s) \in s
         /\ IsFiniteSet(s \ {Picked(s)}) /\ Cardinality(s) \in Nat \ {0}
         /\ Cardinality(s \ {Picked(s)}) = Cardinality(s) - 1
<1>1. Picked(s) \in s
  BY DEF Picked
<1>2. Cardinality(s) \in Nat /\ Cardinality(s) # 0
  BY FS_CardinalityType, FS_EmptySet
<1> QED BY <1>1, <1>2, FS_RemoveElement

\* That recursion has a solution, because A is finite.
LEMMA SumExists ==
  ASSUME NEW A, IsFiniteSet(A), NEW f, \A x \in A : f[x] \in Int
  PROVE  \E h : IsSum(f, A, h) /\ h \in [SUBSET A -> Int]
<1> DEFINE X == [SUBSET A -> Int]
           Next1(h) == [s \in SUBSET A |-> IF s = {} THEN 0 ELSE f[Picked(s)] + h[s \ {Picked(s)}]]
           x0 == [s \in SUBSET A |-> 0]
           N == Cardinality(A)
           S == [k \in 1..N |-> [h \in X |-> Next1(h)]]
<1>0. /\ N \in Nat
      /\ \A s \in SUBSET A : IsFiniteSet(s) /\ Cardinality(s) \in 0..N
      /\ \A s \in SUBSET A : s # {} => /\ Picked(s) \in s
                                       /\ Cardinality(s) # 0
                                       /\ Cardinality(s \ {Picked(s)}) = Cardinality(s) - 1
  BY FS_CardinalityType, FS_Subset, PickedFacts
<1> HIDE DEF N
<1>1. S \in [1..N -> [X -> X]] /\ x0 \in X
  <2>1. ASSUME NEW h \in X PROVE Next1(h) \in X
    <3>1. ASSUME NEW s \in SUBSET A, s # {} PROVE f[Picked(s)] + h[s \ {Picked(s)}] \in Int
      <4>1. f[Picked(s)] \in Int /\ s \ {Picked(s)} \in SUBSET A
        BY <1>0, <3>1
      <4> QED BY <4>1
    <3> QED BY <3>1
  <2>2. x0 \in X
    OBVIOUS
  <2> HIDE DEF X, Next1
  <2> QED BY <2>1, <2>2
<1>2. PICK F : Computes(F, X, x0, S, N)
  <2> HIDE DEF S, X, x0
  <2> QED BY <1>0, <1>1, Recursion
<1>3. F \in [0..N -> X] /\ F[0] = x0 /\ \A k \in 1..N : F[k] = Next1(F[k - 1])
  <2> HIDE DEF X, Next1, x0
  <2>1. F \in [0..N -> X] /\ F[0] = x0 /\ \A k \in 1..N : F[k] = S[k][F[k - 1]]
    <3> HIDE DEF S
    <3> QED BY <1>2 DEF Computes
  <2>2. ASSUME NEW k \in 1..N PROVE F[k] = Next1(F[k - 1])
    <3>1. k - 1 \in 0..N
      BY <1>0
    <3>2. F[k - 1] \in X
      BY <2>1, <3>1
    <3>3. S[k][F[k - 1]] = Next1(F[k - 1])
      BY <3>2
    <3> HIDE DEF S
    <3> QED BY <2>1, <3>3
  <2> QED BY <2>1, <2>2
<1> DEFINE h == [s \in SUBSET A |-> F[Cardinality(s)][s]]
<1>4. \A s \in SUBSET A : F[Cardinality(s)] \in X
  <2> HIDE DEF X
  <2> QED BY <1>0, <1>3
<1>5. h \in X
  BY <1>4
<1>6. ASSUME NEW s \in SUBSET A
      PROVE  h[s] = IF s = {} THEN 0 ELSE f[Picked(s)] + h[s \ {Picked(s)}]
  <2>1. CASE s = {}
    <3>1. Cardinality(s) = 0
      BY <2>1, FS_EmptySet
    <3> QED BY <1>3, <2>1, <3>1
  <2>2. CASE s # {}
    <3> DEFINE k == Cardinality(s)
               r == s \ {Picked(s)}
    <3>1. k \in 1..N /\ Cardinality(r) = k - 1 /\ r \in SUBSET A
      BY <1>0, <2>2
    <3>2. F[k] = Next1(F[k - 1])
      BY <1>3, <3>1
    <3>3. F[k][s] = f[Picked(s)] + F[k - 1][r]
      BY <2>2, <3>2
    <3>4. h[s] = F[k][s] /\ h[r] = F[k - 1][r]
      BY <3>1
    <3> QED BY <2>2, <3>3, <3>4
  <2> QED BY <2>1, <2>2
<1> HIDE DEF X
<1>7. h = [s \in SUBSET A |-> h[s]]
  OBVIOUS
<1> HIDE DEF h
<1>8. IsSum(f, A, h)
  BY <1>6, <1>7 DEF IsSum
<1> QED BY <1>5, <1>8 DEF X

\* Equal terms have equal sums.
LEMMA SumAgrees ==
  ASSUME NEW f, NEW A, NEW h, IsSum(f, A, h), NEW g1, NEW B, NEW k, IsSum(g1, B, k),
         NEW C, IsFiniteSet(C), C \subseteq A, C \subseteq B, \A x \in C : f[x] = g1[x]
  PROVE  h[C] = k[C]
<1> DEFINE T == {n \in Nat : \A s \in SUBSET C : Cardinality(s) = n => h[s] = k[s]}
<1>1. \A s \in SUBSET C : /\ h[s] = IF s = {} THEN 0 ELSE f[Picked(s)] + h[s \ {Picked(s)}]
                          /\ k[s] = IF s = {} THEN 0 ELSE g1[Picked(s)] + k[s \ {Picked(s)}]
  BY DEF IsSum
<1>2. \A s \in SUBSET C : IsFiniteSet(s) /\ Cardinality(s) \in Nat /\ (Cardinality(s) = 0 <=> s = {})
  BY FS_Subset, FS_CardinalityType, FS_EmptySet
<1>3. 0 \in T
  BY <1>1, <1>2
<1>4. \A n \in Nat : n \in T => n + 1 \in T
  <2> SUFFICES ASSUME NEW n \in Nat, n \in T, NEW s \in SUBSET C, Cardinality(s) = n + 1
               PROVE  h[s] = k[s]
    OBVIOUS
  <2>1. s # {}
    BY <1>2
  <2>2. Picked(s) \in s /\ Cardinality(s \ {Picked(s)}) = n
    BY <1>2, <2>1, PickedFacts
  <2>3. h[s \ {Picked(s)}] = k[s \ {Picked(s)}]
    BY <2>2
  <2> QED BY <1>1, <2>1, <2>2, <2>3
<1> HIDE DEF T
<1>5. Nat \subseteq T
  BY <1>3, <1>4, SetInduction
<1> QED BY <1>2, <1>5 DEF T

\* What the sum over a set is: nothing over the empty set, and one item more than over the rest.
LEMMA SumEquation ==
  ASSUME NEW A, IsFiniteSet(A), NEW f, \A x \in A : f[x] \in Int
  PROVE  /\ SumFunctionOnSet(f, A) \in Int
         /\ A = {} => SumFunctionOnSet(f, A) = 0
         /\ A # {} => SumFunctionOnSet(f, A)
                      = f[Picked(A)] + SumFunctionOnSet(f, A \ {Picked(A)})
<1>1. ASSUME NEW B, B \subseteq A
      PROVE  \E h : IsSum(f, B, h) /\ h \in [SUBSET B -> Int] /\ SumFunctionOnSet(f, B) = h[B]
  <2>1. IsFiniteSet(B) /\ \A x \in B : f[x] \in Int
    BY <1>1, FS_Subset
  <2>2. PICK h : IsSum(f, B, h) /\ h \in [SUBSET B -> Int]
    BY <2>1, SumExists
  <2> DEFINE k == CHOOSE q : IsSum(f, B, q)
  <2>3. IsSum(f, B, k)
    BY <2>2
  <2>4. SumFunctionOnSet(f, B) = k[B]
    BY SumUnfolds
  <2> HIDE DEF k
  <2>5. k[B] = h[B]
    BY <2>1, <2>2, <2>3, SumAgrees
  <2> QED BY <2>2, <2>4, <2>5
<1>2. PICK h : IsSum(f, A, h) /\ h \in [SUBSET A -> Int] /\ SumFunctionOnSet(f, A) = h[A]
  BY <1>1
<1>3. h[A] = IF A = {} THEN 0 ELSE f[Picked(A)] + h[A \ {Picked(A)}]
  BY <1>2 DEF IsSum
<1>4. ASSUME A # {} PROVE SumFunctionOnSet(f, A \ {Picked(A)}) = h[A \ {Picked(A)}]
  <2> DEFINE B == A \ {Picked(A)}
  <2>1. B \subseteq A /\ IsFiniteSet(B)
    BY FS_Subset
  <2> HIDE DEF B
  <2>2. PICK k : IsSum(f, B, k) /\ SumFunctionOnSet(f, B) = k[B]
    BY <1>1, <2>1
  <2>3. h[B] = k[B]
    BY <1>2, <2>1, <2>2, SumAgrees
  <2> QED BY <2>2, <2>3 DEF B
<1> QED BY <1>2, <1>3, <1>4

\* Functions that agree on a set have the same sum over it.
LEMMA SumCongruence ==
  ASSUME NEW A, IsFiniteSet(A), NEW f, \A x \in A : f[x] \in Int, NEW g1, \A x \in A : g1[x] = f[x]
  PROVE  SumFunctionOnSet(g1, A) = SumFunctionOnSet(f, A)
<1> DEFINE h == CHOOSE q : IsSum(f, A, q)
           k == CHOOSE q : IsSum(g1, A, q)
<1>1. \E q : IsSum(f, A, q)
  BY SumExists
<1>2. \E q : IsSum(g1, A, q)
  <2>1. \A x \in A : g1[x] \in Int
    OBVIOUS
  <2> QED BY <2>1, SumExists
<1>3. IsSum(f, A, h) /\ IsSum(g1, A, k)
  BY <1>1, <1>2
<1>4. SumFunctionOnSet(f, A) = h[A] /\ SumFunctionOnSet(g1, A) = k[A]
  BY SumUnfolds
<1> HIDE DEF h, k
<1>5. k[A] = h[A]
  BY <1>3, SumAgrees
<1> QED BY <1>4, <1>5

\* The order does not matter: any element may come first.
LEMMA SumRemove ==
  ASSUME NEW A, IsFiniteSet(A), NEW f, \A x \in A : f[x] \in Int, NEW y \in A
  PROVE  SumFunctionOnSet(f, A) = f[y] + SumFunctionOnSet(f, A \ {y})
<1> DEFINE Holds(s) == \A x \in s : SumFunctionOnSet(f, s) = f[x] + SumFunctionOnSet(f, s \ {x})
           T == {n \in Nat : \A s \in SUBSET A : Cardinality(s) = n => Holds(s)}
<1>1. \A s \in SUBSET A : /\ IsFiniteSet(s) /\ Cardinality(s) \in Nat /\ (Cardinality(s) = 0 <=> s = {})
                          /\ \A x \in s : Cardinality(s \ {x}) = Cardinality(s) - 1
  BY FS_Subset, FS_CardinalityType, FS_EmptySet, FS_RemoveElement
<1>2. \A s \in SUBSET A :
        /\ SumFunctionOnSet(f, s) \in Int
        /\ s # {} => /\ Picked(s) \in s
                     /\ SumFunctionOnSet(f, s) = f[Picked(s)] + SumFunctionOnSet(f, s \ {Picked(s)})
  <2> TAKE s \in SUBSET A
  <2>1. IsFiniteSet(s) /\ \A x \in s : f[x] \in Int
    BY <1>1
  <2> QED BY <2>1, SumEquation, PickedFacts
<1>3. 0 \in T
  BY <1>1
<1>4. \A n \in Nat : n \in T => n + 1 \in T
  <2> SUFFICES ASSUME NEW n \in Nat, n \in T, NEW s \in SUBSET A, Cardinality(s) = n + 1, NEW x \in s
               PROVE  SumFunctionOnSet(f, s) = f[x] + SumFunctionOnSet(f, s \ {x})
    OBVIOUS
  <2> DEFINE c == Picked(s)
  <2>1. c \in s /\ SumFunctionOnSet(f, s) = f[c] + SumFunctionOnSet(f, s \ {c})
    BY <1>2
  <2> HIDE DEF c
  <2>2. CASE c # x
    <3>1. /\ Cardinality(s \ {c}) = n /\ Cardinality(s \ {x}) = n
          /\ s \ {c} \in SUBSET A /\ s \ {x} \in SUBSET A
      BY <1>1, <2>1
    <3>2. SumFunctionOnSet(f, s \ {c}) = f[x] + SumFunctionOnSet(f, (s \ {c}) \ {x})
      BY <2>2, <3>1
    <3>3. SumFunctionOnSet(f, s \ {x}) = f[c] + SumFunctionOnSet(f, (s \ {x}) \ {c})
      BY <2>1, <2>2, <3>1
    <3>4. (s \ {c}) \ {x} = (s \ {x}) \ {c} /\ (s \ {c}) \ {x} \in SUBSET A
      <4>1. (s \ {c}) \ {x} = (s \ {x}) \ {c}
        BY Zenon
      <4> QED BY <4>1
    <3>5. /\ f[c] \in Int /\ f[x] \in Int
          /\ SumFunctionOnSet(f, (s \ {c}) \ {x}) \in Int
      BY <1>2, <2>1, <3>4
    <3>6. SumFunctionOnSet(f, s \ {x}) = f[c] + SumFunctionOnSet(f, (s \ {c}) \ {x})
      BY ONLY <3>3, <3>4, Zenon
    <3>7. \A a, b, d \in Int : a + (b + d) = b + (a + d)
      OBVIOUS
    <3>8. f[c] + (f[x] + SumFunctionOnSet(f, (s \ {c}) \ {x}))
          = f[x] + (f[c] + SumFunctionOnSet(f, (s \ {c}) \ {x}))
      BY ONLY <3>5, <3>7, Zenon
    <3> QED BY ONLY <2>1, <3>2, <3>6, <3>8, Zenon
  <2> QED BY <2>1, <2>2
<1> HIDE DEF T, Holds
<1>5. Nat \subseteq T
  BY <1>3, <1>4, SetInduction
<1>6. Holds(A)
  BY <1>1, <1>5 DEF T
<1> QED BY <1>6 DEF Holds

\* A change of one value changes the sum by as much.
LEMMA SumUpdate ==
  ASSUME NEW A, IsFiniteSet(A), NEW f, \A x \in A : f[x] \in Int, NEW y \in A,
         NEW h, h[y] \in Int, \A x \in A \ {y} : h[x] = f[x]
  PROVE  SumFunctionOnSet(h, A) = SumFunctionOnSet(f, A) + (h[y] - f[y])
<1>1. IsFiniteSet(A \ {y}) /\ \A x \in A : h[x] \in Int
  BY FS_RemoveElement
<1>2. SumFunctionOnSet(f, A) = f[y] + SumFunctionOnSet(f, A \ {y})
  BY SumRemove
<1>3. SumFunctionOnSet(h, A) = h[y] + SumFunctionOnSet(h, A \ {y})
  BY <1>1, SumRemove
<1>4. SumFunctionOnSet(h, A \ {y}) = SumFunctionOnSet(f, A \ {y})
  BY <1>1, SumCongruence
<1>5. SumFunctionOnSet(f, A \ {y}) \in Int
  BY <1>1, SumEquation
<1> QED BY <1>2, <1>3, <1>4, <1>5

-----------------------------------------------------------------------------
\* The barriers of a benchmark

Everybody == Bench!Threads \cup {Bench!Main}

\* Every party has begun n crossings of b, those that wait for the others one more.
BarrierInv ==
  /\ asleep \in [Bench!Barriers -> SUBSET Everybody]
  /\ crossing \in [Bench!Barriers -> Nat]
  /\ arrived \in [Bench!Barriers -> [Everybody -> Nat]]
  /\ \A b \in Bench!Barriers :
       /\ asleep[b] \subseteq Bench!Parties(b)
       /\ crossing[b] = Cardinality(asleep[b])
       /\ crossing[b] < Bench!Count(b)
       /\ \E n \in Nat : \A p \in Bench!Parties(b) :
            arrived[b][p] = IF p \in asleep[b] THEN n + 1 ELSE n

\* Where the threads are after so many crossings of the two barriers.
Phase0 == {"none", "start", "ready"}
Phase1 == {"register", "fill"}
Phase2 == {"before", "go", "loop", "rest"}
Phase3 == {"after", "sized"}
Phase4 == {"share", "print", "exit", "abort"}
BeforeLoop == Phase0 \cup Phase1 \cup {"before", "go"}
BenchLabels == Phase0 \cup Phase1 \cup Phase2 \cup Phase3 \cup Phase4
MainLabels == {"options", "create", "run", "join", "report"}

AtPhase(l, n, m) ==
  /\ l \in BenchLabels
  /\ l \in Phase0 <=> n = 0
  /\ l \in Phase1 <=> n = 1
  /\ l \in Phase2 <=> n = 2
  /\ l \in Phase3 <=> n = 3
  /\ m = IF l \in BeforeLoop THEN 0 ELSE 1

PhaseInv ==
  /\ pc \in [Everybody -> BenchLabels \cup MainLabels]
  /\ \A t \in Bench!Threads : AtPhase(pc[t], arrived["barrier"][t], arrived["barrier_global"][t])
  /\ created \in Nat /\ \A t \in Bench!Threads : t >= created => pc[t] = "none"
  /\ pc[Bench!Main] = "options" => created = 0

\* What the steps do to the barriers and to the place of the one who takes them.
Crossings == {<<"ready", "register">>, <<"fill", "before">>, <<"loop", "after">>, <<"rest", "after">>,
              <<"after", "share">>, <<"sized", "share">>, <<"print", "print">>, <<"print", "exit">>}
GlobalCrossings == {<<"go", "loop">>, <<"before", "loop">>}
Moves == {<<"start", "ready">>, <<"register", "fill">>, <<"fill", "fill">>, <<"before", "before">>,
          <<"before", "go">>, <<"loop", "loop">>, <<"loop", "rest">>, <<"rest", "loop">>,
          <<"after", "after">>, <<"after", "sized">>, <<"share", "abort">>, <<"share", "print">>}

ControlStep(t) ==
  \/ \E m \in Crossings : Bench!Goto(t, m[1], m[2]) /\ Bench!barrier_cross(t, "barrier")
  \/ \E m \in GlobalCrossings : Bench!Goto(t, m[1], m[2]) /\ Bench!barrier_cross(t, "barrier_global")
  \/ \E m \in Moves : Bench!Goto(t, m[1], m[2]) /\ UNCHANGED <<crossing, asleep, arrived>>

\* Every step of a thread is one of these.
LEMMA ThreadControl ==
  ASSUME NEW t \in Bench!Threads, Bench!ThreadStep(t)
  PROVE  ControlStep(t) /\ UNCHANGED created
<1> USE DEF Bench!barrierVars, Bench!mainVars, Bench!containerVars, Bench!myVars
<1> DEFINE Goal == ControlStep(t) /\ UNCHANGED created
<1>1. CASE Bench!Start(t)
  BY <1>1 DEF Bench!Start, ControlStep, Moves
<1>2. CASE Bench!Ready(t)
  BY <1>2 DEF Bench!Ready, Bench!Cross, ControlStep, Crossings
<1>3. CASE Bench!Register(t)
  BY <1>3 DEF Bench!Register, ControlStep, Moves
<1>4. CASE Bench!Fill(t)
  BY <1>4 DEF Bench!Fill, ControlStep, Moves
<1>5. CASE Bench!Filled(t)
  BY <1>5 DEF Bench!Filled, Bench!Cross, ControlStep, Crossings
<1>6. CASE Bench!BeforeSize(t)
  BY <1>6 DEF Bench!BeforeSize, Bench!SizeStep, Bench!SizeDone, ControlStep, Moves
<1>7. CASE Bench!Go(t)
  BY <1>7 DEF Bench!Go, Bench!Cross, ControlStep, GlobalCrossings
<1>8. CASE Bench!LoopPut(t) \/ Bench!LoopRemove(t) \/ Bench!LoopRemoveFails(t)
  BY <1>8 DEF Bench!LoopPut, Bench!LoopRemove, Bench!LoopRemoveFails, Bench!InLoop, ControlStep, Moves
<1>9. CASE Bench!EndBatch(t)
  BY <1>9 DEF Bench!EndBatch, ControlStep, Moves
<1>10. CASE Bench!Rest(t)
  BY <1>10 DEF Bench!Rest, ControlStep, Moves
<1>11. CASE Bench!WakeUp(t)
  BY <1>11 DEF Bench!WakeUp, ControlStep, Moves
<1>12. CASE Bench!LeaveLoop(t)
  BY <1>12 DEF Bench!LeaveLoop, Bench!Cross, ControlStep, Crossings
<1>13. CASE Bench!AfterSize(t)
  BY <1>13 DEF Bench!AfterSize, Bench!SizeStep, Bench!SizeDone, Bench!Cross, ControlStep, Moves, Crossings
<1>14. CASE Bench!Share(t)
  BY <1>14 DEF Bench!Share, ControlStep, Moves
<1>15. CASE Bench!PrintInOrder(t)
  BY <1>15 DEF Bench!PrintInOrder, ControlStep, Crossings
<1> QED BY <1>1, <1>2, <1>3, <1>4, <1>5, <1>6, <1>7, <1>8, <1>9, <1>10, <1>11, <1>12, <1>13,
           <1>14, <1>15 DEF Bench!ThreadStep

MainControl ==
  \/ /\ Bench!Goto(Bench!Main, "options", "create") /\ UNCHANGED <<crossing, asleep, arrived, created>>
  \/ /\ pc[Bench!Main] = "create" /\ created < NumThreads /\ created' = created + 1
     /\ pc' = [pc EXCEPT ![created] = "start"]
     /\ UNCHANGED <<crossing, asleep, arrived>>
  \/ /\ Bench!Goto(Bench!Main, "create", "run")
     /\ Bench!barrier_cross(Bench!Main, "barrier_global")
     /\ UNCHANGED created
  \/ /\ \E to \in {"run", "join"} : Bench!Goto(Bench!Main, "run", to)
     /\ UNCHANGED <<crossing, asleep, arrived, created>>
  \/ /\ Bench!Goto(Bench!Main, "join", "report")
     /\ UNCHANGED <<crossing, asleep, arrived, created>>

\* The places of the threads and of main, after a step of main.
LEMMA MainControls ==
  ASSUME Bench!MainStep
  PROVE  MainControl
<1> USE DEF Bench!barrierVars, Bench!mainVars, Bench!containerVars, Bench!myVars
<1>1. CASE Bench!Setup
  BY <1>1 DEF Bench!Setup, MainControl
<1>2. CASE Bench!CreateThread
  BY <1>2 DEF Bench!CreateThread, MainControl
<1>3. CASE Bench!StartTest
  BY <1>3 DEF Bench!StartTest, Bench!Cross, MainControl
<1>4. CASE Bench!UpdateSize
  BY <1>4 DEF Bench!UpdateSize, MainControl
<1>5. CASE Bench!Stop
  BY <1>5 DEF Bench!Stop, MainControl
<1>6. CASE Bench!Join
  BY <1>6 DEF Bench!Join, MainControl
<1> QED BY <1>1, <1>2, <1>3, <1>4, <1>5, <1>6 DEF Bench!MainStep

\* The parties of a barrier are as many as barrier_init counts.
LEMMA PartyFacts ==
  /\ NumThreads \in Nat \ {0} /\ Bench!Threads = 0..(NumThreads - 1) /\ Bench!Main = NumThreads
  /\ 0 \in Bench!Threads /\ Bench!Main \notin Bench!Threads
  /\ IsFiniteSet(Bench!Threads) /\ Cardinality(Bench!Threads) = NumThreads
  /\ \A b \in Bench!Barriers : /\ Bench!Parties(b) \subseteq Everybody
                               /\ IsFiniteSet(Bench!Parties(b))
                               /\ Cardinality(Bench!Parties(b)) = Bench!Count(b)
  /\ Bench!Threads \subseteq Bench!Parties("barrier")
  /\ Bench!Threads \subseteq Bench!Parties("barrier_global")
  /\ Bench!Main \in Bench!Parties("barrier_global")
<1>1. /\ NumThreads \in Nat \ {0} /\ Bench!Threads = 0..(NumThreads - 1) /\ Bench!Main = NumThreads
      /\ 0 \in Bench!Threads /\ Bench!Main \notin Bench!Threads
  BY BenchAssumption DEF Bench!HarnessAssumption, Bench!Threads, Bench!Main
<1>2. IsFiniteSet(Bench!Threads) /\ Cardinality(Bench!Threads) = NumThreads
  <2>1. Cardinality(0..(NumThreads - 1)) = NumThreads /\ IsFiniteSet(0..(NumThreads - 1))
    BY <1>1, FS_Interval
  <2> QED BY <1>1, <2>1
<1>3. IsFiniteSet(Everybody) /\ Cardinality(Everybody) = NumThreads + 1
  <2>1. /\ IsFiniteSet(Bench!Threads \cup {Bench!Main})
        /\ Cardinality(Bench!Threads \cup {Bench!Main}) = Cardinality(Bench!Threads) + 1
    BY ZenonT(60), <1>1, <1>2, FS_AddElement
  <2> QED BY <1>2, <2>1 DEF Everybody
<1>4. /\ Bench!Parties("barrier") = Bench!Threads /\ Bench!Count("barrier") = NumThreads
      /\ Bench!Parties("barrier_global") = Everybody /\ Bench!Count("barrier_global") = NumThreads + 1
      /\ Bench!Barriers = {"barrier", "barrier_global"}
  BY DEF Bench!Parties, Bench!Count, Everybody, Bench!Barriers
<1>5. Bench!Threads \subseteq Everybody /\ Bench!Main \in Everybody
  BY DEF Everybody
<1>6. ASSUME NEW b \in Bench!Barriers
      PROVE  /\ Bench!Parties(b) \subseteq Everybody
             /\ IsFiniteSet(Bench!Parties(b))
             /\ Cardinality(Bench!Parties(b)) = Bench!Count(b)
  BY <1>2, <1>3, <1>4, <1>5
<1> QED BY <1>1, <1>2, <1>4, <1>5, <1>6

\* barrier_cross keeps BarrierInv: the last party to come wakes the others.
LEMMA CrossKeeps ==
  ASSUME BarrierInv, NEW b \in Bench!Barriers, NEW p \in Bench!Parties(b), Bench!Awake(p),
         Bench!barrier_cross(p, b)
  PROVE  /\ BarrierInv'
         /\ \A c \in Bench!Barriers : \A q \in Everybody :
              arrived'[c][q] = IF c = b /\ q = p THEN arrived[c][q] + 1 ELSE arrived[c][q]
<1> DEFINE A == asleep[b]
           P == Bench!Parties(b)
<1>1. /\ p \in Everybody /\ p \notin A /\ A \subseteq P /\ IsFiniteSet(P) /\ Cardinality(P) = Bench!Count(b)
      /\ P \subseteq Everybody
  BY PartyFacts DEF BarrierInv, Bench!Awake
<1>2. /\ IsFiniteSet(A) /\ Cardinality(A) \in Nat /\ Cardinality(A \cup {p}) = Cardinality(A) + 1
      /\ A \cup {p} \subseteq P
      /\ Cardinality(P) \in Nat
      /\ Cardinality(A \cup {p}) = Cardinality(P) => A \cup {p} = P
  <2>1. IsFiniteSet(A)
    BY <1>1, FS_Subset
  <2>2. Cardinality(A) \in Nat /\ Cardinality(A \cup {p}) = Cardinality(A) + 1 /\ IsFiniteSet(A \cup {p})
    BY <1>1, <2>1, FS_AddElement, FS_CardinalityType
  <2>3. A \cup {p} \subseteq P
    BY <1>1
  <2> QED BY <1>1, <2>1, <2>2, <2>3, FS_Subset, FS_CardinalityType
<1>3. crossing[b] = Cardinality(A) /\ crossing[b] < Bench!Count(b)
  BY DEF BarrierInv
<1>4. \A c \in Bench!Barriers : \A q \in Everybody :
        arrived'[c][q] = IF c = b /\ q = p THEN arrived[c][q] + 1 ELSE arrived[c][q]
  BY <1>1 DEF Bench!barrier_cross, BarrierInv
<1>5. arrived' \in [Bench!Barriers -> [Everybody -> Nat]]
  <2>1. [arrived[b] EXCEPT ![p] = @ + 1] \in [Everybody -> Nat]
    BY <1>1 DEF BarrierInv
  <2> QED BY <1>1, <2>1 DEF Bench!barrier_cross, BarrierInv
<1>6. PICK n \in Nat : \A q \in P : arrived[b][q] = IF q \in A THEN n + 1 ELSE n
  BY DEF BarrierInv
<1>7. \A c \in Bench!Barriers \ {b} :
        /\ asleep'[c] = asleep[c] /\ crossing'[c] = crossing[c]
        /\ \A q \in Bench!Parties(c) : arrived'[c][q] = arrived[c][q]
  BY <1>4, PartyFacts DEF Bench!barrier_cross, BarrierInv
<1>8. CASE crossing[b] + 1 < Bench!Count(b)
  <2>1. /\ crossing' = [crossing EXCEPT ![b] = crossing[b] + 1]
        /\ asleep' = [asleep EXCEPT ![b] = A \cup {p}]
    BY <1>8 DEF Bench!barrier_cross
  <2>2. crossing' \in [Bench!Barriers -> Nat] /\ asleep' \in [Bench!Barriers -> SUBSET Everybody]
    <3>1. A \cup {p} \in SUBSET Everybody
      BY <1>1
    <3> QED BY <1>2, <1>3, <2>1, <3>1 DEF BarrierInv
  <2>3. /\ asleep'[b] = A \cup {p} /\ crossing'[b] = crossing[b] + 1
        /\ \A q \in P : arrived'[b][q] = IF q \in asleep'[b] THEN n + 1 ELSE n
    BY <1>1, <1>4, <1>6, <2>1 DEF BarrierInv
  <2> HIDE DEF A, P
  <2>4. /\ asleep'[b] \subseteq P /\ crossing'[b] = Cardinality(asleep'[b])
        /\ crossing'[b] < Bench!Count(b)
    BY <1>2, <1>3, <1>8, <2>3
  <2>8. ASSUME NEW c \in Bench!Barriers
        PROVE  /\ asleep'[c] \subseteq Bench!Parties(c)
               /\ crossing'[c] = Cardinality(asleep'[c])
               /\ crossing'[c] < Bench!Count(c)
               /\ \E m \in Nat : \A q \in Bench!Parties(c) :
                    arrived'[c][q] = IF q \in asleep'[c] THEN m + 1 ELSE m
    <3>1. CASE c = b
      BY <3>1, <2>3, <2>4 DEF P
    <3>2. CASE c # b
      <4>1. /\ asleep'[c] = asleep[c] /\ crossing'[c] = crossing[c]
            /\ \A q \in Bench!Parties(c) : arrived'[c][q] = arrived[c][q]
        BY <1>7, <3>2
      <4>2. PICK m \in Nat : \A q \in Bench!Parties(c) :
              arrived[c][q] = IF q \in asleep[c] THEN m + 1 ELSE m
        BY DEF BarrierInv
      <4>3. \A q \in Bench!Parties(c) : arrived'[c][q] = IF q \in asleep'[c] THEN m + 1 ELSE m
        BY <4>1, <4>2
      <4> QED BY <4>1, <4>3 DEF BarrierInv
    <3> QED BY <3>1, <3>2
  <2> QED BY <1>4, <1>5, <2>2, <2>8 DEF BarrierInv
<1>9. CASE ~ (crossing[b] + 1 < Bench!Count(b))
  <2>1. /\ crossing' = [crossing EXCEPT ![b] = 0]
        /\ asleep' = [asleep EXCEPT ![b] = {}]
    BY <1>9 DEF Bench!barrier_cross
  <2>2. crossing' \in [Bench!Barriers -> Nat] /\ asleep' \in [Bench!Barriers -> SUBSET Everybody]
    BY <2>1 DEF BarrierInv
  <2>3. asleep'[b] = {} /\ crossing'[b] = 0
    BY <2>1 DEF BarrierInv
  <2>4. A \cup {p} = P
    <3> HIDE DEF A, P
    <3> QED BY <1>1, <1>2, <1>3, <1>9
  <2>5. \A q \in P : arrived'[b][q] = n + 1
    BY <1>1, <1>4, <1>6, <2>4
  <2> HIDE DEF A, P
  <2>6. crossing'[b] = Cardinality(asleep'[b]) /\ crossing'[b] < Bench!Count(b)
    BY <1>1, <1>2, <1>3, <2>3, FS_EmptySet
  <2>7. \E m \in Nat : \A q \in P : arrived'[b][q] = IF q \in asleep'[b] THEN m + 1 ELSE m
    <3>1. n + 1 \in Nat /\ \A q \in P : arrived'[b][q] = IF q \in asleep'[b] THEN (n + 1) + 1 ELSE n + 1
      BY <2>3, <2>5
    <3> QED BY <3>1
  <2>8. ASSUME NEW c \in Bench!Barriers
        PROVE  /\ asleep'[c] \subseteq Bench!Parties(c)
               /\ crossing'[c] = Cardinality(asleep'[c])
               /\ crossing'[c] < Bench!Count(c)
               /\ \E m \in Nat : \A q \in Bench!Parties(c) :
                    arrived'[c][q] = IF q \in asleep'[c] THEN m + 1 ELSE m
    <3>1. CASE c = b
      BY <3>1, <2>3, <2>6, <2>7 DEF P
    <3>2. CASE c # b
      <4>1. /\ asleep'[c] = asleep[c] /\ crossing'[c] = crossing[c]
            /\ \A q \in Bench!Parties(c) : arrived'[c][q] = arrived[c][q]
        BY <1>7, <3>2
      <4>2. PICK m \in Nat : \A q \in Bench!Parties(c) :
              arrived[c][q] = IF q \in asleep[c] THEN m + 1 ELSE m
        BY DEF BarrierInv
      <4>3. \A q \in Bench!Parties(c) : arrived'[c][q] = IF q \in asleep'[c] THEN m + 1 ELSE m
        BY <4>1, <4>2
      <4> QED BY <4>1, <4>3 DEF BarrierInv
    <3> QED BY <3>1, <3>2
  <2> QED BY <1>4, <1>5, <2>2, <2>8 DEF BarrierInv
<1> QED BY <1>4, <1>8, <1>9

\* A party that is awake has begun no more crossings than any other.
LEMMA BarrierInvSafe ==
  ASSUME BarrierInv
  PROVE  Bench!BarrierSafe
<1> SUFFICES ASSUME NEW b \in Bench!Barriers, NEW p \in Bench!Parties(b), NEW q \in Bench!Parties(b),
                    Bench!Awake(p)
             PROVE  arrived[b][p] <= arrived[b][q]
  BY DEF Bench!BarrierSafe
<1>1. PICK n \in Nat : \A u \in Bench!Parties(b) : arrived[b][u] = IF u \in asleep[b] THEN n + 1 ELSE n
  BY DEF BarrierInv
<1>2. p \notin asleep[b]
  BY DEF Bench!Awake
<1> QED BY <1>1, <1>2

\* The control flow crosses the barriers in the order of the phases.
LEMMA PhaseMoves ==
  ASSUME NEW m, NEW n \in Nat, NEW k, AtPhase(m[1], n, k)
  PROVE  /\ m \in Crossings => AtPhase(m[2], n + 1, k)
         /\ m \in GlobalCrossings => AtPhase(m[2], n, k + 1)
         /\ m \in Moves => AtPhase(m[2], n, k)
<1> USE DEF AtPhase, BenchLabels, Phase0, Phase1, Phase2, Phase3, Phase4, BeforeLoop
<1>1. ASSUME m \in Crossings PROVE AtPhase(m[2], n + 1, k)
  BY <1>1 DEF Crossings
<1>2. ASSUME m \in GlobalCrossings PROVE AtPhase(m[2], n, k + 1)
  BY <1>2 DEF GlobalCrossings
<1>3. ASSUME m \in Moves PROVE AtPhase(m[2], n, k)
  BY <1>3 DEF Moves
<1> QED BY <1>1, <1>2, <1>3

\* The places a step of a thread starts from.
LEMMA MovesFrom ==
  ASSUME NEW m \in Crossings \cup GlobalCrossings \cup Moves
  PROVE  m[1] # "none" /\ m[2] # "none" /\ m[2] \in BenchLabels
BY DEF Crossings, GlobalCrossings, Moves, BenchLabels, Phase0, Phase1, Phase2, Phase3, Phase4

BarrierPhaseInv == BarrierInv /\ PhaseInv

\* A step of a thread keeps the barriers and the phases.
LEMMA ThreadPhase ==
  ASSUME BarrierPhaseInv, NEW t \in Bench!Threads, ControlStep(t), UNCHANGED created
  PROVE  BarrierPhaseInv'
<1>1. PICK m \in Crossings \cup GlobalCrossings \cup Moves :
        /\ Bench!Goto(t, m[1], m[2])
        /\ \/ m \in Crossings /\ Bench!barrier_cross(t, "barrier")
           \/ m \in GlobalCrossings /\ Bench!barrier_cross(t, "barrier_global")
           \/ m \in Moves /\ UNCHANGED <<crossing, asleep, arrived>>
  BY DEF ControlStep
<1>2. /\ t \in Everybody /\ Bench!Threads \subseteq Everybody /\ Bench!Main \in Everybody
      /\ t # Bench!Main /\ t \in Bench!Parties("barrier") /\ t \in Bench!Parties("barrier_global")
      /\ "barrier" \in Bench!Barriers /\ "barrier_global" \in Bench!Barriers
  BY PartyFacts DEF Everybody, Bench!Barriers
<1>3. /\ pc' \in [Everybody -> BenchLabels \cup MainLabels]
      /\ pc[t] = m[1] /\ pc'[t] = m[2] /\ \A u \in Everybody \ {t} : pc'[u] = pc[u]
      /\ Bench!Awake(t)
  BY <1>1, <1>2, MovesFrom DEF Bench!Goto, BarrierPhaseInv, PhaseInv
<1>4. \A u \in Bench!Threads : /\ arrived["barrier"][u] \in Nat
                              /\ AtPhase(pc[u], arrived["barrier"][u], arrived["barrier_global"][u])
  BY <1>2 DEF BarrierPhaseInv, BarrierInv, PhaseInv
<1>5. BarrierInv' /\ \A u \in Bench!Threads :
                     AtPhase(pc'[u], arrived'["barrier"][u], arrived'["barrier_global"][u])
  <2>1. CASE m \in Crossings /\ Bench!barrier_cross(t, "barrier")
    <3>1. /\ BarrierInv'
          /\ \A u \in Everybody : arrived'["barrier_global"][u] = arrived["barrier_global"][u]
          /\ \A u \in Everybody :
               arrived'["barrier"][u] = IF u = t THEN arrived["barrier"][u] + 1 ELSE arrived["barrier"][u]
      BY <1>2, <1>3, <2>1, CrossKeeps DEF BarrierPhaseInv
    <3>2. AtPhase(pc'[t], arrived'["barrier"][t], arrived'["barrier_global"][t])
      BY <1>2, <1>3, <1>4, <2>1, <3>1, PhaseMoves
    <3> QED BY <1>2, <1>3, <1>4, <3>1, <3>2
  <2>2. CASE m \in GlobalCrossings /\ Bench!barrier_cross(t, "barrier_global")
    <3>1. /\ BarrierInv'
          /\ \A u \in Everybody : arrived'["barrier"][u] = arrived["barrier"][u]
          /\ \A u \in Everybody : arrived'["barrier_global"][u]
               = IF u = t THEN arrived["barrier_global"][u] + 1 ELSE arrived["barrier_global"][u]
      BY <1>2, <1>3, <2>2, CrossKeeps DEF BarrierPhaseInv
    <3>2. AtPhase(pc'[t], arrived'["barrier"][t], arrived'["barrier_global"][t])
      BY <1>2, <1>3, <1>4, <2>2, <3>1, PhaseMoves
    <3> QED BY <1>2, <1>3, <1>4, <3>1, <3>2
  <2>3. CASE m \in Moves /\ UNCHANGED <<crossing, asleep, arrived>>
    <3>1. BarrierInv'
      BY <2>3 DEF BarrierPhaseInv, BarrierInv
    <3>2. AtPhase(pc'[t], arrived'["barrier"][t], arrived'["barrier_global"][t])
      BY <1>3, <1>4, <2>3, PhaseMoves
    <3> QED BY <1>2, <1>3, <1>4, <2>3, <3>1, <3>2
  <2> QED BY <1>1, <2>1, <2>2, <2>3
<1>6. pc[t] # "none" /\ pc'[t] # "none"
  BY <1>3, MovesFrom
<1> QED BY <1>2, <1>3, <1>5, <1>6 DEF BarrierPhaseInv, PhaseInv

\* So does a step of main.
LEMMA MainPhase ==
  ASSUME BarrierPhaseInv, MainControl
  PROVE  BarrierPhaseInv'
<1>1. /\ Bench!Threads \subseteq Everybody /\ Bench!Main \in Everybody
      /\ Bench!Main \notin Bench!Threads /\ Bench!Main \in Bench!Parties("barrier_global")
      /\ "barrier" \in Bench!Barriers /\ "barrier_global" \in Bench!Barriers
      /\ NumThreads \in Nat /\ Bench!Threads = 0..(NumThreads - 1) /\ Bench!Main = NumThreads
  BY PartyFacts DEF Everybody, Bench!Barriers
<1>2. /\ pc \in [Everybody -> BenchLabels \cup MainLabels] /\ created \in Nat
      /\ \A u \in Bench!Threads : AtPhase(pc[u], arrived["barrier"][u], arrived["barrier_global"][u])
      /\ \A u \in Bench!Threads : u >= created => pc[u] = "none"
      /\ pc[Bench!Main] = "options" => created = 0
  BY DEF BarrierPhaseInv, PhaseInv
<1>3. CASE /\ \E from, to \in MainLabels : to # "options" /\ Bench!Goto(Bench!Main, from, to)
           /\ UNCHANGED <<crossing, asleep, arrived, created>>
  <2>1. /\ pc' \in [Everybody -> BenchLabels \cup MainLabels] /\ pc'[Bench!Main] # "options"
        /\ \A u \in Bench!Threads : pc'[u] = pc[u]
    BY <1>1, <1>2, <1>3 DEF Bench!Goto
  <2>2. BarrierInv'
    BY <1>3 DEF BarrierPhaseInv, BarrierInv
  <2> QED BY <1>2, <1>3, <2>1, <2>2 DEF BarrierPhaseInv, PhaseInv
<1>4. CASE /\ pc[Bench!Main] = "create" /\ created < NumThreads /\ created' = created + 1
           /\ pc' = [pc EXCEPT ![created] = "start"]
           /\ UNCHANGED <<crossing, asleep, arrived>>
  <2>1. created \in Bench!Threads /\ "start" \in BenchLabels
    BY <1>1, <1>2, <1>4 DEF BenchLabels, Phase0
  <2>2. /\ pc' \in [Everybody -> BenchLabels \cup MainLabels] /\ pc'[Bench!Main] = "create"
        /\ pc[created] = "none" /\ pc'[created] = "start"
        /\ \A u \in Bench!Threads \ {created} : pc'[u] = pc[u]
    BY <1>1, <1>2, <1>4, <2>1
  <2>3. BarrierInv'
    BY <1>4 DEF BarrierPhaseInv, BarrierInv
  <2>4. AtPhase("start", arrived["barrier"][created], arrived["barrier_global"][created])
    <3>1. AtPhase("none", arrived["barrier"][created], arrived["barrier_global"][created])
      BY <1>2, <2>1, <2>2
    <3> QED BY <3>1 DEF AtPhase, BenchLabels, BeforeLoop, Phase0, Phase1, Phase2, Phase3
  <2>5. \A u \in Bench!Threads : AtPhase(pc'[u], arrived'["barrier"][u], arrived'["barrier_global"][u])
    BY <1>2, <1>4, <2>2, <2>4
  <2>6. created' \in Nat /\ \A u \in Bench!Threads : u >= created' => pc'[u] = "none"
    BY <1>1, <1>2, <1>4, <2>2
  <2> QED BY <2>2, <2>3, <2>5, <2>6 DEF BarrierPhaseInv, PhaseInv
<1>5. CASE /\ Bench!Goto(Bench!Main, "create", "run")
           /\ Bench!barrier_cross(Bench!Main, "barrier_global")
           /\ UNCHANGED created
  <2>1. /\ pc' \in [Everybody -> BenchLabels \cup MainLabels] /\ pc'[Bench!Main] # "options"
        /\ \A u \in Bench!Threads : pc'[u] = pc[u]
        /\ Bench!Awake(Bench!Main)
    BY <1>1, <1>2, <1>5 DEF Bench!Goto, MainLabels
  <2>2. BarrierInv' /\ \A b \in Bench!Barriers : \A u \in Bench!Threads : arrived'[b][u] = arrived[b][u]
    BY <1>1, <1>5, <2>1, CrossKeeps DEF BarrierPhaseInv
  <2> QED BY <1>1, <1>2, <1>5, <2>1, <2>2 DEF BarrierPhaseInv, PhaseInv
<1> QED BY <1>3, <1>4, <1>5 DEF MainControl, MainLabels

-----------------------------------------------------------------------------
\* The smallest power of two that is not below x, number by number: there are few,
\* because of the width of the numbers.
LEMMA RoundedUp ==
  ASSUME NEW x \in 0..16
  PROVE  /\ Bench!Rounded(x) \in Nat
         /\ \E k \in 0..5 : /\ Bench!Rounded(x) = 2^k /\ Bench!Rounded(x) >= x
                           /\ (k > 0 => 2^(k - 1) < x)
<1> USE DEF Bench!Rounded, Bench!is_power_of_two, Bench!pow2roundup, Bench!OrShifted, Bench!Bit,
            Bench!Digits
<1>1. 2^0 = 1 /\ 2^1 = 2 /\ 2^2 = 4 /\ 2^3 = 8 /\ 2^4 = 16
  OBVIOUS
<1>2. CASE x \in 0..1
  <2>1. Bench!Rounded(0) = 1
    OBVIOUS
  <2>2. Bench!Rounded(1) = 1
    OBVIOUS
  <2>3. Bench!Rounded(x) = 1
    <3>1. x = 0 \/ x = 1
      BY <1>2
    <3> QED BY ONLY <3>1, <2>1, <2>2
  <2> HIDE DEF Bench!Rounded
  <2> QED BY <1>1, <1>2, <2>3
<1>3. CASE x \in 2..2
  <2>1. Bench!Rounded(2) = 2
    OBVIOUS
  <2>2. Bench!Rounded(x) = 2
    <3>1. x = 2
      BY <1>3
    <3> QED BY ONLY <3>1, <2>1
  <2> HIDE DEF Bench!Rounded
  <2>3. 1 \in 0..5 /\ 2^1 = 2 /\ 2^(1 - 1) = 1
    OBVIOUS
  <2>4. Bench!Rounded(x) = 2^1 /\ Bench!Rounded(x) >= x /\ 2^(1 - 1) < x /\ Bench!Rounded(x) \in Nat
    BY <1>3, <2>2, <2>3
  <2>5. \E k \in 0..5 : Bench!Rounded(x) = 2^k /\ Bench!Rounded(x) >= x /\ (k > 0 => 2^(k - 1) < x)
    <3> WITNESS 1 \in 0..5
    <3> QED BY <2>4
  <2> QED BY <2>4, <2>5
<1>4. CASE x \in 3..4
  <2>1. Bench!Rounded(3) = 4
    OBVIOUS
  <2>2. Bench!Rounded(4) = 4
    OBVIOUS
  <2>3. Bench!Rounded(x) = 4
    <3>1. x = 3 \/ x = 4
      BY <1>4
    <3> QED BY ONLY <3>1, <2>1, <2>2
  <2> HIDE DEF Bench!Rounded
  <2>4. 2 \in 0..5 /\ 2^2 = 4 /\ 2^(2 - 1) = 2
    OBVIOUS
  <2>5. Bench!Rounded(x) = 2^2 /\ Bench!Rounded(x) >= x /\ 2^(2 - 1) < x /\ Bench!Rounded(x) \in Nat
    BY <1>4, <2>3, <2>4
  <2>6. \E k \in 0..5 : Bench!Rounded(x) = 2^k /\ Bench!Rounded(x) >= x /\ (k > 0 => 2^(k - 1) < x)
    <3> WITNESS 2 \in 0..5
    <3> QED BY <2>5
  <2> QED BY <2>5, <2>6
<1>5. CASE x \in 5..8
  <2>1. Bench!Rounded(5) = 8
    OBVIOUS
  <2>2. Bench!Rounded(6) = 8
    OBVIOUS
  <2>3. Bench!Rounded(7) = 8
    OBVIOUS
  <2>4. Bench!Rounded(8) = 8
    OBVIOUS
  <2>5. Bench!Rounded(x) = 8
    <3>1. x = 5 \/ x = 6 \/ x = 7 \/ x = 8
      BY <1>5
    <3> QED BY ONLY <3>1, <2>1, <2>2, <2>3, <2>4
  <2> HIDE DEF Bench!Rounded
  <2>6. 3 \in 0..5 /\ 2^3 = 8 /\ 2^(3 - 1) = 4
    OBVIOUS
  <2>7. Bench!Rounded(x) = 2^3 /\ Bench!Rounded(x) >= x /\ 2^(3 - 1) < x /\ Bench!Rounded(x) \in Nat
    BY <1>5, <2>5, <2>6
  <2>8. \E k \in 0..5 : Bench!Rounded(x) = 2^k /\ Bench!Rounded(x) >= x /\ (k > 0 => 2^(k - 1) < x)
    <3> WITNESS 3 \in 0..5
    <3> QED BY <2>7
  <2> QED BY <2>7, <2>8
<1>6. CASE x \in 9..16
  <2>1. Bench!Rounded(9) = 16
    OBVIOUS
  <2>2. Bench!Rounded(10) = 16
    OBVIOUS
  <2>3. Bench!Rounded(11) = 16
    OBVIOUS
  <2>4. Bench!Rounded(12) = 16
    OBVIOUS
  <2>5. Bench!Rounded(13) = 16
    OBVIOUS
  <2>6. Bench!Rounded(14) = 16
    OBVIOUS
  <2>7. Bench!Rounded(15) = 16
    OBVIOUS
  <2>8. Bench!Rounded(16) = 16
    BY SMTT(30)
  <2>9. Bench!Rounded(x) = 16
    <3>1. x = 9 \/ x = 10 \/ x = 11 \/ x = 12 \/ x = 13 \/ x = 14 \/ x = 15 \/ x = 16
      BY <1>6
    <3> QED BY ONLY <3>1, <2>1, <2>2, <2>3, <2>4, <2>5, <2>6, <2>7, <2>8
  <2> HIDE DEF Bench!Rounded
  <2>10. 4 \in 0..5 /\ 2^4 = 16 /\ 2^(4 - 1) = 8
    OBVIOUS
  <2>11. Bench!Rounded(x) = 2^4 /\ Bench!Rounded(x) >= x /\ 2^(4 - 1) < x /\ Bench!Rounded(x) \in Nat
    BY <1>6, <2>9, <2>10
  <2>12. \E k \in 0..5 : Bench!Rounded(x) = 2^k /\ Bench!Rounded(x) >= x /\ (k > 0 => 2^(k - 1) < x)
    <3> WITNESS 4 \in 0..5
    <3> QED BY <2>11
  <2> QED BY <2>11, <2>12
<1>7. x \in 0..1 \/ x \in 2..2 \/ x \in 3..4 \/ x \in 5..8 \/ x \in 9..16
  OBVIOUS
<1> HIDE DEF Bench!Rounded
<1> QED BY ONLY <1>2, <1>3, <1>4, <1>5, <1>6, <1>7, Zenon

-----------------------------------------------------------------------------
\* The container and the counts of a benchmark

AnalysisInv == pc[0] \notin {"none", "start"} /\ prog.test.analysis => analysis

dataVars == <<prog, opt, initial, sub, filled, puts, removes, at, sum, sizeBefore, size_after,
              putting_count_succ, removing_count_succ>>

Shared == {"print", "exit", "abort"}

\* What a thread has inserted, put and removed, by the place it has reached.
DataTypeOK ==
  /\ initial \in Nat /\ opt \in Options
  /\ sub \in [Bench!Indices -> Nat]
  /\ filled \in [Bench!Threads -> Nat]
  /\ puts \in [Bench!Threads -> Nat] /\ removes \in [Bench!Threads -> Nat]
  /\ putting_count_succ \in [Bench!Threads -> Nat]
  /\ removing_count_succ \in [Bench!Threads -> Nat]
  /\ at \in 0..Subs /\ sum \in Int

Counted(t) ==
  /\ pc[t] \in Phase0 => filled[t] = 0
  /\ filled[t] <= Bench!num_elems_thread(t)
  /\ pc[t] \notin Phase0 \cup Phase1 => filled[t] = Bench!num_elems_thread(t)
  /\ pc[t] \in BeforeLoop \/ t \in asleep["barrier_global"] => puts[t] = 0 /\ removes[t] = 0
  /\ IF pc[t] \in Shared
     THEN putting_count_succ[t] = puts[t] /\ removing_count_succ[t] = removes[t]
     ELSE putting_count_succ[t] = 0 /\ removing_count_succ[t] = 0

Size == SumFunctionOnSet(sub, Bench!Indices)

SizeInv == Size = SumFunctionOnSet(filled, Bench!Threads) + SumFunctionOnSet(puts, Bench!Threads)
                  - SumFunctionOnSet(removes, Bench!Threads)

\* Thread 0 adds up sizes that nobody changes meanwhile.
ScanInv == /\ sum = SumFunctionOnSet(sub, 0..(at - 1))
           /\ at > 0 => pc[0] \in {"before", "after"} /\ Bench!Awake(0)

MeasuredInv ==
  /\ pc[Bench!Main] # "options" => initial = Bench!Rounded(opt.initial)
  /\ sizeBefore # -1 => sizeBefore = initial /\ pc[Bench!Main] # "options"
  /\ pc[0] \in Phase4 \cup {"sized"} =>
       /\ size_after = Size
       /\ \A t \in Bench!Threads : pc[t] \in Phase3 \cup Phase4
  /\ pc[Bench!Main] = "report" => \A t \in Bench!Threads : pc[t] = "exit"

DataInv == /\ DataTypeOK /\ SizeInv /\ ScanInv /\ MeasuredInv
           /\ \A t \in Bench!Threads : Counted(t)

BenchInv == BarrierPhaseInv /\ AnalysisInv /\ DataInv

-----------------------------------------------------------------------------
\* Nobody is filling or in the loop while thread 0 takes the size.
LEMMA Frozen ==
  ASSUME BarrierPhaseInv, Bench!Awake(0), pc[0] \in {"before", "after"},
         NEW t \in Bench!Threads, Bench!Awake(t)
  PROVE  /\ pc[t] \notin {"fill", "loop"}
         /\ pc[0] = "before" => pc[t] \notin Phase0 \cup Phase1 /\ pc[t] \in BeforeLoop
         /\ pc[0] = "after" => pc[t] \in Phase3 \cup Phase4
<1>1. /\ 0 \in Bench!Threads /\ 0 \in Bench!Parties("barrier") /\ 0 \in Bench!Parties("barrier_global")
      /\ t \in Bench!Parties("barrier") /\ t \in Bench!Parties("barrier_global")
      /\ "barrier" \in Bench!Barriers /\ "barrier_global" \in Bench!Barriers
      /\ Bench!Threads \subseteq Everybody
  BY PartyFacts DEF Bench!Barriers, Everybody
<1>2. /\ arrived["barrier"][0] <= arrived["barrier"][t]
      /\ arrived["barrier_global"][t] <= arrived["barrier_global"][0]
  BY <1>1, BarrierInvSafe DEF BarrierPhaseInv, Bench!BarrierSafe
<1>3. /\ arrived["barrier"][0] \in Nat /\ arrived["barrier"][t] \in Nat
      /\ AtPhase(pc[0], arrived["barrier"][0], arrived["barrier_global"][0])
      /\ AtPhase(pc[t], arrived["barrier"][t], arrived["barrier_global"][t])
  BY <1>1 DEF BarrierPhaseInv, BarrierInv, PhaseInv
<1>4. CASE pc[0] = "before"
  <2>1. arrived["barrier"][0] = 2 /\ arrived["barrier_global"][0] = 0
    BY <1>3, <1>4 DEF AtPhase, Phase2, BeforeLoop
  <2>2. arrived["barrier"][t] >= 2 /\ arrived["barrier_global"][t] # 1
    BY <1>2, <1>3, <2>1
  <2>3. pc[t] \in BeforeLoop /\ pc[t] \notin Phase0 /\ pc[t] \notin Phase1
    BY <1>3, <2>2 DEF AtPhase
  <2> QED BY <1>4, <2>3 DEF BeforeLoop, Phase0, Phase1
<1>5. CASE pc[0] = "after"
  <2>1. arrived["barrier"][0] = 3
    BY <1>3, <1>5 DEF AtPhase, Phase3
  <2>2. arrived["barrier"][t] >= 3
    BY <1>2, <1>3, <2>1
  <2>3. pc[t] \notin Phase0 \cup Phase1 \cup Phase2 /\ pc[t] \in BenchLabels
    BY <1>3, <2>2 DEF AtPhase
  <2> QED BY <1>5, <2>3 DEF BenchLabels, Phase0, Phase1, Phase2, Phase3, Phase4
<1> QED BY <1>4, <1>5

\* Once thread 0 is awake after the barrier, everybody has come to it, asleep or not.
LEMMA EverybodyThere ==
  ASSUME BarrierPhaseInv, Bench!Awake(0), NEW t \in Bench!Threads
  PROVE  /\ pc[0] = "before" => /\ pc[t] \notin Phase0 \cup Phase1
                                /\ pc[t] \in BeforeLoop \/ t \in asleep["barrier_global"]
         /\ pc[0] = "after" => pc[t] \in Phase3 \cup Phase4
<1>1. /\ 0 \in Bench!Threads /\ 0 \in Bench!Parties("barrier") /\ t \in Bench!Parties("barrier")
      /\ 0 \in Bench!Parties("barrier_global") /\ t \in Bench!Parties("barrier_global")
      /\ "barrier" \in Bench!Barriers /\ "barrier_global" \in Bench!Barriers
      /\ Bench!Threads \subseteq Everybody
  BY PartyFacts DEF Bench!Barriers, Everybody
<1>2. arrived["barrier"][0] <= arrived["barrier"][t]
  BY <1>1, BarrierInvSafe DEF BarrierPhaseInv, Bench!BarrierSafe
<1>3. /\ arrived["barrier"][0] \in Nat /\ arrived["barrier"][t] \in Nat
      /\ AtPhase(pc[0], arrived["barrier"][0], arrived["barrier_global"][0])
      /\ AtPhase(pc[t], arrived["barrier"][t], arrived["barrier_global"][t])
  BY <1>1 DEF BarrierPhaseInv, BarrierInv, PhaseInv
<1>4. ASSUME pc[0] = "before"
      PROVE  /\ pc[t] \notin Phase0 \cup Phase1
             /\ pc[t] \in BeforeLoop \/ t \in asleep["barrier_global"]
  <2>1. arrived["barrier"][t] >= 2
    BY <1>2, <1>3, <1>4 DEF AtPhase, Phase2
  <2>2. pc[t] \notin Phase0 \cup Phase1
    BY <1>3, <2>1 DEF AtPhase
  <2>3. PICK n \in Nat : \A p \in Bench!Parties("barrier_global") : arrived["barrier_global"][p]
                        = IF p \in asleep["barrier_global"] THEN n + 1 ELSE n
    BY <1>1 DEF BarrierPhaseInv, BarrierInv
  <2>4. 0 \notin asleep["barrier_global"] /\ arrived["barrier_global"][0] = 0
    BY <1>1, <1>3, <1>4 DEF Bench!Awake, AtPhase, BeforeLoop
  <2>5. n = 0
    BY <1>1, <2>3, <2>4
  <2>6. pc[t] \notin BeforeLoop => arrived["barrier_global"][t] = 1
    BY <1>3 DEF AtPhase
  <2>7. pc[t] \in BeforeLoop \/ t \in asleep["barrier_global"]
    BY <1>1, <2>3, <2>5, <2>6
  <2> QED BY <2>2, <2>7
<1>5. ASSUME pc[0] = "after" PROVE pc[t] \in Phase3 \cup Phase4
  <2>1. arrived["barrier"][t] >= 3
    BY <1>2, <1>3, <1>5 DEF AtPhase, Phase3
  <2> QED BY <1>3, <2>1 DEF AtPhase, BenchLabels
<1> QED BY <1>4, <1>5

\* The numbers of the threads.
LEMMA IndexFacts ==
  /\ Subs \in Nat \ {0} /\ Bench!Indices = 0..(Subs - 1) /\ IsFiniteSet(Bench!Indices)
  /\ \A n \in Nat : IsFiniteSet(0..(n - 1))
<1>1. Subs \in Nat \ {0} /\ Bench!Indices = 0..(Subs - 1)
  BY BenchAssumption DEF Bench!HarnessAssumption, Bench!Indices
<1> QED BY <1>1, FS_Interval

\* The shares of the threads add up to all the elements.
LEMMA SharesAddUp ==
  ASSUME initial \in Nat, NEW f, \A t \in Bench!Threads : f[t] = Bench!num_elems_thread(t)
  PROVE  SumFunctionOnSet(f, Bench!Threads) = initial
<1> DEFINE share == initial \div NumThreads
           missing == initial - share * NumThreads
           Part(n) == n * share + (IF n < missing THEN n ELSE missing)
           T == {n \in Nat : n <= NumThreads => SumFunctionOnSet(f, 0..(n - 1)) = Part(n)}
<1>1. /\ NumThreads \in Nat \ {0} /\ Bench!Threads = 0..(NumThreads - 1)
      /\ \A n \in Nat : IsFiniteSet(0..(n - 1))
  BY PartyFacts, IndexFacts
<1>2. share \in Nat /\ missing \in Nat /\ missing < NumThreads
  BY <1>1
<1>3. \A t \in 0..(NumThreads - 1) : f[t] = IF t < missing THEN share + 1 ELSE share
  BY <1>1 DEF Bench!num_elems_thread
<1>4. 0 \in T
  <2>1. 0..(0 - 1) = {}
    OBVIOUS
  <2>2. SumFunctionOnSet(f, {}) = 0
    BY SumEquation, FS_EmptySet
  <2>3. Part(0) = 0
    BY <1>2
  <2> QED BY <2>1, <2>2, <2>3
<1>5. ASSUME NEW n \in Nat, n \in T PROVE n + 1 \in T
  <2> SUFFICES ASSUME n + 1 <= NumThreads PROVE SumFunctionOnSet(f, 0..((n + 1) - 1)) = Part(n + 1)
    OBVIOUS
  <2>1. /\ 0..((n + 1) - 1) = 0..n /\ n \in 0..n /\ (0..n) \ {n} = 0..(n - 1)
        /\ n \in 0..(NumThreads - 1) /\ 0..n \subseteq 0..(NumThreads - 1) /\ n <= NumThreads
    BY <1>1
  <2>2. IsFiniteSet(0..n) /\ \A x \in 0..n : f[x] \in Int
    <3>1. IsFiniteSet(0..n)
      BY FS_Interval
    <3> QED BY <1>2, <1>3, <2>1, <3>1
  <2>3. SumFunctionOnSet(f, 0..n) = f[n] + SumFunctionOnSet(f, (0..n) \ {n})
    BY <2>1, <2>2, SumRemove
  <2>4. SumFunctionOnSet(f, 0..(n - 1)) = Part(n)
    BY <1>5, <2>1
  <2>5. f[n] = IF n < missing THEN share + 1 ELSE share
    BY <1>3, <2>1
  <2> HIDE DEF share, missing
  <2>6. ASSUME NEW a \in Nat, NEW b \in Nat
        PROVE  (IF n < b THEN a + 1 ELSE a) + (n * a + (IF n < b THEN n ELSE b))
               = (n + 1) * a + (IF n + 1 < b THEN n + 1 ELSE b)
    <3>1. (n + 1) * a = n * a + a /\ n * a \in Nat
      OBVIOUS
    <3> DEFINE c == n * a
    <3> HIDE DEF c
    <3>2. (n + 1) * a = c + a /\ c \in Nat
      BY <3>1 DEF c
    <3>3. (IF n < b THEN a + 1 ELSE a) + (c + (IF n < b THEN n ELSE b))
          = (c + a) + (IF n + 1 < b THEN n + 1 ELSE b)
      BY <3>2
    <3> QED BY <3>2, <3>3 DEF c
  <2>7. f[n] + Part(n) = Part(n + 1)
    BY <1>2, <2>5, <2>6
  <2> QED BY ONLY <2>1, <2>3, <2>4, <2>7
<1> HIDE DEF T
<1>6. Nat \subseteq T
  BY <1>4, <1>5, SetInduction
<1>7. SumFunctionOnSet(f, 0..(NumThreads - 1)) = Part(NumThreads)
  <2>1. NumThreads \in T /\ NumThreads <= NumThreads
    BY <1>1, <1>6
  <2> HIDE DEF Part
  <2> QED BY <2>1 DEF T
<1>8. Part(NumThreads) = initial
  <2>1. NumThreads * share = share * NumThreads /\ share * NumThreads \in Nat
    BY <1>1, <1>2
  <2> DEFINE c == share * NumThreads
  <2>2. NumThreads * share + missing = c + (initial - c) /\ c \in Nat
    BY <2>1
  <2>3. c + (initial - c) = initial
    <3> HIDE DEF c
    <3> QED BY <2>2
  <2> QED BY <1>1, <1>2, <2>2, <2>3
<1> QED BY <1>1, <1>7, <1>8

-----------------------------------------------------------------------------
\* What a step of thread t means for the others.
OthersStay(t) ==
  /\ \A b \in Bench!Barriers : t \notin asleep[b]
  /\ pc'[Bench!Main] = pc[Bench!Main]
  /\ \A u \in Bench!Threads \ {t} : pc'[u] = pc[u]
  /\ \A u \in Bench!Threads \ {t} : \A b \in Bench!Barriers : u \in asleep'[b] => u \in asleep[b]

\* A step of thread t moves nobody else and sends nobody else to sleep.
LEMMA ThreadMoves ==
  ASSUME BarrierPhaseInv, NEW t \in Bench!Threads, NEW from, NEW to,
         \/ \E m \in Crossings : m[1] = from /\ m[2] = to /\ Bench!barrier_cross(t, "barrier")
         \/ \E m \in GlobalCrossings : m[1] = from /\ m[2] = to /\ Bench!barrier_cross(t, "barrier_global")
         \/ UNCHANGED <<crossing, asleep, arrived>>,
         Bench!Goto(t, from, to)
  PROVE  /\ OthersStay(t) /\ pc[t] = from /\ pc'[t] = to
         /\ t \in asleep'["barrier_global"] => from \in BeforeLoop
<1>1. /\ t \in Everybody /\ Bench!Threads \subseteq Everybody /\ Bench!Main \in Everybody
      /\ t # Bench!Main
      /\ Bench!Barriers = {"barrier", "barrier_global"}
      /\ asleep \in [Bench!Barriers -> SUBSET Everybody]
  BY PartyFacts DEF Everybody, Bench!Barriers, BarrierPhaseInv, BarrierInv
<1>2. /\ pc[t] = from /\ pc'[t] = to /\ pc'[Bench!Main] = pc[Bench!Main] /\ Bench!Awake(t)
      /\ \A u \in Bench!Threads \ {t} : pc'[u] = pc[u]
  BY <1>1 DEF Bench!Goto, BarrierPhaseInv, PhaseInv
<1>3. /\ \A u \in Bench!Threads \ {t} : \A b \in Bench!Barriers : u \in asleep'[b] => u \in asleep[b]
      /\ t \in asleep'["barrier_global"] =>
           \E m \in GlobalCrossings : m[1] = from
  BY <1>1, <1>2 DEF Bench!barrier_cross, Bench!Awake
<1>4. \A m \in GlobalCrossings : m[1] \in BeforeLoop
  BY DEF GlobalCrossings, BeforeLoop
<1> QED BY <1>1, <1>2, <1>3, <1>4 DEF OthersStay, Bench!Awake

\* What a step of a thread does that leaves the container and the counts alone.
QuietMoves == (Crossings \cup GlobalCrossings \cup Moves)
              \ {<<"before", "go">>, <<"after", "sized">>, <<"share", "abort">>, <<"share", "print">>}

Quiet(t) ==
  \E m \in QuietMoves :
    /\ pc[t] = m[1] /\ pc'[t] = m[2]
    /\ UNCHANGED dataVars
    /\ m = <<"fill", "before">> => filled[t] >= Bench!num_elems_thread(t)
    /\ t = 0 => m[1] \notin {"before", "after"}
    /\ t \in asleep'["barrier_global"] => m[1] \in BeforeLoop

\* What the threads with other places and other counts keep.
LEMMA OthersCounted ==
  ASSUME BenchInv, NEW t \in Bench!Threads, OthersStay(t), UNCHANGED initial,
         NEW u \in Bench!Threads \ {t},
         filled'[u] = filled[u], puts'[u] = puts[u], removes'[u] = removes[u],
         putting_count_succ'[u] = putting_count_succ[u],
         removing_count_succ'[u] = removing_count_succ[u]
  PROVE  Counted(u)'
<1>1. /\ Counted(u) /\ pc'[u] = pc[u]
      /\ u \in asleep'["barrier_global"] => u \in asleep["barrier_global"]
  BY DEF BenchInv, DataInv, OthersStay, Bench!Barriers
<1>2. Bench!num_elems_thread(u)' = Bench!num_elems_thread(u)
  BY DEF Bench!num_elems_thread
<1> QED BY <1>1, <1>2 DEF Counted

\* The places of a step that leaves the data of the thread alone.
LEMMA QuietMoveFacts ==
  ASSUME NEW m \in QuietMoves
  PROVE  /\ m[2] \in Phase0 => m[1] \in Phase0
         /\ m[2] \notin Phase0 \cup Phase1 => m[1] \notin Phase0 \cup Phase1 \/ m = <<"fill", "before">>
         /\ m[2] \in BeforeLoop => m[1] \in BeforeLoop
         /\ m[1] \in Shared <=> m[2] \in Shared
         /\ m[2] \in Phase4 \cup {"sized"} => m[1] \in Phase4 \cup {"sized"} \/ m[1] = "after"
         /\ m[1] \in Phase3 \cup Phase4 => m[2] \in Phase3 \cup Phase4
         /\ m[1] # "exit"
<1> USE DEF Phase0, Phase1, Phase3, Phase4, Shared, BeforeLoop
<1>1. CASE m \in Crossings
  BY <1>1 DEF QuietMoves, Crossings
<1>2. CASE m \in GlobalCrossings
  BY <1>2 DEF QuietMoves, GlobalCrossings
<1>3. CASE m \in Moves
  BY <1>3 DEF QuietMoves, Moves
<1> QED BY <1>1, <1>2, <1>3 DEF QuietMoves

\* A step that leaves the container and the counts alone.
LEMMA QuietKeeps ==
  ASSUME BenchInv, NEW t \in Bench!Threads, OthersStay(t), Quiet(t)
  PROVE  DataInv'
<1>1. PICK m \in QuietMoves :
        /\ pc[t] = m[1] /\ pc'[t] = m[2]
        /\ UNCHANGED dataVars
        /\ m = <<"fill", "before">> => filled[t] >= Bench!num_elems_thread(t)
        /\ t = 0 => m[1] \notin {"before", "after"}
        /\ t \in asleep'["barrier_global"] => m[1] \in BeforeLoop
  BY DEF Quiet
<1>2. DataInv /\ UNCHANGED <<prog, opt, initial, sub, filled, puts, removes, at, sum, sizeBefore, size_after,
              putting_count_succ, removing_count_succ>>
  BY <1>1 DEF BenchInv, dataVars
<1>3. DataTypeOK'
  BY <1>2 DEF DataInv, DataTypeOK
<1>4. Size' = Size
  BY <1>2 DEF Size
<1>5. SizeInv'
  BY <1>2, <1>4 DEF DataInv, SizeInv
<1>6. Counted(t)'
  <2>1. Counted(t) /\ filled[t] \in Nat /\ Bench!num_elems_thread(t)' = Bench!num_elems_thread(t)
    BY <1>2 DEF DataInv, DataTypeOK, Bench!num_elems_thread
  <2>2. m = <<"fill", "before">> => filled[t] = Bench!num_elems_thread(t)
    <3>1. Bench!num_elems_thread(t) \in Int
      BY PartyFacts, <1>2 DEF DataInv, DataTypeOK, Bench!num_elems_thread
    <3> QED BY <1>1, <2>1, <3>1 DEF Counted
  <2>3. t \notin asleep["barrier_global"]
    BY DEF OthersStay, Bench!Barriers
  <2> QED BY <1>1, <1>2, <2>1, <2>2, <2>3, QuietMoveFacts DEF Counted
<1>7. \A u \in Bench!Threads \ {t} : Counted(u)'
  BY <1>2, OthersCounted
<1>8. ScanInv'
  <2>1. ASSUME at > 0 PROVE pc'[0] \in {"before", "after"} /\ Bench!Awake(0)'
    <3>1. pc[0] \in {"before", "after"} /\ Bench!Awake(0) /\ 0 \in Bench!Threads
      BY <1>2, <2>1, PartyFacts DEF DataInv, ScanInv
    <3>2. t # 0
      BY <1>1, <3>1
    <3> QED BY <3>1, <3>2 DEF OthersStay, Bench!Awake
  <2> QED BY <1>2, <2>1 DEF DataInv, ScanInv
<1>9. MeasuredInv'
  <2>1. pc'[Bench!Main] = pc[Bench!Main] /\ Bench!Rounded(opt.initial)' = Bench!Rounded(opt.initial)
    BY <1>2 DEF OthersStay
  <2>2. 0 \in Bench!Threads /\ pc'[0] \in Phase4 \cup {"sized"} => pc[0] \in Phase4 \cup {"sized"}
    BY <1>1, PartyFacts, QuietMoveFacts DEF OthersStay
  <2>3. ASSUME NEW u \in Bench!Threads, pc[u] \in Phase3 \cup Phase4 PROVE pc'[u] \in Phase3 \cup Phase4
    BY <1>1, <2>3, QuietMoveFacts DEF OthersStay
  <2>4. pc[Bench!Main] # "report"
    BY <1>1, <1>2, QuietMoveFacts DEF DataInv, MeasuredInv
  <2> QED BY <1>2, <1>4, <2>1, <2>2, <2>3, <2>4, PartyFacts DEF DataInv, MeasuredInv
<1> QED BY <1>3, <1>5, <1>6, <1>7, <1>8, <1>9 DEF DataInv

\* An element is added to a sub-structure, or taken from it.
LEMMA ResizedSize ==
  ASSUME DataTypeOK, NEW d \in {1, -1},
         \E k \in Bench!Indices : sub' = [sub EXCEPT ![k] = @ + d] /\ sub[k] + d \in Nat
  PROVE  /\ Size' = Size + d /\ Size \in Int
         /\ sub' \in [Bench!Indices -> Nat]
<1>1. PICK k \in Bench!Indices : sub' = [sub EXCEPT ![k] = @ + d] /\ sub[k] + d \in Nat
  OBVIOUS
<1>2. /\ sub \in [Bench!Indices -> Nat] /\ sub' \in [Bench!Indices -> Nat]
      /\ sub'[k] = sub[k] + d /\ \A x \in Bench!Indices \ {k} : sub'[x] = sub[x]
  BY <1>1 DEF DataTypeOK
<1>3. SumFunctionOnSet(sub', Bench!Indices) = SumFunctionOnSet(sub, Bench!Indices) + (sub'[k] - sub[k])
  <2>1. sub'[k] \in Int /\ \A x \in Bench!Indices : sub[x] \in Int
    BY <1>2
  <2>2. IsFiniteSet(Bench!Indices)
    BY IndexFacts
  <2> QED BY ONLY <1>2, <2>1, <2>2, SumUpdate
<1>4. Bench!Indices' = Bench!Indices
  BY DEF Bench!Indices
<1>5. Size \in Int
  <2>1. \A x \in Bench!Indices : sub[x] \in Int
    BY <1>2
  <2> QED BY <2>1, IndexFacts, SumEquation DEF Size
<1> QED BY <1>2, <1>3, <1>4, <1>5 DEF Size

\* One more in a count of thread t.
LEMMA OneMore ==
  ASSUME NEW t \in Bench!Threads, NEW f \in [Bench!Threads -> Nat], NEW h \in [Bench!Threads -> Nat],
         h[t] = f[t] + 1, \A u \in Bench!Threads \ {t} : h[u] = f[u]
  PROVE  SumFunctionOnSet(h, Bench!Threads) = SumFunctionOnSet(f, Bench!Threads) + 1
<1>1. SumFunctionOnSet(h, Bench!Threads) = SumFunctionOnSet(f, Bench!Threads) + (h[t] - f[t])
  <2>1. h[t] \in Int /\ \A x \in Bench!Threads : f[x] \in Int
    OBVIOUS
  <2>2. IsFiniteSet(Bench!Threads)
    BY PartyFacts
  <2> QED BY <2>1, <2>2, SumUpdate
<1>2. SumFunctionOnSet(f, Bench!Threads) \in Int
  <2>1. \A x \in Bench!Threads : f[x] \in Int
    OBVIOUS
  <2> QED BY <2>1, PartyFacts, SumEquation
<1> QED BY <1>1, <1>2

\* The sums over all threads are numbers.
LEMMA CountSums ==
  ASSUME DataTypeOK
  PROVE  /\ SumFunctionOnSet(filled, Bench!Threads) \in Int
         /\ SumFunctionOnSet(puts, Bench!Threads) \in Int
         /\ SumFunctionOnSet(removes, Bench!Threads) \in Int
<1>1. \A x \in Bench!Threads : filled[x] \in Int /\ puts[x] \in Int /\ removes[x] \in Int
  BY DEF DataTypeOK
<1> QED BY <1>1, PartyFacts, SumEquation

\* What a step of a filling or looping thread leaves true.
LEMMA BusyKeeps ==
  ASSUME BenchInv, NEW t \in Bench!Threads, OthersStay(t), pc[t] \in {"fill", "loop"}, pc'[t] = pc[t],
         UNCHANGED <<prog, opt, initial, at, sum, sizeBefore, size_after, asleep>>
  PROVE  ScanInv' /\ MeasuredInv'
<1>1. DataInv /\ BarrierPhaseInv /\ 0 \in Bench!Threads
  BY PartyFacts DEF BenchInv
<1>2. at = 0
  <2> SUFFICES ASSUME at # 0 PROVE FALSE
    OBVIOUS
  <2>1. pc[0] \in {"before", "after"} /\ Bench!Awake(0)
    BY <1>1, IndexFacts DEF DataInv, ScanInv, DataTypeOK
  <2>2. Bench!Awake(t)
    BY DEF OthersStay, Bench!Awake
  <2> QED BY <1>1, <2>1, <2>2, Frozen
<1>3. ScanInv'
  <2>1. 0..(0 - 1) = {}
    OBVIOUS
  <2>2. SumFunctionOnSet(sub, {}) = 0 /\ SumFunctionOnSet(sub', {}) = 0
    BY SumEquation, FS_EmptySet
  <2> QED BY <1>1, <1>2, <2>1, <2>2 DEF DataInv, ScanInv
<1>4. pc[t] \notin Phase3 \cup Phase4 /\ pc[t] # "exit"
  BY DEF Phase3, Phase4
<1>5. \A u \in Bench!Threads : pc'[u] = pc[u]
  BY DEF OthersStay
<1>6. pc[0] \notin Phase4 \cup {"sized"}
  BY <1>1, <1>4 DEF DataInv, MeasuredInv
<1>7. pc'[Bench!Main] = pc[Bench!Main]
  BY DEF OthersStay
<1>8. MeasuredInv'
  BY <1>1, <1>4, <1>5, <1>6, <1>7 DEF DataInv, MeasuredInv
<1> QED BY <1>3, <1>8

\* One more element is inserted before the test.
LEMMA FillKeeps ==
  ASSUME BenchInv, NEW t \in Bench!Threads, OthersStay(t), Bench!Fill(t), UNCHANGED asleep
  PROVE  DataInv'
<1>1. /\ pc[t] = "fill" /\ pc'[t] = pc[t] /\ filled[t] < Bench!num_elems_thread(t)
      /\ \E k \in Bench!Indices : sub' = [sub EXCEPT ![k] = @ + 1] /\ sub[k] + 1 \in Nat
      /\ filled' = [filled EXCEPT ![t] = @ + 1]
      /\ UNCHANGED <<prog, opt, initial, puts, removes, at, sum, sizeBefore, size_after,
                     putting_count_succ, removing_count_succ>>
  <2>1. t \in Everybody /\ pc \in [Everybody -> BenchLabels \cup MainLabels]
    BY DEF Everybody, BenchInv, BarrierPhaseInv, PhaseInv
  <2>2. pc[t] = "fill" /\ pc'[t] = pc[t]
    BY <2>1 DEF Bench!Fill, Bench!Goto
  <2>3. PICK k \in Bench!Indices : sub' = [sub EXCEPT ![k] = @ + 1]
    BY DEF Bench!Fill, Bench!Add
  <2>4. sub[k] + 1 \in Nat
    BY DEF BenchInv, DataInv, DataTypeOK
  <2> QED BY <2>2, <2>3, <2>4 DEF Bench!Fill, Bench!mainVars, Bench!resultVars
<1>2. DataTypeOK /\ SizeInv /\ Counted(t)
  BY DEF BenchInv, DataInv
<1>3. Size' = Size + 1 /\ Size \in Int /\ sub' \in [Bench!Indices -> Nat]
  BY <1>1, <1>2, ResizedSize
<1>4. /\ filled' \in [Bench!Threads -> Nat] /\ filled'[t] = filled[t] + 1
      /\ \A u \in Bench!Threads \ {t} : filled'[u] = filled[u]
      /\ SumFunctionOnSet(filled', Bench!Threads) = SumFunctionOnSet(filled, Bench!Threads) + 1
  <2>1. filled \in [Bench!Threads -> Nat]
    BY <1>2 DEF DataTypeOK
  <2>2. /\ filled' \in [Bench!Threads -> Nat] /\ filled'[t] = filled[t] + 1
        /\ \A u \in Bench!Threads \ {t} : filled'[u] = filled[u]
    BY <1>1, <2>1
  <2> QED BY <2>1, <2>2, OneMore
<1>5. DataTypeOK'
  BY <1>1, <1>2, <1>3, <1>4 DEF DataTypeOK
<1>6. SizeInv'
  BY <1>1, <1>2, <1>3, <1>4, CountSums DEF SizeInv
<1>7. Counted(t)'
  <2>1. filled[t] + 1 <= Bench!num_elems_thread(t)
    <3>1. Bench!num_elems_thread(t) \in Int /\ filled[t] \in Int
      BY <1>2, PartyFacts DEF DataTypeOK, Bench!num_elems_thread
    <3> QED BY <1>1, <3>1
  <2>2. Bench!num_elems_thread(t)' = Bench!num_elems_thread(t)
    BY <1>1 DEF Bench!num_elems_thread
  <2>3. pc'[t] \notin Phase0 /\ pc'[t] \in Phase1 /\ pc'[t] \notin Shared
    BY <1>1 DEF Phase0, Phase1, Shared
  <2> QED BY <1>1, <1>2, <1>4, <2>1, <2>2, <2>3 DEF Counted
<1>8. \A u \in Bench!Threads \ {t} : Counted(u)'
  BY <1>1, <1>4, OthersCounted
<1>9. ScanInv' /\ MeasuredInv'
  BY <1>1, BusyKeeps
<1> QED BY <1>5, <1>6, <1>7, <1>8, <1>9 DEF DataInv

\* A put or a remove of the loop that succeeds.
LEMMA LoopKeeps ==
  ASSUME BenchInv, NEW t \in Bench!Threads, OthersStay(t), UNCHANGED asleep,
         Bench!LoopPut(t) \/ Bench!LoopRemove(t)
  PROVE  DataInv'
<1>1. /\ pc[t] = "loop" /\ pc'[t] = pc[t]
      /\ UNCHANGED <<prog, opt, initial, filled, at, sum, sizeBefore, size_after,
                     putting_count_succ, removing_count_succ>>
  <2>1. t \in Everybody
    BY DEF Everybody
  <2> QED BY <2>1 DEF Bench!LoopPut, Bench!LoopRemove, Bench!InLoop, Bench!Goto, Bench!mainVars,
             Bench!resultVars, BenchInv, BarrierPhaseInv, PhaseInv
<1>2. DataTypeOK /\ SizeInv /\ Counted(t)
  BY DEF BenchInv, DataInv
<1>3. ScanInv' /\ MeasuredInv'
  BY <1>1, BusyKeeps
<1>4. /\ pc'[t] \notin BeforeLoop /\ pc'[t] \notin Shared
      /\ t \notin asleep'["barrier_global"]
      /\ Bench!num_elems_thread(t)' = Bench!num_elems_thread(t)
  BY <1>1 DEF BeforeLoop, Phase0, Phase1, Shared, OthersStay, Bench!Barriers, Bench!num_elems_thread
<1>5. CASE Bench!LoopPut(t)
  <2>1. /\ \E k \in Bench!Indices : sub' = [sub EXCEPT ![k] = @ + 1] /\ sub[k] + 1 \in Nat
        /\ puts' = [puts EXCEPT ![t] = @ + 1] /\ UNCHANGED removes
    <3>1. PICK k \in Bench!Indices : sub' = [sub EXCEPT ![k] = @ + 1]
      BY <1>5 DEF Bench!LoopPut, Bench!Add
    <3>2. sub[k] + 1 \in Nat
      BY <1>2 DEF DataTypeOK
    <3> QED BY <1>5, <3>1, <3>2 DEF Bench!LoopPut
  <2>2. Size' = Size + 1 /\ Size \in Int /\ sub' \in [Bench!Indices -> Nat]
    BY <1>2, <2>1, ResizedSize
  <2>3. /\ puts' \in [Bench!Threads -> Nat]
        /\ \A u \in Bench!Threads \ {t} : puts'[u] = puts[u]
        /\ SumFunctionOnSet(puts', Bench!Threads) = SumFunctionOnSet(puts, Bench!Threads) + 1
    <3>1. puts \in [Bench!Threads -> Nat]
      BY <1>2 DEF DataTypeOK
    <3>2. /\ puts' \in [Bench!Threads -> Nat] /\ puts'[t] = puts[t] + 1
          /\ \A u \in Bench!Threads \ {t} : puts'[u] = puts[u]
      BY <2>1, <3>1
    <3> QED BY <3>1, <3>2, OneMore
  <2>4. DataTypeOK'
    BY <1>1, <1>2, <2>1, <2>2, <2>3 DEF DataTypeOK
  <2>5. SizeInv'
    BY <1>1, <1>2, <2>1, <2>2, <2>3, CountSums DEF SizeInv
  <2>6. Counted(t)'
    BY <1>1, <1>2, <1>4 DEF Counted
  <2>7. \A u \in Bench!Threads \ {t} : Counted(u)'
    BY <1>1, <2>1, <2>3, OthersCounted
  <2> QED BY <1>3, <2>4, <2>5, <2>6, <2>7 DEF DataInv
<1>6. CASE Bench!LoopRemove(t)
  <2>1. /\ \E k \in Bench!Indices : sub' = [sub EXCEPT ![k] = @ + (-1)] /\ sub[k] + (-1) \in Nat
        /\ removes' = [removes EXCEPT ![t] = @ + 1] /\ UNCHANGED puts
    <3>1. PICK k \in Bench!Indices : sub[k] > 0 /\ sub' = [sub EXCEPT ![k] = @ - 1]
      BY <1>6 DEF Bench!LoopRemove
    <3>2. sub[k] \in Nat /\ sub[k] - 1 = sub[k] + (-1) /\ sub[k] + (-1) \in Nat
      BY <1>2, <3>1 DEF DataTypeOK
    <3>3. sub' = [sub EXCEPT ![k] = @ + (-1)]
      BY <3>1, <3>2
    <3> QED BY <1>6, <3>2, <3>3 DEF Bench!LoopRemove
  <2>2. Size' = Size + (-1) /\ Size \in Int /\ sub' \in [Bench!Indices -> Nat]
    BY <1>2, <2>1, ResizedSize
  <2>3. /\ removes' \in [Bench!Threads -> Nat]
        /\ \A u \in Bench!Threads \ {t} : removes'[u] = removes[u]
        /\ SumFunctionOnSet(removes', Bench!Threads) = SumFunctionOnSet(removes, Bench!Threads) + 1
    <3>1. removes \in [Bench!Threads -> Nat]
      BY <1>2 DEF DataTypeOK
    <3>2. /\ removes' \in [Bench!Threads -> Nat] /\ removes'[t] = removes[t] + 1
          /\ \A u \in Bench!Threads \ {t} : removes'[u] = removes[u]
      BY <2>1, <3>1
    <3> QED BY <3>1, <3>2, OneMore
  <2>4. DataTypeOK'
    BY <1>1, <1>2, <2>1, <2>2, <2>3 DEF DataTypeOK
  <2>5. SizeInv'
    BY <1>1, <1>2, <2>1, <2>2, <2>3, CountSums DEF SizeInv
  <2>6. Counted(t)'
    BY <1>1, <1>2, <1>4 DEF Counted
  <2>7. \A u \in Bench!Threads \ {t} : Counted(u)'
    BY <1>1, <2>1, <2>3, OthersCounted
  <2> QED BY <1>3, <2>4, <2>5, <2>6, <2>7 DEF DataInv
<1> QED BY <1>5, <1>6

\* A sum of zeros is zero.
LEMMA SumZero ==
  ASSUME NEW N \in Nat, NEW f, \A x \in 0..(N - 1) : f[x] = 0
  PROVE  SumFunctionOnSet(f, 0..(N - 1)) = 0
<1> DEFINE T == {n \in Nat : n <= N => SumFunctionOnSet(f, 0..(n - 1)) = 0}
<1>1. \A n \in Nat : IsFiniteSet(0..(n - 1))
  BY IndexFacts
<1>2. 0 \in T
  <2>1. 0..(0 - 1) = {}
    OBVIOUS
  <2> QED BY <2>1, SumEquation, FS_EmptySet
<1>3. ASSUME NEW n \in Nat, n \in T PROVE n + 1 \in T
  <2> SUFFICES ASSUME n + 1 <= N PROVE SumFunctionOnSet(f, 0..((n + 1) - 1)) = 0
    OBVIOUS
  <2>1. /\ 0..((n + 1) - 1) = 0..n /\ n \in 0..n /\ (0..n) \ {n} = 0..(n - 1)
        /\ \A x \in 0..n : f[x] = 0
    BY <1>1
  <2>2. IsFiniteSet(0..n) /\ \A x \in 0..n : f[x] \in Int
    BY <2>1, FS_Interval
  <2>3. SumFunctionOnSet(f, 0..n) = f[n] + SumFunctionOnSet(f, (0..n) \ {n})
    BY <2>1, <2>2, SumRemove
  <2>4. SumFunctionOnSet(f, 0..(n - 1)) = 0
    BY <1>1, <1>3
  <2>5. f[n] = 0 /\ SumFunctionOnSet(f, (0..n) \ {n}) = 0
    BY <2>1, <2>4
  <2>6. SumFunctionOnSet(f, 0..n) = 0
    BY ONLY <2>3, <2>5
  <2> QED BY ONLY <2>1, <2>6
<1> HIDE DEF T
<1>4. N \in T
  BY <1>2, <1>3, SetInduction
<1> QED BY <1>4 DEF T

\* One sub-structure more in the size that thread 0 takes.
LEMMA ScanKeeps ==
  ASSUME BenchInv, NEW t \in Bench!Threads, OthersStay(t), NEW from \in {"before", "after"},
         Bench!SizeStep(t, from)
  PROVE  DataInv'
<1>1. /\ t = 0 /\ at < Subs /\ pc[0] = from /\ pc' = pc
      /\ sum' = sum + sub[at] /\ at' = at + 1 /\ asleep' = asleep /\ Bench!Awake(0)
      /\ UNCHANGED <<prog, opt, initial, sub, filled, puts, removes, sizeBefore, size_after,
                     putting_count_succ, removing_count_succ>>
  <2>1. t \in Everybody /\ pc \in [Everybody -> BenchLabels \cup MainLabels]
    BY DEF Everybody, BenchInv, BarrierPhaseInv, PhaseInv
  <2>2. pc[t] = from /\ pc' = pc
    BY <2>1 DEF Bench!SizeStep, Bench!Goto
  <2> QED BY <2>2 DEF Bench!SizeStep, Bench!Goto, Bench!barrierVars, Bench!containerVars, Bench!mainVars,
             Bench!resultVars
<1>2. DataInv /\ DataTypeOK /\ ScanInv
  BY DEF BenchInv, DataInv
<1>3. /\ at \in Bench!Indices /\ at \in Nat /\ at + 1 \in 0..Subs /\ sub[at] \in Nat /\ sum \in Int
      /\ 0..((at + 1) - 1) = 0..at /\ (0..at) \ {at} = 0..(at - 1) /\ at \in 0..at
      /\ \A x \in 0..at : sub[x] \in Int
  BY SMTT(30), <1>1, <1>2, IndexFacts DEF DataTypeOK
<1>4. DataTypeOK'
  BY <1>1, <1>2, <1>3 DEF DataTypeOK
<1>5. sum' = SumFunctionOnSet(sub, 0..((at + 1) - 1))
  <2>1. IsFiniteSet(0..at)
    BY <1>3, FS_Interval
  <2>2. SumFunctionOnSet(sub, 0..at) = sub[at] + SumFunctionOnSet(sub, 0..(at - 1))
    BY <1>3, <2>1, SumRemove
  <2>3. sum = SumFunctionOnSet(sub, 0..(at - 1))
    BY <1>2 DEF ScanInv
  <2>4. sum + sub[at] = sub[at] + sum
    BY <1>3
  <2> QED BY <1>1, <1>3, <2>2, <2>3, <2>4
<1>6. ScanInv'
  BY <1>1, <1>5 DEF ScanInv, Bench!Awake
<1>7. Size' = Size
  BY <1>1 DEF Size, Bench!Indices
<1>8. SizeInv'
  BY <1>1, <1>2, <1>7 DEF DataInv, SizeInv
<1>9. MeasuredInv'
  BY <1>1, <1>2, <1>7 DEF DataInv, MeasuredInv
<1>10. ASSUME NEW u \in Bench!Threads PROVE Counted(u)'
  <2>1. Counted(u)
    BY <1>2 DEF DataInv
  <2> QED BY <1>1, <2>1 DEF Counted, Bench!num_elems_thread
<1> QED BY <1>4, <1>6, <1>8, <1>9, <1>10 DEF DataInv

\* Thread 0 has the size of the container as it is.
LEMMA MeasureKeeps ==
  ASSUME BenchInv, NEW t \in Bench!Threads, OthersStay(t),
         \/ Bench!SizeDone(t, "before", "go") /\ sizeBefore' = sum /\ UNCHANGED size_after
         \/ Bench!SizeDone(t, "after", "sized") /\ size_after' = sum /\ UNCHANGED sizeBefore
  PROVE  DataInv'
<1>1. /\ t = 0 /\ at = Subs /\ at' = 0 /\ sum' = 0 /\ asleep' = asleep /\ Bench!Awake(0)
      /\ UNCHANGED <<prog, opt, initial, sub, filled, puts, removes,
                     putting_count_succ, removing_count_succ>>
      /\ \/ /\ pc[0] = "before" /\ pc'[0] = "go" /\ sizeBefore' = sum /\ UNCHANGED size_after
         \/ /\ pc[0] = "after" /\ pc'[0] = "sized" /\ size_after' = sum /\ UNCHANGED sizeBefore
  <2>1. t \in Everybody /\ pc \in [Everybody -> BenchLabels \cup MainLabels]
    BY DEF Everybody, BenchInv, BarrierPhaseInv, PhaseInv
  <2> QED BY <2>1 DEF Bench!SizeDone, Bench!Goto, Bench!barrierVars, Bench!containerVars, Bench!mainVars
<1>2. DataInv /\ DataTypeOK /\ ScanInv /\ SizeInv /\ MeasuredInv /\ BarrierPhaseInv
  BY DEF BenchInv, DataInv
<1>3. sum = Size
  BY <1>1, <1>2, IndexFacts DEF ScanInv, Size
<1>4. DataTypeOK'
  BY SMTT(30), <1>1, <1>2, IndexFacts DEF DataTypeOK
<1>5. ScanInv'
  <2>1. 0..(0 - 1) = {}
    OBVIOUS
  <2>2. SumFunctionOnSet(sub, {}) = 0
    BY SumEquation, FS_EmptySet
  <2> QED BY <1>1, <2>1, <2>2 DEF ScanInv
<1>6. Size' = Size
  BY <1>1 DEF Size, Bench!Indices
<1>7. SizeInv'
  BY <1>1, <1>2, <1>6 DEF SizeInv
<1>8. \A u \in Bench!Threads \ {t} : pc'[u] = pc[u]
  BY DEF OthersStay
<1>9. ASSUME NEW u \in Bench!Threads PROVE Counted(u)'
  <2>1. Counted(u)
    BY <1>2 DEF DataInv
  <2>2. CASE u # t
    BY <1>1, <2>2, OthersCounted
  <2>3. CASE u = t
    <3>1. /\ pc'[u] \notin Phase0 /\ pc[u] \notin Phase0 \cup Phase1
          /\ pc'[u] \notin Shared /\ pc[u] \notin Shared
          /\ pc'[u] \in BeforeLoop => pc[u] \in BeforeLoop
      BY <1>1, <2>3 DEF Phase0, Phase1, Shared, BeforeLoop
    <3> QED BY <1>1, <2>1, <2>3, <3>1 DEF Counted, Bench!num_elems_thread
  <2> QED BY <2>2, <2>3
<1>10. CASE pc[0] = "before"
  <2>1. /\ pc'[0] = "go" /\ sizeBefore' = sum /\ size_after' = size_after
    BY <1>1, <1>10
  <2>2. \A u \in Bench!Threads : /\ filled[u] = Bench!num_elems_thread(u)
                                /\ puts[u] = 0 /\ removes[u] = 0
    <3>1. ASSUME NEW u \in Bench!Threads
          PROVE  /\ pc[u] \notin Phase0 \cup Phase1
                 /\ pc[u] \in BeforeLoop \/ u \in asleep["barrier_global"]
      BY <1>1, <1>2, <1>10, EverybodyThere
    <3> QED BY <1>2, <3>1 DEF DataInv, Counted
  <2>3. SumFunctionOnSet(filled, Bench!Threads) = initial
    BY <1>2, <2>2, SharesAddUp DEF DataTypeOK
  <2>4. SumFunctionOnSet(puts, Bench!Threads) = 0 /\ SumFunctionOnSet(removes, Bench!Threads) = 0
    BY <2>2, PartyFacts, SumZero
  <2>5. sizeBefore' = initial
    <3>1. initial \in Int
      BY <1>2 DEF DataTypeOK
    <3> QED BY <1>2, <1>3, <2>1, <2>3, <2>4, <3>1 DEF SizeInv
  <2>6. pc[Bench!Main] # "options"
    <3>1. /\ 0 \in Bench!Threads
          /\ \A u \in Bench!Threads : u >= created => pc[u] = "none"
          /\ pc[Bench!Main] = "options" => created = 0
      BY <1>2, PartyFacts DEF BarrierPhaseInv, PhaseInv
    <3>2. created = 0 => pc[0] = "none"
      BY <3>1
    <3> QED BY <1>10, <3>1, <3>2
  <2>7. /\ pc'[Bench!Main] = pc[Bench!Main] /\ pc[Bench!Main] # "report" /\ 0 \in Bench!Threads
        /\ pc'[0] \notin Phase4 \cup {"sized"}
    BY <1>2, <1>10, <2>1, PartyFacts DEF OthersStay, MeasuredInv, Phase4
  <2>8. MeasuredInv'
    BY <1>1, <1>2, <2>1, <2>5, <2>6, <2>7 DEF MeasuredInv
  <2> QED BY <1>4, <1>5, <1>7, <1>9, <2>8 DEF DataInv
<1>11. CASE pc[0] = "after"
  <2>1. /\ pc'[0] = "sized" /\ size_after' = Size /\ sizeBefore' = sizeBefore
    BY <1>1, <1>3, <1>11
  <2>2. \A u \in Bench!Threads : pc'[u] \in Phase3 \cup Phase4
    <3>1. ASSUME NEW u \in Bench!Threads PROVE pc[u] \in Phase3 \cup Phase4
      BY <1>1, <1>2, <1>11, EverybodyThere
    <3> QED BY <1>1, <1>8, <2>1, <3>1 DEF Phase3
  <2>3. /\ pc'[Bench!Main] = pc[Bench!Main] /\ pc[Bench!Main] # "report" /\ 0 \in Bench!Threads
    BY <1>2, <1>11, PartyFacts DEF OthersStay, MeasuredInv
  <2>4. MeasuredInv'
    BY <1>1, <1>2, <1>6, <2>1, <2>2, <2>3 DEF MeasuredInv
  <2> QED BY <1>4, <1>5, <1>7, <1>9, <2>4 DEF DataInv
<1> QED BY <1>1, <1>10, <1>11

\* A thread adds its counts to the shared ones.
LEMMA ShareKeeps ==
  ASSUME BenchInv, NEW t \in Bench!Threads, OthersStay(t), Bench!Share(t)
  PROVE  DataInv'
<1>1. /\ pc[t] = "share" /\ pc'[t] \in {"abort", "print"} /\ asleep' = asleep
      /\ putting_count_succ' = [putting_count_succ EXCEPT ![t] = @ + puts[t]]
      /\ removing_count_succ' = [removing_count_succ EXCEPT ![t] = @ + removes[t]]
      /\ UNCHANGED <<prog, opt, initial, sub, filled, puts, removes, at, sum, sizeBefore, size_after>>
  <2>1. t \in Everybody /\ pc \in [Everybody -> BenchLabels \cup MainLabels]
    BY DEF Everybody, BenchInv, BarrierPhaseInv, PhaseInv
  <2>2. pc[t] = "share" /\ pc'[t] \in {"abort", "print"}
    BY <2>1 DEF Bench!Share, Bench!Goto
  <2> QED BY <2>2 DEF Bench!Share, Bench!barrierVars, Bench!containerVars, Bench!mainVars, Bench!myVars
<1>2. DataInv /\ DataTypeOK /\ ScanInv /\ SizeInv /\ MeasuredInv /\ Counted(t)
  BY DEF BenchInv, DataInv
<1>3. /\ putting_count_succ[t] = 0 /\ removing_count_succ[t] = 0
      /\ puts[t] \in Nat /\ removes[t] \in Nat
  BY <1>1, <1>2 DEF Counted, Shared, DataTypeOK
<1>4. /\ putting_count_succ' \in [Bench!Threads -> Nat] /\ removing_count_succ' \in [Bench!Threads -> Nat]
      /\ putting_count_succ'[t] = puts[t] /\ removing_count_succ'[t] = removes[t]
      /\ \A u \in Bench!Threads \ {t} : /\ putting_count_succ'[u] = putting_count_succ[u]
                                       /\ removing_count_succ'[u] = removing_count_succ[u]
  BY <1>1, <1>2, <1>3 DEF DataTypeOK
<1>5. DataTypeOK'
  BY <1>1, <1>2, <1>4 DEF DataTypeOK
<1>6. Size' = Size
  BY <1>1 DEF Size, Bench!Indices
<1>7. SizeInv'
  BY <1>1, <1>2, <1>6 DEF SizeInv
<1>8. Counted(t)'
  <2>1. /\ pc'[t] \in Shared /\ pc[t] \notin Phase0 \cup Phase1
        /\ pc'[t] \notin Phase0 \cup Phase1 /\ pc'[t] \notin BeforeLoop
    BY <1>1 DEF Shared, Phase0, Phase1, BeforeLoop
  <2> QED BY <1>1, <1>2, <1>4, <2>1 DEF Counted, Bench!num_elems_thread
<1>9. \A u \in Bench!Threads \ {t} : Counted(u)'
  BY <1>1, <1>4, OthersCounted
<1>10. ScanInv'
  <2>1. ASSUME at > 0 PROVE pc'[0] \in {"before", "after"} /\ Bench!Awake(0)'
    <3>1. pc[0] \in {"before", "after"} /\ Bench!Awake(0) /\ t # 0
      BY <1>1, <1>2, <2>1 DEF ScanInv
    <3> QED BY <1>1, <3>1, PartyFacts DEF OthersStay, Bench!Awake
  <2> QED BY <1>1, <1>2, <2>1 DEF ScanInv
<1>11. MeasuredInv'
  <2>1. /\ pc'[Bench!Main] = pc[Bench!Main] /\ 0 \in Bench!Threads
        /\ pc[t] \in Phase4 /\ pc'[t] \in Phase4 /\ pc[Bench!Main] # "report"
    BY <1>1, <1>2, PartyFacts DEF OthersStay, MeasuredInv, Phase4
  <2>2. \A u \in Bench!Threads : pc[u] \in Phase3 \cup Phase4 => pc'[u] \in Phase3 \cup Phase4
    BY <2>1 DEF OthersStay
  <2>3. pc'[0] \in Phase4 \cup {"sized"} => pc[0] \in Phase4 \cup {"sized"}
    BY <2>1 DEF OthersStay
  <2> QED BY <1>1, <1>2, <1>6, <2>1, <2>2, <2>3 DEF MeasuredInv
<1> QED BY <1>5, <1>7, <1>8, <1>9, <1>10, <1>11 DEF DataInv

\* A step of a thread leaves the other threads where they are.
LEMMA StepStays ==
  ASSUME BarrierPhaseInv, NEW t \in Bench!Threads, Bench!ThreadStep(t)
  PROVE  OthersStay(t)
<1>1. PICK m \in Crossings \cup GlobalCrossings \cup Moves :
        /\ Bench!Goto(t, m[1], m[2])
        /\ \/ m \in Crossings /\ Bench!barrier_cross(t, "barrier")
           \/ m \in GlobalCrossings /\ Bench!barrier_cross(t, "barrier_global")
           \/ UNCHANGED <<crossing, asleep, arrived>>
  BY ThreadControl DEF ControlStep
<1> QED BY <1>1, ThreadMoves

\* A step that leaves the data alone.
LEMMA QuietStep ==
  ASSUME BenchInv, NEW t \in Bench!Threads, NEW from, NEW to, <<from, to>> \in QuietMoves,
         Bench!Goto(t, from, to),
         \/ <<from, to>> \in Crossings /\ Bench!barrier_cross(t, "barrier")
         \/ <<from, to>> \in GlobalCrossings /\ Bench!barrier_cross(t, "barrier_global")
         \/ UNCHANGED <<crossing, asleep, arrived>>,
         UNCHANGED dataVars,
         <<from, to>> = <<"fill", "before">> => filled[t] >= Bench!num_elems_thread(t),
         t # 0 \/ from \notin {"before", "after"}
  PROVE  DataInv'
<1> DEFINE m == <<from, to>>
<1>1. m[1] = from /\ m[2] = to /\ m \in QuietMoves
  OBVIOUS
<1>2. /\ OthersStay(t) /\ pc[t] = from /\ pc'[t] = to
      /\ t \in asleep'["barrier_global"] => from \in BeforeLoop
  <2>1. \/ \E k \in Crossings : k[1] = from /\ k[2] = to /\ Bench!barrier_cross(t, "barrier")
        \/ \E k \in GlobalCrossings : k[1] = from /\ k[2] = to /\ Bench!barrier_cross(t, "barrier_global")
        \/ UNCHANGED <<crossing, asleep, arrived>>
    BY <1>1
  <2>2. BarrierPhaseInv
    BY DEF BenchInv
  <2> QED BY <2>1, <2>2, ThreadMoves
<1>3. Quiet(t)
  BY <1>1, <1>2 DEF Quiet
<1> QED BY <1>2, <1>3, QuietKeeps

\* Every step of a thread keeps the data.
LEMMA ThreadKeepsData ==
  ASSUME BenchInv, NEW t \in Bench!Threads, Bench!ThreadStep(t)
  PROVE  DataInv'
<1> USE DEF Bench!barrierVars, Bench!mainVars, Bench!containerVars, Bench!myVars, Bench!resultVars, dataVars
<1>1. OthersStay(t)
  BY StepStays DEF BenchInv
<1>2. CASE Bench!Start(t)
  <2>1. <<"start", "ready">> \in QuietMoves
    BY DEF QuietMoves, Moves
  <2>2. Bench!Goto(t, "start", "ready") /\ UNCHANGED dataVars /\ UNCHANGED <<crossing, asleep, arrived>>
    BY <1>2 DEF Bench!Start
  <2> QED BY <2>1, <2>2, QuietStep
<1>3. CASE Bench!Ready(t)
  <2>1. <<"ready", "register">> \in QuietMoves \cap Crossings
    BY DEF QuietMoves, Crossings
  <2>2. /\ Bench!Goto(t, "ready", "register") /\ UNCHANGED dataVars
        /\ Bench!barrier_cross(t, "barrier")
    BY <1>3 DEF Bench!Ready, Bench!Cross
  <2> QED BY <2>1, <2>2, QuietStep
<1>4. CASE Bench!Register(t)
  <2>1. <<"register", "fill">> \in QuietMoves
    BY DEF QuietMoves, Moves
  <2>2. Bench!Goto(t, "register", "fill") /\ UNCHANGED dataVars /\ UNCHANGED <<crossing, asleep, arrived>>
    BY <1>4 DEF Bench!Register
  <2> QED BY <2>1, <2>2, QuietStep
<1>5. CASE Bench!Fill(t)
  BY <1>1, <1>5, FillKeeps DEF Bench!Fill
<1>6. CASE Bench!Filled(t)
  <2>1. <<"fill", "before">> \in QuietMoves \cap Crossings
    BY DEF QuietMoves, Crossings
  <2>2. /\ Bench!Goto(t, "fill", "before") /\ UNCHANGED dataVars
        /\ Bench!barrier_cross(t, "barrier") /\ filled[t] >= Bench!num_elems_thread(t)
    BY <1>6 DEF Bench!Filled, Bench!Cross
  <2> QED BY <2>1, <2>2, QuietStep
<1>7. CASE Bench!BeforeSize(t)
  <2>1. CASE Bench!SizeStep(t, "before")
    BY <1>1, <2>1, ScanKeeps
  <2>2. CASE Bench!SizeDone(t, "before", "go") /\ sizeBefore' = sum /\ UNCHANGED size_after
    BY <1>1, <2>2, MeasureKeeps
  <2> QED BY <1>7, <2>1, <2>2 DEF Bench!BeforeSize
<1>8. CASE Bench!Go(t)
  <2>1. {<<"go", "loop">>, <<"before", "loop">>} \subseteq QuietMoves \cap GlobalCrossings
    BY DEF QuietMoves, GlobalCrossings
  <2>2. PICK from \in {"go", "before"} :
          /\ Bench!Goto(t, from, "loop") /\ UNCHANGED dataVars /\ (t # 0 \/ from # "before")
          /\ Bench!barrier_cross(t, "barrier_global")
    BY <1>8 DEF Bench!Go, Bench!Cross
  <2> QED BY <2>1, <2>2, QuietStep
<1>9. CASE Bench!LoopPut(t) \/ Bench!LoopRemove(t)
  <2>1. UNCHANGED asleep
    BY <1>9 DEF Bench!LoopPut, Bench!LoopRemove, Bench!InLoop
  <2> QED BY <1>1, <1>9, <2>1, LoopKeeps
<1>10. CASE Bench!LoopRemoveFails(t) \/ Bench!EndBatch(t)
  <2>1. <<"loop", "loop">> \in QuietMoves
    BY DEF QuietMoves, Moves
  <2>2. Bench!Goto(t, "loop", "loop") /\ UNCHANGED dataVars /\ UNCHANGED <<crossing, asleep, arrived>>
    BY <1>10 DEF Bench!LoopRemoveFails, Bench!InLoop, Bench!EndBatch
  <2> QED BY <2>1, <2>2, QuietStep
<1>11. CASE Bench!Rest(t)
  <2>1. <<"loop", "rest">> \in QuietMoves
    BY DEF QuietMoves, Moves
  <2>2. Bench!Goto(t, "loop", "rest") /\ UNCHANGED dataVars /\ UNCHANGED <<crossing, asleep, arrived>>
    BY <1>11 DEF Bench!Rest
  <2> QED BY <2>1, <2>2, QuietStep
<1>12. CASE Bench!WakeUp(t)
  <2>1. <<"rest", "loop">> \in QuietMoves
    BY DEF QuietMoves, Moves
  <2>2. Bench!Goto(t, "rest", "loop") /\ UNCHANGED dataVars /\ UNCHANGED <<crossing, asleep, arrived>>
    BY <1>12 DEF Bench!WakeUp
  <2> QED BY <2>1, <2>2, QuietStep
<1>13. CASE Bench!LeaveLoop(t)
  <2>1. {<<"loop", "after">>, <<"rest", "after">>} \subseteq QuietMoves \cap Crossings
    BY DEF QuietMoves, Crossings
  <2>2. PICK from \in {"loop", "rest"} :
          /\ Bench!Goto(t, from, "after") /\ UNCHANGED dataVars
          /\ Bench!barrier_cross(t, "barrier")
    BY <1>13 DEF Bench!LeaveLoop, Bench!Cross
  <2> QED BY <2>1, <2>2, QuietStep
<1>14. CASE Bench!AfterSize(t)
  <2>1. CASE Bench!SizeStep(t, "after")
    BY <1>1, <2>1, ScanKeeps
  <2>2. CASE Bench!SizeDone(t, "after", "sized") /\ size_after' = sum /\ UNCHANGED sizeBefore
    BY <1>1, <2>2, MeasureKeeps
  <2>3. CASE \/ t # 0 /\ Bench!Cross(t, "barrier", "after", "share")
             \/ Bench!Cross(t, "barrier", "sized", "share")
    <3>1. {<<"after", "share">>, <<"sized", "share">>} \subseteq QuietMoves \cap Crossings
      BY DEF QuietMoves, Crossings
    <3>2. PICK from \in {"after", "sized"} :
            /\ Bench!Goto(t, from, "share") /\ UNCHANGED dataVars /\ (t # 0 \/ from # "after")
            /\ Bench!barrier_cross(t, "barrier")
      BY <2>3 DEF Bench!Cross
    <3> QED BY <3>1, <3>2, QuietStep
  <2> QED BY <1>14, <2>1, <2>2, <2>3 DEF Bench!AfterSize
<1>15. CASE Bench!Share(t)
  BY <1>1, <1>15, ShareKeeps
<1>16. CASE Bench!PrintInOrder(t)
  <2>1. {<<"print", "exit">>, <<"print", "print">>} \subseteq QuietMoves \cap Crossings
    BY DEF QuietMoves, Crossings
  <2>2. PICK to \in {"exit", "print"} :
          /\ Bench!Goto(t, "print", to) /\ UNCHANGED dataVars
          /\ Bench!barrier_cross(t, "barrier")
    BY <1>16 DEF Bench!PrintInOrder
  <2> QED BY <2>1, <2>2, QuietStep
<1> QED BY <1>2, <1>3, <1>4, <1>5, <1>6, <1>7, <1>8, <1>9, <1>10, <1>11, <1>12, <1>13, <1>14, <1>15, <1>16
        DEF Bench!ThreadStep

\* Whoever has passed the first barrier comes after thread 0, which prepares the analysis.
LEMMA ThreadKeepsAnalysis ==
  ASSUME BenchInv, NEW t \in Bench!Threads, Bench!ThreadStep(t)
  PROVE  AnalysisInv'
<1>1. OthersStay(t) /\ pc \in [Everybody -> BenchLabels \cup MainLabels] /\ t \in Everybody
      /\ 0 \in Bench!Threads
  BY StepStays, PartyFacts DEF BenchInv, BarrierPhaseInv, PhaseInv, Everybody
<1>2. prog' = prog /\ (analysis => analysis')
  <2>1. CASE Bench!Start(t) \/ Bench!Ready(t) \/ Bench!Register(t) \/ Bench!Fill(t) \/ Bench!Filled(t)
    <3>1. CASE Bench!Start(t)
      BY <3>1 DEF Bench!Start
    <3>2. CASE Bench!Ready(t) \/ Bench!Filled(t)
      BY <3>2 DEF Bench!Ready, Bench!Filled, Bench!Cross
    <3>3. CASE Bench!Register(t) \/ Bench!Fill(t)
      BY <3>3 DEF Bench!Register, Bench!Fill
    <3> QED BY <2>1, <3>1, <3>2, <3>3
  <2>2. CASE Bench!BeforeSize(t) \/ Bench!Go(t)
    BY <2>2 DEF Bench!BeforeSize, Bench!SizeStep, Bench!SizeDone, Bench!Go, Bench!Cross
  <2>3. CASE Bench!LoopPut(t) \/ Bench!LoopRemove(t) \/ Bench!LoopRemoveFails(t)
    BY <2>3 DEF Bench!LoopPut, Bench!LoopRemove, Bench!LoopRemoveFails, Bench!InLoop
  <2>4. CASE Bench!EndBatch(t) \/ Bench!Rest(t) \/ Bench!WakeUp(t) \/ Bench!LeaveLoop(t)
    BY <2>4 DEF Bench!EndBatch, Bench!Rest, Bench!WakeUp, Bench!LeaveLoop, Bench!Cross
  <2>5. CASE Bench!AfterSize(t)
    BY <2>5 DEF Bench!AfterSize, Bench!SizeStep, Bench!SizeDone, Bench!Cross
  <2>6. CASE Bench!Share(t) \/ Bench!PrintInOrder(t)
    BY <2>6 DEF Bench!Share, Bench!PrintInOrder
  <2> QED BY <2>1, <2>2, <2>3, <2>4, <2>5, <2>6 DEF Bench!ThreadStep
<1> SUFFICES ASSUME pc'[0] \notin {"none", "start"}, prog.test.analysis
             PROVE  analysis'
  BY <1>2 DEF AnalysisInv
<1>3. CASE pc[0] \notin {"none", "start"}
  BY <1>2, <1>3 DEF BenchInv, AnalysisInv
<1>4. CASE pc[0] \in {"none", "start"}
  <2>1. t = 0
    BY <1>1, <1>4 DEF OthersStay
  <2>2. CASE Bench!Start(t)
    BY <2>1, <2>2 DEF Bench!Start, Bench!StartsAnalysis
  <2>3. CASE ~ Bench!Start(t)
    <3>1. PICK m \in Crossings \cup GlobalCrossings \cup Moves :
            Bench!Goto(t, m[1], m[2])
      BY ThreadControl DEF ControlStep
    <3>2. pc[0] = m[1] /\ pc'[0] = m[2]
      BY <1>1, <2>1, <3>1 DEF Bench!Goto
    <3>3. m = <<"start", "ready">>
      BY <1>4, <3>2 DEF Crossings, GlobalCrossings, Moves
    <3> QED BY <1>1, <2>1, <2>3, <3>2, <3>3
            DEF Bench!ThreadStep, Bench!Ready, Bench!Register, Bench!Fill, Bench!Filled,
                Bench!BeforeSize, Bench!SizeStep, Bench!SizeDone, Bench!Go, Bench!LoopPut,
                Bench!LoopRemove, Bench!LoopRemoveFails, Bench!InLoop, Bench!EndBatch, Bench!Rest,
                Bench!WakeUp, Bench!LeaveLoop, Bench!AfterSize, Bench!Share, Bench!PrintInOrder,
                Bench!Cross, Bench!Goto
  <2> QED BY <2>2, <2>3
<1> QED BY <1>3, <1>4

\* The steps of main.
LEMMA MainKeepsData ==
  ASSUME BenchInv, Bench!MainStep
  PROVE  AnalysisInv' /\ DataInv'
<1> USE DEF Bench!barrierVars, Bench!mainVars, Bench!containerVars, Bench!myVars, Bench!resultVars
<1>1. /\ Bench!Main \notin Bench!Threads /\ 0 \in Bench!Threads
      /\ pc \in [Everybody -> BenchLabels \cup MainLabels]
      /\ Bench!Threads \subseteq Everybody /\ Bench!Main \in Everybody
      /\ Bench!Threads = 0..(NumThreads - 1) /\ NumThreads \in Nat
      /\ BarrierInv /\ PhaseInv /\ AnalysisInv /\ DataTypeOK /\ SizeInv /\ ScanInv /\ MeasuredInv
      /\ \A t \in Bench!Threads : Counted(t)
  BY PartyFacts DEF BenchInv, BarrierPhaseInv, PhaseInv, DataInv, Everybody
<1>2. ASSUME NEW t \in Bench!Threads PROVE pc'[t] = pc[t] \/ (pc[t] = "none" /\ pc'[t] = "start")
  <2>1. CASE Bench!CreateThread
    <3>1. created \in Bench!Threads /\ pc[created] = "none"
      BY <1>1, <2>1 DEF Bench!CreateThread, PhaseInv
    <3>2. pc' = [pc EXCEPT ![created] = "start"]
      BY <2>1 DEF Bench!CreateThread
    <3>3. pc \in [Everybody -> BenchLabels \cup MainLabels] /\ t \in Everybody
      BY <1>1
    <3> QED BY ONLY <3>1, <3>2, <3>3
  <2>2. CASE ~ Bench!CreateThread
    <3>1. \E to : pc' = [pc EXCEPT ![Bench!Main] = to]
      <4>1. CASE Bench!Setup
        BY <4>1 DEF Bench!Setup, Bench!Goto
      <4>2. CASE Bench!StartTest
        BY <4>2 DEF Bench!StartTest, Bench!Cross, Bench!Goto
      <4>3. CASE Bench!UpdateSize \/ Bench!Stop \/ Bench!Join
        BY <4>3 DEF Bench!UpdateSize, Bench!Stop, Bench!Join, Bench!Goto
      <4> QED BY <2>2, <4>1, <4>2, <4>3 DEF Bench!MainStep
    <3>2. t # Bench!Main
      BY <1>1
    <3>3. pc \in [Everybody -> BenchLabels \cup MainLabels] /\ t \in Everybody
      BY <1>1
    <3> QED BY ONLY <3>1, <3>2, <3>3
  <2> QED BY <2>1, <2>2
<1>3. /\ UNCHANGED <<prog, opt, sub, filled, puts, removes, at, sum, sizeBefore, size_after,
                     putting_count_succ, removing_count_succ, analysis>>
      /\ initial' = initial \/ Bench!Setup
      /\ \A t \in Bench!Threads : t \in asleep'["barrier_global"] => t \in asleep["barrier_global"]
      /\ \A t \in Bench!Threads : Bench!Awake(t) => Bench!Awake(t)'
  <2>1. CASE Bench!Setup
    <3>1. asleep' = asleep
      BY <2>1 DEF Bench!Setup
    <3> QED BY <2>1, <3>1 DEF Bench!Setup, Bench!Awake
  <2>4. CASE Bench!CreateThread
    <3>1. asleep' = asleep
      BY <2>4 DEF Bench!CreateThread
    <3> QED BY <2>4, <3>1 DEF Bench!CreateThread, Bench!Awake
  <2>2. CASE Bench!StartTest
    <3>1. asleep \in [Bench!Barriers -> SUBSET Everybody] /\ "barrier_global" \in Bench!Barriers
      BY <1>1 DEF BarrierInv, Bench!Barriers
    <3> QED BY <1>1, <2>2, <3>1 DEF Bench!StartTest, Bench!Cross, Bench!barrier_cross, Bench!Awake
  <2>3. CASE Bench!UpdateSize \/ Bench!Stop \/ Bench!Join
    BY <2>3 DEF Bench!UpdateSize, Bench!Stop, Bench!Join, Bench!Awake
  <2> QED BY <2>1, <2>2, <2>3, <2>4 DEF Bench!MainStep
<1>4. AnalysisInv'
  BY <1>1, <1>2, <1>3 DEF AnalysisInv
<1>5. CASE Bench!Setup
  <2>1. /\ pc[Bench!Main] = "options" /\ pc'[Bench!Main] = "create"
        /\ \A t \in Bench!Threads : pc'[t] = pc[t] /\ pc[t] = "none"
        /\ initial' = Bench!Rounded(opt.initial)
    BY <1>1, <1>5 DEF Bench!Setup, Bench!Goto, PhaseInv
  <2>2. Bench!Rounded(opt.initial) \in Nat
    BY <1>1, RoundedUp, BenchAssumption DEF Bench!HarnessAssumption, DataTypeOK
  <2>3. DataTypeOK'
    BY <1>1, <1>3, <2>1, <2>2 DEF DataTypeOK
  <2>4. SizeInv' /\ ScanInv'
    BY <1>1, <1>2, <1>3, <2>1 DEF SizeInv, Size, ScanInv
  <2>5. MeasuredInv'
    BY <1>1, <1>3, <2>1 DEF MeasuredInv, Phase4
  <2>6. ASSUME NEW t \in Bench!Threads PROVE Counted(t)'
    <3>1. pc'[t] = "none" /\ pc[t] = "none" /\ Counted(t) /\ filled[t] = 0
      BY <1>1, <2>1 DEF Counted, Phase0
    <3>2. Bench!num_elems_thread(t)' \in Nat
      <4>1. initial' \in Nat /\ NumThreads \in Nat \ {0}
        BY <2>1, <2>2, PartyFacts
      <4>2. ASSUME NEW n \in Nat, NEW k \in Nat \ {0}
            PROVE  (IF t < n - (n \div k) * k THEN n \div k + 1 ELSE n \div k) \in Nat
        <5> DEFINE d == n \div k
        <5>1. d \in Nat
          OBVIOUS
        <5> HIDE DEF d
        <5>2. (IF t < n - d * k THEN d + 1 ELSE d) \in Nat
          BY <5>1
        <5> QED BY <5>2 DEF d
      <4> QED BY <4>1, <4>2 DEF Bench!num_elems_thread
    <3>3. /\ pc[t] \in Phase0 /\ pc[t] \in BeforeLoop /\ pc[t] \notin Shared
      BY <3>1 DEF Phase0, BeforeLoop, Shared
    <3>4. /\ puts[t] = 0 /\ removes[t] = 0 /\ putting_count_succ[t] = 0 /\ removing_count_succ[t] = 0
      BY <3>1, <3>3 DEF Counted
    <3>5. /\ pc'[t] = pc[t] /\ filled'[t] = 0 /\ puts'[t] = 0 /\ removes'[t] = 0
          /\ putting_count_succ'[t] = 0 /\ removing_count_succ'[t] = 0
      BY <1>3, <3>1, <3>4
    <3>6. filled'[t] <= Bench!num_elems_thread(t)'
      BY <3>2, <3>5
    <3>7. /\ pc'[t] \in Phase0 /\ pc'[t] \notin Shared
      BY <3>3, <3>5
    <3> QED BY <3>5, <3>6, <3>7 DEF Counted
  <2> QED BY <1>4, <2>3, <2>4, <2>5, <2>6 DEF DataInv
<1>6. CASE ~ Bench!Setup
  <2>1. initial' = initial
    BY <1>3, <1>6
  <2>2. DataTypeOK'
    BY <1>1, <1>3, <2>1 DEF DataTypeOK
  <2>3. Size' = Size
    BY <1>3 DEF Size, Bench!Indices
  <2>4. SizeInv'
    BY <1>1, <1>3, <2>3 DEF SizeInv
  <2>5. ScanInv'
    <3>1. ASSUME at > 0 PROVE pc'[0] \in {"before", "after"} /\ Bench!Awake(0)'
      <4>1. pc[0] \in {"before", "after"} /\ Bench!Awake(0)
        BY <1>1, <3>1 DEF ScanInv
      <4> QED BY <1>1, <1>2, <1>3, <4>1
    <3> QED BY <1>1, <1>3, <3>1 DEF ScanInv
  <2>6. ASSUME NEW t \in Bench!Threads PROVE Counted(t)'
    <3>1. Counted(t) /\ Bench!num_elems_thread(t)' = Bench!num_elems_thread(t)
      BY <1>1, <2>1 DEF Bench!num_elems_thread
    <3>2. CASE pc'[t] = pc[t]
      BY <1>3, <3>1, <3>2 DEF Counted
    <3>3. CASE pc[t] = "none" /\ pc'[t] = "start"
      BY <1>3, <3>1, <3>3 DEF Counted, Phase0, Phase1, BeforeLoop, Shared
    <3> QED BY <1>2, <3>2, <3>3
  <2>7. /\ pc'[Bench!Main] # "options" /\ pc[Bench!Main] # "options"
        /\ pc'[Bench!Main] = "report" => \A t \in Bench!Threads : pc'[t] = "exit"
    <3>1. CASE Bench!CreateThread
      BY <1>1, <3>1 DEF Bench!CreateThread
    <3>2. CASE Bench!StartTest \/ Bench!UpdateSize \/ Bench!Stop \/ Bench!Join
      BY <1>1, <3>2 DEF Bench!StartTest, Bench!Cross, Bench!UpdateSize, Bench!Stop, Bench!Join, Bench!Goto
    <3> QED BY <1>6, <3>1, <3>2 DEF Bench!MainStep
  <2>8. MeasuredInv'
    <3>1. pc'[0] \in Phase4 \cup {"sized"} => pc[0] \in Phase4 \cup {"sized"}
      BY <1>1, <1>2 DEF Phase4
    <3>2. \A t \in Bench!Threads : pc[t] \in Phase3 \cup Phase4 => pc'[t] \in Phase3 \cup Phase4
      BY <1>2 DEF Phase3, Phase4
    <3> QED BY <1>1, <1>3, <2>1, <2>3, <2>7, <3>1, <3>2 DEF MeasuredInv
  <2> QED BY <1>4, <2>2, <2>4, <2>5, <2>6, <2>8 DEF DataInv
<1> QED BY <1>5, <1>6

\* The invariant holds at the start.
LEMMA BenchInitially ==
  ASSUME Bench!Init
  PROVE  BenchInv
<1> USE DEF Bench!Init
<1>1. /\ NumThreads \in Nat \ {0} /\ 0 \in Bench!Threads /\ Bench!Main \notin Bench!Threads
      /\ Everybody = Bench!Threads \cup {Bench!Main}
  BY PartyFacts DEF Everybody
<1>2. BarrierInv
  <2>1. /\ asleep \in [Bench!Barriers -> SUBSET Everybody]
        /\ crossing \in [Bench!Barriers -> Nat]
        /\ arrived \in [Bench!Barriers -> [Everybody -> Nat]]
    BY <1>1
  <2>2. ASSUME NEW b \in Bench!Barriers
        PROVE  /\ asleep[b] \subseteq Bench!Parties(b)
               /\ crossing[b] = Cardinality(asleep[b])
               /\ crossing[b] < Bench!Count(b)
               /\ \A p \in Bench!Parties(b) : arrived[b][p] = IF p \in asleep[b] THEN 0 + 1 ELSE 0
    <3>1. asleep[b] = {} /\ crossing[b] = 0 /\ Bench!Parties(b) \subseteq Everybody
      BY PartyFacts
    <3>2. 0 < Bench!Count(b)
      BY <1>1 DEF Bench!Count
    <3> QED BY <1>1, <3>1, <3>2, FS_EmptySet
  <2>3. 0 \in Nat
    OBVIOUS
  <2> QED BY <2>1, <2>2, <2>3 DEF BarrierInv
<1>3. /\ pc[Bench!Main] = "options" /\ \A t \in Bench!Threads : pc[t] = "none"
      /\ pc \in [Everybody -> BenchLabels \cup MainLabels]
  BY <1>1 DEF BenchLabels, MainLabels, Phase0
<1>4. PhaseInv
  <2>1. ASSUME NEW t \in Bench!Threads
        PROVE  AtPhase(pc[t], arrived["barrier"][t], arrived["barrier_global"][t])
    <3>1. arrived["barrier"][t] = 0 /\ arrived["barrier_global"][t] = 0
      BY <1>1 DEF Bench!Barriers
    <3> QED BY <1>3, <3>1 DEF AtPhase, BenchLabels, BeforeLoop, Phase0, Phase1, Phase2, Phase3
  <2> QED BY <1>3, <2>1 DEF PhaseInv
<1>5. AnalysisInv
  BY <1>1, <1>3 DEF AnalysisInv
<1>6. DataTypeOK
  BY IndexFacts DEF DataTypeOK, Bench!Zero
<1>7. /\ SumFunctionOnSet(filled, Bench!Threads) = 0
      /\ SumFunctionOnSet(puts, Bench!Threads) = 0
      /\ SumFunctionOnSet(removes, Bench!Threads) = 0
  <2>1. \A t \in Bench!Threads : filled[t] = 0 /\ puts[t] = 0 /\ removes[t] = 0
    BY DEF Bench!Zero
  <2> QED BY <2>1, PartyFacts, SumZero
<1>8. SizeInv
  <2>1. Size = 0
    BY IndexFacts, SumZero DEF Size
  <2> QED BY <1>7, <2>1 DEF SizeInv
<1>9. ScanInv
  <2>1. 0..(0 - 1) = {}
    OBVIOUS
  <2>2. SumFunctionOnSet(sub, {}) = 0
    BY SumEquation, FS_EmptySet
  <2> QED BY <2>1, <2>2 DEF ScanInv
<1>10. MeasuredInv
  BY <1>1, <1>3 DEF MeasuredInv, Phase4
<1>11. ASSUME NEW t \in Bench!Threads PROVE Counted(t)
  <2>1. Bench!num_elems_thread(t) \in Nat
    BY <1>1 DEF Bench!num_elems_thread
  <2> QED BY <1>3, <2>1 DEF Counted, Phase0, BeforeLoop, Shared, Bench!Zero
<1> QED BY <1>2, <1>4, <1>5, <1>6, <1>8, <1>9, <1>10, <1>11 DEF BenchInv, BarrierPhaseInv, DataInv

-----------------------------------------------------------------------------
\* The theorems about the benchmarks

\* In a run of a benchmark the barriers, the container and the counts satisfy their invariant.
SuiteBenchInv == sys = "harness" => BenchInv

\* The invariant survives a step that changes nothing of a benchmark.
LEMMA BenchStutters ==
  ASSUME BenchInv, UNCHANGED <<prog, pc, benchVars>>
  PROVE  BenchInv'
<1> USE DEF benchVars
<1>1. BarrierPhaseInv' /\ AnalysisInv'
  BY DEF BenchInv, BarrierPhaseInv, BarrierInv, PhaseInv, AnalysisInv
<1>2. Size' = Size
  BY DEF Size, Bench!Indices
<1>3. DataTypeOK' /\ SizeInv' /\ ScanInv' /\ MeasuredInv'
  BY <1>2 DEF BenchInv, DataInv, DataTypeOK, SizeInv, ScanInv, MeasuredInv, Bench!Awake
<1>4. \A t \in Bench!Threads : Counted(t)'
  BY DEF BenchInv, DataInv, Counted, Bench!num_elems_thread
<1> QED BY <1>1, <1>3, <1>4 DEF BenchInv, DataInv

\* Every step of a benchmark keeps the invariant.
LEMMA BenchInvNext ==
  ASSUME BenchInv, Bench!Next
  PROVE  BenchInv'
<1>1. CASE Bench!MainStep
  BY <1>1, MainControls, MainPhase, MainKeepsData DEF BenchInv
<1>2. CASE \E t \in Bench!Threads : Bench!ThreadStep(t)
  <2>1. PICK t \in Bench!Threads : Bench!ThreadStep(t)
    BY <1>2
  <2>2. BarrierPhaseInv'
    BY <2>1, ThreadControl, ThreadPhase DEF BenchInv
  <2> QED BY <2>1, <2>2, ThreadKeepsData, ThreadKeepsAnalysis DEF BenchInv
<1> QED BY <1>1, <1>2 DEF Bench!Next

\* The invariant of the benchmarks holds in every state of a program.
LEMMA SuiteBenchInvariant == SuiteSpec => []SuiteBenchInv
<1>1. SuiteInit => SuiteBenchInv
  BY BenchInitially DEF SuiteInit, SuiteBenchInv
<1>2. SuiteBenchInv /\ [SuiteNext]_allVars => SuiteBenchInv'
  <2> SUFFICES ASSUME SuiteBenchInv, [SuiteNext]_allVars, sys' = "harness" PROVE BenchInv'
    BY DEF SuiteBenchInv
  <2>1. sys = "harness" /\ BenchInv
    BY DEF SuiteBenchInv, SuiteNext, allVars
  <2>2. CASE Bench!Next
    BY <2>1, <2>2, BenchInvNext
  <2>3. CASE UNCHANGED <<prog, pc, benchVars>>
    BY <2>1, <2>3, BenchStutters
  <2>4. Bench!Next \/ UNCHANGED <<prog, pc, benchVars>>
    BY <2>1 DEF SuiteNext, allVars
  <2> QED BY <2>2, <2>3, <2>4
<1> QED BY <1>1, <1>2, PTL DEF SuiteSpec

\* MCPrograms!BarriersHold, which is Harness!BarrierSafe: barrier_cross keeps the phases of a
\* benchmark apart, for every number of threads.
THEOREM BarriersHoldHolds == SuiteSpec => []BarriersHold
<1>1. SuiteBenchInv => BarriersHold
  BY BarrierInvSafe DEF SuiteBenchInv, BenchInv, BarrierPhaseInv, BarriersHold
<1> QED BY <1>1, SuiteBenchInvariant, PTL

\* MCPrograms!AnalysisFound, which is Harness!AnalysisReady: init_relaxation_analysis_local of
\* every thread runs after the shared part of thread 0.
THEOREM AnalysisFoundHolds == SuiteSpec => []AnalysisFound
<1>1. SuiteBenchInv => AnalysisFound
  <2> SUFFICES ASSUME BenchInv, prog.test.analysis,
                      NEW t \in Bench!Threads, pc[t] = "register", Bench!Awake(t)
               PROVE  analysis
    BY DEF SuiteBenchInv, AnalysisFound, Bench!AnalysisReady
  <2>1. /\ 0 \in Bench!Parties("barrier") /\ t \in Bench!Parties("barrier") /\ "barrier" \in Bench!Barriers
        /\ 0 \in Bench!Threads /\ Bench!Threads \subseteq Everybody
    BY PartyFacts DEF Bench!Barriers, Everybody
  <2>2. arrived["barrier"][t] <= arrived["barrier"][0]
    BY <2>1, BarrierInvSafe DEF BenchInv, BarrierPhaseInv, Bench!BarrierSafe
  <2>3. arrived["barrier"][t] = 1 /\ arrived["barrier"][0] \in Nat
    BY <2>1 DEF BenchInv, BarrierPhaseInv, BarrierInv, PhaseInv, AtPhase, Phase1
  <2>4. arrived["barrier"][0] # 0
    BY <2>2, <2>3
  <2>5. pc[0] \notin {"none", "start"}
    <3>1. pc[0] \notin Phase0
      BY <2>1, <2>4 DEF BenchInv, BarrierPhaseInv, PhaseInv, AtPhase
    <3> QED BY <3>1 DEF Phase0
  <2>6. AnalysisInv
    BY DEF BenchInv
  <2> QED BY <2>5, <2>6 DEF AnalysisInv
<1> QED BY <1>1, SuiteBenchInvariant, PTL

\* MCPrograms!FillExact, which is Harness!FilledExactly: the shares of the threads add up to the
\* rounded -i option, for every number of threads.
THEOREM FillExactHolds == SuiteSpec => []FillExact
<1>1. SuiteBenchInv => FillExact
  <2> SUFFICES ASSUME BenchInv, sizeBefore # -1
               PROVE  \E k \in 0..5 : /\ sizeBefore = 2^k
                                      /\ sizeBefore >= opt.initial
                                      /\ (k > 0 => 2^(k - 1) < opt.initial)
    BY DEF SuiteBenchInv, FillExact, Bench!FilledExactly
  <2>1. sizeBefore = Bench!Rounded(opt.initial)
    BY DEF BenchInv, DataInv, MeasuredInv
  <2>2. opt.initial \in 0..16
    BY BenchAssumption DEF Bench!HarnessAssumption, BenchInv, DataInv, DataTypeOK
  <2>3. \E k \in 0..5 : /\ Bench!Rounded(opt.initial) = 2^k /\ Bench!Rounded(opt.initial) >= opt.initial
                        /\ (k > 0 => 2^(k - 1) < opt.initial)
    BY <2>2, RoundedUp
  <2> QED BY <2>1, <2>3
<1> QED BY <1>1, SuiteBenchInvariant, PTL

\* The sum of Harness and of this module is the same operator of Functions.
LEMMA SameSum ==
  ASSUME NEW f
  PROVE  Bench!SumFunction(f) = SumFunctionOnSet(f, DOMAIN f)
BY DEF Bench!SumFunction, Bench!SumFunctionOnSet, Bench!FoldFunctionOnSet, Bench!MapThenFoldSet,
       SumFunctionOnSet, FoldFunctionOnSet, MapThenFoldSet

\* MCPrograms!SizeRight, which is Harness!SizeValidated: the assertion of main on the size of the
\* container never fails, for every number of threads, of operations and of sub-structures.
THEOREM SizeRightHolds == SuiteSpec => []SizeRight
<1>1. SuiteBenchInv => SizeRight
  <2> SUFFICES ASSUME BenchInv, pc[Bench!Main] = "report"
               PROVE  size_after = initial + Bench!SumFunction(putting_count_succ)
                              - Bench!SumFunction(removing_count_succ)
    BY DEF SuiteBenchInv, SizeRight, Bench!SizeValidated
  <2>1. /\ 0 \in Bench!Threads /\ IsFiniteSet(Bench!Threads) /\ DataTypeOK /\ SizeInv /\ MeasuredInv
        /\ \A t \in Bench!Threads : pc[t] = "exit" /\ Counted(t)
    BY PartyFacts DEF BenchInv, DataInv, MeasuredInv
  <2>2. \A t \in Bench!Threads : /\ filled[t] = Bench!num_elems_thread(t)
                                /\ putting_count_succ[t] = puts[t] /\ removing_count_succ[t] = removes[t]
    BY <2>1 DEF Counted, Shared, Phase0, Phase1
  <2>3. SumFunctionOnSet(filled, Bench!Threads) = initial
    BY <2>1, <2>2, SharesAddUp DEF DataTypeOK
  <2>4. size_after = Size
    BY <2>1 DEF MeasuredInv, Phase4
  <2>5. SumFunctionOnSet(putting_count_succ, Bench!Threads) = SumFunctionOnSet(puts, Bench!Threads)
    <3>1. \A t \in Bench!Threads : puts[t] \in Int /\ putting_count_succ[t] = puts[t]
      BY <2>1, <2>2 DEF DataTypeOK
    <3> QED BY <2>1, <3>1, SumCongruence
  <2>6. SumFunctionOnSet(removing_count_succ, Bench!Threads) = SumFunctionOnSet(removes, Bench!Threads)
    <3>1. \A t \in Bench!Threads : removes[t] \in Int /\ removing_count_succ[t] = removes[t]
      BY <2>1, <2>2 DEF DataTypeOK
    <3> QED BY <2>1, <3>1, SumCongruence
  <2>7. /\ Bench!SumFunction(putting_count_succ) = SumFunctionOnSet(putting_count_succ, Bench!Threads)
        /\ Bench!SumFunction(removing_count_succ) = SumFunctionOnSet(removing_count_succ, Bench!Threads)
    <3>1. DOMAIN putting_count_succ = Bench!Threads /\ DOMAIN removing_count_succ = Bench!Threads
      BY <2>1 DEF DataTypeOK
    <3> QED BY <3>1, SameSum
  <2> QED BY <2>1, <2>3, <2>4, <2>5, <2>6, <2>7 DEF SizeInv
<1> QED BY <1>1, SuiteBenchInvariant, PTL

-----------------------------------------------------------------------------
\* The sizes a command line gives to the container: many-switches-over-time asks for a
\* quarter of them.
SizesAllowed(o) == /\ o.width \in Nat /\ o.width >= 4 /\ o.depth \in Nat /\ o.depth >= 4
                   /\ o.elastic_width \in Nat /\ o.elastic_depth \in Nat

\* The updates of the programs and the width they have DS_NEW allow for.
LEMMA ProgramFacts ==
  ASSUME Unbounded \in Nat, NEW p \in Tests!AllPrograms
  PROVE  /\ p.main.max_width.of \in {"width", "elastic_width"} /\ p.main.max_width.times \in Nat
         /\ \/ p.main.updates = Tests!None
            \/ /\ p.main.updates = Tests!SwitchMiddle /\ p.setup.sized
               /\ p.main.max_width = [of |-> "elastic_width", times |-> 1]
            \/ /\ p.main.updates = Tests!ManySwitches /\ p.setup.sized
               /\ p.main.max_width = [of |-> "width", times |-> 4]
BY DEF Tests!AllPrograms, Tests!Program, Tests!Queue2DdOverTime_setup,
       Tests!Queue2DdOverTime_main, Tests!Stack2DcOverTime_setup, Tests!Stack2DcOverTime_main,
       Tests!QueueLawOverTime_setup, Tests!QueueLawOverTime_main, Tests!QueueLpwOverTime_setup,
       Tests!QueueLpwOverTime_main, Tests!StackLpwRt_setup, Tests!StackLpwRt_main,
       Tests!StackOptRt_setup, Tests!StackOptRt_main, Tests!StackLpwSimple_setup,
       Tests!StackLpwSimple_main, Tests!StackOptSimple_setup, Tests!StackOptSimple_main,
       Tests!QueueLawSimple_setup, Tests!QueueLawSimple_main, Tests!QueueLpwSimple_setup,
       Tests!QueueLpwSimple_main, Tests!QueueLawController_setup, Tests!QueueLawController_main,
       Tests!QueueLpwController_setup, Tests!QueueLpwController_main,
       Tests!StackLpwSwitch_setup, Tests!StackLpwSwitch_main, Tests!StackOptSwitch_setup,
       Tests!StackOptSwitch_main, Tests!QueueLawSwitches_setup, Tests!QueueLawSwitches_main,
       Tests!QueueLpwSwitches_setup, Tests!QueueLpwSwitches_main, Tests!StackLpwSwitches_setup,
       Tests!StackLpwSwitches_main, Tests!StackOptSwitches_setup, Tests!StackOptSwitches_main,
       Tests!QueueLawVariable_setup, Tests!QueueLawVariable_main, Tests!QueueLpwVariable_setup,
       Tests!QueueLpwVariable_main, Tests!KSegmentSimple_setup, Tests!KSegmentSimple_main,
       Tests!EliminationSimple_setup, Tests!EliminationSimple_main, Tests!TreiberSimple_setup,
       Tests!TreiberSimple_main

\* An update asks for a size there is room for.
LEMMA RequestedFits ==
  ASSUME Unbounded \in Nat, NEW p \in Tests!AllPrograms, SizesAllowed(opt),
         NEW n \in Nat, n < Len(p.main.updates), NEW u, u = p.main.updates[n + 1], opt[u.of] # 0
  PROVE  /\ p.setup.sized
         /\ u.what = "width" => Bench!Requested(u) \in 1..Bench!MaxWidth(p.main.max_width)
         /\ u.what = "depth" => Bench!Requested(u) \in Nat \ {0}
<1>1. CASE p.main.updates = Tests!None
  BY <1>1 DEF Tests!None
<1>2. CASE /\ p.main.updates = Tests!SwitchMiddle /\ p.setup.sized
           /\ p.main.max_width = [of |-> "elastic_width", times |-> 1]
  <2>1. \/ u = Tests!Update("depth", "elastic_depth", 1, 1)
        \/ u = Tests!Update("width", "elastic_width", 1, 1)
    BY <1>2 DEF Tests!SwitchMiddle
  <2>2. CASE u = Tests!Update("depth", "elastic_depth", 1, 1)
    BY <1>2, <2>2 DEF Tests!Update, Bench!Requested, SizesAllowed
  <2>3. CASE u = Tests!Update("width", "elastic_width", 1, 1)
    BY SMTT(30), <1>2, <2>3 DEF Tests!Update, Bench!Requested, Bench!MaxWidth, SizesAllowed
  <2> QED BY <2>1, <2>2, <2>3
<1>3. CASE /\ p.main.updates = Tests!ManySwitches /\ p.setup.sized
           /\ p.main.max_width = [of |-> "width", times |-> 4]
  <2>1. /\ u.what = u.of /\ u.what \in {"width", "depth"}
        /\ \/ <<u.times, u.by>> \in {<<1, 1>>, <<2, 1>>, <<1, 2>>, <<1, 4>>}
           \/ u.what = "depth" /\ u.times = 4 /\ u.by = 1
    BY <1>3 DEF Tests!ManySwitches, Tests!Update
  <2>2. opt[u.of] \in Nat /\ opt[u.of] >= 4
    BY <2>1 DEF SizesAllowed
  <2>3. Bench!Requested(u) \in Nat \ {0} /\ (u.what = "width" => Bench!Requested(u) <= 2 * opt.width)
    <3> DEFINE x == opt[u.of]
    <3>1. x \in Nat /\ x >= 4 /\ (u.what = "width" => x = opt.width)
      BY <2>1, <2>2
    <3>2. Bench!Requested(u) = (x * u.times) \div u.by
      BY DEF Bench!Requested
    <3> HIDE DEF x
    <3>3. \/ u.times \in {1, 2} /\ u.by = 1
          \/ u.times = 1 /\ u.by \in {2, 4}
          \/ u.what = "depth" /\ u.times = 4 /\ u.by = 1
      BY <2>1
    <3>4. CASE u.times \in {1, 2} /\ u.by = 1
      BY SMTT(30), <3>1, <3>2, <3>4
    <3>5. CASE u.times = 1 /\ u.by \in {2, 4}
      BY SMTT(30), <3>1, <3>2, <3>5
    <3>6. CASE u.what = "depth" /\ u.times = 4 /\ u.by = 1
      BY <3>1, <3>2, <3>6
    <3> QED BY <3>3, <3>4, <3>5, <3>6
  <2>4. opt.width \in Nat /\ Bench!MaxWidth(p.main.max_width) = opt.width * 4
    BY <1>3 DEF Bench!MaxWidth, SizesAllowed
  <2> QED BY <1>3, <2>1, <2>3, <2>4
<1> QED BY <1>1, <1>2, <1>3, ProgramFacts

WidthInv ==
  /\ prog \in Tests!AllPrograms /\ opt \in Options /\ updated \in Nat
  /\ depth \in Nat \ {0} /\ max_width \in Nat /\ width \in 1..max_width
  /\ pc[Bench!Main] # "options" /\ prog.setup.sized => max_width = Bench!MaxWidth(prog.main.max_width)

\* No step of a thread changes the width.
LEMMA ThreadKeepsWidth ==
  ASSUME NEW t \in Bench!Threads, Bench!ThreadStep(t)
  PROVE  UNCHANGED <<prog, opt, updated, width, depth, max_width>>
<1> USE DEF Bench!mainVars, Bench!containerVars
<1>1. CASE Bench!Start(t) \/ Bench!Register(t) \/ Bench!Fill(t)
  BY <1>1 DEF Bench!Start, Bench!Register, Bench!Fill
<1>2. CASE Bench!Ready(t) \/ Bench!Filled(t) \/ Bench!Go(t) \/ Bench!LeaveLoop(t)
  BY <1>2 DEF Bench!Ready, Bench!Filled, Bench!Go, Bench!LeaveLoop, Bench!Cross
<1>3. CASE Bench!BeforeSize(t)
  BY <1>3 DEF Bench!BeforeSize, Bench!SizeStep, Bench!SizeDone
<1>4. CASE Bench!LoopPut(t) \/ Bench!LoopRemove(t) \/ Bench!LoopRemoveFails(t)
  BY <1>4 DEF Bench!LoopPut, Bench!LoopRemove, Bench!LoopRemoveFails, Bench!InLoop
<1>5. CASE Bench!EndBatch(t) \/ Bench!Rest(t) \/ Bench!WakeUp(t)
  BY <1>5 DEF Bench!EndBatch, Bench!Rest, Bench!WakeUp
<1>6. CASE Bench!AfterSize(t)
  BY <1>6 DEF Bench!AfterSize, Bench!SizeStep, Bench!SizeDone, Bench!Cross
<1>7. CASE Bench!Share(t) \/ Bench!PrintInOrder(t)
  BY <1>7 DEF Bench!Share, Bench!PrintInOrder
<1> QED BY <1>1, <1>2, <1>3, <1>4, <1>5, <1>6, <1>7 DEF Bench!ThreadStep

\* Every step keeps the requested sizes within what is allocated.
LEMMA WidthInvNext ==
  ASSUME Unbounded \in Nat, \A o \in Options : SizesAllowed(o), BenchInv, WidthInv, Bench!Next
  PROVE  WidthInv'
<1>1. /\ pc \in [Everybody -> BenchLabels \cup MainLabels] /\ Bench!Main \in Everybody
      /\ SizesAllowed(opt)
  BY PartyFacts DEF BenchInv, BarrierPhaseInv, PhaseInv, Everybody, WidthInv
<1>2. CASE \E t \in Bench!Threads : Bench!ThreadStep(t)
  <2>1. PICK t \in Bench!Threads : Bench!ThreadStep(t)
    BY <1>2
  <2>2. pc'[Bench!Main] = pc[Bench!Main]
    BY <2>1, StepStays DEF OthersStay, BenchInv
  <2>3. UNCHANGED <<prog, opt, updated, width, depth, max_width>>
    BY <2>1, ThreadKeepsWidth
  <2> QED BY <2>2, <2>3 DEF WidthInv, Bench!MaxWidth
<1>3. CASE Bench!Setup
  <2>1. /\ pc[Bench!Main] = "options" /\ UNCHANGED <<prog, opt, updated>>
        /\ IF prog.setup.sized
           THEN /\ width' = IF opt.width > 0 THEN opt.width ELSE 1
                /\ depth' = IF opt.depth > 0 THEN opt.depth ELSE 1
                /\ max_width' = Bench!MaxWidth(prog.main.max_width)
           ELSE UNCHANGED <<width, depth, max_width>>
    BY <1>3 DEF Bench!Setup, Bench!Goto
  <2>2. Bench!MaxWidth(prog.main.max_width) \in Nat /\ opt.width <= Bench!MaxWidth(prog.main.max_width)
    <3>1. /\ prog.main.max_width.of \in {"width", "elastic_width"} /\ prog.main.max_width.times \in Nat
      BY ProgramFacts DEF WidthInv
    <3>2. opt[prog.main.max_width.of] * prog.main.max_width.times \in Nat /\ opt.width \in Nat
      BY <1>1, <3>1 DEF SizesAllowed
    <3> QED BY <3>2 DEF Bench!MaxWidth
  <2>3. Bench!MaxWidth(prog.main.max_width)' = Bench!MaxWidth(prog.main.max_width)
    BY <2>1 DEF Bench!MaxWidth
  <2>4. CASE prog.setup.sized
    BY <1>1, <2>1, <2>2, <2>3, <2>4 DEF WidthInv, SizesAllowed
  <2>5. CASE ~ prog.setup.sized
    BY <2>1, <2>5 DEF WidthInv
  <2> QED BY <2>4, <2>5
<1>4. CASE Bench!UpdateSize
  <2> DEFINE u == prog.main.updates[updated + 1]
  <2>1. /\ pc[Bench!Main] = "run" /\ UNCHANGED <<prog, opt, max_width>> /\ updated' = updated + 1
        /\ updated < Len(prog.main.updates)
        /\ width' = IF u.what = "width" /\ opt[u.of] # 0 THEN Bench!Requested(u) ELSE width
        /\ depth' = IF u.what = "depth" /\ opt[u.of] # 0 THEN Bench!Requested(u) ELSE depth
    BY <1>4 DEF Bench!UpdateSize, Bench!Goto, Bench!mainVars
  <2>2. Bench!MaxWidth(prog.main.max_width)' = Bench!MaxWidth(prog.main.max_width)
    BY <2>1 DEF Bench!MaxWidth
  <2> HIDE DEF u
  <2>3. ASSUME opt[u.of] # 0
        PROVE  /\ prog.setup.sized
               /\ u.what = "width" => Bench!Requested(u) \in 1..Bench!MaxWidth(prog.main.max_width)
               /\ u.what = "depth" => Bench!Requested(u) \in Nat \ {0}
    BY <1>1, <2>1, <2>3, RequestedFits DEF WidthInv, u
  <2>4. width' \in 1..max_width
    BY <2>1, <2>3 DEF WidthInv
  <2>5. depth' \in Nat \ {0}
    BY <2>1, <2>3 DEF WidthInv
  <2> QED BY <2>1, <2>2, <2>4, <2>5 DEF WidthInv
<1>5. CASE Bench!CreateThread \/ Bench!StartTest \/ Bench!Stop \/ Bench!Join
  <2>1. UNCHANGED <<prog, opt, updated, width, depth, max_width>> /\ pc[Bench!Main] # "options"
    BY <1>5 DEF Bench!CreateThread, Bench!StartTest, Bench!Cross, Bench!Stop, Bench!Join, Bench!Goto,
                Bench!mainVars, Bench!containerVars
  <2> QED BY <2>1 DEF WidthInv, Bench!MaxWidth
<1> QED BY <1>2, <1>3, <1>4, <1>5 DEF Bench!Next, Bench!MainStep

\* MCPrograms!WidthAllocated, which is Harness!UpdatesInRange: the sizes that main asks for stay
\* within what DS_NEW has allocated, if -w and -l are at least 4 (a quarter of less is none).
THEOREM WidthAllocatedHolds ==
  ASSUME Unbounded \in Nat, \A o \in Options : SizesAllowed(o)
  PROVE  SuiteSpec => []WidthAllocated
<1> DEFINE SuiteWidthInv == sys = "harness" => WidthInv
<1>1. SuiteInit => SuiteWidthInv
  <2> SUFFICES ASSUME Bench!Init PROVE WidthInv
    BY DEF SuiteInit
  <2>1. pc[Bench!Main] = "options"
    BY PartyFacts DEF Bench!Init
  <2> QED BY <2>1 DEF Bench!Init, WidthInv
<1>2. SuiteBenchInv /\ SuiteWidthInv /\ [SuiteNext]_allVars => SuiteWidthInv'
  <2> SUFFICES ASSUME SuiteBenchInv, SuiteWidthInv, [SuiteNext]_allVars, sys' = "harness" PROVE WidthInv'
    OBVIOUS
  <2>1. sys = "harness" /\ BenchInv /\ WidthInv
    BY DEF SuiteBenchInv, SuiteNext, allVars
  <2>2. Bench!Next \/ UNCHANGED <<prog, pc, benchVars>>
    BY <2>1 DEF SuiteNext, allVars
  <2>3. CASE UNCHANGED <<prog, pc, benchVars>>
    BY <2>1, <2>3 DEF WidthInv, benchVars, Bench!MaxWidth
  <2> QED BY <2>1, <2>2, <2>3, WidthInvNext
<1>3. SuiteWidthInv => WidthAllocated
  BY DEF WidthInv, WidthAllocated, Bench!UpdatesInRange
<1> QED BY <1>1, <1>2, <1>3, SuiteBenchInvariant, PTL DEF SuiteSpec
=============================================================================
