-------------------------------- MODULE Graph --------------------------------
(***************************************************************************)
(* graph.h: a graph in compressed form, read from a list of edges or from   *)
(* the binary file that an earlier run has left next to it.                 *)
(*                                                                         *)
(* g.verticies[v] is where the neighbours of v start in g.neighbors, and    *)
(* they end where those of v + 1 start.  parse_mtx_file gets there by       *)
(* counting, summing, and filling each part from its end.                   *)
(***************************************************************************)
EXTENDS Integers, Sequences, FiniteSets

\* What both passes make of the lines: an edge as it stands, and if the graph is
\* undirected the other way round right after it.
Arcs(edges, directed) ==
  IF directed THEN edges
  ELSE [k \in 1..(2 * Len(edges)) |->
          LET e == edges[(k + 1) \div 2]
          IN  IF k % 2 = 1 THEN <<e[1], e[2]>> ELSE <<e[2], e[1]>>]

\* The first k arcs that start in v.
ArcsFrom(arcs, v, k) == {j \in 1..k : arcs[j][1] = v}

\* the first pass
Degrees(n, arcs) == [v \in 0..n |-> Cardinality(ArcsFrom(arcs, v, Len(arcs)))]

\* verticies[i] becomes the end of the part of vertex i; verticies[0] stays 0.
Ends(n, degrees) ==
  LET end[v \in 0..n] == IF v = 0 THEN degrees[0] ELSE degrees[v] + end[v - 1]
  IN  end

\* verticies[v]--; neighbors[verticies[v]] = w
Place(csr, v, w) == LET at == csr.verticies[v] - 1
                    IN  [verticies |-> [csr.verticies EXCEPT ![v] = at],
                         neighbors |-> [csr.neighbors EXCEPT ![at] = w]]

\* the second pass
Filled(csr, arcs) ==
  LET after[k \in 0..Len(arcs)] == IF k = 0 THEN csr
                                   ELSE Place(after[k - 1], arcs[k][1], arcs[k][2])
  IN  after[Len(arcs)]

parse_mtx_file(n, edges, directed) ==
  LET arcs == Arcs(edges, directed)
      csr  == Filled([verticies |-> Ends(n, Degrees(n, arcs)),
                      neighbors |-> [k \in 0..(Len(arcs) - 1) |-> 0]], arcs)
  IN  [n_verticies |-> n, n_edges |-> Len(arcs), verticies |-> csr.verticies,
       neighbors |-> csr.neighbors]

get_neighbors(g, v) ==
  LET from == g.verticies[v]
      size == IF v = g.n_verticies THEN g.n_edges - from ELSE g.verticies[v + 1] - from
  IN  [i \in 1..size |-> g.neighbors[from + i - 1]]

-----------------------------------------------------------------------------
\* The binary file: a sequence of words.

serialize_graph(g) == <<g.n_verticies, g.n_edges>>
                      \o [i \in 1..(g.n_verticies + 1) |-> g.verticies[i - 1]]
                      \o [i \in 1..g.n_edges |-> g.neighbors[i - 1]]

mmap_graph(file) ==
  LET n == file[1]
  IN  [n_verticies |-> n, n_edges |-> file[2],
       verticies |-> [v \in 0..n |-> file[3 + v]],
       neighbors |-> [k \in 0..(file[2] - 1) |-> file[4 + n + k]]]
=============================================================================
