--------------------------------- MODULE Bfs ---------------------------------
(***************************************************************************)
(* test-bfs.c: a breadth-first search by several threads that share a       *)
(* relaxed queue of vertices.  A vertex may be visited before its distance  *)
(* is right; whoever lowers a distance adds the vertex again.  The threads  *)
(* stop when the queue seems empty and nobody is active.                    *)
(*                                                                         *)
(* The queue is a set of sub-queues.  DS_ADD adds to any of them.  DS_REMOVE *)
(* looks at one after another, takes the first item it meets, and answers   *)
(* 0 once it has found each of them empty, not all at the same time.        *)
(***************************************************************************)
EXTENDS Integers, Sequences, FiniteSets, Functions, Graph

CONSTANTS NumThreads,
          Programs,       \* feature records of the programs
          Inputs,         \* graph file and -d option: [n, edges, directed]
          Root,
          MaxFailures,    \* MAX_FAILURES, or as many more as it takes to pass 100 ms
          Infinity        \* UINT64_MAX

\* what the defines, parse_mtx_file's assertion on n_verticies and the files guarantee
ASSUME BfsAssumption ==
  /\ NumThreads \in Nat \ {0}
  /\ MaxFailures \in Nat \ {0}
  /\ Infinity \in Nat
  /\ \A p \in Programs : p.main.subs \in Nat \ {0}
  /\ \A in \in Inputs : /\ in.n \in Nat \ {0}
                         /\ in.n < Infinity
                         /\ in.edges \in Seq((1..in.n) \X (1..in.n))
                         /\ in.directed \in BOOLEAN
                         /\ Root \in 1..in.n

VARIABLES prog, input,
          g, distances,   \* the graph, and g->distances
          queue,          \* the sub-queues of the container
          active_threads,
          pc,
          seen,           \* DS_REMOVE: the sub-queues found empty
          current, current_distance, i, distance,   \* locals of run_bfs
          is_active, failures,
          visited, total  \* what main reports

graphVars == <<prog, input, g>>
localVars == <<seen, current, current_distance, i, distance, is_active, failures>>
vars == <<graphVars, distances, queue, active_threads, pc, localVars, visited, total>>

Threads == 0..(NumThreads - 1)
Main == NumThreads
SubQueues == 1..prog.main.subs
AllVertices == 1..input.n

ForThreads(x) == [t \in Threads |-> x]

\* parse_mtx_file: from the text, or from the binary file of an earlier run
Parsed(in) == parse_mtx_file(in.n, in.edges, in.directed)
Loaded(in) == {Parsed(in), mmap_graph(serialize_graph(Parsed(in)))}

\* main has read the graph and creates the threads.
Init ==
  /\ prog \in Programs
  /\ input \in Inputs
  /\ g \in Loaded(input)
  /\ distances = [v \in AllVertices |-> Infinity]
  /\ queue = [s \in SubQueues |-> <<>>]
  /\ active_threads = NumThreads
  /\ pc = [p \in 0..NumThreads |-> IF p = Main THEN "join" ELSE "start"]
  /\ seen = ForThreads({})
  /\ current = ForThreads(0) /\ current_distance = ForThreads(0)
  /\ i = ForThreads(1) /\ distance = ForThreads(0)
  /\ is_active = ForThreads(TRUE) /\ failures = ForThreads(0)
  /\ visited = 0 /\ total = 0

Goto(p, from, to) == pc[p] = from /\ pc' = [pc EXCEPT ![p] = to]
Set(var, t, val) == [var EXCEPT ![t] = val]

-----------------------------------------------------------------------------
\* main, and the start of test

\* Mutation: the last vertex is left out.
Reached_short == {v \in 1..(input.n - 1) : distances[v] # Infinity}

Reached == {v \in AllVertices : distances[v] # Infinity}

\* after barrier_global and pthread_join
Report ==
  /\ \A t \in Threads : pc[t] = "done"
  /\ Goto(Main, "join", "report")
  /\ visited' = Cardinality(Reached)
  /\ total' = SumFunctionOnSet(distances, Reached)
  /\ UNCHANGED <<graphVars, distances, queue, active_threads, localVars>>

\* test: thread 0 adds the root, and every thread sets its distance
Start(t) ==
  /\ Goto(t, "start", "barrier")
  /\ queue' = IF t = 0 THEN [queue EXCEPT ![1] = <<Root>>] ELSE queue
  /\ distances' = [distances EXCEPT ![Root] = 0]
  /\ UNCHANGED <<graphVars, active_threads, localVars, visited, total>>

Barrier ==
  /\ \A t \in Threads : pc[t] = "barrier"
  /\ pc' = [p \in 0..NumThreads |-> IF p = Main THEN pc[Main] ELSE "while"]
  /\ UNCHANGED <<graphVars, distances, queue, active_threads, localVars, visited, total>>

-----------------------------------------------------------------------------
\* run_bfs

\* The condition of the outer loop.  The 100 ms that must also have passed since the
\* thread became idle only let it fail more often.  The wait-free queue with ssmem leaves
\* out the last part.
KeepsRunning(t) == \/ failures[t] < MaxFailures
                   \/ prog.run.counts /\ active_threads # 0

While(t) ==
  /\ Goto(t, "while", IF KeepsRunning(t) THEN "remove" ELSE "done")
  /\ seen' = Set(seen, t, {})
  /\ UNCHANGED <<graphVars, distances, queue, active_threads, current, current_distance, i,
                 distance, is_active, failures, visited, total>>

\* DS_REMOVE finds an item in sub-queue s, or finds it empty
Take(t) ==
  /\ \E s \in SubQueues \ seen[t] :
       /\ queue[s] # <<>>
       /\ current' = Set(current, t, Head(queue[s]))
       /\ queue' = [queue EXCEPT ![s] = Tail(@)]
  /\ Goto(t, "remove", IF is_active[t] THEN "read" ELSE "mark")
  /\ seen' = Set(seen, t, {})
  /\ UNCHANGED <<graphVars, distances, active_threads, current_distance, i, distance,
                 is_active, failures, visited, total>>

Miss(t) ==
  /\ Goto(t, "remove", "remove")
  /\ \E s \in SubQueues \ seen[t] :
       /\ queue[s] = <<>>
       /\ seen' = Set(seen, t, seen[t] \cup {s})
  /\ UNCHANGED <<graphVars, distances, queue, active_threads, current, current_distance, i,
                 distance, is_active, failures, visited, total>>

\* FAI_U64(&active_threads)
MarkActive(t) ==
  /\ Goto(t, "mark", "read")
  /\ active_threads' = active_threads + 1
  /\ is_active' = Set(is_active, t, TRUE)
  /\ failures' = Set(failures, t, 0)
  /\ UNCHANGED <<graphVars, distances, queue, seen, current, current_distance, i, distance,
                 visited, total>>

ReadDistance(t) ==
  /\ Goto(t, "read", "edge")
  /\ current_distance' = Set(current_distance, t, distances[current[t]])
  /\ i' = Set(i, t, 1)
  /\ UNCHANGED <<graphVars, distances, queue, active_threads, seen, current, distance,
                 is_active, failures, visited, total>>

Neighbors(t) == get_neighbors(g, current[t])
Lower(t) == current_distance[t] + 1

\* the next neighbour, or the next item
Edge(t) ==
  \/ /\ Goto(t, "edge", "cae")
     /\ i[t] <= Len(Neighbors(t))
     /\ distance' = Set(distance, t, distances[Neighbors(t)[i[t]]])
     /\ UNCHANGED <<graphVars, distances, queue, active_threads, seen, current,
                    current_distance, i, is_active, failures, visited, total>>
  \/ /\ Goto(t, "edge", "remove")
     /\ i[t] > Len(Neighbors(t))
     /\ UNCHANGED <<graphVars, distances, queue, active_threads, localVars, visited, total>>

NotLower(t) ==
  /\ Lower(t) >= distance[t]
  /\ Goto(t, "cae", "edge")
  /\ i' = Set(i, t, i[t] + 1)
  /\ UNCHANGED <<graphVars, distances, queue, active_threads, seen, current,
                 current_distance, distance, is_active, failures, visited, total>>

\* Mutation: a failed compare-and-exchange is not tried again.
LowerDistance_once(t) ==
  /\ pc[t] = "cae"
  /\ Lower(t) < distance[t]
  /\ LET v == Neighbors(t)[i[t]] IN
       IF distances[v] = distance[t]
       THEN /\ distances' = [distances EXCEPT ![v] = Lower(t)]
            /\ Goto(t, "cae", "add")
            /\ UNCHANGED i
       ELSE /\ Goto(t, "cae", "edge")
            /\ i' = Set(i, t, i[t] + 1)
            /\ UNCHANGED distances
  /\ UNCHANGED <<graphVars, queue, active_threads, seen, current, current_distance, distance,
                 is_active, failures, visited, total>>

\* CAE, which loads the distance into the local when it fails
LowerDistance(t) ==
  /\ pc[t] = "cae"
  /\ Lower(t) < distance[t]
  /\ LET v == Neighbors(t)[i[t]] IN
       IF distances[v] = distance[t]
       THEN /\ distances' = [distances EXCEPT ![v] = Lower(t)]
            /\ Goto(t, "cae", "add")
            /\ UNCHANGED distance
       ELSE /\ distance' = Set(distance, t, distances[v])
            /\ Goto(t, "cae", "cae")
            /\ UNCHANGED distances
  /\ UNCHANGED <<graphVars, queue, active_threads, seen, current, current_distance, i,
                 is_active, failures, visited, total>>

\* DS_ADD of the neighbour, and break
Add(t) ==
  /\ Goto(t, "add", "edge")
  /\ \E s \in SubQueues : queue' = [queue EXCEPT ![s] = Append(@, Neighbors(t)[i[t]])]
  /\ i' = Set(i, t, i[t] + 1)
  /\ UNCHANGED <<graphVars, distances, active_threads, seen, current, current_distance,
                 distance, is_active, failures, visited, total>>

\* DS_REMOVE answers 0: FAD_U64(&active_threads) the first time, and one more failure
Idle(t) ==
  /\ seen[t] = SubQueues
  /\ Goto(t, "remove", "while")
  /\ active_threads' = IF is_active[t] THEN active_threads - 1 ELSE active_threads
  /\ is_active' = Set(is_active, t, FALSE)
  /\ failures' = Set(failures, t, IF failures[t] < MaxFailures THEN failures[t] + 1
                                                               ELSE failures[t])
  /\ seen' = Set(seen, t, {})
  /\ UNCHANGED <<graphVars, distances, queue, current, current_distance, i, distance,
                 visited, total>>

-----------------------------------------------------------------------------
ThreadStep(t) ==
  \/ Start(t) \/ While(t) \/ Take(t) \/ Miss(t) \/ MarkActive(t) \/ ReadDistance(t)
  \/ Edge(t) \/ NotLower(t) \/ LowerDistance(t) \/ Add(t) \/ Idle(t)

Next == \/ Report \/ Barrier
        \/ \E t \in Threads : ThreadStep(t)

Spec == Init /\ [][Next]_vars

\* The scheduler runs every thread.
FairSpec == /\ Spec
            /\ WF_vars(Report \/ Barrier)
            /\ \A t \in Threads : WF_vars(ThreadStep(t))

-----------------------------------------------------------------------------
\* Properties

\* the arcs of the file
Arc(in, v, w) == \E k \in DOMAIN in.edges :
                   \/ in.edges[k] = <<v, w>>
                   \/ ~ in.directed /\ in.edges[k] = <<w, v>>

\* The vertices within k arcs of the root, from the list of edges.
Ball(in) ==
  LET ball[k \in 0..in.n] ==
        IF k = 0 THEN {Root}
        ELSE LET inner == ball[k - 1]
             IN  inner \cup {w \in 1..in.n : \E v \in inner : Arc(in, v, w)}
  IN  ball

\* the fewest arcs from the root to v
IsFewest(in, v, k) == v \in Ball(in)[k] /\ (k > 0 => v \notin Ball(in)[k - 1])

TrueDistance(v) == IF v \in Ball(input)[input.n]
                   THEN CHOOSE k \in 0..input.n : IsFewest(input, v, k)
                   ELSE Infinity

\* Whatever order the relaxed queue hands out the vertices in, and although threads
\* leave run_bfs on stale evidence of an empty queue and of nobody being active, main
\* reports the distances, the number of vertices and the sum of a sequential search of
\* the graph in the file.
DistancesExact ==
  pc[Main] = "report" => /\ \A v \in AllVertices : distances[v] = TrueDistance(v)
                         /\ visited = Cardinality(Ball(input)[input.n])
                         /\ total = SumFunctionOnSet([v \in AllVertices |-> TrueDistance(v)],
                                                     Ball(input)[input.n])

CanLower(v, w) == distances[v] # Infinity /\ distances[w] > distances[v] + 1
Queued(v) == \E s \in SubQueues : \E k \in DOMAIN queue[s] : queue[s][k] = v
Held(v)   == \E t \in Threads :
               \/ current[t] = v /\ pc[t] \in {"mark", "read", "edge", "cae", "add"}
               \/ pc[t] = "add" /\ Neighbors(t)[i[t]] = v

\* No work is forgotten: a vertex that could still lower the distance of a neighbour is
\* in the queue or in the hands of a thread of run_bfs.
WorkPending ==
  pc[Main] = "join" /\ (\A t \in Threads : pc[t] \notin {"start", "barrier"}) =>
    \A k \in DOMAIN input.edges :
      LET v == input.edges[k][1]
          w == input.edges[k][2]
      IN  /\ CanLower(v, w) => Queued(v) \/ Held(v)
          /\ ~ input.directed /\ CanLower(w, v) => Queued(w) \/ Held(w)

\* The search ends: every thread leaves run_bfs and main reports.
Terminates == <>(pc[Main] = "report")
=============================================================================
