------------------------------ MODULE TaskGraph ------------------------------
(***************************************************************************)
(* TaskDAG (zilli/dag/engine.py): a graph of tasks that is built, cut,     *)
(* exported and read back, with two indexes beside its edges; and the      *)
(* algorithms over it: validate with Kahn's order, the critical path and   *)
(* the parallel groups.                                                    *)
(***************************************************************************)
EXTENDS Integers, Sequences, FiniteSets, SequencesExt

CONSTANTS
  TaskNames,  \* the names of the nodes
  Latency,    \* estimated_latency_ms of a node
  MaxEdges    \* bound: edges at once

ASSUME GraphAssumption ==
  IsFiniteSet(TaskNames) /\ Latency \in [TaskNames -> Nat] /\ MaxEdges \in Nat

VARIABLE graph  \* nodes in the order they were added, edges, and the two indexes

NoAdjacency == [n \in TaskNames |-> <<>>]
EmptyGraph == [nodes |-> <<>>, edges |-> <<>>, adj |-> NoAdjacency, reverse |-> NoAdjacency]
GraphInit == graph = EmptyGraph

NodesOf(g) == ToSet(g.nodes)

\* The state after the rounds 1..n of a loop.
Looped(start, n, Round(_, _)) ==
  LET after[k \in 0..n] == IF k = 0 THEN start ELSE Round(after[k - 1], k)
  IN after[n]

\* What is left of the sequence s when only the places I are kept.
Picked(s, I) ==
  LET Keep(t, k) == IF k \in I THEN Append(t, s[k]) ELSE t
  IN Looped(<<>>, Len(s), Keep)

-----------------------------------------------------------------------------
(* Building *)

\* add_node raises on a name that is there.
WithNode(g, n) == [g EXCEPT !.nodes = Append(@, n)]
AddNode ==
  \E n \in TaskNames \ NodesOf(graph) : graph' = WithNode(graph, n)

\* add_edge raises on a name that is not there, a DAGEdge on a loop; an edge may be there already.
WithEdge(g, e) ==
  [g EXCEPT !.edges = Append(@, e),
            !.adj[e.source] = Append(@, e.target),
            !.reverse[e.target] = Append(@, e.source)]
AddEdge ==
  /\ Len(graph.edges) < MaxEdges
  /\ \E s, t \in NodesOf(graph) : s # t /\ graph' = WithEdge(graph, [source |-> s, target |-> t])

Without(s, n) == Picked(s, {i \in DOMAIN s : s[i] # n})
Cut_Forward(index, n) == [m \in TaskNames |-> IF m = n THEN <<>> ELSE index[m]]
Cut(index, n) == [m \in TaskNames |-> IF m = n THEN <<>> ELSE Without(index[m], n)]
RemoveNode ==
  \E n \in NodesOf(graph) :
    graph' = [nodes |-> Without(graph.nodes, n),
              edges |-> Picked(graph.edges, {i \in DOMAIN graph.edges : n \notin {graph.edges[i].source, graph.edges[i].target}}),
              adj |-> Cut(graph.adj, n), reverse |-> Cut(graph.reverse, n)]

\* to_dict writes the nodes with what they depend on, and the edges; from_dict adds the nodes, the edges,
\* and then those of the dependencies that are not there.
Exported == [nodes |-> [i \in DOMAIN graph.nodes |-> [id |-> graph.nodes[i], deps |-> graph.reverse[graph.nodes[i]]]],
             edges |-> graph.edges]
WithDependency(g, e) == IF \E i \in DOMAIN g.edges : g.edges[i] = e THEN g ELSE WithEdge(g, e)
WithDependencies(g, n) ==
  LET Depend(h, j) == WithDependency(h, [source |-> n.deps[j], target |-> n.id])
  IN Looped(g, Len(n.deps), Depend)
ReadBack(data) ==
  LET Name(g, k) == WithNode(g, data.nodes[k].id)
      Link(g, k) == WithEdge(g, data.edges[k])
      Complete(g, k) == WithDependencies(g, data.nodes[k])
      named == Looped(EmptyGraph, Len(data.nodes), Name)
      linked == Looped(named, Len(data.edges), Link)
  IN Looped(linked, Len(data.nodes), Complete)
ReadsBack == graph' = ReadBack(Exported)

GraphNext == AddNode \/ AddEdge \/ RemoveNode \/ ReadsBack
GraphSpec == GraphInit /\ [][GraphNext]_graph

-----------------------------------------------------------------------------
(* Algorithms *)

InDegree(g) == [n \in TaskNames |-> Cardinality({i \in DOMAIN g.edges : g.edges[i].target = n})]

\* _topo_sort. "found" is the order so far and behind it the queue: to take a node from the queue and put it
\* into the order only moves the border between them, to k in round k. There are no more rounds than nodes.
Arrive(s, child) ==
  [found |-> IF s.degree[child] = 1 THEN Append(s.found, child) ELSE s.found,
   degree |-> [s.degree EXCEPT ![child] = @ - 1]]
Visited(g, s, n) ==
  LET Child(t, j) == Arrive(t, g.adj[n][j])
  IN Looped(s, Len(g.adj[n]), Child)
TopoOrder(g) ==
  LET roots == Picked(g.nodes, {i \in DOMAIN g.nodes : InDegree(g)[g.nodes[i]] = 0})
      Pop(s, k) == IF k \in DOMAIN s.found THEN Visited(g, s, s.found[k]) ELSE s
  IN Looped([found |-> roots, degree |-> InDegree(g)], Len(g.nodes), Pop).found

Valid(g) == Len(TopoOrder(g)) = Len(g.nodes)

\* _compute_critical_path: distances relaxed in topological order; back from the first node with the greatest.
Relax(d, n, child) ==
  LET there == d[n].dist + Latency[n]
  IN IF there > d[child].dist THEN [d EXCEPT ![child] = [dist |-> there, prev |-> <<n>>]] ELSE d
Left(g, d, n) ==
  LET Child(e, j) == Relax(e, n, g.adj[n][j])
  IN Looped(d, Len(g.adj[n]), Child)
Relaxed(g) ==
  LET order == TopoOrder(g)
      Leave(d, k) == Left(g, d, order[k])
  IN Looped([n \in TaskNames |-> [dist |-> 0, prev |-> <<>>]], Len(order), Leave)
PathTo(g, d, n) ==
  LET Back(w, k) == IF w.current = <<>> THEN w
                    ELSE [path |-> w.current \o w.path, current |-> d[Head(w.current)].prev]
  IN Looped([path |-> <<>>, current |-> <<n>>], Len(g.nodes), Back).path
CriticalPath(g) ==
  LET d == Relaxed(g)
      Latest(i) == \A m \in NodesOf(g) : d[m].dist <= d[g.nodes[i]].dist
      end == CHOOSE i \in DOMAIN g.nodes : Latest(i) /\ \A j \in 1..(i - 1) : ~Latest(j)
  IN IF g.nodes = <<>> THEN <<>> ELSE PathTo(g, d, g.nodes[end])

\* _compute_parallel_groups: what has no predecessor left, again and again.
Passed(g, ready, m) == {p \in UNION {{n} \X DOMAIN g.adj[n] : n \in ready} : g.adj[p[1]][p[2]] = m}
Grouped(g, s) ==
  LET ready == {n \in s.remaining : s.degree[n] = 0}
  IN IF ready = {} THEN s
     ELSE [groups |-> Append(s.groups, ready), remaining |-> s.remaining \ ready,
           degree |-> [m \in TaskNames |-> s.degree[m] - Cardinality(Passed(g, ready, m))]]
ParallelGroups(g) ==
  LET Round(s, k) == Grouped(g, s)
  IN Looped([groups |-> <<>>, remaining |-> NodesOf(g), degree |-> InDegree(g)], Len(g.nodes), Round).groups

-----------------------------------------------------------------------------
(* Properties *)

Edge(g, s, t) == \E i \in DOMAIN g.edges : g.edges[i] = [source |-> s, target |-> t]
Cyclic(g) ==
  \E U \in SUBSET NodesOf(g) : U # {} /\ \A u \in U : \E p \in U : Edge(g, p, u)
Paths(g) ==
  {p \in UNION {[1 .. k -> NodesOf(g)] : k \in 1 .. Cardinality(NodesOf(g))} :
     \A i \in 2 .. Len(p) : Edge(g, p[i - 1], p[i])}
\* The latency before the last node of a path starts.
Before(p) ==
  LET Wait(t, k) == t + Latency[p[k]]
  IN Looped(0, Len(p) - 1, Wait)

\* However the graph was built, cut and read back, its indexes list its edges in order, and reading back
\* changes nothing (engine.py:97).
IndexesAgree ==
  /\ \A n \in TaskNames :
       LET out == Picked(graph.edges, {i \in DOMAIN graph.edges : graph.edges[i].source = n})
           in  == Picked(graph.edges, {i \in DOMAIN graph.edges : graph.edges[i].target = n})
       IN /\ graph.adj[n] = [i \in DOMAIN out |-> out[i].target]
          /\ graph.reverse[n] = [i \in DOMAIN in |-> in[i].source]
  /\ ReadBack(Exported) = graph

\* validate accepts exactly the graphs without a cycle. Then its order puts every node after all it
\* depends on; the groups do so too, as early as they can; and the critical path is a path of the graph
\* after which the last node starts the latest (engine.py:109).
AnalysisSound ==
  /\ Valid(graph) <=> ~Cyclic(graph)
  /\ Valid(graph) =>
       LET order == TopoOrder(graph)
           Step(n) == CHOOSE k \in DOMAIN order : order[k] = n
           groups == ParallelGroups(graph)
           Group(n) == CHOOSE i \in DOMAIN groups : n \in groups[i]
           path == CriticalPath(graph)
       IN /\ \A i \in DOMAIN graph.edges : Step(graph.edges[i].source) < Step(graph.edges[i].target)
          /\ UNION ToSet(groups) = NodesOf(graph)
          /\ \A n \in NodesOf(graph) :
               Group(n) > 1 => \E p \in NodesOf(graph) : Edge(graph, p, n) /\ Group(p) = Group(n) - 1
          /\ \A i \in DOMAIN graph.edges : Group(graph.edges[i].source) < Group(graph.edges[i].target)
          /\ graph.nodes # <<>> =>
               path \in Paths(graph) /\ \A p \in Paths(graph) : Before(p) <= Before(path)

\* The graph is what was built, and what validate says of it is so.
GraphSound == IndexesAgree /\ AnalysisSound
=============================================================================
