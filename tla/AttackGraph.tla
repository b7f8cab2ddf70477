---------------------------- MODULE AttackGraph ----------------------------
(***************************************************************************)
(* The attack graph engine (attack-graph/src/engine.rs).  The graph only   *)
(* grows.  The two searches are loops over a queue, one step of the model  *)
(* per iteration; they hold the read lock throughout, so that the graph    *)
(* stands still while one runs, and searches of other threads, which share *)
(* nothing with it, need not be modelled.                                  *)
(***************************************************************************)
EXTENDS Sifting, SequencesExt

CONSTANTS
  NodeIds,   \* the uuids of nodes
  Devices,   \* those of nodes of kind Device
  EdgeTypes, \* the edges that may be added, see EdgeType; an edge is known
             \* by its index, which stands for its uuid
  Depths,    \* the depth bounds discover_paths is called with
  MaxEdges   \* bound: edges after which none is added

EdgeType == [source : NodeIds, target : NodeIds, weight : Nat, network : BOOLEAN]

ASSUME DeviceAssumption == Devices \subseteq NodeIds
ASSUME EdgeAssumption   == EdgeTypes \subseteq EdgeType
ASSUME BoundAssumption  == Depths \subseteq Nat /\ MaxEdges \in Nat

VARIABLES
  nodes,    \* the nodes added so far
  edges,    \* the edges, in the order they were added
  query,    \* the search that runs, or whose answer is being returned
  queue,    \* its queue: of routes (discover_paths) or nodes (blast_radius)
  paths,    \* discover_paths: the routes to the target found so far
  visited   \* blast_radius: the nodes reached so far

vars == <<nodes, edges, query, queue, paths, visited>>

(* A route out of the source: its nodes, its edges and their total weight. *)
Route == [nodes : Seq(NodeIds), edges : Seq(Nat), risk : Nat]

NoQuery == [op |-> "none"]

Init ==
  /\ nodes = {} /\ edges = <<>>
  /\ query = NoQuery /\ queue = <<>> /\ paths = <<>> /\ visited = {}

At(op) == query.op = op

-----------------------------------------------------------------------------
(***************************************************************************)
(* The graph.  Nothing asks whether the ends of an edge have been added.   *)
(***************************************************************************)
AddNode(n) ==
  /\ At("none") /\ n \notin nodes
  /\ nodes' = nodes \cup {n}
  /\ UNCHANGED <<edges, query, queue, paths, visited>>

AddEdge(e) ==
  /\ At("none") /\ Len(edges) < MaxEdges
  /\ edges' = Append(edges, e)
  /\ UNCHANGED <<nodes, query, queue, paths, visited>>

(* The adjacency of a node, oldest edge first, but for the edges that lead *)
(* to nodes known.                                                         *)
Leaving(n, known) ==
  {k \in 1..Len(edges) : edges[k].source = n /\ edges[k].target \notin known}

-----------------------------------------------------------------------------
(***************************************************************************)
(* discover_paths.                                                         *)
(***************************************************************************)
(* An unknown source or target is an error and changes nothing.            *)
Discover(s, t, d) ==
  /\ At("none") /\ {s, t} \subseteq nodes
  /\ query' = [op |-> "discover", source |-> s, target |-> t, depth |-> d]
  /\ queue' = <<[nodes |-> <<s>>, edges |-> <<>>, risk |-> 0]>>
  /\ UNCHANGED <<nodes, edges, paths, visited>>

Arrived(p)  == Last(p.nodes) = query.target /\ Len(p.nodes) > 1

(* Mutant of TooDeep: the bound is compared with the edges so far.         *)
TooDeepLate(p) == Len(p.edges) > query.depth

TooDeep(p) == Len(p.nodes) > query.depth

Longer(p, k) == [nodes |-> Append(p.nodes, edges[k].target),
                 edges |-> Append(p.edges, k),
                 risk  |-> p.risk + edges[k].weight]

(* The continuations of a route to nodes that are not on it.               *)
Onward(p) ==
  Sift([k \in 1..Len(edges) |-> Longer(p, k)], Leaving(Last(p.nodes), ToSet(p.nodes)))

Arrive ==
  /\ At("discover") /\ queue # <<>> /\ Arrived(Head(queue))
  /\ paths' = Append(paths, Head(queue))
  /\ queue' = Tail(queue)
  /\ UNCHANGED <<nodes, edges, query, visited>>

Follow ==
  /\ At("discover") /\ queue # <<>> /\ ~Arrived(Head(queue))
  /\ queue' = Tail(queue) \o (IF TooDeep(Head(queue)) THEN <<>> ELSE Onward(Head(queue)))
  /\ UNCHANGED <<nodes, edges, query, paths, visited>>

(* The place of the n-th path found when the riskiest come first; sort_by  *)
(* is stable.  Weights are numbers here: the code would panic on one that  *)
(* is not (NaN).                                                           *)
PlaceOf(n) ==
  Cardinality({m \in 1..Len(paths) :
                 paths[m].risk > paths[n].risk \/ (paths[m].risk = paths[n].risk /\ m <= n)})

Sort ==
  /\ At("discover") /\ queue = <<>>
  /\ paths' = [k \in 1..Len(paths) |-> paths[CHOOSE n \in 1..Len(paths) : PlaceOf(n) = k]]
  /\ query' = [query EXCEPT !.op = "sorted"]
  /\ UNCHANGED <<nodes, edges, queue, visited>>

-----------------------------------------------------------------------------
(***************************************************************************)
(* blast_radius; the node need not have been added.                        *)
(***************************************************************************)
Compromise(n) ==
  /\ At("none")
  /\ query' = [op |-> "blast", source |-> n]
  /\ queue' = <<n>> /\ visited' = {n}
  /\ UNCHANGED <<nodes, edges, paths>>

(* Mutants of Fresh: a neighbour is enqueued whether it is new or not; only*)
(* the first of the neighbours is.                                         *)
FreshOrNot(n) == Leaving(n, {})
FreshFirst(n) == {k \in Leaving(n, visited) : \A j \in Leaving(n, visited) : k <= j}

(* Parallel edges lead to one neighbour, which is enqueued once.           *)
Fresh(n) ==
  {k \in Leaving(n, visited) :
     \A j \in Leaving(n, visited) : edges[j].target = edges[k].target => k <= j}

Spread ==
  /\ At("blast") /\ queue # <<>>
  /\ LET next == Sift([k \in 1..Len(edges) |-> edges[k].target], Fresh(Head(queue)))
     IN  /\ queue' = Tail(queue) \o next
         /\ visited' = visited \cup ToSet(next)
  /\ UNCHANGED <<nodes, edges, query, paths>>

(* A search has its answer and gives the lock back.                        *)
Return ==
  /\ At("sorted") \/ (At("blast") /\ queue = <<>>)
  /\ query' = NoQuery /\ paths' = <<>> /\ visited' = {}
  /\ UNCHANGED <<nodes, edges, queue>>

(* lateral_movement_analysis: the network edges between known devices.     *)
LateralMovement ==
  {<<e.source, e.target>> : e \in
     {edges[k] : k \in {j \in 1..Len(edges) : edges[j].network
                          /\ {edges[j].source, edges[j].target} \subseteq nodes \cap Devices}}}

Continue == Arrive \/ Follow \/ Sort \/ Spread \/ Return

Next ==
  \/ \E n \in NodeIds : AddNode(n) \/ Compromise(n)
  \/ \E e \in EdgeTypes : AddEdge(e)
  \/ \E s, t \in NodeIds, d \in Depths : Discover(s, t, d)
  \/ Continue

Spec == Init /\ [][Next]_vars

(* The thread that searches is scheduled; it waits for nothing.            *)
FairSpec == Spec /\ WF_vars(Continue)

-----------------------------------------------------------------------------
(***************************************************************************)
(* Properties.                                                             *)
(***************************************************************************)
Query ==
  {NoQuery}
    \cup [op : {"discover", "sorted"}, source : NodeIds, target : NodeIds, depth : Depths]
    \cup [op : {"blast"}, source : NodeIds]

TypeOK ==
  /\ nodes \subseteq NodeIds
  /\ edges \in Seq(EdgeTypes)
  /\ query \in Query
  /\ queue \in IF At("blast") THEN Seq(NodeIds) ELSE Seq(Route)
  /\ paths \in Seq(Route)
  /\ visited \subseteq NodeIds

(* What discover_paths promises, without a queue: the sequences of edges   *)
(* that lead from source to target through no node twice, no more of them  *)
(* than the bound allows.                                                  *)
Chained(es) == \A n \in 1..(Len(es) - 1) : edges[es[n]].target = edges[es[n + 1]].source
EntersOnce(s, es) ==
  LET entered == {edges[es[n]].target : n \in 1..Len(es)}
  IN  s \notin entered /\ Cardinality(entered) = Len(es)
SimplePaths ==
  {es \in UNION {[1..n -> 1..Len(edges)] : n \in 1..query.depth} :
     /\ edges[es[1]].source = query.source
     /\ edges[es[Len(es)]].target = query.target
     /\ Chained(es) /\ EntersOnce(query.source, es)}

RiskOf(es) ==
  LET sum[n \in 0..Len(es)] == IF n = 0 THEN 0 ELSE sum[n - 1] + edges[es[n]].weight
  IN  sum[Len(es)]

(* At every moment of the search every promised path has either been found *)
(* or continues exactly one route in the queue, so that none is lost, none *)
(* is found twice, and what is found is promised, with cycles, parallel    *)
(* edges and unknown nodes about; in the end the riskiest come first       *)
(* (discover_paths).                                                       *)
PathsExact == TypeOK /\
  (At("discover") \/ At("sorted") =>
    /\ \A n \in 1..Len(paths) :
         paths[n].edges \in SimplePaths /\ paths[n].risk = RiskOf(paths[n].edges)
    /\ \A es \in SimplePaths :
         Cardinality({n \in 1..Len(paths) : paths[n].edges = es})
           + Cardinality({n \in 1..Len(queue) : IsPrefix(queue[n].edges, es)}) = 1
    /\ At("sorted") => \A n \in 1..(Len(paths) - 1) : paths[n].risk >= paths[n + 1].risk)

(* The least set of nodes that has the compromised one and that no edge    *)
(* leaves.                                                                 *)
Closed(S) == \A k \in 1..Len(edges) : edges[k].source \in S => edges[k].target \in S
Reachable(n) == {m \in NodeIds : \A S \in SUBSET NodeIds : n \in S /\ Closed(S) => m \in S}

(* The blast radius is exactly what can be reached: never more during the  *)
(* search, never less at its end, no node being expanded twice; and the    *)
(* answers of the two analyses agree: lateral movement that starts within  *)
(* the radius ends within it (blast_radius, lateral_movement_analysis).    *)
BlastRadiusExact ==
  At("blast") =>
    /\ visited \subseteq Reachable(query.source)
    /\ ToSet(queue) \subseteq visited
    /\ Cardinality(ToSet(queue)) = Len(queue)
    /\ queue = <<>> =>
         /\ visited = Reachable(query.source)
         /\ \A m \in LateralMovement : m[1] \in visited => m[2] \in visited

(* Every search returns, whatever cycles the graph has, and with it the    *)
(* read lock for which add_node and add_edge wait.                         *)
QueriesReturn == []<>At("none")
=============================================================================
