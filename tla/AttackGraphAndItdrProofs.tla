--------------------- MODULE AttackGraphAndItdrProofs ---------------------
(***************************************************************************)
(* Theorems about the attack graph, for any nodes, edges and depths, and,  *)
(* at the end, about the identity threat engine, for any threads, users,   *)
(* events, places and thresholds.                                          *)
(***************************************************************************)
EXTENDS AttackGraph, IdentityThreats, SiftingLemmas, SequenceTheorems

(* What is left of a search when another begins.                           *)
Quiet ==
  /\ At("none") => queue = <<>> /\ paths = <<>>
  /\ At("sorted") => queue = <<>>
  /\ At("blast") => paths = <<>>

(* A search for the blast radius: every edge that leaves what was reached  *)
(* leads to what was reached, or starts from a node in the queue.          *)
InQueue(n) == \E j \in 1..Len(queue) : queue[j] = n
Frontier ==
  At("blast") =>
    /\ query.source \in visited /\ visited \subseteq Reachable(query.source)
    /\ \A j \in 1..Len(queue) : queue[j] \in visited
    /\ \A i, j \in 1..Len(queue) : queue[i] = queue[j] => i = j
    /\ \A k \in 1..Len(edges) : edges[k].source \in visited =>
         InQueue(edges[k].source) \/ edges[k].target \in visited

(* A route follows edges from the source, through no node twice, and is no *)
(* longer than the bound.                                                  *)
Follows(p) ==
  /\ Len(p.nodes) = Len(p.edges) + 1 /\ p.nodes[1] = query.source
  /\ \A n \in 1..Len(p.edges) :
       /\ p.edges[n] \in 1..Len(edges)
       /\ edges[p.edges[n]].source = p.nodes[n]
       /\ edges[p.edges[n]].target = p.nodes[n + 1]
  /\ \A m, n \in 1..Len(p.nodes) : p.nodes[m] = p.nodes[n] => m = n
  /\ Len(p.edges) <= query.depth
  /\ p.risk = RiskOf(p.edges)

Routes ==
  At("discover") \/ At("sorted") =>
    /\ \A n \in 1..Len(queue) : Follows(queue[n])
    /\ \A n \in 1..Len(paths) : Follows(paths[n]) /\ Arrived(paths[n])

(* Every promised path has been found, or one route in the queue is the    *)
(* beginning of it.                                                        *)
Found(es) == {p \in Route : p.edges = es}
Begun(es) == {p \in Route : IsPrefix(p.edges, es)}
NoneLost ==
  At("discover") \/ At("sorted") =>
    \A es \in SimplePaths :
      Cardinality(Places(paths, Found(es))) + Cardinality(Places(queue, Begun(es))) = 1

Ranked == At("sorted") => \A n \in 1..(Len(paths) - 1) : paths[n].risk >= paths[n + 1].risk

-----------------------------------------------------------------------------
(***************************************************************************)
(* Types.                                                                  *)
(***************************************************************************)
LEMMA QueryFacts ==
  ASSUME query \in Query
  PROVE  /\ query.op \in {"none", "discover", "sorted", "blast"}
         /\ At("discover") \/ At("sorted") =>
              query.source \in NodeIds /\ query.target \in NodeIds /\ query.depth \in Nat
         /\ At("blast") => query.source \in NodeIds
  <1>1. CASE query \in {NoQuery}
    BY <1>1 DEF NoQuery, At
  <1>2. CASE query \in [op : {"discover", "sorted"}, source : NodeIds, target : NodeIds, depth : Depths]
    BY <1>2, BoundAssumption DEF At
  <1>3. CASE query \in [op : {"blast"}, source : NodeIds]
    BY <1>3 DEF At
  <1> QED BY <1>1, <1>2, <1>3 DEF Query

LEMMA EdgeFacts ==
  ASSUME edges \in Seq(EdgeTypes)
  PROVE  /\ Len(edges) \in Nat
         /\ \A k \in 1..Len(edges) : /\ edges[k].source \in NodeIds
                                     /\ edges[k].target \in NodeIds
                                     /\ edges[k].weight \in Nat
  BY EdgeAssumption DEF EdgeType

LEMMA OnwardFacts ==
  ASSUME edges \in Seq(EdgeTypes), NEW p \in Route
  PROVE  LET all == [k \in 1..Len(edges) |-> Longer(p, k)]
             I   == Leaving(Last(p.nodes), ToSet(p.nodes))
         IN  /\ all \in Seq(Route) /\ Len(all) = Len(edges)
             /\ Onward(p) = Sift(all, I) /\ Onward(p) \in Seq(Route)
             /\ \A j \in 1..Len(Onward(p)) : \E k \in I : Onward(p)[j] = Longer(p, k)
  <1> DEFINE all == [k \in 1..Len(edges) |-> Longer(p, k)]
             I   == Leaving(Last(p.nodes), ToSet(p.nodes))
  <1>1. \A k \in 1..Len(edges) : Longer(p, k) \in Route
    <2> TAKE k \in 1..Len(edges)
    <2>1. /\ p.nodes \in Seq(NodeIds) /\ p.edges \in Seq(Nat) /\ p.risk \in Nat
          /\ k \in Nat /\ edges[k].target \in NodeIds /\ edges[k].weight \in Nat
      BY EdgeFacts DEF Route
    <2>2. Append(p.nodes, edges[k].target) \in Seq(NodeIds) /\ Append(p.edges, k) \in Seq(Nat)
      BY <2>1
    <2> QED BY <2>1, <2>2 DEF Longer, Route
  <1>2. all \in Seq(Route) /\ Len(all) = Len(edges)
    BY <1>1, EdgeFacts
  <1>3. Onward(p) = Sift(all, I)
    BY DEF Onward
  <1>4. \A k \in I \cap 1..Len(all) : all[k] = Longer(p, k)
    BY <1>2
  <1> HIDE DEF I, all
  <1>5. /\ Sift(all, I) \in Seq(Route)
        /\ \A j \in 1..Len(Sift(all, I)) : \E k \in I \cap 1..Len(all) : Sift(all, I)[j] = all[k]
    BY <1>2, SiftProperties
  <1>6. \A j \in 1..Len(Onward(p)) : \E k \in I : Onward(p)[j] = Longer(p, k)
    BY <1>3, <1>4, <1>5
  <1>7. Onward(p) \in Seq(Route)
    BY <1>3, <1>5
  <1> USE DEF I, all
  <1> QED BY <1>2, <1>3, <1>6, <1>7, Zenon

Targets == [k \in 1..Len(edges) |-> edges[k].target]

LEMMA SpreadFacts ==
  ASSUME edges \in Seq(EdgeTypes), NEW I
  PROVE  /\ Targets \in Seq(NodeIds) /\ Len(Targets) = Len(edges)
         /\ Sift(Targets, I) \in Seq(NodeIds) /\ ToSet(Sift(Targets, I)) \subseteq NodeIds
  <1>1. Targets \in Seq(NodeIds) /\ Len(Targets) = Len(edges)
    BY EdgeFacts DEF Targets
  <1>2. Sift(Targets, I) \in Seq(NodeIds)
    BY <1>1, SiftProperties
  <1>3. ToSet(Sift(Targets, I)) \subseteq NodeIds
    BY <1>2 DEF ToSet
  <1> QED BY <1>1, <1>2, <1>3

-----------------------------------------------------------------------------
(***************************************************************************)
(* Sorting: the places are those of a permutation.                         *)
(***************************************************************************)
LEMMA RouteFacts ==
  ASSUME NEW s \in Seq(Route)
  PROVE  /\ Len(s) \in Nat
         /\ \A n \in 1..Len(s) : /\ s[n] \in Route /\ s[n].risk \in Nat
                                 /\ s[n].nodes \in Seq(NodeIds) /\ s[n].edges \in Seq(Nat)
  <1>1. \A p \in Route : p.risk \in Nat /\ p.nodes \in Seq(NodeIds) /\ p.edges \in Seq(Nat)
    BY DEF Route
  <1>2. Len(s) \in Nat /\ \A n \in 1..Len(s) : s[n] \in Route
    OBVIOUS
  <1> QED BY <1>1, <1>2

Before(m, n) ==
  paths[m].risk > paths[n].risk \/ (paths[m].risk = paths[n].risk /\ m <= n)

LEMMA PlacesOrdered ==
  ASSUME paths \in Seq(Route)
  PROVE  /\ \A n \in 1..Len(paths) : PlaceOf(n) \in 1..Len(paths)
         /\ \A m, n \in 1..Len(paths) : m # n => PlaceOf(m) # PlaceOf(n)
         /\ \A m, n \in 1..Len(paths) : PlaceOf(m) < PlaceOf(n) => Before(m, n)
  <1> DEFINE L == 1..Len(paths)
             Above(n) == {m \in L : Before(m, n)}
  <1>1. /\ Len(paths) \in Nat /\ L \subseteq Nat
        /\ \A n \in L : paths[n].risk \in Nat
    BY RouteFacts
  <1>2. IsFiniteSet(L) /\ Cardinality(L) = Len(paths)
    BY <1>1, UpTo
  <1>3. ASSUME NEW n \in L
        PROVE  /\ IsFiniteSet(Above(n)) /\ PlaceOf(n) = Cardinality(Above(n))
               /\ PlaceOf(n) \in L
    <2>1. IsFiniteSet(Above(n)) /\ Cardinality(Above(n)) <= Cardinality(L)
      BY <1>2, FS_Subset
    <2>2. n \in Above(n)
      BY <1>1 DEF Before
    <2>3. Cardinality(Above(n)) \in Nat /\ Cardinality(Above(n)) # 0
      BY <2>1, <2>2, FS_CardinalityType, FS_EmptySet
    <2>4. PlaceOf(n) = Cardinality(Above(n))
      BY DEF PlaceOf, Before
    <2> QED BY <1>1, <1>2, <2>1, <2>3, <2>4
  <1>4. ASSUME NEW m \in L, NEW n \in L, m # n, Before(m, n)
        PROVE  PlaceOf(m) < PlaceOf(n)
    <2>1. Above(m) \subseteq Above(n) /\ n \in Above(n) /\ n \notin Above(m)
      BY <1>1, <1>4 DEF Before
    <2>2. /\ Cardinality(Above(m)) <= Cardinality(Above(n))
          /\ Cardinality(Above(m)) # Cardinality(Above(n))
      BY <1>3, <2>1, FS_Subset
    <2> HIDE DEF Above
    <2> QED BY <1>1, <1>3, <2>2
  <1>5. \A m, n \in L : Before(m, n) \/ Before(n, m)
    BY <1>1 DEF Before
  <1> HIDE DEF L
  <1>6. ASSUME NEW m \in L, NEW n \in L
        PROVE  /\ m # n => PlaceOf(m) # PlaceOf(n)
               /\ PlaceOf(m) < PlaceOf(n) => Before(m, n)
    <2>1. PlaceOf(m) \in Nat /\ PlaceOf(n) \in Nat
      BY <1>1, <1>3
    <2> QED BY <1>4, <1>5, <2>1
  <1> QED BY <1>3, <1>6 DEF L

IndexAt(k) == CHOOSE n \in 1..Len(paths) : PlaceOf(n) = k
Ordered == [k \in 1..Len(paths) |-> paths[IndexAt(k)]]

LEMMA SortedFacts ==
  ASSUME paths \in Seq(Route)
  PROVE  /\ \A k \in 1..Len(paths) : IndexAt(k) \in 1..Len(paths) /\ PlaceOf(IndexAt(k)) = k
         /\ \A n \in 1..Len(paths) : PlaceOf(n) \in 1..Len(paths) /\ IndexAt(PlaceOf(n)) = n
         /\ Ordered \in Seq(Route) /\ Len(Ordered) = Len(paths)
         /\ \A n \in 1..(Len(paths) - 1) : Ordered[n].risk >= Ordered[n + 1].risk
         /\ \A V : Cardinality(Places(Ordered, V)) = Cardinality(Places(paths, V))
  <1> DEFINE L == 1..Len(paths)
             f == [n \in L |-> PlaceOf(n)]
  <1>1. Len(paths) \in Nat /\ \A n \in L : paths[n] \in Route /\ paths[n].risk \in Nat
    BY RouteFacts
  <1>2. IsFiniteSet(L)
    BY <1>1, UpTo
  <1>3. f \in Injection(L, L)
    BY PlacesOrdered DEF Injection, IsInjective
  <1>4. f \in Surjection(L, L)
    <2> HIDE DEF f, L
    <2> QED BY <1>2, <1>3, FS_Injection
  <1>5. \A k \in L : \E n \in L : PlaceOf(n) = k
    BY <1>4 DEF Surjection
  <1>6. \A k \in L : IndexAt(k) \in L /\ PlaceOf(IndexAt(k)) = k
    BY <1>5 DEF IndexAt
  <1>7. \A n \in L : PlaceOf(n) \in L /\ IndexAt(PlaceOf(n)) = n
    BY <1>6, PlacesOrdered
  <1>8. Ordered \in Seq(Route) /\ Len(Ordered) = Len(paths)
    BY <1>1, <1>6 DEF Ordered
  <1>9. ASSUME NEW n \in 1..(Len(paths) - 1)
        PROVE  Ordered[n].risk >= Ordered[n + 1].risk
    <2>1. n \in L /\ n + 1 \in L /\ n < n + 1
      BY <1>1
    <2>2. Before(IndexAt(n), IndexAt(n + 1))
      BY <1>6, <2>1, PlacesOrdered
    <2>3. paths[IndexAt(n)].risk \in Nat /\ paths[IndexAt(n + 1)].risk \in Nat
      BY <1>1, <1>6, <2>1
    <2>4. Ordered[n] = paths[IndexAt(n)] /\ Ordered[n + 1] = paths[IndexAt(n + 1)]
      BY <2>1 DEF Ordered
    <2> QED BY <2>2, <2>3, <2>4 DEF Before
  <1>10. ASSUME NEW V
         PROVE  Cardinality(Places(Ordered, V)) = Cardinality(Places(paths, V))
    <2> DEFINE P == Places(paths, V)
               Q == Places(Ordered, V)
               g == [n \in P |-> PlaceOf(n)]
    <2>1. \A n \in P : n \in L /\ PlaceOf(n) \in Q
      BY <1>7, <1>8 DEF Places, Ordered
    <2>2. \A k \in Q : k \in L /\ IndexAt(k) \in P
      BY <1>6, <1>8 DEF Places, Ordered
    <2>3. g \in Bijection(P, Q)
      <3> HIDE DEF P, Q, L
      <3>1. g \in [P -> Q] /\ \A m, n \in P : g[m] = g[n] => m = n
        BY <1>7, <2>1
      <3>2. \A k \in Q : \E n \in P : g[n] = k
        BY <1>6, <2>2
      <3> QED BY <3>1, <3>2 DEF Bijection, Injection, Surjection, IsInjective
    <2>4. IsFiniteSet(P)
      BY PlacesFinite
    <2> HIDE DEF g
    <2>5. ExistsBijection(P, Q)
      BY <2>3 DEF ExistsBijection
    <2> QED BY <2>4, <2>5, FS_Bijection
  <1> QED BY <1>6, <1>7, <1>8, <1>9, <1>10

-----------------------------------------------------------------------------
(***************************************************************************)
(* The type invariant, and what is left of a search.                       *)
(***************************************************************************)
LEMMA InitType == Init => TypeOK /\ Quiet
  <1> SUFFICES ASSUME Init PROVE TypeOK /\ Quiet
    OBVIOUS
  <1>1. query = NoQuery /\ query.op = "none" /\ query \in Query
    BY DEF Init, NoQuery, Query
  <1> QED BY <1>1 DEF Init, TypeOK, Quiet, At

LEMMA TypeNext == TypeOK /\ Quiet /\ [Next]_vars => TypeOK' /\ Quiet'
  <1> SUFFICES ASSUME TypeOK, Quiet, [Next]_vars
               PROVE  TypeOK' /\ Quiet'
    OBVIOUS
  <1>1. ASSUME NEW n \in NodeIds, AddNode(n)
        PROVE  TypeOK' /\ Quiet'
    BY <1>1 DEF AddNode, TypeOK, Quiet, At
  <1>2. ASSUME NEW e \in EdgeTypes, AddEdge(e)
        PROVE  TypeOK' /\ Quiet'
    <2>1. edges' \in Seq(EdgeTypes)
      BY <1>2 DEF AddEdge, TypeOK
    <2> QED BY <1>2, <2>1 DEF AddEdge, TypeOK, Quiet, At
  <1>3. ASSUME NEW s \in NodeIds, NEW t \in NodeIds, NEW d \in Depths, Discover(s, t, d)
        PROVE  TypeOK' /\ Quiet'
    <2> DEFINE p == [nodes |-> <<s>>, edges |-> <<>>, risk |-> 0]
               q == [op |-> "discover", source |-> s, target |-> t, depth |-> d]
    <2>1. p \in Route
      BY DEF Route
    <2>2. q \in Query /\ q.op = "discover"
      BY DEF Query
    <2>3. query' = q /\ queue' = <<p>>
      BY <1>3 DEF Discover
    <2> HIDE DEF p, q
    <2>4. queue' \in Seq(Route)
      BY <2>1, <2>3
    <2> QED BY <1>3, <2>2, <2>3, <2>4 DEF Discover, TypeOK, Quiet, At
  <1>4. ASSUME NEW n \in NodeIds, Compromise(n)
        PROVE  TypeOK' /\ Quiet'
    <2>1. query' \in Query /\ query'.op = "blast"
      BY <1>4 DEF Compromise, Query
    <2>2. queue' \in Seq(NodeIds)
      BY <1>4 DEF Compromise
    <2> QED BY <1>4, <2>1, <2>2 DEF Compromise, TypeOK, Quiet, At
  <1>5. ASSUME Arrive
        PROVE  TypeOK' /\ Quiet'
    <2>1. queue \in Seq(Route) /\ queue # <<>> /\ At("discover")
      BY <1>5 DEF Arrive, TypeOK, At
    <2>2. queue' \in Seq(Route) /\ paths' \in Seq(Route)
      BY <1>5, <2>1, HeadTail DEF Arrive, TypeOK
    <2> QED BY <1>5, <2>1, <2>2 DEF Arrive, TypeOK, Quiet, At
  <1>6. ASSUME Follow
        PROVE  TypeOK' /\ Quiet'
    <2>1. queue \in Seq(Route) /\ queue # <<>> /\ At("discover")
      BY <1>6 DEF Follow, TypeOK, At
    <2>2. Head(queue) \in Route /\ Tail(queue) \in Seq(Route)
      BY <2>1, HeadTail
    <2>3. Onward(Head(queue)) \in Seq(Route)
      BY <2>2, OnwardFacts DEF TypeOK
    <2>4. queue' \in Seq(Route)
      BY <1>6, <2>2, <2>3 DEF Follow
    <2> QED BY <1>6, <2>1, <2>4 DEF Follow, TypeOK, Quiet, At
  <1>7. ASSUME Sort
        PROVE  TypeOK' /\ Quiet'
    <2>1. paths' = Ordered /\ queue' = <<>>
      BY <1>7 DEF Sort, Ordered, IndexAt
    <2>2. paths' \in Seq(Route)
      BY <2>1, SortedFacts DEF TypeOK
    <2>3. query' \in Query /\ query'.op = "sorted"
      BY <1>7 DEF Sort, TypeOK, At, Query, NoQuery
    <2> QED BY <1>7, <2>1, <2>2, <2>3 DEF Sort, TypeOK, Quiet, At
  <1>8. ASSUME Spread
        PROVE  TypeOK' /\ Quiet'
    <2> DEFINE next == Sift(Targets, Fresh(Head(queue)))
    <2>1. queue \in Seq(NodeIds) /\ queue # <<>> /\ At("blast")
      BY <1>8 DEF Spread, TypeOK, At
    <2>2. queue' = Tail(queue) \o next /\ visited' = visited \cup ToSet(next)
      BY <1>8 DEF Spread, Targets
    <2>3. next \in Seq(NodeIds) /\ ToSet(next) \subseteq NodeIds
      BY SpreadFacts DEF TypeOK
    <2>4. queue' \in Seq(NodeIds)
      BY <2>1, <2>2, <2>3, HeadTail
    <2> HIDE DEF next
    <2> QED BY <1>8, <2>1, <2>2, <2>3, <2>4 DEF Spread, TypeOK, Quiet, At
  <1>9. ASSUME Return
        PROVE  TypeOK' /\ Quiet'
    <2>1. queue' = <<>>
      BY <1>9 DEF Return, Quiet
    <2>2. query' \in Query /\ query'.op = "none"
      BY <1>9 DEF Return, Query, NoQuery
    <2> QED BY <1>9, <2>1, <2>2 DEF Return, TypeOK, Quiet, At
  <1>10. CASE UNCHANGED vars
    BY <1>10 DEF vars, TypeOK, Quiet, At
  <1> QED
    BY <1>1, <1>2, <1>3, <1>4, <1>5, <1>6, <1>7, <1>8, <1>9, <1>10 DEF Next, Continue

LEMMA TypeInvariant == Spec => [](TypeOK /\ Quiet)
  BY InitType, TypeNext, PTL DEF Spec

(* The graph and both searches are well typed, whatever is searched.       *)
THEOREM TypeCorrect == Spec => []TypeOK
  BY TypeInvariant, PTL

-----------------------------------------------------------------------------
(***************************************************************************)
(* The blast radius.                                                       *)
(***************************************************************************)
(* What can be reached is closed, and it is the least that is.             *)
LEMMA ReachableFacts ==
  ASSUME edges \in Seq(EdgeTypes), NEW n \in NodeIds
  PROVE  /\ n \in Reachable(n) /\ Reachable(n) \subseteq NodeIds /\ Closed(Reachable(n))
         /\ \A S \in SUBSET NodeIds : n \in S /\ Closed(S) => Reachable(n) \subseteq S
  <1>1. n \in Reachable(n) /\ Reachable(n) \subseteq NodeIds
    BY DEF Reachable
  <1>2. Closed(Reachable(n))
    <2> SUFFICES ASSUME NEW k \in 1..Len(edges), edges[k].source \in Reachable(n),
                        NEW S \in SUBSET NodeIds, n \in S, Closed(S)
                 PROVE  edges[k].target \in S
      BY EdgeFacts DEF Closed, Reachable
    <2> QED BY DEF Closed, Reachable
  <1>3. \A S \in SUBSET NodeIds : n \in S /\ Closed(S) => Reachable(n) \subseteq S
    BY DEF Reachable
  <1> QED BY <1>1, <1>2, <1>3

(* The neighbours enqueued: each new one, once.                            *)
LEMMA FreshFacts ==
  ASSUME edges \in Seq(EdgeTypes), NEW h
  PROVE  LET next == Sift(Targets, Fresh(h))
         IN  /\ next \in Seq(NodeIds)
             /\ \A j \in 1..Len(next) : \E k \in Leaving(h, visited) : next[j] = edges[k].target
             /\ \A k \in Leaving(h, visited) : \E j \in 1..Len(next) : next[j] = edges[k].target
             /\ \A i, j \in 1..Len(next) : next[i] = next[j] => i = j
  <1> DEFINE next == Sift(Targets, Fresh(h))
             I == Fresh(h)
  <1>1. /\ Targets \in Seq(NodeIds) /\ Len(Targets) = Len(edges) /\ Len(edges) \in Nat
        /\ \A k \in 1..Len(edges) : Targets[k] = edges[k].target
    BY SpreadFacts, EdgeFacts DEF Targets
  <1>2. /\ next \in Seq(NodeIds)
        /\ \A j \in 1..Len(next) : \E k \in I \cap 1..Len(Targets) : next[j] = Targets[k]
        /\ \A k \in I \cap 1..Len(Targets) : \E j \in 1..Len(next) : next[j] = Targets[k]
    BY <1>1, SiftProperties
  <1>3. I \subseteq Leaving(h, visited) /\ Leaving(h, visited) \subseteq 1..Len(edges)
    BY DEF Fresh, Leaving
  <1>4. \A j \in 1..Len(next) : \E k \in Leaving(h, visited) : next[j] = edges[k].target
    BY <1>1, <1>2, <1>3
  <1>5. ASSUME NEW k \in Leaving(h, visited)
        PROVE  \E j \in 1..Len(next) : next[j] = edges[k].target
    <2> DEFINE T == {j \in Leaving(h, visited) : edges[j].target = edges[k].target}
    <2>1. T \in SUBSET Nat /\ T # {}
      BY <1>1, <1>3
    <2> HIDE DEF T
    <2>2. PICK m \in T : \A j \in T : m <= j
      BY <2>1, Least
    <2> USE DEF T
    <2>3. m \in I /\ m \in 1..Len(Targets) /\ edges[m].target = edges[k].target
      BY <1>1, <1>3, <2>2 DEF Fresh
    <2> QED BY <1>1, <1>2, <2>3
  <1>6. ASSUME NEW i \in I, NEW j \in I, edges[i].target = edges[j].target
        PROVE  i = j
    <2>1. i <= j /\ j <= i
      BY <1>3, <1>6 DEF Fresh
    <2> QED BY <1>1, <1>3, <2>1
  <1>7. \A i, j \in I \cap 1..Len(Targets) : Targets[i] = Targets[j] => i = j
    BY <1>1, <1>6
  <1>8. \A i, j \in 1..Len(next) : next[i] = next[j] => i = j
    <2> HIDE DEF I
    <2> SUFFICES \A i, j \in 1..Len(Sift(Targets, I)) :
                    Sift(Targets, I)[i] = Sift(Targets, I)[j] => i = j
      BY DEF I
    <2> QED BY <1>1, <1>7, SiftInjective
  <1> QED BY <1>2, <1>4, <1>5, <1>8

LEMMA FrontierSpread == TypeOK /\ Frontier /\ Spread => Frontier'
  <1> SUFFICES ASSUME TypeOK, Frontier, Spread PROVE Frontier'
    OBVIOUS
  <1> DEFINE h == Head(queue)
             rest == Tail(queue)
             next == Sift(Targets, Fresh(h))
             n == Len(rest)
  <1>1. /\ At("blast") /\ queue # <<>> /\ queue \in Seq(NodeIds) /\ edges \in Seq(EdgeTypes)
        /\ queue' = rest \o next /\ visited' = visited \cup ToSet(next)
        /\ query' = query /\ edges' = edges /\ query.source \in NodeIds
    BY QueryFacts DEF Spread, TypeOK, Targets, At
  <1>2. /\ query.source \in visited /\ visited \subseteq Reachable(query.source)
        /\ \A j \in 1..Len(queue) : queue[j] \in visited
        /\ \A i, j \in 1..Len(queue) : queue[i] = queue[j] => i = j
        /\ \A k \in 1..Len(edges) : edges[k].source \in visited =>
             InQueue(edges[k].source) \/ edges[k].target \in visited
    BY <1>1 DEF Frontier
  <1>3. /\ next \in Seq(NodeIds)
        /\ \A j \in 1..Len(next) : \E k \in Leaving(h, visited) : next[j] = edges[k].target
        /\ \A k \in Leaving(h, visited) : \E j \in 1..Len(next) : next[j] = edges[k].target
        /\ \A i, j \in 1..Len(next) : next[i] = next[j] => i = j
    BY <1>1, FreshFacts
  <1>4. /\ rest \in Seq(NodeIds) /\ n = Len(queue) - 1 /\ n \in Nat
        /\ h = queue[1] /\ 1 \in 1..Len(queue)
        /\ \A i \in 1..n : i + 1 \in 1..Len(queue) /\ rest[i] = queue[i + 1]
        /\ \A i \in 1..Len(queue) : i # 1 => i - 1 \in 1..n /\ rest[i - 1] = queue[i]
    BY <1>1, HeadTail
  <1> HIDE DEF next, h, rest
  <1>5. /\ queue' \in Seq(NodeIds) /\ Len(queue') = n + Len(next) /\ Len(next) \in Nat
        /\ \A i \in 1..n : i \in 1..Len(queue') /\ queue'[i] = rest[i]
        /\ \A i \in 1..Len(next) : n + i \in 1..Len(queue') /\ queue'[n + i] = next[i]
        /\ \A i \in 1..Len(queue') : i \in 1..n \/ i - n \in 1..Len(next)
    <2>1. rest \in Seq(NodeIds) /\ next \in Seq(NodeIds)
      BY <1>3, <1>4
    <2>2. /\ Len(rest) \in Nat /\ Len(next) \in Nat
          /\ queue' = rest \o next
      BY <1>1, <2>1
    <2> QED BY <2>1, <2>2, ConcatElements
  <1> HIDE DEF n
  <1>6. ToSet(next) = {next[j] : j \in 1..Len(next)}
    BY <1>3 DEF ToSet
  <1>7. \A j \in 1..Len(next) : next[j] \in visited' /\ next[j] \notin visited
    BY <1>1, <1>3, <1>6 DEF Leaving
  <1>8. \A i \in 1..n : rest[i] \in visited
    BY <1>2, <1>4
  <1>9. query'.source \in visited' /\ visited' \subseteq Reachable(query.source)
    <2>1. \A j \in 1..Len(next) : next[j] \in Reachable(query.source)
      <3> TAKE j \in 1..Len(next)
      <3>1. PICK k \in Leaving(h, visited) : next[j] = edges[k].target
        BY <1>3
      <3>2. edges[k].source \in Reachable(query.source)
        BY <1>2, <1>4 DEF Leaving
      <3> QED BY <1>1, <3>1, <3>2, ReachableFacts DEF Closed, Leaving
    <2> QED BY <1>1, <1>2, <1>6, <2>1
  <1>10. \A j \in 1..Len(queue') : queue'[j] \in visited'
    <2> TAKE j \in 1..Len(queue')
    <2>1. CASE j \in 1..n
      BY <1>1, <1>5, <1>8, <2>1
    <2>2. CASE j - n \in 1..Len(next)
      <3>1. queue'[n + (j - n)] = next[j - n] /\ n + (j - n) = j
        BY <1>4, <1>5, <2>2
      <3> QED BY <1>7, <2>2, <3>1
    <2> QED BY <1>5, <2>1, <2>2
  <1>11. ASSUME NEW i \in 1..Len(queue'), NEW j \in 1..Len(queue'), queue'[i] = queue'[j]
         PROVE  i = j
    <2>1. i \in Int /\ j \in Int /\ n \in Int
      BY <1>4
    <2>2. \A m \in 1..Len(queue') : m \in 1..n => queue'[m] = rest[m]
      BY <1>5
    <2>3. \A m \in 1..Len(queue') : m - n \in 1..Len(next) => queue'[m] = next[m - n]
      <3> TAKE m \in 1..Len(queue')
      <3> HAVE m - n \in 1..Len(next)
      <3>1. n + (m - n) = m
        BY <1>4
      <3> QED BY <1>5, <3>1
    <2>4. CASE i \in 1..n /\ j \in 1..n
      <3>1. queue[i + 1] = queue[j + 1] /\ i + 1 \in 1..Len(queue) /\ j + 1 \in 1..Len(queue)
        BY <1>4, <1>11, <2>2, <2>4
      <3>2. i + 1 = j + 1
        BY <1>2, <3>1
      <3> QED BY <2>1, <3>2
    <2>5. CASE i - n \in 1..Len(next) /\ j - n \in 1..Len(next)
      <3>1. i - n = j - n
        BY <1>3, <1>11, <2>3, <2>5
      <3> QED BY <2>1, <3>1
    <2>6. CASE i \in 1..n /\ j - n \in 1..Len(next)
      BY <1>7, <1>8, <1>11, <2>2, <2>3, <2>6
    <2>7. CASE j \in 1..n /\ i - n \in 1..Len(next)
      BY <1>7, <1>8, <1>11, <2>2, <2>3, <2>7
    <2> QED BY <1>5, <2>4, <2>5, <2>6, <2>7
  <1>12. ASSUME NEW k \in 1..Len(edges), edges[k].source \in visited'
         PROVE  \/ \E j \in 1..Len(queue') : queue'[j] = edges[k].source
                \/ edges[k].target \in visited'
    <2>1. CASE edges[k].source \notin visited
      <3>1. PICK j \in 1..Len(next) : next[j] = edges[k].source
        BY <1>1, <1>6, <1>12, <2>1
      <3> QED BY <1>5, <3>1
    <2>2. CASE edges[k].source = h
      <3>1. CASE edges[k].target \in visited
        BY <1>1, <3>1
      <3>2. CASE edges[k].target \notin visited
        <4>1. k \in Leaving(h, visited)
          BY <2>2, <3>2 DEF Leaving
        <4> QED BY <1>3, <1>7, <4>1
      <3> QED BY <3>1, <3>2
    <2>3. CASE edges[k].source \in visited /\ edges[k].source # h
      <3>1. CASE edges[k].target \in visited
        BY <1>1, <3>1
      <3>2. CASE InQueue(edges[k].source)
        <4>1. PICK j \in 1..Len(queue) : queue[j] = edges[k].source
          BY <3>2 DEF InQueue
        <4>2. j - 1 \in 1..n /\ rest[j - 1] = edges[k].source
          BY <1>4, <2>3, <4>1
        <4> QED BY <1>5, <4>2
      <3> QED BY <1>2, <2>3, <3>1, <3>2
    <2> QED BY <2>1, <2>2, <2>3
  <1>13. Reachable(query.source)' = Reachable(query.source)
    BY <1>1 DEF Reachable, Closed
  <1> QED
    BY <1>1, <1>9, <1>10, <1>11, <1>12, <1>13 DEF Frontier, InQueue, At

LEMMA FrontierNext == TypeOK /\ Quiet /\ Frontier /\ [Next]_vars => Frontier'
  <1> SUFFICES ASSUME TypeOK, Quiet, Frontier, [Next]_vars, At("blast")'
               PROVE  Frontier'
    BY DEF Frontier, At
  <1>1. CASE \E n \in NodeIds : Compromise(n)
    <2>1. PICK n \in NodeIds : Compromise(n)
      BY <1>1
    <2>2. query'.source = n /\ queue' = <<n>> /\ visited' = {n} /\ edges' = edges
      BY <2>1 DEF Compromise
    <2>3. n \in Reachable(n)
      BY ReachableFacts DEF TypeOK
    <2>4. Reachable(query.source)' = Reachable(n)
      BY <2>2 DEF Reachable, Closed
    <2>5. /\ query'.source \in visited' /\ visited' \subseteq Reachable(query.source)'
          /\ \A j \in 1..Len(queue') : queue'[j] \in visited'
          /\ \A i, j \in 1..Len(queue') : queue'[i] = queue'[j] => i = j
      BY <2>2, <2>3, <2>4
    <2>6. \A k \in 1..Len(edges') : edges'[k].source \in visited' =>
            \E j \in 1..Len(queue') : queue'[j] = edges'[k].source
      BY <2>2
    <2> QED BY <2>5, <2>6 DEF Frontier, InQueue
  <1>2. CASE Spread
    BY <1>2, FrontierSpread
  <1>3. CASE UNCHANGED vars
    BY <1>3 DEF vars, Frontier, InQueue, At, Reachable, Closed
  <1>4. CASE Return
    BY <1>4 DEF Return, At, NoQuery
  <1>5. CASE Sort
    <2>1. query'.op = "sorted"
      BY <1>5 DEF Sort, TypeOK, At, Query, NoQuery
    <2> QED BY <2>1 DEF At
  <1>6. CASE (\E n \in NodeIds : AddNode(n)) \/ (\E e \in EdgeTypes : AddEdge(e)) \/ Arrive \/ Follow
    BY <1>6 DEF AddNode, AddEdge, Arrive, Follow, At
  <1>7. CASE \E s, t \in NodeIds, d \in Depths : Discover(s, t, d)
    BY <1>7 DEF Discover, At
  <1> QED
    BY <1>1, <1>2, <1>3, <1>4, <1>5, <1>6, <1>7 DEF Next, Continue

LEMMA FrontierMeans == TypeOK /\ Frontier => BlastRadiusExact
  <1> SUFFICES ASSUME TypeOK, Frontier, At("blast")
               PROVE  /\ visited \subseteq Reachable(query.source)
                      /\ ToSet(queue) \subseteq visited
                      /\ Cardinality(ToSet(queue)) = Len(queue)
                      /\ queue = <<>> =>
                           /\ visited = Reachable(query.source)
                           /\ \A m \in LateralMovement : m[1] \in visited => m[2] \in visited
    BY DEF BlastRadiusExact
  <1>1. /\ queue \in Seq(NodeIds) /\ edges \in Seq(EdgeTypes) /\ Len(queue) \in Nat
        /\ query.source \in NodeIds /\ visited \subseteq NodeIds
    BY QueryFacts DEF TypeOK
  <1>2. ToSet(queue) = {queue[j] : j \in 1..Len(queue)}
    BY <1>1 DEF ToSet
  <1>3. ToSet(queue) \subseteq visited
    BY <1>2 DEF Frontier
  <1>4. Cardinality(ToSet(queue)) = Len(queue)
    <2> DEFINE f == [j \in 1..Len(queue) |-> queue[j]]
    <2>1. \A i, j \in 1..Len(queue) : queue[i] = queue[j] => i = j
      BY DEF Frontier
    <2>2. f \in Bijection(1..Len(queue), ToSet(queue))
      BY <1>2, <2>1 DEF Bijection, Injection, Surjection, IsInjective
    <2>3. ExistsBijection(1..Len(queue), ToSet(queue))
      BY <2>2 DEF ExistsBijection
    <2> QED BY <1>1, <2>3, UpTo, FS_Bijection
  <1>5. ASSUME queue = <<>>
        PROVE  /\ visited = Reachable(query.source)
               /\ \A m \in LateralMovement : m[1] \in visited => m[2] \in visited
    <2>1. Len(queue) = 0
      BY <1>5
    <2>2. Closed(visited)
      BY <2>1 DEF Frontier, InQueue, Closed
    <2>3. visited = Reachable(query.source)
      BY <1>1, <2>2, ReachableFacts DEF Frontier
    <2>4. ASSUME NEW m \in LateralMovement, m[1] \in visited
          PROVE  m[2] \in visited
      <3>1. PICK k \in 1..Len(edges) : m = <<edges[k].source, edges[k].target>>
        BY DEF LateralMovement
      <3> QED BY <2>2, <2>4, <3>1 DEF Closed
    <2> QED BY <2>3, <2>4
  <1> QED BY <1>3, <1>4, <1>5 DEF Frontier

(* For any graph, cycles, loops and parallel edges included, the search    *)
(* reaches nothing but what can be reached, expands no node twice, and has *)
(* reached all of it when its queue is empty (blast_radius).               *)
THEOREM BlastRadiusExactHolds == Spec => []BlastRadiusExact
  <1>1. Init => Frontier
    BY DEF Init, Frontier, At, NoQuery
  <1>2. TypeOK /\ Quiet /\ Frontier /\ [Next]_vars => Frontier'
    BY FrontierNext
  <1>3. TypeOK /\ Frontier => BlastRadiusExact
    BY FrontierMeans
  <1> QED BY <1>1, <1>2, <1>3, TypeInvariant, PTL DEF Spec

-----------------------------------------------------------------------------
(***************************************************************************)
(* The weight of a path.  That the recursion has a solution is shown by the*)
(* least number up to which it has none.                                   *)
(***************************************************************************)
Weight(es, n) == edges[es[n]].weight
SumUpTo(f, es, m) ==
  /\ f \in [0..m -> Nat] /\ f[0] = 0
  /\ \A n \in 1..m : f[n] = f[n - 1] + Weight(es, n)
IsSum(f, es) == f = [n \in 0..Len(es) |-> IF n = 0 THEN 0 ELSE f[n - 1] + edges[es[n]].weight]

LEMMA SumExists ==
  ASSUME edges \in Seq(EdgeTypes), NEW es \in Seq(1..Len(edges))
  PROVE  \E f : SumUpTo(f, es, Len(es)) /\ IsSum(f, es)
  <1> DEFINE T == {m \in 0..Len(es) : \A f : ~SumUpTo(f, es, m)}
  <1>1. Len(es) \in Nat /\ \A n \in 1..Len(es) : Weight(es, n) \in Nat
    BY EdgeFacts DEF Weight
  <1>2. T = {}
    <2> SUFFICES ASSUME T # {} PROVE FALSE
      OBVIOUS
    <2>1. T \in SUBSET Nat
      BY <1>1
    <2>2. PICK m \in T : \A k \in T : m <= k
      <3> HIDE DEF T
      <3> QED BY <2>1, Least
    <2>3. CASE m = 0
      <3> DEFINE f == [n \in 0..0 |-> 0]
      <3>1. SumUpTo(f, es, 0)
        BY DEF SumUpTo
      <3> HIDE DEF f
      <3> QED BY <2>3, <3>1
    <2>4. CASE m # 0
      <3>1. m \in 1..Len(es) /\ m - 1 \in 0..Len(es) /\ m - 1 \in Nat /\ ~(m <= m - 1)
        BY <1>1, <2>4
      <3>2. m - 1 \notin T
        <4> HIDE DEF T
        <4> QED BY <2>2, <3>1
      <3>3. PICK f : SumUpTo(f, es, m - 1)
        BY <3>1, <3>2
      <3> DEFINE g == [n \in 0..m |-> IF n = m THEN f[m - 1] + Weight(es, m) ELSE f[n]]
      <3>4. f[m - 1] \in Nat /\ Weight(es, m) \in Nat
        BY <1>1, <3>1, <3>3 DEF SumUpTo
      <3>5. g \in [0..m -> Nat] /\ g[0] = 0
        BY <3>1, <3>3, <3>4 DEF SumUpTo
      <3>6. \A n \in 1..m : g[n] = g[n - 1] + Weight(es, n)
        BY <3>1, <3>3 DEF SumUpTo
      <3>7. SumUpTo(g, es, m)
        BY <3>5, <3>6 DEF SumUpTo
      <3> HIDE DEF g
      <3> QED BY <2>2, <3>7
    <2> QED BY <2>3, <2>4
  <1>3. PICK f : SumUpTo(f, es, Len(es))
    BY <1>1, <1>2
  <1>4. IsSum(f, es)
    BY <1>1, <1>3 DEF SumUpTo, IsSum, Weight
  <1> QED BY <1>3, <1>4

LEMMA SumUnique ==
  ASSUME edges \in Seq(EdgeTypes), NEW es \in Seq(1..Len(edges)), NEW m \in 0..Len(es),
         NEW f, SumUpTo(f, es, m), NEW g, IsSum(g, es)
  PROVE  \A n \in 0..m : f[n] = g[n]
  <1> DEFINE T == {n \in 0..m : f[n] # g[n]}
  <1> SUFFICES ASSUME T # {} PROVE FALSE
    OBVIOUS
  <1>1. T \in SUBSET Nat
    OBVIOUS
  <1>2. PICK n \in T : \A k \in T : n <= k
    <2> HIDE DEF T
    <2> QED BY <1>1, Least
  <1>3. /\ g[0] = 0
        /\ \A k \in 1..Len(es) : g[k] = g[k - 1] + Weight(es, k)
    <2> DEFINE h == [k \in 0..Len(es) |-> IF k = 0 THEN 0 ELSE g[k - 1] + edges[es[k]].weight]
    <2>1. Len(es) \in Nat
      OBVIOUS
    <2>2. g = h
      BY Zenon DEF IsSum
    <2>3. \A k \in 1..Len(es) : k \in 0..Len(es) /\ k # 0
      BY <2>1
    <2>4. h[0] = 0 /\ \A k \in 1..Len(es) : h[k] = g[k - 1] + edges[es[k]].weight
      BY <2>1, <2>3
    <2> HIDE DEF h
    <2> QED BY <2>2, <2>4 DEF Weight
  <1>4. n # 0
    BY <1>3 DEF SumUpTo
  <1>5. n \in 1..m /\ n \in 1..Len(es) /\ n - 1 \in 0..m /\ n - 1 \notin T
    BY <1>1, <1>2, <1>4
  <1>6. f[n] = g[n]
    BY <1>3, <1>5 DEF SumUpTo
  <1> QED BY <1>2, <1>6

LEMMA RiskIs ==
  ASSUME edges \in Seq(EdgeTypes), NEW es \in Seq(1..Len(edges))
  PROVE  \E f : SumUpTo(f, es, Len(es)) /\ RiskOf(es) = f[Len(es)]
  <1> DEFINE g == CHOOSE h : IsSum(h, es)
  <1>1. PICK f : SumUpTo(f, es, Len(es)) /\ IsSum(f, es)
    BY SumExists
  <1>2. IsSum(g, es)
    BY <1>1
  <1>3. RiskOf(es) = g[Len(es)]
    BY DEF RiskOf, IsSum
  <1> HIDE DEF g
  <1>4. Len(es) \in 0..Len(es)
    OBVIOUS
  <1>5. f[Len(es)] = g[Len(es)]
    BY <1>1, <1>2, <1>4, SumUnique
  <1> QED BY <1>1, <1>3, <1>5

(* One more edge adds its weight.                                          *)
LEMMA RiskAppend ==
  ASSUME edges \in Seq(EdgeTypes)
  PROVE  /\ RiskOf(<<>>) = 0
         /\ \A es \in Seq(1..Len(edges)), k \in 1..Len(edges) :
              RiskOf(Append(es, k)) = RiskOf(es) + edges[k].weight
  <1>1. RiskOf(<<>>) = 0
    <2>1. <<>> \in Seq(1..Len(edges)) /\ Len(<<>>) = 0
      OBVIOUS
    <2>2. PICK f : SumUpTo(f, <<>>, 0) /\ RiskOf(<<>>) = f[0]
      BY <2>1, RiskIs
    <2> QED BY <2>2 DEF SumUpTo
  <1>2. ASSUME NEW es \in Seq(1..Len(edges)), NEW k \in 1..Len(edges)
        PROVE  RiskOf(Append(es, k)) = RiskOf(es) + edges[k].weight
    <2> DEFINE fs == Append(es, k)
               m == Len(es)
    <2>1. /\ fs \in Seq(1..Len(edges)) /\ Len(fs) = m + 1 /\ fs[m + 1] = k /\ m \in Nat
          /\ \A n \in 1..m : fs[n] = es[n]
      OBVIOUS
    <2> HIDE DEF fs
    <2>2. PICK f : SumUpTo(f, fs, m + 1) /\ RiskOf(fs) = f[m + 1]
      BY <2>1, RiskIs
    <2>3. PICK e : SumUpTo(e, es, m) /\ RiskOf(es) = e[m]
      BY RiskIs
    <2>4. PICK g : IsSum(g, fs)
      BY <2>1, SumExists
    <2>5. SumUpTo(e, fs, m) /\ m \in 0..Len(fs) /\ m + 1 \in 0..Len(fs)
      <3>1. \A n \in 1..m : Weight(fs, n) = Weight(es, n)
        BY <2>1 DEF Weight
      <3> QED BY <2>1, <2>3, <3>1 DEF SumUpTo
    <2>6. e[m] = g[m]
      <3> HIDE DEF m
      <3>1. \A n \in 0..m : e[n] = g[n]
        BY <2>1, <2>4, <2>5, SumUnique
      <3> QED BY <2>1, <3>1
    <2>7. f[m] = g[m]
      <3>1. Len(fs) \in 0..Len(fs) /\ m \in 0..Len(fs)
        BY <2>1
      <3>2. SumUpTo(f, fs, Len(fs))
        BY <2>1, <2>2
      <3>3. \A n \in 0..Len(fs) : f[n] = g[n]
        BY <2>1, <2>4, <3>1, <3>2, SumUnique
      <3> QED BY <3>1, <3>3
    <2>8. f[m + 1] = f[m] + edges[k].weight
      <3>1. m + 1 \in 1..(m + 1) /\ (m + 1) - 1 = m
        BY <2>1
      <3>2. f[m + 1] = f[(m + 1) - 1] + Weight(fs, m + 1)
        BY <2>2, <3>1 DEF SumUpTo
      <3> QED BY <2>1, <3>1, <3>2 DEF Weight
    <2> QED BY <2>2, <2>3, <2>6, <2>7, <2>8 DEF fs
  <1> QED BY <1>1, <1>2

-----------------------------------------------------------------------------
(***************************************************************************)
(* Simple paths, one edge at a time.                                       *)
(***************************************************************************)
TargetsDiffer(es) ==
  \A m, n \in 1..Len(es) : edges[es[m]].target = edges[es[n]].target => m = n
IsSimple(es) ==
  /\ es \in Seq(1..Len(edges)) /\ Len(es) \in 1..query.depth
  /\ edges[es[1]].source = query.source /\ edges[es[Len(es)]].target = query.target
  /\ Chained(es)
  /\ \A n \in 1..Len(es) : edges[es[n]].target # query.source
  /\ TargetsDiffer(es)

LEMMA EntersOnceMeans ==
  ASSUME NEW s, NEW es, Len(es) \in Nat
  PROVE  EntersOnce(s, es) <=>
           (\A n \in 1..Len(es) : edges[es[n]].target # s) /\ TargetsDiffer(es)
  <1> DEFINE L == 1..Len(es)
             E == {edges[es[n]].target : n \in L}
             f == [n \in L |-> edges[es[n]].target]
  <1>1. IsFiniteSet(L) /\ Cardinality(L) = Len(es)
    BY UpTo
  <1>2. f \in Surjection(L, E)
    BY DEF Surjection
  <1>3. f \in [L -> E] /\ \A n \in L : f[n] = edges[es[n]].target
    OBVIOUS
  <1>4. TargetsDiffer(es) <=> f \in Injection(L, E)
    BY <1>3 DEF TargetsDiffer, Injection, IsInjective
  <1>5. EntersOnce(s, es) <=>
          (\A n \in L : edges[es[n]].target # s) /\ Cardinality(E) = Len(es)
    BY DEF EntersOnce
  <1> HIDE DEF L, E, f
  <1>6. IsFiniteSet(E)
    BY <1>1, <1>2, FS_Surjection
  <1>7. TargetsDiffer(es) => Cardinality(E) = Len(es)
    <2> SUFFICES ASSUME TargetsDiffer(es) PROVE Cardinality(E) = Len(es)
      OBVIOUS
    <2>1. f \in Bijection(L, E)
      BY <1>2, <1>4 DEF Bijection
    <2>2. ExistsBijection(L, E)
      BY <2>1 DEF ExistsBijection
    <2> QED BY <1>1, <2>2, FS_Bijection
  <1>8. Cardinality(E) = Len(es) => TargetsDiffer(es)
    BY <1>1, <1>2, <1>4, <1>6, FS_Surjection
  <1> USE DEF L
  <1> QED BY <1>5, <1>7, <1>8

LEMMA SimpleMeans ==
  ASSUME edges \in Seq(EdgeTypes), query.depth \in Nat, NEW es
  PROVE  es \in SimplePaths <=> IsSimple(es)
  <1>1. es \in UNION {[1..n -> 1..Len(edges)] : n \in 1..query.depth}
          <=> es \in Seq(1..Len(edges)) /\ Len(es) \in 1..query.depth
    <2>1. ASSUME NEW n \in 1..query.depth, es \in [1..n -> 1..Len(edges)]
          PROVE  es \in Seq(1..Len(edges)) /\ Len(es) = n
      BY <2>1
    <2>2. ASSUME es \in Seq(1..Len(edges)), Len(es) \in 1..query.depth
          PROVE  es \in [1..Len(es) -> 1..Len(edges)]
      BY <2>2
    <2> QED BY <2>1, <2>2
  <1>2. ASSUME es \in Seq(1..Len(edges))
        PROVE  EntersOnce(query.source, es) <=>
                 (\A n \in 1..Len(es) : edges[es[n]].target # query.source) /\ TargetsDiffer(es)
    BY <1>2, EntersOnceMeans
  <1> QED BY <1>1, <1>2 DEF SimplePaths, IsSimple

(* Prefixes, element by element.                                           *)
LEMMA PrefixMeans ==
  ASSUME NEW s \in Seq(Nat), NEW t \in Seq(Nat)
  PROVE  IsPrefix(s, t) <=> Len(s) <= Len(t) /\ \A n \in 1..Len(s) : s[n] = t[n]
  <1>1. Len(s) \in Nat /\ Len(t) \in Nat
    OBVIOUS
  <1> SUFFICES ASSUME Len(s) <= Len(t)
               PROVE  SubSeq(s, 1, Len(s)) = SubSeq(t, 1, Len(s))
                        <=> \A n \in 1..Len(s) : s[n] = t[n]
    BY <1>1 DEF IsPrefix
  <1> DEFINE a == SubSeq(s, 1, Len(s))
             b == SubSeq(t, 1, Len(s))
  <1>2. /\ a \in Seq(Nat) /\ b \in Seq(Nat) /\ Len(a) = Len(s) /\ Len(b) = Len(s)
        /\ \A n \in 1..Len(s) : a[n] = s[n] /\ b[n] = t[n]
    BY <1>1
  <1> HIDE DEF a, b
  <1>3. (\A n \in 1..Len(s) : s[n] = t[n]) => a = b
    BY <1>2, SeqEqual
  <1>4. a = b => \A n \in 1..Len(s) : s[n] = t[n]
    BY <1>2
  <1> QED BY <1>3, <1>4 DEF a, b

LEMMA PrefixWhole ==
  ASSUME NEW s \in Seq(Nat), NEW t \in Seq(Nat)
  PROVE  /\ IsPrefix(s, t) /\ Len(s) = Len(t) => s = t
         /\ IsPrefix(s, s) /\ IsPrefix(<<>>, t)
  <1>1. IsPrefix(s, t) /\ Len(s) = Len(t) => s = t
    BY PrefixMeans
  <1>2. IsPrefix(s, s)
    BY PrefixMeans
  <1>3. <<>> \in Seq(Nat) /\ Len(<<>>) = 0
    BY EmptySeq
  <1>4. ASSUME NEW e \in Seq(Nat), Len(e) = 0
        PROVE  IsPrefix(e, t)
    <2>1. Len(t) \in Nat /\ Len(e) <= Len(t) /\ \A n \in 1..Len(e) : FALSE
      BY <1>4
    <2> QED BY <2>1, PrefixMeans
  <1> QED BY <1>1, <1>2, <1>3, <1>4

LEMMA PrefixAppend ==
  ASSUME NEW s \in Seq(Nat), NEW k \in Nat, NEW t \in Seq(Nat)
  PROVE  IsPrefix(Append(s, k), t)
           <=> IsPrefix(s, t) /\ Len(s) < Len(t) /\ t[Len(s) + 1] = k
  <1>1. /\ Append(s, k) \in Seq(Nat) /\ Len(Append(s, k)) = Len(s) + 1
        /\ Append(s, k)[Len(s) + 1] = k /\ Len(s) \in Nat /\ Len(t) \in Nat
        /\ \A n \in 1..Len(s) : Append(s, k)[n] = s[n]
    OBVIOUS
  <1>2. \A n \in 1..(Len(s) + 1) : n \in 1..Len(s) \/ n = Len(s) + 1
    BY <1>1
  <1>3. (\A n \in 1..Len(s) : n \in 1..(Len(s) + 1)) /\ Len(s) + 1 \in 1..(Len(s) + 1)
    BY <1>1
  <1>4. Len(s) + 1 <= Len(t) <=> Len(s) < Len(t) /\ Len(s) <= Len(t)
    BY <1>1
  <1> DEFINE a == Append(s, k)
  <1> HIDE DEF a
  <1>5. IsPrefix(a, t) <=> Len(a) <= Len(t) /\ \A n \in 1..Len(a) : a[n] = t[n]
    BY <1>1, PrefixMeans DEF a
  <1>6. IsPrefix(s, t) <=> Len(s) <= Len(t) /\ \A n \in 1..Len(s) : s[n] = t[n]
    BY PrefixMeans
  <1>7. (\A n \in 1..Len(a) : a[n] = t[n])
          <=> (\A n \in 1..Len(s) : s[n] = t[n]) /\ t[Len(s) + 1] = k
    BY <1>1, <1>2, <1>3 DEF a
  <1> QED BY <1>1, <1>4, <1>5, <1>6, <1>7 DEF a

-----------------------------------------------------------------------------
(***************************************************************************)
(* Routes.                                                                 *)
(***************************************************************************)
LEMMA RouteEdges ==
  ASSUME NEW p \in Route, Follows(p)
  PROVE  /\ p.nodes \in Seq(NodeIds) /\ p.edges \in Seq(Nat) /\ p.edges \in Seq(1..Len(edges))
         /\ Len(p.edges) \in Nat /\ Len(p.nodes) = Len(p.edges) + 1
         /\ Last(p.nodes) = p.nodes[Len(p.edges) + 1]
         /\ ToSet(p.nodes) = {p.nodes[n] : n \in 1..(Len(p.edges) + 1)}
  <1>1. p.nodes \in Seq(NodeIds) /\ p.edges \in Seq(Nat)
    BY DEF Route
  <1>2. p.edges \in Seq(1..Len(edges))
    <2>1. \A n \in 1..Len(p.edges) : p.edges[n] \in 1..Len(edges)
      BY DEF Follows
    <2>2. p.edges \in [1..Len(p.edges) -> 1..Len(edges)] /\ Len(p.edges) \in Nat
      BY <1>1, <2>1
    <2> QED BY <2>2, SeqDef
  <1>3. Len(p.edges) \in Nat /\ Len(p.nodes) = Len(p.edges) + 1
    BY <1>1 DEF Follows
  <1>4. ToSet(p.nodes) = {p.nodes[n] : n \in 1..(Len(p.edges) + 1)}
    BY <1>1, <1>3 DEF ToSet
  <1> QED BY <1>1, <1>2, <1>3, <1>4 DEF Last

LEMMA LongerFollows ==
  ASSUME edges \in Seq(EdgeTypes), query.depth \in Nat,
         NEW p \in Route, Follows(p), ~TooDeep(p),
         NEW k \in Leaving(Last(p.nodes), ToSet(p.nodes))
  PROVE  Follows(Longer(p, k))
  <1> DEFINE L == Len(p.edges)
             q == Longer(p, k)
             x == edges[k].target
  <1>1. /\ p.nodes \in Seq(NodeIds) /\ p.edges \in Seq(Nat) /\ p.edges \in Seq(1..Len(edges))
        /\ L \in Nat /\ Len(p.nodes) = L + 1
        /\ k \in 1..Len(edges) /\ edges[k].source = p.nodes[L + 1]
        /\ \A n \in 1..(L + 1) : p.nodes[n] # x
    BY RouteEdges DEF Leaving
  <1>2. q.nodes = Append(p.nodes, x) /\ q.edges = Append(p.edges, k)
        /\ q.risk = p.risk + edges[k].weight
    BY DEF Longer
  <1>3. x \in NodeIds /\ k \in Nat /\ Len(edges) \in Nat
    <2>1. k \in 1..Len(edges) /\ Len(edges) \in Nat
      BY <1>1
    <2> QED BY <2>1, EdgeFacts
  <1> HIDE DEF q, x
  <1>4. /\ Len(q.nodes) = L + 2 /\ q.nodes[L + 2] = x
        /\ \A n \in 1..(L + 1) : q.nodes[n] = p.nodes[n]
        /\ Len(q.edges) = L + 1 /\ q.edges[L + 1] = k
        /\ \A n \in 1..L : q.edges[n] = p.edges[n]
    BY <1>1, <1>2, <1>3
  <1>5. Len(q.nodes) = Len(q.edges) + 1 /\ q.nodes[1] = query.source
    BY <1>1, <1>4 DEF Follows
  <1>6. ASSUME NEW n \in 1..Len(q.edges)
        PROVE  /\ q.edges[n] \in 1..Len(edges)
               /\ edges[q.edges[n]].source = q.nodes[n]
               /\ edges[q.edges[n]].target = q.nodes[n + 1]
    <2>1. CASE n = L + 1
      <3>1. L + 1 \in 1..(L + 1) /\ (L + 1) + 1 = L + 2
        BY <1>1
      <3> QED BY <1>1, <1>4, <2>1, <3>1 DEF x
    <2>2. CASE n \in 1..L
      <3>1. n \in 1..(L + 1) /\ n + 1 \in 1..(L + 1)
        <4>1. L \in Nat
          BY <1>1
        <4> HIDE DEF L
        <4> QED BY <2>2, <4>1
      <3>2. q.edges[n] = p.edges[n] /\ q.nodes[n] = p.nodes[n] /\ q.nodes[n + 1] = p.nodes[n + 1]
        BY <1>4, <2>2, <3>1
      <3>3. /\ p.edges[n] \in 1..Len(edges)
            /\ edges[p.edges[n]].source = p.nodes[n]
            /\ edges[p.edges[n]].target = p.nodes[n + 1]
        BY <1>1, <2>2 DEF Follows
      <3> QED BY <3>2, <3>3
    <2>3. n = L + 1 \/ n \in 1..L
      BY <1>1, <1>4
    <2> QED BY <2>1, <2>2, <2>3
  <1>7. ASSUME NEW m \in 1..Len(q.nodes), NEW n \in 1..Len(q.nodes), q.nodes[m] = q.nodes[n]
        PROVE  m = n
    <2>1. (m \in 1..(L + 1) \/ m = L + 2) /\ (n \in 1..(L + 1) \/ n = L + 2)
      <3>1. L \in Nat /\ m \in 1..(L + 2) /\ n \in 1..(L + 2)
        BY <1>1, <1>4
      <3> HIDE DEF L
      <3> QED BY <3>1
    <2>2. CASE m \in 1..(L + 1) /\ n \in 1..(L + 1)
      <3>1. q.nodes[m] = p.nodes[m] /\ q.nodes[n] = p.nodes[n]
        BY <1>4, <2>2
      <3>2. m \in 1..Len(p.nodes) /\ n \in 1..Len(p.nodes)
        BY <1>1, <2>2
      <3> QED BY <1>7, <3>1, <3>2 DEF Follows
    <2> QED BY <1>1, <1>4, <1>7, <2>1, <2>2
  <1>8. Len(q.edges) <= query.depth
    BY <1>1, <1>4 DEF TooDeep
  <1>9. q.risk = RiskOf(q.edges)
    BY <1>1, <1>2, RiskAppend DEF Follows
  <1> QED BY <1>5, <1>6, <1>7, <1>8, <1>9 DEF Follows, q

(* A route that has arrived is a promised path.                            *)
LEMMA ArrivedSimple ==
  ASSUME edges \in Seq(EdgeTypes), query.depth \in Nat,
         NEW p \in Route, Follows(p), Arrived(p)
  PROVE  p.edges \in SimplePaths
  <1> DEFINE es == p.edges
             L == Len(p.edges)
  <1>1. /\ p.nodes \in Seq(NodeIds) /\ es \in Seq(1..Len(edges))
        /\ L \in Nat /\ Len(p.nodes) = L + 1
        /\ Last(p.nodes) = p.nodes[L + 1]
    BY RouteEdges
  <1>2. L \in 1..query.depth /\ p.nodes[L + 1] = query.target /\ L \in 1..L /\ 1 \in 1..L
    BY <1>1 DEF Arrived, Follows
  <1>3. /\ p.nodes[1] = query.source
        /\ \A n \in 1..L : edges[es[n]].source = p.nodes[n] /\ edges[es[n]].target = p.nodes[n + 1]
        /\ \A m, n \in 1..(L + 1) : p.nodes[m] = p.nodes[n] => m = n
    BY <1>1 DEF Follows
  <1>4. edges[es[1]].source = query.source /\ edges[es[L]].target = query.target
    BY <1>2, <1>3
  <1>5. Chained(es)
    <2> SUFFICES ASSUME NEW n \in 1..(L - 1)
                 PROVE  edges[es[n]].target = edges[es[n + 1]].source
      BY DEF Chained
    <2>1. n \in 1..L /\ n + 1 \in 1..L
      BY <1>1
    <2> QED BY <1>3, <2>1
  <1>6. \A n \in 1..L : n + 1 \in 1..(L + 1) /\ n + 1 # 1 /\ n \in Int
    BY <1>1
  <1>7. 1 \in 1..(L + 1)
    BY <1>1
  <1>8. \A n \in 1..L : edges[es[n]].target # query.source
    BY <1>3, <1>6, <1>7
  <1>9. TargetsDiffer(es)
    <2> SUFFICES ASSUME NEW m \in 1..L, NEW n \in 1..L, edges[es[m]].target = edges[es[n]].target
                 PROVE  m = n
      BY DEF TargetsDiffer
    <2>1. m + 1 = n + 1
      BY <1>3, <1>6
    <2> QED BY <1>6, <2>1
  <1>10. IsSimple(es)
    BY <1>1, <1>2, <1>4, <1>5, <1>8, <1>9 DEF IsSimple
  <1> QED BY <1>10, SimpleMeans

(* A simple path that begins with a route: the route has arrived and is all*)
(* of it, or goes on to it by one edge.                                    *)
LEMMA Continues ==
  ASSUME edges \in Seq(EdgeTypes), query.depth \in Nat,
         NEW p \in Route, Follows(p), NEW es \in SimplePaths, IsPrefix(p.edges, es)
  PROVE  LET L == Len(p.edges)
         IN  /\ Arrived(p) => p.edges = es
             /\ ~Arrived(p) =>
                  /\ L < Len(es) /\ ~TooDeep(p)
                  /\ es[L + 1] \in Leaving(Last(p.nodes), ToSet(p.nodes))
  <1> DEFINE L == Len(p.edges)
             M == Len(es)
  <1>1. /\ p.nodes \in Seq(NodeIds) /\ p.edges \in Seq(Nat)
        /\ L \in Nat /\ Len(p.nodes) = L + 1
        /\ Last(p.nodes) = p.nodes[L + 1]
        /\ ToSet(p.nodes) = {p.nodes[n] : n \in 1..(L + 1)}
    BY RouteEdges
  <1>2. /\ es \in Seq(1..Len(edges)) /\ es \in Seq(Nat) /\ M \in 1..query.depth /\ M \in Nat
        /\ edges[es[1]].source = query.source /\ edges[es[M]].target = query.target
        /\ \A n \in 1..(M - 1) : edges[es[n]].target = edges[es[n + 1]].source
        /\ \A n \in 1..M : edges[es[n]].target # query.source
        /\ \A m, n \in 1..M : edges[es[m]].target = edges[es[n]].target => m = n
    <2>1. IsSimple(es)
      BY SimpleMeans
    <2>2. es \in Seq(1..Len(edges)) /\ 1..Len(edges) \subseteq Nat
      BY <2>1, EdgeFacts DEF IsSimple
    <2>3. es \in Seq(Nat)
      BY <2>2
    <2> QED BY <2>1, <2>2, <2>3 DEF IsSimple, Chained, TargetsDiffer
  <1>3. L <= M /\ \A n \in 1..L : p.edges[n] = es[n]
    BY <1>1, <1>2, PrefixMeans
  <1>4. /\ p.nodes[1] = query.source
        /\ \A n \in 1..L : edges[es[n]].target = p.nodes[n + 1]
    BY <1>3 DEF Follows
  <1>5. L = M => p.edges = es
    BY <1>1, <1>2, PrefixWhole
  <1>6. M \in 1..M /\ \A n \in 1..L : n \in 1..M
    BY <1>1, <1>2, <1>3
  <1>7. ASSUME Arrived(p) PROVE p.edges = es
    <2>1. L >= 1 /\ p.nodes[L + 1] = query.target /\ L \in 1..L
      BY <1>1, <1>7 DEF Arrived
    <2>2. edges[es[L]].target = edges[es[M]].target
      BY <1>2, <1>4, <2>1
    <2>3. L = M
      BY <1>2, <1>6, <2>1, <2>2
    <2> QED BY <1>5, <2>3
  <1>8. ASSUME ~Arrived(p)
        PROVE  /\ L < M /\ ~TooDeep(p)
               /\ es[L + 1] \in Leaving(Last(p.nodes), ToSet(p.nodes))
    <2>1. L # M
      <3> SUFFICES ASSUME L = M PROVE FALSE
        OBVIOUS
      <3>1. M \in 1..L /\ L + 1 > 1
        BY <1>1, <1>2
      <3>2. p.nodes[L + 1] = query.target
        BY <1>2, <1>4, <3>1
      <3> QED BY <1>1, <1>8, <3>1, <3>2 DEF Arrived
    <2>2. L < M /\ ~TooDeep(p)
      BY <1>1, <1>2, <1>3, <2>1 DEF TooDeep
    <2>3. L + 1 \in 1..M /\ es[L + 1] \in 1..Len(edges)
      <3>1. L + 1 \in 1..M
        BY <1>1, <1>2, <2>2
      <3> QED BY <1>2, <3>1
    <2>4. edges[es[L + 1]].source = p.nodes[L + 1]
      <3>1. CASE L = 0
        BY <1>2, <1>4, <3>1
      <3>2. CASE L # 0
        <4>1. L \in 1..(M - 1) /\ L \in 1..L
          BY <1>1, <1>2, <2>2, <3>2
        <4> QED BY <1>2, <1>4, <4>1
      <3> QED BY <3>1, <3>2
    <2>5. ASSUME NEW n \in 1..(L + 1)
          PROVE  p.nodes[n] # edges[es[L + 1]].target
      <3>1. CASE n = 1
        BY <1>2, <1>4, <2>3, <3>1
      <3>2. CASE n # 1
        <4>1. n - 1 \in 1..L /\ (n - 1) + 1 = n /\ n - 1 # L + 1
          BY <1>1, <3>2
        <4>2. edges[es[n - 1]].target = p.nodes[n] /\ n - 1 \in 1..M
          BY <1>4, <1>6, <4>1
        <4> QED BY <1>2, <2>3, <4>1, <4>2
      <3> QED BY <3>1, <3>2
    <2> QED BY <1>1, <2>2, <2>3, <2>4, <2>5 DEF Leaving
  <1> QED BY <1>7, <1>8

(* Of what a route goes on to, one is the beginning of a simple path that  *)
(* begins with the route, and none that of another.                        *)
LEMMA OnwardCount ==
  ASSUME edges \in Seq(EdgeTypes), query.depth \in Nat,
         NEW p \in Route, Follows(p), ~Arrived(p), NEW es \in SimplePaths
  PROVE  /\ Cardinality(Places(Onward(p), Begun(es))) = IF p \in Begun(es) THEN 1 ELSE 0
         /\ p \in Begun(es) => ~TooDeep(p)
  <1> DEFINE L == Len(p.edges)
             all == [k \in 1..Len(edges) |-> Longer(p, k)]
             I == Leaving(Last(p.nodes), ToSet(p.nodes))
             B == I \cap Places(all, Begun(es))
  <1>1. all \in Seq(Route) /\ Len(all) = Len(edges) /\ Onward(p) = Sift(all, I)
    BY OnwardFacts
  <1>2. Cardinality(Places(Onward(p), Begun(es))) = Cardinality(B)
    <2> HIDE DEF all, I
    <2> QED BY <1>1, SiftCount
  <1>3. p.edges \in Seq(Nat) /\ es \in Seq(Nat) /\ I \subseteq 1..Len(edges) /\ L \in Nat
    <2>1. es \in Seq(1..Len(edges)) /\ 1..Len(edges) \subseteq Nat
      BY SimpleMeans, EdgeFacts DEF IsSimple
    <2> QED BY <2>1, RouteEdges DEF Leaving
  <1>4. p \in Begun(es) <=> IsPrefix(p.edges, es)
    BY DEF Begun
  <1>5. \A k \in 1..Len(edges) :
          all[k] \in Begun(es) <=> IsPrefix(p.edges, es) /\ L < Len(es) /\ es[L + 1] = k
    <2> TAKE k \in 1..Len(edges)
    <2>1. all[k] = Longer(p, k) /\ all[k] \in Route /\ k \in Nat
      BY <1>1
    <2>2. Longer(p, k).edges = Append(p.edges, k)
      BY DEF Longer
    <2>3. all[k] \in Begun(es) <=> IsPrefix(Append(p.edges, k), es)
      BY <2>1, <2>2 DEF Begun
    <2> QED BY <1>3, <2>1, <2>3, PrefixAppend
  <1> HIDE DEF all
  <1>6. B = {k \in I : all[k] \in Begun(es)}
    BY <1>1, <1>3 DEF Places
  <1>7. CASE p \in Begun(es)
    <2>1. L < Len(es) /\ ~TooDeep(p) /\ es[L + 1] \in I
      BY <1>4, <1>7, Continues
    <2>2. B = {es[L + 1]}
      BY <1>3, <1>4, <1>5, <1>6, <1>7, <2>1
    <2> HIDE DEF B, I
    <2> QED BY <1>2, <1>7, <2>1, <2>2, FS_Singleton
  <1>8. CASE p \notin Begun(es)
    <2>1. B = {}
      BY <1>3, <1>4, <1>5, <1>6, <1>8
    <2> HIDE DEF B, I
    <2> QED BY <1>2, <1>8, <2>1, FS_EmptySet
  <1> QED BY <1>7, <1>8

-----------------------------------------------------------------------------
(***************************************************************************)
(* The search for paths, step by step.                                     *)
(***************************************************************************)
Searching == At("discover") \/ At("sorted")

(* What routes and promised paths are depends on the graph and the query.  *)
LEMMA SameSearch ==
  ASSUME edges' = edges, query'.source = query.source, query'.target = query.target,
         query'.depth = query.depth
  PROVE  /\ \A p : Follows(p)' <=> Follows(p)
         /\ \A p : Arrived(p)' <=> Arrived(p)
         /\ SimplePaths' = SimplePaths
  BY DEF Follows, Arrived, SimplePaths, RiskOf, Chained, EntersOnce

LEMMA SearchFacts ==
  ASSUME TypeOK, Searching
  PROVE  /\ edges \in Seq(EdgeTypes) /\ query.depth \in Nat /\ query.source \in NodeIds
         /\ queue \in Seq(Route) /\ paths \in Seq(Route)
         /\ queue # <<>> => /\ Head(queue) \in Route /\ Head(queue) = queue[1]
                            /\ 1 \in 1..Len(queue) /\ Tail(queue) \in Seq(Route)
  <1>1. ~At("blast") /\ query.depth \in Nat /\ query.source \in NodeIds
    BY QueryFacts DEF TypeOK, Searching, At
  <1>2. queue \in Seq(Route) /\ paths \in Seq(Route) /\ edges \in Seq(EdgeTypes)
    BY <1>1 DEF TypeOK
  <1> QED BY <1>1, <1>2, HeadTail

(* What a step does to a search: begin it, continue it or leave it alone.  *)
SameQuery ==
  /\ edges' = edges /\ query'.source = query.source /\ query'.target = query.target
  /\ query'.depth = query.depth

LEMMA SearchSteps ==
  ASSUME TypeOK, Quiet, [Next]_vars, Searching'
  PROVE  \/ \E s, t \in NodeIds, d \in Depths : Discover(s, t, d)
         \/ Searching /\ SameQuery /\ (Arrive \/ Follow \/ Sort)
         \/ Searching /\ SameQuery /\ UNCHANGED <<query, queue, paths>>
  <1>1. CASE \E s, t \in NodeIds, d \in Depths : Discover(s, t, d)
    BY <1>1
  <1>2. CASE Arrive \/ Follow
    BY <1>2 DEF Arrive, Follow, Searching, SameQuery
  <1>3. CASE Sort
    <2>1. query \in Query /\ query.op = "discover"
      BY <1>3 DEF Sort, TypeOK, At
    <2>2. query \in [op : {"discover", "sorted"}, source : NodeIds, target : NodeIds,
                     depth : Depths]
      BY <2>1 DEF Query, NoQuery
    <2>3. /\ query'.source = query.source /\ query'.target = query.target
          /\ query'.depth = query.depth
      BY <1>3, <2>2 DEF Sort
    <2> QED BY <1>3, <2>3 DEF Sort, Searching, SameQuery
  <1>4. CASE (\E n \in NodeIds : AddNode(n) \/ Compromise(n)) \/ (\E e \in EdgeTypes : AddEdge(e))
    BY <1>4 DEF AddNode, Compromise, AddEdge, Searching, At
  <1>5. CASE Spread
    BY <1>5 DEF Spread, Searching, At
  <1>6. CASE Return
    BY <1>6 DEF Return, Searching, At, NoQuery
  <1>7. CASE UNCHANGED vars
    BY <1>7 DEF vars, Searching, At, SameQuery
  <1> QED BY <1>1, <1>2, <1>3, <1>4, <1>5, <1>6, <1>7 DEF Next, Continue

LEMMA RoutesNext == TypeOK /\ Quiet /\ Routes /\ [Next]_vars => Routes'
  <1> SUFFICES ASSUME TypeOK, Quiet, Routes, [Next]_vars, Searching'
               PROVE  /\ \A n \in 1..Len(queue') : Follows(queue[n])'
                      /\ \A n \in 1..Len(paths') : Follows(paths[n])' /\ Arrived(paths[n])'
    BY DEF Routes, Searching
  <1>s. ASSUME Searching
        PROVE  /\ edges \in Seq(EdgeTypes) /\ query.depth \in Nat
               /\ queue \in Seq(Route) /\ paths \in Seq(Route)
               /\ queue # <<>> => /\ Head(queue) \in Route /\ Head(queue) = queue[1]
                                  /\ 1 \in 1..Len(queue) /\ Tail(queue) \in Seq(Route)
               /\ \A n \in 1..Len(queue) : Follows(queue[n])
               /\ \A n \in 1..Len(paths) : Follows(paths[n]) /\ Arrived(paths[n])
    BY <1>s, SearchFacts DEF Routes, Searching
  <1>m. ASSUME SameQuery
        PROVE  (\A p : Follows(p)' <=> Follows(p)) /\ (\A p : Arrived(p)' <=> Arrived(p))
    BY <1>m, SameSearch DEF SameQuery
  <1>1. ASSUME NEW s \in NodeIds, NEW t \in NodeIds, NEW d \in Depths, Discover(s, t, d)
        PROVE  /\ \A n \in 1..Len(queue') : Follows(queue[n])'
               /\ \A n \in 1..Len(paths') : Follows(paths[n])' /\ Arrived(paths[n])'
    <2> DEFINE p == [nodes |-> <<s>>, edges |-> <<>>, risk |-> 0]
    <2>1. /\ query' = [op |-> "discover", source |-> s, target |-> t, depth |-> d]
          /\ queue' = <<p>> /\ paths' = <<>>
      BY <1>1 DEF Discover, Quiet
    <2>2. edges \in Seq(EdgeTypes) /\ edges' = edges /\ query'.source = s /\ query'.depth \in Nat
      BY <1>1, <2>1, BoundAssumption DEF TypeOK, Discover
    <2>3. /\ Len(p.nodes) = 1 /\ p.nodes[1] = s /\ Len(p.edges) = 0 /\ p.risk = 0
          /\ p.edges = <<>>
      OBVIOUS
    <2>4. RiskOf(p.edges)' = 0
      <3>1. RiskOf(<<>>) = 0
        BY <2>2, RiskAppend
      <3>2. RiskOf(<<>>)' = RiskOf(<<>>)
        BY <2>2 DEF RiskOf
      <3> QED BY <3>1, <3>2, <2>3
    <2> HIDE DEF p
    <2>5. Len(p.nodes) = Len(p.edges) + 1 /\ Len(p.edges) <= query'.depth
      BY <2>2, <2>3
    <2>6. (\A n \in 1..Len(p.edges) : FALSE) /\ \A m, n \in 1..Len(p.nodes) : m = n
      BY <2>3
    <2>7. Follows(p)'
      BY <2>2, <2>3, <2>4, <2>5, <2>6 DEF Follows
    <2>8. Len(queue') = 1 /\ queue'[1] = p /\ \A n \in 1..Len(paths') : FALSE
      BY <2>1
    <2> QED BY <2>7, <2>8
  <1>2. CASE Searching /\ SameQuery /\ Arrive
    <2>1. /\ queue # <<>> /\ Arrived(Head(queue)) /\ Follows(Head(queue))
          /\ queue' = Tail(queue) /\ paths' = Append(paths, Head(queue))
      BY <1>2, <1>s DEF Arrive
    <2>2. \A n \in 1..Len(Tail(queue)) : Follows(Tail(queue)[n])
      BY <1>2, <1>s, <2>1, HeadTail
    <2>3. \A n \in 1..Len(paths') : (n \in 1..Len(paths) /\ paths'[n] = paths[n])
                                      \/ paths'[n] = Head(queue)
      BY <1>2, <1>s, <2>1
    <2>4. \A n \in 1..Len(paths') : Follows(paths'[n]) /\ Arrived(paths'[n])
      BY <1>2, <1>s, <2>1, <2>3
    <2> QED BY <1>2, <1>m, <2>1, <2>2, <2>4
  <1>3. CASE Searching /\ SameQuery /\ Follow
    <2> DEFINE h == Head(queue)
               on == IF TooDeep(h) THEN <<>> ELSE Onward(h)
    <2>1. /\ queue # <<>> /\ ~Arrived(h) /\ Follows(h) /\ h \in Route
          /\ queue' = Tail(queue) \o on /\ paths' = paths
      BY <1>3, <1>s DEF Follow
    <2>2. on \in Seq(Route) /\ \A n \in 1..Len(on) : Follows(on[n])
      <3>1. CASE TooDeep(h)
        BY <3>1
      <3>2. CASE ~TooDeep(h)
        <4>1. /\ Onward(h) \in Seq(Route)
              /\ \A j \in 1..Len(Onward(h)) :
                   \E k \in Leaving(Last(h.nodes), ToSet(h.nodes)) : Onward(h)[j] = Longer(h, k)
          BY <1>3, <1>s, <2>1, OnwardFacts
        <4>2. \A k \in Leaving(Last(h.nodes), ToSet(h.nodes)) : Follows(Longer(h, k))
          BY <1>3, <1>s, <2>1, <3>2, LongerFollows
        <4> QED BY <3>2, <4>1, <4>2
      <3> QED BY <3>1, <3>2
    <2> HIDE DEF on, h
    <2>3. Tail(queue) \in Seq(Route) /\ \A n \in 1..Len(Tail(queue)) : Follows(Tail(queue)[n])
      BY <1>3, <1>s, <2>1, HeadTail
    <2>4. \A n \in 1..Len(queue') : Follows(queue'[n])
      <3> DEFINE r == Tail(queue)
      <3>1. /\ \A n \in 1..Len(r) : (r \o on)[n] = r[n]
            /\ \A n \in 1..Len(on) : (r \o on)[Len(r) + n] = on[n]
            /\ \A n \in 1..Len(r \o on) : n \in 1..Len(r) \/ n - Len(r) \in 1..Len(on)
        BY <2>2, <2>3, ConcatElements
      <3>2. Len(r) \in Nat /\ \A n \in 1..Len(r \o on) : Len(r) + (n - Len(r)) = n
        BY <2>3
      <3> HIDE DEF r
      <3>3. ASSUME NEW n \in 1..Len(r \o on) PROVE Follows((r \o on)[n])
        BY <2>2, <2>3, <3>1, <3>2 DEF r
      <3> QED BY <2>1, <3>3 DEF r
    <2> QED BY <1>3, <1>s, <1>m, <2>1, <2>4
  <1>4. CASE Searching /\ SameQuery /\ Sort
    <2>1. paths' = Ordered /\ queue' = queue
      BY <1>4 DEF Sort, Ordered, IndexAt
    <2>2. Len(Ordered) = Len(paths) /\ \A k \in 1..Len(paths) : IndexAt(k) \in 1..Len(paths)
      BY <1>4, <1>s, SortedFacts
    <2>3. \A k \in 1..Len(paths) : Ordered[k] = paths[IndexAt(k)]
      BY DEF Ordered
    <2>4. \A n \in 1..Len(paths') : Follows(paths'[n]) /\ Arrived(paths'[n])
      BY <1>4, <1>s, <2>1, <2>2, <2>3
    <2> QED BY <1>4, <1>s, <1>m, <2>1, <2>4
  <1>5. CASE Searching /\ SameQuery /\ UNCHANGED <<query, queue, paths>>
    BY <1>5, <1>s, <1>m
  <1> QED BY <1>1, <1>2, <1>3, <1>4, <1>5, SearchSteps

LEMMA NoneLostNext ==
  TypeOK /\ Quiet /\ Routes /\ NoneLost /\ [Next]_vars => NoneLost'
  <1> DEFINE In(s, V) == Cardinality(Places(s, V))
  <1> SUFFICES ASSUME TypeOK, Quiet, Routes, NoneLost, [Next]_vars, Searching',
                      NEW es \in SimplePaths'
               PROVE  In(paths', Found(es)) + In(queue', Begun(es)) = 1
    BY DEF NoneLost, Searching, Places, Found, Begun
  <1> HIDE DEF In
  <1>s. ASSUME Searching, SameQuery
        PROVE  /\ edges \in Seq(EdgeTypes) /\ query.depth \in Nat
               /\ queue \in Seq(Route) /\ paths \in Seq(Route)
               /\ queue # <<>> => /\ Head(queue) \in Route /\ Head(queue) = queue[1]
                                  /\ 1 \in 1..Len(queue) /\ Tail(queue) \in Seq(Route)
                                  /\ Follows(Head(queue))
               /\ es \in SimplePaths /\ es \in Seq(Nat)
               /\ In(paths, Found(es)) + In(queue, Begun(es)) = 1
               /\ In(paths, Found(es)) \in Nat /\ In(queue, Begun(es)) \in Nat
    <2>1. /\ edges \in Seq(EdgeTypes) /\ query.depth \in Nat
          /\ queue \in Seq(Route) /\ paths \in Seq(Route)
          /\ queue # <<>> => /\ Head(queue) \in Route /\ Head(queue) = queue[1]
                             /\ 1 \in 1..Len(queue) /\ Tail(queue) \in Seq(Route)
      BY <1>s, SearchFacts
    <2>2. es \in SimplePaths
      BY <1>s, SameSearch DEF SameQuery
    <2>3. es \in Seq(Nat)
      <3>1. es \in Seq(1..Len(edges)) /\ 1..Len(edges) \subseteq Nat
        BY <2>1, <2>2, SimpleMeans, EdgeFacts DEF IsSimple
      <3> QED BY <3>1
    <2>4. In(paths, Found(es)) + In(queue, Begun(es)) = 1
      BY <1>s, <2>2 DEF NoneLost, Searching, In
    <2>5. In(paths, Found(es)) \in Nat /\ In(queue, Begun(es)) \in Nat
      BY <2>1, PlacesFinite DEF In
    <2>6. queue # <<>> => Follows(Head(queue))
      BY <1>s, <2>1 DEF Routes, Searching
    <2> QED BY <2>1, <2>2, <2>3, <2>4, <2>5, <2>6
  <1>1. ASSUME NEW s \in NodeIds, NEW t \in NodeIds, NEW d \in Depths, Discover(s, t, d)
        PROVE  In(paths', Found(es)) + In(queue', Begun(es)) = 1
    <2> DEFINE p == [nodes |-> <<s>>, edges |-> <<>>, risk |-> 0]
    <2>1. queue' = <<p>> /\ paths' = <<>> /\ edges' = edges
      BY <1>1 DEF Discover, Quiet
    <2>2. es \in Seq(Nat)
      <3>1. PICK n \in Nat : es \in [1..n -> 1..Len(edges)]
        BY <2>1 DEF SimplePaths
      <3>2. 1..Len(edges) \subseteq Nat
        BY EdgeFacts DEF TypeOK
      <3>3. \A k \in 1..n : es[k] \in Nat
        BY <3>1, <3>2
      <3> QED BY <3>1, <3>3
    <2>3. p \in Begun(es)
      <3>1. p \in Route /\ p.edges = <<>>
        BY DEF Route
      <3> QED BY <2>2, <3>1, PrefixWhole DEF Begun
    <2> HIDE DEF p
    <2>4. Places(<<>>, Found(es)) = {} /\ Places(<<p>>, Begun(es)) = {1}
      BY <2>3 DEF Places
    <2>5. In(paths', Found(es)) = 0 /\ In(queue', Begun(es)) = 1
      BY <2>1, <2>4, FS_EmptySet, FS_Singleton DEF In
    <2> QED BY <2>5
  <1>2. CASE Searching /\ SameQuery /\ Arrive
    <2> DEFINE h == Head(queue)
    <2>1. /\ queue # <<>> /\ Arrived(h) /\ queue' = Tail(queue) /\ paths' = Append(paths, h)
      BY <1>2 DEF Arrive
    <2>2. h \in Route /\ h.edges \in Seq(Nat) /\ Follows(h)
      BY <1>2, <1>s, <2>1 DEF Route
    <2>3. h \in Found(es) <=> h \in Begun(es)
      <3>1. h \in Begun(es) <=> IsPrefix(h.edges, es)
        BY <2>2 DEF Begun
      <3>2. h \in Found(es) <=> h.edges = es
        BY <2>2 DEF Found
      <3>3. IsPrefix(h.edges, es) => h.edges = es
        BY <1>2, <1>s, <2>1, <2>2, Continues
      <3>4. h.edges = es => IsPrefix(h.edges, es)
        BY <1>2, <1>s, PrefixWhole
      <3> QED BY <3>1, <3>2, <3>3, <3>4
    <2>4. In(paths', Found(es)) = In(paths, Found(es)) + (IF h \in Found(es) THEN 1 ELSE 0)
      BY <1>2, <1>s, <2>1, <2>2, PlacesAppend DEF In
    <2>5. In(queue', Begun(es)) + (IF h \in Begun(es) THEN 1 ELSE 0) = In(queue, Begun(es))
      BY <1>2, <1>s, <2>1, PlacesTail DEF In
    <2>6. In(queue', Begun(es)) \in Nat
      BY <1>2, <1>s, <2>1, PlacesFinite DEF In
    <2> HIDE DEF h
    <2> QED BY <1>2, <1>s, <2>3, <2>4, <2>5, <2>6
  <1>3. CASE Searching /\ SameQuery /\ Follow
    <2> DEFINE h == Head(queue)
               on == IF TooDeep(h) THEN <<>> ELSE Onward(h)
    <2>1. /\ queue # <<>> /\ ~Arrived(h) /\ queue' = Tail(queue) \o on /\ paths' = paths
      BY <1>3 DEF Follow
    <2>2. h \in Route /\ Follows(h)
      BY <1>3, <1>s, <2>1
    <2>3. /\ In(Onward(h), Begun(es)) = IF h \in Begun(es) THEN 1 ELSE 0
          /\ h \in Begun(es) => ~TooDeep(h)
      BY <1>3, <1>s, <2>1, <2>2, OnwardCount DEF In
    <2>4. In(on, Begun(es)) = IF h \in Begun(es) THEN 1 ELSE 0
      <3>1. CASE TooDeep(h)
        <4>1. Places(<<>>, Begun(es)) = {}
          BY DEF Places
        <4> QED BY <2>3, <3>1, <4>1, FS_EmptySet DEF In
      <3>2. CASE ~TooDeep(h)
        BY <2>3, <3>2
      <3> QED BY <3>1, <3>2
    <2>5. on \in Seq(Route)
      <3>1. Onward(h) \in Seq(Route)
        BY <1>3, <1>s, <2>2, OnwardFacts
      <3>2. <<>> \in Seq(Route)
        BY EmptySeq
      <3> QED BY <3>1, <3>2
    <2> HIDE DEF on
    <2>6. In(queue', Begun(es)) = In(Tail(queue), Begun(es)) + In(on, Begun(es))
      <3>1. Tail(queue) \in Seq(Route)
        BY <1>3, <1>s, <2>1
      <3>2. Cardinality(Places(Tail(queue) \o on, Begun(es))) =
              Cardinality(Places(Tail(queue), Begun(es))) + Cardinality(Places(on, Begun(es)))
        BY <2>5, <3>1, PlacesConcat
      <3> QED BY <2>1, <3>2 DEF In
    <2>7. In(Tail(queue), Begun(es)) + (IF h \in Begun(es) THEN 1 ELSE 0) = In(queue, Begun(es))
      BY <1>3, <1>s, <2>1, PlacesTail DEF In
    <2>8. In(Tail(queue), Begun(es)) \in Nat
      BY <1>3, <1>s, <2>1, PlacesFinite DEF In
    <2> HIDE DEF h
    <2> QED BY <1>3, <1>s, <2>1, <2>4, <2>6, <2>7, <2>8
  <1>4. CASE Searching /\ SameQuery /\ Sort
    <2>1. paths' = Ordered /\ queue' = queue
      BY <1>4 DEF Sort, Ordered, IndexAt
    <2>2. In(Ordered, Found(es)) = In(paths, Found(es))
      BY <1>4, <1>s, SortedFacts DEF In
    <2> QED BY <1>4, <1>s, <2>1, <2>2
  <1>5. CASE Searching /\ SameQuery /\ UNCHANGED <<query, queue, paths>>
    BY <1>5, <1>s
  <1> QED BY <1>1, <1>2, <1>3, <1>4, <1>5, SearchSteps

LEMMA RankedNext == TypeOK /\ Quiet /\ Ranked /\ [Next]_vars => Ranked'
  <1> SUFFICES ASSUME TypeOK, Quiet, Ranked, [Next]_vars, At("sorted")'
               PROVE  \A n \in 1..(Len(paths') - 1) : paths'[n].risk >= paths'[n + 1].risk
    BY DEF Ranked, At
  <1>1. ASSUME NEW s \in NodeIds, NEW t \in NodeIds, NEW d \in Depths, Discover(s, t, d)
        PROVE  FALSE
    BY <1>1 DEF Discover, At
  <1>2. CASE Arrive \/ Follow
    BY <1>2 DEF Arrive, Follow, At
  <1>3. CASE Sort
    <2>1. paths \in Seq(Route) /\ paths' = Ordered
      BY <1>3 DEF Sort, TypeOK, Ordered, IndexAt, At
    <2>2. /\ Len(Ordered) = Len(paths)
          /\ \A n \in 1..(Len(paths) - 1) : Ordered[n].risk >= Ordered[n + 1].risk
      BY <2>1, SortedFacts
    <2> QED BY <2>1, <2>2
  <1>4. CASE UNCHANGED <<query, queue, paths>>
    BY <1>4 DEF Ranked, At
  <1>5. Searching'
    BY DEF Searching, At
  <1> QED BY <1>1, <1>2, <1>3, <1>4, <1>5, SearchSteps

LEMMA RoutesMean == TypeOK /\ Quiet /\ Routes /\ NoneLost /\ Ranked => PathsExact
  <1> SUFFICES ASSUME TypeOK, Routes, NoneLost, Ranked, Searching
               PROVE  /\ \A n \in 1..Len(paths) :
                           paths[n].edges \in SimplePaths /\ paths[n].risk = RiskOf(paths[n].edges)
                      /\ \A es \in SimplePaths :
                           Cardinality({n \in 1..Len(paths) : paths[n].edges = es})
                             + Cardinality({n \in 1..Len(queue) : IsPrefix(queue[n].edges, es)}) = 1
    BY DEF PathsExact, Searching, Ranked
  <1>1. /\ edges \in Seq(EdgeTypes) /\ query.depth \in Nat
        /\ \A n \in 1..Len(paths) : paths[n] \in Route
        /\ \A n \in 1..Len(queue) : queue[n] \in Route
    <2>1. queue \in Seq(Route) /\ paths \in Seq(Route)
      BY SearchFacts
    <2> QED BY <2>1, SearchFacts
  <1>2. ASSUME NEW n \in 1..Len(paths)
        PROVE  paths[n].edges \in SimplePaths /\ paths[n].risk = RiskOf(paths[n].edges)
    <2>1. Follows(paths[n]) /\ Arrived(paths[n])
      BY DEF Routes, Searching
    <2> QED BY <1>1, <2>1, ArrivedSimple DEF Follows
  <1>3. ASSUME NEW es \in SimplePaths
        PROVE  Cardinality({n \in 1..Len(paths) : paths[n].edges = es})
                 + Cardinality({n \in 1..Len(queue) : IsPrefix(queue[n].edges, es)}) = 1
    <2>1. {n \in 1..Len(paths) : paths[n].edges = es} = Places(paths, Found(es))
      BY <1>1 DEF Places, Found
    <2>2. {n \in 1..Len(queue) : IsPrefix(queue[n].edges, es)} = Places(queue, Begun(es))
      BY <1>1 DEF Places, Begun
    <2> QED BY <2>1, <2>2 DEF NoneLost, Searching
  <1> QED BY <1>2, <1>3

(* For any graph and any bound, what discover_paths has found and what it  *)
(* has still to follow are together the simple paths from the source to the*)
(* target within the bound, each once and with its weight; when it returns *)
(* the riskiest come first.                                                *)
THEOREM PathsExactHolds == Spec => []PathsExact
  <1>1. Init => Routes /\ NoneLost /\ Ranked
    BY DEF Init, Routes, NoneLost, Ranked, At, NoQuery
  <1>2. TypeOK /\ Quiet /\ Routes /\ NoneLost /\ Ranked /\ [Next]_vars
          => Routes' /\ NoneLost' /\ Ranked'
    BY RoutesNext, NoneLostNext, RankedNext
  <1>3. TypeOK /\ Quiet /\ Routes /\ NoneLost /\ Ranked => PathsExact
    BY RoutesMean
  <1> QED BY <1>1, <1>2, <1>3, TypeInvariant, PTL DEF Spec

-----------------------------------------------------------------------------
(***************************************************************************)
(* The identity threat engine.                                             *)
(***************************************************************************)
(* Where an event is: the numbers by which events are known are those of   *)
(* events that have been analysed.                                         *)
Known(u, n) == n \in 1..Len(seen[u])
Numbered ==
  /\ \A k \in 1..Len(threats) : Known(threats[k].user, threats[k].event)
  /\ \A k \in 1..Len(feed) : Known(feed[k].threat.user, feed[k].threat.event)
  /\ \A k \in 1..Len(stored) : Known(stored[k][1], stored[k][2])
  /\ \A t \in Threads : ~Id!At(t, "idle") =>
       \E u \in Users : \E n \in 1..Len(seen[u]) : work[t].event = <<u, n>>

(* An event is in the hands of one thread at most, which announces its     *)
(* threats, each once, before it stores the event.                         *)
Owned ==
  /\ \A t \in Threads :
       /\ Id!At(t, "idle") => work[t].pending = <<>>
       /\ Id!At(t, "suspect") =>
            work[t].pending # <<>> /\ Head(work[t].pending).kind = "TokenTheft"
       /\ \A j \in 1..Len(work[t].pending) :
            work[t].event = <<work[t].pending[j].user, work[t].pending[j].event>>
       /\ \A i, j \in 1..Len(work[t].pending) : work[t].pending[i] = work[t].pending[j] => i = j
       /\ \A k \in 1..Len(stored) : ~Id!At(t, "idle") => stored[k] # work[t].event
  /\ \A t, v \in Threads :
       ~Id!At(t, "idle") /\ ~Id!At(v, "idle") /\ work[t].event = work[v].event => t = v

Pending(t, x) == \E j \in 1..Len(work[t].pending) : work[t].pending[j] = x
Suspecting(t, x) == Id!At(t, "suspect") /\ Head(work[t].pending) = x
Told ==
  \A k \in 1..Len(threats) :
    LET x == threats[k]
    IN  /\ Id!Times(Id!Detected(x)) =
             IF \E t \in Threads : Pending(t, x) /\ ~Suspecting(t, x) THEN 0 ELSE 1
        /\ Id!Times(Id!Suspected(x)) =
             IF x.kind = "TokenTheft" /\ ~\E t \in Threads : Pending(t, x) THEN 1 ELSE 0

(* The profile of a user: the length of the run of failures that has not   *)
(* been broken yet, and the last event.                                    *)
Tracks(p, s) ==
  LET n == Len(s)
      f == p.failures
  IN  /\ f \in 0..n
      /\ \A m \in (n - f + 1)..n : ~s[m].success
      /\ f < n => s[n - f].success
      /\ n = 0 => p.last = <<>>
      /\ n # 0 => p.last = <<s[n].at>> /\ (s[n].place # None => p.place = s[n].place)
Tracked(u) == Tracks(profile[u], seen[u])

-----------------------------------------------------------------------------
(***************************************************************************)
(* What an event is found to be.                                           *)
(***************************************************************************)
Has(s, x)   == \E j \in 1..Len(s) : s[j] = x
Distinct(s) == \A i, j \in 1..Len(s) : s[i] = s[j] => i = j

LEMMA WhenFacts ==
  ASSUME NEW c \in BOOLEAN, NEW S, NEW k \in S
  PROVE  /\ Id!When(c, k) \in Seq(S) /\ Distinct(Id!When(c, k))
         /\ \A x : Has(Id!When(c, k), x) <=> c /\ x = k
         /\ Len(Id!When(c, k)) = IF c THEN 1 ELSE 0
  <1> DEFINE w == Id!When(c, k)
  <1>1. CASE c
    <2>1. w = <<k>>
      BY <1>1 DEF Id!When
    <2>2. w \in Seq(S) /\ Len(w) = 1 /\ w[1] = k
      BY <2>1
    <2> HIDE DEF w
    <2>3. Distinct(w) /\ \A x : Has(w, x) <=> x = k
      BY <2>2 DEF Has, Distinct
    <2> QED BY <1>1, <2>2, <2>3 DEF w
  <1>2. CASE ~c
    <2>1. w = <<>>
      BY <1>2 DEF Id!When
    <2>2. w \in Seq(S) /\ Len(w) = 0
      BY <2>1, EmptySeq
    <2> HIDE DEF w
    <2>3. Distinct(w) /\ \A x : ~Has(w, x)
      BY <2>2 DEF Has, Distinct
    <2> QED BY <1>2, <2>2, <2>3 DEF w
  <1> QED BY <1>1, <1>2

LEMMA WhenAdds ==
  ASSUME NEW c \in BOOLEAN, NEW S, NEW s \in Seq(S), Distinct(s), NEW k \in S, ~Has(s, k)
  PROVE  LET r == s \o Id!When(c, k)
         IN  /\ r \in Seq(S) /\ Distinct(r)
             /\ \A x : Has(r, x) <=> Has(s, x) \/ (c /\ x = k)
             /\ Len(r) = Len(s) + IF c THEN 1 ELSE 0
             /\ \A j \in 1..Len(s) : r[j] = s[j]
             /\ c => r[Len(s) + 1] = k
  <1> DEFINE w == Id!When(c, k)
             r == s \o w
  <1>1. /\ w \in Seq(S) /\ Len(w) = (IF c THEN 1 ELSE 0) /\ Len(s) \in Nat
        /\ \A x : Has(w, x) <=> c /\ x = k
    BY WhenFacts
  <1>2. \A j \in 1..Len(w) : w[j] = k
    BY <1>1 DEF Has
  <1> HIDE DEF w
  <1>3. /\ r \in Seq(S) /\ Len(r) = Len(s) + Len(w)
        /\ \A j \in 1..Len(s) : r[j] = s[j]
        /\ \A j \in 1..Len(w) : r[Len(s) + j] = w[j]
    <2>1. w \in Seq(S)
      BY <1>1
    <2> QED BY <2>1, ConcatElements
  <1> HIDE DEF r
  <1>4. CASE c
    <2>1. Len(r) = Len(s) + 1 /\ r[Len(s) + 1] = k
      BY <1>1, <1>2, <1>3, <1>4
    <2>2. \A j \in 1..Len(r) : j \in 1..Len(s) \/ j = Len(s) + 1
      BY <1>1, <2>1
    <2>3. (\A j \in 1..Len(s) : j \in 1..Len(r)) /\ Len(s) + 1 \in 1..Len(r)
      BY <1>1, <2>1
    <2>4. \A x : Has(r, x) <=> Has(s, x) \/ x = k
      BY <1>3, <2>1, <2>2, <2>3 DEF Has
    <2>5. Distinct(r)
      BY <1>3, <2>1, <2>2 DEF Distinct, Has
    <2> QED BY <1>1, <1>3, <1>4, <2>1, <2>4, <2>5 DEF r, w
  <1>5. CASE ~c
    <2>1. Len(r) = Len(s)
      BY <1>1, <1>3, <1>5
    <2>2. \A x : Has(r, x) <=> Has(s, x)
      BY <1>3, <2>1 DEF Has
    <2>3. Distinct(r)
      BY <1>3, <2>1 DEF Distinct
    <2> QED BY <1>1, <1>3, <1>5, <2>1, <2>2, <2>3 DEF r, w
  <1> QED BY <1>4, <1>5

Simple == Id!Kinds \ {"TokenTheft"}

LEMMA FactorFacts ==
  ASSUME Id!Assumption, NEW e \in Events, NEW p, p.failures \in Nat
  PROVE  LET fs == Id!Factors(p, e)
             ex == ~e.success /\ Id!Failures(p, e) >= FailureThreshold
         IN  /\ fs \in Seq(Simple) /\ Distinct(fs) /\ Len(fs) \in Nat
             /\ Has(fs, "ExcessiveAuthFailures") <=> ex
             /\ Has(fs, "ImpossibleTravel") <=> Id!Travelled(p, e)
  <1> DEFINE c1 == ~e.success /\ Id!Failures(p, e) >= FailureThreshold
             c2 == e.success /\ ~e.mfa
             c3 == Id!Travelled(p, e)
             c4 == ~e.success /\ e.abusive
             s1 == Id!When(c1, "ExcessiveAuthFailures")
             s2 == s1 \o Id!When(c2, "MfaBypass")
             s3 == s2 \o Id!When(c3, "ImpossibleTravel")
             s4 == s3 \o Id!When(c4, "CredentialAbuse")
  <1>1. c1 \in BOOLEAN /\ c2 \in BOOLEAN /\ c3 \in BOOLEAN /\ c4 \in BOOLEAN
    BY DEF Id!Travelled
  <1>2. /\ "ExcessiveAuthFailures" \in Simple /\ "MfaBypass" \in Simple
        /\ "ImpossibleTravel" \in Simple /\ "CredentialAbuse" \in Simple
    BY DEF Simple, Id!Kinds
  <1>3. Id!Factors(p, e) = s4
    BY DEF Id!Factors
  <1> HIDE DEF c1, c2, c3, c4
  <1>4. /\ s1 \in Seq(Simple) /\ Distinct(s1)
        /\ \A x : Has(s1, x) <=> c1 /\ x = "ExcessiveAuthFailures"
    BY <1>1, <1>2, WhenFacts
  <1> HIDE DEF s1
  <1>5. /\ s2 \in Seq(Simple) /\ Distinct(s2)
        /\ \A x : Has(s2, x) <=> Has(s1, x) \/ (c2 /\ x = "MfaBypass")
    <2>1. ~Has(s1, "MfaBypass") /\ s1 \in Seq(Simple) /\ Distinct(s1)
      BY <1>4
    <2> QED BY <1>1, <1>2, <2>1, WhenAdds
  <1> HIDE DEF s2
  <1>6. /\ s3 \in Seq(Simple) /\ Distinct(s3)
        /\ \A x : Has(s3, x) <=> Has(s2, x) \/ (c3 /\ x = "ImpossibleTravel")
    <2>1. ~Has(s2, "ImpossibleTravel") /\ s2 \in Seq(Simple) /\ Distinct(s2)
      BY <1>4, <1>5
    <2> QED BY <1>1, <1>2, <2>1, WhenAdds
  <1> HIDE DEF s3
  <1>7. /\ s4 \in Seq(Simple) /\ Distinct(s4)
        /\ \A x : Has(s4, x) <=> Has(s3, x) \/ (c4 /\ x = "CredentialAbuse")
    <2>1. ~Has(s3, "CredentialAbuse") /\ s3 \in Seq(Simple) /\ Distinct(s3)
      BY <1>4, <1>5, <1>6
    <2> QED BY <1>1, <1>2, <2>1, WhenAdds
  <1> HIDE DEF s4
  <1>8. Has(s4, "ExcessiveAuthFailures") <=> c1
    <2>1. Has(s1, "ExcessiveAuthFailures") <=> c1
      BY <1>4
    <2>2. Has(s2, "ExcessiveAuthFailures") <=> Has(s1, "ExcessiveAuthFailures")
      BY <1>5
    <2>3. Has(s3, "ExcessiveAuthFailures") <=> Has(s2, "ExcessiveAuthFailures")
      BY <1>6
    <2>4. Has(s4, "ExcessiveAuthFailures") <=> Has(s3, "ExcessiveAuthFailures")
      BY <1>7
    <2> QED BY <2>1, <2>2, <2>3, <2>4
  <1>9. Has(s4, "ImpossibleTravel") <=> c3
    <2>1. ~Has(s1, "ImpossibleTravel")
      BY <1>4
    <2>2. ~Has(s2, "ImpossibleTravel")
      BY <1>5, <2>1
    <2>3. Has(s3, "ImpossibleTravel") <=> c3
      BY <1>6, <2>2
    <2>4. Has(s4, "ImpossibleTravel") <=> Has(s3, "ImpossibleTravel")
      BY <1>7
    <2> QED BY <2>3, <2>4
  <1> QED BY <1>3, <1>7, <1>8, <1>9 DEF c1, c3

LEMMA KindFacts ==
  ASSUME Id!Assumption, NEW e \in Events, NEW p, p.failures \in Nat, p.risk \in Nat
  PROVE  LET fs == Id!Factors(p, e)
             ks == Id!ThreatKinds(p, e)
             theft == Id!Risk(p, e) >= Id!CompromiseRisk
             ex == ~e.success /\ Id!Failures(p, e) >= FailureThreshold
         IN  /\ ks \in Seq(Id!Kinds) /\ Distinct(ks)
             /\ fs \in Seq(Simple) /\ Len(fs) \in Nat
             /\ Len(ks) = Len(fs) + IF theft THEN 1 ELSE 0
             /\ \A j \in 1..Len(fs) : ks[j] = fs[j] /\ ks[j] # "TokenTheft"
             /\ theft => ks[Len(fs) + 1] = "TokenTheft"
             /\ Has(ks, "ExcessiveAuthFailures") <=> ex
             /\ Has(ks, "ImpossibleTravel") <=> Id!Travelled(p, e)
             /\ Has(ks, "TokenTheft") <=> theft
  <1> DEFINE fs == Id!Factors(p, e)
             ks == Id!ThreatKinds(p, e)
             theft == Id!Risk(p, e) >= Id!CompromiseRisk
  <1>1. /\ fs \in Seq(Simple) /\ Distinct(fs) /\ Len(fs) \in Nat
        /\ Has(fs, "ExcessiveAuthFailures") <=> ~e.success /\ Id!Failures(p, e) >= FailureThreshold
        /\ Has(fs, "ImpossibleTravel") <=> Id!Travelled(p, e)
    BY FactorFacts
  <1>2. ks = fs \o Id!When(theft, "TokenTheft")
    BY DEF Id!ThreatKinds
  <1>3. Id!Risk(p, e) \in Nat /\ theft \in BOOLEAN
    BY <1>1 DEF Id!Risk, Id!MaxRisk, Id!RiskPerFactor, Id!CompromiseRisk
  <1> HIDE DEF fs, ks, theft
  <1>4. /\ fs \in Seq(Id!Kinds) /\ "TokenTheft" \in Id!Kinds
        /\ \A j \in 1..Len(fs) : fs[j] # "TokenTheft"
    BY <1>1 DEF Simple, Id!Kinds
  <1>5. /\ ks \in Seq(Id!Kinds) /\ Distinct(ks)
        /\ \A x : Has(ks, x) <=> Has(fs, x) \/ (theft /\ x = "TokenTheft")
        /\ Len(ks) = Len(fs) + IF theft THEN 1 ELSE 0
        /\ \A j \in 1..Len(fs) : ks[j] = fs[j]
        /\ theft => ks[Len(fs) + 1] = "TokenTheft"
    <2>1. ~Has(fs, "TokenTheft")
      BY <1>4 DEF Has
    <2> QED BY <1>1, <1>2, <1>3, <1>4, <2>1, WhenAdds
  <1>6. /\ Has(ks, "ExcessiveAuthFailures") <=> Has(fs, "ExcessiveAuthFailures")
        /\ Has(ks, "ImpossibleTravel") <=> Has(fs, "ImpossibleTravel")
        /\ Has(ks, "TokenTheft") <=> theft
    BY <1>4, <1>5 DEF Has
  <1> QED BY <1>1, <1>4, <1>5, <1>6 DEF fs, ks, theft

-----------------------------------------------------------------------------
(***************************************************************************)
(* What analyze_auth finds in an event, and types.                         *)
(***************************************************************************)
Number(e)       == Len(seen[e.user]) + 1
KindsOf(e)      == Id!ThreatKinds(profile[e.user], e)
Threat(e, kind) == [user |-> e.user, event |-> Number(e), kind |-> kind]
FoundBy(e)      == [k \in 1..Len(KindsOf(e)) |-> Threat(e, KindsOf(e)[k])]

LEMMA EventFacts ==
  ASSUME Id!Assumption, NEW e \in Events
  PROVE  /\ e.user \in Users /\ e.place \in Positions \cup {None} /\ e.at \in Nat
         /\ e.success \in BOOLEAN
  BY DEF Id!Assumption, Id!Event

LEMMA ProfileFacts ==
  ASSUME Id!TypeOK, NEW u \in Users
  PROVE  /\ seen[u] \in Seq(Events) /\ Len(seen[u]) \in Nat
         /\ profile[u].last \in Seq(Nat) /\ profile[u].place \in Positions \cup {None}
         /\ profile[u].failures \in Nat /\ profile[u].risk \in Nat
         /\ profile[u].risk \in 0..Id!MaxRisk
  <1>1. seen[u] \in Seq(Events)
    BY DEF Id!TypeOK
  <1>2. profile[u] \in [last : Seq(Nat), place : Positions \cup {None},
                       failures : Nat, risk : 0..Id!MaxRisk]
    BY DEF Id!TypeOK
  <1>3. 0..Id!MaxRisk \subseteq Nat
    BY DEF Id!MaxRisk
  <1> QED BY <1>1, <1>2, <1>3

LEMMA WorkFacts ==
  ASSUME Id!TypeOK, NEW t \in Threads
  PROVE  /\ work[t].pc \in {"idle", "announce", "suspect"}
         /\ work[t].event \in (Users \X Nat) \cup {<<>>} /\ work[t].pending \in Seq(Id!Threats)
         /\ work[t] = [pc |-> work[t].pc, event |-> work[t].event, pending |-> work[t].pending]
  BY DEF Id!TypeOK

LEMMA FoundFacts ==
  ASSUME Id!Assumption, Id!TypeOK, NEW e \in Events
  PROVE  /\ Number(e) \in Nat \ {0}
         /\ FoundBy(e) \in Seq(Id!Threats) /\ Len(FoundBy(e)) = Len(KindsOf(e))
         /\ \A k \in 1..Len(FoundBy(e)) : FoundBy(e)[k] = Threat(e, KindsOf(e)[k])
         /\ Distinct(FoundBy(e))
         /\ \A kind : Has(FoundBy(e), Threat(e, kind)) <=> Has(KindsOf(e), kind)
         /\ KindsOf(e) \in Seq(Id!Kinds)
  <1>1. e.user \in Users
    BY EventFacts
  <1>2. KindsOf(e) \in Seq(Id!Kinds) /\ Distinct(KindsOf(e))
    BY <1>1, ProfileFacts, KindFacts DEF KindsOf
  <1>3. Number(e) \in Nat \ {0}
    BY <1>1, ProfileFacts DEF Number
  <1>4. \A kind \in Id!Kinds : Threat(e, kind) \in Id!Threats
    BY <1>1, <1>3 DEF Threat, Id!Threats
  <1>5. /\ FoundBy(e) \in Seq(Id!Threats) /\ Len(FoundBy(e)) = Len(KindsOf(e))
        /\ \A k \in 1..Len(FoundBy(e)) : FoundBy(e)[k] = Threat(e, KindsOf(e)[k])
    BY <1>2, <1>4 DEF FoundBy
  <1>6. \A x, y : Threat(e, x) = Threat(e, y) => x = y
    BY DEF Threat
  <1>7. Distinct(FoundBy(e))
    BY <1>2, <1>5, <1>6 DEF Distinct
  <1>8. \A kind : Has(FoundBy(e), Threat(e, kind)) <=> Has(KindsOf(e), kind)
    BY <1>5, <1>6 DEF Has
  <1> QED BY <1>2, <1>3, <1>5, <1>7, <1>8

LEMMA AnalyzeFacts ==
  ASSUME NEW t \in Threads, NEW e \in Events, Id!Analyze(t, e)
  PROVE  /\ Id!At(t, "idle")
         /\ profile' = [profile EXCEPT ![e.user] =
              [last |-> <<e.at>>, place |-> Id!Place(profile[e.user], e),
               failures |-> Id!Failures(profile[e.user], e), risk |-> Id!Risk(profile[e.user], e)]]
         /\ seen' = [seen EXCEPT ![e.user] = Append(@, e)]
         /\ threats' = threats \o FoundBy(e)
         /\ work' = [work EXCEPT ![t] = [pc |-> "announce", event |-> <<e.user, Number(e)>>,
                                         pending |-> FoundBy(e)]]
         /\ stored' = stored /\ feed' = feed
  BY DEF Id!Analyze, FoundBy, Threat, KindsOf, Number

LEMMA RiskType ==
  ASSUME Id!Assumption, Id!TypeOK, NEW e \in Events
  PROVE  LET p == profile[e.user]
             sum == p.risk + Id!RiskPerFactor * Len(Id!Factors(p, e))
         IN  /\ sum \in Nat
             /\ Id!Risk(p, e) = IF sum > Id!MaxRisk THEN Id!MaxRisk ELSE sum
             /\ Id!Risk(p, e) \in 0..Id!MaxRisk
  <1> DEFINE p == profile[e.user]
             n == Len(Id!Factors(p, e))
             sum == p.risk + Id!RiskPerFactor * n
  <1>1. p.failures \in Nat /\ p.risk \in Nat
    BY EventFacts, ProfileFacts
  <1>2. n \in Nat
    BY <1>1, FactorFacts
  <1>3. Id!Risk(p, e) = IF sum > Id!MaxRisk THEN Id!MaxRisk ELSE sum
    BY DEF Id!Risk
  <1> HIDE DEF p, n
  <1>4. sum \in Nat
    BY <1>1, <1>2 DEF Id!RiskPerFactor
  <1> HIDE DEF sum
  <1>5. Id!Risk(p, e) \in 0..Id!MaxRisk
    BY <1>3, <1>4 DEF Id!MaxRisk
  <1> QED BY <1>3, <1>4, <1>5 DEF sum, n, p

Announcements ==
  [kind : {"IdentityThreatDetected", "IdentityCompromiseSuspected"}, threat : Id!Threats]

LEMMA ItdrTypeNext ==
  Id!Assumption /\ Id!TypeOK /\ Numbered /\ Owned /\ [Id!Next]_(Id!vars) => Id!TypeOK'
  <1> SUFFICES ASSUME Id!Assumption, Id!TypeOK, Numbered, Owned, [Id!Next]_(Id!vars)
               PROVE  Id!TypeOK'
    OBVIOUS
  <1>1. ASSUME NEW t \in Threads, NEW e \in Events, Id!Analyze(t, e)
        PROVE  Id!TypeOK'
    <2> DEFINE u == e.user
               q == [last |-> <<e.at>>, place |-> Id!Place(profile[u], e),
                     failures |-> Id!Failures(profile[u], e), risk |-> Id!Risk(profile[u], e)]
               w == [pc |-> "announce", event |-> <<u, Number(e)>>, pending |-> FoundBy(e)]
    <2>1. u \in Users /\ e.place \in Positions \cup {None} /\ <<e.at>> \in Seq(Nat)
      BY EventFacts
    <2>2. Id!Place(profile[u], e) \in Positions \cup {None} /\ Id!Failures(profile[u], e) \in Nat
      BY <2>1, ProfileFacts DEF Id!Place, Id!Failures
    <2>3. q \in [last : Seq(Nat), place : Positions \cup {None}, failures : Nat, risk : 0..Id!MaxRisk]
      BY <2>1, <2>2, RiskType
    <2>4. w \in [pc : {"idle", "announce", "suspect"}, event : (Users \X Nat) \cup {<<>>},
                 pending : Seq(Id!Threats)]
      BY <2>1, FoundFacts
    <2>5. /\ profile' = [profile EXCEPT ![u] = q] /\ seen' = [seen EXCEPT ![u] = Append(@, e)]
          /\ threats' = threats \o FoundBy(e) /\ work' = [work EXCEPT ![t] = w]
          /\ stored' = stored /\ feed' = feed
      BY <1>1, AnalyzeFacts
    <2> HIDE DEF q, w, u
    <2>6. Append(seen[u], e) \in Seq(Events)
      BY <2>1, ProfileFacts
    <2>7. threats' \in Seq(Id!Threats)
      <3>1. threats \in Seq(Id!Threats) /\ FoundBy(e) \in Seq(Id!Threats)
        BY FoundFacts DEF Id!TypeOK
      <3> QED BY <2>5, <3>1, ConcatElements
    <2> QED BY <2>3, <2>4, <2>5, <2>6, <2>7 DEF Id!TypeOK
  <1>2. ASSUME NEW t \in Threads, Id!Announce(t) \/ Id!Suspect(t)
        PROVE  Id!TypeOK'
    <2> DEFINE s == work[t].pending
               x == Head(s)
    <2>1. s \in Seq(Id!Threats) /\ s # <<>>
      BY <1>2, WorkFacts DEF Id!Announce, Id!Suspect, Owned
    <2>2. x \in Id!Threats /\ Tail(s) \in Seq(Id!Threats)
      BY <2>1, HeadTail
    <2>3. feed' = Append(feed, Id!Detected(x)) \/ feed' = Append(feed, Id!Suspected(x))
      BY <1>2 DEF Id!Announce, Id!Suspect
    <2>4. Id!Detected(x) \in Announcements /\ Id!Suspected(x) \in Announcements
      BY <2>2 DEF Id!Detected, Id!Suspected, Announcements
    <2>5. feed \in Seq(Announcements)
      BY DEF Id!TypeOK, Announcements
    <2>6. feed' \in Seq(Announcements)
      BY <2>3, <2>4, <2>5
    <2>7. /\ profile' = profile /\ seen' = seen /\ threats' = threats /\ stored' = stored
          /\ \/ work' = [work EXCEPT ![t].pc = "suspect"]
             \/ work' = [work EXCEPT ![t].pending = Tail(s)]
             \/ work' = [work EXCEPT ![t].pc = "announce", ![t].pending = Tail(s)]
      BY <1>2 DEF Id!Announce, Id!Suspect
    <2> HIDE DEF s, x
    <2>8. work' \in [Threads -> [pc : {"idle", "announce", "suspect"},
                                 event : (Users \X Nat) \cup {<<>>}, pending : Seq(Id!Threats)]]
      <3> DEFINE W == [pc : {"idle", "announce", "suspect"},
                       event : (Users \X Nat) \cup {<<>>}, pending : Seq(Id!Threats)]
      <3>1. work \in [Threads -> W] /\ work[t] \in W
        BY DEF Id!TypeOK
      <3>2. /\ [work[t] EXCEPT !.pc = "suspect"] \in W
            /\ [work[t] EXCEPT !.pending = Tail(s)] \in W
            /\ [work[t] EXCEPT !.pc = "announce", !.pending = Tail(s)] \in W
        BY <2>2, <3>1
      <3> HIDE DEF W
      <3>3. \/ work' = [work EXCEPT ![t] = [work[t] EXCEPT !.pc = "suspect"]]
            \/ work' = [work EXCEPT ![t] = [work[t] EXCEPT !.pending = Tail(s)]]
            \/ work' = [work EXCEPT ![t] = [work[t] EXCEPT !.pc = "announce", !.pending = Tail(s)]]
        BY <2>7
      <3> QED BY <3>1, <3>2, <3>3 DEF W
    <2> QED BY <2>6, <2>7, <2>8 DEF Id!TypeOK, Announcements
  <1>3. ASSUME NEW t \in Threads, Id!Store(t)
        PROVE  Id!TypeOK'
    <2>1. work[t].event \in Users \X Nat
      <3>1. PICK u \in Users : \E n \in 1..Len(seen[u]) : work[t].event = <<u, n>>
        BY <1>3 DEF Id!Store, Id!At, Numbered
      <3>2. Len(seen[u]) \in Nat
        BY ProfileFacts
      <3> QED BY <3>1, <3>2
    <2>2. stored' \in Seq(Users \X Nat)
      BY <1>3, <2>1 DEF Id!Store, Id!TypeOK
    <2>3. Id!Idle \in [pc : {"idle", "announce", "suspect"},
                      event : (Users \X Nat) \cup {<<>>}, pending : Seq(Id!Threats)]
      <3>1. <<>> \in Seq(Id!Threats)
        BY EmptySeq
      <3> QED BY <3>1 DEF Id!Idle
    <2> QED BY <1>3, <2>2, <2>3 DEF Id!Store, Id!TypeOK
  <1>4. CASE UNCHANGED Id!vars
    BY <1>4 DEF Id!vars, Id!TypeOK
  <1> QED BY <1>1, <1>2, <1>3, <1>4 DEF Id!Next, Id!Continue

-----------------------------------------------------------------------------
(***************************************************************************)
(* The steps, one thread at a time.                                        *)
(***************************************************************************)
LEMMA HandsFacts ==
  ASSUME Id!TypeOK, NEW t \in Threads, NEW w, work' = [work EXCEPT ![t] = w]
  PROVE  work'[t] = w /\ \A v \in Threads : v # t => work'[v] = work[v]
  BY DEF Id!TypeOK

LEMMA AnnounceFacts ==
  ASSUME Id!TypeOK, NEW t \in Threads, Id!Announce(t)
  PROVE  LET s == work[t].pending
             x == Head(s)
         IN  /\ s \in Seq(Id!Threats) /\ s # <<>> /\ x \in Id!Threats /\ work[t].pc = "announce"
             /\ feed' = Append(feed, Id!Detected(x))
             /\ UNCHANGED <<profile, seen, threats, stored>>
             /\ \A v \in Threads : v # t => work'[v] = work[v]
             /\ work'[t].event = work[t].event
             /\ x.kind = "TokenTheft" => work'[t].pc = "suspect" /\ work'[t].pending = s
             /\ x.kind # "TokenTheft" => work'[t].pc = "announce" /\ work'[t].pending = Tail(s)
  <1> DEFINE s == work[t].pending
  <1>1. s \in Seq(Id!Threats) /\ s # <<>> /\ Head(s) \in Id!Threats /\ work[t].pc = "announce"
    BY WorkFacts, HeadTail DEF Id!Announce, Id!At
  <1>2. CASE Head(s).kind = "TokenTheft"
    <2>1. work' = [work EXCEPT ![t].pc = "suspect"]
      BY <1>2 DEF Id!Announce
    <2>2. /\ \A v \in Threads : v # t => work'[v] = work[v]
          /\ work'[t].pc = "suspect" /\ work'[t].event = work[t].event /\ work'[t].pending = s
      BY <2>1 DEF Id!TypeOK
    <2> QED BY <1>1, <1>2, <2>2 DEF Id!Announce
  <1>3. CASE Head(s).kind # "TokenTheft"
    <2>1. work' = [work EXCEPT ![t].pending = Tail(s)]
      BY <1>3 DEF Id!Announce
    <2>2. /\ \A v \in Threads : v # t => work'[v] = work[v]
          /\ work'[t].pc = work[t].pc /\ work'[t].event = work[t].event
          /\ work'[t].pending = Tail(s)
      BY <2>1 DEF Id!TypeOK
    <2> QED BY <1>1, <1>3, <2>2 DEF Id!Announce
  <1> QED BY <1>2, <1>3

LEMMA SuspectFacts ==
  ASSUME Id!TypeOK, Owned, NEW t \in Threads, Id!Suspect(t)
  PROVE  LET s == work[t].pending
             x == Head(s)
         IN  /\ s \in Seq(Id!Threats) /\ s # <<>> /\ x \in Id!Threats /\ work[t].pc = "suspect"
             /\ x.kind = "TokenTheft"
             /\ feed' = Append(feed, Id!Suspected(x))
             /\ UNCHANGED <<profile, seen, threats, stored>>
             /\ \A v \in Threads : v # t => work'[v] = work[v]
             /\ work'[t].event = work[t].event
             /\ work'[t].pc = "announce" /\ work'[t].pending = Tail(s)
  <1> DEFINE s == work[t].pending
  <1>1. /\ s \in Seq(Id!Threats) /\ s # <<>> /\ work[t].pc = "suspect"
        /\ Head(s).kind = "TokenTheft"
    BY WorkFacts DEF Id!Suspect, Id!At, Owned
  <1>2. Head(s) \in Id!Threats
    BY <1>1, HeadTail
  <1>3. work' = [work EXCEPT ![t].pc = "announce", ![t].pending = Tail(s)]
    BY DEF Id!Suspect
  <1>4. /\ \A v \in Threads : v # t => work'[v] = work[v]
        /\ work'[t].pc = "announce" /\ work'[t].event = work[t].event
        /\ work'[t].pending = Tail(s)
    BY <1>3 DEF Id!TypeOK
  <1> QED BY <1>1, <1>2, <1>4 DEF Id!Suspect

LEMMA StoreFacts ==
  ASSUME Id!TypeOK, NEW t \in Threads, Id!Store(t)
  PROVE  /\ work[t].pc = "announce" /\ work[t].pending = <<>>
         /\ stored' = Append(stored, work[t].event)
         /\ UNCHANGED <<profile, seen, threats, feed>>
         /\ \A v \in Threads : v # t => work'[v] = work[v]
         /\ work'[t].pc = "idle" /\ work'[t].pending = <<>>
  <1>1. work' = [work EXCEPT ![t] = Id!Idle]
    BY DEF Id!Store
  <1>2. work'[t] = Id!Idle /\ \A v \in Threads : v # t => work'[v] = work[v]
    BY <1>1, HandsFacts
  <1> QED BY <1>2 DEF Id!Store, Id!At, Id!Idle

LEMMA SeenFacts ==
  ASSUME Id!Assumption, Id!TypeOK, NEW t \in Threads, NEW e \in Events, Id!Analyze(t, e)
  PROVE  /\ \A u \in Users : u # e.user => seen'[u] = seen[u]
         /\ seen'[e.user] = Append(seen[e.user], e) /\ Len(seen'[e.user]) = Number(e)
         /\ \A u \in Users : \A n : Known(u, n) => Known(u, n)' /\ seen'[u][n] = seen[u][n]
         /\ Number(e) \in 1..Len(seen'[e.user]) /\ ~Known(e.user, Number(e))
         /\ seen'[e.user][Number(e)] = e
         /\ \A u \in Users : \A n : Known(u, n)' => Known(u, n) \/ (u = e.user /\ n = Number(e))
  <1>1. seen' = [seen EXCEPT ![e.user] = Append(@, e)] /\ e.user \in Users
    BY AnalyzeFacts, EventFacts
  <1>2. \A u \in Users : seen[u] \in Seq(Events) /\ Len(seen[u]) \in Nat
    BY ProfileFacts
  <1>3. /\ \A u \in Users : u # e.user => seen'[u] = seen[u]
        /\ seen'[e.user] = Append(seen[e.user], e)
    BY <1>1 DEF Id!TypeOK
  <1>4. /\ Len(seen'[e.user]) = Number(e) /\ seen'[e.user][Number(e)] = e
        /\ \A n \in 1..Len(seen[e.user]) : seen'[e.user][n] = seen[e.user][n]
        /\ Number(e) = Len(seen[e.user]) + 1
    BY <1>1, <1>2, <1>3 DEF Number
  <1>5. Number(e) \in 1..Len(seen'[e.user]) /\ ~Known(e.user, Number(e))
    BY <1>1, <1>2, <1>4 DEF Known
  <1>6. ASSUME NEW u \in Users, NEW n
        PROVE  /\ Known(u, n) => Known(u, n)' /\ seen'[u][n] = seen[u][n]
               /\ Known(u, n)' => Known(u, n) \/ (u = e.user /\ n = Number(e))
    <2>1. CASE u = e.user
      BY <1>1, <1>2, <1>4, <2>1 DEF Known
    <2>2. CASE u # e.user
      BY <1>3, <2>2 DEF Known
    <2> QED BY <2>1, <2>2
  <1> QED BY <1>3, <1>4, <1>5, <1>6

(* The threats that are stored, announced or to be announced.              *)
LEMMA ElementFacts ==
  ASSUME Id!TypeOK
  PROVE  /\ \A k \in 1..Len(threats) : threats[k] \in Id!Threats
         /\ \A k \in 1..Len(feed) : feed[k] \in Announcements /\ feed[k].threat \in Id!Threats
         /\ \A k \in 1..Len(stored) : stored[k] \in Users \X Nat
         /\ \A x \in Id!Threats : x.user \in Users /\ x.event \in Nat /\ x.kind \in Id!Kinds
                                 /\ x = [user |-> x.user, event |-> x.event, kind |-> x.kind]
         /\ threats \in Seq(Id!Threats) /\ feed \in Seq(Announcements)
         /\ stored \in Seq(Users \X Nat)
  <1>1. /\ threats \in Seq(Id!Threats) /\ feed \in Seq(Announcements)
        /\ stored \in Seq(Users \X Nat)
    BY DEF Id!TypeOK, Announcements
  <1>2. \A k \in 1..Len(feed) : feed[k] \in Announcements
    BY <1>1
  <1>3. \A a \in Announcements : a.threat \in Id!Threats
    BY DEF Announcements
  <1>4. \A k \in 1..Len(threats) : threats[k] \in Id!Threats
    BY <1>1
  <1>5. \A k \in 1..Len(stored) : stored[k] \in Users \X Nat
    BY <1>1
  <1>6. \A x \in Id!Threats : /\ x.user \in Users /\ x.event \in Nat /\ x.kind \in Id!Kinds
                              /\ x = [user |-> x.user, event |-> x.event, kind |-> x.kind]
    BY DEF Id!Threats
  <1> QED BY <1>1, <1>2, <1>3, <1>4, <1>5, <1>6

LEMMA NumberedNext ==
  Id!Assumption /\ Id!TypeOK /\ Numbered /\ Owned /\ [Id!Next]_(Id!vars) => Numbered'
  <1> SUFFICES ASSUME Id!Assumption, Id!TypeOK, Numbered, Owned, [Id!Next]_(Id!vars)
               PROVE  Numbered'
    OBVIOUS
  <1>1. ASSUME NEW t \in Threads, NEW e \in Events, Id!Analyze(t, e)
        PROVE  Numbered'
    <2>1. \A u \in Users : \A n : Known(u, n) => Known(u, n)'
      BY <1>1, SeenFacts
    <2>2. e.user \in Users /\ Number(e) \in 1..Len(seen'[e.user])
      BY <1>1, SeenFacts, EventFacts
    <2>3. /\ threats' = threats \o FoundBy(e) /\ stored' = stored /\ feed' = feed
          /\ work' = [work EXCEPT ![t] = [pc |-> "announce", event |-> <<e.user, Number(e)>>,
                                          pending |-> FoundBy(e)]]
      BY <1>1, AnalyzeFacts
    <2>4. \A k \in 1..Len(threats') : threats'[k].event \in 1..Len(seen'[threats'[k].user])
      <3>1. TAKE k \in 1..Len(threats')
      <3>2. /\ threats \in Seq(Id!Threats) /\ FoundBy(e) \in Seq(Id!Threats)
            /\ \A j \in 1..Len(FoundBy(e)) : FoundBy(e)[j] = Threat(e, KindsOf(e)[j])
        BY FoundFacts, ElementFacts
      <3>3. k \in 1..Len(threats) \/ k - Len(threats) \in 1..Len(FoundBy(e))
        BY <2>3, <3>2, ConcatElements
      <3>4. CASE k \in 1..Len(threats)
        <4>1. threats'[k] = threats[k] /\ threats[k].user \in Users
          BY <2>3, <3>2, <3>4, ConcatElements, ElementFacts
        <4> QED BY <2>1, <3>4, <4>1 DEF Numbered, Known
      <3>5. CASE k - Len(threats) \in 1..Len(FoundBy(e))
        <4>1. threats'[Len(threats) + (k - Len(threats))] = FoundBy(e)[k - Len(threats)]
          BY <2>3, <3>2, <3>5, ConcatElements
        <4>2. Len(threats) + (k - Len(threats)) = k
          BY <3>2
        <4>3. threats'[k] = Threat(e, KindsOf(e)[k - Len(threats)])
          BY <3>2, <3>5, <4>1, <4>2
        <4>4. threats'[k].user = e.user /\ threats'[k].event = Number(e)
          BY <4>3 DEF Threat
        <4> QED BY <2>2, <4>4
      <3> QED BY <3>3, <3>4, <3>5
    <2>5. \A k \in 1..Len(feed') : feed'[k].threat.event \in 1..Len(seen'[feed'[k].threat.user])
      BY <2>1, <2>3, ElementFacts DEF Numbered, Known
    <2>6. \A k \in 1..Len(stored') : stored'[k][2] \in 1..Len(seen'[stored'[k][1]])
      BY <2>1, <2>3, ElementFacts DEF Numbered, Known
    <2>7. ASSUME NEW v \in Threads, work'[v].pc # "idle"
          PROVE  \E u \in Users : \E n \in 1..Len(seen'[u]) : work'[v].event = <<u, n>>
      <3>1. CASE v = t
        <4> DEFINE w == [pc |-> "announce", event |-> <<e.user, Number(e)>>, pending |-> FoundBy(e)]
        <4>1. work' = [work EXCEPT ![t] = w] /\ w.event = <<e.user, Number(e)>>
          BY <2>3
        <4> HIDE DEF w
        <4>2. work'[t] = w
          BY <4>1, HandsFacts
        <4> QED BY <2>2, <3>1, <4>1, <4>2
      <3>2. CASE v # t
        <4>1. work'[v] = work[v]
          BY <2>3, <3>2, HandsFacts
        <4>2. PICK u \in Users : \E n \in 1..Len(seen[u]) : work[v].event = <<u, n>>
          BY <2>7, <4>1 DEF Numbered, Id!At
        <4> QED BY <2>1, <4>1, <4>2 DEF Known
      <3> QED BY <3>1, <3>2
    <2> QED BY <2>4, <2>5, <2>6, <2>7 DEF Numbered, Known, Id!At
  <1>2. ASSUME NEW t \in Threads, Id!Announce(t) \/ Id!Suspect(t)
        PROVE  Numbered'
    <2> DEFINE x == Head(work[t].pending)
    <2>1. /\ work[t].pending \in Seq(Id!Threats) /\ work[t].pending # <<>>
          /\ work[t].pc # "idle"
          /\ \E a \in Announcements : a.threat = x /\ feed' = Append(feed, a)
          /\ threats' = threats /\ stored' = stored /\ seen' = seen
          /\ \A v \in Threads : v # t => work'[v] = work[v]
          /\ work'[t].event = work[t].event
      <3>1. CASE Id!Announce(t)
        <4>1. Id!Detected(x) \in Announcements /\ Id!Detected(x).threat = x
          BY <3>1, AnnounceFacts DEF Id!Detected, Announcements
        <4> QED BY <3>1, <4>1, AnnounceFacts
      <3>2. CASE Id!Suspect(t)
        <4>1. Id!Suspected(x) \in Announcements /\ Id!Suspected(x).threat = x
          BY <3>2, SuspectFacts DEF Id!Suspected, Announcements
        <4> QED BY <3>2, <4>1, SuspectFacts
      <3> QED BY <1>2, <3>1, <3>2
    <2>2. Known(x.user, x.event)
      <3>1. work[t].event = <<x.user, x.event>>
        BY <2>1, HeadTail DEF Owned
      <3>2. PICK u \in Users : \E n \in 1..Len(seen[u]) : work[t].event = <<u, n>>
        BY <2>1 DEF Numbered, Id!At
      <3> QED BY <3>1, <3>2 DEF Known
    <2>3. PICK a \in Announcements : a.threat = x /\ feed' = Append(feed, a)
      BY <2>1
    <2>4. \A k \in 1..Len(feed') : feed'[k].threat = x \/ (k \in 1..Len(feed) /\ feed'[k] = feed[k])
      BY <2>3, ElementFacts
    <2>5. \A k \in 1..Len(feed') : feed'[k].threat.event \in 1..Len(seen'[feed'[k].threat.user])
      BY <2>1, <2>2, <2>4 DEF Numbered, Known
    <2> QED BY <2>1, <2>5 DEF Numbered, Known, Id!At
  <1>3. ASSUME NEW t \in Threads, Id!Store(t)
        PROVE  Numbered'
    <2>1. PICK u \in Users : \E n \in 1..Len(seen[u]) : work[t].event = <<u, n>>
      BY <1>3, StoreFacts DEF Numbered, Id!At
    <2>2. stored' = Append(stored, work[t].event) /\ work[t].event \in Users \X Nat
      BY <1>3, <2>1, StoreFacts, ProfileFacts
    <2>3. Known(work[t].event[1], work[t].event[2])
      BY <2>1 DEF Known
    <2>4. \A k \in 1..Len(stored') :
            stored'[k] = work[t].event \/ (k \in 1..Len(stored) /\ stored'[k] = stored[k])
      BY <2>2, ElementFacts
    <2>5. \A k \in 1..Len(stored') : stored'[k][2] \in 1..Len(seen'[stored'[k][1]])
      BY <1>3, <2>3, <2>4, StoreFacts DEF Numbered, Known
    <2> QED BY <1>3, <2>5, StoreFacts DEF Numbered, Known, Id!At
  <1>4. CASE UNCHANGED Id!vars
    BY <1>4 DEF Id!vars, Numbered, Known, Id!At
  <1> QED BY <1>1, <1>2, <1>3, <1>4 DEF Id!Next, Id!Continue

(* The work of a thread, as it should be; Owned says it of all of them.    *)
InOrder(w) ==
  /\ w.pc = "idle" => w.pending = <<>>
  /\ w.pc = "suspect" => w.pending # <<>> /\ Head(w.pending).kind = "TokenTheft"
  /\ \A j \in 1..Len(w.pending) : w.event = <<w.pending[j].user, w.pending[j].event>>
  /\ Distinct(w.pending)

LEMMA OwnedMeans ==
  Owned <=> /\ \A t \in Threads : InOrder(work[t])
            /\ \A t \in Threads : ~Id!At(t, "idle") =>
                 \A k \in 1..Len(stored) : stored[k] # work[t].event
            /\ \A t, v \in Threads :
                 ~Id!At(t, "idle") /\ ~Id!At(v, "idle") /\ work[t].event = work[v].event => t = v
  BY DEF Owned, InOrder, Distinct, Id!At

LEMMA OwnedNext ==
  Id!Assumption /\ Id!TypeOK /\ Numbered /\ Owned /\ [Id!Next]_(Id!vars) => Owned'
  <1> SUFFICES ASSUME Id!Assumption, Id!TypeOK, Numbered, Owned, [Id!Next]_(Id!vars)
               PROVE  Owned'
    OBVIOUS
  <1> USE DEF Id!At
  <1>1. /\ \A t \in Threads : InOrder(work[t])
        /\ \A t \in Threads : work[t].pc # "idle" =>
             \A k \in 1..Len(stored) : stored[k] # work[t].event
        /\ \A t, v \in Threads :
             work[t].pc # "idle" /\ work[v].pc # "idle" /\ work[t].event = work[v].event => t = v
    BY OwnedMeans
  <1>2. ASSUME NEW t \in Threads, \A v \in Threads : v # t => work'[v] = work[v],
               InOrder(work'[t]),
               work'[t].pc # "idle" => \A k \in 1..Len(stored') : stored'[k] # work'[t].event,
               \A v \in Threads \ {t} : work[v].pc # "idle" =>
                 /\ work'[t].pc # "idle" => work[v].event # work'[t].event
                 /\ \A k \in 1..Len(stored') : stored'[k] # work[v].event
        PROVE  Owned'
    <2>1. \A v \in Threads : InOrder(work'[v])
      BY <1>1, <1>2
    <2>2. \A v \in Threads : work'[v].pc # "idle" =>
            \A k \in 1..Len(stored') : stored'[k] # work'[v].event
      BY <1>1, <1>2
    <2>3. \A u, v \in Threads :
            work'[u].pc # "idle" /\ work'[v].pc # "idle" /\ work'[u].event = work'[v].event => u = v
      BY <1>1, <1>2
    <2> QED BY <2>1, <2>2, <2>3 DEF Owned, InOrder, Distinct
  <1>3. ASSUME NEW t \in Threads, NEW e \in Events, Id!Analyze(t, e)
        PROVE  Owned'
    <2> DEFINE w == [pc |-> "announce", event |-> <<e.user, Number(e)>>, pending |-> FoundBy(e)]
    <2>1. /\ stored' = stored /\ work'[t] = w
          /\ \A v \in Threads : v # t => work'[v] = work[v]
      <3>1. work' = [work EXCEPT ![t] = w] /\ stored' = stored
        BY <1>3, AnalyzeFacts
      <3> HIDE DEF w
      <3> QED BY <3>1, HandsFacts
    <2>2. InOrder(w)
      <3>1. /\ \A j \in 1..Len(FoundBy(e)) : FoundBy(e)[j] = Threat(e, KindsOf(e)[j])
            /\ Distinct(FoundBy(e))
        BY FoundFacts
      <3>2. \A j \in 1..Len(FoundBy(e)) :
              <<e.user, Number(e)>> = <<FoundBy(e)[j].user, FoundBy(e)[j].event>>
        <4>1. \A kind : Threat(e, kind).user = e.user /\ Threat(e, kind).event = Number(e)
          BY DEF Threat
        <4> QED BY <3>1, <4>1
      <3> QED BY <3>1, <3>2 DEF InOrder
    <2>3. ~Known(e.user, Number(e))
      BY <1>3, SeenFacts
    <2>4. \A k \in 1..Len(stored) : stored[k] # <<e.user, Number(e)>>
      BY <2>3, ElementFacts DEF Numbered
    <2>5. \A v \in Threads : work[v].pc # "idle" => work[v].event # <<e.user, Number(e)>>
      BY <2>3 DEF Numbered, Known
    <2> HIDE DEF w
    <2>6. w.event = <<e.user, Number(e)>>
      BY DEF w
    <2> QED BY <1>1, <1>2, <2>1, <2>2, <2>4, <2>5, <2>6
  <1>4. ASSUME NEW t \in Threads, Id!Announce(t) \/ Id!Suspect(t)
        PROVE  Owned'
    <2> DEFINE s == work[t].pending
    <2>1. /\ s \in Seq(Id!Threats) /\ s # <<>> /\ stored' = stored /\ work[t].pc # "idle"
          /\ \A v \in Threads : v # t => work'[v] = work[v]
          /\ work'[t].event = work[t].event
          /\ \/ /\ work'[t].pc = "suspect" /\ work'[t].pending = s
                /\ Head(s).kind = "TokenTheft"
             \/ work'[t].pc = "announce" /\ work'[t].pending = Tail(s)
      BY <1>4, AnnounceFacts, SuspectFacts
    <2>2. InOrder(work'[t])
      <3>1. /\ \A j \in 1..Len(s) : work[t].event = <<s[j].user, s[j].event>>
            /\ Distinct(s)
        BY <1>1 DEF InOrder
      <3> HIDE DEF s
      <3>2. /\ \A j \in 1..Len(Tail(s)) : work[t].event = <<Tail(s)[j].user, Tail(s)[j].event>>
            /\ Distinct(Tail(s))
        <4>1. /\ \A n \in 1..Len(Tail(s)) : n + 1 \in 1..Len(s) /\ Tail(s)[n] = s[n + 1]
              /\ Len(Tail(s)) \in Nat
          BY <2>1, HeadTail
        <4>2. \A i, j \in 1..Len(Tail(s)) : i + 1 = j + 1 => i = j
          BY <4>1
        <4> QED BY <3>1, <4>1, <4>2 DEF Distinct
      <3> QED BY <2>1, <3>1, <3>2 DEF InOrder
    <2> QED BY <1>1, <1>2, <2>1, <2>2
  <1>5. ASSUME NEW t \in Threads, Id!Store(t)
        PROVE  Owned'
    <2>1. /\ work[t].pc = "announce"
          /\ stored' = Append(stored, work[t].event)
          /\ \A v \in Threads : v # t => work'[v] = work[v]
          /\ work'[t].pc = "idle" /\ work'[t].pending = <<>>
      BY <1>5, StoreFacts
    <2>2. InOrder(work'[t])
      BY <2>1 DEF InOrder, Distinct
    <2>3. work[t].event \in Users \X Nat
      <3>1. PICK u \in Users : \E n \in 1..Len(seen[u]) : work[t].event = <<u, n>>
        BY <2>1 DEF Numbered
      <3> QED BY <3>1, ProfileFacts
    <2>4. \A k \in 1..Len(stored') :
            stored'[k] = work[t].event \/ (k \in 1..Len(stored) /\ stored'[k] = stored[k])
      BY <2>1, <2>3, ElementFacts
    <2>5. \A v \in Threads \ {t} : work[v].pc # "idle" =>
            \A k \in 1..Len(stored') : stored'[k] # work[v].event
      BY <1>1, <2>1, <2>4
    <2> QED BY <1>2, <2>1, <2>2, <2>5
  <1>6. CASE UNCHANGED Id!vars
    BY <1>6 DEF Id!vars, Owned
  <1> QED BY <1>3, <1>4, <1>5, <1>6 DEF Id!Next, Id!Continue

-----------------------------------------------------------------------------
(***************************************************************************)
(* What has been announced.                                                *)
(***************************************************************************)
LEMMA SameCount == \A S : Id!Cardinality(S) = Cardinality(S)
  BY DEF Id!Cardinality, Cardinality

LEMMA TimesFacts ==
  ASSUME Id!TypeOK, NEW x
  PROVE  /\ Id!Times(x) = Cardinality(Places(feed, {x})) /\ Id!Times(x) \in Nat
         /\ (\A k \in 1..Len(feed) : feed[k] # x) => Id!Times(x) = 0
         /\ \A a \in Announcements : feed' = Append(feed, a) =>
              Id!Times(x)' = Id!Times(x) + (IF a = x THEN 1 ELSE 0)
  <1>1. feed \in Seq(Announcements)
    BY ElementFacts
  <1>2. /\ {k \in 1..Len(feed) : feed[k] = x} = Places(feed, {x})
        /\ {k \in 1..Len(feed') : feed'[k] = x} = Places(feed', {x})
    BY DEF Places
  <1>3. Id!Times(x) = Cardinality(Places(feed, {x}))
    BY <1>2, SameCount DEF Id!Times
  <1>4. Id!Times(x)' = Cardinality(Places(feed', {x}))
    BY <1>2, SameCount DEF Id!Times
  <1>5. Cardinality(Places(feed, {x})) \in Nat
    BY <1>1, PlacesFinite
  <1>6. ASSUME \A k \in 1..Len(feed) : feed[k] # x
        PROVE  Cardinality(Places(feed, {x})) = 0
    <2>1. Places(feed, {x}) = {}
      BY <1>6 DEF Places
    <2> QED BY <2>1, FS_EmptySet
  <1>7. ASSUME NEW a \in Announcements, feed' = Append(feed, a)
        PROVE  Cardinality(Places(feed', {x}))
                 = Cardinality(Places(feed, {x})) + (IF a = x THEN 1 ELSE 0)
    <2>1. Cardinality(Places(Append(feed, a), {x}))
            = Cardinality(Places(feed, {x})) + (IF a \in {x} THEN 1 ELSE 0)
      BY <1>1, PlacesAppend
    <2>2. a \in {x} <=> a = x
      OBVIOUS
    <2> QED BY <1>7, <2>1, <2>2
  <1> QED BY <1>3, <1>4, <1>5, <1>6, <1>7

Waiting(t, x) == Pending(t, x) /\ ~Suspecting(t, x)
ToldOf(x) ==
  /\ Id!Times(Id!Detected(x)) = IF \E t \in Threads : Waiting(t, x) THEN 0 ELSE 1
  /\ Id!Times(Id!Suspected(x)) =
       IF x.kind = "TokenTheft" /\ ~\E t \in Threads : Pending(t, x) THEN 1 ELSE 0

LEMMA ToldMeans == Told <=> \A k \in 1..Len(threats) : ToldOf(threats[k])
  BY DEF Told, ToldOf, Waiting

LEMMA ToldAfter ==
  ASSUME \A x : Has(threats', x) => ToldOf(x)'
  PROVE  Told'
  BY DEF Has, Told, ToldOf, Waiting, Pending, Suspecting, Id!At, Id!Times, Id!Detected, Id!Suspected

(* A threat is in the hands of one thread at most.                         *)
LEMMA OneHand ==
  ASSUME Owned, NEW x, NEW t \in Threads, Pending(t, x)
  PROVE  /\ work[t].pc # "idle" /\ work[t].event = <<x.user, x.event>>
         /\ \A v \in Threads : Pending(v, x) => v = t
  <1>1. \A v \in Threads : Pending(v, x) =>
          work[v].pc # "idle" /\ work[v].event = <<x.user, x.event>>
    <2>1. \A v \in Threads : InOrder(work[v])
      BY OwnedMeans
    <2> QED BY <2>1 DEF Pending, InOrder
  <1>2. \A v \in Threads : work[t].pc # "idle" /\ work[v].pc # "idle"
                           /\ work[t].event = work[v].event => t = v
    BY OwnedMeans DEF Id!At
  <1> QED BY <1>1, <1>2

LEMMA AnnouncementFacts ==
  /\ \A x \in Id!Threats : /\ Id!Detected(x) \in Announcements /\ Id!Suspected(x) \in Announcements
                          /\ Id!Detected(x).threat = x /\ Id!Suspected(x).threat = x
  /\ \A x, y : /\ Id!Detected(x) = Id!Detected(y) => x = y
               /\ Id!Suspected(x) = Id!Suspected(y) => x = y
               /\ Id!Detected(x) # Id!Suspected(y)
  BY DEF Id!Detected, Id!Suspected, Announcements

(* A step that announces nothing and leaves who waits for what.            *)
LEMMA ToldSame ==
  ASSUME NEW x, ToldOf(x), feed' = feed,
         \A t \in Threads : (Pending(t, x)' <=> Pending(t, x)) /\ (Waiting(t, x)' <=> Waiting(t, x))
  PROVE  ToldOf(x)'
  <1>1. \A a : Id!Times(a)' = Id!Times(a)
    BY DEF Id!Times
  <1>2. Id!Times(Id!Detected(x))' = Id!Times(Id!Detected(x)) /\ Id!Times(Id!Suspected(x))' = Id!Times(Id!Suspected(x))
    BY <1>1
  <1> QED BY <1>2 DEF ToldOf

(* One announcement more, and the hands of a thread before one.            *)
LEMMA FeedAfter ==
  ASSUME Id!TypeOK, NEW y \in Id!Threats, NEW x
  PROVE  /\ Id!Times(Id!Detected(x)) \in Nat /\ Id!Times(Id!Suspected(x)) \in Nat
         /\ feed' = Append(feed, Id!Detected(y)) =>
              /\ Id!Times(Id!Detected(x))' = Id!Times(Id!Detected(x)) + (IF y = x THEN 1 ELSE 0)
              /\ Id!Times(Id!Suspected(x))' = Id!Times(Id!Suspected(x))
         /\ feed' = Append(feed, Id!Suspected(y)) =>
              /\ Id!Times(Id!Suspected(x))' = Id!Times(Id!Suspected(x)) + (IF y = x THEN 1 ELSE 0)
              /\ Id!Times(Id!Detected(x))' = Id!Times(Id!Detected(x))
  <1>1. /\ Id!Detected(y) \in Announcements /\ Id!Suspected(y) \in Announcements
        /\ Id!Detected(y) = Id!Detected(x) <=> y = x
        /\ Id!Suspected(y) = Id!Suspected(x) <=> y = x
        /\ Id!Detected(y) # Id!Suspected(x) /\ Id!Suspected(y) # Id!Detected(x)
    BY AnnouncementFacts
  <1>2. \A z : /\ Id!Times(z) \in Nat
               /\ \A a \in Announcements : feed' = Append(feed, a) =>
                    Id!Times(z)' = Id!Times(z) + (IF a = z THEN 1 ELSE 0)
    BY TimesFacts
  <1> QED BY <1>1, <1>2

LEMMA HandAfter ==
  ASSUME Id!TypeOK, Owned, NEW t \in Threads, work[t].pending # <<>>
  PROVE  LET s == work[t].pending
         IN  /\ \A x : Pending(t, x) <=> x = Head(s) \/ Has(Tail(s), x)
             /\ ~Has(Tail(s), Head(s))
  <1> DEFINE s == work[t].pending
  <1>1. s \in Seq(Id!Threats) /\ Distinct(s)
    BY WorkFacts, OwnedMeans DEF InOrder
  <1>2. \A x : Pending(t, x) <=> Has(s, x)
    BY DEF Pending, Has
  <1>3. s # <<>>
    OBVIOUS
  <1> HIDE DEF s
  <1>4. /\ Head(s) = s[1] /\ 1 \in 1..Len(s)
        /\ \A n \in 1..Len(Tail(s)) : n + 1 \in 1..Len(s) /\ Tail(s)[n] = s[n + 1] /\ n + 1 # 1
        /\ \A n \in 1..Len(s) : n # 1 => n - 1 \in 1..Len(Tail(s)) /\ Tail(s)[n - 1] = s[n]
    BY <1>1, <1>3, HeadTail
  <1>5. \A x : Has(s, x) <=> x = Head(s) \/ Has(Tail(s), x)
    BY <1>4 DEF Has
  <1>6. ~Has(Tail(s), Head(s))
    BY <1>1, <1>4 DEF Has, Distinct
  <1> QED BY <1>2, <1>5, <1>6 DEF s

LEMMA ToldNext ==
  Id!Assumption /\ Id!TypeOK /\ Numbered /\ Owned /\ Told /\ [Id!Next]_(Id!vars) => Told'
  <1> SUFFICES ASSUME Id!Assumption, Id!TypeOK, Numbered, Owned, Told, [Id!Next]_(Id!vars)
               PROVE  Told'
    OBVIOUS
  <1>0. \A k \in 1..Len(threats) : ToldOf(threats[k])
    BY ToldMeans
  <1>1. ASSUME NEW t \in Threads, NEW e \in Events, Id!Analyze(t, e)
        PROVE  Told'
    <2> DEFINE w == [pc |-> "announce", event |-> <<e.user, Number(e)>>, pending |-> FoundBy(e)]
    <2>1. /\ work'[t].pc = "announce" /\ work'[t].pending = FoundBy(e)
          /\ \A v \in Threads : v # t => work'[v] = work[v]
      <3>1. work' = [work EXCEPT ![t] = w]
        BY <1>1, AnalyzeFacts
      <3>2. w.pc = "announce" /\ w.pending = FoundBy(e)
        OBVIOUS
      <3> HIDE DEF w
      <3> QED BY <3>1, <3>2, HandsFacts
    <2>2. /\ threats' = threats \o FoundBy(e) /\ feed' = feed
          /\ work[t].pc = "idle" /\ work[t].pending = <<>>
      BY <1>1, AnalyzeFacts DEF Owned, Id!At
    <2>3. ~Known(e.user, Number(e))
      BY <1>1, SeenFacts
    <2>4. \A kind : Threat(e, kind).user = e.user /\ Threat(e, kind).event = Number(e)
      BY DEF Threat
    <2>5. \A k \in 1..Len(FoundBy(e)) : FoundBy(e)[k] = Threat(e, KindsOf(e)[k])
      BY FoundFacts
    <2>6. ASSUME NEW x, ToldOf(x), Known(x.user, x.event)
          PROVE  ToldOf(x)'
      <3>1. \A v \in Threads : v # t =>
              (Pending(v, x)' <=> Pending(v, x)) /\ (Waiting(v, x)' <=> Waiting(v, x))
        BY <2>1 DEF Pending, Waiting, Suspecting, Id!At
      <3>2. ~Pending(t, x)
        BY <2>2 DEF Pending
      <3>3. ~Pending(t, x)'
        BY <2>1, <2>3, <2>4, <2>5, <2>6 DEF Pending
      <3> QED BY <2>2, <2>6, <3>1, <3>2, <3>3, ToldSame DEF Waiting
    <2>7. ASSUME NEW k \in 1..Len(FoundBy(e)), NEW x, x = FoundBy(e)[k]
          PROVE  ToldOf(x)'
      <3>1. x.user = e.user /\ x.event = Number(e) /\ x \in Id!Threats
        BY <2>4, <2>5, <2>7, FoundFacts
      <3>2. \A j \in 1..Len(feed) : feed[j].threat # x
        BY <2>3, <3>1 DEF Numbered
      <3>3. \A j \in 1..Len(feed) : feed[j] # Id!Detected(x) /\ feed[j] # Id!Suspected(x)
        BY <3>1, <3>2, AnnouncementFacts
      <3>4. Id!Times(Id!Detected(x)) = 0 /\ Id!Times(Id!Suspected(x)) = 0
        BY <3>3, TimesFacts
      <3>5. \A a : Id!Times(a)' = Id!Times(a)
        BY <2>2 DEF Id!Times
      <3>6. Pending(t, x)' /\ Waiting(t, x)'
        BY <2>1, <2>7 DEF Pending, Waiting, Suspecting, Id!At
      <3> QED BY <3>4, <3>5, <3>6 DEF ToldOf
    <2>8. ASSUME NEW x, NEW k \in 1..Len(threats'), threats'[k] = x
          PROVE  ToldOf(x)'
      <3>1. threats \in Seq(Id!Threats) /\ FoundBy(e) \in Seq(Id!Threats)
        BY FoundFacts, ElementFacts
      <3>2. k \in 1..Len(threats) \/ k - Len(threats) \in 1..Len(FoundBy(e))
        BY <2>2, <3>1, ConcatElements
      <3>3. CASE k \in 1..Len(threats)
        <4>1. x = threats[k]
          BY <2>2, <2>8, <3>1, <3>3, ConcatElements
        <4>2. ToldOf(x) /\ Known(x.user, x.event)
          BY <1>0, <3>3, <4>1 DEF Numbered
        <4> QED BY <2>6, <4>2
      <3>4. CASE k - Len(threats) \in 1..Len(FoundBy(e))
        <4>1. threats'[Len(threats) + (k - Len(threats))] = FoundBy(e)[k - Len(threats)]
          BY <2>2, <3>1, <3>4, ConcatElements
        <4>2. Len(threats) + (k - Len(threats)) = k
          BY <3>1
        <4> QED BY <2>7, <2>8, <3>4, <4>1, <4>2
      <3> QED BY <3>2, <3>3, <3>4
    <2> QED BY <2>8, ToldAfter DEF Has
  <1>2. ASSUME NEW t \in Threads, Id!Announce(t)
        PROVE  Told'
    <2> DEFINE s == work[t].pending
               y == Head(s)
    <2>1. /\ s \in Seq(Id!Threats) /\ s # <<>> /\ y \in Id!Threats /\ work[t].pc = "announce"
          /\ feed' = Append(feed, Id!Detected(y)) /\ threats' = threats
          /\ \A v \in Threads : v # t => work'[v] = work[v]
          /\ y.kind = "TokenTheft" => work'[t].pc = "suspect" /\ work'[t].pending = s
          /\ y.kind # "TokenTheft" => work'[t].pc = "announce" /\ work'[t].pending = Tail(s)
      BY <1>2, AnnounceFacts
    <2>2. \A x : Id!Times(Id!Detected(x))' = Id!Times(Id!Detected(x)) + (IF y = x THEN 1 ELSE 0)
                 /\ Id!Times(Id!Suspected(x))' = Id!Times(Id!Suspected(x))
                 /\ Id!Times(Id!Detected(x)) \in Nat /\ Id!Times(Id!Suspected(x)) \in Nat
      BY <2>1, FeedAfter
    <2>3. /\ \A x : Pending(t, x) <=> x = y \/ Has(Tail(s), x)
          /\ ~Has(Tail(s), y)
      BY <2>1, HandAfter
    <2>4. /\ \A x : y.kind = "TokenTheft" => (Pending(t, x)' <=> Pending(t, x))
          /\ \A x : y.kind # "TokenTheft" => (Pending(t, x)' <=> Has(Tail(s), x))
          /\ \A x : Waiting(t, x)' <=> Has(Tail(s), x)
          /\ \A x : Waiting(t, x) <=> Pending(t, x)
      <3>1. \A x : Pending(t, x)' <=> Has(work'[t].pending, x)
        BY DEF Pending, Has
      <3>2. \A x : Pending(t, x) <=> Has(s, x)
        BY DEF Pending, Has
      <3>3. \A x : Suspecting(t, x)' <=> work'[t].pc = "suspect" /\ Head(work'[t].pending) = x
        BY DEF Suspecting, Id!At
      <3>4. \A x : ~Suspecting(t, x)
        BY <2>1 DEF Suspecting, Id!At
      <3> QED BY <2>1, <2>3, <3>1, <3>2, <3>3, <3>4 DEF Waiting
    <2>5. \A v \in Threads : v # t => \A x : (Pending(v, x)' <=> Pending(v, x))
                                           /\ (Waiting(v, x)' <=> Waiting(v, x))
      BY <2>1 DEF Pending, Waiting, Suspecting, Id!At
    <2> HIDE DEF s, y
    <2>6. ASSUME NEW x, Has(threats', x)
          PROVE  ToldOf(x)'
      <3>1. ToldOf(x)
        BY <1>0, <2>1, <2>6 DEF Has
      <3>2. CASE x = y
        <4>1. Pending(t, x) /\ Waiting(t, x) /\ ~Waiting(t, x)'
          BY <2>3, <2>4, <3>2
        <4>2. \A v \in Threads : Pending(v, x) => v = t
          BY <4>1, OneHand
        <4>3. \A v \in Threads : ~Waiting(v, x)'
          BY <2>5, <4>1, <4>2 DEF Waiting
        <4>4. Id!Times(Id!Detected(x)) = 0 /\ Id!Times(Id!Suspected(x)) = 0
          BY <3>1, <4>1 DEF ToldOf
        <4>5. Id!Times(Id!Detected(x))' = 1 /\ Id!Times(Id!Suspected(x))' = 0
          BY <2>2, <3>2, <4>4
        <4>6. x.kind = "TokenTheft" => Pending(t, x)'
          BY <2>4, <3>2, <4>1
        <4> QED BY <4>3, <4>5, <4>6 DEF ToldOf
      <3>3. CASE x # y
        <4>1. \A v \in Threads : (Pending(v, x)' <=> Pending(v, x))
                                /\ (Waiting(v, x)' <=> Waiting(v, x))
          BY <2>3, <2>4, <2>5, <3>3
        <4>2. Id!Times(Id!Detected(x))' = Id!Times(Id!Detected(x))
              /\ Id!Times(Id!Suspected(x))' = Id!Times(Id!Suspected(x))
          BY <2>2, <3>3
        <4> QED BY <3>1, <4>1, <4>2 DEF ToldOf
      <3> QED BY <3>2, <3>3
    <2> QED BY <2>6, ToldAfter
  <1>3. ASSUME NEW t \in Threads, Id!Suspect(t)
        PROVE  Told'
    <2> DEFINE s == work[t].pending
               y == Head(s)
    <2>1. /\ s \in Seq(Id!Threats) /\ s # <<>> /\ y \in Id!Threats /\ work[t].pc = "suspect"
          /\ y.kind = "TokenTheft"
          /\ feed' = Append(feed, Id!Suspected(y)) /\ threats' = threats
          /\ \A v \in Threads : v # t => work'[v] = work[v]
          /\ work'[t].pc = "announce" /\ work'[t].pending = Tail(s)
      BY <1>3, SuspectFacts
    <2>2. \A x : Id!Times(Id!Suspected(x))' = Id!Times(Id!Suspected(x)) + (IF y = x THEN 1 ELSE 0)
                 /\ Id!Times(Id!Detected(x))' = Id!Times(Id!Detected(x))
                 /\ Id!Times(Id!Detected(x)) \in Nat /\ Id!Times(Id!Suspected(x)) \in Nat
      BY <2>1, FeedAfter
    <2>3. /\ \A x : Pending(t, x) <=> x = y \/ Has(Tail(s), x)
          /\ ~Has(Tail(s), y)
      BY <2>1, HandAfter
    <2>4. /\ \A x : Pending(t, x)' <=> Has(Tail(s), x)
          /\ \A x : Waiting(t, x)' <=> Has(Tail(s), x)
          /\ \A x : Waiting(t, x) <=> Pending(t, x) /\ x # y
      <3>1. \A x : Pending(t, x)' <=> Has(work'[t].pending, x)
        BY DEF Pending, Has
      <3>2. \A x : ~Suspecting(t, x)'
        BY <2>1 DEF Suspecting, Id!At
      <3>3. \A x : Suspecting(t, x) <=> x = y
        BY <2>1 DEF Suspecting, Id!At
      <3> QED BY <2>1, <3>1, <3>2, <3>3 DEF Waiting
    <2>5. \A v \in Threads : v # t => \A x : (Pending(v, x)' <=> Pending(v, x))
                                           /\ (Waiting(v, x)' <=> Waiting(v, x))
      BY <2>1 DEF Pending, Waiting, Suspecting, Id!At
    <2> HIDE DEF s, y
    <2>6. ASSUME NEW x, Has(threats', x)
          PROVE  ToldOf(x)'
      <3>1. ToldOf(x)
        BY <1>0, <2>1, <2>6 DEF Has
      <3>2. CASE x = y
        <4>1. Pending(t, x) /\ ~Waiting(t, x) /\ ~Pending(t, x)' /\ ~Waiting(t, x)'
          BY <2>3, <2>4, <3>2
        <4>2. \A v \in Threads : Pending(v, x) => v = t
          BY <4>1, OneHand
        <4>3. \A v \in Threads : ~Pending(v, x)' /\ ~Waiting(v, x)' /\ ~Waiting(v, x)
          BY <2>5, <4>1, <4>2 DEF Waiting
        <4>4. Id!Times(Id!Detected(x)) = 1 /\ Id!Times(Id!Suspected(x)) = 0
          BY <3>1, <4>1, <4>3 DEF ToldOf
        <4>5. Id!Times(Id!Detected(x))' = 1 /\ Id!Times(Id!Suspected(x))' = 1
          BY <2>2, <3>2, <4>4
        <4> QED BY <2>1, <3>2, <4>3, <4>5 DEF ToldOf
      <3>3. CASE x # y
        <4>1. \A v \in Threads : (Pending(v, x)' <=> Pending(v, x))
                                /\ (Waiting(v, x)' <=> Waiting(v, x))
          BY <2>3, <2>4, <2>5, <3>3
        <4>2. Id!Times(Id!Detected(x))' = Id!Times(Id!Detected(x))
              /\ Id!Times(Id!Suspected(x))' = Id!Times(Id!Suspected(x))
          BY <2>2, <3>3
        <4> QED BY <3>1, <4>1, <4>2 DEF ToldOf
      <3> QED BY <3>2, <3>3
    <2> QED BY <2>6, ToldAfter
  <1>4. ASSUME NEW t \in Threads, Id!Store(t)
        PROVE  Told'
    <2>1. /\ work[t].pending = <<>> /\ work'[t].pending = <<>>
          /\ threats' = threats /\ feed' = feed
          /\ \A v \in Threads : v # t => work'[v] = work[v]
      BY <1>4, StoreFacts
    <2>2. \A v \in Threads : \A x : (Pending(v, x)' <=> Pending(v, x))
                                  /\ (Waiting(v, x)' <=> Waiting(v, x))
      <3>1. \A x : ~Pending(t, x) /\ ~Pending(t, x)'
        BY <2>1 DEF Pending
      <3>2. \A v \in Threads : v # t => \A x : (Pending(v, x)' <=> Pending(v, x))
                                             /\ (Waiting(v, x)' <=> Waiting(v, x))
        BY <2>1 DEF Pending, Waiting, Suspecting, Id!At
      <3> QED BY <3>1, <3>2 DEF Waiting
    <2>3. ASSUME NEW x, Has(threats', x)
          PROVE  ToldOf(x)'
      <3>1. ToldOf(x)
        BY <1>0, <2>1, <2>3 DEF Has
      <3> QED BY <2>1, <2>2, <3>1, ToldSame
    <2> QED BY <2>3, ToldAfter
  <1>5. CASE UNCHANGED Id!vars
    <2>1. work' = work /\ threats' = threats /\ feed' = feed
      BY <1>5 DEF Id!vars
    <2>2. \A v \in Threads : \A x : (Pending(v, x)' <=> Pending(v, x))
                                  /\ (Waiting(v, x)' <=> Waiting(v, x))
      BY <2>1 DEF Pending, Waiting, Suspecting, Id!At
    <2>3. ASSUME NEW x, Has(threats', x)
          PROVE  ToldOf(x)'
      <3>1. ToldOf(x)
        BY <1>0, <2>1, <2>3 DEF Has
      <3> QED BY <2>1, <2>2, <3>1, ToldSame
    <2> QED BY <2>3, ToldAfter
  <1> QED BY <1>1, <1>2, <1>3, <1>4, <1>5 DEF Id!Next, Id!Continue

-----------------------------------------------------------------------------
(***************************************************************************)
(* The profile of a user and the events it was made from.                  *)
(***************************************************************************)
LEMMA ProfileAfter ==
  ASSUME Id!Assumption, Id!TypeOK, NEW t \in Threads, NEW e \in Events, Id!Analyze(t, e)
  PROVE  /\ \A u \in Users : u # e.user => profile'[u] = profile[u]
         /\ profile'[e.user] =
              [last |-> <<e.at>>, place |-> Id!Place(profile[e.user], e),
               failures |-> Id!Failures(profile[e.user], e), risk |-> Id!Risk(profile[e.user], e)]
  <1> DEFINE q == [last |-> <<e.at>>, place |-> Id!Place(profile[e.user], e),
                   failures |-> Id!Failures(profile[e.user], e), risk |-> Id!Risk(profile[e.user], e)]
  <1>1. profile' = [profile EXCEPT ![e.user] = q] /\ e.user \in Users
    BY AnalyzeFacts, EventFacts
  <1> HIDE DEF q
  <1>2. profile'[e.user] = q /\ \A u \in Users : u # e.user => profile'[u] = profile[u]
    BY <1>1 DEF Id!TypeOK
  <1> QED BY <1>2 DEF q

LEMMA TrackedNext ==
  ASSUME Id!Assumption, Id!TypeOK, [Id!Next]_(Id!vars), NEW u \in Users, Tracked(u)
  PROVE  Tracked(u)'
  <1>1. ASSUME NEW t \in Threads, NEW e \in Events, Id!Analyze(t, e), u = e.user
        PROVE  Tracked(u)'
    <2> DEFINE n == Len(seen[u])
               f == profile[u].failures
               g == Id!Failures(profile[u], e)
    <2>1. /\ Len(seen'[u]) = n + 1 /\ seen'[u][n + 1] = e
          /\ \A m \in 1..n : seen'[u][m] = seen[u][m]
      <3>1. \A m \in 1..Len(seen[u]) : seen'[u][m] = seen[u][m]
        BY <1>1, SeenFacts DEF Known
      <3> QED BY <1>1, <3>1, SeenFacts DEF Number
    <2>2. /\ profile'[u].last = <<e.at>> /\ profile'[u].place = Id!Place(profile[u], e)
          /\ profile'[u].failures = g
      <3>1. profile'[u] = [last |-> <<e.at>>, place |-> Id!Place(profile[u], e),
                           failures |-> g, risk |-> Id!Risk(profile[u], e)]
        BY <1>1, ProfileAfter
      <3> QED BY <3>1
    <2>3. /\ n \in Nat /\ f \in 0..n /\ (\A m \in (n - f + 1)..n : ~seen[u][m].success)
          /\ f < n => seen[u][n - f].success
      BY ProfileFacts DEF Tracked, Tracks
    <2>4. g = IF e.success THEN 0 ELSE f + 1
      BY DEF Id!Failures
    <2> HIDE DEF n, f, g
    <2>5. /\ g \in 0..(n + 1)
          /\ \A m \in (n + 1 - g + 1)..(n + 1) : ~seen'[u][m].success
          /\ g < n + 1 => seen'[u][n + 1 - g].success
      <3>1. CASE e.success
        BY <2>1, <2>3, <2>4, <3>1
      <3>2. CASE ~e.success
        <4>1. g = f + 1
          BY <2>4, <3>2
        <4>2. g \in 0..(n + 1)
          BY <2>3, <4>1
        <4>3. \A m \in (n + 1 - g + 1)..(n + 1) : ~seen'[u][m].success
          <5>1. \A m \in (n + 1 - g + 1)..(n + 1) : m = n + 1 \/ (m \in (n - f + 1)..n /\ m \in 1..n)
            BY <2>3, <4>1
          <5> QED BY <2>1, <2>3, <3>2, <5>1
        <4>4. ASSUME g < n + 1
              PROVE  seen'[u][n + 1 - g].success
          <5>1. n + 1 - g = n - f /\ n - f \in 1..n /\ f < n
            BY <2>3, <4>1, <4>4
          <5> QED BY <2>1, <2>3, <5>1
        <4> QED BY <4>2, <4>3, <4>4
      <3> QED BY <3>1, <3>2
    <2>6. e.place # None => profile'[u].place = e.place
      BY <2>2 DEF Id!Place
    <2>7. n + 1 # 0
      BY <2>3
    <2> DEFINE q == profile'[u]
               s == seen'[u]
    <2>8. /\ Len(s) = n + 1 /\ s[n + 1] = e
          /\ q.last = <<e.at>> /\ (e.place # None => q.place = e.place) /\ q.failures = g
          /\ g \in 0..(n + 1) /\ \A m \in (n + 1 - g + 1)..(n + 1) : ~s[m].success
          /\ g < n + 1 => s[n + 1 - g].success
      BY <2>1, <2>2, <2>5, <2>6
    <2> HIDE DEF q, s
    <2>9. Tracks(q, s)
      <3>1. q.failures \in 0..Len(s) /\ Len(s) # 0
        BY <2>3, <2>7, <2>8
      <3>2. \A m \in (Len(s) - q.failures + 1)..Len(s) : ~s[m].success
        BY <2>3, <2>8
      <3>3. q.failures < Len(s) => s[Len(s) - q.failures].success
        BY <2>3, <2>8
      <3>4. q.last = <<s[Len(s)].at>> /\ (s[Len(s)].place # None => q.place = s[Len(s)].place)
        BY <2>3, <2>8
      <3> QED BY <3>1, <3>2, <3>3, <3>4 DEF Tracks
    <2> QED BY <2>9 DEF Tracked, q, s
  <1>2. CASE seen'[u] = seen[u] /\ profile'[u] = profile[u]
    BY <1>2 DEF Tracked
  <1>3. ASSUME NEW t \in Threads, NEW e \in Events, Id!Analyze(t, e), u # e.user
        PROVE  seen'[u] = seen[u] /\ profile'[u] = profile[u]
    <2>1. seen'[u] = seen[u]
      BY <1>3, SeenFacts
    <2>2. profile'[u] = profile[u]
      BY <1>3, ProfileAfter
    <2> QED BY <2>1, <2>2
  <1>4. ASSUME NEW t \in Threads, Id!Continue(t)
        PROVE  seen'[u] = seen[u] /\ profile'[u] = profile[u]
    BY <1>4 DEF Id!Continue, Id!Announce, Id!Suspect, Id!Store
  <1>5. CASE UNCHANGED Id!vars
    BY <1>2, <1>5 DEF Id!vars
  <1> QED BY <1>1, <1>2, <1>3, <1>4, <1>5 DEF Id!Next

-----------------------------------------------------------------------------
(***************************************************************************)
(* Which threats are raised.                                               *)
(***************************************************************************)
LEMMA HasConcat ==
  ASSUME NEW S, NEW s \in Seq(S), NEW t \in Seq(S)
  PROVE  \A x : Has(s \o t, x) <=> Has(s, x) \/ Has(t, x)
  <1>1. /\ \A n \in 1..Len(s) : n \in 1..Len(s \o t) /\ (s \o t)[n] = s[n]
        /\ \A n \in 1..Len(t) : Len(s) + n \in 1..Len(s \o t) /\ (s \o t)[Len(s) + n] = t[n]
        /\ \A n \in 1..Len(s \o t) : n \in 1..Len(s) \/ n - Len(s) \in 1..Len(t)
    BY ConcatElements
  <1>2. \A n \in 1..Len(s \o t) : Len(s) + (n - Len(s)) = n
    OBVIOUS
  <1>3. ASSUME NEW n \in 1..Len(s \o t)
        PROVE  Has(s, (s \o t)[n]) \/ Has(t, (s \o t)[n])
    <2>1. CASE n \in 1..Len(s)
      BY <1>1, <2>1 DEF Has
    <2>2. CASE n - Len(s) \in 1..Len(t)
      <3>1. (s \o t)[n] = t[n - Len(s)]
        BY <1>1, <1>2, <2>2
      <3> QED BY <2>2, <3>1 DEF Has
    <2> QED BY <1>1, <2>1, <2>2
  <1> QED BY <1>1, <1>3 DEF Has

LEMMA RaisedMeans ==
  /\ \A v, n, k : Id!Raised(v, n, k) <=> Has(threats, [user |-> v, event |-> n, kind |-> k])
  /\ \A v, n, k : Id!Raised(v, n, k)' <=> Has(threats', [user |-> v, event |-> n, kind |-> k])
  BY DEF Id!Raised, Has

LEMMA RaisedKnown ==
  ASSUME Numbered, NEW v, NEW n, NEW k, Id!Raised(v, n, k)
  PROVE  Known(v, n)
  BY DEF Numbered, Id!Raised

(* A step that analyses an event raises for that event what it is found to *)
(* be, and nothing for any other.                                          *)
LEMMA RaisedAfter ==
  ASSUME Id!Assumption, Id!TypeOK, Numbered, NEW t \in Threads, NEW e \in Events, Id!Analyze(t, e)
  PROVE  /\ \A v, n, k : Known(v, n) /\ v \in Users => (Id!Raised(v, n, k)' <=> Id!Raised(v, n, k))
         /\ \A n, k : n = Number(e) => (Id!Raised(e.user, n, k)' <=> Has(KindsOf(e), k))
  <1>1. threats' = threats \o FoundBy(e)
    BY AnalyzeFacts
  <1>2. threats \in Seq(Id!Threats) /\ FoundBy(e) \in Seq(Id!Threats)
    BY FoundFacts, ElementFacts
  <1>3. \A x : Has(threats', x) <=> Has(threats, x) \/ Has(FoundBy(e), x)
    BY <1>1, <1>2, HasConcat
  <1>4. ~Known(e.user, Number(e))
    BY SeenFacts
  <1>5. ASSUME NEW v, NEW n, NEW k, Has(FoundBy(e), [user |-> v, event |-> n, kind |-> k])
        PROVE  v = e.user /\ n = Number(e)
    <2>1. PICK j \in 1..Len(FoundBy(e)) : FoundBy(e)[j] = [user |-> v, event |-> n, kind |-> k]
      BY <1>5 DEF Has
    <2>2. FoundBy(e)[j] = Threat(e, KindsOf(e)[j])
      BY FoundFacts
    <2> QED BY <2>1, <2>2 DEF Threat
  <1>6. ASSUME NEW v, NEW n, NEW k, Known(v, n), v \in Users
        PROVE  Id!Raised(v, n, k)' <=> Id!Raised(v, n, k)
    <2>1. v # e.user \/ n # Number(e)
      BY <1>4, <1>6
    <2> DEFINE x == [user |-> v, event |-> n, kind |-> k]
    <2>2. ~Has(FoundBy(e), x)
      BY <1>5, <2>1
    <2>3. Has(threats', x) <=> Has(threats, x)
      BY <1>3, <2>2
    <2>4. (Id!Raised(v, n, k) <=> Has(threats, x)) /\ (Id!Raised(v, n, k)' <=> Has(threats', x))
      BY RaisedMeans
    <2> QED BY <2>3, <2>4
  <1>7. ASSUME NEW n, NEW k, n = Number(e)
        PROVE  Id!Raised(e.user, n, k)' <=> Has(KindsOf(e), k)
    <2> DEFINE x == [user |-> e.user, event |-> n, kind |-> k]
    <2>1. (Id!Raised(e.user, n, k) <=> Has(threats, x)) /\ (Id!Raised(e.user, n, k)' <=> Has(threats', x))
      BY RaisedMeans
    <2>2. ~Has(threats, x)
      <3>1. Id!Raised(e.user, n, k) => Known(e.user, n)
        BY RaisedKnown
      <3> QED BY <1>4, <1>7, <2>1, <3>1
    <2>3. Has(FoundBy(e), x) <=> Has(KindsOf(e), k)
      BY <1>7, FoundFacts DEF Threat
    <2> QED BY <1>3, <2>1, <2>2, <2>3
  <1> QED BY <1>6, <1>7

(* Whatever depends on what is raised and on what has been seen only.      *)
LEMMA QuietStep ==
  ASSUME NEW t \in Threads, Id!Continue(t)
  PROVE  threats' = threats /\ seen' = seen /\ profile' = profile
  BY DEF Id!Continue, Id!Announce, Id!Suspect, Id!Store

Run(s, n) ==
  n >= FailureThreshold /\ \A m \in (n - FailureThreshold + 1)..n : ~s[m].success

(* A run of failures as long as the threshold ends at the event after s    *)
(* exactly if that event is a failure and there were enough before it.     *)
LEMMA RunAfter ==
  ASSUME Id!Assumption, NEW p, NEW s, NEW r, NEW e, Tracks(p, s), Len(s) \in Nat,
         \A m \in 1..Len(s) : r[m] = s[m], r[Len(s) + 1] = e
  PROVE  Run(r, Len(s) + 1) <=> ~e.success /\ Id!Failures(p, e) >= FailureThreshold
  <1> DEFINE n == Len(s)
             f == p.failures
  <1>1. /\ n \in Nat /\ f \in 0..n
        /\ \A m \in (n - f + 1)..n : ~s[m].success
        /\ f < n => s[n - f].success
    BY DEF Tracks
  <1>2. FailureThreshold \in Nat \ {0}
    BY DEF Id!Assumption
  <1>3. ~e.success => Id!Failures(p, e) = f + 1
    BY DEF Id!Failures
  <1>4. (\A m \in 1..n : r[m] = s[m]) /\ r[n + 1] = e
    OBVIOUS
  <1> HIDE DEF n, f
  <1>5. ASSUME ~e.success, f + 1 >= FailureThreshold
        PROVE  Run(r, n + 1)
    <2>1. ASSUME NEW m \in (n + 1 - FailureThreshold + 1)..(n + 1)
          PROVE  ~r[m].success
      <3>1. CASE m = n + 1
        BY <1>4, <1>5, <3>1
      <3>2. CASE m # n + 1
        <4>1. m \in (n - f + 1)..n /\ m \in 1..n
          BY <1>1, <1>2, <1>5, <2>1, <3>2
        <4> QED BY <1>1, <1>4, <4>1
      <3> QED BY <3>1, <3>2
    <2> QED BY <1>1, <1>2, <1>5, <2>1 DEF Run
  <1>6. ASSUME Run(r, n + 1)
        PROVE  ~e.success /\ f + 1 >= FailureThreshold
    <2>1. /\ n + 1 >= FailureThreshold
          /\ \A m \in (n + 1 - FailureThreshold + 1)..(n + 1) : ~r[m].success
      BY <1>1, <1>2, <1>6 DEF Run
    <2>2. ~e.success
      <3>1. n + 1 \in (n + 1 - FailureThreshold + 1)..(n + 1)
        BY <1>1, <1>2
      <3> QED BY <1>4, <2>1, <3>1
    <2>3. ASSUME f + 1 < FailureThreshold
          PROVE  FALSE
      <3>1. f < n /\ n - f \in 1..n /\ n - f \in (n + 1 - FailureThreshold + 1)..(n + 1)
        BY <1>1, <1>2, <2>1, <2>3
      <3> QED BY <1>1, <1>4, <2>1, <3>1
    <2> QED BY <1>1, <1>2, <2>2, <2>3
  <1> QED BY <1>3, <1>5, <1>6 DEF n

LEMMA FailuresNext ==
  ASSUME Id!Assumption, Id!TypeOK, Numbered, \A u \in Users : Tracked(u), Id!FailuresInARow,
         [Id!Next]_(Id!vars)
  PROVE  Id!FailuresInARow'
  <1>1. ASSUME NEW t \in Threads, NEW e \in Events, Id!Analyze(t, e)
        PROVE  Id!FailuresInARow'
    <2> SUFFICES ASSUME NEW u \in Users, NEW n \in 1..Len(seen'[u])
                 PROVE  Id!Raised(u, n, "ExcessiveAuthFailures")' <=> Run(seen'[u], n)
      BY DEF Id!FailuresInARow, Run, Id!Raised
    <2>1. CASE Known(u, n)
      <3>1. Id!Raised(u, n, "ExcessiveAuthFailures")' <=> Id!Raised(u, n, "ExcessiveAuthFailures")
        BY <1>1, <2>1, RaisedAfter
      <3>2. Id!Raised(u, n, "ExcessiveAuthFailures") <=> Run(seen[u], n)
        BY <2>1 DEF Id!FailuresInARow, Run, Known
      <3>3. \A m \in 1..Len(seen[u]) : seen'[u][m] = seen[u][m]
        BY <1>1, SeenFacts DEF Known
      <3>4. FailureThreshold \in Nat \ {0} /\ n \in 1..Len(seen[u]) /\ Len(seen[u]) \in Nat
        BY <2>1, ProfileFacts DEF Id!Assumption, Known
      <3>5. n >= FailureThreshold =>
              \A m \in (n - FailureThreshold + 1)..n : m \in 1..Len(seen[u])
        BY <3>4
      <3>6. Run(seen'[u], n) <=> Run(seen[u], n)
        BY <3>3, <3>5 DEF Run
      <3> QED BY <3>1, <3>2, <3>6
    <2>2. CASE u = e.user /\ n = Number(e)
      <3>1. Id!Raised(u, n, "ExcessiveAuthFailures")' <=> Has(KindsOf(e), "ExcessiveAuthFailures")
        BY <1>1, <2>2, RaisedAfter
      <3>2. Has(KindsOf(e), "ExcessiveAuthFailures") <=>
              ~e.success /\ Id!Failures(profile[u], e) >= FailureThreshold
        BY <2>2, ProfileFacts, KindFacts DEF KindsOf
      <3>3. /\ \A m \in 1..Len(seen[u]) : seen'[u][m] = seen[u][m]
            /\ n = Len(seen[u]) + 1 /\ seen'[u][Len(seen[u]) + 1] = e /\ Len(seen[u]) \in Nat
        BY <1>1, <2>2, SeenFacts, ProfileFacts DEF Known, Number
      <3>4. Run(seen'[u], n) <=> ~e.success /\ Id!Failures(profile[u], e) >= FailureThreshold
        BY <3>3, RunAfter DEF Tracked
      <3> QED BY <3>1, <3>2, <3>4
    <2>3. Known(u, n) \/ (u = e.user /\ n = Number(e))
      BY <1>1, SeenFacts DEF Known
    <2> QED BY <2>1, <2>2, <2>3
  <1>2. ASSUME NEW t \in Threads, Id!Continue(t)
        PROVE  Id!FailuresInARow'
    BY <1>2, QuietStep DEF Id!FailuresInARow, Id!Raised
  <1>3. CASE UNCHANGED Id!vars
    BY <1>3 DEF Id!vars, Id!FailuresInARow, Id!Raised
  <1> QED BY <1>1, <1>2, <1>3 DEF Id!Next

-----------------------------------------------------------------------------
(***************************************************************************)
(* The score of a user.                                                    *)
(***************************************************************************)
FactorsOf(u, n) ==
  {x \in Id!Threats : x.user = u /\ x.event <= n /\ x.kind # "TokenTheft"}
Count(s, u, n)  == Cardinality(Places(s, FactorsOf(u, n)))
Score(count)    ==
  LET sum == Id!RiskPerFactor * count IN IF sum > Id!MaxRisk THEN Id!MaxRisk ELSE sum

LEMMA CountFacts ==
  ASSUME NEW s \in Seq(Id!Threats), NEW u, NEW n
  PROVE  /\ Count(s, u, n) \in Nat
         /\ Cardinality({k \in 1..Len(s) : s[k].user = u /\ s[k].event <= n
                                           /\ s[k].kind # "TokenTheft"}) = Count(s, u, n)
  <1>1. {k \in 1..Len(s) : s[k].user = u /\ s[k].event <= n /\ s[k].kind # "TokenTheft"}
          = Places(s, FactorsOf(u, n))
    BY DEF Places, FactorsOf
  <1> QED BY <1>1, PlacesFinite DEF Count

Scored(u) ==
  /\ profile[u].risk = Score(Count(threats, u, Len(seen[u])))
  /\ \A n \in 1..Len(seen[u]) :
       Id!Raised(u, n, "TokenTheft") <=> Id!RiskPerFactor * Count(threats, u, n) >= Id!CompromiseRisk

LEMMA ScoredMeans ==
  ASSUME Id!TypeOK
  PROVE  Id!RiskAddsUp <=> \A u \in Users : Scored(u)
  <1>1. \A u, n : Id!Cardinality({k \in 1..Len(threats) :
                     /\ threats[k].user = u /\ threats[k].event <= n
                     /\ threats[k].kind # "TokenTheft"}) = Count(threats, u, n)
    <2>1. threats \in Seq(Id!Threats)
      BY ElementFacts
    <2> QED BY <2>1, SameCount, CountFacts
  <1> QED BY <1>1, ZenonT(40) DEF Id!RiskAddsUp, Scored, Score

LEMMA ScoredAfter ==
  ASSUME Id!TypeOK', \A u \in Users : Scored(u)'
  PROVE  Id!RiskAddsUp'
  <1>1. threats' \in Seq(Id!Threats)
    BY DEF Id!TypeOK
  <1>2. \A u, n : Id!Cardinality({k \in 1..Len(threats') :
                     /\ threats'[k].user = u /\ threats'[k].event <= n
                     /\ threats'[k].kind # "TokenTheft"}) = Count(threats', u, n)
    BY <1>1, SameCount, CountFacts
  <1> QED BY <1>2 DEF Id!RiskAddsUp, Scored, Score

(* What an event adds to the score of a user: a factor for each of its     *)
(* kinds but the theft of a token, and nothing to that of another user.    *)
LEMMA CountAfter ==
  ASSUME Id!Assumption, Id!TypeOK, Numbered, NEW t \in Threads, NEW e \in Events, Id!Analyze(t, e)
  PROVE  /\ \A u \in Users : \A n : Known(u, n) => Count(threats', u, n) = Count(threats, u, n)
         /\ \A u \in Users : u # e.user =>
              Count(threats', u, Len(seen[u])) = Count(threats, u, Len(seen[u]))
         /\ Count(threats', e.user, Number(e)) =
              Count(threats, e.user, Len(seen[e.user])) + Len(Id!Factors(profile[e.user], e))
  <1>1. threats' = threats \o FoundBy(e)
    BY AnalyzeFacts
  <1>2. threats \in Seq(Id!Threats) /\ FoundBy(e) \in Seq(Id!Threats)
    BY FoundFacts, ElementFacts
  <1>3. \A u, n : Count(threats', u, n) = Count(threats, u, n) + Count(FoundBy(e), u, n)
    BY <1>1, <1>2, PlacesConcat DEF Count
  <1>4. /\ \A k \in 1..Len(FoundBy(e)) : FoundBy(e)[k].user = e.user /\ FoundBy(e)[k].event = Number(e)
                                         /\ FoundBy(e)[k].kind = KindsOf(e)[k]
        /\ Number(e) \in Nat /\ Len(FoundBy(e)) = Len(KindsOf(e))
    <2>1. \A kind : Threat(e, kind).user = e.user /\ Threat(e, kind).event = Number(e)
                    /\ Threat(e, kind).kind = kind
      BY DEF Threat
    <2> QED BY <2>1, FoundFacts
  <1>5. e.user \in Users /\ Number(e) = Len(seen[e.user]) + 1 /\ Len(seen[e.user]) \in Nat
    BY EventFacts, ProfileFacts DEF Number
  <1>6. ASSUME NEW u, NEW n, u # e.user \/ (n \in Nat /\ n < Number(e))
        PROVE  Count(threats', u, n) = Count(threats, u, n)
    <2>1. Places(FoundBy(e), FactorsOf(u, n)) = {}
      <3>1. ASSUME NEW k \in 1..Len(FoundBy(e)), FoundBy(e)[k] \in FactorsOf(u, n)
            PROVE  FALSE
        <4>1. FoundBy(e)[k].user = u /\ FoundBy(e)[k].event <= n
          BY <3>1 DEF FactorsOf
        <4> QED BY <1>4, <1>6, <4>1
      <3> QED BY <3>1 DEF Places
    <2>2. Count(FoundBy(e), u, n) = 0
      BY <2>1, FS_EmptySet DEF Count
    <2>3. Count(threats, u, n) \in Nat
      BY <1>2, CountFacts
    <2> QED BY <1>3, <2>2, <2>3
  <1>7. ASSUME NEW u \in Users, NEW n, Known(u, n)
        PROVE  Count(threats', u, n) = Count(threats, u, n)
    <2>1. u = e.user => n \in Nat /\ n < Number(e)
      BY <1>5, <1>7 DEF Known
    <2> QED BY <1>6, <2>1
  <1>8. Count(threats, e.user, Number(e)) = Count(threats, e.user, Len(seen[e.user]))
    <2>1. ASSUME NEW k \in 1..Len(threats)
          PROVE  threats[k] \in FactorsOf(e.user, Number(e))
                   <=> threats[k] \in FactorsOf(e.user, Len(seen[e.user]))
      <3>1. threats[k] \in Id!Threats /\ Known(threats[k].user, threats[k].event)
        BY ElementFacts DEF Numbered
      <3>2. threats[k].user = e.user => threats[k].event \in 1..Len(seen[e.user])
        BY <3>1 DEF Known
      <3> QED BY <1>5, <3>1, <3>2 DEF FactorsOf
    <2>2. Places(threats, FactorsOf(e.user, Number(e)))
            = Places(threats, FactorsOf(e.user, Len(seen[e.user])))
      BY <2>1 DEF Places
    <2> QED BY <2>2 DEF Count
  <1>9. Count(FoundBy(e), e.user, Number(e)) = Len(Id!Factors(profile[e.user], e))
    <2> DEFINE fs == Id!Factors(profile[e.user], e)
               ks == KindsOf(e)
    <2>1. /\ Len(fs) \in Nat /\ (\A j \in 1..Len(fs) : ks[j] # "TokenTheft")
          /\ Len(ks) = Len(fs) \/ (Len(ks) = Len(fs) + 1 /\ ks[Len(fs) + 1] = "TokenTheft")
      <3> DEFINE p == profile[e.user]
      <3>1. p.failures \in Nat /\ p.risk \in Nat
        BY <1>5, ProfileFacts
      <3> HIDE DEF p
      <3>2. LET gs == Id!Factors(p, e)
                ls == Id!ThreatKinds(p, e)
                theft == Id!Risk(p, e) >= Id!CompromiseRisk
            IN  /\ Len(gs) \in Nat /\ Len(ls) = Len(gs) + IF theft THEN 1 ELSE 0
                /\ \A j \in 1..Len(gs) : ls[j] # "TokenTheft"
                /\ theft => ls[Len(gs) + 1] = "TokenTheft"
        BY <3>1, KindFacts
      <3> QED BY <3>2 DEF KindsOf, p
    <2>2. \A k \in 1..Len(FoundBy(e)) : FoundBy(e)[k] \in Id!Threats
      BY <1>2
    <2>3. \A k \in 1..Len(ks) : FoundBy(e)[k] \in FactorsOf(e.user, Number(e)) <=> ks[k] # "TokenTheft"
      BY <1>4, <2>2 DEF FactorsOf
    <2> HIDE DEF fs, ks
    <2>4. \A k : k \in 1..Len(ks) /\ ks[k] # "TokenTheft" <=> k \in 1..Len(fs)
      BY <2>1
    <2>5. Len(FoundBy(e)) = Len(ks)
      BY <1>4 DEF ks
    <2>6. Places(FoundBy(e), FactorsOf(e.user, Number(e))) = 1..Len(fs)
      BY <2>3, <2>4, <2>5 DEF Places
    <2> QED BY <2>1, <2>6, UpTo DEF Count, fs
  <1>10. ASSUME NEW u \in Users, u # e.user
         PROVE  Count(threats', u, Len(seen[u])) = Count(threats, u, Len(seen[u]))
    BY <1>6, <1>10
  <1> QED BY <1>3, <1>7, <1>8, <1>9, <1>10

LEMMA RiskNext ==
  ASSUME Id!Assumption, Id!TypeOK, Numbered, Id!TypeOK', Id!RiskAddsUp, [Id!Next]_(Id!vars)
  PROVE  Id!RiskAddsUp'
  <1>0. \A u \in Users : Scored(u)
    BY ScoredMeans
  <1>1. ASSUME NEW t \in Threads, NEW e \in Events, Id!Analyze(t, e), NEW u \in Users
        PROVE  Scored(u)'
    <2>1. ASSUME NEW n, Known(u, n)
          PROVE  Id!Raised(u, n, "TokenTheft")' <=>
                   Id!RiskPerFactor * Count(threats', u, n) >= Id!CompromiseRisk
      <3>1. Id!Raised(u, n, "TokenTheft")' <=> Id!Raised(u, n, "TokenTheft")
        BY <1>1, <2>1, RaisedAfter
      <3>2. Count(threats', u, n) = Count(threats, u, n)
        BY <1>1, <2>1, CountAfter
      <3> QED BY <1>0, <2>1, <3>1, <3>2 DEF Scored, Known
    <2>2. CASE u # e.user
      <3>1. seen'[u] = seen[u]
        BY <1>1, <2>2, SeenFacts
      <3>2. profile'[u] = profile[u]
        BY <1>1, <2>2, ProfileAfter
      <3>3. Count(threats', u, Len(seen[u])) = Count(threats, u, Len(seen[u]))
        BY <1>1, <2>2, CountAfter
      <3>4. profile[u].risk = Score(Count(threats, u, Len(seen[u])))
        BY <1>0 DEF Scored
      <3> QED BY <2>1, <3>1, <3>2, <3>3, <3>4 DEF Scored, Known
    <2>3. CASE u = e.user
      <3> DEFINE p == profile[u]
                 c == Count(threats, u, Len(seen[u]))
                 d == Count(threats', u, Number(e))
                 f == Len(Id!Factors(p, e))
      <3>1. d = c + f
        BY <1>1, <2>3, CountAfter
      <3>2. c \in Nat /\ f \in Nat /\ p.failures \in Nat
        BY <2>3, ElementFacts, CountFacts, ProfileFacts, FactorFacts
      <3>3. p.risk = Score(c)
        BY <1>0 DEF Scored
      <3>4. Id!Risk(p, e) = LET sum == p.risk + Id!RiskPerFactor * f
                           IN  IF sum > Id!MaxRisk THEN Id!MaxRisk ELSE sum
        BY DEF Id!Risk
      <3>5. profile'[u].risk = Id!Risk(p, e)
        <4>1. profile'[u] = [last |-> <<e.at>>, place |-> Id!Place(p, e),
                             failures |-> Id!Failures(p, e), risk |-> Id!Risk(p, e)]
          BY <1>1, <2>3, ProfileAfter
        <4> QED BY <4>1
      <3>6. p.risk \in Nat
        BY ProfileFacts
      <3>7. \A n : n = Number(e) =>
              (Id!Raised(u, n, "TokenTheft")' <=> Id!Risk(p, e) >= Id!CompromiseRisk)
        <4>1. Has(KindsOf(e), "TokenTheft") <=> Id!Risk(p, e) >= Id!CompromiseRisk
          BY <2>3, <3>2, <3>6, KindFacts DEF KindsOf
        <4> QED BY <1>1, <2>3, <4>1, RaisedAfter
      <3> HIDE DEF p, c, d, f
      <3>8. Id!Risk(p, e) = Score(d)
        BY <3>1, <3>2, <3>3, <3>4 DEF Score, Id!RiskPerFactor, Id!MaxRisk
      <3>9. Id!Risk(p, e) >= Id!CompromiseRisk <=> Id!RiskPerFactor * d >= Id!CompromiseRisk
        BY <3>1, <3>2, <3>8 DEF Score, Id!RiskPerFactor, Id!MaxRisk, Id!CompromiseRisk
      <3>10. Len(seen'[u]) = Number(e)
        BY <1>1, <2>3, SeenFacts
      <3>11. \A n \in 1..Len(seen'[u]) : Known(u, n) \/ n = Number(e)
        BY <1>1, <2>3, SeenFacts DEF Known
      <3>12. \A n \in 1..Len(seen'[u]) :
               Id!Raised(u, n, "TokenTheft")' <=>
                 Id!RiskPerFactor * Count(threats', u, n) >= Id!CompromiseRisk
        BY <2>1, <3>7, <3>9, <3>11 DEF d
      <3>13. profile'[u].risk = Score(Count(threats', u, Len(seen'[u])))
        BY <3>5, <3>8, <3>10 DEF d
      <3> QED BY <3>12, <3>13 DEF Scored
    <2> QED BY <2>2, <2>3
  <1>2. ASSUME threats' = threats, seen' = seen, profile' = profile
        PROVE  Id!RiskAddsUp'
    BY <1>2 DEF Id!RiskAddsUp, Id!Raised
  <1>3. ASSUME NEW t \in Threads, Id!Continue(t)
        PROVE  Id!RiskAddsUp'
    BY <1>2, <1>3, QuietStep
  <1>4. CASE UNCHANGED Id!vars
    BY <1>2, <1>4 DEF Id!vars
  <1> QED BY <1>1, <1>3, <1>4, ScoredAfter DEF Id!Next

-----------------------------------------------------------------------------
(***************************************************************************)
(* Impossible travels.                                                     *)
(***************************************************************************)
LEMMA TravelNext ==
  ASSUME Id!Assumption, Id!TypeOK, Numbered, \A u \in Users : Tracked(u),
         Id!TravelBetweenNeighbours, [Id!Next]_(Id!vars)
  PROVE  Id!TravelBetweenNeighbours'
  <1>1. ASSUME NEW t \in Threads, NEW e \in Events, Id!Analyze(t, e)
        PROVE  Id!TravelBetweenNeighbours'
    <2> SUFFICES ASSUME NEW u \in Users, NEW n \in 2..Len(seen'[u]), seen'[u][n - 1].place # None
                 PROVE  Id!Raised(u, n, "ImpossibleTravel")' <=>
                          /\ seen'[u][n].place # None
                          /\ Id!TooFast(seen'[u][n - 1], seen'[u][n])
      BY DEF Id!TravelBetweenNeighbours, Id!Raised, Id!TooFast
    <2>1. /\ Len(seen[u]) \in Nat
          /\ \A m \in 1..Len(seen[u]) : seen'[u][m] = seen[u][m]
      <3>1. Len(seen[u]) \in Nat
        BY ProfileFacts
      <3>2. \A m : Known(u, m) => seen'[u][m] = seen[u][m]
        BY <1>1, SeenFacts
      <3> QED BY <3>1, <3>2 DEF Known
    <2>2. CASE Known(u, n)
      <3>1. Id!Raised(u, n, "ImpossibleTravel")' <=> Id!Raised(u, n, "ImpossibleTravel")
        BY <1>1, <2>2, RaisedAfter
      <3>2. n \in 2..Len(seen[u]) /\ n \in 1..Len(seen[u]) /\ n - 1 \in 1..Len(seen[u])
        BY <2>1, <2>2 DEF Known
      <3>3. seen'[u][n] = seen[u][n] /\ seen'[u][n - 1] = seen[u][n - 1]
        BY <2>1, <3>2
      <3> QED BY <3>1, <3>2, <3>3 DEF Id!TravelBetweenNeighbours
    <2>3. CASE u = e.user /\ n = Number(e)
      <3> DEFINE p == profile[u]
                 d == seen[u][Len(seen[u])]
      <3>1. Id!Raised(u, n, "ImpossibleTravel")' <=> Has(KindsOf(e), "ImpossibleTravel")
        BY <1>1, <2>3, RaisedAfter
      <3>2. Has(KindsOf(e), "ImpossibleTravel") <=> Id!Travelled(p, e)
        BY <2>3, ProfileFacts, KindFacts DEF KindsOf
      <3>3. n = Len(seen[u]) + 1 /\ n - 1 = Len(seen[u]) /\ n - 1 \in 1..Len(seen[u])
        BY <2>1, <2>3 DEF Number
      <3>4. seen'[u][n] = e /\ seen'[u][n - 1] = d
        BY <1>1, <2>1, <2>3, <3>3, SeenFacts
      <3>5. p.last = <<d.at>> /\ p.place = d.place /\ d.place # None
        BY <3>3, <3>4 DEF Tracked, Tracks
      <3>6. p.last # <<>> /\ p.last[1] = d.at
        BY <3>5
      <3> HIDE DEF p, d
      <3>7. Id!Travelled(p, e) <=> e.place # None /\ Id!TooFast(d, e)
        BY <3>5, <3>6 DEF Id!Travelled, Id!TooFast
      <3> QED BY <3>1, <3>2, <3>4, <3>7
    <2>4. Known(u, n) \/ (u = e.user /\ n = Number(e))
      <3>1. n \in 1..Len(seen'[u])
        OBVIOUS
      <3> QED BY <1>1, <3>1, SeenFacts DEF Known
    <2> QED BY <2>2, <2>3, <2>4
  <1>2. ASSUME threats' = threats, seen' = seen
        PROVE  Id!TravelBetweenNeighbours'
    BY <1>2 DEF Id!TravelBetweenNeighbours, Id!Raised
  <1>3. ASSUME NEW t \in Threads, Id!Continue(t)
        PROVE  Id!TravelBetweenNeighbours'
    BY <1>2, <1>3, QuietStep
  <1>4. CASE UNCHANGED Id!vars
    BY <1>2, <1>4 DEF Id!vars
  <1> QED BY <1>1, <1>3, <1>4 DEF Id!Next

-----------------------------------------------------------------------------
(***************************************************************************)
(* The theorems.                                                           *)
(***************************************************************************)
Inv ==
  /\ Id!TypeOK /\ Numbered /\ Owned /\ Told /\ \A u \in Users : Tracked(u)
  /\ Id!FailuresInARow /\ Id!RiskAddsUp /\ Id!TravelBetweenNeighbours

LEMMA InitHolds == Id!Assumption /\ Id!Init => Inv
  <1> SUFFICES ASSUME Id!Assumption, Id!Init
               PROVE  Inv
    OBVIOUS
  <1> USE DEF Id!Init
  <1>1. /\ \A u \in Users : seen[u] = <<>> /\ Len(seen[u]) = 0
        /\ \A t \in Threads : work[t] = Id!Idle
        /\ Len(threats) = 0 /\ Len(stored) = 0 /\ Len(feed) = 0
    OBVIOUS
  <1>2. Id!TypeOK
    <2>1. /\ <<>> \in Seq(Nat) /\ <<>> \in Seq(Events) /\ <<>> \in Seq(Id!Threats)
          /\ <<>> \in Seq(Users \X Nat) /\ <<>> \in Seq(Announcements)
      BY EmptySeq
    <2>2. Id!Idle \in [pc : {"idle", "announce", "suspect"},
                      event : (Users \X Nat) \cup {<<>>}, pending : Seq(Id!Threats)]
      BY <2>1 DEF Id!Idle
    <2>3. [last |-> <<>>, place |-> None, failures |-> 0, risk |-> 0]
            \in [last : Seq(Nat), place : Positions \cup {None}, failures : Nat, risk : 0..Id!MaxRisk]
      BY <2>1 DEF Id!MaxRisk
    <2>4. profile \in [Users -> [last : Seq(Nat), place : Positions \cup {None},
                                 failures : Nat, risk : 0..Id!MaxRisk]]
      BY <2>3
    <2>5. seen \in [Users -> Seq(Events)]
      BY <2>1
    <2>6. work \in [Threads -> [pc : {"idle", "announce", "suspect"},
                                event : (Users \X Nat) \cup {<<>>}, pending : Seq(Id!Threats)]]
      BY <2>2
    <2>7. threats \in Seq(Id!Threats) /\ stored \in Seq(Users \X Nat) /\ feed \in Seq(Announcements)
      BY <2>1
    <2> HIDE DEF Id!Init
    <2> QED BY <2>4, <2>5, <2>6, <2>7 DEF Id!TypeOK, Announcements
  <1>3. \A u \in Users : profile[u].last = <<>> /\ profile[u].failures = 0 /\ profile[u].risk = 0
    OBVIOUS
  <1> HIDE DEF Id!Init
  <1>4. Numbered
    BY <1>1 DEF Numbered, Id!At, Id!Idle
  <1>5. Owned
    BY <1>1 DEF Owned, Id!At, Id!Idle
  <1>6. Told
    BY <1>1 DEF Told
  <1>7. \A u \in Users : Tracked(u)
    BY <1>1, <1>3 DEF Tracked, Tracks
  <1>8. Id!FailuresInARow /\ Id!TravelBetweenNeighbours
    BY <1>1 DEF Id!FailuresInARow, Id!TravelBetweenNeighbours
  <1>9. ASSUME NEW u \in Users
        PROVE  Scored(u)
    <2>1. \A n : Count(threats, u, n) = 0
      <3>1. \A V : Places(threats, V) = {}
        BY <1>1 DEF Places
      <3> QED BY <3>1, FS_EmptySet DEF Count
    <2>2. Score(0) = 0
      BY DEF Score, Id!RiskPerFactor, Id!MaxRisk
    <2> QED BY <1>1, <1>3, <2>1, <2>2 DEF Scored
  <1>10. Id!RiskAddsUp
    BY <1>2, <1>9, ScoredMeans
  <1> QED BY <1>2, <1>4, <1>5, <1>6, <1>7, <1>8, <1>10 DEF Inv

LEMMA NextHolds == Id!Assumption /\ Inv /\ [Id!Next]_(Id!vars) => Inv'
  <1> SUFFICES ASSUME Id!Assumption, Inv, [Id!Next]_(Id!vars)
               PROVE  Inv'
    OBVIOUS
  <1> USE DEF Inv
  <1>1. Id!TypeOK' /\ Numbered' /\ Owned' /\ Told'
    BY ItdrTypeNext, NumberedNext, OwnedNext, ToldNext
  <1>2. \A u \in Users : Tracked(u)'
    BY TrackedNext
  <1>3. Id!FailuresInARow' /\ Id!TravelBetweenNeighbours'
    BY FailuresNext, TravelNext
  <1>4. Id!RiskAddsUp'
    BY <1>1, RiskNext
  <1> QED BY <1>1, <1>2, <1>3, <1>4

LEMMA Invariance == ItdrSpec => []Inv
  BY IdentityAssumption, InitHolds, NextHolds, PTL DEF ItdrSpec, Id!Spec

(* The profile of a user is the one the user's events make in the order    *)
(* they were analysed: excessive failures are reported exactly for the     *)
(* events that end a run of failures as long as the threshold, the score   *)
(* is what the stored threats add up to, capped, and the theft of a token  *)
(* is suspected by exactly the events that find the score at the limit     *)
(* (analyze_auth), whatever the threads are doing meanwhile.               *)
THEOREM ProfileFollowsHistoryHolds == ItdrSpec => []ProfileFollowsHistory
  <1>1. Inv => ProfileFollowsHistory
    BY DEF Inv, ProfileFollowsHistory, Id!ProfileFollowsHistory
  <1> QED BY <1>1, Invariance, PTL

(* If the previous event of a user had a position, an impossible travel is *)
(* reported exactly if that position is too far away for the time between  *)
(* the two (analyze_auth).                                                 *)
THEOREM TravelBetweenNeighboursHolds == ItdrSpec => []TravelBetweenNeighbours
  <1>1. Inv => TravelBetweenNeighbours
    BY DEF Inv, TravelBetweenNeighbours
  <1> QED BY <1>1, Invariance, PTL

LEMMA AnnouncedWhenTold ==
  ASSUME Id!TypeOK, Owned, Told
  PROVE  Id!ThreatsAnnounced
  <1> SUFFICES ASSUME NEW k \in 1..Len(threats), NEW x, x = threats[k]
               PROVE  LET waiting == {t \in Threads : Pending(t, x)}
                          suspecting == {t \in waiting : Suspecting(t, x)}
                      IN  /\ Id!Times(Id!Detected(x)) + Id!Cardinality(waiting \ suspecting) = 1
                          /\ Id!Times(Id!Suspected(x)) =
                               IF x.kind = "TokenTheft" /\ waiting = {} THEN 1 ELSE 0
                          /\ (\E n \in 1..Len(stored) : stored[n] = <<x.user, x.event>>)
                               => waiting = {}
    BY DEF Id!ThreatsAnnounced, Pending, Suspecting
  <1> DEFINE waiting == {t \in Threads : Pending(t, x)}
             suspecting == {t \in waiting : Suspecting(t, x)}
             hands == {t \in Threads : Waiting(t, x)}
  <1>1. ToldOf(x)
    BY ToldMeans
  <1>2. waiting \ suspecting = hands
    BY DEF Waiting
  <1>3. Id!Times(Id!Detected(x)) + Cardinality(hands) = 1
    <2>1. CASE \E t \in Threads : Waiting(t, x)
      <3>1. PICK t \in Threads : Waiting(t, x)
        BY <2>1
      <3>2. \A v \in Threads : Pending(v, x) => v = t
        BY <3>1, OneHand DEF Waiting
      <3>3. hands = {t}
        BY <3>1, <3>2 DEF Waiting
      <3>4. Cardinality(hands) = 1
        BY <3>3, FS_Singleton
      <3>5. Id!Times(Id!Detected(x)) = 0
        BY <1>1, <2>1 DEF ToldOf
      <3> QED BY <3>4, <3>5
    <2>2. CASE ~\E t \in Threads : Waiting(t, x)
      <3>1. hands = {}
        BY <2>2
      <3>2. Cardinality(hands) = 0
        BY <3>1, FS_EmptySet
      <3>3. Id!Times(Id!Detected(x)) = 1
        BY <1>1, <2>2 DEF ToldOf
      <3> QED BY <3>2, <3>3
    <2> QED BY <2>1, <2>2
  <1>4. waiting = {} <=> ~\E t \in Threads : Pending(t, x)
    OBVIOUS
  <1>5. ASSUME NEW n \in 1..Len(stored), stored[n] = <<x.user, x.event>>, NEW t \in Threads,
               Pending(t, x)
        PROVE  FALSE
    <2>1. work[t].pc # "idle" /\ work[t].event = <<x.user, x.event>>
      BY <1>5, OneHand
    <2> QED BY <1>5, <2>1, OwnedMeans DEF Id!At
  <1>6. Id!Cardinality(waiting \ suspecting) = Cardinality(hands)
    BY <1>2, SameCount
  <1>7. Id!Times(Id!Suspected(x)) = IF x.kind = "TokenTheft" /\ waiting = {} THEN 1 ELSE 0
    BY <1>1, <1>4 DEF ToldOf
  <1>8. (\E n \in 1..Len(stored) : stored[n] = <<x.user, x.event>>) => waiting = {}
    BY <1>4, <1>5
  <1> QED BY <1>3, <1>6, <1>7, <1>8

(* Every stored threat is announced once, or in the hands of just one      *)
(* thread; the theft of a token is announced as a suspected compromise,    *)
(* too, once; and an event is stored only after all its threats are told   *)
(* (ingest_auth), for any number of threads.                               *)
THEOREM ThreatsAnnouncedHolds == ItdrSpec => []ThreatsAnnounced
  <1>1. Inv => ThreatsAnnounced
    BY AnnouncedWhenTold DEF Inv, ThreatsAnnounced
  <1> QED BY <1>1, Invariance, PTL
============================================================================
