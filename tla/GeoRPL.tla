------------------------------- MODULE GeoRPL -------------------------------
(***************************************************************************)
(* cisei_lib/planners/geo_rpl_agnostic.py: RPL rank propagation over a     *)
(* weighted candidate graph.  run_RPL is a label-correcting worklist: a    *)
(* relay is popped in no particular order (Python's set.pop), its          *)
(* unconnected neighbours take it as parent when that strictly lowers      *)
(* their rank, and the improved relays go back to the worklist.  Metrics   *)
(* are non-negative and may be zero.                                       *)
(*                                                                         *)
(* Float sums are integers here; set_nodes and set_edge_metrics accept     *)
(* what Tables and Updates hold, everything else raises before (set_nodes) *)
(* or after (set_edge_metrics) a part of the call took effect.             *)
(***************************************************************************)
EXTENDS Integers, FiniteSets

CONSTANTS
  NodeIds,      \* RPL node ids
  None,         \* attribute "parent" absent
  Inf,          \* math.inf
  Labels,       \* see RplRouting
  Tables,       \* the node tables callers pass to set_nodes
  Updates       \* the items set_edge_metrics applies: {a, b} -> metric

NodeRecord == [connected : BOOLEAN, relay : BOOLEAN, rank : Int \cup {Inf}]

\* What set_nodes accepts: a dictionary with finite ranks exactly on the connected nodes, of
\* which there is at least one.
ValidTable(t) ==
  /\ DOMAIN t \subseteq NodeIds /\ IsFiniteSet(DOMAIN t)
  /\ t \in [DOMAIN t -> NodeRecord]
  /\ \A n \in DOMAIN t : t[n].connected <=> t[n].rank # Inf
  /\ \E n \in DOMAIN t : t[n].connected

ASSUME GeoRPLAssumption ==
  /\ None \notin NodeIds
  /\ Inf \notin Int
  /\ Labels \subseteq Int
  /\ \A u \in Updates : u \in [DOMAIN u -> Nat]
  /\ \A t \in Tables : ValidTable(t)

VARIABLES
  nodes,        \* self.nodes
  metric,       \* the edges of self.G and their "metric"
  rank,         \* "rank" of the nodes of self.G
  parent,       \* "parent" of the nodes of self.G
  todo,         \* nodes_to_process
  running,      \* inside run_RPL
  network       \* self.G_res

vars == <<nodes, metric, rank, parent, todo, running, network>>

Routing == INSTANCE RplRouting
             WITH nodes <- nodes, metric <- metric, network <- network

Empty == Routing!Empty

Edge(a, b) == {a, b}

Edges == {Edge(a, b) : a, b \in DOMAIN nodes}

NoParents == [n \in DOMAIN nodes |-> None]

-----------------------------------------------------------------------------

\* __init__
Init ==
  /\ nodes = Empty
  /\ metric = Empty
  /\ rank = Empty
  /\ parent = Empty
  /\ todo = {}
  /\ running = FALSE
  /\ network = Routing!EmptyNetwork

\* set_nodes: a table that fails a check raises before anything is assigned.
SetNodes(t) ==
  /\ ~running
  /\ nodes' = t
  /\ metric' = Empty
  /\ rank' = [n \in DOMAIN t |-> t[n].rank]
  /\ parent' = [n \in DOMAIN t |-> None]
  /\ network' = Routing!EmptyNetwork
  /\ UNCHANGED <<todo, running>>

\* set_edge_metrics: items are applied one by one, so a call that raises on a
\* bad item (an unknown node, a negative or infinite metric) has applied the ones
\* before it; new holds the items that were applied.
SetEdgeMetrics(new, update) ==
  /\ ~running
  /\ DOMAIN nodes # {}
  /\ DOMAIN new \subseteq Edges
  /\ LET kept == IF update THEN DOMAIN metric ELSE {}
     IN metric' = [e \in kept \cup DOMAIN new |->
                     IF e \in DOMAIN new THEN new[e] ELSE metric[e]]
  /\ UNCHANGED <<nodes, rank, parent, todo, running, network>>

\* Variant: the ranks of the previous run stay.
RunStartKeepingRanks ==
  LET roots == {n \in DOMAIN nodes : nodes[n].connected /\ nodes[n].relay}
  IN /\ ~running
     /\ DOMAIN metric # {}
     /\ todo' = roots
     /\ running' = (roots # {})
     /\ UNCHANGED <<nodes, metric, rank, parent, network>>

\* run_RPL up to the loop: the attributes are reset and the roots queued.  With
\* no root the call raises here, and the attributes stay reset.
RunStart ==
  LET roots == {n \in DOMAIN nodes : nodes[n].connected /\ nodes[n].relay}
  IN /\ ~running
     /\ DOMAIN metric # {}
     /\ rank' = [n \in DOMAIN nodes |-> IF nodes[n].connected THEN rank[n] ELSE Inf]
     /\ parent' = NoParents
     /\ todo' = roots
     /\ running' = (roots # {})
     /\ UNCHANGED <<nodes, metric, network>>

\* Variant: a tie is taken as an improvement.
ImprovesOnTies(p, c) ==
  /\ Edge(p, c) \in DOMAIN metric
  /\ ~nodes[c].connected
  /\ rank[c] = Inf \/ rank[p] + metric[Edge(p, c)] <= rank[c]

\* The test of the inner loop; calculate_rank is rank[p] + metric.
Improves(p, c) ==
  /\ Edge(p, c) \in DOMAIN metric
  /\ ~nodes[c].connected
  /\ rank[c] = Inf \/ rank[p] + metric[Edge(p, c)] < rank[c]

\* Variant: a relay goes to the worklist only the first time it is ranked.
ExpandOnce(p) ==
  LET better == {c \in DOMAIN nodes : Improves(p, c)}
  IN /\ running
     /\ p \in todo
     /\ rank' = [n \in DOMAIN nodes |->
                   IF n \in better THEN rank[p] + metric[Edge(p, n)] ELSE rank[n]]
     /\ parent' = [n \in DOMAIN nodes |-> IF n \in better THEN p ELSE parent[n]]
     /\ todo' = (todo \ {p}) \cup {c \in better : nodes[c].relay /\ rank[c] = Inf}
     /\ UNCHANGED <<nodes, metric, running, network>>

\* One round of the loop: pop a relay and relax every neighbour.  The
\* neighbours are distinct and the relay's own rank stands, so their order
\* does not matter.
Expand(p) ==
  LET better == {c \in DOMAIN nodes : Improves(p, c)}
  IN /\ running
     /\ p \in todo
     /\ rank' = [n \in DOMAIN nodes |->
                   IF n \in better THEN rank[p] + metric[Edge(p, n)] ELSE rank[n]]
     /\ parent' = [n \in DOMAIN nodes |-> IF n \in better THEN p ELSE parent[n]]
     /\ todo' = (todo \ {p}) \cup {c \in better : nodes[c].relay}
     /\ UNCHANGED <<nodes, metric, running, network>>

\* Variant: the nodes RPL did not reach stay in the network.
RunEndWithIsolates ==
  /\ running
  /\ todo = {}
  /\ running' = FALSE
  /\ network' = [members |-> DOMAIN nodes, rank |-> rank, parent |-> parent]
  /\ UNCHANGED <<nodes, metric, rank, parent, todo>>

\* The tail of run_RPL: the parent edges become the result network, without
\* the nodes that touch none of them.
RunEnd ==
  /\ running
  /\ todo = {}
  /\ running' = FALSE
  /\ network' = Routing!NetworkOf(rank, parent)
  /\ UNCHANGED <<nodes, metric, rank, parent, todo>>

Next ==
  \/ \E t \in Tables : SetNodes(t)
  \/ \E new \in Updates, update \in BOOLEAN : SetEdgeMetrics(new, update)
  \/ RunStart
  \/ \E p \in todo : Expand(p)
  \/ RunEnd

\* run_RPL is a plain loop: once entered, it is executed.
Fairness == WF_vars(\E p \in todo : Expand(p)) /\ WF_vars(RunEnd)

Spec == Init /\ [][Next]_vars /\ Fairness

-----------------------------------------------------------------------------

TypeOK ==
  /\ nodes = Empty \/ ValidTable(nodes)
  /\ DOMAIN metric \subseteq Edges
  /\ metric \in [DOMAIN metric -> Nat]
  /\ rank \in [DOMAIN nodes -> Int \cup {Inf}]
  /\ parent \in [DOMAIN nodes -> DOMAIN nodes \cup {None}]
  /\ todo \in SUBSET DOMAIN nodes
  /\ running \in BOOLEAN
  /\ ~running => todo = {}

\* No set of nodes is closed under parents: following parents from any node
\* leaves the parent relation, so the network never loops, not even over links
\* of metric zero and not in the middle of the propagation.
ParentsAcyclic ==
  \A S \in SUBSET DOMAIN nodes : S # {} => \E n \in S : parent[n] \notin S

\* A rank is never below what the parent's present rank and the link give, and
\* is above it only while the parent waits to be processed again: an
\* improvement that has not reached the children is still on the worklist.
RanksFollowParents ==
  running =>
    \A c \in DOMAIN nodes :
      parent[c] # None =>
        /\ Edge(parent[c], c) \in DOMAIN metric
        /\ rank[parent[c]] # Inf
        /\ rank[c] >= rank[parent[c]] + metric[Edge(parent[c], c)]
        /\ rank[c] # rank[parent[c]] + metric[Edge(parent[c], c)] => parent[c] \in todo

\* Nodes and lengths of the relay paths of at most k links that end there.
RootLengths ==
  {<<n, nodes[n].rank>> : n \in {m \in DOMAIN nodes : nodes[m].connected}}

Onward(shorter) ==
  LET next(p) == {n \in DOMAIN nodes : Routing!Carries(nodes, metric, p[1], n)}
  IN shorter \cup UNION {{<<n, p[2] + metric[Edge(p[1], n)]>> : n \in next(p)} : p \in shorter}

Lengths[k \in 0..Cardinality(DOMAIN nodes)] ==
  IF k = 0 THEN RootLengths ELSE Onward(Lengths[k - 1])

\* The reference definition by paths: of all relay paths, the shortest.
PathRank ==
  LET lengths == Lengths[Cardinality(DOMAIN nodes)]
      of(n)   == {p[2] : p \in {q \in lengths : q[1] = n}}
  IN [n \in DOMAIN nodes |->
        IF of(n) = {} THEN Inf ELSE CHOOSE d \in of(n) : \A e \in of(n) : d <= e]

\* When run_RPL ends, each rank is the length of the shortest relay path,
\* whichever relays were popped first.
RanksAreShortestPaths ==
  running /\ todo = {} => rank = PathRank

\* run_RPL ends, whatever the metrics, zero ones included.
RunTerminates == running ~> ~running

\* Detailed and abstract: the network changes only into a shortest forest of
\* the graph it was solved from, or is dropped with the nodes.
RoutingSpec == Routing!RoutingSpec

=============================================================================
