----------------------------- MODULE RplRouting -----------------------------
(***************************************************************************)
(* What RPL planning promises: whenever a network is solved, it is a       *)
(* shortest-rank forest of the candidate graph it was solved from.  The    *)
(* ranks are characterised without paths: they respect every relay link    *)
(* and lie above every other labelling that does, so they are the lengths  *)
(* of the shortest relay paths; the parents realise them and never loop.   *)
(***************************************************************************)
EXTENDS Integers

CONSTANTS
  NodeIds,      \* the RPL node ids (site:interface)
  None,         \* "no parent": the attribute is absent
  Inf,          \* the rank of a node that no root reaches
  Labels        \* the finite labels a rival labelling may use

VARIABLES
  nodes,        \* node id -> [connected, relay, rank]
  metric,       \* {a, b} -> metric of the candidate edge
  network       \* the solved network: member nodes, their ranks and parents

routingVars == <<nodes, metric, network>>

Empty == [n \in {} |-> None]

EmptyNetwork == [members |-> {}, rank |-> Empty, parent |-> Empty]

Edge(a, b) == {a, b}

\* Links over which rank information flows: from a relay to an unconnected node.
Carries(ns, m, p, c) ==
  /\ Edge(p, c) \in DOMAIN m
  /\ ns[p].relay
  /\ ~ns[c].connected

\* A labelling of the nodes that starts at the roots' ranks and that no relay
\* link could improve.
Stable(ns, m, label) ==
  \A n \in DOMAIN ns :
    /\ ns[n].connected => label[n] = ns[n].rank
    /\ \A p \in DOMAIN ns :
         (Carries(ns, m, p, n) /\ label[p] # Inf)
           => label[n] # Inf /\ label[n] <= label[p] + m[Edge(p, n)]

\* The parents realise the ranks, and no set of nodes is closed under parents.
Forest(ns, m, label, up) ==
  /\ \A n \in DOMAIN ns :
       /\ up[n] # None <=> (~ns[n].connected /\ label[n] # Inf)
       /\ up[n] # None => /\ Carries(ns, m, up[n], n)
                          /\ label[up[n]] # Inf
                          /\ label[n] = label[up[n]] + m[Edge(up[n], n)]
  /\ \A S \in SUBSET DOMAIN ns : S # {} => \E n \in S : up[n] \notin S

\* No stable labelling puts a node above its rank.
Greatest(ns, m, label) ==
  \A rival \in [DOMAIN ns -> Labels] :
    Stable(ns, m, rival) =>
      \A n \in DOMAIN ns : label[n] # Inf => rival[n] <= label[n]

\* The labelling and the parents a network stands for: an unconnected node
\* outside it has no parent and no rank.
RankIn(ns, net) ==
  [n \in DOMAIN ns |-> IF n \in net.members THEN net.rank[n]
                       ELSE IF ns[n].connected THEN ns[n].rank ELSE Inf]

ParentIn(ns, net) ==
  [n \in DOMAIN ns |-> IF n \in net.members THEN net.parent[n] ELSE None]

\* The network keeps the nodes that have a parent or a child.
NetworkOf(label, up) ==
  LET members == {n \in DOMAIN up : up[n] # None \/ \E c \in DOMAIN up : up[c] = n}
  IN [members |-> members,
      rank    |-> [n \in members |-> label[n]],
      parent  |-> [n \in members |-> up[n]]]

ShortestForest(ns, m, label, up) ==
  /\ Stable(ns, m, label)
  /\ Forest(ns, m, label, up)
  /\ Greatest(ns, m, label)

-----------------------------------------------------------------------------

RoutingInit ==
  /\ nodes = Empty
  /\ metric = Empty
  /\ network = EmptyNetwork

ReplaceNodes ==
  /\ metric' = Empty
  /\ network' = EmptyNetwork

ChangeMetrics == UNCHANGED <<nodes, network>>

\* A solved network is a shortest forest of the graph as it is now.
Solve ==
  /\ UNCHANGED <<nodes, metric>>
  /\ LET label == RankIn(nodes, network')
         up    == ParentIn(nodes, network')
     IN /\ ShortestForest(nodes, metric, label, up)
        /\ network' = NetworkOf(label, up)

RoutingNext == ReplaceNodes \/ ChangeMetrics \/ Solve

RoutingSpec == RoutingInit /\ [][RoutingNext]_routingVars

=============================================================================
