-------------------------- MODULE CellPlanningProofs --------------------------
(***************************************************************************)
(* The candidate graphs of CellPlanning for any interfaces, rules, sectors *)
(* and parameters.                                                         *)
(***************************************************************************)
EXTENDS CellPlanning, FiniteSetTheorems, WellFoundedInduction, TLAPS

\* No pair of interfaces is in the manual edges twice, or in both directions.
ManualOnce == \A l, m \in manual : {l[1], l[2]} = {m[1], m[2]} => l = m

\* What the graphs and the results are made of.
GraphsTyped ==
  /\ installed \subseteq Interfaces
  /\ manual \subseteq ManualEdges
  /\ nodes \subseteq Interfaces
  /\ edges \subseteq [src : nodes, dst : nodes, rule : {NoRule} \cup DOMAIN Rules]
  /\ attrs \subseteq [src : nodes, dst : nodes, rule : {NoRule} \cup DOMAIN Rules]
  /\ metrics \in SUBSET Link
  /\ rpl \in {None} \cup SUBSET Link

\* The rest of TypeOK: sites are turned by less than a circle, features are of
\* the edges there are, and without a planner there are no results.
PlannerTyped ==
  /\ rotation \in [Sites -> 0..(Full - 1)]
  /\ features \in {{}, LinksOf(edges)}
  /\ nodes = {} => metrics = {} /\ rpl = None

IInv == GraphsTyped /\ PlannerTyped /\ ManualOnce /\ NoDuplicateLinks

-----------------------------------------------------------------------------

\* Edges of one rule between the same two in the same direction are the same.
LEMMA Edges ==
  ASSUME NEW s, NEW d, NEW r
  PROVE  /\ Edge(s, d, r).src = s /\ Edge(s, d, r).dst = d /\ Edge(s, d, r).rule = r
         /\ Ends(Edge(s, d, r)) = {s, d}
  BY DEF Edge, Ends

\* A primary edge goes from a sector to a client.
LEMMA PrimaryEdge ==
  ASSUME NEW ns, NEW turn, NEW p, NEW e \in PrimaryEdges(ns, turn, p)
  PROVE  /\ e = Edge(e.src, e.dst, NoRule)
         /\ e.src \in ns /\ Node[e.src].connected
         /\ e.dst \in ns /\ ~Node[e.dst].connected
<1> DEFINE reach(s) == {c \in ClientNodes(ns) :
                          /\ Compatible(s, c)
                          /\ Within(s, c, p.limit)
                          /\ p.aware => c \in Seen[s][turn[Node[s].site]]}
<1>1. PICK s \in CellNodes(ns) : e \in {Edge(s, c, NoRule) : c \in Nearest(s, reach(s), p.degree)}
  BY DEF PrimaryEdges
<1>2. PICK c \in Nearest(s, reach(s), p.degree) : e = Edge(s, c, NoRule)
  BY <1>1
<1>3. c \in reach(s)
  BY <1>2 DEF Nearest
<1>4. c \in ClientNodes(ns)
  BY <1>3
<1> QED
  BY <1>1, <1>2, <1>4, Edges DEF CellNodes, ClientNodes

\* So the primary graph of a cell has no edge twice.
LEMMA PrimaryGraph ==
  ASSUME NEW ns, NEW turn, NEW p
  PROVE  \A e, f \in PrimaryEdges(ns, turn, p) : Ends(e) = Ends(f) => e = f
<1> SUFFICES ASSUME NEW e \in PrimaryEdges(ns, turn, p), NEW f \in PrimaryEdges(ns, turn, p),
                    {e.src, e.dst} = {f.src, f.dst}
             PROVE  e = f
  BY DEF Ends
<1>1. e.src = f.src /\ e.dst = f.dst
  BY PrimaryEdge
<1> QED
  BY <1>1, PrimaryEdge

\* A proposed edge has two nodes and the rule that proposes it.
LEMMA ProposedEdge ==
  ASSUME NEW ns, NEW e \in Proposed(ns)
  PROVE  e = Edge(e.src, e.dst, e.rule) /\ e.src \in ns /\ e.dst \in ns /\ e.rule \in DOMAIN Rules
<1>1. PICK r \in DOMAIN Rules : e \in InternalEdges(ns, r) \/ e \in RfEdges(ns, r)
  BY DEF Proposed
<1>2. CASE e \in InternalEdges(ns, r)
  BY <1>1, <1>2, Edges DEF InternalEdges
<1>3. CASE e \in RfEdges(ns, r)
  <2> DEFINE reach(s) == {d \in Selected(ns, Rules[r].tech, Rules[r].destination) \ {s} :
                            /\ Compatible(s, d)
                            /\ Node[s].relay \/ Node[d].relay
                            /\ Within(s, d, Rules[r].limit)}
  <2>1. PICK s \in Selected(ns, Rules[r].tech, Rules[r].source) :
          e \in {Edge(s, d, r) : d \in Nearest(s, reach(s), Rules[r].degree)}
    BY <1>3 DEF RfEdges
  <2>2. PICK d \in Nearest(s, reach(s), Rules[r].degree) : e = Edge(s, d, r)
    BY <2>1
  <2>3. d \in reach(s)
    BY <2>2 DEF Nearest
  <2>4. s \in ns /\ d \in ns
    BY <2>1, <2>3 DEF Selected
  <2> QED
    BY <1>1, <2>2, <2>4, Edges
<1> QED
  BY <1>1, <1>2, <1>3

\* The rules add no edge to the kept ones twice.
LEMMA RuleGraphs ==
  ASSUME NEW ns \in SUBSET Interfaces, NEW kept,
         \A e, f \in kept : Ends(e) = Ends(f) => e = f
  PROVE  \A e, f \in RuleGraph(ns, kept) : Ends(e) = Ends(f) => e = f
<1> DEFINE first(e, f) == \/ e.rule < f.rule
                          \/ e.rule = f.rule /\ Node[e.src].index <= Node[f.src].index
           added == {e \in Proposed(ns) : /\ \A k \in kept : Ends(k) # Ends(e)
                                          /\ \A f \in Proposed(ns) : Ends(f) = Ends(e) => first(e, f)}
<1>1. RuleGraph(ns, kept) = kept \cup added
  BY DEF RuleGraph
<1>2. ASSUME NEW e \in added, NEW f \in added, Ends(e) = Ends(f) PROVE e = f
  <2>1. /\ e = Edge(e.src, e.dst, e.rule) /\ e.src \in Interfaces /\ e.rule \in DOMAIN Rules
        /\ f = Edge(f.src, f.dst, f.rule) /\ f.src \in Interfaces /\ f.rule \in DOMAIN Rules
    BY ProposedEdge
  <2>2. e.rule \in Int /\ f.rule \in Int
    BY <2>1, CellAssumption
  <2>3. first(e, f) /\ first(f, e)
    BY <1>2
  <2>4. e.rule = f.rule /\ Node[e.src].index = Node[f.src].index
    BY <2>1, <2>2, <2>3, CellAssumption
  <2>5. e.src = f.src
    BY <2>1, <2>4, CellAssumption
  <2>6. e.dst = f.dst
    BY <1>2, <2>5 DEF Ends
  <2> QED
    BY <2>1, <2>4, <2>5, <2>6
<1>3. \A e \in added, k \in kept : Ends(k) # Ends(e)
  OBVIOUS
<1> HIDE DEF added
<1> QED
  BY <1>1, <1>2, <1>3

\* Nor do they have nodes from elsewhere.
LEMMA RuleGraphTypes ==
  ASSUME NEW ns, NEW kept,
         kept \subseteq [src : ns, dst : ns, rule : {NoRule} \cup DOMAIN Rules]
  PROVE  RuleGraph(ns, kept) \subseteq [src : ns, dst : ns, rule : {NoRule} \cup DOMAIN Rules]
<1>1. ASSUME NEW e \in Proposed(ns)
      PROVE  e \in [src : ns, dst : ns, rule : {NoRule} \cup DOMAIN Rules]
  BY ProposedEdge DEF Edge
<1> QED
  BY <1>1 DEF RuleGraph

\* Primary graphs are of the nodes they are made from.
LEMMA PrimaryTypes ==
  ASSUME NEW ns, NEW turn, NEW p
  PROVE  PrimaryEdges(ns, turn, p) \subseteq [src : ns, dst : ns, rule : {NoRule} \cup DOMAIN Rules]
  BY PrimaryEdge DEF Edge

-----------------------------------------------------------------------------

\* The graph built from rules and manual edges.
LEMMA BuiltGraph ==
  ASSUME GraphsTyped, ManualOnce, Valid, NEW preserve \in BOOLEAN
  PROVE  LET kept == IF preserve THEN {Edge(l[1], l[2], NoRule) : l \in manual} ELSE {}
         IN /\ RuleGraph(installed, kept)
                 \subseteq [src : installed, dst : installed, rule : {NoRule} \cup DOMAIN Rules]
            /\ \A e, f \in RuleGraph(installed, kept) : Ends(e) = Ends(f) => e = f
<1> DEFINE manuals == {Edge(l[1], l[2], NoRule) : l \in manual}
           kept == IF preserve THEN manuals ELSE {}
<1>1. manuals \subseteq [src : installed, dst : installed, rule : {NoRule} \cup DOMAIN Rules]
  BY DEF Valid, Edge
<1>2. ASSUME NEW l \in manual, NEW m \in manual,
             Ends(Edge(l[1], l[2], NoRule)) = Ends(Edge(m[1], m[2], NoRule))
      PROVE  l = m
  <2>1. {l[1], l[2]} = {m[1], m[2]}
    BY <1>2, Edges
  <2> QED
    BY <2>1 DEF ManualOnce
<1>3. \A e, f \in manuals : Ends(e) = Ends(f) => e = f
  BY <1>2
<1> HIDE DEF manuals
<1>4. /\ kept \subseteq [src : installed, dst : installed, rule : {NoRule} \cup DOMAIN Rules]
      /\ \A e, f \in kept : Ends(e) = Ends(f) => e = f
  BY <1>1, <1>3
<1>5. installed \in SUBSET Interfaces
  BY DEF GraphsTyped
<1> HIDE DEF kept
<1>6. /\ RuleGraph(installed, kept)
           \subseteq [src : installed, dst : installed, rule : {NoRule} \cup DOMAIN Rules]
      /\ \A e, f \in RuleGraph(installed, kept) : Ends(e) = Ends(f) => e = f
  BY <1>4, <1>5, RuleGraphs, RuleGraphTypes
<1> QED
  BY <1>6 DEF kept, manuals

\* The graph metrics are computed on: the one there is, or one of the rules.
LEMMA ComputedGraph ==
  ASSUME GraphsTyped, NoDuplicateLinks
  PROVE  LET es == IF edges = {} THEN RuleGraph(nodes, {}) ELSE edges
         IN /\ es \subseteq [src : nodes, dst : nodes, rule : {NoRule} \cup DOMAIN Rules]
            /\ \A e, f \in es : Ends(e) = Ends(f) => e = f
            /\ LinksOf(es) \subseteq Link
<1> DEFINE es == IF edges = {} THEN RuleGraph(nodes, {}) ELSE edges
<1>1. /\ RuleGraph(nodes, {}) \subseteq [src : nodes, dst : nodes, rule : {NoRule} \cup DOMAIN Rules]
      /\ \A e, f \in RuleGraph(nodes, {}) : Ends(e) = Ends(f) => e = f
  BY RuleGraphs, RuleGraphTypes DEF GraphsTyped
<1>2. /\ es \subseteq [src : nodes, dst : nodes, rule : {NoRule} \cup DOMAIN Rules]
      /\ \A e, f \in es : Ends(e) = Ends(f) => e = f
  BY <1>1 DEF GraphsTyped, NoDuplicateLinks
<1> HIDE DEF es
<1>3. LinksOf(es) \subseteq Link
  BY <1>2 DEF GraphsTyped, LinksOf, LinkOf, Link
<1> QED
  BY <1>2, <1>3 DEF es

\* The graph of a request: of links between nodes, each once.
LEMMA RequestedGraph ==
  ASSUME GraphsTyped, NEW ls \in Requests, Computable({Edge(l[1], l[2], RuleOf(l)) : l \in ls})
  PROVE  LET es == {Edge(l[1], l[2], RuleOf(l)) : l \in ls}
         IN /\ es \subseteq [src : nodes, dst : nodes, rule : {NoRule} \cup DOMAIN Rules]
            /\ \A e, f \in es : Ends(e) = Ends(f) => e = f
            /\ LinksOf(es) \subseteq Link
<1> DEFINE es == {Edge(l[1], l[2], RuleOf(l)) : l \in ls}
<1>1. ASSUME NEW l \in ls PROVE RuleOf(l) \in {NoRule} \cup DOMAIN Rules
  BY DEF RuleOf, GraphsTyped
<1>2. ASSUME NEW l \in ls PROVE l[1] \in nodes /\ l[2] \in nodes
  <2>1. Ends(Edge(l[1], l[2], RuleOf(l))) \subseteq nodes
    BY DEF Computable
  <2> QED
    BY <2>1, Edges
<1>3. es \subseteq [src : nodes, dst : nodes, rule : {NoRule} \cup DOMAIN Rules]
  BY <1>1, <1>2 DEF Edge
<1>4. ASSUME NEW l \in ls, NEW m \in ls,
             Ends(Edge(l[1], l[2], RuleOf(l))) = Ends(Edge(m[1], m[2], RuleOf(m)))
      PROVE  l = m
  <2>1. {l[1], l[2]} = {m[1], m[2]}
    BY <1>4, Edges
  <2> QED
    BY <2>1, CellAssumption
<1>5. \A e, f \in es : Ends(e) = Ends(f) => e = f
  BY <1>4
<1> HIDE DEF es
<1>6. LinksOf(es) \subseteq Link
  BY <1>3 DEF GraphsTyped, LinksOf, LinkOf, Link
<1> QED
  BY <1>3, <1>5, <1>6 DEF es

\* What a tuning leaves: a graph of sectors to clients, in which no removed
\* sector has a link, of the interfaces it started from.
LEMMA TunedGraph ==
  ASSUME NEW ns, NEW turn, NEW sites, NEW apply \in BOOLEAN, NEW prune \in BOOLEAN, NEW p,
         NEW w, TuneSectors(ns, PrimaryEdges(ns, turn, p), turn, sites, apply, prune, p, w),
         ns = installed
  PROVE  /\ \E t : edges' = PrimaryEdges(ns, t, p)
         /\ installed' \subseteq installed
         /\ \A i \in installed \ installed', e \in edges' : i \notin Ends(e)
<1> DEFINE turned == IF apply THEN Suggested(ns, sites, turn, w) ELSE turn
           graph == PrimaryEdges(ns, turned, p)
<1>1. (IF apply THEN graph ELSE PrimaryEdges(ns, turn, p)) = graph
  OBVIOUS
<1>2. /\ installed' = IF prune THEN installed \ EmptySectors(ns, sites, graph) ELSE installed
      /\ edges' = graph
  BY <1>1 DEF TuneSectors
<1>3. ASSUME NEW i \in EmptySectors(ns, sites, graph), NEW e \in graph PROVE i \notin {e.src, e.dst}
  <2>1. Node[i].connected /\ e.src # i
    BY DEF EmptySectors, CellNodes
  <2>2. ~Node[e.dst].connected
    BY PrimaryEdge
  <2> QED
    BY <2>1, <2>2
<1> QED
  BY <1>2, <1>3 DEF Ends

-----------------------------------------------------------------------------

\* Any rotation set or suggested is within the circle.
LEMMA NoTurn == [s \in Sites |-> 0] \in [Sites -> 0..(Full - 1)]
  BY CellAssumption

\* At the start there is no graph.
LEMMA InitInv == Init => IInv
  BY NoTurn DEF Init, IInv, GraphsTyped, PlannerTyped, ManualOnce, NoDuplicateLinks, Link

\* Every step keeps the manual edges apart.
LEMMA NextManual == ManualOnce /\ [Next]_vars => ManualOnce'
<1> SUFFICES ASSUME ManualOnce, [Next]_vars PROVE ManualOnce'
  OBVIOUS
<1>1. ASSUME NEW l, AddManual(l) PROVE ManualOnce'
  BY <1>1 DEF AddManual, ManualOnce
<1>2. ASSUME NEW l, RemoveManual(l) PROVE ManualOnce'
  BY <1>2 DEF RemoveManual, ManualOnce
<1>3. CASE Define
  BY <1>3 DEF Define, ManualOnce
<1>4. ASSUME UNCHANGED manual PROVE ManualOnce'
  BY <1>4 DEF ManualOnce
<1>5. (\E l : AddManual(l) \/ RemoveManual(l)) \/ Define \/ UNCHANGED manual
  BY DEF Next, BuildGraph, BuildCell, Rebuild, Suggest, Prune, Tune, RemoveSectors, Rotate,
         Compute, ComputeRequested, Assign, Solve, scenarioVars, vars
<1> QED
  BY <1>1, <1>2, <1>3, <1>4, <1>5

\* A graph of new edges among the nodes, and what is left of the results.
LEMMA NewGraph ==
  ASSUME GraphsTyped, ManualOnce, NoDuplicateLinks, [Next]_vars
  PROVE  /\ GraphsTyped'
         /\ NoDuplicateLinks'
         /\ edges' # edges => metrics' \in {{}, LinksOf(edges')} /\ (rpl' = None \/ metrics' = LinksOf(edges'))
         /\ \A i \in installed \ installed', e \in edges' : i \notin Ends(e)
<1> DEFINE Goal == /\ GraphsTyped'
                   /\ NoDuplicateLinks'
                   /\ edges' # edges => /\ metrics' \in {{}, LinksOf(edges')}
                                        /\ rpl' = None \/ metrics' = LinksOf(edges')
                   /\ \A i \in installed \ installed', e \in edges' : i \notin Ends(e)
           Typed(es, ns) == es \subseteq [src : ns, dst : ns, rule : {NoRule} \cup DOMAIN Rules]
           Single(es) == \A e, f \in es : Ends(e) = Ends(f) => e = f
<1> USE DEF scenarioVars, graphVars, resultVars
<1>0. ASSUME Typed(edges', nodes'), Single(edges'), StoreAttrs, ClearResults,
             installed' \subseteq installed, manual' = manual,
             nodes' \subseteq Interfaces,
             \A i \in installed \ installed', e \in edges' : i \notin Ends(e)
      PROVE  Goal
  BY <1>0 DEF GraphsTyped, NoDuplicateLinks, ClearResults, StoreAttrs
<1>1. CASE Define
  <2>1. /\ installed' = Interfaces /\ manual' = {} /\ nodes' = {} /\ edges' = {} /\ attrs' = {}
        /\ metrics' = {} /\ rpl' = None
    BY <1>1 DEF Define
  <2> QED
    BY <2>1 DEF GraphsTyped, NoDuplicateLinks
<1>2. ASSUME NEW l \in ManualEdges, AddManual(l) \/ RemoveManual(l) PROVE Goal
  <2>1. UNCHANGED <<installed, nodes, edges, attrs, metrics, rpl>> /\ manual' \subseteq ManualEdges
    BY <1>2 DEF AddManual, RemoveManual, GraphsTyped
  <2> QED
    BY <2>1 DEF GraphsTyped, NoDuplicateLinks
<1>3. ASSUME NEW preserve \in BOOLEAN, BuildGraph(preserve) PROVE Goal
  <2>1. /\ Valid /\ nodes' = installed /\ StoreAttrs /\ ClearResults /\ UNCHANGED <<installed, manual>>
        /\ edges' = RuleGraph(installed,
                              IF preserve THEN {Edge(l[1], l[2], NoRule) : l \in manual} ELSE {})
    BY <1>3 DEF BuildGraph, NewPlanner
  <2>2. Typed(edges', installed) /\ Single(edges')
    BY <2>1, BuiltGraph
  <2> QED
    BY <1>0, <2>1, <2>2 DEF GraphsTyped
<1>4. ASSUME NEW ns, NEW t, NEW p, edges' = PrimaryEdges(ns, t, p), nodes' = ns,
             ns \subseteq Interfaces, StoreAttrs, ClearResults, installed' \subseteq installed, manual' = manual,
             \A i \in installed \ installed', e \in edges' : i \notin Ends(e)
      PROVE  Goal
  <2>1. Typed(edges', ns) /\ Single(edges')
    BY <1>4, PrimaryGraph, PrimaryTypes
  <2> QED
    BY <1>0, <1>4, <2>1
<1>5. ASSUME NEW p \in Params, BuildCell(p) PROVE Goal
  <2>1. edges' = PrimaryEdges(installed, rotation', p) /\ nodes' = installed
        /\ StoreAttrs /\ ClearResults /\ UNCHANGED <<installed, manual>>
    BY <1>5 DEF BuildCell, NewPlanner
  <2> QED
    BY <1>4, <2>1 DEF GraphsTyped
<1>6. ASSUME NEW p \in Params, Rebuild(p) PROVE Goal
  <2>1. edges' = PrimaryEdges(nodes, rotation, p) /\ nodes' = nodes
        /\ StoreAttrs /\ ClearResults /\ UNCHANGED <<installed, manual>>
    BY <1>6 DEF Rebuild
  <2> QED
    BY <1>4, <2>1 DEF GraphsTyped
<1>7. ASSUME NEW sites, NEW apply \in BOOLEAN, NEW prune \in BOOLEAN, NEW p \in Params,
             NEW w, Tune(sites, apply, prune, p, w)
      PROVE  Goal
  <2> DEFINE turn == [s \in Sites |-> 0]
  <2>1. /\ nodes' = installed /\ StoreAttrs /\ ClearResults /\ UNCHANGED manual
        /\ TuneSectors(installed, PrimaryEdges(installed, turn, p), turn, sites, apply, prune, p, w)
    BY <1>7 DEF Tune, NewPlanner
  <2> HIDE DEF turn
  <2>2. /\ \E t : edges' = PrimaryEdges(installed, t, p)
        /\ installed' \subseteq installed
        /\ \A i \in installed \ installed', e \in edges' : i \notin Ends(e)
    BY <2>1, TunedGraph
  <2> QED
    BY <1>4, <2>1, <2>2 DEF GraphsTyped
<1>8. ASSUME UNCHANGED <<scenarioVars, nodes, graphVars>>, metrics' \in SUBSET Link,
             rpl' \in {None} \cup SUBSET Link
      PROVE  Goal
  BY <1>8 DEF GraphsTyped, NoDuplicateLinks
<1>9. ASSUME NEW sites, NEW w, Suggest(sites, w) PROVE Goal
  BY <1>8, <1>9 DEF Suggest, GraphsTyped
<1>10. ASSUME NEW site, NEW turn, Rotate(site, turn) PROVE Goal
  BY <1>8, <1>10 DEF Rotate, GraphsTyped
<1>11. ASSUME NEW is, RemoveSectors(is) PROVE Goal
  BY <1>0, <1>11 DEF RemoveSectors, GraphsTyped
<1>12. CASE Compute
  <2> DEFINE es == IF edges = {} THEN RuleGraph(nodes, {}) ELSE edges
  <2>1. Typed(es, nodes) /\ Single(es) /\ LinksOf(es) \subseteq Link
    BY ComputedGraph
  <2>2. edges' = es /\ UNCHANGED <<scenarioVars, nodes>>
    BY <1>12 DEF Compute
  <2>3. IF edges = {} THEN StoreAttrs ELSE UNCHANGED attrs
    BY <1>12 DEF Compute
  <2>4. \/ metrics' = LinksOf(es) /\ IF edges = {} THEN rpl' = None ELSE UNCHANGED rpl
        \/ IF edges = {} THEN ClearResults ELSE UNCHANGED resultVars
    BY <1>12 DEF Compute
  <2>5. CASE edges = {}
    <3>1. rpl' = None /\ metrics' \in {{}, LinksOf(es)} /\ attrs' = edges'
      BY <2>3, <2>4, <2>5 DEF ClearResults, StoreAttrs
    <3> HIDE DEF es
    <3> QED
      BY <2>1, <2>2, <3>1 DEF GraphsTyped, NoDuplicateLinks
  <2>6. CASE edges # {}
    <3>1. es = edges
      BY <2>6
    <3> HIDE DEF es
    <3>2. rpl' = rpl /\ metrics' \in {metrics, LinksOf(es)} /\ attrs' = attrs
      BY <2>3, <2>4, <2>6
    <3> QED
      BY <1>8, <2>1, <2>2, <3>1, <3>2 DEF GraphsTyped
  <2> QED
    BY <2>5, <2>6
<1>16. ASSUME NEW ls \in Requests, ComputeRequested(ls) PROVE Goal
  <2> DEFINE es == {Edge(l[1], l[2], RuleOf(l)) : l \in ls}
  <2>1. UNCHANGED <<scenarioVars, nodes, attrs, rpl>>
    BY <1>16 DEF ComputeRequested
  <2>2. CASE Computable(es) /\ edges' = es /\ metrics' = LinksOf(es)
    <3>1. Typed(es, nodes) /\ Single(es) /\ LinksOf(es) \subseteq Link
      BY <2>2, RequestedGraph
    <3>2. edges' = es /\ metrics' = LinksOf(es)
      BY <2>2
    <3> HIDE DEF es
    <3> QED
      BY <2>1, <3>1, <3>2 DEF GraphsTyped, NoDuplicateLinks
  <2>3. CASE UNCHANGED <<edges, metrics>>
    BY <1>8, <2>1, <2>3 DEF GraphsTyped
  <2> QED
    BY <1>16, <2>2, <2>3 DEF ComputeRequested
<1>13. ASSUME NEW ls \in Assignments, Assign(ls) PROVE Goal
  BY <1>8, <1>13, CellAssumption DEF Assign, GraphsTyped
<1>14. CASE Solve
  BY <1>8, <1>14 DEF Solve, GraphsTyped
<1>15. CASE UNCHANGED vars
  BY <1>8, <1>15 DEF vars, GraphsTyped
<1> QED
  BY <1>1, <1>2, <1>3, <1>5, <1>6, <1>7, <1>9, <1>10, <1>11, <1>12, <1>13, <1>14, <1>15, <1>16
  DEF Next, Prune

-----------------------------------------------------------------------------
\* The rotation search

\* A non-empty set of naturals has a least element.
LEMMA LeastNat ==
  ASSUME NEW T \in SUBSET Nat, T # {}
  PROVE  \E x \in T : \A y \in T : x <= y
<1>1. \E x \in T : \A y \in T : ~(<<y, x>> \in OpToRel(<, Nat))
  BY NatLessThanWellFounded, WFMin
<1>2. PICK x \in T : \A y \in T : ~(<<y, x>> \in OpToRel(<, Nat))
  BY <1>1
<1>3. ASSUME NEW y \in T PROVE x <= y
  <2>1. x \in Nat /\ y \in Nat
    BY <1>2
  <2>2. ~(y < x)
    BY <1>2, <2>1 DEF OpToRel
  <2> QED
    BY <2>1, <2>2
<1> QED
  BY <1>3

\* So Min chooses a member.
LEMMA MinIsMember ==
  ASSUME NEW T \in SUBSET Nat, T # {}
  PROVE  Min(T) \in T
  BY LeastNat DEF Min

\* The loads of some interfaces: a finite set of interfaces each.
LoadsOf(a) ==
  /\ DOMAIN a \subseteq Interfaces
  /\ \A i \in DOMAIN a : a[i] \subseteq Interfaces

\* There is a root of every number.
LEMMA RootIsNat ==
  ASSUME NEW n \in Nat
  PROVE  Root(n) \in Nat
<1> DEFINE square == Precision * Precision * n
           roots == {r \in Nat : square <= r * r}
           top == Precision * n
<1>1. Precision \in Nat /\ Precision >= 1
  BY CellAssumption
<1>2. square \in Nat /\ top \in Nat
  BY <1>1
<1>3. square <= top * top
  <2>1. n <= n * n
    OBVIOUS
  <2>2. Precision * Precision \in Nat
    BY <1>1
  <2>3. (Precision * Precision) * n <= (Precision * Precision) * (n * n)
    BY <2>1, <2>2
  <2>4. (Precision * Precision) * (n * n) = (Precision * n) * (Precision * n)
    BY <1>1
  <2> QED
    BY <2>3, <2>4
<1> HIDE DEF square, top
<1>4. PICK x \in roots : \A y \in roots : x <= y
  <2>1. roots \in SUBSET Nat /\ top \in roots
    BY <1>2, <1>3
  <2> HIDE DEF roots
  <2> QED
    BY <2>1, LeastNat
<1>5. x \in 0..top /\ square <= x * x
  BY <1>2, <1>3, <1>4
<1>6. x # 0 => (x - 1) * (x - 1) < square
  <2>1. CASE x # 0
    <3>1. x - 1 \in Nat /\ ~(x <= x - 1)
      BY <1>4, <2>1
    <3>2. ~(square <= (x - 1) * (x - 1))
      BY <1>4, <3>1
    <3>3. (x - 1) * (x - 1) \in Nat
      BY <3>1
    <3> QED
      BY <1>2, <3>2, <3>3
  <2> QED
    BY <2>1
<1>7. Root(n) \in 0..top
  BY <1>5, <1>6 DEF Root, square, top
<1> QED
  BY <1>2, <1>7

Fraction == Int \X (Nat \ {0})

\* What a score is made of: numbers, and a fraction with a positive denominator.
LEMMA ScoreTypes ==
  ASSUME NEW a, LoadsOf(a), NEW clients \in Nat, NEW w \in Weights
  PROVE  /\ Cardinality(CoveredIn(a)) \in Nat
         /\ Total(a) \in Nat
         /\ Spread(a) \in Nat
         /\ Score(a, clients, w) \in Fraction
<1> DEFINE served == UNION {{i} \X a[i] : i \in DOMAIN a}
           twice == UNION {{i} \X (a[i] \X a[i]) : i \in DOMAIN a}
           n == Cardinality(DOMAIN a)
           squares == Cardinality(twice)
           covered == Cardinality(CoveredIn(a))
<1>1. IsFiniteSet(Interfaces) /\ IsFiniteSet(Interfaces \X Interfaces)
      /\ IsFiniteSet(Interfaces \X (Interfaces \X Interfaces))
  BY CellAssumption, FS_Product
<1>2. CoveredIn(a) \subseteq Interfaces /\ DOMAIN a \subseteq Interfaces
  BY DEF CoveredIn, LoadsOf
<1>3. served \subseteq Interfaces \X Interfaces
  BY DEF LoadsOf
<1>4. twice \subseteq Interfaces \X (Interfaces \X Interfaces)
  BY DEF LoadsOf
<1>5. covered \in Nat /\ n \in Nat /\ Total(a) \in Nat /\ squares \in Nat
  <2>1. Total(a) = Cardinality(served)
    BY DEF Total
  <2> HIDE DEF served, twice
  <2>2. IsFiniteSet(CoveredIn(a)) /\ IsFiniteSet(DOMAIN a) /\ IsFiniteSet(served) /\ IsFiniteSet(twice)
    BY <1>1, <1>2, <1>3, <1>4, FS_Subset
  <2> QED
    BY <2>1, <2>2, FS_CardinalityType
<1>6. Spread(a) = Root(AbsInt(n * squares - Total(a) * Total(a)))
  BY DEF Spread
<1> HIDE DEF n, squares, covered
<1>7. AbsInt(n * squares - Total(a) * Total(a)) \in Nat
  BY <1>5 DEF AbsInt
<1>8. Spread(a) \in Nat
  BY <1>6, <1>7, RootIsNat
<1>9. Score(a, clients, w) =
        IF Total(a) = 0 THEN <<w.uncovered * (clients - covered) * Precision, 1>>
        ELSE <<w.uncovered * (clients - covered) * Precision * Total(a)
                 + w.imbalance * clients * Spread(a), Total(a)>>
  BY DEF Score, covered
<1>10. w.uncovered \in Nat /\ w.imbalance \in Nat /\ Precision \in Nat
  BY CellAssumption
<1>11. /\ w.uncovered * (clients - covered) * Precision \in Int
       /\ w.uncovered * (clients - covered) * Precision * Total(a)
            + w.imbalance * clients * Spread(a) \in Int
  BY <1>5, <1>8, <1>10
<1>12. Score(a, clients, w) \in Fraction
  BY <1>5, <1>9, <1>11 DEF Fraction
<1> QED
  BY <1>5, <1>8, <1>12 DEF covered

\* A product grows with a factor when the others are natural numbers.
LEMMA Multiples ==
  ASSUME NEW m \in Nat, NEW q \in Nat, NEW r \in Nat
  PROVE  \A i, j \in Int : i <= j => m * i * q * r <= m * j * q * r
<1> SUFFICES ASSUME NEW i \in Int, NEW j \in Int, i <= j
             PROVE  m * i * q * r <= m * j * q * r
  OBVIOUS
<1>1. m * i \in Int /\ m * j \in Int /\ m * i <= m * j
  OBVIOUS
<1>2. \A x, y \in Int, n \in Nat : x <= y => x * n <= y * n
  OBVIOUS
<1>3. m * i * q \in Int /\ m * j * q \in Int /\ m * i * q <= m * j * q
  BY <1>1, <1>2
<1> QED
  BY <1>2, <1>3

\* Lower is a strict order of scores.
LEMMA LowerIsAnOrder ==
  ASSUME NEW a \in Fraction, NEW b \in Fraction, NEW c \in Fraction
  PROVE  /\ ~Lower(a, a)
         /\ Lower(a, b) /\ Lower(b, c) => Lower(a, c)
<1>1. /\ a[1] \in Int /\ a[2] \in Nat \ {0}
      /\ b[1] \in Int /\ b[2] \in Nat \ {0}
      /\ c[1] \in Int /\ c[2] \in Nat \ {0}
  BY DEF Fraction
<1>2. ~(a[1] * a[2] < a[1] * a[2])
  BY <1>1
<1>3. PICK l \in Int, m \in Int, n \in Int : l = a[1] /\ m = b[1] /\ n = c[1]
  BY <1>1
<1>4. PICK p \in Nat \ {0}, q \in Nat \ {0}, r \in Nat \ {0} :
        p = a[2] /\ q = b[2] /\ r = c[2]
  BY <1>1
<1>5. ASSUME l * q < m * p, m * r < n * q PROVE l * r < n * p
  <2>1. (l * q) * r < (m * p) * r /\ (m * r) * p < (n * q) * p
    BY <1>5
  <2>2. (m * p) * r = (m * r) * p /\ (l * q) * r = (l * r) * q /\ (n * q) * p = (n * p) * q
    OBVIOUS
  <2>3. l * r \in Int /\ n * p \in Int /\ (l * r) * q < (n * p) * q
    BY <2>1, <2>2
  <2> QED
    BY <2>3
<1> QED
  BY <1>2, <1>3, <1>4, <1>5 DEF Lower

\* Of finitely many scores there are some that no others are lower than: those
\* with the fewest lower ones.
LEMMA BestExists ==
  ASSUME NEW T, IsFiniteSet(T), T # {}, NEW score, \A t \in T : score[t] \in Fraction
  PROVE  \E t \in T : \A u \in T : ~Lower(score[u], score[t])
<1> DEFINE Below(t) == {u \in T : Lower(score[u], score[t])}
           counts == {Cardinality(Below(t)) : t \in T}
<1>1. ASSUME NEW t \in T PROVE IsFiniteSet(Below(t)) /\ Cardinality(Below(t)) \in Nat
  <2>1. Below(t) \in SUBSET T
    OBVIOUS
  <2> HIDE DEF Below
  <2> QED
    BY <2>1, FS_Subset, FS_CardinalityType
<1>2. PICK t \in T : \A u \in T : Cardinality(Below(t)) <= Cardinality(Below(u))
  <2> HIDE DEF Below
  <2>1. counts \in SUBSET Nat /\ counts # {}
    BY <1>1
  <2>2. PICK n \in counts : \A m \in counts : n <= m
    <3> HIDE DEF counts
    <3> QED
      BY <2>1, LeastNat
  <2>3. \A u \in T : n <= Cardinality(Below(u))
    BY <2>2
  <2>4. \E t \in T : n = Cardinality(Below(t))
    BY <2>2
  <2> QED
    BY <2>3, <2>4
<1>3. ASSUME NEW u \in T, Lower(score[u], score[t]) PROVE FALSE
  <2>1. Below(u) \in SUBSET Below(t)
    BY <1>2, <1>3, LowerIsAnOrder
  <2>2. u \in Below(t) /\ u \notin Below(u)
    BY <1>3, LowerIsAnOrder
  <2> HIDE DEF Below
  <2>3. /\ Cardinality(Below(u)) <= Cardinality(Below(t))
        /\ Cardinality(Below(t)) = Cardinality(Below(u)) => Below(t) = Below(u)
    BY <1>1, <1>2, <2>1, FS_Subset
  <2>4. Cardinality(Below(t)) <= Cardinality(Below(u))
    BY <1>2
  <2> QED
    BY <1>1, <1>2, <2>2, <2>3, <2>4
<1> QED
  BY <1>2, <1>3

\* The loads of a rotation are loads, and cover the clients the sectors reach.
LEMMA LoadsReach ==
  ASSUME NEW ns \in SUBSET Interfaces, NEW site, NEW turn \in 0..(Full - 1)
  PROVE  /\ LoadsOf(Loads(ns, site, turn))
         /\ CoveredIn(Loads(ns, site, turn)) = Reach(ns, site, turn)
<1> DEFINE a == Loads(ns, site, turn)
<1>1. DOMAIN a = SectorsOf(ns, site)
  BY DEF Loads
<1>2. \A i \in SectorsOf(ns, site) :
        a[i] = IF Node[i].azimuth = None THEN {} ELSE ClientNodes(ns) \cap Seen[i][turn]
  BY DEF Loads
<1>3. SectorsOf(ns, site) \subseteq Interfaces /\ ClientNodes(ns) \subseteq Interfaces
  BY DEF SectorsOf, CellNodes, ClientNodes
<1> HIDE DEF a
<1>4. LoadsOf(a)
  BY <1>1, <1>2, <1>3 DEF LoadsOf
<1>5. ASSUME NEW c \in CoveredIn(a) PROVE c \in Reach(ns, site, turn)
  <2>1. PICK i \in SectorsOf(ns, site) : c \in a[i]
    BY <1>1, <1>5 DEF CoveredIn
  <2> QED
    BY <1>2, <2>1 DEF Reach
<1>6. ASSUME NEW c \in Reach(ns, site, turn) PROVE c \in CoveredIn(a)
  <2>1. PICK i \in SectorsOf(ns, site) : Node[i].azimuth # None /\ c \in Seen[i][turn]
    BY <1>6 DEF Reach
  <2>2. c \in a[i]
    BY <1>2, <1>6, <2>1 DEF Reach
  <2> QED
    BY <1>1, <2>1, <2>2 DEF CoveredIn
<1>7. CoveredIn(a) = Reach(ns, site, turn)
  BY <1>5, <1>6
<1> QED
  BY <1>4, <1>7 DEF a

\* The clients of the planner are a number.
LEMMA ClientCount ==
  ASSUME NEW ns \in SUBSET Interfaces
  PROVE  Cardinality(ClientNodes(ns)) \in Nat
<1>1. ClientNodes(ns) \in SUBSET Interfaces
  BY DEF ClientNodes
<1> QED
  BY <1>1, CellAssumption, FS_Subset, FS_CardinalityType

\* The score of a rotation of a site.
TurnScore(ns, site, t, w) == Score(Loads(ns, site, t), Cardinality(ClientNodes(ns)), w)

\* The suggestion is the rotation there is or one with a lower score.
LEMMA BestTurnIsLower ==
  ASSUME NEW ns \in SUBSET Interfaces, NEW site, NEW current \in 0..(Full - 1), NEW w \in Weights
  PROVE  /\ BestTurn(ns, site, current, w) \in 0..(Full - 1)
         /\ \/ BestTurn(ns, site, current, w) = current
            \/ Lower(TurnScore(ns, site, BestTurn(ns, site, current, w), w),
                     TurnScore(ns, site, current, w))
<1> DEFINE turns == {(n * Step) % Full : n \in 0..(Full \div Step - 1)}
           score == [t \in turns \cup {current} |-> TurnScore(ns, site, t, w)]
           improving == {t \in turns : Lower(score[t], score[current])}
           best == {t \in improving : \A u \in improving : ~Lower(score[u], score[t])}
<1>1. Full \in Nat \ {0} /\ Step \in Nat
  BY CellAssumption
<1>2. turns \subseteq 0..(Full - 1)
  <2>1. \A m \in Int : m % Full \in 0..(Full - 1)
    BY <1>1
  <2>2. Full \div Step \in Int
    BY <1>1, CellAssumption
  <2>3. \A n \in 0..(Full \div Step - 1) : n * Step \in Int
    BY <1>1, <2>2
  <2> QED
    BY <2>1, <2>3
<1>3. BestTurn(ns, site, current, w) = IF improving = {} THEN current ELSE Min(best)
  BY DEF BestTurn, TurnScore
<1> HIDE DEF turns
<1>4. CASE improving = {}
  BY <1>3, <1>4
<1>5. CASE improving # {}
  <2>1. \A t \in turns \cup {current} : score[t] \in Fraction
    BY <1>2, LoadsReach, ScoreTypes, ClientCount DEF TurnScore
  <2>2. IsFiniteSet(improving) /\ improving \subseteq 0..(Full - 1) /\ improving \subseteq turns
    <3>1. improving \in SUBSET (0..(Full - 1)) /\ improving \subseteq turns
      BY <1>2
    <3>2. IsFiniteSet(0..(Full - 1))
      BY <1>1, FS_Interval
    <3> HIDE DEF improving
    <3> QED
      BY <3>1, <3>2, FS_Subset
  <2>3. best # {}
    <3> HIDE DEF improving, score
    <3>1. \E t \in improving : \A u \in improving : ~Lower(score[u], score[t])
      BY <1>5, <2>1, <2>2, BestExists
    <3> QED
      BY <3>1
  <2>4. Min(best) \in best
    <3>1. best \in SUBSET Nat
      <4>1. best \subseteq improving
        OBVIOUS
      <4> HIDE DEF best, improving
      <4>2. 0..(Full - 1) \subseteq Nat
        BY <1>1
      <4> QED
        BY <2>2, <4>1, <4>2
    <3> HIDE DEF best
    <3> QED
      BY <2>3, <3>1, MinIsMember
  <2>5. Min(best) \in improving
    BY <2>4
  <2>6. /\ Min(best) \in turns
        /\ Lower(TurnScore(ns, site, Min(best), w), TurnScore(ns, site, current, w))
    <3> HIDE DEF best
    <3> QED
      BY <2>5
  <2> HIDE DEF best, improving
  <2> QED
    BY <1>2, <1>3, <1>5, <2>6
<1> QED
  BY <1>4, <1>5

\* A lower score with less coverage takes a spread that pays for it.
LEMMA LossAgainstSpread ==
  ASSUME NEW a, LoadsOf(a), NEW b, LoadsOf(b), NEW clients \in Nat, NEW w \in Weights,
         Lower(Score(a, clients, w), Score(b, clients, w))
  PROVE  w.uncovered * (Cardinality(CoveredIn(b)) - Cardinality(CoveredIn(a))) * Precision * Total(b)
           <= w.imbalance * clients * Spread(b)
<1> DEFINE ca == Cardinality(CoveredIn(a))
           cb == Cardinality(CoveredIn(b))
           A == w.uncovered * (clients - ca) * Precision
           B == w.uncovered * (clients - cb) * Precision
           C == w.imbalance * clients * Spread(b)
           D == w.imbalance * clients * Spread(a)
<1>1. /\ ca \in Nat /\ cb \in Nat /\ Total(a) \in Nat /\ Total(b) \in Nat
      /\ Spread(a) \in Nat /\ Spread(b) \in Nat
      /\ w.uncovered \in Nat /\ w.imbalance \in Nat /\ Precision \in Nat
  BY ScoreTypes, CellAssumption
<1>2. /\ Score(a, clients, w) = IF Total(a) = 0 THEN <<A, 1>> ELSE <<A * Total(a) + D, Total(a)>>
      /\ Score(b, clients, w) = IF Total(b) = 0 THEN <<B, 1>> ELSE <<B * Total(b) + C, Total(b)>>
  BY DEF Score
<1>3. A \in Int /\ B \in Int /\ C \in Nat /\ D \in Nat
  <2>1. clients - ca \in Int /\ clients - cb \in Int
    BY <1>1
  <2>2. w.imbalance * clients \in Nat
    BY <1>1
  <2> QED
    BY <1>1, <2>1, <2>2
<1>4. w.uncovered * (cb - ca) * Precision = A - B
  <2> HIDE DEF ca, cb
  <2>1. w.uncovered * (cb - ca) = w.uncovered * (clients - ca) - w.uncovered * (clients - cb)
    BY <1>1
  <2>2. w.uncovered * (clients - ca) \in Int /\ w.uncovered * (clients - cb) \in Int
    BY <1>1
  <2> QED
    BY <1>1, <2>1, <2>2
<1> HIDE DEF A, B, C, D
<1>5. CASE Total(b) = 0
  BY <1>3, <1>4, <1>5 DEF C
<1>6. CASE Total(b) # 0 /\ Total(a) = 0
  <2>1. A * Total(b) < (B * Total(b) + C) * 1
    BY <1>2, <1>6 DEF Lower
  <2>2. (A - B) * Total(b) = A * Total(b) - B * Total(b)
    BY <1>1, <1>3
  <2>3. A * Total(b) \in Int /\ B * Total(b) \in Int
    BY <1>1, <1>3
  <2>4. (A - B) * Total(b) <= C
    BY <1>3, <2>1, <2>2, <2>3
  <2> QED
    BY <1>4, <2>4 DEF C
<1>7. CASE Total(b) # 0 /\ Total(a) # 0
  <2> DEFINE x == A * Total(b)
             y == B * Total(b) + C
  <2>1. (A * Total(a) + D) * Total(b) < y * Total(a)
    BY <1>2, <1>7 DEF Lower
  <2>2. x \in Int /\ y \in Int /\ B * Total(b) \in Int
    BY <1>1, <1>3
  <2>3. (A * Total(a) + D) * Total(b) = x * Total(a) + D * Total(b)
    BY <1>1, <1>3
  <2>4. D * Total(b) \in Nat
    BY <1>1, <1>3
  <2>5. (A - B) * Total(b) = x - B * Total(b)
    BY <1>1, <1>3
  <2> HIDE DEF x
  <2>6. x * Total(a) < y * Total(a)
    <3> HIDE DEF y
    <3>1. x * Total(a) \in Int /\ y * Total(a) \in Int
      BY <1>1, <2>2
    <3> QED
      BY <2>1, <2>3, <2>4, <3>1
  <2>7. x < y
    <3> HIDE DEF y
    <3>1. y <= x => y * Total(a) <= x * Total(a)
      BY <1>1, <2>2
    <3>2. x * Total(a) \in Int /\ y * Total(a) \in Int
      BY <1>1, <2>2
    <3> QED
      BY <2>2, <2>6, <3>1, <3>2
  <2>8. (A - B) * Total(b) <= C
    BY <1>3, <2>2, <2>5, <2>7
  <2> QED
    BY <1>4, <2>8 DEF C
<1> QED
  BY <1>1, <1>5, <1>6, <1>7

\* So what a suggestion no longer reaches is paid for.
LEMMA SuggestionsPay ==
  ASSUME NEW ns \in SUBSET Interfaces, NEW sites, NEW turn \in [Sites -> 0..(Full - 1)],
         NEW s \in Sites, NEW w \in Weights
  PROVE  LET new == Suggested(ns, sites, turn, w)
             lost == Cardinality(Reach(ns, s, turn[s])) - Cardinality(Reach(ns, s, new[s]))
             loads == Loads(ns, s, turn[s])
         IN /\ new \in [Sites -> 0..(Full - 1)]
            /\ lost \in Int /\ Total(loads) \in Nat
            /\ \/ lost = 0 /\ w.imbalance * Cardinality(ClientNodes(ns)) * Spread(loads) \in Nat
               \/ w.uncovered * lost * Precision * Total(loads)
                    <= w.imbalance * Cardinality(ClientNodes(ns)) * Spread(loads)
            /\ w.imbalance * Cardinality(ClientNodes(ns)) * Spread(loads) \in Nat
<1> DEFINE new == Suggested(ns, sites, turn, w)
<1>1. ASSUME NEW z \in Sites
      PROVE  /\ new[z] \in 0..(Full - 1)
             /\ new[z] \in {turn[z], BestTurn(ns, z, turn[z], w)}
  BY BestTurnIsLower DEF Suggested
<1>2. new \in [Sites -> 0..(Full - 1)]
  BY <1>1 DEF Suggested
<1> DEFINE t == new[s]
           loads == Loads(ns, s, turn[s])
           clients == Cardinality(ClientNodes(ns))
<1>3. t \in 0..(Full - 1) /\ turn[s] \in 0..(Full - 1)
  BY <1>1
<1>4. t = turn[s] \/ Lower(Score(Loads(ns, s, t), clients, w), Score(loads, clients, w))
  BY <1>1, <1>3, BestTurnIsLower DEF TurnScore
<1> HIDE DEF t, new, clients, loads
<1>5. clients \in Nat
  BY ClientCount DEF clients
<1>6. /\ LoadsOf(Loads(ns, s, t)) /\ LoadsOf(loads)
      /\ CoveredIn(Loads(ns, s, t)) = Reach(ns, s, t)
      /\ CoveredIn(loads) = Reach(ns, s, turn[s])
  BY <1>3, LoadsReach DEF loads
<1>7. /\ Cardinality(Reach(ns, s, t)) \in Nat
      /\ Cardinality(Reach(ns, s, turn[s])) \in Nat
      /\ Total(loads) \in Nat /\ Spread(loads) \in Nat
  BY <1>5, <1>6, ScoreTypes
<1>8. w.imbalance * clients * Spread(loads) \in Nat
  <2>1. w.imbalance \in Nat
    BY CellAssumption
  <2>2. w.imbalance * clients \in Nat
    BY <1>5, <2>1
  <2> QED
    BY <1>7, <2>2
<1>9. \/ t = turn[s]
      \/ w.uncovered * (Cardinality(Reach(ns, s, turn[s])) - Cardinality(Reach(ns, s, t)))
           * Precision * Total(loads) <= w.imbalance * clients * Spread(loads)
  BY <1>4, <1>5, <1>6, LossAgainstSpread
<1> QED
  BY <1>2, <1>7, <1>8, <1>9 DEF t, new, clients, loads

\* Without a limit or a degree a sector is given the clients it reaches.
LEMMA ReachIsOffered ==
  ASSUME NEW ns \in SUBSET Interfaces, NEW turn \in [Sites -> 0..(Full - 1)], NEW s \in Sites
  PROVE  LET p == [aware |-> TRUE, limit |-> None, degree |-> None]
         IN /\ Reach(ns, s, turn[s]) \subseteq Offered(s, PrimaryEdges(ns, turn, p))
            /\ Offered(s, PrimaryEdges(ns, turn, p)) \subseteq Interfaces
<1> DEFINE p == [aware |-> TRUE, limit |-> None, degree |-> None]
           reach(i) == {c \in ClientNodes(ns) :
                          /\ Compatible(i, c)
                          /\ Within(i, c, p.limit)
                          /\ p.aware => c \in Seen[i][turn[Node[i].site]]}
           offers(i) == {Edge(i, c, NoRule) : c \in Nearest(i, reach(i), p.degree)}
<1>0. PrimaryEdges(ns, turn, p) = UNION {offers(i) : i \in CellNodes(ns)}
  BY DEF PrimaryEdges
<1>1. ASSUME NEW c \in Reach(ns, s, turn[s]) PROVE c \in Offered(s, PrimaryEdges(ns, turn, p))
  <2>1. PICK i \in SectorsOf(ns, s) : Node[i].azimuth # None /\ c \in Seen[i][turn[s]]
    BY <1>1 DEF Reach
  <2>2. i \in CellNodes(ns) /\ i \in Interfaces /\ Node[i].site = s /\ c \in ClientNodes(ns)
    BY <1>1, <2>1 DEF SectorsOf, CellNodes, Reach
  <2>3. Compatible(i, c)
    <3>1. turn[s] \in 0..(Full - 1)
      OBVIOUS
    <3> QED
      BY <2>1, <2>2, <3>1 DEF Seen
  <2>4. c \in reach(i)
    BY <2>1, <2>2, <2>3 DEF Within
  <2>5. c \in Nearest(i, reach(i), p.degree)
    BY <2>4 DEF Nearest
  <2>6. Edge(i, c, NoRule) \in PrimaryEdges(ns, turn, p)
    <3>1. Edge(i, c, NoRule) \in offers(i)
      BY <2>5
    <3> HIDE DEF offers
    <3> QED
      BY <1>0, <2>2, <3>1
  <2> QED
    BY <2>1, <2>2, <2>6, Edges DEF Offered
<1>2. ASSUME NEW e \in PrimaryEdges(ns, turn, p) PROVE e.dst \in Interfaces
  BY PrimaryEdge
<1> QED
  BY <1>1, <1>2 DEF Offered

\* Rotations stay within the circle, and features with their edges.
LEMMA NextPlanner ==
  ASSUME GraphsTyped, PlannerTyped, [Next]_vars
  PROVE  PlannerTyped'
<1> USE DEF scenarioVars, graphVars, resultVars
<1>0. ASSUME rotation' \in [Sites -> 0..(Full - 1)], ClearResults PROVE PlannerTyped'
  BY <1>0 DEF PlannerTyped, ClearResults
<1>1. ASSUME rotation' \in [Sites -> 0..(Full - 1)], UNCHANGED <<nodes, edges, resultVars>>
      PROVE  PlannerTyped'
  BY <1>1 DEF PlannerTyped
<1>2. CASE Define
  BY <1>0, <1>2, NoTurn DEF Define, ClearResults
<1>3. ASSUME NEW l, AddManual(l) \/ RemoveManual(l) PROVE PlannerTyped'
  BY <1>1, <1>3 DEF AddManual, RemoveManual, PlannerTyped
<1>4. ASSUME NEW preserve, BuildGraph(preserve) PROVE PlannerTyped'
  BY <1>0, <1>4, NoTurn DEF BuildGraph, NewPlanner
<1>5. ASSUME NEW p, BuildCell(p) PROVE PlannerTyped'
  BY <1>0, <1>5, NoTurn DEF BuildCell, NewPlanner
<1>6. ASSUME NEW p, Rebuild(p) PROVE PlannerTyped'
  BY <1>0, <1>6 DEF Rebuild, PlannerTyped
<1>7. ASSUME NEW sites, NEW apply \in BOOLEAN, NEW prune \in BOOLEAN, NEW p,
             NEW w \in Weights, Tune(sites, apply, prune, p, w)
      PROVE  PlannerTyped'
  <2> DEFINE turn == [s \in Sites |-> 0]
  <2>1. /\ ClearResults
        /\ rotation' = IF apply THEN Suggested(installed, sites, turn, w) ELSE turn
    BY <1>7 DEF Tune, NewPlanner, TuneSectors
  <2>2. turn \in [Sites -> 0..(Full - 1)]
    BY NoTurn
  <2> HIDE DEF turn
  <2>3. installed \in SUBSET Interfaces
    BY DEF GraphsTyped
  <2>4. Suggested(installed, sites, turn, w) \in [Sites -> 0..(Full - 1)]
    <3>1. CASE Sites = {}
      BY <3>1 DEF Suggested
    <3>2. CASE Sites # {}
      BY <2>2, <2>3, <3>2, SuggestionsPay
    <3> QED
      BY <3>1, <3>2
  <2> QED
    BY <1>0, <2>1, <2>2, <2>4
<1>8. ASSUME NEW sites, NEW w \in Weights, Suggest(sites, w) PROVE PlannerTyped'
  <2>1. nodes \in SUBSET Interfaces /\ rotation \in [Sites -> 0..(Full - 1)]
    BY DEF GraphsTyped, PlannerTyped
  <2>2. Suggested(nodes, sites, rotation, w) \in [Sites -> 0..(Full - 1)]
    <3>1. CASE Sites = {}
      BY <3>1 DEF Suggested
    <3>2. CASE Sites # {}
      BY <2>1, <3>2, SuggestionsPay
    <3> QED
      BY <3>1, <3>2
  <2> QED
    BY <1>1, <1>8, <2>2 DEF Suggest
<1>9. ASSUME NEW t \in Turns, Rotate(t[1], t[2]) PROVE PlannerTyped'
  <2>1. t[2] \in 0..(Full - 1)
    BY CellAssumption
  <2>2. rotation' \in [Sites -> 0..(Full - 1)]
    BY <1>9, <2>1 DEF Rotate, PlannerTyped
  <2> QED
    BY <1>1, <1>9, <2>2 DEF Rotate
<1>10. ASSUME NEW is, RemoveSectors(is) PROVE PlannerTyped'
  BY <1>0, <1>10 DEF RemoveSectors, PlannerTyped
<1>11. CASE Compute
  <2>1. nodes # {} /\ UNCHANGED <<nodes, rotation>>
    BY <1>11 DEF Compute
  <2>2. features' \in {{}, LinksOf(edges')}
    <3>1. CASE edges = {}
      BY <1>11, <3>1 DEF Compute, ClearResults
    <3>2. CASE edges # {}
      BY <1>11, <3>2 DEF Compute, PlannerTyped
    <3> QED
      BY <3>1, <3>2
  <2> QED
    BY <2>1, <2>2 DEF PlannerTyped
<1>15. ASSUME NEW ls, ComputeRequested(ls) PROVE PlannerTyped'
  BY <1>15 DEF ComputeRequested, PlannerTyped
<1>12. ASSUME NEW ls, Assign(ls) PROVE PlannerTyped'
  BY <1>12 DEF Assign, PlannerTyped
<1>13. CASE Solve
  BY <1>13 DEF Solve, PlannerTyped
<1>14. CASE UNCHANGED vars
  BY <1>1, <1>14 DEF vars, PlannerTyped
<1> QED
  BY <1>2, <1>3, <1>4, <1>5, <1>6, <1>7, <1>8, <1>9, <1>10, <1>11, <1>12, <1>13, <1>14, <1>15
  DEF Next, Prune

-----------------------------------------------------------------------------

\* A new graph without features has no RPL result either.
LEMMA NewFeatures ==
  ASSUME [Next]_vars, edges' # edges
  PROVE  rpl' = None \/ features' = LinksOf(edges')
<1> USE DEF scenarioVars, graphVars, resultVars
<1>1. CASE Define
  BY <1>1 DEF Define
<1>2. ASSUME NEW preserve, BuildGraph(preserve) PROVE rpl' = None
  BY <1>2 DEF BuildGraph, NewPlanner, ClearResults
<1>3. ASSUME NEW p, BuildCell(p) \/ Rebuild(p) PROVE rpl' = None
  BY <1>3 DEF BuildCell, NewPlanner, Rebuild, ClearResults
<1>4. ASSUME NEW sites, NEW apply, NEW prune, NEW p, NEW w, Tune(sites, apply, prune, p, w)
      PROVE  rpl' = None
  BY <1>4 DEF Tune, NewPlanner, ClearResults
<1>5. ASSUME NEW is, RemoveSectors(is) PROVE rpl' = None
  BY <1>5 DEF RemoveSectors, ClearResults
<1>6. CASE Compute
  <2>1. edges = {}
    BY <1>6 DEF Compute
  <2> QED
    BY <1>6, <2>1 DEF Compute, ClearResults
<1>7. ASSUME NEW ls, ComputeRequested(ls) PROVE features' = LinksOf(edges')
  BY <1>7 DEF ComputeRequested
<1>8. \/ \E l : AddManual(l) \/ RemoveManual(l)
      \/ \E sites, w : Suggest(sites, w)
      \/ \E site, turn : Rotate(site, turn)
      \/ \E ls : Assign(ls)
      \/ Solve \/ UNCHANGED vars
      => FALSE
  BY DEF AddManual, RemoveManual, Suggest, Rotate, Assign, Solve, vars
<1> QED
  BY <1>1, <1>2, <1>3, <1>4, <1>5, <1>6, <1>7, <1>8 DEF Next, Prune

\* The inductive invariant.
LEMMA Invariance == Spec => []IInv
<1>1. IInv /\ [Next]_vars => IInv'
  BY NewGraph, NextPlanner, NextManual DEF IInv
<1> QED
  BY InitInv, <1>1, PTL DEF Spec

\* Graphs, results and rotations are what they should be made of.
THEOREM TypeCorrect == Spec => []TypeOK
<1>1. IInv => TypeOK
  BY DEF IInv, GraphsTyped, PlannerTyped, TypeOK
<1> QED
  BY Invariance, <1>1, PTL

\* Two interfaces have one candidate edge.
THEOREM LinksAreSingle == Spec => []NoDuplicateLinks
<1>1. IInv => NoDuplicateLinks
  BY DEF IInv
<1> QED
  BY Invariance, <1>1, PTL

\* What a cell loses when it is turned as suggested is paid for by the imbalance it
\* had, at whatever weights the call was made with.
THEOREM SuggestionsPayForLosses == Spec => []LossIsPaidFor
<1>1. IInv => LossIsPaidFor
  <2> SUFFICES ASSUME IInv, NEW w \in Weights, NEW s \in Sites
               PROVE  LET turn == Suggested(nodes, Sites, rotation, w)
                          rebuilt == PrimaryEdges(nodes, turn,
                                       [aware |-> TRUE, limit |-> None, degree |-> None])
                          loads == Loads(nodes, s, rotation[s])
                          lost == Cardinality(Reach(nodes, s, rotation[s]))
                                    - Cardinality(Offered(s, rebuilt))
                      IN w.uncovered * lost * Precision * Total(loads)
                           <= w.imbalance * Cardinality(ClientNodes(nodes)) * Spread(loads)
    BY DEF LossIsPaidFor
  <2> DEFINE turn == Suggested(nodes, Sites, rotation, w)
             p == [aware |-> TRUE, limit |-> None, degree |-> None]
             offered == Offered(s, PrimaryEdges(nodes, turn, p))
             total == Total(Loads(nodes, s, rotation[s]))
             price == w.imbalance * Cardinality(ClientNodes(nodes)) * Spread(Loads(nodes, s, rotation[s]))
             before == Cardinality(Reach(nodes, s, rotation[s]))
             after == Cardinality(Reach(nodes, s, turn[s]))
  <2>1. nodes \in SUBSET Interfaces /\ rotation \in [Sites -> 0..(Full - 1)]
    BY DEF IInv, GraphsTyped, PlannerTyped
  <2>2. /\ turn \in [Sites -> 0..(Full - 1)]
        /\ total \in Nat /\ price \in Nat
        /\ before - after = 0 \/ w.uncovered * (before - after) * Precision * total <= price
    BY <2>1, SuggestionsPay
  <2> HIDE DEF turn, total, price
  <2>3. Reach(nodes, s, turn[s]) \subseteq offered /\ offered \subseteq Interfaces
    BY <2>1, <2>2, ReachIsOffered
  <2> HIDE DEF offered
  <2>4. IsFiniteSet(offered)
    BY <2>3, CellAssumption, FS_Subset
  <2>5. after <= Cardinality(offered)
    BY <2>3, <2>4, FS_Subset
  <2>6. Cardinality(offered) \in Nat /\ after \in Nat /\ before \in Nat
    <3>1. /\ Reach(nodes, s, turn[s]) \subseteq Interfaces
          /\ Reach(nodes, s, rotation[s]) \subseteq Interfaces
      BY <2>1 DEF Reach, ClientNodes
    <3>2. /\ IsFiniteSet(Reach(nodes, s, turn[s]))
          /\ IsFiniteSet(Reach(nodes, s, rotation[s]))
      BY <3>1, CellAssumption, FS_Subset
    <3> QED
      BY <2>4, <3>2, FS_CardinalityType
  <2> HIDE DEF before, after
  <2>7. w.uncovered \in Nat /\ Precision \in Nat
    BY CellAssumption
  <2>8. \A i, j \in Int : i <= j =>
          w.uncovered * i * Precision * total <= w.uncovered * j * Precision * total
    BY <2>2, <2>7, Multiples
  <2>9. w.uncovered * (before - Cardinality(offered)) * Precision * total
          <= w.uncovered * (before - after) * Precision * total
    BY <2>5, <2>6, <2>8
  <2>10. w.uncovered * 0 * Precision * total = 0
    BY <2>2, <2>7
  <2>11. w.uncovered * (before - after) * Precision * total <= price
    BY <2>2, <2>10
  <2>12. /\ w.uncovered * (before - Cardinality(offered)) * Precision * total \in Int
         /\ w.uncovered * (before - after) * Precision * total \in Int
    <3>1. \A i \in Int : w.uncovered * i * Precision * total \in Int
      BY <2>2, <2>7
    <3> QED
      BY <2>6, <3>1
  <2>13. w.uncovered * (before - Cardinality(offered)) * Precision * total <= price
    BY <2>2, <2>9, <2>11, <2>12
  <2> QED
    BY <2>13 DEF offered, turn, total, price, before
<1> QED
  BY Invariance, <1>1, PTL

\* Metrics and features go with the graph they were computed on, and an RPL result
\* outlives its graph only beside the metrics of the graph that replaced it.
THEOREM MetricsAreOfTheGraph == Spec => MetricsFollowGraph
<1>1. ASSUME IInv, [Next]_vars, edges' # edges
      PROVE  /\ metrics' \in {{}, LinksOf(edges')}
             /\ features' \in {{}, LinksOf(edges')}
             /\ \/ rpl' = None
                \/ metrics' = LinksOf(edges') /\ features' = LinksOf(edges')
  <2>1. /\ metrics' \in {{}, LinksOf(edges')}
        /\ rpl' = None \/ metrics' = LinksOf(edges')
    BY <1>1, NewGraph DEF IInv
  <2>2. features' \in {{}, LinksOf(edges')}
    BY <1>1, NextPlanner DEF IInv, PlannerTyped
  <2>3. rpl' = None \/ features' = LinksOf(edges')
    BY <1>1, NewFeatures
  <2> QED
    BY <2>1, <2>2, <2>3
<1>2. IInv /\ [Next]_vars =>
        [edges' # edges =>
           /\ metrics' \in {{}, LinksOf(edges')}
           /\ features' \in {{}, LinksOf(edges')}
           /\ \/ rpl' = None
              \/ metrics' = LinksOf(edges') /\ features' = LinksOf(edges')]_vars
  BY <1>1
<1> QED
  BY Invariance, <1>2, PTL DEF Spec, MetricsFollowGraph

\* Tuning removes only sectors without a link in the graph it leaves.
THEOREM PruningIsSafe == Spec => RemovedSectorsWereIdle
<1>1. IInv /\ [Next]_vars =>
        [\A i \in installed \ installed', e \in edges' : i \notin Ends(e)]_vars
  BY NewGraph DEF IInv
<1> QED
  BY Invariance, <1>1, PTL DEF Spec, RemovedSectorsWereIdle

==============================================================================
