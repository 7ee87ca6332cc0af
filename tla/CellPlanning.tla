----------------------------- MODULE CellPlanning -----------------------------
(***************************************************************************)
(* cisei_lib/planners/cell_planner.py on graph_planner.py: the candidate   *)
(* graph of a planner, built from the scenario's manual edges and rules or *)
(* from the sectors of its cells; the tuning of the sectors; metrics and   *)
(* RPL results, which belong to one candidate graph.  Pruning edits the    *)
(* site nodes the planner shares with its scenario, while the planner's    *)
(* own list of RPL nodes is made once.                                     *)
(*                                                                         *)
(* Angles are units of a discrete circle, Full of them.  Distances and     *)
(* bearings are tables.  An antenna with an azimuth is a sector antenna    *)
(* with a beamwidth.  A metric mapping is the set of links it covers, an   *)
(* RPL result the set of links it was solved over (GeoRPL says what is     *)
(* in it).  The weights of a search are natural numbers and its square     *)
(* roots are rounded to multiples of 1/Precision, where the code has       *)
(* floats.  One caller works on a scenario at a time; PlanningRuntime has  *)
(* the overlaps.                                                           *)
(***************************************************************************)
EXTENDS Integers, FiniteSetsExt

CONSTANTS
  Interfaces,   \* interface ids
  Node,         \* id -> [index, site, device, tech, freq, connected, relay,
                \*        canRoute, azimuth, beam]; index is the place in the
                \*        lists, and the order of the ids
  Distance,     \* id -> id -> Nat
  Bearing,      \* id -> id -> unit
  Full,         \* units of a circle
  Step,         \* step_deg
  PrimaryTech,
  Rules,        \* connectivity_rules, a sequence
  Params,       \* [aware, limit, degree] of build_primary_candidates
  ManualEdges,  \* edges add_candidate_edge may be called with
  Requests,     \* the links of explicit candidate_edges of compute_edge_metrics
  Assignments,  \* the links of assigned metric mappings
  Weights,      \* [uncovered, imbalance] of a rotation search
  Precision,    \* of square roots
  Filters,      \* the site_ids of a tuning
  Turns,        \* <<site, rotation>>, set by hand
  Removals,     \* sets of sectors removed by hand
  None

Sites == {Node[i].site : i \in Interfaces}

Link == Interfaces \X Interfaces

\* Whoever asks for the metrics of some links names a link once, in one direction.
ASSUME CellAssumption ==
  /\ IsFiniteSet(Interfaces)
  /\ \A i \in Interfaces : Node[i].index \in Int
  /\ \A i, j \in Interfaces : Node[i].index = Node[j].index => i = j
  /\ DOMAIN Rules \subseteq Nat \ {0}
  /\ \A i, j \in Interfaces : Distance[i][j] = Distance[j][i]
  /\ Full \in Nat \ {0} /\ Step \in 1..Full
  /\ Filters \subseteq SUBSET Sites /\ Turns \subseteq Sites \X (0..(Full - 1))
  /\ Removals \subseteq SUBSET Interfaces
  /\ \A p \in Params : p.limit \in Nat \cup {None} /\ p.degree \in Nat \cup {None}
  /\ ManualEdges \subseteq Link /\ Assignments \subseteq SUBSET Link
  /\ Requests \subseteq SUBSET Link
  /\ \A ls \in Requests : \A l, m \in ls : {l[1], l[2]} = {m[1], m[2]} => l = m
  /\ \A w \in Weights : w.uncovered \in Nat /\ w.imbalance \in Nat
  /\ Precision \in Nat \ {0}

VARIABLES
  installed,    \* scenario: the interfaces of the site nodes
  manual,       \* scenario.candidate_edges
  nodes,        \* graph.rpl_nodes, {} before there is a planner
  rotation,     \* cell.sector_rotation_by_site, 0 where absent
  edges,        \* graph.candidate_edges, each with the rule its attributes name
  attrs,        \* graph.candidate_edge_attrs: the edges last built, with their rules
  metrics,      \* graph.edge_metrics
  features,     \* graph.edge_features
  rpl           \* graph.rpl

scenarioVars == <<installed, manual>>
resultVars == <<metrics, features, rpl>>
graphVars == <<edges, attrs>>
vars == <<scenarioVars, nodes, rotation, graphVars, resultVars>>

\* The rule of manual and of primary edges.
NoRule == 0

Edge(s, d, rule) == [src |-> s, dst |-> d, rule |-> rule]

Ends(e) == {e.src, e.dst}

LinkOf(e) == <<e.src, e.dst>>

LinksOf(es) == {LinkOf(e) : e \in es}

Init ==
  /\ installed = Interfaces
  /\ manual = {}
  /\ nodes = {}
  /\ rotation = [s \in Sites |-> 0]
  /\ edges = {}
  /\ attrs = {}
  /\ metrics = {}
  /\ features = {}
  /\ rpl = None

-----------------------------------------------------------------------------
\* Geometry

AbsInt(n) == IF n < 0 THEN -n ELSE n

\* Twice the angle between the two, by the shorter way around, is within the beam.
Inside(azimuth, beam, bearing) ==
  AbsInt(((2 * (bearing - azimuth) + Full) % (2 * Full)) - Full) <= beam

Compatible(i, j) == Node[i].tech = Node[j].tech /\ Node[i].freq = Node[j].freq

Azimuth(i, turn) == (Node[i].azimuth + turn) % Full

\* The interfaces i sees at a rotation; without an azimuth there is no filter.
Seen ==
  [i \in Interfaces |-> [turn \in 0..(Full - 1) |->
     {c \in Interfaces :
        /\ Compatible(i, c)
        /\ \/ Node[i].azimuth = None
           \/ Inside(Azimuth(i, turn), Node[i].beam, Bearing[i][c])}]]

\* The degree nearest of a set, by distance and then by id.
Nearest(i, cs, degree) ==
  LET closer(c, d) == \/ Distance[i][c] < Distance[i][d]
                      \/ Distance[i][c] = Distance[i][d] /\ Node[c].index < Node[d].index
  IN IF degree = None THEN cs
     ELSE {c \in cs : Cardinality({d \in cs : closer(d, c)}) < degree}

Within(i, c, limit) == limit = None \/ Distance[i][c] <= limit

CellNodes(ns) == {i \in ns : Node[i].connected /\ Node[i].tech = PrimaryTech}

ClientNodes(ns) == {i \in ns : ~Node[i].connected /\ Node[i].tech = PrimaryTech}

-----------------------------------------------------------------------------
\* Candidate graphs

\* build_primary_candidates: the edges it hands to set_candidate_edges.
PrimaryEdges(ns, turn, p) ==
  UNION {LET reach == {c \in ClientNodes(ns) :
                         /\ Compatible(s, c)
                         /\ Within(s, c, p.limit)
                         /\ p.aware => c \in Seen[s][turn[Node[s].site]]}
         IN {Edge(s, c, NoRule) : c \in Nearest(s, reach, p.degree)} : s \in CellNodes(ns)}

Selected(ns, tech, selector) ==
  {i \in ns :
     /\ Node[i].tech = tech
     /\ CASE selector = "any"         -> TRUE
          [] selector = "connected"   -> Node[i].connected
          [] selector = "unconnected" -> ~Node[i].connected
          [] selector = "relay"       -> Node[i].relay
          [] selector = "non_relay"   -> ~Node[i].relay}

\* What the rules propose, each rule on its own.
RfEdges(ns, r) ==
  UNION {LET reach == {d \in Selected(ns, Rules[r].tech, Rules[r].destination) \ {s} :
                         /\ Compatible(s, d)
                         /\ Node[s].relay \/ Node[d].relay
                         /\ Within(s, d, Rules[r].limit)}
         IN {Edge(s, d, r) : d \in Nearest(s, reach, Rules[r].degree)} :
         s \in Selected(ns, Rules[r].tech, Rules[r].source)}

InternalEdges(ns, r) ==
  {e \in {Edge(i, j, r) : i, j \in ns} :
     /\ Node[e.src].device = Node[e.dst].device
     /\ Node[e.src].index < Node[e.dst].index
     /\ Rules[r].routersOnly =>
          \E c \in ns : Node[c].device = Node[e.src].device /\ Node[c].canRoute}

Proposed(ns) ==
  UNION {IF Rules[r].kind = "internal" THEN InternalEdges(ns, r) ELSE RfEdges(ns, r) :
         r \in DOMAIN Rules}

\* Variant: the reverse direction of a link is a link of its own.
RuleGraphDirected(ns, kept) ==
  LET proposed == Proposed(ns)
      first(e, f) == e.rule <= f.rule
  IN kept \cup {e \in proposed :
                  /\ \A k \in kept : LinkOf(k) # LinkOf(e)
                  /\ \A f \in proposed : LinkOf(f) = LinkOf(e) => first(e, f)}

\* build_candidate_edges_from_rules: of the proposals for one pair of
\* interfaces the first one counts, unless the pair is linked already.
RuleGraph(ns, kept) ==
  LET proposed == Proposed(ns)
      first(e, f) == \/ e.rule < f.rule
                     \/ e.rule = f.rule /\ Node[e.src].index <= Node[f.src].index
  IN kept \cup {e \in proposed :
                  /\ \A k \in kept : Ends(k) # Ends(e)
                  /\ \A f \in proposed : Ends(f) = Ends(e) => first(e, f)}

-----------------------------------------------------------------------------
\* Rotation search

SectorsOf(ns, site) == {i \in CellNodes(ns) : Node[i].site = site}

Loads(ns, site, turn) ==
  [i \in SectorsOf(ns, site) |->
     IF Node[i].azimuth = None THEN {} ELSE ClientNodes(ns) \cap Seen[i][turn]]

CoveredIn(loads) == UNION {loads[i] : i \in DOMAIN loads}

\* The square root of n times the precision, rounded up.
Root(n) ==
  LET square == Precision * Precision * n
  IN CHOOSE r \in 0..(Precision * n) :
       square <= r * r /\ (r # 0 => (r - 1) * (r - 1) < square)

\* All clients of all sectors: the mean load times the sectors.
Total(loads) == Cardinality(UNION {{i} \X loads[i] : i \in DOMAIN loads})

\* The standard deviation of the loads times the sectors and the precision; what
\* the root is of is never negative.
Spread(loads) ==
  LET squares == Cardinality(UNION {{i} \X (loads[i] \X loads[i]) : i \in DOMAIN loads})
  IN Root(AbsInt(Cardinality(DOMAIN loads) * squares - Total(loads) * Total(loads)))

\* Variant: the weights are swapped.
ScoreSwapped(loads, clients, w) ==
  LET uncovered == clients - Cardinality(CoveredIn(loads))
      total == Total(loads)
  IN IF total = 0 THEN <<w.imbalance * uncovered * Precision, 1>>
     ELSE <<w.imbalance * uncovered * Precision * total + w.uncovered * clients * Spread(loads), total>>

\* _rotation_score: uncovered_weight * uncovered_ratio + imbalance_weight *
\* imbalance_ratio, as a fraction times clients * Precision.
Score(loads, clients, w) ==
  LET uncovered == clients - Cardinality(CoveredIn(loads))
      total == Total(loads)
  IN IF total = 0 THEN <<w.uncovered * uncovered * Precision, 1>>
     ELSE <<w.uncovered * uncovered * Precision * total + w.imbalance * clients * Spread(loads), total>>

Lower(p, q) == p[1] * q[2] < q[1] * p[2]

\* suggest_sector_rotation: the current rotation, or the first of the best that
\* are better.
BestTurn(ns, site, current, w) ==
  LET turns == {(n * Step) % Full : n \in 0..(Full \div Step - 1)}
      score == [t \in turns \cup {current} |->
                  Score(Loads(ns, site, t), Cardinality(ClientNodes(ns)), w)]
      improving == {t \in turns : Lower(score[t], score[current])}
      best == {t \in improving : \A u \in improving : ~Lower(score[u], score[t])}
  IN IF improving = {} THEN current ELSE Min(best)

Suggested(ns, sites, turn, w) ==
  [s \in Sites |->
     IF s \in sites /\ Cardinality(SectorsOf(ns, s)) >= 2 /\ ClientNodes(ns) # {}
     THEN BestTurn(ns, s, turn[s], w) ELSE turn[s]]

\* prune_empty_sectors: the sectors without a candidate edge.
EmptySectors(ns, sites, es) ==
  {i \in CellNodes(ns) : Node[i].site \in sites /\ \A e \in es : e.src # i}

-----------------------------------------------------------------------------
\* The scenario

Define ==
  /\ installed' = Interfaces
  /\ manual' = {}
  /\ nodes' = {}
  /\ rotation' = [s \in Sites |-> 0]
  /\ edges' = {}
  /\ attrs' = {}
  /\ metrics' = {}
  /\ features' = {}
  /\ rpl' = None

\* add_candidate_edge does not ask whether the interfaces exist, but for the
\* same two it updates the edge that is there.
AddManual(l) ==
  /\ \A m \in manual : {m[1], m[2]} # {l[1], l[2]}
  /\ manual' = manual \cup {l}
  /\ UNCHANGED <<installed, nodes, rotation, graphVars, resultVars>>

RemoveManual(l) ==
  /\ l \in manual
  /\ manual' = manual \ {l}
  /\ UNCHANGED <<installed, nodes, rotation, graphVars, resultVars>>

\* validate(), for what can change here.
Valid == \A l \in manual : l[1] \in installed /\ l[2] \in installed

-----------------------------------------------------------------------------
\* Building and tuning

\* Variant: the results of the graph before stay.
KeepResults == UNCHANGED resultVars

\* _clear_results
ClearResults ==
  /\ metrics' = {}
  /\ features' = {}
  /\ rpl' = None

\* set_candidate_edges and build_candidate_edges_from_rules also store the
\* attributes.
StoreAttrs == attrs' = edges'

\* A planner of its own for the scenario, which has to be valid.
NewPlanner ==
  /\ Valid
  /\ nodes' = installed
  /\ ClearResults

\* Stage 2 for the graph planner.
BuildGraph(preserve) ==
  /\ NewPlanner
  /\ DOMAIN Rules # {}
  /\ rotation' = [s \in Sites |-> 0]
  /\ edges' = RuleGraph(installed,
                        IF preserve THEN {Edge(l[1], l[2], NoRule) : l \in manual} ELSE {})
  /\ StoreAttrs
  /\ UNCHANGED scenarioVars

\* Stage 2 for the cell planner.
BuildCell(p) ==
  /\ NewPlanner
  /\ rotation' = [s \in Sites |-> 0]
  /\ edges' = PrimaryEdges(installed, rotation', p)
  /\ StoreAttrs
  /\ UNCHANGED scenarioVars

\* Variant: empty sectors are looked for before the rotation is applied.
TuneSectorsUnrebuilt(ns, es, turn, sites, apply, prune, p, w) ==
  LET emptied == EmptySectors(ns, sites, es)
  IN /\ rotation' = IF apply THEN Suggested(ns, sites, turn, w) ELSE turn
     /\ installed' = IF prune THEN installed \ emptied ELSE installed
     /\ edges' = IF apply \/ prune THEN PrimaryEdges(ns, rotation', p) ELSE es

\* tune_sectors: rotate and rebuild, then prune and rebuild.
TuneSectors(ns, es, turn, sites, apply, prune, p, w) ==
  LET turned == IF apply THEN Suggested(ns, sites, turn, w) ELSE turn
      rebuilt == IF apply THEN PrimaryEdges(ns, turned, p) ELSE es
  IN /\ rotation' = turned
     /\ installed' = IF prune THEN installed \ EmptySectors(ns, sites, rebuilt) ELSE installed
     /\ edges' = IF prune THEN PrimaryEdges(ns, turned, p) ELSE rebuilt

\* Stage 3: a new planner is built and tuned with the same parameters.
Tune(sites, apply, prune, p, w) ==
  LET turn == [s \in Sites |-> 0]
  IN /\ NewPlanner
     /\ TuneSectors(installed, PrimaryEdges(installed, turn, p), turn, sites, apply, prune, p, w)
     /\ StoreAttrs
     /\ UNCHANGED manual

\* build_primary_candidates on the planner there is.
Rebuild(p) ==
  /\ nodes # {}
  /\ edges' = PrimaryEdges(nodes, rotation, p)
  /\ StoreAttrs
  /\ ClearResults
  /\ UNCHANGED <<scenarioVars, nodes, rotation>>

\* apply_sector_rotation, and clear_sector_rotations for a turn of 0.
Rotate(site, turn) ==
  /\ nodes # {}
  /\ rotation' = [rotation EXCEPT ![site] = turn]
  /\ UNCHANGED <<scenarioVars, nodes, graphVars, resultVars>>

\* suggest_sector_rotation with apply
Suggest(sites, w) ==
  /\ nodes # {}
  /\ rotation' = Suggested(nodes, sites, rotation, w)
  /\ UNCHANGED <<scenarioVars, nodes, graphVars, resultVars>>

\* remove_sector_interfaces
RemoveSectors(is) ==
  /\ nodes # {}
  /\ is \cap installed # {}
  /\ installed' = installed \ is
  /\ edges' = {}
  /\ StoreAttrs
  /\ ClearResults
  /\ UNCHANGED <<manual, nodes, rotation>>

\* prune_empty_sectors with apply
Prune(sites) == RemoveSectors(EmptySectors(nodes, sites, edges))

-----------------------------------------------------------------------------
\* Metrics and results

Internal(e) == e.rule \in DOMAIN Rules /\ Rules[e.rule].kind = "internal"

Computable(es) ==
  \A e \in es : /\ Ends(e) \subseteq nodes
                /\ Internal(e) \/ Compatible(e.src, e.dst)

\* _edge_attrs: those of the link, in either direction, if it was ever built.
RuleOf(l) ==
  IF \E a \in attrs : Ends(a) = {l[1], l[2]}
  THEN (CHOOSE a \in attrs : Ends(a) = {l[1], l[2]}).rule
  ELSE NoRule

\* compute_edge_metrics without candidate_edges: when there are none it builds
\* them from the rules.  Metrics and features are all stored at the end, or a bad
\* edge or the service fails the call.
Compute ==
  /\ nodes # {}
  /\ edges # {} \/ DOMAIN Rules # {}
  /\ LET es == IF edges = {} THEN RuleGraph(nodes, {}) ELSE edges
     IN /\ edges' = es
        /\ IF edges = {} THEN StoreAttrs ELSE UNCHANGED attrs
        /\ \/ /\ Computable(es)
              /\ metrics' = LinksOf(es)
              /\ features' = LinksOf(es)
              /\ IF edges = {} THEN rpl' = None ELSE UNCHANGED rpl
           \/ IF edges = {} THEN ClearResults ELSE UNCHANGED resultVars
  /\ UNCHANGED <<scenarioVars, nodes, rotation>>

\* With them, they become the candidate graph; the attributes and the RPL result
\* of the graph before stay.
ComputeRequested(ls) ==
  /\ nodes # {}
  /\ LET es == {Edge(l[1], l[2], RuleOf(l)) : l \in ls}
     IN \/ /\ Computable(es)
           /\ edges' = es
           /\ metrics' = LinksOf(es)
           /\ features' = LinksOf(es)
        \/ UNCHANGED <<edges, metrics, features>>
  /\ UNCHANGED <<scenarioVars, nodes, rotation, attrs, rpl>>

Assign(ls) ==
  /\ nodes # {}
  /\ metrics' = ls
  /\ UNCHANGED <<scenarioVars, nodes, rotation, graphVars, features, rpl>>

\* run_rpl, where GeoRPL accepts the nodes and the metrics.
Solve ==
  /\ metrics # {}
  /\ \A l \in metrics : l[1] \in nodes /\ l[2] \in nodes
  /\ \E i \in nodes : Node[i].connected /\ Node[i].relay
  /\ rpl' = metrics
  /\ UNCHANGED <<scenarioVars, nodes, rotation, graphVars, metrics, features>>

-----------------------------------------------------------------------------

Next ==
  \/ Define
  \/ \E l \in ManualEdges : AddManual(l) \/ RemoveManual(l)
  \/ \E preserve \in BOOLEAN : BuildGraph(preserve)
  \/ \E p \in Params : BuildCell(p) \/ Rebuild(p)
  \/ \E sites \in Filters :
       \/ Prune(sites)
       \/ \E w \in Weights :
            \/ Suggest(sites, w)
            \/ \E apply, prune \in BOOLEAN, p \in Params : Tune(sites, apply, prune, p, w)
  \/ \E is \in Removals : RemoveSectors(is)
  \/ \E t \in Turns : Rotate(t[1], t[2])
  \/ Compute
  \/ \E ls \in Requests : ComputeRequested(ls)
  \/ \E ls \in Assignments : Assign(ls)
  \/ Solve

Spec == Init /\ [][Next]_vars

-----------------------------------------------------------------------------

TypeOK ==
  /\ installed \subseteq Interfaces
  /\ manual \subseteq ManualEdges
  /\ nodes \subseteq Interfaces
  /\ rotation \in [Sites -> 0..(Full - 1)]
  /\ edges \cup attrs \subseteq [src : nodes, dst : nodes, rule : {NoRule} \cup DOMAIN Rules]
  /\ metrics \in SUBSET Link
  /\ features \in {{}, LinksOf(edges)}
  /\ rpl \in {None} \cup SUBSET Link
  /\ nodes = {} => metrics = {} /\ rpl = None

\* The candidate graph is undirected: whatever manual edges, rules of both
\* directions, sectors and requests contribute, two interfaces have one edge, or
\* RPL would see one of two metrics for the link.
NoDuplicateLinks == \A e, f \in edges : Ends(e) = Ends(f) => e = f

\* Whatever changes the candidate graph, metrics and features are of the new one or
\* gone.  Of the graph before only the RPL result can be left, beside metrics of the
\* new one: "Candidate graph mutations invalidate all downstream execution state"
\* (_clear_results) is not true of explicit candidate_edges (ComputeRequested).
MetricsFollowGraph ==
  [][edges' # edges =>
       /\ metrics' \in {{}, LinksOf(edges')}
       /\ features' \in {{}, LinksOf(edges')}
       /\ \/ rpl' = None
          \/ metrics' = LinksOf(edges') /\ features' = LinksOf(edges')]_vars

Reach(ns, site, turn) ==
  {c \in ClientNodes(ns) :
     \E i \in SectorsOf(ns, site) : Node[i].azimuth # None /\ c \in Seen[i][turn]}

Offered(site, es) ==
  {e.dst : e \in {f \in es : Node[f.src].site = site /\ Node[f.src].azimuth # None}}

\* Wherever a planner and its rotations have got to: of the clients its directional
\* antennas reach now, a cell turned as suggested loses no more in the rebuilt
\* candidate graph (where no limit or degree cuts it) than the imbalance it gets rid
\* of can pay for, at the weights of the call.  With a weight of 0 for the imbalance
\* it loses none.  The search does not look at the antennas without an azimuth, so
\* with some of those among its sectors the cell as a whole may lose more.
LossIsPaidFor ==
  \A w \in Weights :
    LET rebuilt == PrimaryEdges(nodes, Suggested(nodes, Sites, rotation, w),
                                [aware |-> TRUE, limit |-> None, degree |-> None])
    IN \A s \in Sites :
         LET loads == Loads(nodes, s, rotation[s])
             lost == Cardinality(Reach(nodes, s, rotation[s])) - Cardinality(Offered(s, rebuilt))
         IN w.uncovered * lost * Precision * Total(loads)
              <= w.imbalance * Cardinality(ClientNodes(nodes)) * Spread(loads)

\* No tuning offers a link of a sector it removes: sectors are found idle in the
\* graph of the rotation that is applied.
RemovedSectorsWereIdle ==
  [][\A i \in installed \ installed', e \in edges' : i \notin Ends(e)]_vars

=============================================================================
