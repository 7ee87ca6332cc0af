----------------------------- MODULE LinkPlanning -----------------------------
(***************************************************************************)
(* cisei_lib/planners/link_planner.py on pole_graph_async.py: a link that  *)
(* is obstructed is repaired by repeaters.  plan_link looks at the best    *)
(* paths of a graph that starts as the direct edge, expands the worst      *)
(* untested edge of each with candidate poles, and repeats.                *)
(*                                                                         *)
(* What the feature service and the metric function say of a pair of       *)
(* positions is terrain; a pair may fail to be evaluated whenever it is    *)
(* asked for.  Which poles the search heuristics propose is left open.     *)
(* Poles at the position of an endpoint are skipped by the code and are    *)
(* not in Poles.  A planner belongs to one coroutine, and self.G changes   *)
(* only after the await of an expansion, so an expansion is one step.      *)
(***************************************************************************)
EXTENDS Integers, Sequences, FiniteSetsExt

CONSTANTS
  Src, Dst,     \* s_label and d_label
  Poles,        \* self.poles
  Terrains,     \* the metrics of all pairs
  BreakEven,    \* REPEATER_BREAK_EVEN_METRIC
  MaxRepeaters, \* max_repeaters
  MaxCandidates,\* max_candidates, the width of the beam
  None

Nodes == Poles \cup {Src, Dst}

Edge(a, b) == {a, b}

Edges == {Edge(a, b) : a, b \in Nodes} \ {{a} : a \in Nodes}

ASSUME LinkAssumption ==
  /\ Src # Dst
  /\ Src \notin Poles /\ Dst \notin Poles /\ Poles # {} /\ IsFiniteSet(Poles)
  /\ None \notin Nodes
  /\ Terrains \subseteq [Edges -> Nat \ {0}]
  /\ MaxRepeaters \in Nat /\ MaxCandidates \in Nat \ {0} /\ BreakEven \in Nat

VARIABLES
  terrain,      \* pair -> metric
  edges,        \* the edges of self.G
  tested,       \* those marked tested
  nextHop,      \* self.nodes and their next_hop
  path,         \* self.path, None before the first plan
  at,           \* inside plan_link or not
  k,            \* its loop counter
  round,        \* edge_paths
  left,         \* those the round has still to improve
  improved      \* any(flags)

graphVars == <<edges, tested>>
planVars == <<nextHop, path>>
loopVars == <<at, k, round, left, improved>>
vars == <<terrain, graphVars, planVars, loopVars>>

-----------------------------------------------------------------------------
\* Paths

Hops(p) == 1..(Len(p) - 1)

HopOf(p, i) == Edge(p[i], p[i + 1])

\* Simple paths between the endpoints, as node sequences.
Routes ==
  {p \in UNION {[1..n -> Nodes] : n \in 2..Cardinality(Nodes)} :
     /\ p[1] = Src /\ p[Len(p)] = Dst
     /\ \A i, j \in 1..Len(p) : p[i] = p[j] => i = j}

RoutesIn(es) == {p \in Routes : \A i \in Hops(p) : HopOf(p, i) \in es}

Cost(p) == MapThenSumSet(LAMBDA i : terrain[HopOf(p, i)], Hops(p))

Cheapest(ps) == {p \in ps : \A q \in ps : Cost(p) <= Cost(q)}

\* find_shortest_paths: the cheapest simple paths of at most cutoff + 1 hops;
\* paths of equal cost are ordered by their labels, which is left open.
ShortestPaths(cutoff, ps) ==
  LET fit == {p \in RoutesIn(edges) : Len(p) - 1 <= cutoff + 1}
  IN /\ ps \subseteq fit
     /\ Cardinality(ps) = IF Cardinality(fit) < MaxCandidates THEN Cardinality(fit)
                          ELSE MaxCandidates
     /\ \A p \in ps, q \in fit \ ps : Cost(p) <= Cost(q)

\* get_worst_edge: the position of the first of the worst untested edges.
Untested(p) == {i \in Hops(p) : HopOf(p, i) \notin tested}

Worst(p, i) ==
  /\ i \in Untested(p)
  /\ \A j \in Untested(p) :
       /\ terrain[HopOf(p, j)] <= terrain[HopOf(p, i)]
       /\ terrain[HopOf(p, j)] = terrain[HopOf(p, i)] => i <= j

-----------------------------------------------------------------------------

Init ==
  /\ terrain \in Terrains
  /\ edges = {}
  /\ tested = {}
  /\ nextHop = [n \in {} |-> None]
  /\ path = None
  /\ at = "idle"
  /\ k = 0
  /\ round = {}
  /\ left = {}
  /\ improved = FALSE

\* _set_link: a new link; when the direct edge cannot be evaluated add_edge
\* raises and the graph stays empty.
SetLink ==
  /\ at = "idle"
  /\ path' = None
  /\ nextHop' = [n \in {Src, Dst} |-> IF n = Src THEN Dst ELSE None]
  /\ tested' = {}
  /\ edges' \in {{}, {Edge(Src, Dst)}}
  /\ UNCHANGED <<terrain, loopVars>>

\* The head of plan_link's loop.
StartRound(i) ==
  /\ at' = "planning"
  /\ k' = i
  /\ improved' = FALSE
  /\ \E ps \in SUBSET RoutesIn(edges) :
       /\ ShortestPaths(i, ps)
       /\ round' = ps
       /\ left' = ps

\* plan_link; without the direct edge the search for paths raises.
PlanBegin ==
  /\ at = "idle"
  /\ edges # {}
  /\ StartRound(0)
  /\ UNCHANGED <<terrain, graphVars, planVars>>

\* graph_expansion: both edges of every candidate that are not in the graph
\* and can be evaluated.
Expand(e, candidates, failed) ==
  LET new == {Edge(n, r) : n \in e, r \in candidates} \cap Edges
  IN /\ edges' = edges \cup (new \ failed)
     /\ tested' = tested \cup {e}

\* improve_link for the next of the round's paths, cheapest first.
Improve(p) ==
  /\ at = "planning"
  /\ p \in Cheapest(left)
  /\ left' = left \ {p}
  /\ \/ /\ \E i \in Hops(p) : Worst(p, i) /\ terrain[HopOf(p, i)] > BreakEven
        /\ \E i \in Hops(p), candidates \in SUBSET Poles :
             /\ Worst(p, i)
             /\ \E failed \in SUBSET (Edges \ edges) : Expand(HopOf(p, i), candidates, failed)
        /\ improved' = TRUE
     \/ /\ \A i \in Hops(p) : Worst(p, i) => terrain[HopOf(p, i)] <= BreakEven
        /\ UNCHANGED <<graphVars, improved>>
  /\ UNCHANGED <<terrain, planVars, at, k, round>>

\* The elevations of the candidates cannot be read: plan_link raises, and the
\* graph keeps what the rounds so far have added.
ImproveFails ==
  /\ at = "planning"
  /\ \E p \in Cheapest(left) : \E i \in Hops(p) : Worst(p, i) /\ terrain[HopOf(p, i)] > BreakEven
  /\ at' = "idle"
  /\ k' = 0 /\ round' = {} /\ left' = {} /\ improved' = FALSE
  /\ UNCHANGED <<terrain, graphVars, planVars>>

\* Some path of the round is within the break-even metric on every edge.
AllMetricsOk ==
  \E p \in round : \A i \in Hops(p) : terrain[HopOf(p, i)] <= BreakEven

Stops == ~improved \/ AllMetricsOk \/ k = MaxRepeaters

NextRound ==
  /\ at = "planning"
  /\ left = {}
  /\ ~Stops
  /\ StartRound(k + 1)
  /\ UNCHANGED <<terrain, graphVars, planVars>>

\* Variant: only nodes that are new to the solution get their next hop.
PlanEndKeepingHops ==
  /\ at = "planning"
  /\ left = {}
  /\ Stops
  /\ \E p \in Cheapest(RoutesIn(edges)) :
       /\ path' = p
       /\ nextHop' = [n \in DOMAIN nextHop \cup {p[i] : i \in DOMAIN p} |->
                        IF n \in DOMAIN nextHop \ {Src} THEN nextHop[n]
                        ELSE LET i == CHOOSE i \in DOMAIN p : p[i] = n IN p[i + 1]]
  /\ at' = "idle"
  /\ k' = 0 /\ round' = {} /\ improved' = FALSE
  /\ UNCHANGED <<terrain, graphVars, left>>

\* Variant: the plan is taken from the last round's paths.
PlanEndInRound ==
  /\ at = "planning"
  /\ left = {}
  /\ Stops
  /\ \E p \in Cheapest(round) :
       /\ path' = p
       /\ nextHop' = [n \in DOMAIN nextHop \cup {p[i] : i \in DOMAIN p} |->
                        IF \E i \in Hops(p) : p[i] = n
                        THEN LET i == CHOOSE i \in Hops(p) : p[i] = n IN p[i + 1]
                        ELSE IF n \in DOMAIN nextHop THEN nextHop[n] ELSE None]
  /\ at' = "idle"
  /\ k' = 0 /\ round' = {} /\ improved' = FALSE
  /\ UNCHANGED <<terrain, graphVars, left>>

\* The tail of plan_link: the shortest path of the whole graph is the plan;
\* its nodes join self.nodes and get their next hop, others keep theirs.
PlanEnd ==
  /\ at = "planning"
  /\ left = {}
  /\ Stops
  /\ \E p \in Cheapest(RoutesIn(edges)) :
       /\ path' = p
       /\ nextHop' = [n \in DOMAIN nextHop \cup {p[i] : i \in DOMAIN p} |->
                        IF \E i \in Hops(p) : p[i] = n
                        THEN LET i == CHOOSE i \in Hops(p) : p[i] = n IN p[i + 1]
                        ELSE IF n \in DOMAIN nextHop THEN nextHop[n] ELSE None]
  /\ at' = "idle"
  /\ k' = 0 /\ round' = {} /\ improved' = FALSE
  /\ UNCHANGED <<terrain, graphVars, left>>

Next ==
  \/ SetLink
  \/ PlanBegin
  \/ \E p \in left : Improve(p)
  \/ ImproveFails
  \/ NextRound
  \/ PlanEnd

Spec == Init /\ [][Next]_vars

-----------------------------------------------------------------------------

TypeOK ==
  /\ terrain \in [Edges -> Nat]
  /\ edges \subseteq Edges
  /\ tested \subseteq edges
  /\ DOMAIN nextHop \subseteq Nodes
  /\ nextHop \in [DOMAIN nextHop -> Nodes \cup {None}]
  /\ path = None \/ path \in RoutesIn(edges)
  /\ at \in {"idle", "planning"}
  /\ k \in 0..MaxRepeaters
  /\ round \subseteq RoutesIn(edges)
  /\ left \subseteq round
  /\ improved \in BOOLEAN
  /\ at = "planning" => round # {}

\* The plan can be walked: from the source the next hops run through the
\* planned path and end at the destination, also after a second plan_link that
\* left old repeaters among the nodes, and after one that failed half way.
HopsFollowPlan ==
  path # None =>
    /\ \A i \in Hops(path) : path[i] \in DOMAIN nextHop /\ nextHop[path[i]] = path[i + 1]
    /\ nextHop[Dst] = None

\* Planning never makes a link worse: a plan costs no more than the direct
\* edge, nor than the plan it replaces, whichever evaluations failed.
PlanNeverWorse ==
  [][(path' # path /\ path' # None) =>
       /\ Cost(path') <= terrain[Edge(Src, Dst)]
       /\ path # None => Cost(path') <= Cost(path)]_vars

=============================================================================
