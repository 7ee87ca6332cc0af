-------------------------- MODULE BuildingBlocksProofs --------------------------
(***************************************************************************)
(* The link planner for any poles, terrain and bounds of its search, the   *)
(* preparation of the footprints for any buildings, rasters, batches and   *)
(* number of crashes, the tables of sites for any profiles and tables, the *)
(* selection of poles for any poles and context, the gain of an antenna    *)
(* for any patterns and direction, the compiler of metrics for any         *)
(* specifications, expressions and links, and the profile of a link for    *)
(* any rasters.                                                            *)
(***************************************************************************)
EXTENDS
  BuildingBlocks, FiniteSetTheorems, SequenceTheorems, WellFoundedInduction, TLAPS

-----------------------------------------------------------------------------
(* The link planner *)

\* The direct edge is in every graph that is not empty.
DirectEdge ==
  /\ edges # {} => Edge(Src, Dst) \in edges
  /\ at = "planning" => edges # {}

\* Between two plans no round is left over.
NoRound == at = "idle" => round = {}

\* The destination hands nothing on.
LastHop == Dst \in DOMAIN nextHop => nextHop[Dst] = None

IInv == TypeOK /\ DirectEdge /\ NoRound /\ LastHop /\ HopsFollowPlan

-----------------------------------------------------------------------------
\* Routes

\* A route is a sequence of different nodes from the source to the destination.
LEMMA RouteShape ==
  ASSUME NEW p \in Routes
  PROVE  /\ p \in Seq(Nodes) /\ Len(p) \in Nat \ {0, 1} /\ DOMAIN p = 1..Len(p)
         /\ Len(p) \in 2..Cardinality(Nodes)
         /\ p[1] = Src /\ p[Len(p)] = Dst
         /\ \A i \in 1..Len(p) : p[i] \in Nodes
         /\ \A i, j \in 1..Len(p) : p[i] = p[j] => i = j
<1>1. PICK n \in 2..Cardinality(Nodes) : p \in [1..n -> Nodes]
  BY DEF Routes
<1>2. n \in Nat /\ n \notin {0, 1}
  BY <1>1
<1>3. p \in Seq(Nodes)
  BY <1>1, <1>2, SeqDef
<1>4. Len(p) \in Nat /\ DOMAIN p = 1..Len(p)
  BY <1>3, LenProperties
<1>5. 1..n = 1..Len(p)
  BY <1>1, <1>4
<1>6. n = Len(p)
  <2>1. n \in Nat /\ n \in 1..n /\ Len(p) \in Nat
    BY <1>2, <1>4
  <2>2. n \in 1..Len(p)
    BY <1>5, <2>1
  <2>3. Len(p) \in 1..n
    <3>1. Len(p) \in 1..Len(p)
      BY <2>1, <2>2
    <3> QED
      BY <1>5, <3>1
  <2> QED
    BY <2>1, <2>2, <2>3
<1> QED
  BY <1>1, <1>2, <1>3, <1>4, <1>6 DEF Routes

\* There are finitely many poles, hence nodes, at least the two endpoints.
LEMMA NodesFinite == IsFiniteSet(Nodes) /\ Cardinality(Nodes) \in Nat /\ Cardinality(Nodes) >= 2
<1>1. IsFiniteSet(Poles \cup {Src}) /\ Cardinality(Poles \cup {Src}) = Cardinality(Poles) + 1
  BY FS_AddElement, LinkAssumption
<1>2. /\ IsFiniteSet((Poles \cup {Src}) \cup {Dst})
      /\ Cardinality((Poles \cup {Src}) \cup {Dst}) = Cardinality(Poles \cup {Src}) + 1
  BY <1>1, FS_AddElement, LinkAssumption
<1>3. Nodes = (Poles \cup {Src}) \cup {Dst}
  BY DEF Nodes
<1>4. Cardinality(Poles) \in Nat
  BY FS_CardinalityType, LinkAssumption
<1> QED
  BY <1>1, <1>2, <1>3, <1>4

\* A route is known by what it visits when, so there are finitely many.
LEMMA RoutesFinite == IsFiniteSet(Routes)
<1> DEFINE visits(p) == {<<i, p[i]>> : i \in 1..Len(p)}
           places == (1..Cardinality(Nodes)) \X Nodes
           F == [p \in Routes |-> visits(p)]
<1>1. IsFiniteSet(SUBSET places)
  <2>1. IsFiniteSet(1..Cardinality(Nodes))
    BY NodesFinite, FS_Interval
  <2>2. IsFiniteSet(places)
    BY <2>1, NodesFinite, FS_Product
  <2> HIDE DEF places
  <2> QED
    BY <2>2, FS_SUBSET
<1>2. \A p \in Routes : visits(p) \in SUBSET places
  <2> SUFFICES ASSUME NEW p \in Routes, NEW i \in 1..Len(p)
               PROVE  <<i, p[i]>> \in places
    OBVIOUS
  <2> QED
    BY RouteShape, NodesFinite
<1>3. ASSUME NEW p \in Routes, NEW q \in Routes, visits(p) = visits(q)
      PROVE  p = q
  <2>1. \A i \in 1..Len(p) : i \in 1..Len(q) /\ q[i] = p[i]
    <3> TAKE i \in 1..Len(p)
    <3>1. <<i, p[i]>> \in visits(q)
      BY <1>3
    <3> QED
      BY <3>1
  <2>2. \A i \in 1..Len(q) : i \in 1..Len(p)
    <3> TAKE i \in 1..Len(q)
    <3>1. <<i, q[i]>> \in visits(p)
      BY <1>3
    <3> QED
      BY <3>1
  <2>3. Len(p) \in Nat \ {0, 1} /\ Len(q) \in Nat \ {0, 1}
    BY RouteShape
  <2>4. Len(p) = Len(q)
    <3>1. Len(p) \in 1..Len(p) /\ Len(q) \in 1..Len(q)
      BY <2>3
    <3> QED
      BY <2>1, <2>2, <2>3, <3>1
  <2> QED
    BY <2>1, <2>4, RouteShape, SeqEqual
<1>4. F \in Injection(Routes, SUBSET places)
  <2>1. F \in [Routes -> SUBSET places]
    BY <1>2
  <2> QED
    BY <1>3, <2>1 DEF Injection, IsInjective
<1> HIDE DEF F, places
<1> QED
  BY <1>1, <1>4, FS_Injection

\* The direct link is a route, as soon as its edge is in the graph.
LEMMA DirectRoute ==
  ASSUME NEW es, Edge(Src, Dst) \in es
  PROVE  <<Src, Dst>> \in RoutesIn(es)
<1> DEFINE p == <<Src, Dst>>
<1>1. Len(p) = 2 /\ p[1] = Src /\ p[2] = Dst
  OBVIOUS
<1>2. p \in [1..2 -> Nodes]
  BY DEF Nodes
<1>3. 2 \in 2..Cardinality(Nodes)
  BY NodesFinite
<1>4. \A i, j \in 1..2 : p[i] = p[j] => i = j
  BY <1>1, LinkAssumption
<1>5. p \in Routes
  BY <1>1, <1>2, <1>3, <1>4 DEF Routes
<1>6. \A i \in Hops(p) : HopOf(p, i) \in es
  BY <1>1 DEF Hops, HopOf
<1> QED
  BY <1>5, <1>6 DEF RoutesIn

\* It costs what its edge costs.
LEMMA DirectCost ==
  ASSUME terrain[Edge(Src, Dst)] \in Nat
  PROVE  Cost(<<Src, Dst>>) = terrain[Edge(Src, Dst)]
<1> DEFINE p == <<Src, Dst>>
           c == terrain[Edge(Src, Dst)]
           iter == CHOOSE g : g = [s \in SUBSET {1} |->
                     IF s = {} THEN 0
                     ELSE terrain[HopOf(p, CHOOSE x \in s : TRUE)] + g[s \ {CHOOSE x \in s : TRUE}]]
           G == [s \in SUBSET {1} |-> IF s = {} THEN 0 ELSE c]
<1>1. Hops(p) = {1}
  BY DEF Hops
<1>2. Cost(p) = iter[{1}]
  BY <1>1 DEF Cost, MapThenSumSet, MapThenFoldSet
<1>3. \A s \in SUBSET {1} : s = {} \/ s = {1}
  OBVIOUS
<1>4. (CHOOSE x \in {1} : TRUE) = 1 /\ terrain[HopOf(p, 1)] = c
  BY DEF HopOf
<1>5. G = [s \in SUBSET {1} |->
             IF s = {} THEN 0
             ELSE terrain[HopOf(p, CHOOSE x \in s : TRUE)] + G[s \ {CHOOSE x \in s : TRUE}]]
  <2> SUFFICES ASSUME NEW s \in SUBSET {1}
               PROVE  (IF s = {} THEN 0 ELSE c)
                        = IF s = {} THEN 0
                          ELSE terrain[HopOf(p, CHOOSE x \in s : TRUE)]
                                 + G[s \ {CHOOSE x \in s : TRUE}]
    OBVIOUS
  <2>1. CASE s = {}
    BY <2>1
  <2>2. CASE s = {1}
    <3>1. s \ {CHOOSE x \in s : TRUE} = {}
      BY <1>4, <2>2
    <3>2. G[{}] = 0
      OBVIOUS
    <3> HIDE DEF G
    <3> QED
      BY <1>4, <2>2, <3>1, <3>2
  <2> QED
    BY <1>3, <2>1, <2>2
<1> HIDE DEF G
<1>6. iter = [s \in SUBSET {1} |->
                IF s = {} THEN 0
                ELSE terrain[HopOf(p, CHOOSE x \in s : TRUE)] + iter[s \ {CHOOSE x \in s : TRUE}]]
  BY <1>5, Zenon
<1> HIDE DEF iter
<1>7. iter[{}] = 0
  BY <1>6
<1>8. iter[{1}] = terrain[HopOf(p, 1)] + iter[{1} \ {1}]
  BY <1>4, <1>6
<1> QED
  BY <1>2, <1>4, <1>7, <1>8

-----------------------------------------------------------------------------
\* Rounds

\* A route of a graph is a route of every larger one.
LEMMA LargerGraph ==
  ASSUME NEW es, NEW fs, es \subseteq fs
  PROVE  RoutesIn(es) \subseteq RoutesIn(fs)
  BY DEF RoutesIn

\* A hop of a route of the graph is an edge of it.
LEMMA HopIsEdge ==
  ASSUME NEW es, NEW p \in RoutesIn(es), NEW i \in Hops(p)
  PROVE  HopOf(p, i) \in es
  BY DEF RoutesIn

\* A round that starts has a path to improve: the direct one, if no other.
LEMMA RoundStarts ==
  ASSUME Edge(Src, Dst) \in edges, NEW cutoff \in Nat, StartRound(cutoff)
  PROVE  /\ round' # {} /\ round' \subseteq RoutesIn(edges) /\ left' = round'
         /\ at' = "planning" /\ k' = cutoff /\ improved' = FALSE
<1> PICK ps \in SUBSET RoutesIn(edges) :
      ShortestPaths(cutoff, ps) /\ round' = ps /\ left' = ps
  BY DEF StartRound
<1> DEFINE fit == {p \in RoutesIn(edges) : Len(p) - 1 <= cutoff + 1}
<1>1. <<Src, Dst>> \in fit
  BY DirectRoute
<1>2. IsFiniteSet(fit)
  BY RoutesFinite, FS_Subset DEF RoutesIn
<1>3. Cardinality(ps) = IF Cardinality(fit) < MaxCandidates THEN Cardinality(fit)
                        ELSE MaxCandidates
  BY DEF ShortestPaths
<1> HIDE DEF fit
<1>4. Cardinality(fit) \in Nat /\ Cardinality(fit) # 0
  BY <1>1, <1>2, FS_CardinalityType, FS_EmptySet
<1>5. Cardinality(ps) # 0
  BY <1>3, <1>4, LinkAssumption
<1>6. ps # {}
  BY <1>5, FS_EmptySet
<1> QED
  BY <1>6 DEF StartRound

-----------------------------------------------------------------------------
\* Steps

\* At the start no link is set.
LEMMA InitIsTyped == Init => IInv
<1> SUFFICES ASSUME Init PROVE IInv
  OBVIOUS
<1>1. terrain \in [Edges -> Nat]
  BY LinkAssumption DEF Init
<1>2. DOMAIN nextHop = {} /\ nextHop \in [{} -> Nodes \cup {None}]
  BY DEF Init
<1>3. 0 \in 0..MaxRepeaters
  BY LinkAssumption
<1> QED
  BY <1>1, <1>2, <1>3
     DEF Init, IInv, TypeOK, DirectEdge, NoRound, LastHop, HopsFollowPlan

\* A new link starts from its two ends, with the direct edge or none.
LEMMA SetLinkStep == IInv /\ SetLink => IInv'
<1> SUFFICES ASSUME IInv, SetLink PROVE IInv'
  OBVIOUS
<1> USE DEF IInv, SetLink
<1>1. Edge(Src, Dst) \in Edges
  BY LinkAssumption DEF Edge, Edges, Nodes
<1>2. DOMAIN nextHop' = {Src, Dst} /\ nextHop' \in [{Src, Dst} -> Nodes \cup {None}]
      /\ nextHop'[Dst] = None
  BY LinkAssumption DEF Nodes
<1>3. round = {} /\ left = {}
  BY DEF NoRound, TypeOK
<1>4. TypeOK'
  BY <1>1, <1>2, <1>3 DEF TypeOK, loopVars, Nodes
<1> QED
  BY <1>2, <1>3, <1>4 DEF DirectEdge, NoRound, LastHop, HopsFollowPlan, loopVars

\* A round may begin whenever its path length is within max_repeaters.
LEMMA RoundStep ==
  ASSUME IInv, edges # {}, NEW i \in 0..MaxRepeaters, StartRound(i),
         UNCHANGED <<terrain, graphVars, planVars>>
  PROVE  IInv'
<1> USE DEF IInv, graphVars, planVars
<1>1. i \in Nat /\ Edge(Src, Dst) \in edges
  BY LinkAssumption DEF DirectEdge
<1>2. /\ round' # {} /\ round' \subseteq RoutesIn(edges) /\ left' = round'
      /\ at' = "planning" /\ k' = i /\ improved' = FALSE
  BY <1>1, RoundStarts
<1>3. TypeOK'
  BY <1>2 DEF TypeOK
<1> QED
  BY <1>1, <1>2, <1>3 DEF DirectEdge, NoRound, LastHop, HopsFollowPlan, Hops

\* A plan starts with its first round.
LEMMA PlanBeginStep == IInv /\ PlanBegin => IInv'
<1> SUFFICES ASSUME IInv, PlanBegin PROVE IInv'
  OBVIOUS
<1>1. 0 \in 0..MaxRepeaters
  BY LinkAssumption
<1> QED
  BY <1>1, RoundStep DEF PlanBegin

\* Another round starts only below the limit of repeaters.
LEMMA NextRoundStep == IInv /\ NextRound => IInv'
<1> SUFFICES ASSUME IInv, NextRound PROVE IInv'
  OBVIOUS
<1>1. k + 1 \in 0..MaxRepeaters
  BY LinkAssumption DEF NextRound, Stops, IInv, TypeOK
<1>2. edges # {}
  BY DEF NextRound, IInv, DirectEdge
<1> QED
  BY <1>1, <1>2, RoundStep DEF NextRound

\* An expansion only adds edges, and marks an edge of the graph.
LEMMA ImproveStep ==
  ASSUME IInv, NEW p \in left, Improve(p)
  PROVE  IInv'
<1> USE DEF IInv
<1>1. /\ edges \subseteq edges' /\ edges' \subseteq Edges
      /\ tested' \subseteq edges' /\ improved' \in BOOLEAN
  <2>1. CASE UNCHANGED <<graphVars, improved>>
    BY <2>1 DEF graphVars, TypeOK
  <2>2. CASE ~UNCHANGED <<graphVars, improved>>
    <3>1. PICK i \in Hops(p), candidates \in SUBSET Poles, failed \in SUBSET (Edges \ edges) :
            Expand(HopOf(p, i), candidates, failed)
      BY <2>2 DEF Improve
    <3>2. improved' = TRUE
      BY <2>2 DEF Improve
    <3>3. HopOf(p, i) \in edges
      BY HopIsEdge DEF TypeOK
    <3> QED
      BY <3>1, <3>2, <3>3 DEF Expand, TypeOK
  <2> QED
    BY <2>1, <2>2
<1>2. RoutesIn(edges) \subseteq RoutesIn(edges')
  BY <1>1, LargerGraph
<1>3. UNCHANGED <<terrain, nextHop, path, at, k, round>> /\ left' \subseteq left
  BY DEF Improve, planVars
<1>4. TypeOK'
  BY <1>1, <1>2, <1>3 DEF TypeOK
<1>5. edges # {} /\ at = "planning"
  BY DEF Improve, DirectEdge
<1> QED
  BY <1>1, <1>3, <1>4, <1>5 DEF DirectEdge, NoRound, LastHop, HopsFollowPlan, Hops

\* A plan that fails leaves the graph and the next hops as they were.
LEMMA ImproveFailsStep == IInv /\ ImproveFails => IInv'
<1> SUFFICES ASSUME IInv, ImproveFails PROVE IInv'
  OBVIOUS
<1> USE DEF IInv, ImproveFails, graphVars, planVars
<1>1. 0 \in 0..MaxRepeaters
  BY LinkAssumption
<1>2. TypeOK'
  BY <1>1 DEF TypeOK
<1> QED
  BY <1>2 DEF DirectEdge, NoRound, LastHop, HopsFollowPlan, Hops

\* The hops of a new plan are written over the old ones; no node has two, since a
\* route visits it once, and the destination has none.
LEMMA PlanEndStep == IInv /\ PlanEnd => IInv'
<1> SUFFICES ASSUME IInv, PlanEnd PROVE IInv'
  OBVIOUS
<1> USE DEF IInv
<1> DEFINE walked(p) == {p[i] : i \in DOMAIN p}
           hop(p, n) == IF \E i \in Hops(p) : p[i] = n
                        THEN LET i == CHOOSE i \in Hops(p) : p[i] = n IN p[i + 1]
                        ELSE IF n \in DOMAIN nextHop THEN nextHop[n] ELSE None
<1>1. PICK p \in Cheapest(RoutesIn(edges)) :
        /\ path' = p
        /\ nextHop' = [n \in DOMAIN nextHop \cup walked(p) |-> hop(p, n)]
  BY DEF PlanEnd
<1>2. p \in RoutesIn(edges) /\ p \in Routes
  BY DEF Cheapest, RoutesIn
<1>3. /\ Len(p) \in Nat \ {0, 1} /\ DOMAIN p = 1..Len(p)
      /\ p[1] = Src /\ p[Len(p)] = Dst
      /\ \A i \in 1..Len(p) : p[i] \in Nodes
      /\ \A i, j \in 1..Len(p) : p[i] = p[j] => i = j
  BY <1>2, RouteShape
<1>4. \A i \in Hops(p) : /\ i \in 1..Len(p) /\ i + 1 \in 1..Len(p) /\ i # Len(p)
                         /\ p[i] \in walked(p) /\ p[i] # Dst
  <2> SUFFICES ASSUME NEW i \in Hops(p)
               PROVE  /\ i \in 1..Len(p) /\ i + 1 \in 1..Len(p) /\ i # Len(p)
                      /\ p[i] \in walked(p) /\ p[i] # Dst
    OBVIOUS
  <2>1. i \in 1..Len(p) /\ i + 1 \in 1..Len(p) /\ i # Len(p) /\ Len(p) \in 1..Len(p)
    <3>1. Len(p) \in Nat /\ Len(p) # 0 /\ i \in 1..(Len(p) - 1)
      BY <1>3 DEF Hops
    <3> QED
      BY <3>1
  <2> QED
    BY <1>3, <2>1
<1>5. \A i \in Hops(p) : hop(p, p[i]) = p[i + 1]
  <2> SUFFICES ASSUME NEW i \in Hops(p)
               PROVE  (CHOOSE j \in Hops(p) : p[j] = p[i]) = i
    OBVIOUS
  <2>1. \A j \in Hops(p) : p[j] = p[i] => j = i
    BY <1>3, <1>4
  <2> QED
    BY <2>1
<1>6. \A n : hop(p, n) \in Nodes \cup {None}
  <2> SUFFICES ASSUME NEW n PROVE hop(p, n) \in Nodes \cup {None}
    OBVIOUS
  <2>1. CASE \E i \in Hops(p) : p[i] = n
    BY <1>3, <1>4, <1>5, <2>1
  <2>2. CASE ~\E i \in Hops(p) : p[i] = n
    BY <2>2 DEF TypeOK
  <2> QED
    BY <2>1, <2>2
<1>7. hop(p, Dst) = None
  BY <1>4 DEF LastHop
<1>8. Dst \in walked(p)
  BY <1>3
<1>9. walked(p) \subseteq Nodes
  BY <1>3
<1> HIDE DEF walked, hop
<1>10. /\ DOMAIN nextHop' = DOMAIN nextHop \cup walked(p)
       /\ nextHop' \in [DOMAIN nextHop' -> Nodes \cup {None}]
       /\ nextHop'[Dst] = None
  BY <1>1, <1>6, <1>7, <1>8
<1>11. \A i \in Hops(p) : p[i] \in DOMAIN nextHop' /\ nextHop'[p[i]] = p[i + 1]
  BY <1>1, <1>4, <1>5
<1>12. /\ at' = "idle" /\ k' = 0 /\ round' = {} /\ improved' = FALSE
       /\ UNCHANGED <<terrain, edges, tested, left>> /\ left = {}
  BY DEF PlanEnd, graphVars
<1>13. 0 \in 0..MaxRepeaters
  BY LinkAssumption
<1>14. TypeOK'
  BY <1>1, <1>2, <1>9, <1>10, <1>12, <1>13 DEF TypeOK
<1>15. HopsFollowPlan'
  BY <1>1, <1>10, <1>11 DEF HopsFollowPlan, Hops
<1> QED
  BY <1>10, <1>12, <1>14, <1>15 DEF DirectEdge, NoRound, LastHop

\* Every step keeps the invariant.
LEMMA NextStep == IInv /\ [Next]_vars => IInv'
<1> SUFFICES ASSUME IInv, [Next]_vars PROVE IInv'
  OBVIOUS
<1>1. CASE SetLink
  BY <1>1, SetLinkStep
<1>2. CASE PlanBegin
  BY <1>2, PlanBeginStep
<1>3. CASE \E p \in left : Improve(p)
  BY <1>3, ImproveStep
<1>4. CASE ImproveFails
  BY <1>4, ImproveFailsStep
<1>5. CASE NextRound
  BY <1>5, NextRoundStep
<1>6. CASE PlanEnd
  BY <1>6, PlanEndStep
<1>7. CASE UNCHANGED vars
  BY <1>7 DEF vars, graphVars, planVars, loopVars, IInv, TypeOK, DirectEdge, NoRound,
              LastHop, HopsFollowPlan, Hops
<1> QED
  BY <1>1, <1>2, <1>3, <1>4, <1>5, <1>6, <1>7 DEF Next

-----------------------------------------------------------------------------

\* The inductive invariant of the link planner: besides the types, every graph
\* holds the direct edge, no round is left over between two plans, and the
\* destination never hands anything on (plan_link, LinkPlanner.nodes).
THEOREM Invariance == Spec => []IInv
  BY InitIsTyped, NextStep, PTL DEF Spec

\* The planner's state is well typed; a round always has a path to improve.
THEOREM TypeCorrect == Spec => []TypeOK
  BY Invariance, PTL DEF IInv

\* From the source the next hops run through the plan and end at the destination,
\* after any number of plans and of failures half way (the tail of plan_link).
THEOREM PlansCanBeWalked == Spec => []HopsFollowPlan
  BY Invariance, PTL DEF IInv

\* A plan costs no more than the direct edge, nor than the plan it replaces.
THEOREM PlansNeverGetWorse == Spec => PlanNeverWorse
<1> DEFINE Better == path' # path /\ path' # None =>
                       /\ Cost(path') <= terrain[Edge(Src, Dst)]
                       /\ path # None => Cost(path') <= Cost(path)
<1>1. IInv /\ [Next]_vars => [Better]_vars
  <2> SUFFICES ASSUME IInv, [Next]_vars, path' # path, path' # None
               PROVE  /\ Cost(path') <= terrain[Edge(Src, Dst)]
                      /\ path # None => Cost(path') <= Cost(path)
    OBVIOUS
  <2>1. PlanEnd
    BY DEF Next, vars, planVars, SetLink, PlanBegin, Improve, ImproveFails, NextRound
  <2>2. path' \in Cheapest(RoutesIn(edges)) /\ at = "planning"
    BY <2>1 DEF PlanEnd
  <2>3. \A q \in RoutesIn(edges) : Cost(path') <= Cost(q)
    BY <2>2 DEF Cheapest
  <2>4. Edge(Src, Dst) \in edges
    BY <2>2 DEF IInv, DirectEdge
  <2>5. terrain[Edge(Src, Dst)] \in Nat
    BY <2>4 DEF IInv, TypeOK
  <2>6. Cost(path') <= terrain[Edge(Src, Dst)]
    BY <2>3, <2>4, <2>5, DirectRoute, DirectCost
  <2>7. path # None => Cost(path') <= Cost(path)
    BY <2>3 DEF IInv, TypeOK
  <2> QED
    BY <2>6, <2>7
<1> QED
  BY <1>1, Invariance, PTL DEF Spec, PlanNeverWorse

-----------------------------------------------------------------------------
(* The preparation of the footprints *)

\* What t can measure has a height.
Measured(t) == \A b \in DOMAIN Buildings : t \in Buildings[b].pixels => height[b] # None

AllMeasured(ts) == \A t \in ts \ unread : Measured(t)

\* What is noted, in the file and in memory, is measured.
NotedAreMeasured ==
  /\ progress # Garbled => AllMeasured(progress)
  /\ AllMeasured(processed)

\* A batch holds whatever its tiles have still to measure ...
BatchIsComplete ==
  stage = "pool" =>
    \A t \in DOMAIN batch :
      /\ batch[t] \subseteq DOMAIN Buildings
      /\ \A b \in DOMAIN Buildings :
           t \in Buildings[b].pixels /\ height[b] = None => b \in batch[t]

\* ... and its updates a height for all of it that could be read.
UpdatesAreComplete ==
  stage = "commit" =>
    /\ \A b \in DOMAIN updates : None \notin updates[b]
    /\ \A t \in DOMAIN batch \ unread, b \in DOMAIN Buildings :
         t \in Buildings[b].pixels /\ height[b] = None => b \in DOMAIN updates /\ updates[b] # {}

BatchIsMeasured == stage = "note" => AllMeasured(DOMAIN batch)

MeasureInv ==
  NotedAreMeasured /\ BatchIsComplete /\ UpdatesAreComplete /\ BatchIsMeasured

\* A file holds the buildings its name stands for, and what is indexed is there, with
\* the bounds of its name.
FilesInv ==
  /\ DOMAIN parquets \subseteq Footprints!FileNames
  /\ \A f \in DOMAIN parquets :
       DOMAIN parquets[f] = {b \in DOMAIN Buildings : Footprints!FileOf(b) = f}
  /\ DOMAIN index \subseteq DOMAIN parquets
  /\ \A f \in DOMAIN index : index[f] = Footprints!Bounds(f)

-----------------------------------------------------------------------------

\* At the start no tile is noted.
LEMMA InitMeasured == Footprints!Init => MeasureInv
  BY DEF Footprints!Init, MeasureInv, NotedAreMeasured, BatchIsComplete,
         UpdatesAreComplete, BatchIsMeasured, AllMeasured, Measured

\* A run of update_height believes what the file says.
LEMMA StartStep == MeasureInv /\ Footprints!Start => MeasureInv'
  BY DEF Footprints!Start, Footprints!files, MeasureInv, NotedAreMeasured, BatchIsComplete,
         UpdatesAreComplete, BatchIsMeasured, AllMeasured, Measured

\* A tile of the batch without a building to measure has measured all it can.
LEMMA FetchStep == MeasureInv /\ Footprints!Fetch => MeasureInv'
<1> SUFFICES ASSUME MeasureInv, Footprints!Fetch PROVE MeasureInv'
  OBVIOUS
<1> DEFINE of(t) == {b \in DOMAIN Buildings : t \in Buildings[b].tiles /\ height[b] = None}
<1>1. PICK mine : LET some == {t \in mine : of(t) # {}}
                  IN /\ batch' = [t \in some |-> of(t)]
                     /\ processed' = processed \cup (mine \ some)
                     /\ stage' = IF some = {} THEN "fetch" ELSE "pool"
  BY DEF Footprints!Fetch
<1>2. UNCHANGED <<height, progress, unread>>
  BY DEF Footprints!Fetch
<1>3. \A t : of(t) = {} => Measured(t)
  BY FootprintAssumption DEF Measured, Footprints!BuildingsArePlaced
<1>4. NotedAreMeasured'
  BY <1>1, <1>2, <1>3 DEF MeasureInv, NotedAreMeasured, AllMeasured, Measured
<1>5. BatchIsComplete'
  BY <1>1, <1>2, FootprintAssumption DEF BatchIsComplete, Footprints!BuildingsArePlaced
<1>6. stage' \notin {"commit", "note"}
  BY <1>1
<1> QED
  BY <1>4, <1>5, <1>6 DEF MeasureInv, UpdatesAreComplete, BatchIsMeasured

\* What a batch does not measure, a worker of it could not read.
LEMMA MeasureStep ==
  ASSUME MeasureInv, NEW failed, Footprints!Measure(failed)
  PROVE  MeasureInv'
<1>1. /\ updates' = [b \in UNION {batch[t] : t \in DOMAIN batch} |->
                       {t \in DOMAIN batch \ failed : b \in batch[t] /\ t \in Buildings[b].pixels}]
      /\ unread' = unread \cup failed /\ stage = "pool" /\ stage' = "commit"
      /\ UNCHANGED <<height, progress, processed, batch>>
  BY DEF Footprints!Measure
<1>2. NotedAreMeasured'
  BY <1>1 DEF MeasureInv, NotedAreMeasured, AllMeasured, Measured
<1>3. \A b \in DOMAIN updates' : None \notin updates'[b]
  <2> SUFFICES ASSUME NEW b \in DOMAIN updates' PROVE None \notin updates'[b]
    OBVIOUS
  <2>1. updates'[b] \subseteq Buildings[b].pixels
    BY <1>1
  <2>2. b \in DOMAIN Buildings
    BY <1>1 DEF MeasureInv, BatchIsComplete
  <2> QED
    BY <2>1, <2>2, FootprintAssumption DEF Footprints!BuildingsArePlaced
<1>4. ASSUME NEW t \in DOMAIN batch' \ unread', NEW b \in DOMAIN Buildings,
             t \in Buildings[b].pixels, height'[b] = None
      PROVE  b \in DOMAIN updates' /\ updates'[b] # {}
  <2>1. t \in DOMAIN batch \ failed /\ b \in batch[t]
    BY <1>1, <1>4 DEF MeasureInv, BatchIsComplete
  <2>2. b \in DOMAIN updates'
    BY <1>1, <2>1
  <2>3. t \in updates'[b]
    BY <1>1, <1>4, <2>1, <2>2
  <2> QED
    BY <2>2, <2>3
<1>5. UpdatesAreComplete'
  BY <1>3, <1>4 DEF UpdatesAreComplete
<1> QED
  BY <1>1, <1>2, <1>5 DEF MeasureInv, BatchIsComplete, BatchIsMeasured

\* The heights of the batch are committed before its tiles are noted.
LEMMA CommitStep == MeasureInv /\ Footprints!Commit => MeasureInv'
<1> SUFFICES ASSUME MeasureInv, Footprints!Commit PROVE MeasureInv'
  OBVIOUS
<1>1. /\ height' \in [DOMAIN Buildings -> Tiles \cup {None}]
      /\ \A b \in DOMAIN Buildings :
           IF b \in DOMAIN updates /\ updates[b] # {}
           THEN height'[b] \in updates[b] ELSE height'[b] = height[b]
      /\ stage = "commit" /\ stage' = "note"
      /\ UNCHANGED <<progress, processed, batch, updates, unread>>
  BY DEF Footprints!Commit, Footprints!importing
<1>2. ASSUME NEW b \in DOMAIN Buildings
      PROVE  /\ height[b] # None => height'[b] # None
             /\ b \in DOMAIN updates /\ updates[b] # {} => height'[b] # None
  BY <1>1 DEF MeasureInv, UpdatesAreComplete
<1>3. NotedAreMeasured'
  BY <1>1, <1>2 DEF MeasureInv, NotedAreMeasured, AllMeasured, Measured
<1>4. AllMeasured(DOMAIN batch)'
  <2> SUFFICES ASSUME NEW t \in DOMAIN batch \ unread, NEW b \in DOMAIN Buildings,
                      t \in Buildings[b].pixels
               PROVE  height'[b] # None
    BY <1>1 DEF AllMeasured, Measured
  <2>1. CASE height[b] # None
    BY <1>2, <2>1
  <2>2. CASE height[b] = None
    BY <1>1, <1>2, <2>2 DEF MeasureInv, UpdatesAreComplete
  <2> QED
    BY <2>1, <2>2
<1> QED
  BY <1>1, <1>3, <1>4 DEF MeasureInv, BatchIsComplete, UpdatesAreComplete, BatchIsMeasured

\* The file is cut off and written again; the other steps leave it alone.
LEMMA OtherSteps ==
  ASSUME MeasureInv,
         \/ Footprints!Note \/ Footprints!Write \/ Footprints!Complete \/ Footprints!Crash
         \/ Footprints!Shatter \/ (\E f \in Footprints!FileNames : Footprints!Export(f))
         \/ Footprints!Exported \/ Footprints!MakeIndex
  PROVE  MeasureInv'
<1> USE DEF MeasureInv, NotedAreMeasured, BatchIsComplete, UpdatesAreComplete,
            BatchIsMeasured, AllMeasured, Measured
<1>1. CASE Footprints!Note
  BY <1>1 DEF Footprints!Note
<1>2. CASE Footprints!Write
  BY <1>2 DEF Footprints!Write
<1>3. CASE Footprints!Complete
  BY <1>3 DEF Footprints!Complete
<1>4. CASE Footprints!Crash
  BY <1>4 DEF Footprints!Crash
<1>5. CASE Footprints!Shatter
  BY <1>5 DEF Footprints!Shatter, Footprints!importing
<1>6. CASE \E f \in Footprints!FileNames : Footprints!Export(f)
  BY <1>6 DEF Footprints!Export, Footprints!importing
<1>7. CASE Footprints!Exported
  BY <1>7 DEF Footprints!Exported, Footprints!importing
<1>8. CASE Footprints!MakeIndex
  BY <1>8 DEF Footprints!MakeIndex, Footprints!importing
<1> QED
  BY <1>1, <1>2, <1>3, <1>4, <1>5, <1>6, <1>7, <1>8

\* Every step keeps the notes complete.
LEMMA NextMeasured == MeasureInv /\ [Footprints!Next]_(Footprints!vars) => MeasureInv'
<1> SUFFICES ASSUME MeasureInv, [Footprints!Next]_(Footprints!vars) PROVE MeasureInv'
  OBVIOUS
<1>1. CASE UNCHANGED Footprints!vars
  BY <1>1 DEF Footprints!vars, Footprints!importing, MeasureInv, NotedAreMeasured,
              BatchIsComplete, UpdatesAreComplete, BatchIsMeasured, AllMeasured, Measured
<1>2. CASE Footprints!Next
  BY <1>2, StartStep, FetchStep, MeasureStep, CommitStep, OtherSteps DEF Footprints!Next
<1> QED
  BY <1>1, <1>2

-----------------------------------------------------------------------------

\* At the start there are neither files nor an index.
LEMMA InitFiles == Footprints!Init => FilesInv
  BY DEF Footprints!Init, FilesInv

\* Only an export changes a file, and only whole.
LEMMA NextFiles == FilesInv /\ [Footprints!Next]_(Footprints!vars) => FilesInv'
<1> SUFFICES ASSUME FilesInv, [Footprints!Next]_(Footprints!vars) PROVE FilesInv'
  OBVIOUS
<1> USE DEF FilesInv
<1>1. CASE \E f \in Footprints!FileNames : Footprints!Export(f)
  <2>1. PICK f \in Footprints!FileNames : Footprints!Export(f)
    BY <1>1
  <2>2. /\ parquets' = [g \in DOMAIN parquets \cup {f} |->
                          IF g = f
                          THEN [b \in {b \in DOMAIN Buildings : Footprints!FileOf(b) = f} |-> height[b]]
                          ELSE parquets[g]]
        /\ UNCHANGED index
    BY <2>1 DEF Footprints!Export
  <2>3. DOMAIN parquets' = DOMAIN parquets \cup {f}
    BY <2>2
  <2>4. \A g \in DOMAIN parquets' :
          DOMAIN parquets'[g] = {b \in DOMAIN Buildings : Footprints!FileOf(b) = g}
    BY <2>2
  <2> QED
    BY <2>2, <2>3, <2>4
<1>2. CASE Footprints!Exported
  BY <1>2 DEF Footprints!Exported, Footprints!files
<1>3. CASE Footprints!MakeIndex
  <2>1. index' = [f \in DOMAIN parquets |-> Footprints!Bounds(f)] /\ UNCHANGED parquets
    BY <1>3 DEF Footprints!MakeIndex
  <2> QED
    BY <2>1
<1>4. CASE \/ Footprints!Start \/ Footprints!Fetch \/ Footprints!Commit \/ Footprints!Note
           \/ (\E failed \in SUBSET Tiles : Footprints!Measure(failed))
           \/ Footprints!Write \/ Footprints!Complete \/ Footprints!Shatter \/ Footprints!Crash
           \/ UNCHANGED Footprints!vars
  <2>1. UNCHANGED Footprints!files
    BY <1>4 DEF Footprints!Start, Footprints!Fetch, Footprints!Measure, Footprints!Commit,
                Footprints!Note, Footprints!Write, Footprints!Complete, Footprints!Shatter,
                Footprints!Crash, Footprints!vars
  <2> QED
    BY <2>1 DEF Footprints!files
<1> QED
  BY <1>1, <1>2, <1>3, <1>4 DEF Footprints!Next

\* The bounds of a name contain a position of which they are the floor, and no other
\* position below the end of the quarter; beyond it no name has bounds.
LEMMA DegreeIsFloor ==
  ASSUME NEW x \in Int
  PROVE  /\ Footprints!Degree(x) \in Nat
         /\ x < 10 => x \in (-10 * Footprints!Degree(x))..(-10 * Footprints!Degree(x) + 10 - 1)
         /\ \A n \in Nat : x \in (-10 * n)..(-10 * n + 10 - 1) => n = Footprints!Degree(x)
<1>1. x \div 10 \in Int /\ 10 * (x \div 10) <= x /\ x < 10 * (x \div 10) + 10
  OBVIOUS
<1>2. Footprints!Degree(x) = IF x < 0 THEN 0 - (x \div 10) ELSE x \div 10
  BY DEF Footprints!Degree
<1>3. CASE x < 0
  BY <1>1, <1>2, <1>3
<1>4. CASE ~(x < 0)
  BY <1>1, <1>2, <1>4
<1> QED
  BY <1>3, <1>4

\* A building of the south-west stands within the bounds of its file, and a building
\* stands within no others.
LEMMA StandsInFile ==
  ASSUME NEW b \in DOMAIN Buildings
  PROVE  /\ Footprints!SouthWest(b) => Footprints!StandsIn(b, Footprints!Bounds(Footprints!FileOf(b)))
         /\ \A f \in Footprints!FileNames :
              Footprints!StandsIn(b, Footprints!Bounds(f)) => f = Footprints!FileOf(b)
<1> DEFINE d(x) == Footprints!Degree(x)
<1>1. Buildings[b].lat \in Int /\ Buildings[b].lon \in Int
  BY FootprintAssumption DEF Footprints!BuildingsArePlaced
<1>2. Footprints!FileOf(b) = <<d(Buildings[b].lat), d(Buildings[b].lon)>>
  BY DEF Footprints!FileOf
<1>3. ASSUME NEW n \in Nat, NEW m \in Nat
      PROVE  Footprints!StandsIn(b, Footprints!Bounds(<<n, m>>)) <=>
               /\ Buildings[b].lat \in (-10 * n)..(-10 * n + 10 - 1)
               /\ Buildings[b].lon \in (-10 * m)..(-10 * m + 10 - 1)
  BY DEF Footprints!StandsIn, Footprints!Bounds
<1> HIDE DEF d
<1>4. \A x \in Int : /\ d(x) \in Nat
                     /\ x < 10 => x \in (-10 * d(x))..(-10 * d(x) + 10 - 1)
                     /\ \A n \in Nat : x \in (-10 * n)..(-10 * n + 10 - 1) => n = d(x)
  BY DegreeIsFloor DEF d
<1>5. ASSUME Footprints!SouthWest(b)
      PROVE  Footprints!StandsIn(b, Footprints!Bounds(Footprints!FileOf(b)))
  <2>1. Buildings[b].lat < 10 /\ Buildings[b].lon < 10
    BY <1>5 DEF Footprints!SouthWest
  <2>2. /\ Buildings[b].lat \in (-10 * d(Buildings[b].lat))..(-10 * d(Buildings[b].lat) + 10 - 1)
        /\ Buildings[b].lon \in (-10 * d(Buildings[b].lon))..(-10 * d(Buildings[b].lon) + 10 - 1)
    BY <1>1, <1>4, <2>1
  <2> QED
    BY <1>1, <1>2, <1>3, <1>4, <2>2
<1>6. ASSUME NEW f \in Footprints!FileNames, Footprints!StandsIn(b, Footprints!Bounds(f))
      PROVE  f = Footprints!FileOf(b)
  <2>1. PICK c \in DOMAIN Buildings : f = <<d(Buildings[c].lat), d(Buildings[c].lon)>>
    BY <1>6 DEF Footprints!FileNames, Footprints!FileOf, d
  <2>2. Buildings[c].lat \in Int /\ Buildings[c].lon \in Int
    BY FootprintAssumption DEF Footprints!BuildingsArePlaced
  <2>a. d(Buildings[c].lat) \in Nat /\ d(Buildings[c].lon) \in Nat
    BY <1>4, <2>2
  <2>3. /\ Buildings[b].lat \in (-10 * d(Buildings[c].lat))..(-10 * d(Buildings[c].lat) + 10 - 1)
        /\ Buildings[b].lon \in (-10 * d(Buildings[c].lon))..(-10 * d(Buildings[c].lon) + 10 - 1)
    BY <1>3, <1>6, <2>1, <2>a
  <2>4. d(Buildings[c].lat) = d(Buildings[b].lat) /\ d(Buildings[c].lon) = d(Buildings[b].lon)
    BY <1>1, <1>4, <2>a, <2>3
  <2> QED
    BY <1>2, <2>1, <2>4
<1> QED
  BY <1>5, <1>6

-----------------------------------------------------------------------------

\* A tile noted as processed is not read again: its buildings have a height by
\* then, wherever the import died and however often it was started (update_height).
THEOREM NotedTilesStayMeasured == Footprints!Spec => []NotedTilesAreMeasured
<1>1. MeasureInv => NotedTilesAreMeasured
  BY DEF MeasureInv, NotedAreMeasured, AllMeasured, Measured, NotedTilesAreMeasured,
         Footprints!NotedTilesAreMeasured
<1> QED
  BY InitMeasured, NextMeasured, <1>1, PTL DEF Footprints!Spec

\* Whatever was exported, measured again or indexed in between: a building is in every
\* file that is indexed where it stands, and if that is south and west, its own file is
\* indexed there (create_parquet_index).
THEOREM BuildingsAreFound == Footprints!Spec => []IndexedWhereItStands
<1>1. FilesInv => IndexedWhereItStands
  <2> SUFFICES ASSUME FilesInv, NEW f \in DOMAIN index, NEW b \in DOMAIN Buildings
               PROVE  /\ Footprints!StandsIn(b, index[f]) => b \in DOMAIN parquets[f]
                      /\ b \in DOMAIN parquets[f] /\ Footprints!SouthWest(b)
                           => Footprints!StandsIn(b, index[f])
    BY DEF IndexedWhereItStands, Footprints!IndexedWhereItStands
  <2>1. /\ f \in Footprints!FileNames
        /\ index[f] = Footprints!Bounds(f)
        /\ b \in DOMAIN parquets[f] <=> Footprints!FileOf(b) = f
    BY DEF FilesInv
  <2> QED
    BY <2>1, StandsInFile
<1> QED
  BY InitFiles, NextFiles, <1>1, PTL DEF Footprints!Spec

-----------------------------------------------------------------------------
(* The tables of sites *)

\* The interfaces of a site of profile p.
RadiosOf(p) ==
  [n \in DOMAIN Profiles[p].radios |->
     [relay |-> Rows!Truth(Profiles[p].radios[n].relay, FALSE),
      links |-> Rows!LinkLimit(Profiles[p].radios[n].links)]]

Site(id, profile, geo, xy, connected, can_route, rank, mount, radios) ==
  [id |-> id, profile |-> profile, geo |-> geo, xy |-> xy, connected |-> connected,
   can_route |-> can_route, rank |-> rank, height |-> mount, radios |-> radios]

\* A site of its profile, with a rank.
Ranked(s, rank) ==
  Site(s.id, s.profile, s.geo, s.xy, s.connected, s.can_route, rank, s.height, RadiosOf(s.profile))

\* A site nothing of which is left open: what a file says of it, it is.
Settled(s, g) ==
  /\ s = Ranked(s, s.rank)
  /\ ~Rows!IsBlank(s.id) /\ ~Rows!IsBlank(s.connected) /\ ~Rows!IsBlank(s.can_route)
  /\ ~Rows!IsBlank(s.rank)
  /\ s.profile \in DOMAIN Profiles
  /\ Rows!IsBlank(s.height) => s.height = Profiles[s.profile].height
  /\ s.geo # None => ~Rows!IsBlank(s.geo)
  /\ s.geo = None => g # None
  /\ s.xy # None /\ ~Rows!IsBlank(s.xy.place)
  /\ s.xy = [grid |-> IF g = None THEN ZoneOf[s.geo] ELSE g, place |-> s.xy.place]

\* set_nodes accepts its rank.
Planned(s) == DOMAIN s.radios # {} => (s.connected <=> s.rank # Inf)

\* h gives the planner the nodes of s.
Same(h, s) ==
  /\ h.id = s.id /\ h.profile = s.profile /\ h.connected = s.connected
  /\ h.can_route = s.can_route /\ h.height = s.height /\ h.xy = s.xy
  /\ h.radios = s.radios
  /\ DOMAIN s.radios # {} => h.rank = s.rank

-----------------------------------------------------------------------------
\* Records

LEMMA RadiosReadBack ==
  ASSUME NEW p
  PROVE  [n \in DOMAIN Rows!Said(RadiosOf(p)) |->
            [relay |-> Rows!Truth(Rows!Said(RadiosOf(p))[n].relay, TRUE),
             links |-> Rows!LinkLimit(Rows!Said(RadiosOf(p))[n].links)]] = RadiosOf(p)
<1> DEFINE said == Rows!Said(RadiosOf(p))
<1>1. DOMAIN said = DOMAIN RadiosOf(p)
  BY DEF Rows!Said
<1>2. ASSUME NEW v
      PROVE  Rows!Truth(Rows!Truth(v, FALSE), TRUE) = Rows!Truth(v, FALSE)
  BY TablesAssumption DEF Rows!Truth, Rows!TablesAreWritten
<1>3. ASSUME NEW v
      PROVE  Rows!LinkLimit(Rows!Finite(Rows!LinkLimit(v))) = Rows!LinkLimit(v)
  BY DEF Rows!LinkLimit, Rows!Finite, Rows!IsBlank
<1>4. ASSUME NEW n \in DOMAIN RadiosOf(p)
      PROVE  [relay |-> Rows!Truth(said[n].relay, TRUE),
              links |-> Rows!LinkLimit(said[n].links)] = RadiosOf(p)[n]
  <2>1. RadiosOf(p)[n] = [relay |-> Rows!Truth(Profiles[p].radios[n].relay, FALSE),
                          links |-> Rows!LinkLimit(Profiles[p].radios[n].links)]
    BY DEF RadiosOf
  <2>2. said[n] = [relay |-> RadiosOf(p)[n].relay, links |-> Rows!Finite(RadiosOf(p)[n].links)]
    BY DEF Rows!Said
  <2>3. /\ said[n].relay = Rows!Truth(Profiles[p].radios[n].relay, FALSE)
        /\ said[n].links = Rows!Finite(Rows!LinkLimit(Profiles[p].radios[n].links))
    BY <2>1, <2>2
  <2>4. /\ Rows!Truth(said[n].relay, TRUE) = Rows!Truth(Profiles[p].radios[n].relay, FALSE)
        /\ Rows!LinkLimit(said[n].links) = Rows!LinkLimit(Profiles[p].radios[n].links)
    BY <1>2, <1>3, <2>3
  <2> HIDE DEF said
  <2> QED
    BY <2>1, <2>4
<1>5. RadiosOf(p) = [n \in DOMAIN RadiosOf(p) |-> RadiosOf(p)[n]]
  BY DEF RadiosOf
<1> HIDE DEF said
<1>6. [n \in DOMAIN said |-> [relay |-> Rows!Truth(said[n].relay, TRUE),
                              links |-> Rows!LinkLimit(said[n].links)]] = RadiosOf(p)
  BY <1>1, <1>4, <1>5
<1> QED
  BY <1>6 DEF said

\* A settled site is read back from the TOML file as it was written.
LEMMA ReadFromConfig ==
  ASSUME NEW g, NEW s, Settled(s, g)
  PROVE  Rows!FromConfig(Rows!ToConfig(s)) = s
<1>1. s.radios = RadiosOf(s.profile)
  BY DEF Settled, Ranked, Site
<1>2. Rows!ToConfig(s) = [s EXCEPT !.radios = Rows!Said(RadiosOf(s.profile))]
  BY <1>1 DEF Rows!ToConfig
<1>3. Rows!ToConfig(s) = Site(s.id, s.profile, s.geo, s.xy, s.connected, s.can_route, s.rank,
                              s.height, Rows!Said(RadiosOf(s.profile)))
  BY <1>2 DEF Settled, Ranked, Site
<1>4. PICK c : c = Rows!ToConfig(s)
  OBVIOUS
<1>5. PICK w : w = Rows!Said(RadiosOf(s.profile))
  OBVIOUS
<1>6. /\ c.id = s.id /\ c.profile = s.profile /\ c.geo = s.geo /\ c.xy = s.xy
      /\ c.connected = s.connected /\ c.can_route = s.can_route /\ c.rank = s.rank
      /\ c.height = s.height /\ c.radios = w
  BY <1>3, <1>4, <1>5 DEF Site
<1>7. Rows!FromConfig(c) =
        Site(s.id, s.profile, s.geo, s.xy, Rows!Truth(s.connected, FALSE),
             Rows!Truth(s.can_route, FALSE), Rows!RankOf(s.rank, Rows!Truth(s.connected, FALSE)),
             s.height, [n \in DOMAIN w |-> [relay |-> Rows!Truth(w[n].relay, TRUE),
                                            links |-> Rows!LinkLimit(w[n].links)]])
  BY <1>6 DEF Rows!FromConfig, Site
<1>8. [n \in DOMAIN w |-> [relay |-> Rows!Truth(w[n].relay, TRUE),
                           links |-> Rows!LinkLimit(w[n].links)]] = RadiosOf(s.profile)
  BY <1>5, RadiosReadBack
<1>9. /\ Rows!Truth(s.connected, FALSE) = s.connected /\ Rows!Truth(s.can_route, FALSE) = s.can_route
      /\ Rows!RankOf(s.rank, s.connected) = s.rank
  BY DEF Settled, Rows!Truth, Rows!RankOf
<1> QED
  BY <1>4, <1>7, <1>8, <1>9 DEF Settled, Ranked


\* r can take the place of s.
Follows(r, s, g) == Settled(r, g) /\ Planned(r) /\ Same(r, s)

\* From JSON, an infinite rank is made again of the connection.
LEMMA ReadFromJson ==
  ASSUME NEW g, NEW s, Settled(s, g), Planned(s)
  PROVE  Follows(Rows!FromConfig(Rows!ToJson(s)), s, g)
<1>1. s.radios = RadiosOf(s.profile)
  BY DEF Settled, Ranked, Site
<1>2. Rows!ToConfig(s) = [s EXCEPT !.radios = Rows!Said(RadiosOf(s.profile))]
  BY <1>1 DEF Rows!ToConfig
<1>3. Rows!ToConfig(s) = Site(s.id, s.profile, s.geo, s.xy, s.connected, s.can_route, s.rank,
                              s.height, Rows!Said(RadiosOf(s.profile)))
  BY <1>2 DEF Settled, Ranked, Site
<1>4. PICK c : c = Rows!ToConfig(s)
  OBVIOUS
<1>5. PICK w : w = Rows!Said(RadiosOf(s.profile))
  OBVIOUS
<1>6. PICK j : j = Rows!ToJson(s)
  OBVIOUS
<1>7. j = [c EXCEPT !.rank = Rows!Finite(@)]
  BY <1>4, <1>6 DEF Rows!ToJson
<1>8. j = Site(s.id, s.profile, s.geo, s.xy, s.connected, s.can_route, Rows!Finite(s.rank),
               s.height, w)
  BY <1>3, <1>4, <1>5, <1>7 DEF Site
<1>9. /\ j.id = s.id /\ j.profile = s.profile /\ j.geo = s.geo /\ j.xy = s.xy
      /\ j.connected = s.connected /\ j.can_route = s.can_route /\ j.rank = Rows!Finite(s.rank)
      /\ j.height = s.height /\ j.radios = w
  BY <1>8 DEF Site
<1>10. Rows!FromConfig(j) =
        Site(s.id, s.profile, s.geo, s.xy, Rows!Truth(s.connected, FALSE),
             Rows!Truth(s.can_route, FALSE),
             Rows!RankOf(Rows!Finite(s.rank), Rows!Truth(s.connected, FALSE)),
             s.height, [n \in DOMAIN w |-> [relay |-> Rows!Truth(w[n].relay, TRUE),
                                            links |-> Rows!LinkLimit(w[n].links)]])
  BY <1>9 DEF Rows!FromConfig, Site
<1>11. [n \in DOMAIN w |-> [relay |-> Rows!Truth(w[n].relay, TRUE),
                            links |-> Rows!LinkLimit(w[n].links)]] = RadiosOf(s.profile)
  BY <1>5, RadiosReadBack
<1>12. Rows!Truth(s.connected, FALSE) = s.connected /\ Rows!Truth(s.can_route, FALSE) = s.can_route
  BY DEF Settled, Rows!Truth
<1>13. PICK rank : rank = Rows!RankOf(Rows!Finite(s.rank), s.connected)
  OBVIOUS
<1>14. /\ ~Rows!IsBlank(rank)
       /\ DOMAIN s.radios # {} => rank = s.rank
  BY <1>13, TablesAssumption
     DEF Settled, Planned, Rows!TablesAreWritten, Rows!RankOf, Rows!Finite, Rows!IsBlank
<1>15. PICK r : r = Rows!FromConfig(j)
  OBVIOUS
<1>16. r = Ranked(s, rank)
  BY <1>10, <1>11, <1>12, <1>13, <1>15 DEF Ranked
<1>17. /\ r.id = s.id /\ r.profile = s.profile /\ r.geo = s.geo /\ r.xy = s.xy
       /\ r.connected = s.connected /\ r.can_route = s.can_route /\ r.rank = rank
       /\ r.height = s.height /\ r.radios = s.radios
  BY <1>1, <1>16 DEF Ranked, Site
<1>18. r = Ranked(r, r.rank)
  BY <1>16, <1>17 DEF Ranked
<1>19. Settled(r, g)
  BY <1>14, <1>17, <1>18 DEF Settled
<1>20. Same(r, s) /\ Planned(r)
  BY <1>14, <1>17 DEF Same, Planned
<1> QED
  BY <1>6, <1>15, <1>19, <1>20 DEF Follows

-----------------------------------------------------------------------------
\* Tables

AllSettled(sites, g) == \A i \in DOMAIN sites : Settled(sites[i], g)

\* A row that says what the site is; a height or a place that is None has no cell or
\* a blank one.
Says(row, s) ==
  /\ Rows!Named(row) /\ row.id = s.id /\ row.profile = s.profile
  /\ \A d : /\ Rows!Get(row, "connected", d) = s.connected
            /\ Rows!Get(row, "can_route", d) = s.can_route
            /\ Rows!Get(row, "rank", d) = s.rank
  /\ IF s.height = None THEN Rows!IsBlank(Rows!Get(row, "height", None))
     ELSE Rows!Get(row, "height", None) = s.height
  /\ IF s.geo = None THEN Rows!IsBlank(Rows!Get(row, "geo", None))
     ELSE Rows!Get(row, "geo", None) = s.geo
  /\ Rows!Get(row, "xy", None) = s.xy.place

\* The rows of a bundle say what the sites are.
LEMMA WrittenRow ==
  ASSUME NEW g, NEW sites, AllSettled(sites, g), NEW i \in DOMAIN sites
  PROVE  Says(Rows!CsvRows(sites)[i], sites[i])
<1> DEFINE Columns == {"id", "profile", "connected", "can_route", "rank"}
                        \cup {key \in {"height", "geo", "xy"} :
                                \E j \in DOMAIN sites : sites[j][key] # None}
           CellOf(s, key) ==
             IF s[key] = None THEN Blank ELSE IF key = "xy" THEN s.xy.place ELSE s[key]
<1>1. PICK row : row = Rows!CsvRows(sites)[i]
  OBVIOUS
<1>2. PICK s : s = sites[i]
  OBVIOUS
<1>3. row = [key \in Columns |-> CellOf(s, key)]
  BY <1>1, <1>2 DEF Rows!CsvRows
<1>4. /\ s["id"] = s.id /\ s["profile"] = s.profile /\ s["connected"] = s.connected
      /\ s["can_route"] = s.can_route /\ s["rank"] = s.rank /\ s["height"] = s.height
      /\ s["geo"] = s.geo /\ s["xy"] = s.xy
  OBVIOUS
<1>5. /\ s.height # None => "height" \in Columns
      /\ s.geo # None => "geo" \in Columns
      /\ s.xy # None => "xy" \in Columns
  BY <1>2, <1>4
<1>6. Settled(s, g)
  BY <1>2 DEF AllSettled
<1>7. /\ s.id # None /\ s.profile # None /\ s.connected # None /\ s.can_route # None
      /\ s.rank # None /\ s.xy # None /\ ~Rows!IsBlank(s.id)
  BY <1>6, TablesAssumption DEF Settled, Rows!IsBlank, Rows!TablesAreWritten
<1>8. {"id", "profile", "connected", "can_route", "rank"} \subseteq DOMAIN row
      /\ (s.xy # None => "xy" \in DOMAIN row)
      /\ (s.height # None => "height" \in DOMAIN row)
      /\ (s.geo # None => "geo" \in DOMAIN row)
  BY <1>3, <1>5
<1>9. \A key \in DOMAIN row : row[key] = CellOf(s, key)
  BY <1>3
<1> HIDE DEF Columns
<1>10. /\ row.id = s.id /\ row.profile = s.profile /\ row.connected = s.connected
       /\ row.can_route = s.can_route /\ row.rank = s.rank /\ row.xy = s.xy.place
  BY <1>4, <1>7, <1>8, <1>9
<1>11. \A d : /\ Rows!Get(row, "connected", d) = s.connected
              /\ Rows!Get(row, "can_route", d) = s.can_route
              /\ Rows!Get(row, "rank", d) = s.rank
  BY <1>8, <1>10 DEF Rows!Get
<1>12. Rows!Named(row) /\ Rows!Get(row, "xy", None) = s.xy.place
  BY <1>7, <1>8, <1>10 DEF Rows!Get, Rows!Named
<1>13. IF s.height = None THEN Rows!IsBlank(Rows!Get(row, "height", None))
       ELSE Rows!Get(row, "height", None) = s.height
  BY <1>4, <1>8, <1>9 DEF Rows!Get, Rows!IsBlank
<1>14. IF s.geo = None THEN Rows!IsBlank(Rows!Get(row, "geo", None))
       ELSE Rows!Get(row, "geo", None) = s.geo
  BY <1>4, <1>8, <1>9 DEF Rows!Get, Rows!IsBlank
<1> HIDE DEF CellOf
<1> QED
  BY <1>1, <1>2, <1>10, <1>11, <1>12, <1>13, <1>14 DEF Says


\* A settled site is made again of the row it is written in.
LEMMA ReadRow ==
  ASSUME NEW g, NEW sites, AllSettled(sites, g), NEW i \in DOMAIN sites
  PROVE  Rows!SiteOf(Rows!CsvRows(sites)[i], sites[i].id, g) = sites[i]
<1>1. PICK row : row = Rows!CsvRows(sites)[i]
  OBVIOUS
<1>2. PICK s : s = sites[i]
  OBVIOUS
<1>3. Settled(s, g) /\ Says(row, s)
  BY <1>1, <1>2, WrittenRow DEF AllSettled
<1>4. row.profile = s.profile
  BY <1>3 DEF Says
<1>5. \A d : /\ Rows!Get(row, "connected", d) = s.connected
             /\ Rows!Get(row, "can_route", d) = s.can_route
             /\ Rows!Get(row, "rank", d) = s.rank
  BY <1>3 DEF Says
<1>6. /\ IF s.height = None THEN Rows!IsBlank(Rows!Get(row, "height", None))
         ELSE Rows!Get(row, "height", None) = s.height
      /\ IF s.geo = None THEN Rows!IsBlank(Rows!Get(row, "geo", None))
         ELSE Rows!Get(row, "geo", None) = s.geo
      /\ Rows!Get(row, "xy", None) = s.xy.place
  BY <1>3 DEF Says
<1>7. PICK read : read = Rows!SiteOf(row, s.id, g)
  OBVIOUS
<1>8. /\ Rows!Truth(Rows!Get(row, "connected", Profiles[row.profile].connected), FALSE) = s.connected
      /\ Rows!Truth(Rows!Get(row, "can_route", Profiles[row.profile].can_route), FALSE)
           = s.can_route
      /\ Rows!RankOf(Rows!Get(row, "rank", Profiles[row.profile].rank), s.connected) = s.rank
  BY <1>3, <1>5 DEF Settled, Rows!Truth, Rows!RankOf
<1>9. (IF Rows!IsBlank(Rows!Get(row, "height", None)) THEN Profiles[s.profile].height
       ELSE Rows!Get(row, "height", None)) = s.height
  BY <1>3, <1>6 DEF Settled, Rows!IsBlank
<1>10. (IF Rows!IsBlank(Rows!Get(row, "geo", None)) THEN None ELSE Rows!Get(row, "geo", None)) = s.geo
  BY <1>3, <1>6 DEF Settled
<1>11. Rows!Projected(row, g) = s.xy
  <2>1. s.geo # None => /\ ~Rows!IsBlank(Rows!Get(row, "geo", None))
                        /\ Rows!Get(row, "geo", None) = s.geo
    BY <1>3, <1>6 DEF Settled
  <2>2. s.geo = None => Rows!IsBlank(Rows!Get(row, "geo", None)) /\ g # None
    BY <1>3, <1>6 DEF Settled
  <2>3. ~Rows!IsBlank(s.xy.place)
        /\ s.xy = [grid |-> IF g = None THEN ZoneOf[s.geo] ELSE g, place |-> s.xy.place]
    BY <1>3 DEF Settled
  <2>4. Rows!Projected(row, g) =
          [place |-> s.xy.place,
           grid  |-> IF g = None /\ ~Rows!IsBlank(Rows!Get(row, "geo", None))
                     THEN ZoneOf[Rows!Get(row, "geo", None)] ELSE g]
    BY <1>6, <2>3 DEF Rows!Projected
  <2>5. (IF g = None /\ ~Rows!IsBlank(Rows!Get(row, "geo", None))
         THEN ZoneOf[Rows!Get(row, "geo", None)] ELSE g)
          = IF g = None THEN ZoneOf[s.geo] ELSE g
    BY <2>1, <2>2
  <2> QED
    BY <2>3, <2>4, <2>5
<1>12. read = Site(s.id, row.profile, s.geo, s.xy, s.connected, s.can_route, s.rank, s.height,
                   RadiosOf(row.profile))
  <2> DEFINE connected == Rows!Truth(Rows!Get(row, "connected", Profiles[row.profile].connected),
                                     FALSE)
  <2>1. read = Site(s.id, row.profile,
                    IF Rows!IsBlank(Rows!Get(row, "geo", None)) THEN None
                    ELSE Rows!Get(row, "geo", None),
                    Rows!Projected(row, g), connected,
                    Rows!Truth(Rows!Get(row, "can_route", Profiles[row.profile].can_route), FALSE),
                    Rows!RankOf(Rows!Get(row, "rank", Profiles[row.profile].rank), connected),
                    IF Rows!IsBlank(Rows!Get(row, "height", None)) THEN Profiles[row.profile].height
                    ELSE Rows!Get(row, "height", None),
                    RadiosOf(row.profile))
    BY <1>7, Zenon DEF Rows!SiteOf, Site, RadiosOf
  <2> QED
    BY <1>4, <1>8, <1>9, <1>10, <1>11, <2>1
<1> QED
  BY <1>1, <1>2, <1>3, <1>4, <1>7, <1>12 DEF Settled, Ranked

\* A settled site needs no resolving.
LEMMA NothingToResolve ==
  ASSUME NEW g, NEW s, Settled(s, g)
  PROVE  /\ Rows!Resolvable(s, g)
         /\ Settled(Rows!Resolved(s, g), g) /\ Same(Rows!Resolved(s, g), s)
         /\ Same(s, Rows!Resolved(s, g))
         /\ Planned(s) <=> Planned(Rows!Resolved(s, g))
<1>1. Rows!Resolvable(s, g)
  BY DEF Settled, Rows!Resolvable
<1>2. PICK geo : geo = IF s.geo = None THEN s.xy.place ELSE s.geo
  OBVIOUS
<1>3. s.radios = RadiosOf(s.profile)
  BY DEF Settled, Ranked, Site
<1>4. PICK r : r = Rows!Resolved(s, g)
  OBVIOUS
<1>5. r = [s EXCEPT !.geo = geo]
  BY <1>2, <1>4 DEF Settled, Rows!Resolved
<1>6. r = Site(s.id, s.profile, geo, s.xy, s.connected, s.can_route, s.rank, s.height,
               RadiosOf(s.profile))
  BY <1>5 DEF Settled, Ranked, Site
<1>7. /\ r.id = s.id /\ r.profile = s.profile /\ r.geo = geo /\ r.xy = s.xy
      /\ r.connected = s.connected /\ r.can_route = s.can_route /\ r.rank = s.rank
      /\ r.height = s.height /\ r.radios = s.radios
  BY <1>3, <1>6 DEF Site
<1>8. r = Ranked(r, r.rank)
  BY <1>6, <1>7 DEF Ranked
<1>9. /\ geo # None /\ ~Rows!IsBlank(geo)
      /\ (IF g = None THEN ZoneOf[geo] ELSE g) = IF g = None THEN ZoneOf[s.geo] ELSE g
  BY <1>2 DEF Settled, Rows!IsBlank
<1>10. Settled(r, g)
  BY <1>7, <1>8, <1>9 DEF Settled
<1> QED
  BY <1>1, <1>4, <1>7, <1>10 DEF Same, Planned

-----------------------------------------------------------------------------
\* Readings

\* A reading that can take the place of the sites.
Copies(new, sites, g) ==
  new.ok /\ DOMAIN new.sites = DOMAIN sites /\ \A i \in DOMAIN sites : Follows(new.sites[i], sites[i], g)

\* Sites a scenario can hold to be planned with.
Sound(sites, g) ==
  /\ AllSettled(sites, g)
  /\ \A i \in DOMAIN sites : Planned(sites[i])
  /\ \A i, j \in DOMAIN sites : sites[i].id = sites[j].id => i = j

\* The rows of a bundle are named as the sites are.
LEMMA WrittenRows ==
  ASSUME NEW g, NEW sites, Sound(sites, g)
  PROVE  LET rows == Rows!CsvRows(sites)
         IN /\ DOMAIN rows = DOMAIN sites
            /\ Rows!Known(rows)
            /\ DOMAIN Rows!ServiceIds(rows) = DOMAIN sites /\ DOMAIN Rows!SdkIds(rows) = DOMAIN sites
            /\ \A i \in DOMAIN sites : /\ Rows!ServiceIds(rows)[i] = sites[i].id
                                       /\ Rows!SdkIds(rows)[i] = sites[i].id
            /\ Rows!NoDuplicates(Rows!ServiceIds(rows)) /\ Rows!NoDuplicates(Rows!SdkIds(rows))
<1>1. DOMAIN Rows!CsvRows(sites) = DOMAIN sites
  BY DEF Rows!CsvRows
<1>2. \A i \in DOMAIN sites : Settled(sites[i], g)
  BY DEF Sound, AllSettled
<1>3. \A i \in DOMAIN sites : /\ Rows!Named(Rows!CsvRows(sites)[i])
                              /\ Rows!CsvRows(sites)[i].id = sites[i].id
                              /\ Rows!CsvRows(sites)[i].profile = sites[i].profile
  <2>1. \A i \in DOMAIN sites : Says(Rows!CsvRows(sites)[i], sites[i])
    BY WrittenRow DEF Sound
  <2> QED
    BY <2>1 DEF Says
<1>4. PICK rows : rows = Rows!CsvRows(sites)
  OBVIOUS
<1>5. Rows!Known(rows)
  BY <1>1, <1>2, <1>3, <1>4 DEF Rows!Known, Settled
<1>6. /\ DOMAIN Rows!ServiceIds(rows) = DOMAIN sites
      /\ \A i \in DOMAIN sites : Rows!ServiceIds(rows)[i] = sites[i].id
  BY <1>1, <1>3, <1>4 DEF Rows!ServiceIds
<1>7. /\ DOMAIN Rows!SdkIds(rows) = DOMAIN sites
      /\ \A i \in DOMAIN sites : Rows!SdkIds(rows)[i] = sites[i].id
  BY <1>1, <1>3, <1>4 DEF Rows!SdkIds
<1>8. Rows!NoDuplicates(Rows!ServiceIds(rows))
  BY <1>6 DEF Rows!NoDuplicates, Sound
<1>9. Rows!NoDuplicates(Rows!SdkIds(rows))
  BY <1>7 DEF Rows!NoDuplicates, Sound
<1> QED
  BY <1>1, <1>4, <1>5, <1>6, <1>7, <1>8, <1>9

\* A bundle is read as what was saved, by the service ...
LEMMA BundleRead ==
  ASSUME NEW g, NEW sites, Sound(sites, g)
  PROVE  Copies(Rows!ServiceRead(Rows!CsvRows(sites), g), sites, g)
<1>1. PICK rows : rows = Rows!CsvRows(sites)
  OBVIOUS
<1>2. /\ DOMAIN rows = DOMAIN sites /\ Rows!Known(rows)
      /\ Rows!NoDuplicates(Rows!ServiceIds(rows))
      /\ \A i \in DOMAIN sites : Rows!ServiceIds(rows)[i] = sites[i].id
  BY <1>1, WrittenRows
<1>3. \A i \in DOMAIN sites : Rows!SiteOf(rows[i], Rows!ServiceIds(rows)[i], g) = sites[i]
  BY <1>1, <1>2, ReadRow DEF Sound
<1>4. \A i \in DOMAIN sites : /\ Rows!Resolvable(sites[i], g)
                              /\ Follows(Rows!Resolved(sites[i], g), sites[i], g)
  BY NothingToResolve DEF Sound, AllSettled, Follows
<1>5. PICK made : made = [i \in DOMAIN rows |-> Rows!SiteOf(rows[i], Rows!ServiceIds(rows)[i], g)]
  OBVIOUS
<1>6. \A i \in DOMAIN rows : made[i] = sites[i]
  BY <1>2, <1>3, <1>5
<1>7. Rows!ServiceRead(rows, g) =
        IF /\ Rows!Known(rows)
           /\ Rows!NoDuplicates(Rows!ServiceIds(rows))
           /\ \A i \in DOMAIN rows : Rows!Resolvable(made[i], g)
        THEN Rows!Accepted([i \in DOMAIN rows |-> Rows!Resolved(made[i], g)])
        ELSE Rows!Refused
  BY <1>5 DEF Rows!ServiceRead
<1>8. Rows!ServiceRead(rows, g) = Rows!Accepted([i \in DOMAIN rows |-> Rows!Resolved(made[i], g)])
  BY <1>2, <1>4, <1>6, <1>7
<1>9. PICK new : new = Rows!ServiceRead(rows, g)
  OBVIOUS
<1>10. new.ok /\ new.sites = [i \in DOMAIN rows |-> Rows!Resolved(made[i], g)]
  BY <1>8, <1>9 DEF Rows!Accepted
<1>11. /\ DOMAIN new.sites = DOMAIN sites
       /\ \A i \in DOMAIN sites : new.sites[i] = Rows!Resolved(sites[i], g)
  BY <1>2, <1>6, <1>10
<1> QED
  BY <1>1, <1>4, <1>9, <1>10, <1>11 DEF Copies

\* ... and by the SDK.
LEMMA BundleReadBySdk ==
  ASSUME NEW g, NEW sites, Sound(sites, g)
  PROVE  Copies(Rows!SdkRead(Rows!CsvRows(sites), g), sites, g)
<1>1. PICK rows : rows = Rows!CsvRows(sites)
  OBVIOUS
<1>2. /\ DOMAIN rows = DOMAIN sites /\ Rows!Known(rows)
      /\ Rows!NoDuplicates(Rows!SdkIds(rows))
      /\ \A i \in DOMAIN sites : Rows!SdkIds(rows)[i] = sites[i].id
  BY <1>1, WrittenRows
<1>3. \A i \in DOMAIN sites : Rows!SiteOf(rows[i], Rows!SdkIds(rows)[i], g) = sites[i]
  BY <1>1, <1>2, ReadRow DEF Sound
<1>4. \A i \in DOMAIN sites : Rows!SdkSite(rows[i], Rows!SdkIds(rows)[i], g) = Rows!ToJson(sites[i])
  BY <1>3 DEF Rows!SdkSite, Rows!ToJson, Rows!ToConfig
<1>5. \A i \in DOMAIN sites : Follows(Rows!FromConfig(Rows!ToJson(sites[i])), sites[i], g)
  BY ReadFromJson DEF Sound, AllSettled
<1>6. Rows!SdkRead(rows, g) =
        Rows!Accepted([i \in DOMAIN rows |->
                         Rows!FromConfig(Rows!SdkSite(rows[i], Rows!SdkIds(rows)[i], g))])
  BY <1>2 DEF Rows!SdkRead
<1>7. PICK new : new = Rows!SdkRead(rows, g)
  OBVIOUS
<1>8. new.ok /\ new.sites = [i \in DOMAIN rows |->
                               Rows!FromConfig(Rows!SdkSite(rows[i], Rows!SdkIds(rows)[i], g))]
  BY <1>6, <1>7 DEF Rows!Accepted
<1>9. /\ DOMAIN new.sites = DOMAIN sites
      /\ \A i \in DOMAIN sites : new.sites[i] = Rows!FromConfig(Rows!ToJson(sites[i]))
  BY <1>2, <1>4, <1>8
<1> QED
  BY <1>1, <1>5, <1>7, <1>8, <1>9 DEF Copies

\* So it is from the TOML file and from JSON.
LEMMA SitesRead ==
  ASSUME NEW g, NEW sites, Sound(sites, g)
  PROVE  /\ Copies(Rows!Accepted([i \in DOMAIN sites |-> Rows!FromConfig(Rows!ToConfig(sites[i]))]),
                   sites, g)
         /\ Copies(Rows!Accepted([i \in DOMAIN sites |-> Rows!FromConfig(Rows!ToJson(sites[i]))]),
                   sites, g)
<1>1. \A i \in DOMAIN sites : /\ Follows(sites[i], sites[i], g)
                              /\ Rows!FromConfig(Rows!ToConfig(sites[i])) = sites[i]
  BY ReadFromConfig DEF Sound, AllSettled, Follows, Same
<1>2. \A i \in DOMAIN sites : Follows(Rows!FromConfig(Rows!ToJson(sites[i])), sites[i], g)
  BY ReadFromJson DEF Sound, AllSettled
<1> QED
  BY <1>1, <1>2 DEF Copies, Rows!Accepted

\* A copy of a copy is one of the first.
LEMMA CopiesOfCopies ==
  ASSUME NEW g, NEW a, NEW b, NEW sites, Copies(a, b.sites, g), Copies(b, sites, g)
  PROVE  Copies(a, sites, g)
  BY DEF Copies, Follows, Same

\* A copy is written as it is, too.
LEMMA CopyIsSound ==
  ASSUME NEW g, NEW a, NEW sites, Copies(a, sites, g), Sound(sites, g)
  PROVE  Sound(a.sites, g)
  BY DEF Copies, Follows, Same, Sound, AllSettled

-----------------------------------------------------------------------------
\* The first reading

\* A site that is made of a row says what it has, and what the row leaves open is
\* settled, except for its position.
LEMMA FirstSite ==
  ASSUME NEW row, NEW id, NEW g, ~Rows!IsBlank(id), row.profile \in DOMAIN Profiles,
         NEW s, s = Rows!SiteOf(row, id, g)
  PROVE  /\ s = Ranked(s, s.rank) /\ s.id = id
         /\ ~Rows!IsBlank(s.connected) /\ ~Rows!IsBlank(s.can_route) /\ ~Rows!IsBlank(s.rank)
         /\ s.profile \in DOMAIN Profiles
         /\ Rows!IsBlank(s.height) => s.height = Profiles[s.profile].height
         /\ s.geo # None => ~Rows!IsBlank(s.geo)
         /\ s.geo = IF Rows!IsBlank(Rows!Get(row, "geo", None)) THEN None
                    ELSE Rows!Get(row, "geo", None)
         /\ s.xy = Rows!Projected(row, g)
<1> DEFINE geo == IF Rows!IsBlank(Rows!Get(row, "geo", None)) THEN None
                  ELSE Rows!Get(row, "geo", None)
           xy == Rows!Projected(row, g)
           connected == Rows!Truth(Rows!Get(row, "connected", Profiles[row.profile].connected), FALSE)
           can_route == Rows!Truth(Rows!Get(row, "can_route", Profiles[row.profile].can_route), FALSE)
           rank == Rows!RankOf(Rows!Get(row, "rank", Profiles[row.profile].rank), connected)
           mount == IF Rows!IsBlank(Rows!Get(row, "height", None)) THEN Profiles[row.profile].height
                    ELSE Rows!Get(row, "height", None)
<1>1. s = Site(id, row.profile, geo, xy, connected, can_route, rank, mount, RadiosOf(row.profile))
  BY Zenon DEF Rows!SiteOf, Site, RadiosOf
<1>2. ~Rows!IsBlank(connected) /\ ~Rows!IsBlank(can_route)
  BY TablesAssumption DEF Rows!Truth, Rows!TablesAreWritten
<1>3. ~Rows!IsBlank(rank)
  BY TablesAssumption DEF Rows!RankOf, Rows!TablesAreWritten
<1>4. Rows!IsBlank(mount) => mount = Profiles[row.profile].height
  OBVIOUS
<1>5. geo # None => ~Rows!IsBlank(geo)
  BY DEF Rows!IsBlank
<1> HIDE DEF geo, xy, connected, can_route, rank, mount
<1>6. /\ s.id = id /\ s.profile = row.profile /\ s.geo = geo /\ s.xy = xy /\ s.connected = connected
      /\ s.can_route = can_route /\ s.rank = rank /\ s.height = mount
  BY <1>1 DEF Site
<1>7. s = Ranked(s, s.rank)
  BY <1>1, <1>6 DEF Ranked
<1>8. geo = IF Rows!IsBlank(Rows!Get(row, "geo", None)) THEN None ELSE Rows!Get(row, "geo", None)
  BY DEF geo
<1>9. xy = Rows!Projected(row, g)
  BY DEF xy
<1> QED
  BY <1>2, <1>3, <1>4, <1>5, <1>6, <1>7, <1>8, <1>9

\* A site on a grid that can be resolved is settled as it is ...
LEMMA PlacedIsSettled ==
  ASSUME NEW row, NEW id, NEW g, ~Rows!IsBlank(id), row.profile \in DOMAIN Profiles,
         NEW s, s = Rows!SiteOf(row, id, g), Rows!Resolvable(s, g),
         ~Rows!IsBlank(Rows!Get(row, "xy", None)), s.xy # None
  PROVE  Settled(s, g)
<1>1. s.xy = [place |-> Rows!Get(row, "xy", None),
              grid  |-> IF g = None /\ ~Rows!IsBlank(Rows!Get(row, "geo", None))
                        THEN ZoneOf[Rows!Get(row, "geo", None)] ELSE g]
  BY FirstSite DEF Rows!Projected
<1>2. s.geo = IF Rows!IsBlank(Rows!Get(row, "geo", None)) THEN None ELSE Rows!Get(row, "geo", None)
  BY FirstSite
<1>3. s.geo # None => ~Rows!IsBlank(Rows!Get(row, "geo", None)) /\ s.geo = Rows!Get(row, "geo", None)
  BY <1>2
<1>4. s.geo = None => g # None
  BY DEF Rows!Resolvable
<1>5. s.xy.place = Rows!Get(row, "xy", None)
  BY <1>1
<1>6. s.xy.grid = IF g = None THEN ZoneOf[s.geo] ELSE g
  BY <1>1, <1>3, <1>4
<1>7. s.xy = [grid |-> s.xy.grid, place |-> s.xy.place]
  BY <1>1
<1>8. s.xy = [grid |-> IF g = None THEN ZoneOf[s.geo] ELSE g, place |-> s.xy.place]
  BY <1>6, <1>7
<1>9. /\ s = Ranked(s, s.rank) /\ s.id = id
      /\ ~Rows!IsBlank(s.connected) /\ ~Rows!IsBlank(s.can_route) /\ ~Rows!IsBlank(s.rank)
      /\ s.profile \in DOMAIN Profiles
      /\ Rows!IsBlank(s.height) => s.height = Profiles[s.profile].height
      /\ s.geo # None => ~Rows!IsBlank(s.geo)
  BY FirstSite
<1> QED
  BY <1>4, <1>5, <1>8, <1>9 DEF Settled

\* ... and one without coordinates when it is.
LEMMA ResolvedIsSettled ==
  ASSUME NEW row, NEW id, NEW g, ~Rows!IsBlank(id), row.profile \in DOMAIN Profiles,
         NEW s, s = Rows!SiteOf(row, id, g), Rows!Resolvable(s, g), s.xy = None,
         NEW r, r = Rows!Resolved(s, g), r.xy # None
  PROVE  Settled(r, g)
<1>1. PICK xy : xy = [grid |-> IF g = None THEN ZoneOf[s.geo] ELSE g, place |-> s.geo]
  OBVIOUS
<1>2. r = [s EXCEPT !.xy = xy]
  BY <1>1 DEF Rows!Resolved
<1>3. /\ s = Ranked(s, s.rank) /\ s.id = id
      /\ ~Rows!IsBlank(s.connected) /\ ~Rows!IsBlank(s.can_route) /\ ~Rows!IsBlank(s.rank)
      /\ s.profile \in DOMAIN Profiles
      /\ Rows!IsBlank(s.height) => s.height = Profiles[s.profile].height
      /\ s.geo # None => ~Rows!IsBlank(s.geo)
  BY FirstSite
<1>4. s.geo # None /\ ~Rows!IsBlank(s.geo)
  BY <1>3 DEF Rows!Resolvable
<1>5. r = Site(s.id, s.profile, s.geo, xy, s.connected, s.can_route, s.rank, s.height,
               RadiosOf(s.profile))
  BY <1>2, <1>3 DEF Ranked, Site
<1>6. /\ r.id = s.id /\ r.profile = s.profile /\ r.geo = s.geo /\ r.xy = xy
      /\ r.connected = s.connected /\ r.can_route = s.can_route /\ r.rank = s.rank
      /\ r.height = s.height
  BY <1>5 DEF Site
<1>7. r = Ranked(r, r.rank)
  BY <1>5, <1>6 DEF Ranked
<1>8. xy.place = s.geo
  BY <1>1
<1>9. xy = [grid |-> IF g = None THEN ZoneOf[s.geo] ELSE g, place |-> xy.place]
  BY <1>1, <1>8
<1> QED
  BY <1>3, <1>4, <1>6, <1>7, <1>8, <1>9 DEF Settled

\* No row is without an id once they are numbered.
LEMMA NumberedRows ==
  ASSUME NEW t \in Tables, NEW i \in DOMAIN t
  PROVE  /\ ~Rows!IsBlank(Rows!ServiceIds(t)[i])
         /\ Rows!Named(t[i]) => ~Rows!IsBlank(t[i].id)
<1>1. Rows!Named(t[i]) => ~Rows!IsBlank(t[i].id)
  BY DEF Rows!Named, Rows!Get, Rows!IsBlank
<1>2. ASSUME ~Rows!Named(t[i])
      PROVE  ~Rows!IsBlank(Rows!Generated(Cardinality({j \in 1..i : ~Rows!Named(t[j])})))
  <2> DEFINE unnamed == {j \in 1..i : ~Rows!Named(t[j])}
  <2>1. i \in Nat \ {0} /\ \A n \in 1..i : ~Rows!IsBlank(Rows!Generated(n))
    BY TablesAssumption DEF Rows!TablesAreWritten
  <2>2. IsFiniteSet(1..i) /\ Cardinality(1..i) = i
    BY <2>1, FS_Interval
  <2>3. i \in unnamed /\ unnamed \subseteq 1..i
    BY <1>2, <2>1
  <2>4. IsFiniteSet(unnamed) /\ Cardinality(unnamed) <= i
    BY <2>2, <2>3, FS_Subset
  <2>5. Cardinality(unnamed) \in Nat /\ Cardinality(unnamed) # 0
    BY <2>3, <2>4, FS_CardinalityType, FS_EmptySet
  <2>6. Cardinality(unnamed) \in 1..i
    BY <2>1, <2>4, <2>5
  <2> QED
    BY <2>1, <2>6
<1>3. \A n : Rows!Cardinality({j \in 1..n : ~Rows!Named(t[j])})
              = Cardinality({j \in 1..n : ~Rows!Named(t[j])})
  BY Zenon DEF Cardinality, Rows!Cardinality
<1>4. ASSUME ~Rows!Named(t[i])
      PROVE  Rows!ServiceIds(t)[i] = Rows!Generated(Cardinality({j \in 1..i : ~Rows!Named(t[j])}))
  <2>1. Rows!ServiceIds(t)[i] =
          Rows!Generated(Rows!Cardinality({j \in 1..i : ~Rows!Named(t[j])}))
    BY <1>4 DEF Rows!ServiceIds
  <2> QED
    BY <1>3, <2>1
<1>5. Rows!Named(t[i]) => Rows!ServiceIds(t)[i] = t[i].id
  BY DEF Rows!ServiceIds
<1> QED
  BY <1>1, <1>2, <1>4, <1>5

\* What the service makes of a table that can be planned with.
LEMMA ReadingShape ==
  ASSUME NEW t \in Tables, NEW g \in Grids, Rows!Plannable(Rows!ServiceRead(t, g)),
         NEW sites, sites = Rows!ServiceRead(t, g).sites
  PROVE  /\ Rows!Known(t) /\ Rows!NoDuplicates(Rows!ServiceIds(t)) /\ DOMAIN sites = DOMAIN t
         /\ \A i \in DOMAIN t :
              LET s == Rows!SiteOf(t[i], Rows!ServiceIds(t)[i], g)
              IN Rows!Resolvable(s, g) /\ sites[i] = Rows!Resolved(s, g) /\ sites[i].xy # None
<1>1. PICK made : made = [i \in DOMAIN t |-> Rows!SiteOf(t[i], Rows!ServiceIds(t)[i], g)]
  OBVIOUS
<1>2. PICK read : read = Rows!ServiceRead(t, g)
  OBVIOUS
<1>3. read.ok
  BY <1>2 DEF Rows!Plannable
<1>4. read = IF /\ Rows!Known(t)
                /\ Rows!NoDuplicates(Rows!ServiceIds(t))
                /\ \A i \in DOMAIN t : Rows!Resolvable(made[i], g)
             THEN Rows!Accepted([i \in DOMAIN t |-> Rows!Resolved(made[i], g)])
             ELSE Rows!Refused
  BY <1>1, <1>2 DEF Rows!ServiceRead
<1>5. /\ Rows!Known(t) /\ Rows!NoDuplicates(Rows!ServiceIds(t))
      /\ \A i \in DOMAIN t : Rows!Resolvable(made[i], g)
      /\ read = Rows!Accepted([i \in DOMAIN t |-> Rows!Resolved(made[i], g)])
  BY <1>3, <1>4 DEF Rows!Refused
<1>6. sites = [i \in DOMAIN t |-> Rows!Resolved(made[i], g)]
  BY <1>2, <1>5 DEF Rows!Accepted
<1>7. \A i \in DOMAIN read.sites : read.sites[i].xy # None
  BY <1>2 DEF Rows!Plannable
<1> QED
  BY <1>1, <1>2, <1>5, <1>6, <1>7

\* The ranks of its sites are accepted.
LEMMA ReadingPlanned ==
  ASSUME NEW read, Rows!Plannable(read), NEW i \in DOMAIN read.sites
  PROVE  Planned(read.sites[i])
<1>1. PICK s : s = read.sites[i]
  OBVIOUS
<1>2. \A n \in Rows!Nodes(read.sites) : n.connected <=> n.rank # Inf
  BY DEF Rows!Plannable
<1>3. ASSUME NEW r \in DOMAIN s.radios
      PROVE  s.connected <=> s.rank # Inf
  <2>1. PICK n : n = [site |-> s.id, interface |-> r, connected |-> s.connected,
                      relay |-> s.radios[r].relay \/ s.can_route, rank |-> s.rank, pos |-> s.xy,
                      height |-> s.height, links |-> s.radios[r].links]
    OBVIOUS
  <2>2. n \in Rows!Nodes(read.sites)
    BY <1>1, <1>3, <2>1 DEF Rows!Nodes
  <2>3. n.connected = s.connected /\ n.rank = s.rank
    BY <2>1
  <2> QED
    BY <1>2, <2>2, <2>3
<1> QED
  BY <1>1, <1>3 DEF Planned

\* A scenario that can be planned with is written as it is.
LEMMA ReadingIsSound ==
  ASSUME NEW t \in Tables, NEW g \in Grids, Rows!Plannable(Rows!ServiceRead(t, g))
  PROVE  Sound(Rows!ServiceRead(t, g).sites, g)
<1>1. PICK sites : sites = Rows!ServiceRead(t, g).sites
  OBVIOUS
<1>2. /\ Rows!Known(t) /\ Rows!NoDuplicates(Rows!ServiceIds(t)) /\ DOMAIN sites = DOMAIN t
      /\ \A i \in DOMAIN t :
           LET s == Rows!SiteOf(t[i], Rows!ServiceIds(t)[i], g)
           IN Rows!Resolvable(s, g) /\ sites[i] = Rows!Resolved(s, g) /\ sites[i].xy # None
  BY <1>1, ReadingShape
<1>3. ASSUME NEW i \in DOMAIN t
      PROVE  Settled(sites[i], g) /\ sites[i].id = Rows!ServiceIds(t)[i]
  <2>1. PICK id : id = Rows!ServiceIds(t)[i]
    OBVIOUS
  <2>2. PICK s : s = Rows!SiteOf(t[i], id, g)
    OBVIOUS
  <2>3. PICK r : r = sites[i]
    OBVIOUS
  <2>4. /\ ~Rows!IsBlank(id) /\ t[i].profile \in DOMAIN Profiles
        /\ Rows!Resolvable(s, g) /\ r = Rows!Resolved(s, g) /\ r.xy # None
    BY <1>2, <2>1, <2>2, <2>3, NumberedRows DEF Rows!Known
  <2>5. s = Ranked(s, s.rank) /\ s.id = id /\ s.xy = Rows!Projected(t[i], g)
    BY <2>2, <2>4, FirstSite
  <2>6. r.id = s.id
    <3>1. PICK xy : xy = [grid |-> IF g = None THEN ZoneOf[s.geo] ELSE g, place |-> s.geo]
      OBVIOUS
    <3>2. PICK geo : geo = IF s.geo = None THEN s.xy.place ELSE s.geo
      OBVIOUS
    <3>3. r = IF s.xy = None THEN [s EXCEPT !.xy = xy] ELSE [s EXCEPT !.geo = geo]
      BY <2>4, <3>1, <3>2 DEF Rows!Resolved
    <3>4. CASE s.xy = None
      <4>1. r = [s EXCEPT !.xy = xy]
        BY <3>3, <3>4
      <4> QED
        BY <2>5, <4>1 DEF Ranked, Site
    <3>5. CASE s.xy # None
      <4>1. r = [s EXCEPT !.geo = geo]
        BY <3>3, <3>5
      <4> QED
        BY <2>5, <4>1 DEF Ranked, Site
    <3> QED
      BY <3>4, <3>5
  <2>7. CASE s.xy = None
    BY <2>2, <2>3, <2>4, <2>5, <2>6, <2>7, <2>1, ResolvedIsSettled
  <2>8. CASE s.xy # None
    <3>1. ~Rows!IsBlank(Rows!Get(t[i], "xy", None))
      BY <2>5, <2>8 DEF Rows!Projected
    <3>2. Settled(s, g)
      BY <2>2, <2>4, <2>8, <3>1, PlacedIsSettled
    <3>3. Settled(r, g)
      BY <2>4, <3>2, NothingToResolve
    <3> QED
      BY <2>1, <2>3, <2>5, <2>6, <3>3
  <2> QED
    BY <2>7, <2>8
<1>4. \A i \in DOMAIN sites : Planned(sites[i])
  BY <1>1, ReadingPlanned
<1>5. \A i, j \in DOMAIN sites : sites[i].id = sites[j].id => i = j
  <2>1. DOMAIN Rows!ServiceIds(t) = DOMAIN t
    BY DEF Rows!ServiceIds
  <2> QED
    BY <1>2, <1>3, <2>1 DEF Rows!NoDuplicates
<1> QED
  BY <1>1, <1>2, <1>3, <1>4, <1>5 DEF Sound, AllSettled

\* A table that names and places its rows is read by the SDK as by the service.
LEMMA UploadFollows ==
  ASSUME NEW t \in Tables, NEW g \in Grids, Rows!Plannable(Rows!ServiceRead(t, g)), Rows!Explicit(t)
  PROVE  Copies(Rows!SdkRead(t, g), Rows!ServiceRead(t, g).sites, g)
<1>1. PICK sites : sites = Rows!ServiceRead(t, g).sites
  OBVIOUS
<1>2. /\ Rows!Known(t) /\ Rows!NoDuplicates(Rows!ServiceIds(t)) /\ DOMAIN sites = DOMAIN t
      /\ \A i \in DOMAIN t :
           LET s == Rows!SiteOf(t[i], Rows!ServiceIds(t)[i], g)
           IN Rows!Resolvable(s, g) /\ sites[i] = Rows!Resolved(s, g) /\ sites[i].xy # None
  BY <1>1, ReadingShape
<1>3. Rows!SdkIds(t) = Rows!ServiceIds(t)
  BY DEF Rows!Explicit, Rows!SdkIds, Rows!ServiceIds
<1>4. PICK ids : ids = Rows!ServiceIds(t)
  OBVIOUS
<1>5. Rows!SdkRead(t, g) =
        Rows!Accepted([i \in DOMAIN t |-> Rows!FromConfig(Rows!SdkSite(t[i], ids[i], g))])
  BY <1>2, <1>3, <1>4 DEF Rows!SdkRead
<1>6. PICK new : new = Rows!SdkRead(t, g)
  OBVIOUS
<1>7. new.ok /\ new.sites = [i \in DOMAIN t |-> Rows!FromConfig(Rows!SdkSite(t[i], ids[i], g))]
  BY <1>5, <1>6 DEF Rows!Accepted
<1>8. ASSUME NEW i \in DOMAIN t
      PROVE  Follows(new.sites[i], sites[i], g)
  <2>1. PICK s : s = Rows!SiteOf(t[i], ids[i], g)
    OBVIOUS
  <2>2. new.sites[i] = Rows!FromConfig(Rows!ToJson(s))
    BY <1>7, <1>8, <2>1 DEF Rows!SdkSite, Rows!ToJson, Rows!ToConfig
  <2>3. PICK id : id = ids[i]
    OBVIOUS
  <2>4. /\ ~Rows!IsBlank(id) /\ t[i].profile \in DOMAIN Profiles
        /\ Rows!Resolvable(s, g) /\ sites[i] = Rows!Resolved(s, g)
    BY <1>2, <1>4, <2>1, <2>3, NumberedRows DEF Rows!Known
  <2>5. ~Rows!IsBlank(Rows!Get(t[i], "xy", None))
    BY DEF Rows!Explicit
  <2>6. s.xy # None
    <3>1. s.xy = Rows!Projected(t[i], g)
      BY <2>1, <2>3, <2>4, FirstSite
    <3> QED
      BY <2>5, <3>1, TablesAssumption DEF Rows!TablesAreWritten
  <2>7. Settled(s, g)
    BY <2>1, <2>3, <2>4, <2>5, <2>6, PlacedIsSettled
  <2>8. Planned(sites[i])
    BY <1>1, <1>2, ReadingPlanned
  <2>9. Same(s, sites[i]) /\ Planned(s)
    BY <2>4, <2>7, <2>8, NothingToResolve
  <2>10. Follows(new.sites[i], s, g)
    BY <2>2, <2>7, <2>9, ReadFromJson
  <2> QED
    BY <2>9, <2>10 DEF Follows, Same
<1>9. DOMAIN new.sites = DOMAIN sites
  BY <1>2, <1>7
<1> QED
  BY <1>1, <1>2, <1>6, <1>7, <1>8, <1>9 DEF Copies

\* The service's own reading is one, too.
LEMMA ReadingFollows ==
  ASSUME NEW t \in Tables, NEW g \in Grids, Rows!Plannable(Rows!ServiceRead(t, g))
  PROVE  Copies(Rows!ServiceRead(t, g), Rows!ServiceRead(t, g).sites, g)
<1>1. PICK read : read = Rows!ServiceRead(t, g)
  OBVIOUS
<1>2. Sound(read.sites, g) /\ read.ok
  BY <1>1, ReadingIsSound DEF Rows!Plannable
<1>3. Copies(read, read.sites, g)
  BY <1>2 DEF Sound, AllSettled, Copies, Follows, Same
<1> QED
  BY <1>1, <1>3

-----------------------------------------------------------------------------
\* Copies

\* What CopiesPlanAlike is about.
Owed ==
  /\ origin # "none"
  /\ Rows!Plannable(Rows!ServiceRead(table, crs))
  /\ origin = "sdk" => Rows!Explicit(table) /\ ~Rows!Words(table)

\* Whatever way the sites have taken, each of them can take the place of the one the
\* service makes of the table.
TablesInv ==
  /\ table \in Tables /\ crs \in Grids /\ origin \in {"none", "service", "sdk"}
  /\ origin = "none" => ~held.ok
  /\ Owed => Copies(held, Rows!ServiceRead(table, crs).sites, crs)

\* At the start nothing is held.
LEMMA InitTables == Rows!Init => TablesInv
  BY DEF Rows!Init, Rows!Refused, TablesInv, Owed

\* Opening the table and uploading it settle its sites.
LEMMA OpenStep == TablesInv /\ (Rows!Open \/ Rows!Upload) => TablesInv'
<1> SUFFICES ASSUME TablesInv, Rows!Open \/ Rows!Upload PROVE TablesInv'
  OBVIOUS
<1>1. PICK t, g : t = table /\ g = crs
  OBVIOUS
<1>2. t \in Tables /\ g \in Grids
  BY <1>1 DEF TablesInv
<1>3. table' = t /\ crs' = g /\ origin' \in {"service", "sdk"}
  BY <1>1 DEF Rows!Open, Rows!Upload
<1>4. ASSUME Owed'
      PROVE  Copies(held', Rows!ServiceRead(t, g).sites, g)
  <2>1. Rows!Plannable(Rows!ServiceRead(t, g))
    BY <1>3, <1>4 DEF Owed
  <2>2. CASE Rows!Open
    <3>1. held' = Rows!ServiceRead(t, g)
      BY <1>1, <2>2 DEF Rows!Open
    <3> QED
      BY <1>2, <2>1, <3>1, ReadingFollows
  <2>3. CASE Rows!Upload
    <3>1. Rows!Explicit(t) /\ ~Rows!Words(t)
      BY <1>3, <1>4, <2>3 DEF Owed, Rows!Upload
    <3>2. Rows!Known(t)
      BY <1>2, <2>1, ReadingShape
    <3>3. held' = Rows!SdkRead(t, g)
      BY <1>1, <2>3, <3>1, <3>2 DEF Rows!Upload
    <3> QED
      BY <1>2, <2>1, <3>1, <3>3, UploadFollows
  <2> QED
    BY <2>2, <2>3
<1> QED
  BY <1>2, <1>3, <1>4 DEF TablesInv

\* Every way of copying follows what is held.
LEMMA CopyStep ==
  TablesInv /\ (Rows!CopyBundle \/ Rows!CopyBySdk \/ Rows!CopyWithSites \/ Rows!CopyAsJson)
    => TablesInv'
<1> SUFFICES ASSUME TablesInv,
                    Rows!CopyBundle \/ Rows!CopyBySdk \/ Rows!CopyWithSites \/ Rows!CopyAsJson
             PROVE  TablesInv'
  OBVIOUS
<1>1. PICK t, g, h : t = table /\ g = crs /\ h = held
  OBVIOUS
<1>2. t \in Tables /\ g \in Grids
  BY <1>1 DEF TablesInv
<1>3. table' = t /\ crs' = g /\ origin' = origin /\ h.ok
  BY <1>1 DEF Rows!CopyBundle, Rows!CopyBySdk, Rows!CopyWithSites, Rows!CopyAsJson, Rows!Copy
<1>4. \/ held' = Rows!ServiceRead(Rows!CsvRows(h.sites), g)
      \/ held' = Rows!SdkRead(Rows!CsvRows(h.sites), g)
      \/ held' = Rows!Accepted([i \in DOMAIN h.sites |-> Rows!FromConfig(Rows!ToConfig(h.sites[i]))])
      \/ held' = Rows!Accepted([i \in DOMAIN h.sites |-> Rows!FromConfig(Rows!ToJson(h.sites[i]))])
  BY <1>1 DEF Rows!CopyBundle, Rows!CopyBySdk, Rows!CopyWithSites, Rows!CopyAsJson, Rows!Copy
<1>5. ASSUME Owed'
      PROVE  Copies(held', Rows!ServiceRead(t, g).sites, g)
  <2>1. PICK sites : sites = Rows!ServiceRead(t, g).sites
    OBVIOUS
  <2>2. Rows!Plannable(Rows!ServiceRead(t, g)) /\ Owed
    BY <1>1, <1>3, <1>5 DEF Owed
  <2>3. Copies(h, sites, g)
    BY <1>1, <2>1, <2>2 DEF TablesInv
  <2>4. Sound(h.sites, g)
    BY <1>2, <2>1, <2>2, <2>3, ReadingIsSound, CopyIsSound
  <2>5. Copies(held', h.sites, g)
    BY <1>4, <2>4, BundleRead, BundleReadBySdk, SitesRead
  <2> QED
    BY <2>1, <2>3, <2>5, CopiesOfCopies
<1> QED
  BY <1>1, <1>2, <1>3, <1>5 DEF TablesInv

\* Sites that can take the place of others give the planner the same nodes.
LEMMA NodesOfCopies ==
  ASSUME NEW g, NEW a, NEW sites, Copies(a, sites, g)
  PROVE  Rows!Nodes(a.sites) = Rows!Nodes(sites)
<1> DEFINE NodeOf(s, r) ==
      [site |-> s.id, interface |-> r, connected |-> s.connected,
       relay |-> s.radios[r].relay \/ s.can_route, rank |-> s.rank, pos |-> s.xy,
       height |-> s.height, links |-> s.radios[r].links]
<1>1. ASSUME NEW i \in DOMAIN sites, NEW r \in DOMAIN sites[i].radios
      PROVE  NodeOf(a.sites[i], r) = NodeOf(sites[i], r)
  BY DEF Copies, Follows, Same
<1>2. /\ DOMAIN a.sites = DOMAIN sites
      /\ \A i \in DOMAIN sites : a.sites[i].radios = sites[i].radios
  BY DEF Copies, Follows, Same
<1> DEFINE of(s) == {NodeOf(s, r) : r \in DOMAIN s.radios}
<1>3. Rows!Nodes(sites) = UNION {of(sites[i]) : i \in DOMAIN sites}
  BY DEF Rows!Nodes
<1>4. Rows!Nodes(a.sites) = UNION {of(a.sites[i]) : i \in DOMAIN a.sites}
  BY DEF Rows!Nodes
<1> HIDE DEF NodeOf
<1>5. \A i \in DOMAIN sites : of(a.sites[i]) = of(sites[i])
  BY <1>1, <1>2
<1> HIDE DEF of
<1>6. {of(a.sites[i]) : i \in DOMAIN a.sites} = {of(sites[i]) : i \in DOMAIN sites}
  BY <1>2, <1>5
<1> QED
  BY <1>3, <1>4, <1>6

\* A scenario that can be planned with gives the planner the same nodes however often
\* it is saved, sent as JSON and read again, by the service or by the SDK, and so does
\* a table the SDK has read that names and places its rows (add_node_instances,
\* _instantiate_sites, save_bundle and from_config_dict).
THEOREM CopiesStayAlike == Rows!Spec => []CopiesPlanAlike
<1>1. TablesInv /\ [Rows!Next]_(Rows!vars) => TablesInv'
  <2> SUFFICES ASSUME TablesInv, [Rows!Next]_(Rows!vars) PROVE TablesInv'
    OBVIOUS
  <2>1. CASE UNCHANGED Rows!vars
    BY <2>1 DEF Rows!vars, TablesInv, Owed
  <2>2. CASE Rows!Next
    BY <2>2, OpenStep, CopyStep DEF Rows!Next
  <2> QED
    BY <2>1, <2>2
<1>2. TablesInv => CopiesPlanAlike
  <2> SUFFICES ASSUME TablesInv, Owed
               PROVE  held.ok /\ Rows!Nodes(held.sites) = Rows!Nodes(Rows!ServiceRead(table, crs).sites)
    BY DEF CopiesPlanAlike, Rows!CopiesPlanAlike, Owed
  <2>1. PICK h, g, sites : h = held /\ g = crs /\ sites = Rows!ServiceRead(table, crs).sites
    OBVIOUS
  <2>2. Copies(h, sites, g)
    BY <2>1 DEF TablesInv
  <2> QED
    BY <2>1, <2>2, NodesOfCopies DEF Copies
<1> QED
  BY InitTables, <1>1, <1>2, PTL DEF Rows!Spec

-----------------------------------------------------------------------------
(* The selection of poles *)

\* A non-empty set of naturals has a least element.
LEMMA LeastNat ==
  ASSUME NEW T \in SUBSET Nat, T # {}
  PROVE  \E x \in T : \A y \in T : x <= y
<1>1. \E x \in T : \A y \in T : ~(<<y, x>> \in OpToRel(<, Nat))
  BY NatLessThanWellFounded, WFMin
<1>2. PICK x \in T : \A y \in T : ~(<<y, x>> \in OpToRel(<, Nat))
  BY <1>1
<1>3. ASSUME NEW y \in T PROVE x <= y
  <2>1. x \in Nat /\ y \in Nat
    BY <1>2
  <2>2. ~(y < x)
    BY <1>2, <2>1 DEF OpToRel
  <2> QED
    BY <2>1, <2>2
<1> QED
  BY <1>3

\* Of finitely many things one has the highest value: one with the fewest above it.
LEMMA HighestExists ==
  ASSUME NEW T, IsFiniteSet(T), T # {}, NEW f, \A t \in T : f[t] \in Int
  PROVE  \E t \in T : \A u \in T : f[u] <= f[t]
<1> DEFINE above(t) == {u \in T : f[t] < f[u]}
           counts == {Cardinality(above(t)) : t \in T}
<1>1. ASSUME NEW t \in T PROVE IsFiniteSet(above(t)) /\ Cardinality(above(t)) \in Nat
  <2>1. above(t) \in SUBSET T
    OBVIOUS
  <2> HIDE DEF above
  <2> QED
    BY <2>1, FS_Subset, FS_CardinalityType
<1>2. PICK t \in T : \A u \in T : Cardinality(above(t)) <= Cardinality(above(u))
  <2> HIDE DEF above
  <2>1. counts \in SUBSET Nat /\ counts # {}
    BY <1>1
  <2>2. PICK n \in counts : \A m \in counts : n <= m
    <3> HIDE DEF counts
    <3> QED
      BY <2>1, LeastNat
  <2>3. \A u \in T : n <= Cardinality(above(u))
    BY <2>2
  <2>4. \E t \in T : n = Cardinality(above(t))
    BY <2>2
  <2> QED
    BY <2>3, <2>4
<1>3. ASSUME NEW u \in T, ~(f[u] <= f[t]) PROVE FALSE
  <2>1. f[t] < f[u]
    BY <1>3
  <2>2. above(u) \in SUBSET above(t)
    BY <2>1
  <2>3. u \in above(t) /\ u \notin above(u)
    BY <2>1
  <2> HIDE DEF above
  <2>4. /\ Cardinality(above(u)) <= Cardinality(above(t))
        /\ Cardinality(above(t)) = Cardinality(above(u)) => above(t) = above(u)
    BY <1>1, <1>2, <2>2, FS_Subset
  <2>5. Cardinality(above(t)) <= Cardinality(above(u))
    BY <1>2
  <2> QED
    BY <1>1, <1>2, <2>3, <2>4, <2>5
<1> QED
  BY <1>2, <1>3

\* Sizes and finiteness are the same in the selection.
LEMMA SizeInSelection == \A S : Selection!Cardinality(S) = Cardinality(S)
  BY Zenon DEF Cardinality, Selection!Cardinality

LEMMA FiniteInSelection == \A S : Selection!IsFiniteSet(S) = IsFiniteSet(S)
  BY Zenon DEF IsFiniteSet, Selection!IsFiniteSet

\* The least and the greatest of two integers.
LEMMA OfTwo ==
  ASSUME NEW a \in Int, NEW b \in Int
  PROVE  /\ Selection!Min({a, b}) = IF a <= b THEN a ELSE b
         /\ Selection!Max({a, b}) = IF a <= b THEN b ELSE a
<1>1. CASE a <= b
  BY <1>1 DEF Selection!Min, Selection!Max
<1>2. CASE b < a
  BY <1>2 DEF Selection!Min, Selection!Max
<1> QED
  BY <1>1, <1>2

\* The numbers of a case.
LEMMA CaseTypes ==
  ASSUME NEW c \in Cases
  PROVE  /\ IsFiniteSet(DOMAIN c.poles)
         /\ c.length \in Nat
         /\ \A p \in DOMAIN c.poles :
              c.poles[p].dist \in Nat /\ c.poles[p].deviation \in Nat /\ c.poles[p].elevation \in Int
         /\ \A p, q \in DOMAIN c.poles :
              p # q => /\ c.poles[p].elevation # c.poles[q].elevation
                       /\ c.poles[p].deviation > c.context.cone_angle =>
                            c.poles[p].deviation # c.poles[q].deviation
         /\ c.context.radius_min \in Nat /\ c.context.radius_max \in Nat
         /\ c.context.radius_percent \in Nat /\ c.context.radius_increment \in Nat
         /\ c.context.radius_poles \in Nat /\ c.context.cone_angle \in Nat
         /\ c.context.cone_poles \in Nat /\ c.context.sector_count \in Nat
         /\ c.context.sector_poles \in Nat
         /\ c.context.sector_bands \in Nat \ {0}
  BY SelectionAssumption, FiniteInSelection DEF Selection!CasesAreDistinct

\* The poles around that stand in the cone.
Straight == {p \in Selection!Within(radius) :
               Selection!Pole(p).deviation <= Selection!Context.cone_angle}

\* The second part of DetoursAreNeeded, of the poles ps.
FewDetours(ps) ==
  /\ ps \ Straight # {} =>
       Straight \subseteq ps /\ Cardinality(ps) <= Selection!Context.cone_poles
  /\ \A p \in ps \ Straight, q \in Selection!Within(radius) \ ps :
       Selection!Pole(p).deviation < Selection!Pole(q).deviation

\* The poles in the cone, and as many of the others as are wanting.
LEMMA LeastDeviatingIsFew ==
  ASSUME case \in Cases, Selection!Context.cone_angle > 0,
         NEW n \in Nat, Cardinality(Straight) < n, n = Selection!Context.cone_poles
  PROVE  FewDetours(Selection!LeastDeviating(Selection!Within(radius), n))
<1> DEFINE around == Selection!Within(radius)
           below(p) == {q \in around : Selection!Excess(q) < Selection!Excess(p)}
           least == {p \in around : Cardinality(below(p)) < n}
           dev == [p \in DOMAIN case.poles |-> Selection!Pole(p).deviation]
           angle == Selection!Context.cone_angle
<1>1. /\ IsFiniteSet(around) /\ around \subseteq DOMAIN case.poles /\ angle \in Nat \ {0}
      /\ \A p \in around : dev[p] \in Nat /\ dev[p] = Selection!Pole(p).deviation
      /\ \A p, q \in around : p # q /\ dev[p] > angle => dev[p] # dev[q]
  <2>1. IsFiniteSet(DOMAIN case.poles) /\ around \in SUBSET (DOMAIN case.poles)
    BY CaseTypes DEF Selection!Within
  <2>2. IsFiniteSet(around)
    BY <2>1, FS_Subset
  <2>3. angle \in Nat \ {0}
    BY CaseTypes DEF Selection!Context
  <2> QED
    BY <2>1, <2>2, <2>3, CaseTypes DEF Selection!Pole, Selection!Context
<1>2. \A p \in around : /\ Selection!Excess(p) = IF dev[p] <= angle THEN 0 ELSE dev[p]
                        /\ p \in Straight <=> dev[p] <= angle
  BY <1>1 DEF Selection!Excess, Straight
<1>3. \A p \in around : IsFiniteSet(below(p)) /\ Cardinality(below(p)) \in Nat
  <2> TAKE p \in around
  <2>1. below(p) \in SUBSET around
    OBVIOUS
  <2> HIDE DEF below
  <2> QED
    BY <1>1, <2>1, FS_Subset, FS_CardinalityType
<1>4. least = Selection!LeastDeviating(around, n)
  BY SizeInSelection DEF Selection!LeastDeviating
<1>5. IsFiniteSet(Straight) /\ Cardinality(Straight) \in Nat /\ Straight \subseteq around
  <2>1. Straight \in SUBSET around
    BY DEF Straight
  <2> QED
    BY <1>1, <2>1, FS_Subset, FS_CardinalityType
<1> HIDE DEF dev, angle, around
<1>6. Straight \subseteq least
  <2> SUFFICES ASSUME NEW p \in Straight PROVE Cardinality(below(p)) < n
    BY <1>5
  <2>1. below(p) = {}
    BY <1>1, <1>2, <1>5
  <2>2. n > 0
    BY <1>5
  <2> HIDE DEF below
  <2> QED
    BY <2>1, <2>2, FS_EmptySet
<1>7. ASSUME NEW p \in least \ Straight, NEW q \in around \ least
      PROVE  dev[p] < dev[q]
  <2> SUFFICES ASSUME dev[q] <= dev[p] PROVE FALSE
    BY <1>1
  <2>1. q \notin Straight
    BY <1>6
  <2>2. below(q) \in SUBSET below(p)
    BY <1>1, <1>2, <2>1
  <2>3. Cardinality(below(p)) < n /\ ~(Cardinality(below(q)) < n)
    OBVIOUS
  <2>4. p \in around /\ q \in around
    OBVIOUS
  <2> HIDE DEF below, least
  <2>5. Cardinality(below(q)) <= Cardinality(below(p))
    BY <1>3, <2>2, <2>4, FS_Subset
  <2> QED
    BY <1>3, <2>3, <2>4, <2>5
<1>8. ASSUME least \ Straight # {}
      PROVE  Cardinality(least) <= n
  <2>1. IsFiniteSet(least \ Straight) /\ \A p \in least \ Straight : dev[p] \in Int
    <3>1. least \ Straight \in SUBSET around
      OBVIOUS
    <3> HIDE DEF least
    <3> QED
      BY <1>1, <3>1, FS_Subset
  <2>2. PICK p \in least \ Straight : \A q \in least \ Straight : dev[q] <= dev[p]
    <3> HIDE DEF least
    <3> QED
      BY <1>8, <2>1, HighestExists
  <2>3. least \in SUBSET (below(p) \cup {p})
    <3> SUFFICES ASSUME NEW q \in least, q # p PROVE q \in below(p)
      OBVIOUS
    <3>1. dev[p] > angle /\ Selection!Excess(p) = dev[p] /\ p \in around /\ q \in around
      BY <1>1, <1>2
    <3>2. CASE q \in Straight
      BY <1>1, <1>2, <3>1, <3>2
    <3>3. CASE q \notin Straight
      <4>1. dev[q] < dev[p]
        BY <1>1, <2>2, <3>1, <3>3
      <4> QED
        BY <1>1, <1>2, <3>1, <3>3, <4>1
    <3> QED
      BY <3>2, <3>3
  <2>4. p \in around /\ Cardinality(below(p)) < n /\ p \notin below(p)
    BY <1>1, <1>2
  <2> HIDE DEF below, least
  <2>5. /\ IsFiniteSet(below(p) \cup {p})
        /\ Cardinality(below(p) \cup {p}) = Cardinality(below(p)) + 1
    BY <1>3, <2>4, FS_AddElement
  <2>6. IsFiniteSet(least) /\ Cardinality(least) <= Cardinality(below(p) \cup {p})
    BY <2>3, <2>5, FS_Subset
  <2>7. Cardinality(least) \in Nat
    BY <2>6, FS_CardinalityType
  <2> QED
    BY <1>3, <2>4, <2>5, <2>6, <2>7
<1>9. /\ least \ Straight # {} => Straight \subseteq least /\ Cardinality(least) <= n
      /\ \A p \in least \ Straight, q \in around \ least :
           Selection!Pole(p).deviation < Selection!Pole(q).deviation
  <2>1. \A p \in least : p \in around
    OBVIOUS
  <2> HIDE DEF least
  <2> QED
    BY <1>1, <1>6, <1>7, <1>8, <2>1
<1> HIDE DEF least
<1> QED
  BY <1>4, <1>9 DEF FewDetours, around

\* The same, of a case c, a radius r and poles ps.
WithinOf(c, r) == {p \in DOMAIN c.poles : c.poles[p].dist < r}

StraightOf(c, r) == {p \in WithinOf(c, r) : c.poles[p].deviation <= c.context.cone_angle}

FewOf(c, r, ps) ==
  /\ ps \ StraightOf(c, r) # {} =>
       StraightOf(c, r) \subseteq ps /\ Cardinality(ps) <= c.context.cone_poles
  /\ \A p \in ps \ StraightOf(c, r), q \in WithinOf(c, r) \ ps :
       c.poles[p].deviation < c.poles[q].deviation

FirstOf(c) ==
  Selection!Min({Selection!Max({c.context.radius_min, (c.context.radius_percent * c.length) \div 100}),
                 c.context.radius_max})

\* What holds of the search so far.  A radius past the first was widened for want of
\* poles; the cone starts from the poles within it.
Detours(c, r, at_step, ps) ==
  /\ c \in Cases /\ r \in Nat
  /\ at_step = "start" => r = 0
  /\ r > FirstOf(c) =>
       /\ Cardinality(WithinOf(c, r - c.context.radius_increment)) < c.context.radius_poles
       /\ r - c.context.radius_increment < c.context.radius_max
  /\ at_step = "cone" => ps = WithinOf(c, r)
  /\ at_step = "sectors" /\ c.context.cone_angle > 0 => FewOf(c, r, ps)

DetourOK == Detours(case, radius, step, near)

\* The operators of the selection, of the values of a state.
LEMMA DetourViews ==
  /\ \A r : Selection!Within(r) = WithinOf(case, r)
  /\ Straight = StraightOf(case, radius)
  /\ \A ps : FewDetours(ps) <=> FewOf(case, radius, ps)
  /\ Selection!FirstRadius = FirstOf(case)
<1>1. \A r : Selection!Within(r) = WithinOf(case, r)
  BY DEF Selection!Within, Selection!Pole, WithinOf
<1>2. Straight = StraightOf(case, radius)
  BY <1>1 DEF Straight, StraightOf, Selection!Pole, Selection!Context
<1>3. \A ps : FewDetours(ps) <=> FewOf(case, radius, ps)
  BY <1>1, <1>2 DEF FewDetours, FewOf, Selection!Pole, Selection!Context
<1>4. Selection!FirstRadius = FirstOf(case)
  BY DEF Selection!FirstRadius, FirstOf, Selection!Context
<1> QED
  BY <1>1, <1>2, <1>3, <1>4

\* The first radius is a natural.
LEMMA FirstOfType == ASSUME NEW c \in Cases PROVE FirstOf(c) \in Nat
<1>1. /\ c.context.radius_min \in Nat /\ c.context.radius_max \in Nat
      /\ c.context.radius_percent \in Nat /\ c.length \in Nat
  BY CaseTypes
<1>2. c.context.radius_percent * c.length \in Nat
  BY <1>1
<1>3. PICK a \in Nat, b \in Nat, d \in Nat :
        /\ a = c.context.radius_min /\ d = c.context.radius_max
        /\ b = (c.context.radius_percent * c.length) \div 100
  BY <1>1, <1>2
<1>4. Selection!Max({a, b}) = IF a <= b THEN b ELSE a
  BY OfTwo
<1>8. Selection!Max({a, b}) \in Nat
  BY <1>4
<1>5. PICK e \in Nat : e = Selection!Max({a, b})
  BY <1>8
<1>6. FirstOf(c) = Selection!Min({e, d})
  BY <1>3, <1>5 DEF FirstOf
<1>7. Selection!Min({e, d}) \in Nat
  BY OfTwo
<1> QED
  BY <1>6, <1>7

\* Finitely many poles lie within a radius.
LEMMA WithinIsFinite ==
  ASSUME NEW c \in Cases, NEW r
  PROVE  IsFiniteSet(WithinOf(c, r)) /\ Cardinality(WithinOf(c, r)) \in Nat
<1>1. IsFiniteSet(DOMAIN c.poles) /\ WithinOf(c, r) \in SUBSET DOMAIN c.poles
  BY CaseTypes DEF WithinOf
<1> QED
  BY <1>1, FS_Subset, FS_CardinalityType

\* A turn of the search widens the radius only when too few poles lie in it.
LEMMA DetourSearch == DetourOK /\ Selection!Search => DetourOK'
<1> SUFFICES ASSUME DetourOK, Selection!Search PROVE Detours(case, radius', step', near')
  BY DEF DetourOK, Selection!Search
<1>1. PICK n \in Nat, most \in Nat, more \in Nat, few \in Nat :
        /\ n = Cardinality(WithinOf(case, radius))
        /\ most = case.context.radius_max /\ more = case.context.radius_increment
        /\ few = case.context.radius_poles
  BY WithinIsFinite, CaseTypes DEF DetourOK, Detours
<1>2. /\ step = "search" /\ near' = WithinOf(case, radius)
      /\ IF n >= few \/ radius >= most
         THEN /\ step' = IF WithinOf(case, radius) = {} THEN "done" ELSE "cone"
              /\ radius' = radius
         ELSE /\ radius' = radius + more /\ step' = step
  BY <1>1, DetourViews, SizeInSelection DEF Selection!Search, Selection!Context
<1>3. CASE n >= few \/ radius >= most
  BY <1>2, <1>3 DEF DetourOK, Detours
<1>4. CASE ~(n >= few \/ radius >= most)
  <2>1. radius \in Nat
    BY DEF DetourOK, Detours
  <2>2. radius' = radius + more /\ step' = "search" /\ n < few /\ radius < most
    BY <1>2, <1>4, <2>1
  <2>3. radius' - more = radius /\ radius' \in Nat
    BY <2>1, <2>2
  <2> QED
    BY <1>1, <2>2, <2>3 DEF DetourOK, Detours
<1> QED
  BY <1>3, <1>4

\* The poles in the cone, or those that stand out least.
LEMMA DetourCone == DetourOK /\ Selection!Cone => DetourOK'
<1> SUFFICES ASSUME DetourOK, Selection!Cone PROVE Detours(case, radius, step', near')
  BY DEF DetourOK, Selection!Cone
<1> DEFINE inside == {p \in near : Selection!Excess(p) = 0}
<1>1. /\ case \in Cases /\ radius \in Nat /\ near = WithinOf(case, radius)
      /\ near = Selection!Within(radius) /\ case.context.cone_angle \in Nat
      /\ case.context.cone_poles \in Nat
  BY DetourViews, CaseTypes DEF DetourOK, Detours, Selection!Cone
<1>2. step' # "start" /\ step' # "cone"
  BY DEF Selection!Cone
<1>3. ASSUME case.context.cone_angle > 0 PROVE FewOf(case, radius, near')
  <2>1. inside = Straight
    <3>1. \A p \in near : Selection!Pole(p).deviation \in Nat
      BY <1>1, CaseTypes DEF WithinOf, Selection!Pole
    <3>2. \A p \in near : Selection!Excess(p) = 0 <=> Selection!Pole(p).deviation <= Selection!Context.cone_angle
      BY <1>1, <1>3, <3>1 DEF Selection!Excess, Selection!Context
    <3> QED
      BY <1>1, <3>2 DEF Straight
  <2>2. PICK n \in Nat : n = Cardinality(Straight)
    <3>1. StraightOf(case, radius) \in SUBSET WithinOf(case, radius)
      BY DEF StraightOf
    <3> QED
      BY <1>1, <3>1, DetourViews, WithinIsFinite, FS_Subset, FS_CardinalityType
  <2>3. near' = IF n >= case.context.cone_poles THEN Straight
                ELSE Selection!LeastDeviating(near, Selection!Context.cone_poles)
    BY <1>1, <1>3, <2>1, <2>2, SizeInSelection DEF Selection!Cone, Selection!Context
  <2>4. CASE n >= case.context.cone_poles
    BY <2>3, <2>4, DetourViews DEF FewOf
  <2>5. CASE ~(n >= case.context.cone_poles)
    <3>1. PICK few \in Nat : few = Selection!Context.cone_poles
      BY <1>1 DEF Selection!Context
    <3>2. Cardinality(Straight) < few /\ Selection!Context.cone_angle > 0
      BY <1>3, <2>2, <2>5, <3>1 DEF Selection!Context
    <3>3. FewDetours(Selection!LeastDeviating(Selection!Within(radius), few))
      BY <1>1, <3>1, <3>2, LeastDeviatingIsFew
    <3> QED
      BY <1>1, <2>3, <2>5, <3>1, <3>3, DetourViews
  <2> QED
    BY <2>4, <2>5
<1> QED
  BY <1>1, <1>2, <1>3 DEF DetourOK, Detours

\* The other steps leave the radius, or are past it.
LEMMA DetourRest ==
  DetourOK /\ (\/ Selection!Start \/ Selection!Sectors \/ Selection!Bands \/ Selection!Pick
               \/ Selection!PickEnd \/ UNCHANGED Selection!vars) => DetourOK'
<1>1. ASSUME DetourOK, Selection!Start PROVE Detours(case, radius', step', near)
  <2>1. PICK first \in Nat : first = FirstOf(case)
    BY <1>1, FirstOfType DEF DetourOK, Detours
  <2>2. radius = 0 /\ step' \in {"search", "done"} /\ radius' \in {0, first}
    BY <1>1, <2>1, DetourViews DEF DetourOK, Detours, Selection!Start
  <2>3. radius' \in Nat /\ ~(radius' > first)
    BY <2>1, <2>2
  <2> QED
    BY <1>1, <2>1, <2>2, <2>3 DEF DetourOK, Detours
<1>2. Selection!Start => near' = near /\ case' = case
  BY DEF Selection!Start
<1>3. ASSUME DetourOK, step' \notin {"start", "cone", "sectors"}, case' = case, radius' = radius
      PROVE  DetourOK'
  BY <1>3 DEF DetourOK, Detours
<1>4. Selection!Sectors => step' \in {"raised", "done", "bands"} /\ case' = case /\ radius' = radius
  BY DEF Selection!Sectors
<1>5. ASSUME step = "bands", Selection!Bands
      PROVE step' \in {"raised", "pick"} /\ case' = case /\ radius' = radius
  BY <1>5 DEF Selection!Bands
<1>6. Selection!Bands => step = "bands"
  BY DEF Selection!Bands
<1>7. Selection!Pick => step' = "pick" /\ case' = case /\ radius' = radius
  BY DEF Selection!Pick
<1>8. Selection!PickEnd => step' = "done" /\ case' = case /\ radius' = radius
  BY DEF Selection!PickEnd
<1>9. DetourOK /\ UNCHANGED Selection!vars => DetourOK'
  BY DEF DetourOK, Selection!vars
<1>10. DetourOK /\ Selection!Start => DetourOK'
  BY <1>1, <1>2 DEF DetourOK
<1>11. DetourOK /\ Selection!Sectors => DetourOK'
  BY <1>3, <1>4
<1>12. DetourOK /\ Selection!Bands => DetourOK'
  BY <1>3, <1>5, <1>6
<1>13. DetourOK /\ Selection!Pick => DetourOK'
  BY <1>3, <1>7
<1>14. DetourOK /\ Selection!PickEnd => DetourOK'
  BY <1>3, <1>8
<1> QED
  BY <1>9, <1>10, <1>11, <1>12, <1>13, <1>14

\* It begins with no radius.
LEMMA DetourInit == Selection!Init => DetourOK
<1> SUFFICES ASSUME Selection!Init PROVE Detours(case, radius, step, near)
  BY DEF DetourOK
<1>1. PICK first \in Nat : first = FirstOf(case)
  BY FirstOfType DEF Selection!Init
<1>2. radius = 0 /\ ~(radius > first)
  BY DEF Selection!Init
<1> QED
  BY <1>1, <1>2 DEF Selection!Init, Detours

\* The property follows.
LEMMA DetoursFollow == DetourOK => Selection!DetoursAreNeeded
<1> SUFFICES ASSUME DetourOK PROVE Selection!DetoursAreNeeded
  OBVIOUS
<1>1. /\ radius > Selection!FirstRadius =>
       /\ Selection!Cardinality(Selection!Within(radius - Selection!Context.radius_increment)) < Selection!Context.radius_poles
       /\ radius - Selection!Context.radius_increment < Selection!Context.radius_max
  BY DetourViews, SizeInSelection DEF DetourOK, Detours, Selection!Context
<1>2. step = "sectors" /\ Selection!Context.cone_angle > 0 => FewDetours(near)
  BY DetourViews DEF DetourOK, Detours, Selection!Context
<1>3. FewDetours(near) =>
        /\ near \ Straight # {} =>
               Straight \subseteq near /\ Selection!Cardinality(near) <= Selection!Context.cone_poles
        /\ \A p \in near \ Straight, q \in Selection!Within(radius) \ near :
               Selection!Pole(p).deviation < Selection!Pole(q).deviation
  BY SizeInSelection DEF FewDetours
<1> QED
  BY <1>1, <1>2, <1>3 DEF Selection!DetoursAreNeeded, Straight

\* Picking, of what was picked (taken) and left in a sector.
RingOf(set, bd, b) == {p \in set : bd[p] = b}

\* e: elevations.
HigherIn(taken, rest, bd, e) ==
  \A p \in taken, q \in rest : bd[p] = bd[q] => e[q] < e[p]

\* In round m it is the turn of ring r: rings before it have had it, and a ring that
\* still has poles has missed none.
RoundIn(taken, rest, bd, bands, r, m) ==
  \A b \in 0..(bands - 1) :
    /\ IsFiniteSet(RingOf(taken, bd, b))
    /\ Cardinality(RingOf(taken, bd, b)) <= (IF b < r THEN m + 1 ELSE m)
    /\ RingOf(rest, bd, b) # {} =>
         Cardinality(RingOf(taken, bd, b)) = (IF b < r THEN m + 1 ELSE m)

InTurns(taken, rest, bd, bands, r) == \E m \in Nat : RoundIn(taken, rest, bd, bands, r, m)

Balanced(taken, rest, bd) ==
  \A p \in taken, q \in rest :
    Cardinality(RingOf(taken, bd, bd[p])) <= Cardinality(RingOf(taken, bd, bd[q])) + 1

Banded(set, bd, bands) == \A p \in set : bd[p] \in 0..(bands - 1)

\* The ring whose turn is next.
LEMMA RingAfter ==
  ASSUME NEW bands \in Nat \ {0}, NEW r \in 0..(bands - 1)
  PROVE  (r + 1) % bands = IF r + 1 = bands THEN 0 ELSE r + 1
  OBVIOUS

\* A ring with no pole left is passed over.
LEMMA TurnsSkip ==
  ASSUME NEW taken, NEW rest, NEW bd, NEW bands \in Nat \ {0}, NEW r \in 0..(bands - 1),
         InTurns(taken, rest, bd, bands, r), RingOf(rest, bd, r) = {}
  PROVE  InTurns(taken, rest, bd, bands, (r + 1) % bands)
<1>1. PICK m \in Nat : RoundIn(taken, rest, bd, bands, r, m)
  BY DEF InTurns
<1>2. \A b \in 0..(bands - 1) : Cardinality(RingOf(taken, bd, b)) \in Nat
  BY <1>1, FS_CardinalityType DEF RoundIn
<1>3. CASE r + 1 = bands
  <2>1. RoundIn(taken, rest, bd, bands, 0, m + 1)
    BY <1>1, <1>2, <1>3 DEF RoundIn
  <2>2. (r + 1) % bands = 0 /\ m + 1 \in Nat
    BY <1>3, RingAfter
  <2> QED
    BY <2>1, <2>2 DEF InTurns
<1>4. CASE r + 1 # bands
  <2>1. RoundIn(taken, rest, bd, bands, r + 1, m)
    BY <1>1, <1>2, <1>4 DEF RoundIn
  <2>2. (r + 1) % bands = r + 1
    BY <1>4, RingAfter
  <2> QED
    BY <2>1, <2>2 DEF InTurns
<1> QED
  BY <1>3, <1>4

\* A ring gives a pole.
LEMMA TurnsTake ==
  ASSUME NEW taken, NEW rest, NEW bd, NEW bands \in Nat \ {0}, NEW r \in 0..(bands - 1),
         InTurns(taken, rest, bd, bands, r), NEW x \in rest, bd[x] = r, x \notin taken
  PROVE  InTurns(taken \cup {x}, rest \ {x}, bd, bands, (r + 1) % bands)
<1> DEFINE more == taken \cup {x}
           less == rest \ {x}
<1>1. PICK m \in Nat : RoundIn(taken, rest, bd, bands, r, m)
  BY DEF InTurns
<1>2. \A b \in 0..(bands - 1) : Cardinality(RingOf(taken, bd, b)) \in Nat
  BY <1>1, FS_CardinalityType DEF RoundIn
<1>3. \A b \in 0..(bands - 1) : b # r =>
        RingOf(more, bd, b) = RingOf(taken, bd, b) /\ RingOf(less, bd, b) = RingOf(rest, bd, b)
  BY DEF RingOf
<1>4. /\ IsFiniteSet(RingOf(more, bd, r))
      /\ Cardinality(RingOf(more, bd, r)) = m + 1
  <2>1. RingOf(more, bd, r) = RingOf(taken, bd, r) \cup {x} /\ x \notin RingOf(taken, bd, r)
    BY DEF RingOf
  <2>2. IsFiniteSet(RingOf(taken, bd, r)) /\ Cardinality(RingOf(taken, bd, r)) = m
    <3>1. RingOf(rest, bd, r) # {}
      BY DEF RingOf
    <3> QED
      BY <1>1, <3>1 DEF RoundIn
  <2> HIDE DEF more
  <2> QED
    BY <2>1, <2>2, FS_AddElement
<1> HIDE DEF more, less
<1>5. CASE r + 1 = bands
  <2>1. RoundIn(more, less, bd, bands, 0, m + 1)
    <3> SUFFICES ASSUME NEW b \in 0..(bands - 1)
                 PROVE  /\ IsFiniteSet(RingOf(more, bd, b))
                        /\ Cardinality(RingOf(more, bd, b)) <= m + 1
                        /\ RingOf(less, bd, b) # {} => Cardinality(RingOf(more, bd, b)) = m + 1
      BY DEF RoundIn
    <3>1. CASE b = r
      BY <1>4, <3>1
    <3>2. CASE b # r
      BY <1>1, <1>2, <1>3, <1>5, <3>2 DEF RoundIn
    <3> QED
      BY <3>1, <3>2
  <2>2. (r + 1) % bands = 0 /\ m + 1 \in Nat
    BY <1>5, RingAfter
  <2> QED
    BY <2>1, <2>2 DEF InTurns, more, less
<1>6. CASE r + 1 # bands
  <2>1. RoundIn(more, less, bd, bands, r + 1, m)
    <3> SUFFICES ASSUME NEW b \in 0..(bands - 1)
                 PROVE  /\ IsFiniteSet(RingOf(more, bd, b))
                        /\ Cardinality(RingOf(more, bd, b)) <= (IF b < r + 1 THEN m + 1 ELSE m)
                        /\ RingOf(less, bd, b) # {} =>
                             Cardinality(RingOf(more, bd, b)) = (IF b < r + 1 THEN m + 1 ELSE m)
      BY DEF RoundIn
    <3>1. CASE b = r
      BY <1>4, <3>1
    <3>2. CASE b # r
      BY <1>1, <1>2, <1>3, <3>2 DEF RoundIn
    <3> QED
      BY <3>1, <3>2
  <2>2. (r + 1) % bands = r + 1
    BY <1>6, RingAfter
  <2> QED
    BY <2>1, <2>2 DEF InTurns, more, less
<1> QED
  BY <1>5, <1>6

\* When rings give in turns, none is behind another that has poles left.
LEMMA TurnsBalance ==
  ASSUME NEW taken, NEW rest, NEW bd, NEW bands \in Nat \ {0}, NEW r \in 0..(bands - 1),
         InTurns(taken, rest, bd, bands, r), Banded(taken, bd, bands), Banded(rest, bd, bands)
  PROVE  Balanced(taken, rest, bd)
<1>1. PICK m \in Nat : RoundIn(taken, rest, bd, bands, r, m)
  BY DEF InTurns
<1> SUFFICES ASSUME NEW p \in taken, NEW q \in rest
             PROVE  Cardinality(RingOf(taken, bd, bd[p])) <= Cardinality(RingOf(taken, bd, bd[q])) + 1
  BY DEF Balanced
<1>2. PICK b \in 0..(bands - 1), d \in 0..(bands - 1) : b = bd[p] /\ d = bd[q]
  BY DEF Banded
<1>3. q \in RingOf(rest, bd, d)
  BY <1>2 DEF RingOf
<1>4. Cardinality(RingOf(taken, bd, b)) \in Nat /\ Cardinality(RingOf(taken, bd, b)) <= m + 1
  BY <1>1, FS_CardinalityType DEF RoundIn
<1>5. Cardinality(RingOf(taken, bd, d)) \in {m, m + 1}
  BY <1>1, <1>3 DEF RoundIn
<1> QED
  BY <1>2, <1>4, <1>5

\* The first round.
LEMMA TurnsBegin ==
  ASSUME NEW rest, NEW bd, NEW bands \in Nat \ {0}
  PROVE  InTurns({}, rest, bd, bands, 0)
<1>1. \A b : RingOf({}, bd, b) = {}
  BY DEF RingOf
<1>2. RoundIn({}, rest, bd, bands, 0, 0)
  BY <1>1, FS_EmptySet DEF RoundIn
<1> QED
  BY <1>2 DEF InTurns

-----------------------------------------------------------------------------
\* The sectors: s is being picked.
PickedOf(got, g, s) == {p \in got : g[p] = s}
LeftOf(nr, got, g, s) == {p \in nr \ got : g[p] = s}

\* A sector that is done with.
SectorSettled(taken, rest, bd, e, each) ==
  /\ Cardinality(taken) = (IF each <= Cardinality(taken \cup rest) THEN each ELSE Cardinality(taken \cup rest))
  /\ HigherIn(taken, rest, bd, e)
  /\ Balanced(taken, rest, bd)

\* Sectors before s are done with and those after it untouched.
Chosen(nr, got, g, bd, e, s, r, bands, each) ==
  /\ got \subseteq nr
  /\ s \in Nat /\ r \in 0..(bands - 1)
  /\ Banded(nr, bd, bands)
  /\ \A t \in Nat : t < s => SectorSettled(PickedOf(got, g, t), LeftOf(nr, got, g, t), bd, e, each)
  /\ \A t \in Nat : t > s => PickedOf(got, g, t) = {}
  /\ Cardinality(PickedOf(got, g, s)) <= each
  /\ HigherIn(PickedOf(got, g, s), LeftOf(nr, got, g, s), bd, e)
  /\ InTurns(PickedOf(got, g, s), LeftOf(nr, got, g, s), bd, bands, r)

\* A sector is left with its number of poles or all it has, and the next one begins.
LEMMA SectorDone ==
  ASSUME NEW nr, IsFiniteSet(nr), NEW got, NEW g, NEW bd, NEW e, NEW s, NEW r,
         NEW bands \in Nat \ {0}, NEW each \in Nat,
         Chosen(nr, got, g, bd, e, s, r, bands, each),
         LeftOf(nr, got, g, s) = {} \/ Cardinality(PickedOf(got, g, s)) >= each
  PROVE  Chosen(nr, got, g, bd, e, s + 1, 0, bands, each)
<1> DEFINE taken == PickedOf(got, g, s)
           rest == LeftOf(nr, got, g, s)
<1>1. s \in Nat /\ r \in 0..(bands - 1) /\ 0 \in 0..(bands - 1) /\ s + 1 \in Nat /\ s + 1 > s
  BY DEF Chosen
<1>2. /\ IsFiniteSet(taken) /\ Cardinality(taken) \in Nat /\ Cardinality(taken \cup rest) \in Nat
      /\ Cardinality(taken) <= Cardinality(taken \cup rest)
  <2>1. taken \cup rest \in SUBSET nr /\ taken \in SUBSET nr /\ taken \in SUBSET (taken \cup rest)
    BY DEF Chosen, PickedOf, LeftOf
  <2> HIDE DEF taken, rest
  <2> QED
    BY <2>1, FS_Subset, FS_CardinalityType
<1>3. SectorSettled(taken, rest, bd, e, each)
  <2>1. Cardinality(taken) <= each
    BY DEF Chosen
  <2>2. Cardinality(taken) = (IF each <= Cardinality(taken \cup rest) THEN each ELSE Cardinality(taken \cup rest))
    <3>1. CASE rest = {}
      <4>1. taken \cup rest = taken
        BY <3>1
      <4> HIDE DEF taken, rest
      <4>2. PICK n \in Nat : n = Cardinality(taken) /\ n = Cardinality(taken \cup rest)
        BY <1>2, <4>1
      <4> QED
        BY <2>1, <4>2
    <3>2. CASE Cardinality(taken) >= each
      <4> HIDE DEF taken, rest
      <4> QED
        BY <1>2, <2>1, <3>2
    <3> QED
      BY <3>1, <3>2
  <2>3. HigherIn(taken, rest, bd, e)
    BY DEF Chosen
  <2>4. Balanced(taken, rest, bd)
    <3>1. InTurns(taken, rest, bd, bands, r)
      BY DEF Chosen
    <3>2. Banded(taken, bd, bands) /\ Banded(rest, bd, bands)
      BY DEF Chosen, Banded, PickedOf, LeftOf
    <3> HIDE DEF taken, rest
    <3> QED
      BY <1>1, <3>1, <3>2, TurnsBalance
  <2> HIDE DEF taken, rest
  <2> QED
    BY <2>2, <2>3, <2>4 DEF SectorSettled
<1>4. PickedOf(got, g, s + 1) = {}
  BY <1>1 DEF Chosen
<1>5. \A t \in Nat : t < s + 1 => SectorSettled(PickedOf(got, g, t), LeftOf(nr, got, g, t), bd, e, each)
  <2> SUFFICES ASSUME NEW t \in Nat, t < s + 1
               PROVE  SectorSettled(PickedOf(got, g, t), LeftOf(nr, got, g, t), bd, e, each)
    OBVIOUS
  <2>1. t = s \/ t < s
    BY <1>1
  <2> QED
    BY <1>3, <2>1 DEF Chosen
<1>6. \A t \in Nat : t > s + 1 => PickedOf(got, g, t) = {}
  BY <1>1 DEF Chosen
<1>7. Cardinality({}) <= each
  BY FS_EmptySet
<1>8. HigherIn({}, LeftOf(nr, got, g, s + 1), bd, e)
  BY DEF HigherIn
<1>9. InTurns({}, LeftOf(nr, got, g, s + 1), bd, bands, 0)
  BY TurnsBegin
<1>10. got \subseteq nr /\ Banded(nr, bd, bands)
  BY DEF Chosen
<1> HIDE DEF taken, rest
<1> QED
  BY <1>1, <1>4, <1>5, <1>6, <1>7, <1>8, <1>9, <1>10 DEF Chosen

\* The ring whose turn it is has no pole left in the sector.
LEMMA RingSkipped ==
  ASSUME NEW nr, NEW got, NEW g, NEW bd, NEW e, NEW s, NEW r,
         NEW bands \in Nat \ {0}, NEW each \in Nat,
         Chosen(nr, got, g, bd, e, s, r, bands, each),
         RingOf(LeftOf(nr, got, g, s), bd, r) = {}
  PROVE  Chosen(nr, got, g, bd, e, s, (r + 1) % bands, bands, each)
<1>1. r \in 0..(bands - 1)
  BY DEF Chosen
<1>2. (r + 1) % bands \in 0..(bands - 1)
  BY <1>1, RingAfter
<1>3. InTurns(PickedOf(got, g, s), LeftOf(nr, got, g, s), bd, bands, (r + 1) % bands)
  BY <1>1, TurnsSkip DEF Chosen
<1> QED
  BY <1>2, <1>3 DEF Chosen

\* The highest pole of the ring is picked.
LEMMA PoleTaken ==
  ASSUME NEW nr, IsFiniteSet(nr), NEW got, NEW g, NEW bd, NEW e, NEW s, NEW r,
         NEW bands \in Nat \ {0}, NEW each \in Nat,
         Chosen(nr, got, g, bd, e, s, r, bands, each),
         ~(Cardinality(PickedOf(got, g, s)) >= each),
         NEW x \in RingOf(LeftOf(nr, got, g, s), bd, r),
         \A q \in RingOf(LeftOf(nr, got, g, s), bd, r) : q # x => e[q] < e[x]
  PROVE  Chosen(nr, got \cup {x}, g, bd, e, s, (r + 1) % bands, bands, each)
<1> DEFINE taken == PickedOf(got, g, s)
           rest == LeftOf(nr, got, g, s)
           more == got \cup {x}
<1>1. /\ r \in 0..(bands - 1) /\ s \in Nat
      /\ (r + 1) % bands \in 0..(bands - 1)
  BY RingAfter DEF Chosen
<1>2. x \in rest /\ bd[x] = r /\ x \in nr /\ x \notin got /\ g[x] = s /\ x \notin taken
  BY DEF RingOf, LeftOf, PickedOf
<1>3. PickedOf(more, g, s) = taken \cup {x} /\ LeftOf(nr, more, g, s) = rest \ {x}
  BY <1>2 DEF PickedOf, LeftOf
<1>4. \A t \in Nat : t # s =>
        PickedOf(more, g, t) = PickedOf(got, g, t) /\ LeftOf(nr, more, g, t) = LeftOf(nr, got, g, t)
  BY <1>2 DEF PickedOf, LeftOf
<1>5. \A t \in Nat : t < s => SectorSettled(PickedOf(more, g, t), LeftOf(nr, more, g, t), bd, e, each)
  <2> SUFFICES ASSUME NEW t \in Nat, t < s
               PROVE  SectorSettled(PickedOf(more, g, t), LeftOf(nr, more, g, t), bd, e, each)
    OBVIOUS
  <2>1. SectorSettled(PickedOf(got, g, t), LeftOf(nr, got, g, t), bd, e, each) /\ t # s
    BY <1>1 DEF Chosen
  <2> HIDE DEF more
  <2> QED
    BY <1>4, <2>1
<1>6. \A t \in Nat : t > s => PickedOf(more, g, t) = {}
  <2> SUFFICES ASSUME NEW t \in Nat, t > s PROVE PickedOf(more, g, t) = {}
    OBVIOUS
  <2>1. PickedOf(got, g, t) = {} /\ t # s
    BY <1>1 DEF Chosen
  <2> HIDE DEF more
  <2> QED
    BY <1>4, <2>1
<1>7. Cardinality(taken \cup {x}) <= each
  <2>1. taken \in SUBSET nr
    BY DEF Chosen, PickedOf
  <2>2. ~(Cardinality(taken) >= each)
    OBVIOUS
  <2> HIDE DEF taken
  <2>3. IsFiniteSet(taken) /\ Cardinality(taken) \in Nat
    BY <2>1, FS_Subset, FS_CardinalityType
  <2>4. Cardinality(taken \cup {x}) = Cardinality(taken) + 1
    BY <1>2, <2>3, FS_AddElement
  <2> QED
    BY <2>2, <2>3, <2>4
<1>8. HigherIn(taken \cup {x}, rest \ {x}, bd, e)
  <2>1. HigherIn(taken, rest, bd, e)
    BY DEF Chosen
  <2>2. \A q \in rest : bd[q] = r /\ q # x => e[q] < e[x]
    BY DEF RingOf
  <2> HIDE DEF taken, rest
  <2> QED
    BY <1>2, <2>1, <2>2 DEF HigherIn
<1>9. InTurns(taken \cup {x}, rest \ {x}, bd, bands, (r + 1) % bands)
  <2>1. InTurns(taken, rest, bd, bands, r)
    BY DEF Chosen
  <2> HIDE DEF taken, rest
  <2> QED
    BY <1>1, <1>2, <2>1, TurnsTake
<1>10. more \subseteq nr /\ Banded(nr, bd, bands)
  BY <1>2 DEF Chosen
<1> HIDE DEF taken, rest, more
<1>11. Chosen(nr, more, g, bd, e, s, (r + 1) % bands, bands, each)
  BY <1>1, <1>3, <1>5, <1>6, <1>7, <1>8, <1>9, <1>10 DEF Chosen
<1> QED
  BY <1>11 DEF more

\* The sector and the elevation of each pole of a case.
SectorsOf(c) ==
  LET width == 360 \div c.context.sector_count
  IN [p \in DOMAIN c.poles |-> ((c.poles[p].bearing + width \div 2) % 360) \div width]

ElevationsOf(c) == [p \in DOMAIN c.poles |-> c.poles[p].elevation]

ExcludedOf(c) == Range(c.context.sector_exclusions)

NoneExcluded(c, nr) == \A p \in nr : SectorsOf(c)[p] \notin ExcludedOf(c)

\* Nothing picked yet.
Unpicked(bd, s, r, pk) == bd = <<>> /\ s = 0 /\ r = 0 /\ pk = <<>>

ChosenOf(c, nr, bd, s, r, pk) ==
  Chosen(nr, Range(pk), SectorsOf(c), bd, ElevationsOf(c), s, r,
         c.context.sector_bands, c.context.sector_poles)

\* The choice so far, step by step.
Spread(c, at_step, nr, bd, s, r, pk) ==
  /\ c \in Cases
  /\ nr \subseteq DOMAIN c.poles
  /\ pk \in Seq(DOMAIN c.poles)
  /\ at_step \notin {"pick", "done"} => Unpicked(bd, s, r, pk)
  /\ at_step = "bands" => nr # {} /\ NoneExcluded(c, nr)
  /\ at_step = "pick" => NoneExcluded(c, nr) /\ ChosenOf(c, nr, bd, s, r, pk)
  /\ at_step = "done" /\ bd # <<>> =>
       s = c.context.sector_count /\ NoneExcluded(c, nr) /\ ChosenOf(c, nr, bd, s, r, pk)

SpreadOK == Spread(case, step, near, band, sector, ring, picked)

\* What a list holds when one more is appended.
LEMMA RangeAfter ==
  ASSUME NEW S, NEW pk \in Seq(S), NEW x \in S
  PROVE  Range(Append(pk, x)) = Range(pk) \cup {x} /\ Append(pk, x) \in Seq(S)
<1>1. /\ DOMAIN pk = 1..Len(pk) /\ Len(pk) \in Nat
      /\ DOMAIN Append(pk, x) = 1..(Len(pk) + 1)
      /\ \A i \in 1..Len(pk) : Append(pk, x)[i] = pk[i]
      /\ Append(pk, x)[Len(pk) + 1] = x
  OBVIOUS
<1>2. 1..(Len(pk) + 1) = (1..Len(pk)) \cup {Len(pk) + 1}
  BY <1>1
<1>3. Range(Append(pk, x)) = Range(pk) \cup {x}
  BY <1>1, <1>2, Zenon DEF Range
<1> QED
  BY <1>3

\* The operators of the selection, as functions of the case.
LEMMA SpreadViews ==
  /\ \A p \in DOMAIN case.poles : /\ Selection!SectorOf(p) = SectorsOf(case)[p]
                                  /\ Selection!Pole(p).elevation = ElevationsOf(case)[p]
  /\ Selection!Excluded = ExcludedOf(case)
  /\ \A pk : Selection!Range(pk) = Range(pk)
<1>1. \A p \in DOMAIN case.poles : Selection!SectorOf(p) = SectorsOf(case)[p]
  BY DEF Selection!SectorOf, SectorsOf, Selection!Context, Selection!Pole
<1>2. \A p \in DOMAIN case.poles : Selection!Pole(p).elevation = ElevationsOf(case)[p]
  BY DEF ElevationsOf, Selection!Pole
<1>3. \A pk : Selection!Range(pk) = Range(pk)
  BY Zenon DEF Selection!Range, Range
<1>4. Selection!Excluded = ExcludedOf(case)
  BY <1>3 DEF Selection!Excluded, ExcludedOf, Selection!Context
<1> QED
  BY <1>1, <1>2, <1>3, <1>4

\* Up to the sectors nothing is picked.
LEMMA SpreadInit == Selection!Init => SpreadOK
  BY DEF Selection!Init, SpreadOK, Spread, Unpicked

LEMMA SpreadStart == SpreadOK /\ Selection!Start => SpreadOK'
  BY DEF Selection!Start, SpreadOK, Spread, Unpicked

LEMMA SpreadSearch == SpreadOK /\ Selection!Search => SpreadOK'
<1> SUFFICES ASSUME SpreadOK, Selection!Search
             PROVE  Spread(case, step', near', band, sector, ring, picked)
  BY DEF SpreadOK, Selection!Search
<1>1. near' \subseteq DOMAIN case.poles
  BY DEF Selection!Search, Selection!Within
<1>2. step = "search" /\ step' \in {"search", "cone", "done"}
  BY DEF Selection!Search
<1> QED
  BY <1>1, <1>2 DEF SpreadOK, Spread, Unpicked

LEMMA SpreadCone == SpreadOK /\ Selection!Cone => SpreadOK'
<1> SUFFICES ASSUME SpreadOK, Selection!Cone
             PROVE  Spread(case, step', near', band, sector, ring, picked)
  BY DEF SpreadOK, Selection!Cone
<1>1. near' \subseteq near
  <2> DEFINE inside == {p \in near : Selection!Excess(p) = 0}
             least == Selection!LeastDeviating(near, Selection!Context.cone_poles)
  <2>1. inside \subseteq near /\ least \subseteq near
    BY DEF Selection!LeastDeviating
  <2>2. near' = CASE Selection!Context.cone_angle = 0 -> near
                  [] Selection!Context.cone_angle > 0 /\ Selection!Cardinality(inside) >= Selection!Context.cone_poles -> inside
                  [] OTHER -> least
    BY DEF Selection!Cone
  <2> HIDE DEF inside, least
  <2>3. near' \in {near, inside, least}
    BY <2>2
  <2> QED
    BY <2>1, <2>3
<1>2. step = "cone" /\ step' \in {"sectors", "done"}
  BY DEF Selection!Cone
<1> QED
  BY <1>1, <1>2 DEF SpreadOK, Spread, Unpicked

\* Poles of excluded sectors are dropped.
LEMMA SpreadSectors == SpreadOK /\ Selection!Sectors => SpreadOK'
<1> SUFFICES ASSUME SpreadOK, Selection!Sectors
             PROVE  Spread(case, step', near', band, sector, ring, picked)
  BY DEF SpreadOK, Selection!Sectors
<1>1. near \subseteq DOMAIN case.poles /\ step = "sectors"
  BY DEF SpreadOK, Spread, Selection!Sectors
<1>2. near' \subseteq near
  BY DEF Selection!Sectors
<1>3. step' \in {"raised", "done", "bands"}
  BY DEF Selection!Sectors
<1>4. step' = "bands" => near' # {} /\ NoneExcluded(case, near')
  <2> SUFFICES ASSUME step' = "bands" PROVE near' # {} /\ NoneExcluded(case, near')
    OBVIOUS
  <2>1. ~Selection!BadSectors /\ near' # {}
    BY DEF Selection!Sectors
  <2>2. near' = {p \in near : Selection!SectorOf(p) \notin Selection!Excluded}
    BY <2>1 DEF Selection!Sectors
  <2> QED
    BY <1>1, <2>1, <2>2, SpreadViews DEF NoneExcluded
<1> QED
  BY <1>1, <1>2, <1>3, <1>4 DEF SpreadOK, Spread, Unpicked

\* Before the first pole is picked every sector is as it should be.
LEMMA NothingChosen ==
  ASSUME NEW nr, NEW g, NEW bd, NEW e, NEW bands \in Nat \ {0}, NEW each \in Nat,
         Banded(nr, bd, bands)
  PROVE  Chosen(nr, {}, g, bd, e, 0, 0, bands, each)
<1>1. \A t : PickedOf({}, g, t) = {}
  BY DEF PickedOf
<1>2. Cardinality({}) <= each
  BY FS_EmptySet
<1>3. HigherIn({}, LeftOf(nr, {}, g, 0), bd, e)
  BY DEF HigherIn
<1>4. InTurns({}, LeftOf(nr, {}, g, 0), bd, bands, 0)
  BY TurnsBegin
<1>5. 0 \in Nat /\ 0 \in 0..(bands - 1) /\ \A t \in Nat : ~(t < 0)
  OBVIOUS
<1> QED
  BY <1>1, <1>2, <1>3, <1>4, <1>5 DEF Chosen

\* Every pole gets a ring of those there are.
LEMMA SpreadBands == SpreadOK /\ Selection!Bands => SpreadOK'
<1> SUFFICES ASSUME SpreadOK, Selection!Bands
             PROVE  Spread(case, step', near, band', sector, ring, picked)
  BY DEF SpreadOK, Selection!Bands
<1>1. /\ case \in Cases /\ near \subseteq DOMAIN case.poles /\ near # {} /\ NoneExcluded(case, near)
      /\ step = "bands" /\ sector = 0 /\ ring = 0 /\ picked = <<>> /\ band = <<>>
      /\ picked \in Seq(DOMAIN case.poles)
  BY DEF SpreadOK, Spread, Unpicked, Selection!Bands
<1>2. PICK bands \in Nat \ {0}, each \in Nat :
        bands = case.context.sector_bands /\ each = case.context.sector_poles
  BY <1>1, CaseTypes
<1>3. PICK dist : dist = [p \in near |-> Selection!Pole(p).dist]
  OBVIOUS
<1>4. \A p \in near : dist[p] \in Nat /\ dist[p] = Selection!Pole(p).dist
  BY <1>1, <1>3, CaseTypes DEF Selection!Pole
<1>5. PICK far : far = Selection!Max({dist[p] : p \in near})
  OBVIOUS
<1>6. far \in Nat
  <2>1. IsFiniteSet(near)
    <3>1. near \in SUBSET DOMAIN case.poles
      BY <1>1
    <3> QED
      BY <1>1, <3>1, CaseTypes, FS_Subset
  <2>2. PICK p \in near : \A q \in near : dist[q] <= dist[p]
    BY <1>1, <1>4, <2>1, HighestExists
  <2>3. \E x \in {dist[q] : q \in near} : \A y \in {dist[q] : q \in near} : x >= y
    BY <1>4, <2>2
  <2>4. far \in {dist[q] : q \in near}
    BY <1>5, <2>3 DEF Selection!Max
  <2> QED
    BY <1>4, <2>4
<1>7. {dist[p] : p \in near} = {Selection!Pole(p).dist : p \in near}
  BY <1>4
<1>8. IF far = 0 THEN step' = "raised" /\ band' = band
      ELSE /\ band' = [p \in near |-> Selection!Min({(dist[p] * bands) \div far, bands - 1})]
           /\ step' = "pick"
  BY <1>2, <1>4, <1>5, <1>7 DEF Selection!Bands, Selection!Context
<1>9. CASE far = 0
  BY <1>1, <1>8, <1>9 DEF Spread, Unpicked
<1>10. CASE far # 0
  <2>1. Banded(near, band', bands)
    <3> SUFFICES ASSUME NEW p \in near PROVE band'[p] \in 0..(bands - 1)
      BY DEF Banded
    <3>1. PICK d \in Nat : d = dist[p]
      BY <1>4
    <3>2. d * bands \in Nat
      BY <3>1
    <3>3. PICK q \in Nat : q = (d * bands) \div far
      BY <1>6, <1>10, <3>2
    <3>4. Selection!Min({q, bands - 1}) \in 0..(bands - 1)
      BY <3>3, OfTwo
    <3>5. band'[p] = Selection!Min({q, bands - 1})
      BY <1>8, <1>10, <3>1, <3>3
    <3> QED
      BY <3>4, <3>5
  <2>2. Range(picked) = {}
    BY <1>1 DEF Range
  <2>3. ChosenOf(case, near, band', sector, ring, picked)
    BY <1>1, <1>2, <2>1, <2>2, NothingChosen DEF ChosenOf
  <2>4. step' = "pick"
    BY <1>8, <1>10
  <2> QED
    BY <1>1, <2>3, <2>4 DEF Spread
<1> QED
  BY <1>9, <1>10

\* One turn of the rounds.
LEMMA SpreadPick == SpreadOK /\ Selection!Pick => SpreadOK'
<1> SUFFICES ASSUME SpreadOK, Selection!Pick
             PROVE  Spread(case, "pick", near, band, sector', ring', picked')
  BY DEF SpreadOK, Selection!Pick
<1> DEFINE g == SectorsOf(case)
           e == ElevationsOf(case)
           got == Range(picked)
           rest == LeftOf(near, got, g, sector)
           taken == PickedOf(got, g, sector)
           here == RingOf(rest, band, ring)
<1>1. /\ case \in Cases /\ near \subseteq DOMAIN case.poles /\ NoneExcluded(case, near)
      /\ picked \in Seq(DOMAIN case.poles)
      /\ ChosenOf(case, near, band, sector, ring, picked)
  BY DEF SpreadOK, Spread, Selection!Pick
<1>2. PICK bands \in Nat \ {0}, each \in Nat :
        bands = case.context.sector_bands /\ each = case.context.sector_poles
  BY <1>1, CaseTypes
<1>3. Chosen(near, got, g, band, e, sector, ring, bands, each)
  BY <1>1, <1>2 DEF ChosenOf
<1>4. IsFiniteSet(near)
  <2>1. near \in SUBSET DOMAIN case.poles
    BY <1>1
  <2> QED
    BY <1>1, <2>1, CaseTypes, FS_Subset
<1>5. got \subseteq near
  BY <1>3 DEF Chosen
<1>6. Selection!Left(sector) = rest /\ Selection!PickedIn(sector) = taken
  <2>1. Selection!Range(picked) = got
    BY SpreadViews
  <2>2. \A p \in near : Selection!SectorOf(p) = g[p]
    BY <1>1, SpreadViews
  <2> HIDE DEF g, got
  <2> QED
    BY <1>5, <2>1, <2>2 DEF Selection!Left, Selection!PickedIn, LeftOf, PickedOf
<1>7. here = {p \in Selection!Left(sector) : band[p] = ring}
  BY <1>6 DEF RingOf
<1>8. IF rest = {} \/ Cardinality(taken) >= each
      THEN sector' = sector + 1 /\ ring' = 0 /\ picked' = picked
      ELSE /\ picked' = IF here = {} THEN picked ELSE Append(picked, Selection!Highest(here))
           /\ ring' = (ring + 1) % bands
           /\ sector' = sector
  <2> HIDE DEF rest, taken, here
  <2> QED
    BY <1>2, <1>6, <1>7, SizeInSelection DEF Selection!Pick, Selection!Context
<1>9. ASSUME rest = {} \/ Cardinality(taken) >= each
      PROVE  ChosenOf(case, near, band, sector', ring', picked') /\ picked' = picked
  <2>1. Chosen(near, got, g, band, e, sector + 1, 0, bands, each)
    <3> HIDE DEF g, e, got
    <3> QED
      BY <1>3, <1>4, <1>9, SectorDone
  <2>2. sector' = sector + 1 /\ ring' = 0 /\ picked' = picked
    <3> HIDE DEF rest, taken
    <3> QED
      BY <1>8, <1>9
  <2> QED
    BY <1>2, <2>1, <2>2 DEF ChosenOf
<1>10. ASSUME ~(rest = {} \/ Cardinality(taken) >= each), here = {}
       PROVE  ChosenOf(case, near, band, sector', ring', picked') /\ picked' = picked
  <2>1. Chosen(near, got, g, band, e, sector, (ring + 1) % bands, bands, each)
    <3> HIDE DEF g, e, got
    <3> QED
      BY <1>3, <1>10, RingSkipped
  <2>2. sector' = sector /\ ring' = (ring + 1) % bands /\ picked' = picked
    <3> HIDE DEF rest, taken, here
    <3> QED
      BY <1>8, <1>10
  <2> QED
    BY <1>2, <2>1, <2>2 DEF ChosenOf
<1>11. ASSUME ~(rest = {} \/ Cardinality(taken) >= each), here # {}
       PROVE  /\ ChosenOf(case, near, band, sector', ring', picked')
              /\ picked' \in Seq(DOMAIN case.poles)
  <2>1. here \subseteq near
    BY DEF RingOf, LeftOf
  <2>2. \A p \in here : p \in DOMAIN case.poles /\ e[p] \in Int /\ e[p] = Selection!Pole(p).elevation
    BY <1>1, <2>1, CaseTypes, SpreadViews DEF ElevationsOf
  <2>3. \A p, q \in here : p # q => e[p] # e[q]
    BY <1>1, <2>2, CaseTypes DEF ElevationsOf
  <2>4. IsFiniteSet(here)
    <3>1. here \in SUBSET near
      BY <2>1
    <3> HIDE DEF here
    <3> QED
      BY <1>4, <3>1, FS_Subset
  <2>5. PICK x : x = Selection!Highest(here)
    OBVIOUS
  <2>6. x \in here /\ \A q \in here : e[q] <= e[x]
    <3> HIDE DEF here, e
    <3>1. PICK t \in here : \A q \in here : e[q] <= e[t]
      BY <1>11, <2>2, <2>4, HighestExists
    <3>2. \E p \in here : \A q \in here : Selection!Pole(q).elevation <= Selection!Pole(p).elevation
      BY <2>2, <3>1
    <3>3. x \in here /\ \A q \in here : Selection!Pole(q).elevation <= Selection!Pole(x).elevation
      BY <2>5, <3>2 DEF Selection!Highest
    <3> QED
      BY <2>2, <3>3
  <2>7. \A q \in here : q # x => e[q] < e[x]
    <3> HIDE DEF here, e
    <3> QED
      BY <2>2, <2>3, <2>6
  <2>8. Chosen(near, got \cup {x}, g, band, e, sector, (ring + 1) % bands, bands, each)
    <3> HIDE DEF g, e, got
    <3> QED
      BY <1>3, <1>4, <1>11, <2>6, <2>7, PoleTaken
  <2>9. sector' = sector /\ ring' = (ring + 1) % bands /\ picked' = Append(picked, x)
    <3> HIDE DEF rest, taken, here
    <3> QED
      BY <1>8, <1>11, <2>5
  <2>10. Range(picked') = got \cup {x} /\ picked' \in Seq(DOMAIN case.poles)
    <3>1. x \in DOMAIN case.poles
      BY <2>2, <2>6
    <3> QED
      BY <1>1, <2>9, <3>1, RangeAfter
  <2> QED
    BY <1>2, <2>8, <2>9, <2>10 DEF ChosenOf
<1> HIDE DEF rest, taken, here, g, e, got
<1>12. ChosenOf(case, near, band, sector', ring', picked') /\ picked' \in Seq(DOMAIN case.poles)
  BY <1>1, <1>9, <1>10, <1>11
<1> QED
  BY <1>1, <1>12 DEF Spread

\* When the last sector is done, all are.
LEMMA SpreadEnd == SpreadOK /\ Selection!PickEnd => SpreadOK'
<1> SUFFICES ASSUME SpreadOK, Selection!PickEnd
             PROVE  Spread(case, "done", near, band, sector, ring, picked)
  BY DEF SpreadOK, Selection!PickEnd
<1>1. step = "pick" /\ sector = case.context.sector_count
  BY DEF Selection!PickEnd, Selection!Context
<1> QED
  BY <1>1 DEF SpreadOK, Spread

\* The property follows.
LEMMA SpreadFollows == SpreadOK => Selection!SelectionIsSpread
<1> SUFFICES ASSUME SpreadOK, step = "done", band # <<>>
             PROVE  Selection!SelectionIsSpread
  BY DEF Selection!SelectionIsSpread
<1> DEFINE g == SectorsOf(case)
           e == ElevationsOf(case)
           got == Range(picked)
           count == Selection!Context.sector_count
<1>1. /\ case \in Cases /\ near \subseteq DOMAIN case.poles /\ NoneExcluded(case, near)
      /\ sector = count
      /\ ChosenOf(case, near, band, sector, ring, picked)
  BY DEF SpreadOK, Spread, Selection!Context
<1>2. PICK bands \in Nat \ {0}, each \in Nat :
        /\ bands = case.context.sector_bands /\ each = case.context.sector_poles
        /\ each = Selection!Context.sector_poles
  BY <1>1, CaseTypes DEF Selection!Context
<1>3. Chosen(near, got, g, band, e, sector, ring, bands, each)
  BY <1>1, <1>2 DEF ChosenOf
<1>4. IsFiniteSet(near)
  <2>1. near \in SUBSET DOMAIN case.poles
    BY <1>1
  <2> QED
    BY <1>1, <2>1, CaseTypes, FS_Subset
<1>5. got \subseteq near /\ Selection!Range(picked) = got /\ count \in Nat
  BY <1>1, <1>3, SpreadViews DEF Chosen
<1>6. /\ \A p \in near : /\ Selection!SectorOf(p) = g[p]
                         /\ Selection!Pole(p).elevation = e[p] /\ e[p] \in Int
      /\ \A p \in near : g[p] \notin Selection!Excluded
  BY <1>1, CaseTypes, SpreadViews DEF NoneExcluded, ElevationsOf
<1>7. ASSUME NEW s \in 0..(count - 1), NEW taken, NEW rest,
             taken = Selection!InSector(s) \cap Selection!Range(picked),
             rest = Selection!InSector(s) \ taken
      PROVE  /\ s \in Selection!Excluded => taken = {}
             /\ s \notin Selection!Excluded =>
                  /\ Selection!Cardinality(taken) =
                       Selection!Min({Selection!Context.sector_poles,
                                      Selection!Cardinality(Selection!InSector(s))})
                  /\ \A p \in taken, q \in rest :
                       /\ band[p] = band[q] => Selection!Pole(p).elevation > Selection!Pole(q).elevation
                       /\ Selection!Cardinality(Selection!InRing(taken, p))
                            <= Selection!Cardinality(Selection!InRing(taken, q)) + 1
  <2> HIDE DEF g, e, got, count
  <2>1. Selection!InSector(s) = {p \in near : g[p] = s}
    BY <1>6 DEF Selection!InSector
  <2>2. /\ taken = PickedOf(got, g, s) /\ rest = LeftOf(near, got, g, s)
        /\ Selection!InSector(s) = taken \cup rest
        /\ Cardinality(Selection!InSector(s)) \in Nat
    <3>1. {p \in near : g[p] = s} \in SUBSET near
      OBVIOUS
    <3>2. Cardinality(Selection!InSector(s)) \in Nat
      BY <1>4, <2>1, <3>1, FS_Subset, FS_CardinalityType
    <3>3. taken = PickedOf(got, g, s) /\ rest = LeftOf(near, got, g, s)
      BY <1>5, <1>7, <2>1 DEF PickedOf, LeftOf
    <3> QED
      BY <1>7, <3>2, <3>3
  <2>3. s \in Nat /\ s < sector
    BY <1>1, <1>5
  <2>4. SectorSettled(taken, rest, band, e, each)
    BY <1>3, <2>2, <2>3 DEF Chosen
  <2>5. taken \subseteq near /\ rest \subseteq near /\ \A p \in taken : g[p] = s
    BY <2>1, <2>2 DEF PickedOf
  <2>6. s \in Selection!Excluded => taken = {}
    BY <1>6, <2>5
  <2>7. PICK n \in Nat : n = Cardinality(Selection!InSector(s))
    BY <2>2
  <2>8. Cardinality(taken) = (IF each <= n THEN each ELSE n)
    BY <2>2, <2>4, <2>7 DEF SectorSettled
  <2>9. Selection!Min({each, n}) = (IF each <= n THEN each ELSE n)
    BY OfTwo
  <2>10. Selection!Cardinality(taken) =
           Selection!Min({Selection!Context.sector_poles, Selection!Cardinality(Selection!InSector(s))})
    BY <1>2, <2>7, <2>8, <2>9, SizeInSelection
  <2>11. ASSUME NEW p \in taken, NEW q \in rest
         PROVE  /\ band[p] = band[q] => Selection!Pole(p).elevation > Selection!Pole(q).elevation
                /\ Selection!Cardinality(Selection!InRing(taken, p))
                     <= Selection!Cardinality(Selection!InRing(taken, q)) + 1
    <3>1. band[p] = band[q] => Selection!Pole(p).elevation > Selection!Pole(q).elevation
      BY <1>6, <2>4, <2>5 DEF SectorSettled, HigherIn
    <3>2. \A x : Selection!InRing(taken, x) = RingOf(taken, band, band[x])
      BY DEF Selection!InRing, RingOf
    <3>3. Cardinality(RingOf(taken, band, band[p])) <= Cardinality(RingOf(taken, band, band[q])) + 1
      BY <2>4 DEF SectorSettled, Balanced
    <3> QED
      BY <3>1, <3>2, <3>3, SizeInSelection
  <2> QED
    BY <2>6, <2>10, <2>11
<1> QED
  BY <1>5, <1>7, Zenon DEF Selection!SelectionIsSpread

\* The choice of poles is spread over the rings of every sector and takes detours for
\* want of better only, for any poles, centre and context of the planner
\* (pole_graph_async.py, _get_poles_by_sector_band, _adaptive_radius_filter and
\* _cone_angle_filter).
THEOREM PolesStayWellPicked ==
  Selection!Init /\ [][Selection!Next]_(Selection!vars) => []PolesAreWellPicked
<1>1. Selection!Init => SpreadOK /\ DetourOK
  BY SpreadInit, DetourInit
<1>2. SpreadOK /\ [Selection!Next]_(Selection!vars) => SpreadOK'
  <2>1. SpreadOK /\ UNCHANGED Selection!vars => SpreadOK'
    BY DEF SpreadOK, Selection!vars
  <2> QED
    BY <2>1, SpreadStart, SpreadSearch, SpreadCone, SpreadSectors, SpreadBands, SpreadPick, SpreadEnd
       DEF Selection!Next
<1>3. DetourOK /\ [Selection!Next]_(Selection!vars) => DetourOK'
  BY DetourSearch, DetourCone, DetourRest DEF Selection!Next
<1>4. SpreadOK /\ DetourOK => PolesAreWellPicked
  BY SpreadFollows, DetoursFollow DEF PolesAreWellPicked
<1> QED
  BY <1>1, <1>2, <1>3, <1>4, PTL

-----------------------------------------------------------------------------
(* The antenna gain *)

\* Sizes and finiteness are the same in the antenna.
LEMMA SizeInAntenna == \A S : Antenna!Cardinality(S) = Cardinality(S)
  BY Zenon DEF Cardinality, Antenna!Cardinality

LEMMA FiniteInAntenna == \A S : Antenna!IsFiniteSet(S) = IsFiniteSet(S)
  BY Zenon DEF IsFiniteSet, Antenna!IsFiniteSet

\* A sequence that lists the members of a set in increasing order.
Lists(v, n, S) ==
  /\ v \in [1..n -> S]
  /\ \A i, j \in DOMAIN v : i < j => v[i] < v[j]
  /\ \A x \in S : \E i \in DOMAIN v : v[i] = x

\* Sorted lists a finite set of integers: as many are below a member as come before it.
LEMMA SortedLists ==
  ASSUME NEW S, IsFiniteSet(S), S # {}, S \subseteq Int
  PROVE  /\ Cardinality(S) \in Nat \ {0}
         /\ Lists(Antenna!Sorted(S), Cardinality(S), S)
<1> DEFINE n == Cardinality(S)
           below(x) == {t \in S : t < x}
           place == [x \in S |-> Cardinality(below(x)) + 1]
           v == Antenna!Sorted(S)
<1>1. n \in Nat \ {0}
  BY FS_CardinalityType, FS_EmptySet
<1>2. ASSUME NEW x \in S
      PROVE  /\ IsFiniteSet(below(x)) /\ Cardinality(below(x)) \in Nat
             /\ Cardinality(below(x)) < n
  <2>1. below(x) \in SUBSET S /\ x \notin below(x)
    OBVIOUS
  <2> HIDE DEF below
  <2>2. IsFiniteSet(below(x)) /\ Cardinality(below(x)) <= n /\ Cardinality(below(x)) # n
    BY <2>1, FS_Subset
  <2>3. Cardinality(below(x)) \in Nat
    BY <2>2, FS_CardinalityType
  <2> QED
    BY <1>1, <2>2, <2>3
<1>3. ASSUME NEW x \in S, NEW y \in S, x < y
      PROVE  Cardinality(below(x)) < Cardinality(below(y))
  <2>1. below(x) \in SUBSET below(y) /\ below(x) # below(y)
    <3>1. x \in below(y) /\ x \notin below(x)
      BY <1>3
    <3>2. ASSUME NEW t \in below(x) PROVE t \in below(y)
      <4>1. t \in Int /\ x \in Int /\ y \in Int /\ t \in S /\ t < x
        OBVIOUS
      <4>2. t < y
        BY <1>3, <4>1
      <4> QED
        BY <4>1, <4>2
    <3> HIDE DEF below
    <3> QED
      BY <3>1, <3>2
  <2> HIDE DEF below
  <2>2. /\ Cardinality(below(x)) <= Cardinality(below(y))
        /\ Cardinality(below(x)) # Cardinality(below(y))
    BY <1>2, <2>1, FS_Subset
  <2> QED
    BY <1>2, <2>2
<1>4. place \in Injection(S, 1..n)
  <2> HIDE DEF below
  <2>1. place \in [S -> 1..n]
    <3>1. ASSUME NEW x \in S PROVE Cardinality(below(x)) + 1 \in 1..n
      BY <1>1, <1>2
    <3> QED
      BY <3>1
  <2>2. ASSUME NEW x \in S, NEW y \in S, place[x] = place[y] PROVE x = y
    <3>1. Cardinality(below(x)) = Cardinality(below(y))
      BY <1>2, <2>2
    <3>2. x \in Int /\ y \in Int
      OBVIOUS
    <3> QED
      BY <1>2, <1>3, <3>1, <3>2
  <2> HIDE DEF place
  <2> QED
    BY <2>1, <2>2 DEF Injection, IsInjective
<1>5. place \in Surjection(S, 1..n)
  <2>1. IsFiniteSet(1..n) /\ Cardinality(1..n) = n
    BY <1>1, FS_Interval
  <2> HIDE DEF place
  <2> QED
    BY <1>4, <2>1, FS_Injection
<1>6. v = [i \in 1..n |-> CHOOSE s \in S : Antenna!Cardinality(below(s)) = i - 1]
  BY SizeInAntenna DEF Antenna!Sorted
<1>7. ASSUME NEW i \in 1..n PROVE v[i] \in S /\ Cardinality(below(v[i])) = i - 1
  <2>1. PICK x \in S : place[x] = i
    <3> HIDE DEF place
    <3> QED
      BY <1>5 DEF Surjection
  <2>2. Cardinality(below(x)) = i - 1
    <3> HIDE DEF below
    <3> QED
      BY <1>1, <1>2, <2>1
  <2>3. v[i] = CHOOSE s \in S : Antenna!Cardinality(below(s)) = i - 1
    BY <1>6
  <2> HIDE DEF below, v
  <2>4. Antenna!Cardinality(below(x)) = i - 1
    BY <2>2, SizeInAntenna
  <2>5. v[i] \in S /\ Antenna!Cardinality(below(v[i])) = i - 1
    BY <2>3, <2>4
  <2> QED
    BY <2>5, SizeInAntenna
<1>8. Lists(v, n, S)
  <2> HIDE DEF below
  <2>1. v \in [1..n -> S]
    <3>1. v = [i \in 1..n |-> v[i]]
      BY <1>6
    <3> HIDE DEF v
    <3> QED
      BY <1>7, <3>1
  <2> HIDE DEF v
  <2>2. ASSUME NEW i \in 1..n, NEW j \in 1..n, i < j PROVE v[i] < v[j]
    <3>1. v[i] \in Int /\ v[j] \in Int /\ v[i] \in S /\ v[j] \in S
      BY <1>7
    <3>2. Cardinality(below(v[i])) < Cardinality(below(v[j]))
      BY <1>1, <1>7, <2>2
    <3>3. ~(v[j] < v[i]) /\ v[i] # v[j]
      BY <1>2, <1>3, <3>1, <3>2
    <3> QED
      BY <3>1, <3>3
  <2>3. ASSUME NEW x \in S PROVE \E i \in 1..n : v[i] = x
    <3>1. place[x] \in 1..n /\ place[x] = Cardinality(below(x)) + 1
      BY <1>1, <1>2
    <3>2. Cardinality(below(v[place[x]])) = Cardinality(below(x)) /\ v[place[x]] \in S
      BY <1>2, <1>7, <3>1
    <3> HIDE DEF place
    <3>3. v[place[x]] = x
      <4>1. v[place[x]] \in Int /\ x \in Int
        BY <3>2
      <4> QED
        BY <1>2, <1>3, <3>2, <4>1
    <3> QED
      BY <3>1, <3>3
  <2> QED
    BY <2>1, <2>2, <2>3 DEF Lists
<1> QED
  BY <1>1, <1>8

\* The first listed is the least and the last one the greatest.
LEMMA EndsOfList ==
  ASSUME NEW S, S \subseteq Int, NEW n \in Nat \ {0}, NEW v, Lists(v, n, S)
  PROVE  /\ DOMAIN v = 1..n /\ Len(v) = n /\ v \in Seq(S)
         /\ 1 \in DOMAIN v /\ n \in DOMAIN v /\ \A i \in DOMAIN v : v[i] \in S
         /\ \A x \in S : v[1] <= x /\ x <= v[n]
         /\ Antenna!Min(S) = v[1] /\ Antenna!Max(S) = v[n]
<1>1. DOMAIN v = 1..n /\ Len(v) = n /\ v \in Seq(S)
  BY DEF Lists
<1>2. 1 \in DOMAIN v /\ n \in DOMAIN v
  BY <1>1
<1>3. \A i \in DOMAIN v : v[i] \in S
  BY DEF Lists
<1>4. v[1] \in S /\ v[n] \in S
  BY <1>2, <1>3
<1>5. ASSUME NEW x \in S PROVE v[1] <= x /\ x <= v[n]
  <2>1. PICK i \in DOMAIN v : v[i] = x
    BY DEF Lists
  <2>2. v[1] \in Int /\ v[n] \in Int /\ v[i] \in Int
    BY <1>4, <2>1
  <2>3. i = 1 \/ 1 < i
    BY <1>1
  <2>4. i = n \/ i < n
    BY <1>1
  <2>5. 1 < i => v[1] < v[i]
    BY <1>2 DEF Lists
  <2>6. i < n => v[i] < v[n]
    BY <1>2 DEF Lists
  <2> QED
    BY <2>1, <2>2, <2>3, <2>4, <2>5, <2>6
<1>6. PICK least \in S : least = v[1]
  BY <1>4
<1>7. PICK greatest \in S : greatest = v[n]
  BY <1>4
<1>8. Antenna!Min(S) = least
  <2>1. \A x \in S : least <= x
    BY <1>5, <1>6
  <2>2. \A x \in S : (\A y \in S : x <= y) => x = least
    BY <2>1
  <2> QED
    BY <2>1, <2>2 DEF Antenna!Min
<1>9. Antenna!Max(S) = greatest
  <2>1. \A x \in S : greatest >= x
    BY <1>5, <1>7
  <2>2. \A x \in S : (\A y \in S : x >= y) => x = greatest
    BY <2>1
  <2> QED
    BY <2>1, <2>2 DEF Antenna!Max
<1> QED
  BY <1>1, <1>2, <1>3, <1>5, <1>6, <1>7, <1>8, <1>9

\* A value between the ends lies between two that are listed after each other.
LEMMA GapInList ==
  ASSUME NEW S, S \subseteq Int, NEW n \in Nat \ {0}, NEW v, Lists(v, n, S),
         NEW x \in Int, v[1] < x, x <= v[n]
  PROVE  \E i \in DOMAIN v :
           i < n /\ i + 1 \in DOMAIN v /\ v[i] < x /\ x <= v[i + 1]
<1> DEFINE T == {i \in DOMAIN v : x <= v[i]}
<1>1. /\ DOMAIN v = 1..n /\ 1 \in DOMAIN v /\ n \in DOMAIN v
      /\ \A i \in DOMAIN v : v[i] \in Int
  BY EndsOfList
<1>2. PICK j \in T : \A i \in T : j <= i
  <2>1. T \in SUBSET Nat
    BY <1>1
  <2>2. n \in T
    BY <1>1
  <2> HIDE DEF T
  <2> QED
    BY <2>1, <2>2, LeastNat
<1>3. j \in DOMAIN v /\ x <= v[j]
  OBVIOUS
<1>4. j # 1
  <2>1. v[1] \in Int
    BY <1>1
  <2> QED
    BY <1>3, <2>1
<1>5. PICK i \in DOMAIN v : i + 1 = j /\ i < n
  <2>1. j \in 1..n
    BY <1>1, <1>3
  <2>2. j - 1 \in 1..n /\ (j - 1) + 1 = j /\ j - 1 < n
    BY <1>4, <2>1
  <2> QED
    BY <1>1, <2>2
<1>6. i \notin T
  <2>1. i \in Int /\ j \in Int
    BY <1>1, <1>3
  <2>2. ~(j <= i)
    BY <1>5, <2>1
  <2> QED
    BY <1>2, <2>2
<1>7. v[i] < x
  <2>1. v[i] \in Int /\ ~(x <= v[i])
    BY <1>1, <1>6
  <2> QED
    BY <2>1
<1> QED
  BY <1>3, <1>5, <1>7

\* Nothing is listed between two that are listed after each other.
LEMMA NextInList ==
  ASSUME NEW S, S \subseteq Int, NEW n \in Nat \ {0}, NEW v, Lists(v, n, S),
         NEW i \in DOMAIN v, i < n
  PROVE  /\ i + 1 \in DOMAIN v /\ v[i] \in S /\ v[i + 1] \in S /\ v[i] < v[i + 1]
         /\ \A x \in S : x <= v[i] \/ v[i + 1] <= x
<1>1. DOMAIN v = 1..n /\ \A j \in DOMAIN v : v[j] \in S
  BY EndsOfList
<1>2. PICK next \in DOMAIN v : next = i + 1
  BY <1>1
<1>3. i \in Int /\ next \in Int /\ i < next
  BY <1>1, <1>2
<1>4. v[i] \in S /\ v[next] \in S /\ v[i] < v[next]
  BY <1>1, <1>3 DEF Lists
<1>5. ASSUME NEW x \in S PROVE x <= v[i] \/ v[next] <= x
  <2>1. PICK j \in DOMAIN v : v[j] = x
    BY DEF Lists
  <2>2. j < i \/ j = i \/ j = next \/ next < j
    BY <1>1, <1>2
  <2>3. v[j] \in Int /\ v[i] \in Int /\ v[next] \in Int
    BY <1>4, <2>1
  <2>4. (j < i => v[j] < v[i]) /\ (next < j => v[next] < v[j])
    BY DEF Lists
  <2> QED
    BY <2>1, <2>2, <2>3, <2>4
<1> QED
  BY <1>2, <1>4, <1>5

-----------------------------------------------------------------------------
\* The circle

\* The whole degrees of a circle.
LEMMA DegreesAre ==
  /\ IsFiniteSet(Antenna!Degrees)
  /\ \A a \in Antenna!Degrees : a \in Int /\ 0 <= a /\ a <= 359
  /\ \A a \in Int : 0 <= a /\ a <= 359 => a \in Antenna!Degrees
<1>1. IsFiniteSet(0..359)
  <2>1. PICK a \in Int, b \in Int : a = 0 /\ b = 359
    OBVIOUS
  <2>2. IsFiniteSet(a..b)
    BY FS_Interval
  <2> QED
    BY <2>1, <2>2
<1> QED
  BY <1>1 DEF Antenna!Degrees

\* How far it is from one to another, going clockwise.
LEMMA ClockwiseIs ==
  ASSUME NEW a \in Antenna!Degrees, NEW b \in Antenna!Degrees
  PROVE  /\ Antenna!Clockwise(a, b) = IF a <= b THEN b - a ELSE b - a + 360
         /\ Antenna!Clockwise(a, b) \in Int
         /\ 0 <= Antenna!Clockwise(a, b)
<1>1. a \in Int /\ b \in Int /\ 0 <= a /\ a <= 359 /\ 0 <= b /\ b <= 359
  BY DegreesAre
<1> QED
  BY <1>1 DEF Antenna!Clockwise

\* The samples beside an angle are the ones next to it.
LEMMA BesideIs ==
  ASSUME NEW S, S \subseteq Antenna!Degrees, NEW angle \in Antenna!Degrees, NEW s \in S
  PROVE  /\ (\A t \in S : Antenna!Clockwise(s, angle) <= Antenna!Clockwise(t, angle))
              => Antenna!Before(S, angle) = s
         /\ (\A t \in S : Antenna!Clockwise(angle, s) <= Antenna!Clockwise(angle, t))
              => Antenna!After(S, angle) = s
<1>1. angle \in Int
  BY DegreesAre
<1>2. \A t \in S : /\ Antenna!Clockwise(t, angle) = (IF t <= angle THEN angle - t ELSE angle - t + 360)
                   /\ Antenna!Clockwise(angle, t) = (IF angle <= t THEN t - angle ELSE t - angle + 360)
                   /\ t \in Int /\ 0 <= t /\ t <= 359
  <2> SUFFICES ASSUME NEW t \in S
               PROVE  /\ Antenna!Clockwise(t, angle) = (IF t <= angle THEN angle - t ELSE angle - t + 360)
                      /\ Antenna!Clockwise(angle, t) = (IF angle <= t THEN t - angle ELSE t - angle + 360)
                      /\ t \in Int /\ 0 <= t /\ t <= 359
    OBVIOUS
  <2>1. t \in Antenna!Degrees
    OBVIOUS
  <2>2. Antenna!Clockwise(t, angle) = (IF t <= angle THEN angle - t ELSE angle - t + 360)
    BY <2>1, ClockwiseIs
  <2>3. Antenna!Clockwise(angle, t) = (IF angle <= t THEN t - angle ELSE t - angle + 360)
    BY <2>1, ClockwiseIs
  <2> QED
    BY <2>1, <2>2, <2>3, DegreesAre
<1>3. ASSUME \A t \in S : Antenna!Clockwise(s, angle) <= Antenna!Clockwise(t, angle)
      PROVE  Antenna!Before(S, angle) = s
  <2>1. \A u \in S : (\A t \in S : Antenna!Clockwise(u, angle) <= Antenna!Clockwise(t, angle)) => u = s
    <3> SUFFICES ASSUME NEW u \in S, \A t \in S : Antenna!Clockwise(u, angle) <= Antenna!Clockwise(t, angle)
                 PROVE  u = s
      OBVIOUS
    <3>1. Antenna!Clockwise(u, angle) <= Antenna!Clockwise(s, angle)
      OBVIOUS
    <3>2. Antenna!Clockwise(s, angle) <= Antenna!Clockwise(u, angle)
      BY <1>3
    <3> QED
      BY <1>1, <1>2, <3>1, <3>2
  <2> QED
    BY <1>3, <2>1 DEF Antenna!Before
<1>4. ASSUME \A t \in S : Antenna!Clockwise(angle, s) <= Antenna!Clockwise(angle, t)
      PROVE  Antenna!After(S, angle) = s
  <2>1. \A u \in S : (\A t \in S : Antenna!Clockwise(angle, u) <= Antenna!Clockwise(angle, t)) => u = s
    <3> SUFFICES ASSUME NEW u \in S, \A t \in S : Antenna!Clockwise(angle, u) <= Antenna!Clockwise(angle, t)
                 PROVE  u = s
      OBVIOUS
    <3>1. Antenna!Clockwise(angle, u) <= Antenna!Clockwise(angle, s)
      OBVIOUS
    <3>2. Antenna!Clockwise(angle, s) <= Antenna!Clockwise(angle, u)
      BY <1>4
    <3> QED
      BY <1>1, <1>2, <3>1, <3>2
  <2> QED
    BY <1>4, <2>1 DEF Antenna!After
<1> QED
  BY <1>3, <1>4

\* What a bracket on the circle has to be: the samples beside the angle, and its
\* share of the way between them.
Bracketed(S, angle, l, r, part, span) ==
  /\ l = Antenna!Before(S, angle) /\ r = Antenna!After(S, angle)
  /\ IF l = r THEN part = 0 /\ span = 1
     ELSE part = Antenna!Clockwise(l, angle) /\ span = Antenna!Clockwise(l, r)

\* Two samples that follow each other hold an angle between them, going clockwise.
LEMMA InnerGap ==
  ASSUME NEW S, S \subseteq Antenna!Degrees, NEW angle \in Antenna!Degrees,
         NEW l \in S, NEW r \in S, l < angle, angle < r, \A x \in S : x <= l \/ r <= x
  PROVE  /\ l = Antenna!Before(S, angle) /\ r = Antenna!After(S, angle)
         /\ Antenna!Clockwise(l, angle) = angle - l /\ Antenna!Clockwise(l, r) = r - l
<1>1. \A t \in S : /\ Antenna!Clockwise(t, angle) = (IF t <= angle THEN angle - t ELSE angle - t + 360)
                   /\ Antenna!Clockwise(angle, t) = (IF angle <= t THEN t - angle ELSE t - angle + 360)
                   /\ Antenna!Clockwise(l, t) = (IF l <= t THEN t - l ELSE t - l + 360)
                   /\ t \in Int /\ 0 <= t /\ t <= 359
  <2>1. l \in Antenna!Degrees /\ \A t \in S : t \in Antenna!Degrees
    OBVIOUS
  <2>2. \A t \in S : Antenna!Clockwise(l, t) = (IF l <= t THEN t - l ELSE t - l + 360)
    BY <2>1, ClockwiseIs
  <2>3. \A t \in S : /\ Antenna!Clockwise(t, angle) = (IF t <= angle THEN angle - t ELSE angle - t + 360)
                     /\ Antenna!Clockwise(angle, t) = (IF angle <= t THEN t - angle ELSE t - angle + 360)
    BY <2>1, ClockwiseIs
  <2>4. \A t \in S : t \in Int /\ 0 <= t /\ t <= 359
    BY <2>1, DegreesAre
  <2> QED
    BY <2>2, <2>3, <2>4
<1>2. angle \in Int
  BY DegreesAre
<1>3. \A t \in S : /\ Antenna!Clockwise(l, angle) <= Antenna!Clockwise(t, angle)
                   /\ Antenna!Clockwise(angle, r) <= Antenna!Clockwise(angle, t)
  BY <1>1, <1>2
<1>4. l = Antenna!Before(S, angle) /\ r = Antenna!After(S, angle)
  BY <1>3, BesideIs
<1> QED
  BY <1>1, <1>2, <1>4

\* and the last and the first one an angle beyond them.
LEMMA OuterGap ==
  ASSUME NEW S, S \subseteq Antenna!Degrees, NEW angle \in Antenna!Degrees,
         NEW l \in S, NEW r \in S, r < l, angle < r \/ l < angle, \A x \in S : r <= x /\ x <= l
  PROVE  /\ l = Antenna!Before(S, angle) /\ r = Antenna!After(S, angle)
         /\ Antenna!Clockwise(l, angle) = (IF l < angle THEN angle ELSE angle + 360) - l
         /\ Antenna!Clockwise(l, r) = r + 360 - l
<1>1. \A t \in S : /\ Antenna!Clockwise(t, angle) = (IF t <= angle THEN angle - t ELSE angle - t + 360)
                   /\ Antenna!Clockwise(angle, t) = (IF angle <= t THEN t - angle ELSE t - angle + 360)
                   /\ Antenna!Clockwise(l, t) = (IF l <= t THEN t - l ELSE t - l + 360)
                   /\ t \in Int /\ 0 <= t /\ t <= 359
  <2>1. l \in Antenna!Degrees /\ \A t \in S : t \in Antenna!Degrees
    OBVIOUS
  <2>2. \A t \in S : Antenna!Clockwise(l, t) = (IF l <= t THEN t - l ELSE t - l + 360)
    BY <2>1, ClockwiseIs
  <2>3. \A t \in S : /\ Antenna!Clockwise(t, angle) = (IF t <= angle THEN angle - t ELSE angle - t + 360)
                     /\ Antenna!Clockwise(angle, t) = (IF angle <= t THEN t - angle ELSE t - angle + 360)
    BY <2>1, ClockwiseIs
  <2>4. \A t \in S : t \in Int /\ 0 <= t /\ t <= 359
    BY <2>1, DegreesAre
  <2> QED
    BY <2>2, <2>3, <2>4
<1>2. angle \in Int
  BY DegreesAre
<1>3. \A t \in S : /\ Antenna!Clockwise(l, angle) <= Antenna!Clockwise(t, angle)
                   /\ Antenna!Clockwise(angle, r) <= Antenna!Clockwise(angle, t)
  BY <1>1, <1>2
<1>4. l = Antenna!Before(S, angle) /\ r = Antenna!After(S, angle)
  BY <1>3, BesideIs
<1> QED
  BY <1>1, <1>2, <1>4

\* The samples of a table around an angle are those next to it on the circle.
LEMMA CircleBracket ==
  ASSUME NEW S, S \subseteq Antenna!Degrees, S # {}, NEW angle \in Antenna!Degrees
  PROVE  \E l \in S, r \in S, part \in Int, span \in Int :
           /\ Antenna!CircularBracket(S, angle) = <<l, r, part, span>>
           /\ Bracketed(S, angle, l, r, part, span)
<1> DEFINE v == Antenna!Sorted(S)
           extended == Append(v, v[1] + 360)
           from(i) == IF angle < extended[i] THEN angle + 360 ELSE angle
           fits == {j \in DOMAIN v : extended[j] <= from(j) /\ from(j) <= extended[j + 1]}
           bracket == Antenna!CircularBracket(S, angle)
           i == Antenna!Min(fits)
<1>1. IsFiniteSet(S) /\ S \subseteq Int
  BY DegreesAre, FS_Subset
<1>2. PICK n \in Nat \ {0} : Lists(v, n, S)
  BY <1>1, SortedLists
<1>3. /\ DOMAIN v = 1..n /\ Len(v) = n /\ v \in Seq(S)
      /\ 1 \in DOMAIN v /\ n \in DOMAIN v /\ \A j \in DOMAIN v : v[j] \in S
      /\ \A x \in S : v[1] <= x /\ x <= v[n]
  BY <1>1, <1>2, EndsOfList
<1>4. bracket = IF Len(v) = 1 THEN <<v[1], v[1], 0, 1>>
                ELSE IF angle \in S THEN <<angle, angle, 0, 1>>
                ELSE <<Antenna!Wrap(extended[i]), Antenna!Wrap(extended[i + 1]),
                       from(i) - extended[i], extended[i + 1] - extended[i]>>
  BY DEF Antenna!CircularBracket
<1> HIDE DEF bracket
<1>5. PICK first \in S, last \in S : first = v[1] /\ last = v[n]
  BY <1>3
<1>6. \A x \in S : x \in Int /\ 0 <= x /\ x <= 359 /\ first <= x /\ x <= last
  BY <1>3, <1>5, DegreesAre
<1>7. angle \in Int /\ 0 <= angle /\ angle <= 359
  BY DegreesAre
<1>8. CASE n = 1
  <2>1. \A t \in S : t = first
    BY <1>5, <1>6, <1>8
  <2>2. \A t \in S : Antenna!Clockwise(t, angle) \in Int /\ Antenna!Clockwise(angle, t) \in Int
    BY ClockwiseIs
  <2>3. \A t \in S : /\ Antenna!Clockwise(first, angle) <= Antenna!Clockwise(t, angle)
                     /\ Antenna!Clockwise(angle, first) <= Antenna!Clockwise(angle, t)
    BY <2>1, <2>2
  <2>4. first = Antenna!Before(S, angle) /\ first = Antenna!After(S, angle)
    BY <2>3, BesideIs
  <2>5. bracket = <<first, first, 0, 1>>
    BY <1>3, <1>4, <1>5, <1>8
  <2> HIDE DEF v, extended, from, fits, i
  <2> QED
    BY <2>4, <2>5 DEF Bracketed, bracket
<1>9. CASE n # 1 /\ angle \in S
  <2>1. bracket = <<angle, angle, 0, 1>>
    BY <1>3, <1>4, <1>9
  <2>2. Antenna!Clockwise(angle, angle) = 0
    BY <1>7, ClockwiseIs
  <2>3. \A t \in S : /\ Antenna!Clockwise(angle, angle) <= Antenna!Clockwise(t, angle)
                     /\ Antenna!Clockwise(angle, angle) <= Antenna!Clockwise(angle, t)
    BY <2>2, ClockwiseIs
  <2>4. angle = Antenna!Before(S, angle) /\ angle = Antenna!After(S, angle)
    BY <1>9, <2>3, BesideIs
  <2> HIDE DEF v, extended, from, fits, i
  <2> QED
    BY <1>9, <2>1, <2>4 DEF Bracketed, bracket
<1>10. CASE n # 1 /\ angle \notin S
  <2>1. /\ \A j \in DOMAIN v : extended[j] = v[j]
        /\ extended[n + 1] = first + 360
    <3> HIDE DEF v
    <3> QED
      BY <1>3, <1>5
  <2>2. first < last
    <3>1. 1 < n
      BY <1>10
    <3> HIDE DEF v
    <3> QED
      BY <1>2, <1>3, <1>5, <3>1 DEF Lists
  <2> HIDE DEF extended, v
  <2>3. ASSUME NEW j \in fits
        PROVE  \E l \in S, r \in S :
                 /\ l # r
                 /\ l = Antenna!Before(S, angle) /\ r = Antenna!After(S, angle)
                 /\ Antenna!Wrap(extended[j]) = l /\ Antenna!Wrap(extended[j + 1]) = r
                 /\ from(j) - extended[j] = Antenna!Clockwise(l, angle)
                 /\ extended[j + 1] - extended[j] = Antenna!Clockwise(l, r)
    <3>1. j \in DOMAIN v /\ extended[j] <= from(j) /\ from(j) <= extended[j + 1]
      OBVIOUS
    <3>2. PICK l \in S : l = v[j] /\ l = extended[j]
      BY <1>3, <2>1, <3>1
    <3>3. l # angle /\ l \in Int /\ 0 <= l /\ l <= 359
      BY <1>6, <1>10
    <3>4. Antenna!Wrap(l) = l
      BY <3>3 DEF Antenna!Wrap
    <3>5. CASE j = n
      <4>1. l = last /\ extended[j + 1] = first + 360
        BY <1>5, <2>1, <3>2, <3>5
      <4>2. first # angle /\ first \in Int /\ 0 <= first /\ first <= 359
        BY <1>6, <1>10
      <4>3. /\ angle < first \/ last < angle
            /\ from(j) = IF l < angle THEN angle ELSE angle + 360
        BY <1>7, <2>2, <3>1, <3>2, <3>3, <4>1, <4>2
      <4>4. /\ l = Antenna!Before(S, angle) /\ first = Antenna!After(S, angle)
            /\ Antenna!Clockwise(l, angle) = (IF l < angle THEN angle ELSE angle + 360) - l
            /\ Antenna!Clockwise(l, first) = first + 360 - l
        BY <1>6, <2>2, <4>1, <4>3, OuterGap
      <4>5. Antenna!Wrap(first + 360) = first
        BY <4>2 DEF Antenna!Wrap
      <4> HIDE DEF from
      <4>6. from(j) - extended[j] = Antenna!Clockwise(l, angle)
        <5>1. from(j) - l = (IF l < angle THEN angle ELSE angle + 360) - l
          BY <4>3
        <5> QED
          BY <3>2, <4>4, <5>1
      <4>7. extended[j + 1] - extended[j] = Antenna!Clockwise(l, first)
        <5>1. Antenna!Clockwise(l, first) = first + 360 - l
          BY <4>4
        <5>2. extended[j] = l /\ extended[j + 1] = first + 360
          BY <3>2, <4>1
        <5> QED
          BY <3>3, <4>2, <5>1, <5>2
      <4>8. l # first
        BY <2>2, <3>3, <4>1, <4>2
      <4> QED
        BY <3>2, <3>4, <4>1, <4>4, <4>5, <4>6, <4>7, <4>8
    <3>6. CASE j # n
      <4>1. j < n
        BY <1>3, <3>1, <3>6
      <4>2. /\ j + 1 \in DOMAIN v /\ v[j + 1] \in S /\ v[j] < v[j + 1]
            /\ \A x \in S : x <= v[j] \/ v[j + 1] <= x
        BY <1>1, <1>2, <3>1, <4>1, NextInList
      <4>3. PICK r \in S : r = v[j + 1] /\ r = extended[j + 1]
        BY <2>1, <4>2
      <4>4. r # angle /\ r \in Int /\ 0 <= r /\ r <= 359
        BY <1>6, <1>10
      <4>5. Antenna!Wrap(r) = r
        BY <4>4 DEF Antenna!Wrap
      <4>6. l < angle /\ angle < r /\ from(j) = angle
        BY <1>7, <3>1, <3>2, <3>3, <4>3, <4>4
      <4>7. \A x \in S : x <= l \/ r <= x
        BY <3>2, <4>2, <4>3
      <4>8. /\ l = Antenna!Before(S, angle) /\ r = Antenna!After(S, angle)
            /\ Antenna!Clockwise(l, angle) = angle - l /\ Antenna!Clockwise(l, r) = r - l
        BY <4>6, <4>7, InnerGap
      <4>9. l # r
        BY <3>3, <4>4, <4>6, <1>7
      <4> HIDE DEF from
      <4> QED
        BY <3>2, <3>4, <4>3, <4>5, <4>6, <4>8, <4>9
    <3> QED
      BY <3>5, <3>6
  <2>4. fits # {}
    <3>1. CASE angle < first \/ last < angle
      <4>1. extended[n] = last /\ extended[n + 1] = first + 360
        BY <1>3, <1>5, <2>1
      <4>2. first \in Int /\ last \in Int /\ 0 <= first
        BY <1>6
      <4>3. extended[n] <= from(n) /\ from(n) <= extended[n + 1]
        BY <1>6, <1>7, <2>2, <3>1, <4>1, <4>2
      <4> HIDE DEF from
      <4> QED
        BY <1>3, <4>3
    <3>2. CASE ~(angle < first \/ last < angle)
      <4>1. v[1] < angle /\ angle <= v[n]
        BY <1>5, <1>6, <1>7, <1>10, <3>2
      <4>2. PICK j \in DOMAIN v : j < n /\ j + 1 \in DOMAIN v /\ v[j] < angle /\ angle <= v[j + 1]
        BY <1>1, <1>2, <1>7, <4>1, GapInList
      <4>3. extended[j] = v[j] /\ extended[j + 1] = v[j + 1] /\ v[j] \in Int
        BY <1>3, <1>6, <2>1, <4>2
      <4>4. from(j) = angle
        BY <1>7, <4>2, <4>3
      <4>5. extended[j] <= from(j) /\ from(j) <= extended[j + 1]
        BY <1>7, <4>2, <4>3, <4>4
      <4> HIDE DEF from
      <4> QED
        BY <4>2, <4>5
    <3> QED
      BY <3>1, <3>2
  <2>5. i \in fits
    <3>1. fits \in SUBSET Nat
      BY <1>3
    <3> HIDE DEF fits
    <3>2. \E x \in fits : \A y \in fits : x <= y
      BY <2>4, <3>1, LeastNat
    <3> QED
      BY <3>2 DEF Antenna!Min
  <2>6. bracket = <<Antenna!Wrap(extended[i]), Antenna!Wrap(extended[i + 1]),
                    from(i) - extended[i], extended[i + 1] - extended[i]>>
    <3> HIDE DEF i, fits, from
    <3> QED
      BY <1>3, <1>4, <1>10
  <2> HIDE DEF i, fits, from
  <2>7. PICK l \in S, r \in S :
          /\ l # r
          /\ l = Antenna!Before(S, angle) /\ r = Antenna!After(S, angle)
          /\ Antenna!Wrap(extended[i]) = l /\ Antenna!Wrap(extended[i + 1]) = r
          /\ from(i) - extended[i] = Antenna!Clockwise(l, angle)
          /\ extended[i + 1] - extended[i] = Antenna!Clockwise(l, r)
    BY <2>3, <2>5
  <2>8. bracket = <<l, r, Antenna!Clockwise(l, angle), Antenna!Clockwise(l, r)>>
    BY <2>6, <2>7
  <2>9. Antenna!Clockwise(l, angle) \in Int /\ Antenna!Clockwise(l, r) \in Int
    BY ClockwiseIs
  <2> QED
    BY <2>7, <2>8, <2>9 DEF Bracketed, bracket
<1> QED
  BY <1>8, <1>9, <1>10

-----------------------------------------------------------------------------
\* The line

\* The least and the greatest of a set.
LEMMA LeastIs ==
  ASSUME NEW T, T \subseteq Int, NEW m \in T
  PROVE  /\ (\A x \in T : m <= x) => Antenna!Min(T) = m
         /\ (\A x \in T : x <= m) => Antenna!Max(T) = m
<1>1. ASSUME \A x \in T : m <= x PROVE Antenna!Min(T) = m
  <2>1. \A x \in T : (\A y \in T : x <= y) => x = m
    BY <1>1
  <2> QED
    BY <1>1, <2>1 DEF Antenna!Min
<1>2. ASSUME \A x \in T : x <= m PROVE Antenna!Max(T) = m
  <2>1. \A x \in T : m >= x
    BY <1>2
  <2>2. \A x \in T : (\A y \in T : x >= y) => x = m
    BY <1>2
  <2> QED
    BY <2>1, <2>2 DEF Antenna!Max
<1> QED
  BY <1>1, <1>2

\* What a bracket on the line has to be: the sample at the value, or the samples
\* below and above it with the share of the way, or the whole way to one it is at.
Spanned(S, value, lo, hi, part, span) ==
  LET low  == Antenna!Max({e \in S : e <= value})
      high == Antenna!Min({e \in S : e >= value})
  IN \/ lo = low /\ hi = low /\ low = high /\ part = 0 /\ span = 1
     \/ lo = low /\ hi = high /\ low # high /\ part = value - low /\ span = high - low
     \/ hi = low /\ low = high /\ part = span

LEMMA AtSample ==
  ASSUME NEW S, S \subseteq Int, NEW s \in S
  PROVE  Antenna!Max({e \in S : e <= s}) = s /\ Antenna!Min({e \in S : e >= s}) = s
<1> DEFINE down == {e \in S : e <= s}
           up == {e \in S : e >= s}
<1>1. s \in down /\ down \subseteq Int /\ \A x \in down : x <= s
  <2>1. s \in Int /\ s <= s
    OBVIOUS
  <2> QED
    BY <2>1
<1>2. s \in up /\ up \subseteq Int /\ \A x \in up : s <= x
  <2>1. s \in Int /\ s >= s
    OBVIOUS
  <2>2. \A x \in up : x \in S /\ x >= s
    OBVIOUS
  <2>3. \A x \in up : x \in Int /\ s <= x
    BY <2>1, <2>2
  <2> QED
    BY <2>1, <2>3
<1> HIDE DEF down, up
<1>3. Antenna!Max(down) = s /\ Antenna!Min(up) = s
  BY <1>1, <1>2, LeastIs
<1> QED
  BY <1>3 DEF down, up

\* A value is clamped to the samples.
LEMMA Clamped ==
  ASSUME NEW S, S \subseteq Int, NEW first \in S, NEW last \in S,
         \A x \in S : first <= x /\ x <= last, NEW value \in Int
  PROVE  /\ value <= first => Antenna!Clamp(S, value) = first
         /\ ~(value <= first) /\ value >= last => Antenna!Clamp(S, value) = last
         /\ ~(value <= first) /\ ~(value >= last) => Antenna!Clamp(S, value) = value
<1>1. Antenna!Min(S) = first /\ Antenna!Max(S) = last
  BY LeastIs
<1>2. first \in Int /\ last \in Int /\ first <= last
  OBVIOUS
<1>3. \A a, b \in Int : a <= b => Antenna!Min({a, b}) = a /\ Antenna!Max({a, b}) = b
  <2> SUFFICES ASSUME NEW a \in Int, NEW b \in Int, a <= b
               PROVE  Antenna!Min({a, b}) = a /\ Antenna!Max({a, b}) = b
    OBVIOUS
  <2>1. /\ {a, b} \subseteq Int /\ a \in {a, b} /\ b \in {a, b}
        /\ \A x \in {a, b} : a <= x /\ x <= b
    OBVIOUS
  <2> QED
    BY <2>1, LeastIs
<1>4. \A a, b : {a, b} = {b, a}
  OBVIOUS
<1>5. PICK up \in Int : up = (IF value <= first THEN first ELSE value)
  BY <1>2
<1>6. Antenna!Max({value, first}) = up
  BY <1>2, <1>3, <1>4, <1>5
<1>7. Antenna!Min({up, last}) = IF up <= last THEN up ELSE last
  BY <1>2, <1>3, <1>4
<1>8. Antenna!Clamp(S, value) = Antenna!Min({up, last})
  BY <1>1, <1>6 DEF Antenna!Clamp
<1> QED
  BY <1>2, <1>5, <1>7, <1>8

\* The samples at, or below and above, a value are those of the bracket.
LEMMA LineBracket ==
  ASSUME NEW S, S \subseteq Int, IsFiniteSet(S), S # {}, NEW value \in Int
  PROVE  \E lo \in S, hi \in S, part \in Int, span \in Int :
           /\ Antenna!LinearBracket(S, value) = <<lo, hi, part, span>>
           /\ Spanned(S, Antenna!Clamp(S, value), lo, hi, part, span)
<1> DEFINE v == Antenna!Sorted(S)
           fits == {j \in 1..(Len(v) - 1) : v[j] <= value /\ value <= v[j + 1]}
           bracket == Antenna!LinearBracket(S, value)
           clamped == Antenna!Clamp(S, value)
           i == Antenna!Min(fits)
<1>1. PICK n \in Nat \ {0} : Lists(v, n, S)
  BY SortedLists
<1>2. /\ DOMAIN v = 1..n /\ Len(v) = n
      /\ 1 \in DOMAIN v /\ n \in DOMAIN v /\ \A j \in DOMAIN v : v[j] \in S
      /\ \A x \in S : v[1] <= x /\ x <= v[n]
  BY <1>1, EndsOfList
<1>3. bracket = IF Len(v) = 1 \/ value <= v[1] THEN <<v[1], v[1], 0, 1>>
                ELSE IF value >= v[Len(v)] THEN <<v[Len(v)], v[Len(v)], 0, 1>>
                ELSE <<v[i], v[i + 1], value - v[i], v[i + 1] - v[i]>>
  BY DEF Antenna!LinearBracket
<1> HIDE DEF bracket, i
<1>4. PICK first \in S, last \in S : first = v[1] /\ last = v[n]
  BY <1>2
<1>5. \A x \in S : x \in Int /\ first <= x /\ x <= last
  BY <1>2, <1>4
<1>6. clamped = IF value <= first THEN first ELSE IF value >= last THEN last ELSE value
  <2>1. \A x \in S : first <= x /\ x <= last
    BY <1>5
  <2> HIDE DEF v, fits, clamped
  <2>2. /\ value <= first => Antenna!Clamp(S, value) = first
        /\ ~(value <= first) /\ value >= last => Antenna!Clamp(S, value) = last
        /\ ~(value <= first) /\ ~(value >= last) => Antenna!Clamp(S, value) = value
    BY <2>1, Clamped
  <2>3. clamped = Antenna!Clamp(S, value)
    BY DEF clamped
  <2> QED
    BY <2>2, <2>3
<1> HIDE DEF clamped
<1>7. ASSUME NEW s \in S, clamped = s, bracket = <<s, s, 0, 1>>
      PROVE  \E lo \in S, hi \in S, part \in Int, span \in Int :
               bracket = <<lo, hi, part, span>> /\ Spanned(S, clamped, lo, hi, part, span)
  <2>1. Antenna!Max({e \in S : e <= s}) = s /\ Antenna!Min({e \in S : e >= s}) = s
    BY AtSample
  <2>2. Spanned(S, s, s, s, 0, 1)
    BY <2>1 DEF Spanned
  <2> QED
    BY <1>7, <2>2
<1>8. CASE n = 1 \/ value <= first
  <2>1. bracket = <<first, first, 0, 1>>
    BY <1>2, <1>3, <1>4, <1>8
  <2>2. n = 1 => first = last
    BY <1>4
  <2>3. clamped = first
    BY <1>5, <1>6, <1>8, <2>2
  <2> QED
    BY <1>7, <2>1, <2>3 DEF bracket, clamped
<1>9. CASE ~(n = 1 \/ value <= first) /\ value >= last
  <2>1. bracket = <<last, last, 0, 1>>
    BY <1>2, <1>3, <1>4, <1>9
  <2>2. clamped = last
    BY <1>6, <1>9
  <2> QED
    BY <1>7, <2>1, <2>2 DEF bracket, clamped
<1>10. CASE ~(n = 1 \/ value <= first) /\ ~(value >= last)
  <2>1. bracket = <<v[i], v[i + 1], value - v[i], v[i + 1] - v[i]>> /\ clamped = value
    BY <1>2, <1>3, <1>4, <1>6, <1>10
  <2>2. first < value /\ value < last
    BY <1>5, <1>10
  <2>3. fits = {j \in 1..(n - 1) : v[j] <= value /\ value <= v[j + 1]} /\ fits \subseteq Nat
    BY <1>2
  <2>4. PICK g \in DOMAIN v : g < n /\ g + 1 \in DOMAIN v /\ v[g] < value /\ value <= v[g + 1]
    <3>1. v[1] < value /\ value <= v[n]
      <4>1. last \in Int
        BY <1>5
      <4>2. value <= last
        BY <2>2, <4>1
      <4> QED
        BY <1>4, <2>2, <4>2
    <3> HIDE DEF v
    <3> QED
      BY <1>1, <3>1, GapInList
  <2>5. g \in fits
    <3>1. g \in 1..(n - 1)
      BY <1>2, <2>4
    <3>2. v[g] \in Int
      BY <1>2, <1>5
    <3> QED
      BY <2>3, <2>4, <3>1, <3>2
  <2>6. i \in fits /\ \A j \in fits : i <= j
    <3> HIDE DEF fits
    <3>1. \E x \in fits : \A y \in fits : x <= y
      BY <2>3, <2>5, LeastNat
    <3> QED
      BY <3>1 DEF Antenna!Min, i
  <2>7. i \in DOMAIN v /\ i < n /\ i \in Nat
    BY <1>2, <2>3, <2>6
  <2>8. /\ i + 1 \in DOMAIN v /\ v[i] \in S /\ v[i + 1] \in S /\ v[i] < v[i + 1]
        /\ \A x \in S : x <= v[i] \/ v[i + 1] <= x
    BY <1>1, <2>7, NextInList
  <2>9. PICK lo \in S, hi \in S : lo = v[i] /\ hi = v[i + 1]
    BY <2>8
  <2>10. /\ lo \in Int /\ hi \in Int /\ lo < hi /\ lo <= value /\ value <= hi
         /\ \A x \in S : x \in Int /\ (x <= lo \/ hi <= x)
    BY <1>5, <2>6, <2>8, <2>9
  <2>11. lo # value
    <3> SUFFICES ASSUME lo = value PROVE FALSE
      OBVIOUS
    <3>1. i # 1
      BY <1>4, <1>5, <2>2, <2>9
    <3>2. PICK j \in DOMAIN v : j + 1 = i /\ j < n
      <4>1. i \in 1..n
        BY <1>2, <2>7
      <4>2. i - 1 \in 1..n /\ (i - 1) + 1 = i /\ i - 1 < n
        BY <3>1, <4>1
      <4> QED
        BY <1>2, <4>2
    <3>3. v[j] < v[j + 1] /\ v[j] \in Int
      BY <1>1, <1>2, <1>5, <3>2, NextInList
    <3>4. v[j] <= value /\ value <= v[j + 1]
      BY <2>9, <2>10, <3>2, <3>3
    <3>5. j \in fits
      <4>1. j \in 1..(n - 1)
        BY <1>2, <3>2
      <4> QED
        BY <2>3, <3>4, <4>1
    <3>6. i <= j /\ j \in Int /\ i \in Int
      BY <1>2, <2>6, <2>7, <3>5
    <3> QED
      BY <3>2, <3>6
  <2>12. CASE value = hi
    <3>1. Antenna!Max({e \in S : e <= clamped}) = hi /\ Antenna!Min({e \in S : e >= clamped}) = hi
      BY <2>1, <2>12, AtSample
    <3>2. bracket = <<lo, hi, hi - lo, hi - lo>> /\ hi - lo \in Int
      BY <2>1, <2>9, <2>10, <2>12
    <3>3. Spanned(S, clamped, lo, hi, hi - lo, hi - lo)
      BY <3>1 DEF Spanned
    <3> QED
      BY <3>2, <3>3 DEF bracket, clamped
  <2>13. CASE value # hi
    <3> DEFINE down == {e \in S : e <= value}
               up == {e \in S : e >= value}
    <3>1. \A x \in S : x \in Int /\ (x <= value => x <= lo) /\ (x >= value => hi <= x)
      BY <2>10, <2>11, <2>13
    <3>2. lo \in down /\ down \subseteq Int /\ \A x \in down : x <= lo
      <4>1. \A x \in down : x \in Int /\ x <= lo
        BY <3>1
      <4> QED
        BY <2>10, <4>1
    <3>3. hi \in up /\ up \subseteq Int /\ \A x \in up : hi <= x
      <4>1. \A x \in up : x \in Int /\ hi <= x
        BY <3>1
      <4>2. hi >= value
        BY <2>10
      <4> QED
        BY <4>1, <4>2
    <3>4. Antenna!Max(down) = lo /\ Antenna!Min(up) = hi
      <4> HIDE DEF down, up
      <4> QED
        BY <3>2, <3>3, LeastIs
    <3>5. bracket = <<lo, hi, value - lo, hi - lo>> /\ value - lo \in Int /\ hi - lo \in Int /\ lo # hi
      BY <2>1, <2>9, <2>10
    <3>6. Spanned(S, clamped, lo, hi, value - lo, hi - lo)
      <4>1. clamped = value
        BY <2>1
      <4> QED
        BY <3>4, <3>5, <4>1 DEF Spanned
    <3> QED
      BY <3>5, <3>6 DEF bracket, clamped
  <2> QED
    BY <2>12, <2>13
<1> QED
  BY <1>8, <1>9, <1>10

-----------------------------------------------------------------------------
\* The plane

\* The interpolation of the code, along the elevations first, is the plane's.
LEMMA PlaneOfFour ==
  ASSUME NEW clear \in Int, NEW a \in Int, NEW b \in Int, NEW c \in Int, NEW d \in Int,
         NEW turn \in Int, NEW span \in Int, NEW part \in Int, NEW rise \in Int,
         NEW west \in Int, NEW east \in Int, NEW num \in Int, NEW den \in Int,
         west = a * rise + (b - a) * part, east = c * rise + (d - c) * part,
         num = west * span + (east - west) * turn, den = rise * span
  PROVE  (clear * den - num) * span * rise =
           (clear * span * rise - ((span - turn) * (rise - part) * a + (span - turn) * part * b
                                   + turn * (rise - part) * c + turn * part * d)) * den
  OBVIOUS

\* and so it is where the whole way to the upper sample is taken.
LEMMA PlaneOfTwo ==
  ASSUME NEW clear \in Int, NEW a \in Int, NEW b \in Int, NEW c \in Int, NEW d \in Int,
         NEW turn \in Int, NEW span \in Int, NEW rise \in Int,
         NEW west \in Int, NEW east \in Int, NEW num \in Int, NEW den \in Int,
         west = a * rise + (b - a) * rise, east = c * rise + (d - c) * rise,
         num = west * span + (east - west) * turn, den = rise * span
  PROVE  (clear * den - num) * span * 1 =
           (clear * span * 1 - ((span - turn) * (1 - 0) * b + (span - turn) * 0 * b
                                + turn * (1 - 0) * d + turn * 0 * d)) * den
  OBVIOUS

-----------------------------------------------------------------------------
\* The gain

\* Around the circle, whichever way the difference is taken.
LEMMA TurnIs ==
  ASSUME NEW b \in Int, NEW a \in Int
  PROVE  /\ (b - a) % 360 \in Antenna!Degrees
         /\ Antenna!Wrap(Antenna!SignedDelta(b, a)) = (b - a) % 360
         /\ (b - a) % 360 < 180 => Antenna!Distance(Antenna!SignedDelta(b, a), 0) = (b - a) % 360
         /\ ~((b - a) % 360 < 180) =>
              Antenna!Distance(Antenna!SignedDelta(b, a), 0) = 360 - ((b - a) % 360)
<1> DEFINE away == (b - a) % 360
           delta == Antenna!SignedDelta(b, a)
<1>1. away \in Int /\ 0 <= away /\ away <= 359
  OBVIOUS
<1>2. delta = IF away < 180 THEN away ELSE away - 360
  BY DEF Antenna!SignedDelta
<1> HIDE DEF away, delta
<1>3. Antenna!Wrap(delta) = away
  BY <1>1, <1>2 DEF Antenna!Wrap
<1>4. Antenna!Distance(delta, 0) = IF away < 180 THEN away ELSE 360 - away
  BY <1>1, <1>2 DEF Antenna!Distance
<1>5. away \in Antenna!Degrees
  BY <1>1, DegreesAre
<1> QED
  BY <1>3, <1>4, <1>5 DEF away, delta

\* The shadow taken off is that of a pole the direction lies behind.
LEMMA ShadowIs ==
  ASSUME NEW q \in Queries
  PROVE  /\ Antenna!ShadowLoss(q.bearing, q.shadow) = IF Antenna!Shaded(q) THEN q.shadow.loss ELSE 0
         /\ Antenna!ShadowLoss(q.bearing, q.shadow) \in Int
<1>1. q.bearing \in Int
  BY AntennaAssumption DEF Antenna!QueriesAreOfLibrary
<1>2. CASE q.shadow = None
  BY <1>2 DEF Antenna!ShadowLoss, Antenna!Shaded
<1>3. CASE q.shadow # None
  <2>1. q.shadow.azimuth \in Int /\ q.shadow.width \in Int /\ q.shadow.loss \in Int
    BY <1>3, AntennaAssumption DEF Antenna!QueriesAreOfLibrary
  <2>2. PICK width \in Int, loss \in Int : width = q.shadow.width /\ loss = q.shadow.loss
    BY <2>1
  <2> DEFINE away == (q.bearing - q.shadow.azimuth) % 360
             off == Antenna!Distance(Antenna!SignedDelta(q.bearing, q.shadow.azimuth), 0)
  <2>3. away \in Antenna!Degrees /\ off = IF away < 180 THEN away ELSE 360 - away
    <3>1. PICK b \in Int, a \in Int : b = q.bearing /\ a = q.shadow.azimuth
      BY <1>1, <2>1
    <3>2. /\ (b - a) % 360 \in Antenna!Degrees
          /\ (b - a) % 360 < 180 => Antenna!Distance(Antenna!SignedDelta(b, a), 0) = (b - a) % 360
          /\ ~((b - a) % 360 < 180) =>
               Antenna!Distance(Antenna!SignedDelta(b, a), 0) = 360 - ((b - a) % 360)
      BY TurnIs
    <3>3. away = (b - a) % 360 /\ off = Antenna!Distance(Antenna!SignedDelta(b, a), 0)
      BY <3>1
    <3> HIDE DEF away, off
    <3> QED
      BY <3>2, <3>3
  <2>4. Antenna!ShadowLoss(q.bearing, q.shadow) =
          IF width <= 0 \/ loss <= 0 THEN 0 ELSE IF 2 * off <= width THEN loss ELSE 0
    BY <1>3, <2>2 DEF Antenna!ShadowLoss
  <2>5. Antenna!Shaded(q) <=> width > 0 /\ loss > 0 /\ (2 * away <= width \/ 2 * (360 - away) <= width)
    BY <1>3, <2>2 DEF Antenna!Shaded, Antenna!Clockwise
  <2> HIDE DEF away, off
  <2>6. away \in Int /\ 0 <= away /\ away <= 359
    BY <2>3, DegreesAre
  <2>7. 2 * off <= width <=> 2 * away <= width \/ 2 * (360 - away) <= width
    BY <2>3, <2>6
  <2>8. (width <= 0 <=> ~(width > 0)) /\ (loss <= 0 <=> ~(loss > 0))
    OBVIOUS
  <2> QED
    BY <2>2, <2>4, <2>5, <2>7, <2>8
<1> QED
  BY <1>2, <1>3

\* What the two brackets make of a table.
LEMMA InterpolationFails ==
  ASSUME NEW T, NEW l, NEW r, NEW z, NEW Z, NEW lo, NEW hi, NEW e, NEW E,
         ~({lo, hi} \subseteq DOMAIN T[r])
  PROVE  Antenna!Interpolated(T, <<l, r, z, Z>>, <<lo, hi, e, E>>) = Raised
  BY DEF Antenna!Interpolated

LEMMA InterpolatedIs ==
  ASSUME NEW T, NEW l, NEW r, NEW z, NEW Z, NEW lo, NEW hi, NEW e, NEW E,
         {lo, hi} \subseteq DOMAIN T[r]
  PROVE  Antenna!Interpolated(T, <<l, r, z, Z>>, <<lo, hi, e, E>>) =
           [num |-> (T[l][lo] * E + (T[l][hi] - T[l][lo]) * e) * Z
                    + ((T[r][lo] * E + (T[r][hi] - T[r][lo]) * e)
                       - (T[l][lo] * E + (T[l][hi] - T[l][lo]) * e)) * z,
            den |-> E * Z]
  BY DEF Antenna!Interpolated

\* A gain on the plane, the weights given.
LEMMA OnPlaneIs ==
  ASSUME NEW T, NEW clear, NEW l, NEW r, NEW low, NEW high, NEW angle, NEW value,
         NEW turn, NEW span, NEW part, NEW rise,
         l = r => span = 1 /\ turn = 0,
         l # r => span = Antenna!Clockwise(l, r) /\ turn = Antenna!Clockwise(l, angle),
         low = high => rise = 1 /\ part = 0,
         low # high => rise = high - low /\ part = value - low,
         gain.num * span * rise =
           (clear * span * rise - ((span - turn) * (rise - part) * T[l][low]
                                   + (span - turn) * part * T[l][high]
                                   + turn * (rise - part) * T[r][low]
                                   + turn * part * T[r][high])) * gain.den
  PROVE  Antenna!OnPlane(T, clear, l, r, low, high, angle, value)
<1>1. /\ span = IF l = r THEN 1 ELSE Antenna!Clockwise(l, r)
      /\ turn = IF l = r THEN 0 ELSE Antenna!Clockwise(l, angle)
  OBVIOUS
<1>2. /\ rise = IF low = high THEN 1 ELSE high - low
      /\ part = IF low = high THEN 0 ELSE value - low
  OBVIOUS
<1> QED
  BY <1>1, <1>2, Zenon DEF Antenna!OnPlane

\* The gain read from a table lies on the plane through the samples beside it.
LEMMA GainOfTable ==
  ASSUME NEW T, Antenna!TableIsSampled(T), NEW clear \in Int,
         NEW angle \in Antenna!Degrees, NEW elevation \in Int,
         gain = Antenna!Reduced(clear, Antenna!BetweenAzimuths(T,
                  Antenna!CircularBracket(DOMAIN T, angle), elevation))
  PROVE  Antenna!Beside(T, clear, Antenna!Before(DOMAIN T, angle), angle, elevation)
<1>1. DOMAIN T \subseteq Antenna!Degrees /\ DOMAIN T # {}
  BY DEF Antenna!TableIsSampled
<1>2. PICK l \in DOMAIN T, r \in DOMAIN T, turn \in Int, span \in Int :
        /\ Antenna!CircularBracket(DOMAIN T, angle) = <<l, r, turn, span>>
        /\ Bracketed(DOMAIN T, angle, l, r, turn, span)
  BY <1>1, CircleBracket
<1>3. /\ DOMAIN T[l] # {} /\ DOMAIN T[l] \subseteq Int /\ IsFiniteSet(DOMAIN T[l])
      /\ \A x \in DOMAIN T[l] : T[l][x] \in Int
      /\ \A x \in DOMAIN T[r] : T[r][x] \in Int
  BY FiniteInAntenna DEF Antenna!TableIsSampled
<1> DEFINE samples == DOMAIN T[l]
           clamped == Antenna!Clamp(samples, elevation)
           low == Antenna!Max({x \in samples : x <= clamped})
           high == Antenna!Min({x \in samples : x >= clamped})
<1>4. PICK lo \in samples, hi \in samples, share \in Int, whole \in Int :
        /\ Antenna!LinearBracket(samples, elevation) = <<lo, hi, share, whole>>
        /\ Spanned(samples, clamped, lo, hi, share, whole)
  BY <1>3, LineBracket
<1>5. Antenna!BetweenAzimuths(T, Antenna!CircularBracket(DOMAIN T, angle), elevation) =
        Antenna!Interpolated(T, <<l, r, turn, span>>, <<lo, hi, share, whole>>)
  BY <1>2, <1>4 DEF Antenna!BetweenAzimuths
<1>6. l = Antenna!Before(DOMAIN T, angle) /\ r = Antenna!After(DOMAIN T, angle)
  BY <1>2 DEF Bracketed
<1>7. Antenna!Beside(T, clear, l, angle, elevation) <=>
        IF gain = Raised THEN DOMAIN T[l] # DOMAIN T[r]
        ELSE Antenna!OnPlane(T, clear, l, r, low, high, angle, clamped)
  BY <1>6 DEF Antenna!Beside, Antenna!Between
<1>8. CASE ~({lo, hi} \subseteq DOMAIN T[r])
  <2>1. Antenna!Interpolated(T, <<l, r, turn, span>>, <<lo, hi, share, whole>>) = Raised
    <3> HIDE DEF low, high, clamped, samples
    <3> QED
      BY <1>8, InterpolationFails
  <2>2. gain = Raised
    BY <1>5, <2>1 DEF Antenna!Reduced
  <2>3. DOMAIN T[l] # DOMAIN T[r]
    BY <1>4, <1>8
  <2> HIDE DEF low, high, clamped, samples
  <2> QED
    BY <1>6, <1>7, <2>2, <2>3
<1>9. CASE {lo, hi} \subseteq DOMAIN T[r]
  <2>1. PICK a \in Int, b \in Int, c \in Int, d \in Int :
          a = T[l][lo] /\ b = T[l][hi] /\ c = T[r][lo] /\ d = T[r][hi]
    BY <1>3, <1>4, <1>9
  <2>2. PICK west \in Int, east \in Int :
          west = a * whole + (b - a) * share /\ east = c * whole + (d - c) * share
    OBVIOUS
  <2>3. PICK num \in Int, den \in Int :
          num = west * span + (east - west) * turn /\ den = whole * span
    OBVIOUS
  <2>4. Antenna!Interpolated(T, <<l, r, turn, span>>, <<lo, hi, share, whole>>) =
          [num |-> num, den |-> den]
    BY <1>9, <2>1, <2>2, <2>3, InterpolatedIs
  <2>5. gain = [num |-> clear * den - num, den |-> den]
    <3>1. [num |-> num, den |-> den] # Raised
      BY AntennaAssumption DEF Antenna!QueriesAreOfLibrary
    <3> QED
      BY <1>5, <2>4, <3>1 DEF Antenna!Reduced
  <2>6. gain # Raised
    <3>1. gain \in [num : Int, den : Int]
      BY <2>5
    <3> QED
      BY <3>1, AntennaAssumption DEF Antenna!QueriesAreOfLibrary
  <2>7. /\ l = r => span = 1 /\ turn = 0
        /\ l # r => span = Antenna!Clockwise(l, r) /\ turn = Antenna!Clockwise(l, angle)
    BY <1>2 DEF Bracketed
  <2>8. gain.num = clear * den - num /\ gain.den = den
    BY <2>5
  <2> HIDE DEF samples, clamped
  <2>9. Antenna!OnPlane(T, clear, l, r, low, high, angle, clamped)
    <3>1. CASE low = high /\ hi = low /\ share = whole
      <4> HIDE DEF low, high
      <4>1. (clear * den - num) * span * 1 =
              (clear * span * 1 - ((span - turn) * (1 - 0) * b + (span - turn) * 0 * b
                                   + turn * (1 - 0) * d + turn * 0 * d)) * den
        BY <2>2, <2>3, <3>1, PlaneOfTwo
      <4>2. T[l][low] = b /\ T[l][high] = b /\ T[r][low] = d /\ T[r][high] = d
        BY <2>1, <3>1
      <4>3. gain.num * span * 1 =
              (clear * span * 1 - ((span - turn) * (1 - 0) * T[l][low]
                                   + (span - turn) * 0 * T[l][high]
                                   + turn * (1 - 0) * T[r][low]
                                   + turn * 0 * T[r][high])) * gain.den
        BY <2>8, <4>1, <4>2, Zenon
      <4> QED
        BY <2>7, <3>1, <4>3, OnPlaneIs, Zenon
    <3>2. CASE /\ lo = low /\ hi = high
               /\ low = high => whole = 1 /\ share = 0
               /\ low # high => whole = high - low /\ share = clamped - low
      <4> HIDE DEF low, high
      <4>1. (clear * den - num) * span * whole =
              (clear * span * whole - ((span - turn) * (whole - share) * a + (span - turn) * share * b
                                       + turn * (whole - share) * c + turn * share * d)) * den
        BY <2>2, <2>3, PlaneOfFour
      <4>2. T[l][low] = a /\ T[l][high] = b /\ T[r][low] = c /\ T[r][high] = d
        BY <2>1, <3>2
      <4>3. gain.num * span * whole =
              (clear * span * whole - ((span - turn) * (whole - share) * T[l][low]
                                       + (span - turn) * share * T[l][high]
                                       + turn * (whole - share) * T[r][low]
                                       + turn * share * T[r][high])) * gain.den
        BY <2>8, <4>1, <4>2, Zenon
      <4> QED
        BY <2>7, <3>2, <4>3, OnPlaneIs, Zenon
    <3>3. \/ low = high /\ hi = low /\ share = whole
          \/ /\ lo = low /\ hi = high
             /\ low = high => whole = 1 /\ share = 0
             /\ low # high => whole = high - low /\ share = clamped - low
      <4>1. \/ lo = low /\ hi = low /\ low = high /\ share = 0 /\ whole = 1
            \/ lo = low /\ hi = high /\ low # high /\ share = clamped - low /\ whole = high - low
            \/ hi = low /\ low = high /\ share = whole
        BY <1>4 DEF Spanned
      <4> HIDE DEF low, high
      <4> QED
        BY <4>1
    <3> HIDE DEF low, high
    <3> QED
      BY <3>1, <3>2, <3>3
  <2> HIDE DEF low, high
  <2> QED
    BY <1>6, <1>7, <2>6, <2>9
<1> QED
  BY <1>8, <1>9

\* A pattern of the antenna is chosen, whatever the frequency.
LEMMA PatternIsOne ==
  ASSUME NEW q \in Queries
  PROVE  \E i \in DOMAIN q.patterns : Antenna!PatternFor(q.patterns, q.frequency) = q.patterns[i]
<1> DEFINE listed == q.patterns
           inBand == {i \in DOMAIN listed :
                        /\ listed[i].band # None
                        /\ listed[i].band[1] <= q.frequency /\ q.frequency <= listed[i].band[2]}
           choice == IF inBand # {} THEN inBand ELSE DOMAIN listed
           off(i) == Antenna!Distance(listed[i].frequency, q.frequency)
           First(i) == \A j \in choice : off(i) < off(j) \/ (off(i) = off(j) /\ i <= j)
<1>1. DOMAIN listed \in SUBSET Nat /\ DOMAIN listed # {}
  <2>1. PICK n \in Nat \ {0} : DOMAIN listed = 1..n
    BY AntennaAssumption DEF Antenna!QueriesAreOfLibrary
  <2>2. 1..n \in SUBSET Nat /\ 1 \in 1..n
    OBVIOUS
  <2> HIDE DEF listed
  <2> QED
    BY <2>1, <2>2, Zenon
<1>2. choice \in SUBSET DOMAIN listed /\ choice # {}
  BY <1>1
<1>3. \A i \in DOMAIN listed : off(i) \in Nat
  <2> SUFFICES ASSUME NEW i \in DOMAIN listed PROVE off(i) \in Nat
    OBVIOUS
  <2>1. listed[i].frequency \in Int /\ q.frequency \in Int
    BY AntennaAssumption DEF Antenna!QueriesAreOfLibrary
  <2>2. PICK a \in Int, b \in Int : a = listed[i].frequency /\ b = q.frequency
    BY <2>1
  <2>3. Antenna!Distance(a, b) \in Nat
    BY DEF Antenna!Distance
  <2> QED
    BY <2>2, <2>3
<1>4. Antenna!PatternFor(q.patterns, q.frequency) = listed[CHOOSE i \in choice : First(i)]
  BY DEF Antenna!PatternFor
<1> HIDE DEF choice, off
<1>5. \E i \in choice : First(i)
  <2> DEFINE offs == {off(i) : i \in choice}
  <2>1. PICK least \in offs : \A o \in offs : least <= o
    <3>1. offs \in SUBSET Nat /\ offs # {}
      BY <1>2, <1>3
    <3> HIDE DEF offs
    <3> QED
      BY <3>1, LeastNat
  <2> DEFINE nearest == {i \in choice : off(i) = least}
  <2>2. PICK i \in nearest : \A j \in nearest : i <= j
    <3>1. nearest \in SUBSET Nat /\ nearest # {}
      BY <1>1, <1>2
    <3> HIDE DEF nearest
    <3> QED
      BY <3>1, LeastNat
  <2>3. ASSUME NEW j \in choice PROVE off(i) < off(j) \/ (off(i) = off(j) /\ i <= j)
    <3>1. off(i) <= off(j) /\ off(i) \in Nat /\ off(j) \in Nat
      BY <1>2, <1>3, <2>1
    <3>2. off(i) = off(j) => i <= j
      BY <2>2
    <3> QED
      BY <3>1, <3>2
  <2> QED
    BY <2>3
<1> HIDE DEF First
<1>6. (CHOOSE i \in choice : First(i)) \in DOMAIN listed
  BY <1>2, <1>5
<1> QED
  BY <1>4, <1>6

\* What is computed for a query is the gain of its direction.
LEMMA GainIs ==
  ASSUME query \in Queries, gain = Antenna!EffectiveGain(query)
  PROVE  GainIsOfItsDirection
<1>1. PICK q \in Queries : q = query
  OBVIOUS
<1> DEFINE pattern == Antenna!PatternFor(q.patterns, q.frequency)
           clear == pattern.gain - (IF Antenna!Shaded(q) THEN q.shadow.loss ELSE 0)
           angle == (q.bearing - q.azimuth) % 360
           value == q.elevation + q.downtilt
<1>2. PICK i \in DOMAIN q.patterns : pattern = q.patterns[i]
  BY PatternIsOne
<1> HIDE DEF pattern
<1>3. /\ pattern.gain \in Int
      /\ pattern.attenuation = <<>> \/ Antenna!TableIsSampled(pattern.attenuation)
      /\ q.bearing \in Int /\ q.azimuth \in Int /\ q.elevation \in Int /\ q.downtilt \in Int
  BY <1>2, AntennaAssumption DEF Antenna!QueriesAreOfLibrary
<1>4. clear = pattern.gain - Antenna!ShadowLoss(q.bearing, q.shadow) /\ clear \in Int
  BY <1>3, ShadowIs
<1>5. angle \in Antenna!Degrees /\ Antenna!Wrap(Antenna!SignedDelta(q.bearing, q.azimuth)) = angle
  <2>1. PICK b \in Int, a \in Int : b = q.bearing /\ a = q.azimuth
    BY <1>3
  <2>2. (b - a) % 360 \in Antenna!Degrees /\ Antenna!Wrap(Antenna!SignedDelta(b, a)) = (b - a) % 360
    BY TurnIs
  <2>3. angle = (b - a) % 360
    BY <2>1
  <2> HIDE DEF angle
  <2> QED
    BY <2>1, <2>2, <2>3
<1>6. value \in Int
  BY <1>3
<1>7. gain = Antenna!Reduced(clear, Antenna!Loss(pattern, q))
  <2> HIDE DEF clear
  <2>1. gain = Antenna!GainOf(pattern, q)
    BY <1>1 DEF Antenna!EffectiveGain, pattern
  <2> QED
    BY <1>4, <2>1 DEF Antenna!GainOf
<1> HIDE DEF clear, angle, value
<1>8. Antenna!FromPattern(pattern, clear, angle, value)
  <2>1. CASE pattern.attenuation = <<>>
    <3>1. Antenna!Loss(pattern, q) = [num |-> 0, den |-> 1]
      BY <2>1 DEF Antenna!Loss
    <3>2. [num |-> 0, den |-> 1] # Raised
      BY AntennaAssumption DEF Antenna!QueriesAreOfLibrary
    <3>3. gain = [num |-> clear, den |-> 1]
      BY <1>4, <1>7, <3>1, <3>2 DEF Antenna!Reduced
    <3> QED
      BY <2>1, <3>3 DEF Antenna!FromPattern
  <2>2. CASE pattern.attenuation # <<>>
    <3>1. PICK T : T = pattern.attenuation
      OBVIOUS
    <3>2. Antenna!Loss(pattern, q) = Antenna!BetweenAzimuths(T, Antenna!CircularBracket(DOMAIN T, angle), value)
      BY <1>5, <2>2, <3>1, Zenon DEF Antenna!Loss, Antenna!Attenuation, value
    <3>3. gain = Antenna!Reduced(clear, Antenna!BetweenAzimuths(T,
                   Antenna!CircularBracket(DOMAIN T, angle), value))
      BY <1>7, <3>2
    <3>4. Antenna!TableIsSampled(T)
      BY <1>3, <2>2, <3>1
    <3>5. Antenna!Beside(T, clear, Antenna!Before(DOMAIN T, angle), angle, value)
      BY <1>4, <1>5, <1>6, <3>3, <3>4, GainOfTable
    <3> QED
      BY <2>2, <3>1, <3>5 DEF Antenna!FromPattern
  <2> QED
    BY <2>1, <2>2
<1> QED
  BY <1>1, <1>8, Zenon
     DEF GainIsOfItsDirection, Antenna!GainIsOfItsDirection, pattern, clear, angle, value

\* The gain of any antenna of the library is that of the direction asked about,
\* however its table is sampled, and the shadow of a pole takes its loss off wherever
\* north is (effective_gain_dbi, interpolate_attenuation, pole_shadow_loss_db).
THEOREM GainsAreOfTheirDirection ==
  Antenna!Init /\ [][Antenna!Next]_(Antenna!vars) => []GainIsOfItsDirection
<1> DEFINE Computed == query \in Queries /\ (gain = None \/ gain = Antenna!EffectiveGain(query))
<1>1. Antenna!Init => Computed
  BY DEF Antenna!Init
<1>2. Computed /\ [Antenna!Next]_(Antenna!vars) => Computed'
  BY DEF Antenna!Next, Antenna!Evaluate, Antenna!vars
<1>3. Computed => GainIsOfItsDirection
  <2>1. CASE gain = None
    BY <2>1 DEF GainIsOfItsDirection, Antenna!GainIsOfItsDirection
  <2>2. CASE query \in Queries /\ gain = Antenna!EffectiveGain(query)
    BY <2>2, GainIs
  <2> QED
    BY <2>1, <2>2
<1> QED
  BY <1>1, <1>2, <1>3, PTL

-----------------------------------------------------------------------------
(* The compiler of metrics *)

\* What the expressions of an accepted specification name is there.
Referenced(s) ==
  /\ s \in Specs /\ s.result \in Metric!Names(s)
  /\ \A n \in Metric!Names(s) : Dependencies(s, n) \subseteq Metric!Names(s)

LEMMA SpecIs ==
  ASSUME NEW s \in Specs
  PROVE  /\ Metric!Names(s) \subseteq Nat
         /\ \A i \in DOMAIN s.declared : s.declared[i] \in Metric!Names(s)
         /\ \A n \in Metric!Names(s) : \E i \in DOMAIN s.declared : s.declared[i] = n
         /\ DOMAIN s.declared \subseteq Nat
         /\ \A n \in Metric!Names(s) : Dependencies(s, n) \subseteq Nat
<1>1. Metric!ToSet(s.declared) = Metric!Names(s)
  BY SpecsAssumption DEF Metric!SpecsAreWritten
<1>2. DOMAIN s.declared \subseteq Nat
  <2>1. PICK n \in Nat : DOMAIN s.declared = 1..n
    BY SpecsAssumption DEF Metric!SpecsAreWritten
  <2>2. 1..n \subseteq Nat
    OBVIOUS
  <2> QED
    BY <2>1, <2>2
<1>3. /\ Metric!Names(s) \subseteq Nat
      /\ \A n \in Metric!Names(s) : Dependencies(s, n) \subseteq Nat
  BY SpecsAssumption DEF Metric!SpecsAreWritten
<1> QED
  BY <1>1, <1>2, <1>3 DEF Metric!ToSet

\* Reach is the least set that holds the names and is closed.
LEMMA ReachIs ==
  ASSUME NEW s, Referenced(s), NEW names, names \subseteq Metric!Names(s)
  PROVE  LET all == Metric!Reach(s, names)
         IN names \subseteq all /\ all \subseteq Metric!Names(s) /\ Metric!Closed(s, all)
<1> DEFINE reached == Metric!Reach(s, names)
<1>1. names \subseteq reached /\ reached \subseteq Metric!Names(s)
  BY DEF Metric!Reach
<1>2. ASSUME NEW n \in reached, NEW d \in Dependencies(s, n) PROVE d \in reached
  <2>1. n \in Metric!Names(s) /\ d \in Metric!Names(s)
    BY <1>1 DEF Referenced
  <2>2. ASSUME NEW all \in SUBSET Metric!Names(s), names \subseteq all, Metric!Closed(s, all)
        PROVE  d \in all
    <3>1. n \in all
      BY <2>2 DEF Metric!Reach
    <3> QED
      BY <2>2, <3>1 DEF Metric!Closed
  <2> QED
    BY <2>1, <2>2 DEF Metric!Reach
<1> QED
  BY <1>1, <1>2 DEF Metric!Closed

\* A name that can be reached is in every closed set that holds the start.
LEMMA ReachWithin ==
  ASSUME NEW s, NEW names, NEW all, all \subseteq Metric!Names(s), names \subseteq all, Metric!Closed(s, all)
  PROVE  Metric!Reach(s, names) \subseteq all
  BY DEF Metric!Reach

Frames(s, seen) == [name : Metric!Names(s) \ seen, todo : SUBSET Metric!Names(s)]

\* The names being visited: each has the next one among its dependencies, and what it
\* names is still to be visited, or done, or the next one.
Path(s, seen, st) ==
  /\ st \in Seq(Frames(s, seen))
  /\ \A i, j \in DOMAIN st : st[i].name = st[j].name => i = j
  /\ \A i \in DOMAIN st : st[i].todo \subseteq Dependencies(s, st[i].name)
  /\ \A i \in DOMAIN st : i < Len(st) => st[i + 1].name \in Dependencies(s, st[i].name)
  /\ \A i \in DOMAIN st : \A d \in Dependencies(s, st[i].name) :
       d \in st[i].todo \/ d \in seen \/ (i < Len(st) /\ d = st[i + 1].name)

\* The names of a set in an order in which each is behind those it names.
Ordered(s, seen, ord) ==
  /\ ord \in Seq(Nat)
  /\ \A i \in DOMAIN ord : ord[i] \in seen
  /\ \A n \in seen : \E i \in DOMAIN ord : ord[i] = n
  /\ \A i, j \in DOMAIN ord : ord[i] = ord[j] => i = j
  /\ \A i \in DOMAIN ord : \A d \in Dependencies(s, ord[i]) :
       \E j \in DOMAIN ord : j < i /\ ord[j] = d

LEMMA FrontIs ==
  ASSUME NEW S, NEW q \in Seq(S), q # <<>>
  PROVE  /\ Len(q) \in Nat \ {0} /\ Len(q) \in DOMAIN q /\ Metric!Last(q) = q[Len(q)]
         /\ Metric!Front(q) \in Seq(S) /\ Len(Metric!Front(q)) = Len(q) - 1
         /\ \A i : i \in DOMAIN Metric!Front(q) <=> i \in DOMAIN q /\ i < Len(q)
         /\ \A i \in DOMAIN Metric!Front(q) : Metric!Front(q)[i] = q[i]
<1>1. Len(q) \in Nat \ {0} /\ DOMAIN q = 1..Len(q)
  BY EmptySeq, LenProperties
<1>2. Metric!Front(q) = SubSeq(q, 1, Len(q) - 1) /\ Metric!Last(q) = q[Len(q)]
  BY DEF Metric!Front, Metric!Last
<1>3. PICK n \in Nat : n = Len(q) - 1
  <2>1. PICK m \in Nat \ {0} : m = Len(q)
    BY <1>1
  <2>2. m - 1 \in Nat
    OBVIOUS
  <2> QED
    BY <2>1, <2>2
<1>4. /\ SubSeq(q, 1, n) \in Seq(S) /\ Len(SubSeq(q, 1, n)) = n
      /\ \A i \in 1..n : SubSeq(q, 1, n)[i] = q[i]
  BY <1>1, <1>3, SubSeqProperties
<1>5. DOMAIN SubSeq(q, 1, n) = 1..n
  BY <1>4, LenProperties
<1>6. \A i : i \in 1..n <=> i \in 1..Len(q) /\ i < Len(q)
  BY <1>1, <1>3
<1>7. Len(q) \in DOMAIN q
  BY <1>1
<1> QED
  BY <1>1, <1>2, <1>3, <1>4, <1>5, <1>6, <1>7

LEMMA AppendIs ==
  ASSUME NEW S, NEW q \in Seq(S), NEW x \in S
  PROVE  /\ Append(q, x) \in Seq(S) /\ Len(Append(q, x)) = Len(q) + 1 /\ Len(q) \in Nat
         /\ \A i : i \in DOMAIN Append(q, x) <=> i \in DOMAIN q \/ i = Len(q) + 1
         /\ \A i \in DOMAIN q : Append(q, x)[i] = q[i] /\ i \in Nat /\ i < Len(q) + 1
         /\ Append(q, x)[Len(q) + 1] = x
<1>1. Len(q) \in Nat /\ DOMAIN q = 1..Len(q)
  BY LenProperties
<1>2. /\ Append(q, x) \in Seq(S) /\ Len(Append(q, x)) = Len(q) + 1
      /\ \A i \in 1..Len(q) : Append(q, x)[i] = q[i]
      /\ Append(q, x)[Len(q) + 1] = x
  BY AppendProperties
<1>3. DOMAIN Append(q, x) = 1..(Len(q) + 1)
  BY <1>2, LenProperties
<1>4. \A i : i \in 1..(Len(q) + 1) <=> i \in 1..Len(q) \/ i = Len(q) + 1
  BY <1>1
<1>5. \A i \in 1..Len(q) : i \in Nat /\ i < Len(q) + 1
  BY <1>1
<1> QED
  BY <1>1, <1>2, <1>3, <1>4, <1>5

\* What is left of the names being visited when one dependency is done with.
Rest(st, d) ==
  [st EXCEPT ![Len(st)] = [name |-> st[Len(st)].name, todo |-> st[Len(st)].todo \ {d}]]

LEMMA RestIs ==
  ASSUME NEW s, NEW seen, NEW st, Path(s, seen, st), st # <<>>, NEW d
  PROVE  /\ Rest(st, d) \in Seq(Frames(s, seen))
         /\ Len(Rest(st, d)) = Len(st) /\ DOMAIN Rest(st, d) = DOMAIN st
         /\ Len(st) \in Nat \ {0} /\ Len(st) \in DOMAIN st
         /\ \A i \in DOMAIN st : i \in Nat /\ i <= Len(st)
         /\ \A i \in DOMAIN st : Rest(st, d)[i].name = st[i].name
         /\ Rest(st, d)[Len(st)].todo = st[Len(st)].todo \ {d}
         /\ \A i \in DOMAIN st : i # Len(st) => Rest(st, d)[i].todo = st[i].todo
<1> DEFINE F == Frames(s, seen)
           l == Len(st)
           e == [name |-> st[l].name, todo |-> st[l].todo \ {d}]
<1>1. st \in Seq(F)
  BY DEF Path
<1>2. l \in Nat \ {0} /\ DOMAIN st = 1..l /\ l \in DOMAIN st
  <2> HIDE DEF F
  <2> QED
    BY <1>1, EmptySeq, LenProperties
<1>3. st[l] \in F
  <2> HIDE DEF F, l
  <2> QED
    BY <1>1, <1>2, ElementOfSeq
<1>4. e \in F
  BY <1>3 DEF Frames
<1> HIDE DEF F, e
<1>5. Rest(st, d) = [st EXCEPT ![l] = e]
  BY DEF Rest, e
<1>6. Rest(st, d) \in Seq(F) /\ Len(Rest(st, d)) = l
  BY <1>1, <1>2, <1>4, <1>5, ExceptSeq
<1>7. DOMAIN Rest(st, d) = DOMAIN st
  BY <1>5
<1>8. ASSUME NEW i \in DOMAIN st
      PROVE  /\ i \in Nat /\ i <= l
             /\ Rest(st, d)[i].name = st[i].name
             /\ i = l => Rest(st, d)[i].todo = st[i].todo \ {d}
             /\ i # l => Rest(st, d)[i].todo = st[i].todo
  <2>1. i \in Nat /\ i <= l
    BY <1>2
  <2> HIDE DEF l
  <2>2. CASE i = l
    <3>1. Rest(st, d)[i] = e
      BY <1>2, <1>5, <2>2
    <3> QED
      BY <2>1, <2>2, <3>1 DEF e
  <2>3. CASE i # l
    <3>1. Rest(st, d)[i] = st[i]
      BY <1>5, <2>3
    <3> QED
      BY <2>1, <2>3, <3>1
  <2> QED
    BY <2>2, <2>3
<1> QED
  BY <1>2, <1>6, <1>7, <1>8 DEF F

\* Nothing is being visited, or one name alone.
LEMMA PathStart ==
  ASSUME NEW s, Referenced(s), NEW seen, NEW n \in Metric!Names(s) \ seen
  PROVE  Path(s, seen, <<[name |-> n, todo |-> Dependencies(s, n)]>>)
<1> DEFINE frame == [name |-> n, todo |-> Dependencies(s, n)]
           F == Frames(s, seen)
<1>1. frame \in F
  BY DEF Referenced, Frames
<1> HIDE DEF F
<1>2. PICK st : st = <<frame>>
  OBVIOUS
<1>3. st \in Seq(F) /\ DOMAIN st = {1} /\ st[1] = frame /\ Len(st) = 1
  BY <1>1, <1>2
<1>4. \A i \in DOMAIN st : st[i].name = n /\ st[i].todo = Dependencies(s, n) /\ i = 1
  BY <1>3
<1>5. Path(s, seen, st)
  BY <1>3, <1>4 DEF Path, F
<1> QED
  BY <1>2, <1>5

\* A dependency that is done is no longer to be visited.
LEMMA PathDone ==
  ASSUME NEW s, NEW seen, NEW st, Path(s, seen, st), st # <<>>, NEW d \in seen
  PROVE  Path(s, seen, Rest(st, d))
<1> DEFINE rest == Rest(st, d)
<1>1. /\ rest \in Seq(Frames(s, seen))
      /\ Len(rest) = Len(st) /\ DOMAIN rest = DOMAIN st
      /\ Len(st) \in Nat \ {0} /\ Len(st) \in DOMAIN st
      /\ \A i \in DOMAIN st : i \in Nat /\ i <= Len(st)
      /\ \A i \in DOMAIN st : rest[i].name = st[i].name
      /\ rest[Len(st)].todo = st[Len(st)].todo \ {d}
      /\ \A i \in DOMAIN st : i # Len(st) => rest[i].todo = st[i].todo
  BY RestIs
<1> HIDE DEF rest
<1>2. \A i, j \in DOMAIN st : rest[i].name = rest[j].name => i = j
  BY <1>1 DEF Path
<1>3. \A i \in DOMAIN st : rest[i].todo \subseteq Dependencies(s, rest[i].name)
  BY <1>1 DEF Path
<1>4. \A i \in DOMAIN st : i < Len(st) => i + 1 \in DOMAIN st
  <2>1. DOMAIN st = 1..Len(st)
    BY LenProperties DEF Path
  <2> QED
    BY <1>1, <2>1
<1>5. \A i \in DOMAIN st : i < Len(st) => rest[i + 1].name \in Dependencies(s, rest[i].name)
  BY <1>1, <1>4 DEF Path
<1>6. ASSUME NEW i \in DOMAIN st, NEW e \in Dependencies(s, rest[i].name)
      PROVE  e \in rest[i].todo \/ e \in seen \/ (i < Len(st) /\ e = rest[i + 1].name)
  <2>1. e \in st[i].todo \/ e \in seen \/ (i < Len(st) /\ e = st[i + 1].name)
    BY <1>1 DEF Path
  <2>2. e \in st[i].todo => e \in rest[i].todo \/ e = d
    BY <1>1
  <2>3. i < Len(st) => rest[i + 1].name = st[i + 1].name
    BY <1>1, <1>4
  <2> QED
    BY <2>1, <2>2, <2>3
<1>7. Path(s, seen, rest)
  BY <1>1, <1>2, <1>3, <1>5, <1>6 DEF Path
<1> QED
  BY <1>7 DEF rest

\* One that is new is visited next.
LEMMA PathPush ==
  ASSUME NEW s, Referenced(s), NEW seen, NEW st, Path(s, seen, st), st # <<>>,
         NEW d \in st[Len(st)].todo, d \notin seen, \A i \in DOMAIN st : st[i].name # d
  PROVE  Path(s, seen, Append(Rest(st, d), [name |-> d, todo |-> Dependencies(s, d)]))
<1> DEFINE rest == Rest(st, d)
           frame == [name |-> d, todo |-> Dependencies(s, d)]
           next == Append(rest, frame)
           F == Frames(s, seen)
           l == Len(st)
<1>1. /\ rest \in Seq(F)
      /\ Len(rest) = l /\ DOMAIN rest = DOMAIN st
      /\ l \in Nat \ {0} /\ l \in DOMAIN st
      /\ \A i \in DOMAIN st : i \in Nat /\ i <= l
      /\ \A i \in DOMAIN st : rest[i].name = st[i].name
      /\ rest[l].todo = st[l].todo \ {d}
      /\ \A i \in DOMAIN st : i # l => rest[i].todo = st[i].todo
  BY RestIs
<1>2. d \in Dependencies(s, st[l].name) /\ d \in Metric!Names(s)
  <2>1. st[l] \in F
    <3>1. st \in Seq(F) /\ l \in 1..Len(st)
      BY <1>1 DEF Path
    <3> HIDE DEF F, l
    <3> QED
      BY <3>1, ElementOfSeq
  <2>2. st[l].todo \subseteq Dependencies(s, st[l].name)
    <3> HIDE DEF l
    <3> QED
      BY <1>1 DEF Path
  <2> QED
    BY <2>1, <2>2 DEF Frames
<1>3. frame \in F
  BY <1>2 DEF Referenced, Frames
<1>4. frame.name = d /\ frame.todo = Dependencies(s, d)
  OBVIOUS
<1> HIDE DEF frame, F, rest
<1>5. /\ next \in Seq(F) /\ Len(next) = l + 1
      /\ \A i : i \in DOMAIN next <=> i \in DOMAIN st \/ i = l + 1
      /\ \A i \in DOMAIN st : next[i] = rest[i]
      /\ next[l + 1] = frame
  BY <1>1, <1>3, AppendIs
<1>6. \A i \in DOMAIN st : i < l => i + 1 \in DOMAIN st
  <2>1. DOMAIN st = 1..l
    BY LenProperties DEF Path
  <2> QED
    BY <1>1, <2>1
<1> HIDE DEF next, l
<1>7. PICK e \in Nat : e = l + 1 /\ e \notin DOMAIN st
  BY <1>1
<1>8. next[e].name = d /\ next[e].todo = Dependencies(s, d)
  BY <1>4, <1>5, <1>7
<1>9. \A i \in DOMAIN st : next[i].name = st[i].name /\ next[i].todo = rest[i].todo
  BY <1>1, <1>5
<1>10. ASSUME NEW i \in DOMAIN next, NEW j \in DOMAIN next, next[i].name = next[j].name PROVE i = j
  <2>1. (i \in DOMAIN st \/ i = e) /\ (j \in DOMAIN st \/ j = e)
    BY <1>5, <1>7
  <2>2. i \in DOMAIN st /\ j \in DOMAIN st => i = j
    BY <1>9, <1>10 DEF Path
  <2> QED
    BY <1>8, <1>9, <1>10, <2>1, <2>2
<1>11. ASSUME NEW i \in DOMAIN next PROVE next[i].todo \subseteq Dependencies(s, next[i].name)
  <2>1. CASE i \in DOMAIN st
    BY <1>1, <1>9, <2>1 DEF Path
  <2>2. CASE i = e
    BY <1>8, <2>2
  <2> QED
    BY <1>5, <1>7, <2>1, <2>2
<1>12. ASSUME NEW i \in DOMAIN next, i < Len(next)
       PROVE  next[i + 1].name \in Dependencies(s, next[i].name)
  <2>1. i \in DOMAIN st /\ i \in Nat
    BY <1>1, <1>5, <1>7, <1>12
  <2>2. CASE i = l
    BY <1>2, <1>7, <1>8, <1>9, <2>1, <2>2
  <2>3. CASE i # l
    <3>1. i < l
      BY <1>1, <2>1, <2>3
    <3>2. i + 1 \in DOMAIN st
      BY <1>6, <2>1, <3>1
    <3>3. st[i + 1].name \in Dependencies(s, st[i].name)
      BY <2>1, <3>1 DEF Path, l
    <3> QED
      BY <1>9, <2>1, <3>2, <3>3
  <2> QED
    BY <2>2, <2>3
<1>13. ASSUME NEW i \in DOMAIN next, NEW x \in Dependencies(s, next[i].name)
       PROVE  x \in next[i].todo \/ x \in seen \/ (i < Len(next) /\ x = next[i + 1].name)
  <2>1. CASE i = e
    BY <1>8, <1>13, <2>1
  <2>2. CASE i \in DOMAIN st
    <3>1. x \in st[i].todo \/ x \in seen \/ (i < l /\ x = st[i + 1].name)
      BY <1>9, <1>13, <2>2 DEF Path, l
    <3>2. CASE i = l
      <4>1. i < Len(next) /\ next[i + 1].name = d
        BY <1>1, <1>5, <1>7, <1>8, <3>2
      <4>2. x \in st[i].todo => x \in next[i].todo \/ x = d
        BY <1>1, <1>9, <2>2, <3>2
      <4>3. ~(i < l)
        BY <1>1, <3>2
      <4> QED
        BY <3>1, <4>1, <4>2, <4>3
    <3>3. CASE i # l
      <4>1. i < l /\ i + 1 \in DOMAIN st /\ i < Len(next)
        BY <1>1, <1>5, <1>6, <2>2, <3>3
      <4>2. next[i].todo = st[i].todo /\ next[i + 1].name = st[i + 1].name
        BY <1>1, <1>9, <2>2, <3>3, <4>1
      <4> QED
        BY <3>1, <4>1, <4>2
    <3> QED
      BY <3>2, <3>3
  <2> QED
    BY <1>5, <1>7, <2>1, <2>2
<1>14. Path(s, seen, next)
  BY <1>5, <1>10, <1>11, <1>12, <1>13 DEF Path, F
<1> QED
  BY <1>14 DEF next, frame, rest

\* What is named on the way is known, and not done.
LEMMA OnPath ==
  ASSUME NEW s, NEW seen, NEW st, Path(s, seen, st)
  PROVE  /\ Len(st) \in Nat /\ DOMAIN st = 1..Len(st)
         /\ \A i \in DOMAIN st :
              /\ i \in Nat /\ st[i] \in Frames(s, seen)
              /\ st[i].name \in Metric!Names(s) /\ st[i].name \notin seen
              /\ st[i].todo \subseteq Metric!Names(s)
              /\ i < Len(st) => i + 1 \in DOMAIN st
<1> DEFINE F == Frames(s, seen)
<1>1. st \in Seq(F)
  BY DEF Path
<1> HIDE DEF F
<1>2. Len(st) \in Nat /\ DOMAIN st = 1..Len(st)
  BY <1>1, LenProperties
<1>3. ASSUME NEW i \in DOMAIN st
      PROVE  i \in Nat /\ st[i] \in F /\ (i < Len(st) => i + 1 \in DOMAIN st)
  BY <1>1, <1>2, ElementOfSeq
<1>4. ASSUME NEW i \in DOMAIN st
      PROVE  /\ st[i].name \in Metric!Names(s) /\ st[i].name \notin seen
             /\ st[i].todo \subseteq Metric!Names(s)
  <2>1. st[i] \in F
    BY <1>3
  <2> QED
    BY <2>1 DEF F, Frames
<1> QED
  BY <1>2, <1>3, <1>4 DEF F

\* A dependency that is on the way itself goes round in a circle.
LEMMA PathCycle ==
  ASSUME NEW s, Referenced(s), NEW seen, NEW st, Path(s, seen, st),
         NEW i \in DOMAIN st, st[i].name \in Dependencies(s, st[Len(st)].name)
  PROVE  Metric!Cyclic(s)
<1> DEFINE n == st[i].name
           l == Len(st)
<1>1. l \in Nat /\ DOMAIN st = 1..l /\ l \in DOMAIN st /\ n \in Metric!Names(s) /\ i \in Nat
  BY OnPath
<1>2. ASSUME NEW all \in SUBSET Metric!Names(s), Dependencies(s, n) \subseteq all,
             Metric!Closed(s, all)
      PROVE  n \in all
  <2> DEFINE Out == {j \in DOMAIN st : i < j /\ st[j].name \notin all}
  <2>1. Out = {}
    <3> SUFFICES ASSUME Out # {} PROVE FALSE
      OBVIOUS
    <3>1. Out \in SUBSET Nat
      BY <1>1
    <3> HIDE DEF Out
    <3>2. PICK j \in Out : \A m \in Out : j <= m
      BY <3>1, LeastNat
    <3>3. j \in DOMAIN st /\ i < j /\ st[j].name \notin all /\ j \in Nat
      BY <3>1, <3>2 DEF Out
    <3> HIDE DEF l
    <3>4. PICK h \in Nat : h \in DOMAIN st /\ h + 1 = j /\ h < l /\ i <= h
      <4>1. j - 1 \in Nat /\ j - 1 \in DOMAIN st /\ j - 1 + 1 = j /\ j - 1 < l /\ i <= j - 1
        BY <1>1, <3>3
      <4> QED
        BY <4>1
    <3>5. h \notin Out
      BY <3>2, <3>3, <3>4
    <3>6. st[j].name \in Dependencies(s, st[h].name)
      BY <3>4 DEF Path, l
    <3>7. CASE h = i
      BY <1>2, <3>3, <3>6, <3>7
    <3>8. CASE h # i
      <4>1. st[h].name \in all
        BY <1>1, <3>4, <3>5, <3>8 DEF Out
      <4> QED
        BY <1>2, <3>3, <3>6, <4>1 DEF Metric!Closed
    <3> QED
      BY <3>7, <3>8
  <2>2. CASE i = l
    BY <1>2, <2>2
  <2>3. CASE i # l
    <3>1. i < l
      BY <1>1, <2>3
    <3>2. st[l].name \in all
      BY <1>1, <2>1, <3>1
    <3> QED
      BY <1>2, <3>2 DEF Metric!Closed
  <2> QED
    BY <2>2, <2>3
<1> HIDE DEF n
<1>3. n \in Metric!Reach(s, Dependencies(s, n))
  BY <1>1, <1>2 DEF Metric!Reach
<1> QED
  BY <1>1, <1>3 DEF Metric!Cyclic

\* The end of a visit.
LEMMA PathPop ==
  ASSUME NEW s, Referenced(s), NEW seen, seen \subseteq Metric!Names(s),
         NEW st, Path(s, seen, st), st # <<>>, st[Len(st)].todo = {},
         NEW ord, Ordered(s, seen, ord)
  PROVE  /\ Path(s, seen \cup {st[Len(st)].name}, Metric!Front(st))
         /\ Ordered(s, seen \cup {st[Len(st)].name}, Append(ord, st[Len(st)].name))
<1> DEFINE l == Len(st)
           n == st[l].name
           F == Frames(s, seen)
           now == seen \cup {n}
           front == Metric!Front(st)
<1>1. /\ l \in Nat /\ DOMAIN st = 1..l
      /\ \A i \in DOMAIN st :
           /\ i \in Nat /\ st[i] \in Frames(s, seen)
           /\ st[i].name \in Metric!Names(s) /\ st[i].name \notin seen
           /\ st[i].todo \subseteq Metric!Names(s)
           /\ i < l => i + 1 \in DOMAIN st
  BY OnPath
<1>2. st \in Seq(F)
  BY DEF Path
<1> HIDE DEF F
<1>3. /\ l \in Nat \ {0} /\ l \in DOMAIN st
      /\ front \in Seq(F) /\ Len(front) = l - 1
      /\ \A i : i \in DOMAIN front <=> i \in DOMAIN st /\ i < l
      /\ \A i \in DOMAIN front : front[i] = st[i]
  BY <1>2, FrontIs
<1> HIDE DEF l, front
<1>4. n \in Metric!Names(s) /\ n \notin seen
  BY <1>1, <1>3
<1>5. \A d \in Dependencies(s, n) : d \in seen
  <2>1. \A d \in Dependencies(s, n) : d \in st[l].todo \/ d \in seen \/ l < Len(st)
    BY <1>3 DEF Path
  <2>2. ~(l < Len(st)) /\ st[l].todo = {}
    BY <1>1 DEF l
  <2> QED
    BY <2>1, <2>2
<1>6. \A i, j \in DOMAIN st : st[i].name = st[j].name => i = j
  BY DEF Path
<1>7. \A i \in DOMAIN front : i \in DOMAIN st /\ i < l /\ i \in Nat /\ st[i].name # n
  BY <1>1, <1>3, <1>6
<1>8. Path(s, now, front)
  <2>1. front \in Seq(Frames(s, now))
    <3>1. \A i \in DOMAIN front : front[i] \in Frames(s, now)
      BY <1>1, <1>3, <1>7 DEF Frames
    <3>2. PICK m \in Nat : front \in [1..m -> F]
      BY <1>3, SeqDef
    <3>3. front \in [1..m -> Frames(s, now)]
      BY <3>1, <3>2
    <3> QED
      BY <3>3, SeqDef
  <2>2. \A i, j \in DOMAIN front : front[i].name = front[j].name => i = j
    BY <1>3, <1>6, <1>7
  <2>3. \A i \in DOMAIN front : front[i].todo \subseteq Dependencies(s, front[i].name)
    BY <1>3, <1>7 DEF Path
  <2>4. ASSUME NEW i \in DOMAIN front, i < Len(front)
        PROVE  front[i + 1].name \in Dependencies(s, front[i].name) /\ front[i + 1] = st[i + 1]
    <3>1. i + 1 \in DOMAIN front
      BY <1>1, <1>3, <1>7, <2>4
    <3>2. st[i + 1].name \in Dependencies(s, st[i].name)
      BY <1>7 DEF Path, l
    <3> QED
      BY <1>3, <3>1, <3>2
  <2>5. ASSUME NEW i \in DOMAIN front, NEW d \in Dependencies(s, front[i].name)
        PROVE  d \in front[i].todo \/ d \in now \/ (i < Len(front) /\ d = front[i + 1].name)
    <3>1. d \in st[i].todo \/ d \in seen \/ (i < l /\ d = st[i + 1].name)
      BY <1>3, <1>7, <2>5 DEF Path, l
    <3>2. CASE i < Len(front)
      BY <1>3, <2>4, <3>1, <3>2
    <3>3. CASE ~(i < Len(front))
      <4>1. i + 1 = l
        BY <1>3, <1>7, <3>3
      <4> QED
        BY <1>3, <3>1, <4>1
    <3> QED
      BY <3>2, <3>3
  <2> QED
    BY <2>1, <2>2, <2>3, <2>4, <2>5 DEF Path
<1>9. Ordered(s, now, Append(ord, n))
  <2> DEFINE next == Append(ord, n)
             c == Len(ord)
  <2>1. ord \in Seq(Nat) /\ n \in Nat
    BY <1>4, SpecIs DEF Ordered, Referenced
  <2>2. /\ next \in Seq(Nat) /\ Len(next) = c + 1 /\ c \in Nat
        /\ \A i : i \in DOMAIN next <=> i \in DOMAIN ord \/ i = c + 1
        /\ \A i \in DOMAIN ord : next[i] = ord[i] /\ i \in Nat /\ i < c + 1
        /\ next[c + 1] = n
    BY <2>1, AppendIs
  <2> HIDE DEF next, c
  <2>3. PICK e \in Nat : e = c + 1
    BY <2>2
  <2>4. \A i \in DOMAIN ord : ord[i] \in seen /\ ord[i] # n
    BY <1>4 DEF Ordered
  <2>5. /\ \A i \in DOMAIN next : i \in DOMAIN ord \/ i = e
        /\ \A i \in DOMAIN ord : i \in DOMAIN next /\ next[i] = ord[i] /\ i < e
        /\ e \in DOMAIN next /\ next[e] = n
    BY <2>2, <2>3
  <2>6. \A i \in DOMAIN next : next[i] \in now
    BY <2>4, <2>5
  <2>7. \A x \in now : \E i \in DOMAIN next : next[i] = x
    <3>1. \A x \in seen : \E i \in DOMAIN ord : ord[i] = x
      BY DEF Ordered
    <3> QED
      BY <2>5, <3>1
  <2>8. \A i, j \in DOMAIN next : next[i] = next[j] => i = j
    <3>1. \A i, j \in DOMAIN ord : ord[i] = ord[j] => i = j
      BY DEF Ordered
    <3> QED
      BY <2>4, <2>5, <3>1
  <2>9. ASSUME NEW i \in DOMAIN next, NEW d \in Dependencies(s, next[i])
        PROVE  \E j \in DOMAIN next : j < i /\ next[j] = d
    <3>1. CASE i = e
      <4>1. d \in seen
        BY <1>5, <2>5, <2>9, <3>1
      <4>2. PICK j \in DOMAIN ord : ord[j] = d
        BY <4>1 DEF Ordered
      <4> QED
        BY <2>5, <3>1, <4>2
    <3>2. CASE i \in DOMAIN ord
      <4>1. PICK j \in DOMAIN ord : j < i /\ ord[j] = d
        BY <2>5, <2>9, <3>2 DEF Ordered
      <4> QED
        BY <2>5, <4>1
    <3> QED
      BY <2>5, <3>1, <3>2
  <2>10. Ordered(s, now, next)
    BY <2>2, <2>6, <2>7, <2>8, <2>9 DEF Ordered
  <2> QED
    BY <2>10 DEF next
<1> QED
  BY <1>8, <1>9 DEF front, l

\* Names in an order, each behind those it names, do not go round in a circle.
LEMMA OrderedIsAcyclic ==
  ASSUME NEW s, Referenced(s), NEW ord, Ordered(s, Metric!Names(s), ord)
  PROVE  ~Metric!Cyclic(s)
<1> SUFFICES ASSUME NEW n \in Metric!Names(s), n \in Metric!Reach(s, Dependencies(s, n))
             PROVE  FALSE
  BY DEF Metric!Cyclic
<1>1. PICK p \in DOMAIN ord : ord[p] = n
  BY DEF Ordered
<1> DEFINE before == {j \in DOMAIN ord : j < p}
           all == {ord[j] : j \in before}
<1>2. \A j \in DOMAIN ord : j \in Int
  BY LenProperties DEF Ordered
<1>3. all \subseteq Metric!Names(s)
  BY DEF Ordered
<1>4. Dependencies(s, n) \subseteq all
  BY <1>1 DEF Ordered
<1>5. Metric!Closed(s, all)
  <2> SUFFICES ASSUME NEW j \in before, NEW d \in Dependencies(s, ord[j]) PROVE d \in all
    BY DEF Metric!Closed
  <2>1. PICK h \in DOMAIN ord : h < j /\ ord[h] = d
    BY DEF Ordered
  <2>2. h \in before
    BY <1>1, <1>2, <2>1
  <2> QED
    BY <2>1, <2>2
<1>6. n \in all
  <2> HIDE DEF all
  <2> QED
    BY <1>3, <1>4, <1>5, ReachWithin
<1>7. PICK j \in DOMAIN ord : j < p /\ ord[j] = ord[p]
  BY <1>1, <1>6
<1>8. j = p
  BY <1>1, <1>7 DEF Ordered
<1> QED
  BY <1>1, <1>2, <1>7, <1>8

LEMMA SortedInMetric == \A S : Metric!Sorted(S) = Antenna!Sorted(S)
  BY Zenon DEF Metric!Sorted, Antenna!Sorted, Metric!Cardinality, Antenna!Cardinality

\* What a result needs keeps its order.
LEMMA OnlyIs ==
  ASSUME NEW s, Referenced(s), NEW ord, Ordered(s, Metric!Names(s), ord)
  PROVE  Ordered(s, Metric!Required(s), Metric!Only(ord, Metric!Required(s)))
<1> DEFINE R == Metric!Required(s)
           T == {i \in DOMAIN ord : ord[i] \in R}
           v == Metric!Sorted(T)
           c == Cardinality(T)
           only == Metric!Only(ord, R)
<1>1. s.result \in R /\ R \subseteq Metric!Names(s) /\ Metric!Closed(s, R)
  BY ReachIs DEF Metric!Required, Referenced
<1>2. /\ Len(ord) \in Nat /\ DOMAIN ord = 1..Len(ord)
      /\ \A i \in DOMAIN ord : i \in Int
  BY LenProperties DEF Ordered
<1>3. Metric!Names(s) \subseteq Nat
  BY SpecIs DEF Referenced
<1> HIDE DEF R
<1>4. IsFiniteSet(T) /\ T # {} /\ T \subseteq Int
  <2>1. T \subseteq 1..Len(ord) /\ T \subseteq Int
    BY <1>2
  <2>2. IsFiniteSet(1..Len(ord))
    BY <1>2, FS_Interval
  <2>3. PICK i \in DOMAIN ord : ord[i] = s.result
    BY DEF Ordered, Referenced
  <2>4. i \in T
    BY <1>1, <2>3
  <2> HIDE DEF T
  <2> QED
    BY <2>1, <2>2, <2>4, FS_Subset
<1>5. c \in Nat /\ Lists(v, c, T)
  <2>1. v = Antenna!Sorted(T)
    BY SortedInMetric
  <2> HIDE DEF T, v
  <2> QED
    BY <1>4, <2>1, SortedLists
<1>6. only = [i \in DOMAIN v |-> ord[v[i]]]
  BY DEF Metric!Only
<1> HIDE DEF v, c, only
<1>7. /\ DOMAIN v = 1..c /\ \A i \in DOMAIN v : v[i] \in T /\ i \in Int
      /\ \A i, j \in DOMAIN v : i < j => v[i] < v[j]
      /\ \A x \in T : \E i \in DOMAIN v : v[i] = x
  BY <1>5 DEF Lists
<1>8. /\ DOMAIN only = DOMAIN v
      /\ \A i \in DOMAIN v : only[i] = ord[v[i]] /\ v[i] \in DOMAIN ord /\ ord[v[i]] \in R
  BY <1>6, <1>7
<1>9. \A i \in DOMAIN v : v[i] \in Int
  BY <1>2, <1>8
<1> HIDE DEF T
<1>10. only \in Seq(Nat)
  <2>1. \A i \in 1..c : ord[v[i]] \in Nat
    BY <1>1, <1>3, <1>7, <1>8
  <2>2. only \in [1..c -> Nat]
    BY <1>6, <1>7, <2>1
  <2> QED
    BY <1>5, <2>2, SeqDef
<1>11. \A n \in R : \E i \in DOMAIN only : only[i] = n
  <2> SUFFICES ASSUME NEW n \in R PROVE \E i \in DOMAIN only : only[i] = n
    OBVIOUS
  <2>1. PICK j \in DOMAIN ord : ord[j] = n
    BY <1>1 DEF Ordered
  <2>2. j \in T
    BY <2>1 DEF T
  <2> QED
    BY <1>7, <1>8, <2>1, <2>2
<1>12. ASSUME NEW i \in DOMAIN only, NEW j \in DOMAIN only, only[i] = only[j] PROVE i = j
  <2>1. v[i] = v[j]
    BY <1>8, <1>12 DEF Ordered
  <2> QED
    BY <1>7, <1>8, <1>9, <2>1
<1>13. ASSUME NEW i \in DOMAIN only, NEW d \in Dependencies(s, only[i])
       PROVE  \E j \in DOMAIN only : j < i /\ only[j] = d
  <2>1. v[i] \in DOMAIN ord /\ only[i] = ord[v[i]] /\ only[i] \in R
    BY <1>8
  <2>2. d \in R
    BY <1>1, <2>1 DEF Metric!Closed
  <2>3. PICK h \in DOMAIN ord : h < v[i] /\ ord[h] = d
    BY <2>1 DEF Ordered
  <2>4. h \in T
    BY <2>2, <2>3 DEF T
  <2>5. PICK j \in DOMAIN v : v[j] = h
    BY <1>7, <2>4
  <2>6. j < i
    BY <1>7, <1>8, <1>9, <2>3, <2>5
  <2> QED
    BY <1>8, <2>3, <2>5, <2>6
<1>14. Ordered(s, R, only)
  BY <1>8, <1>10, <1>11, <1>12, <1>13 DEF Ordered
<1> QED
  BY <1>14 DEF R, only

\* What an expression is worth when those it names are worth what f says.
Worth(s, n, x, f) ==
  IF \A m \in Dependencies(s, n) : f[m] # Undefined
  THEN Eval(s, n, x, [d \in Dependencies(s, n) |-> f[d]]) ELSE Undefined

LEMMA WorthIs ==
  ASSUME NEW s, NEW n, NEW x, NEW f
  PROVE  /\ (\A m \in Dependencies(s, n) : f[m] # Undefined) =>
              Worth(s, n, x, f) = Eval(s, n, x, [d \in Dependencies(s, n) |-> f[d]])
         /\ (\E m \in Dependencies(s, n) : f[m] = Undefined) => Worth(s, n, x, f) = Undefined
  BY DEF Worth

LEMMA WorthSame ==
  ASSUME NEW s, NEW n, NEW x, NEW f, NEW g, \A d \in Dependencies(s, n) : f[d] = g[d]
  PROVE  Worth(s, n, x, f) = Worth(s, n, x, g)
<1>1. [d \in Dependencies(s, n) |-> f[d]] = [d \in Dependencies(s, n) |-> g[d]]
  OBVIOUS
<1> QED
  BY <1>1 DEF Worth

\* Worths can be given to the first names of an order, one after the other.
LEMMA WorthsExist ==
  ASSUME NEW s, NEW all, NEW ord, Ordered(s, all, ord), NEW x
  PROVE  \E f : \A n \in all : f[n] = Worth(s, n, x, f)
<1> DEFINE Good(h) == \E f : \A i \in DOMAIN ord : i <= h => f[ord[i]] = Worth(s, ord[i], x, f)
           Bad == {h \in Nat : ~Good(h)}
<1>1. Len(ord) \in Nat /\ DOMAIN ord = 1..Len(ord) /\ \A i \in DOMAIN ord : i \in Nat \ {0}
  BY LenProperties DEF Ordered
<1>2. Bad = {}
  <2> SUFFICES ASSUME Bad # {} PROVE FALSE
    OBVIOUS
  <2>1. Bad \in SUBSET Nat
    OBVIOUS
  <2> HIDE DEF Bad
  <2>2. PICK h \in Bad : \A o \in Bad : h <= o
    BY <2>1, LeastNat
  <2>3. h \in Nat /\ ~Good(h)
    BY <2>2 DEF Bad
  <2>4. h # 0
    <3>1. \A i \in DOMAIN ord : ~(i <= 0)
      BY <1>1
    <3> QED
      BY <2>3, <3>1
  <2>5. PICK o \in Nat : o + 1 = h
    <3>1. h - 1 \in Nat /\ (h - 1) + 1 = h
      BY <2>3, <2>4
    <3> QED
      BY <3>1
  <2>6. Good(o)
    <3>1. ~(h <= o)
      BY <2>3, <2>5
    <3> HIDE DEF Good
    <3> QED
      BY <2>2, <2>5, <3>1 DEF Bad
  <2>7. PICK f : \A i \in DOMAIN ord : i <= o => f[ord[i]] = Worth(s, ord[i], x, f)
    BY <2>6
  <2>8. h \in DOMAIN ord
    <3>1. CASE h \notin DOMAIN ord
      <4>1. \A i \in DOMAIN ord : i <= h => i <= o
        BY <1>1, <2>3, <2>5, <3>1
      <4> QED
        BY <2>3, <2>7, <4>1
    <3> QED
      BY <3>1
  <2> DEFINE g == [m \in all |-> IF m = ord[h] THEN Worth(s, ord[h], x, f) ELSE f[m]]
  <2>9. ord[h] \in all /\ g[ord[h]] = Worth(s, ord[h], x, f)
    BY <2>8 DEF Ordered
  <2>10. ASSUME NEW i \in DOMAIN ord, i # h PROVE g[ord[i]] = f[ord[i]]
    <3>1. ord[i] \in all /\ ord[i] # ord[h]
      BY <2>8, <2>10 DEF Ordered
    <3> QED
      BY <3>1
  <2> HIDE DEF g
  <2>11. ASSUME NEW i \in DOMAIN ord, i <= h PROVE Worth(s, ord[i], x, g) = Worth(s, ord[i], x, f)
    <3>1. ASSUME NEW d \in Dependencies(s, ord[i]) PROVE g[d] = f[d]
      <4>1. PICK j \in DOMAIN ord : j < i /\ ord[j] = d
        BY DEF Ordered
      <4>2. j # h
        BY <1>1, <2>3, <2>11, <4>1
      <4> QED
        BY <2>10, <4>1, <4>2
    <3> QED
      BY <3>1, WorthSame
  <2>12. ASSUME NEW i \in DOMAIN ord, i <= h PROVE g[ord[i]] = Worth(s, ord[i], x, g)
    <3>1. CASE i = h
      BY <2>9, <2>11, <2>12, <3>1
    <3>2. CASE i # h
      <4>1. i <= o
        BY <1>1, <2>3, <2>5, <2>12, <3>2
      <4> QED
        BY <2>7, <2>10, <2>11, <2>12, <3>2, <4>1
    <3> QED
      BY <3>1, <3>2
  <2> QED
    BY <2>3, <2>12
<1>3. Good(Len(ord))
  <2> HIDE DEF Good
  <2> QED
    BY <1>1, <1>2
<1>4. PICK f : \A i \in DOMAIN ord : i <= Len(ord) => f[ord[i]] = Worth(s, ord[i], x, f)
  BY <1>3
<1>5. ASSUME NEW n \in all PROVE f[n] = Worth(s, n, x, f)
  <2>1. PICK i \in DOMAIN ord : ord[i] = n
    BY DEF Ordered
  <2>2. i <= Len(ord)
    BY <1>1
  <2> QED
    BY <1>4, <2>1, <2>2
<1> QED
  BY <1>5

\* The same with the values in a function of their own.
WorthOf(s, n, x, f) ==
  IF \A m \in Dependencies(s, n) : [d \in Dependencies(s, n) |-> f[d]][m] # Undefined
  THEN Eval(s, n, x, [d \in Dependencies(s, n) |-> f[d]]) ELSE Undefined

LEMMA WorthOfIs == \A s, n, x, f : WorthOf(s, n, x, f) = Worth(s, n, x, f)
<1> TAKE s, n, x, f
<1>1. \A m \in Dependencies(s, n) : [d \in Dependencies(s, n) |-> f[d]][m] = f[m]
  OBVIOUS
<1> QED
  BY <1>1 DEF Worth, WorthOf

\* The substitution has a solution when the names have an order, so Meaning is one.
LEMMA MeaningIs ==
  ASSUME NEW s, Referenced(s), NEW ord, Ordered(s, Metric!Required(s), ord), NEW x,
         NEW n \in Metric!Required(s)
  PROVE  Metric!Meaning(s, x)[n] = Worth(s, n, x, Metric!Meaning(s, x))
<1> DEFINE R == Metric!Reach(s, {s.result})
           Solves(f) == f = [r \in R |-> WorthOf(s, r, x, f)]
<1>1. R = Metric!Required(s)
  BY DEF Metric!Required
<1>2. Metric!Closed(s, R)
  <2>1. {s.result} \subseteq Metric!Names(s)
    BY DEF Referenced
  <2> QED
    BY <2>1, ReachIs
<1> HIDE DEF R
<1>3. Metric!Meaning(s, x) = CHOOSE f : Solves(f)
  BY Zenon DEF Metric!Meaning, R, WorthOf
<1>4. PICK g : \A r \in R : g[r] = Worth(s, r, x, g)
  BY <1>1, WorthsExist
<1> DEFINE f == [r \in R |-> g[r]]
<1>5. ASSUME NEW r \in R PROVE g[r] = WorthOf(s, r, x, f)
  <2>1. \A d \in Dependencies(s, r) : f[d] = g[d]
    BY <1>2 DEF Metric!Closed
  <2> HIDE DEF f
  <2>2. Worth(s, r, x, f) = Worth(s, r, x, g)
    BY <2>1, WorthSame
  <2>3. WorthOf(s, r, x, f) = Worth(s, r, x, f)
    BY WorthOfIs
  <2> QED
    BY <1>4, <2>2, <2>3
<1>6. Solves(f)
  <2> DEFINE h == [r \in R |-> WorthOf(s, r, x, f)]
  <2>1. DOMAIN h = R /\ h = [r \in R |-> h[r]] /\ \A r \in R : h[r] = g[r]
    BY <1>5
  <2>2. f = h
    <3> HIDE DEF h
    <3> QED
      BY <2>1
  <2> QED
    BY <2>2
<1> HIDE DEF f
<1>7. Solves(Metric!Meaning(s, x))
  <2>1. \E e : Solves(e)
    BY <1>6
  <2> HIDE DEF Solves
  <2> QED
    BY <1>3, <2>1
<1> DEFINE M == Metric!Meaning(s, x)
<1> HIDE DEF M
<1>8. M = [r \in R |-> WorthOf(s, r, x, M)]
  BY <1>7 DEF M
<1>9. \A r \in R : M[r] = WorthOf(s, r, x, M)
  BY <1>8
<1>10. n \in R
  BY <1>1
<1>11. M[n] = WorthOf(s, n, x, M)
  BY <1>9, <1>10
<1>12. WorthOf(s, n, x, M) = Worth(s, n, x, M)
  BY WorthOfIs
<1> QED
  BY <1>11, <1>12 DEF M

\* A result has a value only when everything it needs has one.
LEMMA MeaningSpreads ==
  ASSUME NEW s, Referenced(s), NEW ord, Ordered(s, Metric!Required(s), ord), NEW x,
         Metric!Meaning(s, x)[s.result] # Undefined, NEW n \in Metric!Required(s)
  PROVE  Metric!Meaning(s, x)[n] # Undefined
<1> DEFINE M == Metric!Meaning(s, x)
           all == {r \in Metric!Required(s) : M[r] # Undefined}
<1>1. /\ s.result \in Metric!Required(s) /\ Metric!Required(s) \subseteq Metric!Names(s)
      /\ Metric!Closed(s, Metric!Required(s))
  BY ReachIs DEF Metric!Required, Referenced
<1>2. \A r \in Metric!Required(s) : M[r] = Worth(s, r, x, M)
  BY MeaningIs
<1>3. M[s.result] # Undefined
  OBVIOUS
<1> HIDE DEF M
<1>4. Metric!Closed(s, all)
  <2> SUFFICES ASSUME NEW r \in all, NEW d \in Dependencies(s, r) PROVE d \in all
    BY DEF Metric!Closed
  <2>1. d \in Metric!Required(s)
    BY <1>1 DEF Metric!Closed
  <2>2. M[d] # Undefined
    <3>1. Worth(s, r, x, M) # Undefined
      BY <1>2
    <3> QED
      BY <3>1, WorthIs
  <2> QED
    BY <2>1, <2>2
<1>5. all \subseteq Metric!Names(s) /\ {s.result} \subseteq all
  BY <1>1, <1>3
<1> HIDE DEF all
<1>6. Metric!Reach(s, {s.result}) \subseteq all
  BY <1>4, <1>5, ReachWithin
<1>7. n \in all
  BY <1>6 DEF Metric!Required
<1> QED
  BY <1>7 DEF all, M

LEMMA NothingIsOrdered ==
  ASSUME NEW s PROVE Path(s, {}, <<>>) /\ Ordered(s, {}, <<>>)
<1> DEFINE F == Frames(s, {})
<1> HIDE DEF F
<1>1. PICK q : q = <<>>
  OBVIOUS
<1>2. q \in Seq(F) /\ q \in Seq(Nat) /\ DOMAIN q = {}
  BY <1>1
<1>3. Path(s, {}, q) /\ Ordered(s, {}, q)
  BY <1>2 DEF Path, Ordered, F
<1> QED
  BY <1>1, <1>3

Visiting ==
  /\ Referenced(spec) /\ visited \subseteq Metric!Names(spec)
  /\ Path(spec, visited, stack) /\ Ordered(spec, visited, order)

Faulty ==
  \/ spec.result \notin Metric!Names(spec)
  \/ \E n \in Metric!Names(spec) : ~Metric!Accepted(spec, n)
  \/ Metric!Cyclic(spec)

Compiled ==
  /\ Referenced(spec) /\ ~Metric!Cyclic(spec)
  /\ Ordered(spec, Metric!Required(spec), order)

\* What compiling has done by then: the order is that of the names visited, those being
\* visited are a path, and both leave the compiled order behind.
CompileInv ==
  /\ spec \in Specs
  /\ phase \in {"parse", "visit", "refused", "compiled", "evaluate"}
  /\ phase = "parse" => visited = {} /\ stack = <<>> /\ order = <<>>
  /\ phase = "visit" => Visiting
  /\ phase = "refused" => Faulty
  /\ phase \in {"compiled", "evaluate"} => Compiled

LEMMA CompileInit == Metric!Init => CompileInv
  BY DEF Metric!Init, CompileInv

LEMMA CompileParse ==
  ASSUME CompileInv, Metric!Parse PROVE CompileInv'
<1>1. /\ spec \in Specs /\ visited = {} /\ stack = <<>> /\ order = <<>>
      /\ spec' = spec /\ visited' = visited /\ stack' = stack /\ order' = order
  BY DEF CompileInv, Metric!Parse, Metric!compiling
<1>2. CASE spec.result \in Metric!Names(spec) /\ \A n \in Metric!Names(spec) : Metric!Accepted(spec, n)
  <2>1. phase' = "visit"
    BY <1>2 DEF Metric!Parse
  <2>2. Referenced(spec)
    BY <1>1, <1>2 DEF Referenced, Metric!Accepted
  <2>3. Path(spec, {}, <<>>) /\ Ordered(spec, {}, <<>>)
    BY NothingIsOrdered
  <2>4. Visiting'
    BY <1>1, <2>2, <2>3 DEF Visiting
  <2> QED
    BY <1>1, <2>1, <2>4 DEF CompileInv
<1>3. CASE ~(spec.result \in Metric!Names(spec) /\ \A n \in Metric!Names(spec) : Metric!Accepted(spec, n))
  <2>1. phase' = "refused"
    BY <1>3 DEF Metric!Parse
  <2>2. Faulty'
    BY <1>1, <1>3 DEF Faulty
  <2> QED
    BY <1>1, <2>1, <2>2 DEF CompileInv
<1> QED
  BY <1>2, <1>3

LEMMA CompileVisitDeclared ==
  ASSUME CompileInv, Metric!VisitDeclared PROVE CompileInv'
<1>1. /\ spec \in Specs /\ phase = "visit" /\ Visiting
      /\ spec' = spec /\ phase' = phase /\ visited' = visited /\ order' = order
  BY DEF CompileInv, Metric!VisitDeclared
<1>2. PICK n \in Metric!Names(spec) \ visited : stack' = <<[name |-> n, todo |-> Dependencies(spec, n)]>>
  <2>1. PICK i \in DOMAIN spec.declared :
          spec.declared[i] \notin visited /\ stack' = <<Metric!Frame(spec.declared[i])>>
    BY DEF Metric!VisitDeclared
  <2>2. spec.declared[i] \in Metric!Names(spec)
    BY <1>1, SpecIs
  <2> QED
    BY <2>1, <2>2 DEF Metric!Frame
<1>3. Path(spec, visited, <<[name |-> n, todo |-> Dependencies(spec, n)]>>)
  BY <1>1, PathStart DEF Visiting
<1>4. Path(spec, visited, stack')
  BY <1>2, <1>3
<1>5. Visiting'
  BY <1>1, <1>4 DEF Visiting
<1> QED
  BY <1>1, <1>5 DEF CompileInv

LEMMA CompileVisitDependency ==
  ASSUME CompileInv, Metric!VisitDependency PROVE CompileInv'
<1> DEFINE l == Len(stack)
           n == CHOOSE d \in stack[l].todo : \A e \in stack[l].todo : d <= e
           rest == Rest(stack, n)
<1>1. /\ spec \in Specs /\ phase = "visit" /\ Visiting /\ stack # <<>>
      /\ spec' = spec /\ visited' = visited /\ order' = order
  BY DEF CompileInv, Metric!VisitDependency
<1>2. Metric!Last(stack) = stack[l]
  BY DEF Metric!Last
<1>3. /\ stack[l].todo # {}
      /\ phase' = IF Metric!OnStack(n) THEN "refused" ELSE phase
      /\ stack' = IF n \in visited \/ Metric!OnStack(n) THEN rest
                  ELSE Append(rest, [name |-> n, todo |-> Dependencies(spec, n)])
  BY <1>2 DEF Metric!VisitDependency, Metric!Frame, Rest
<1>4. Referenced(spec) /\ Path(spec, visited, stack)
  BY <1>1 DEF Visiting
<1>5. /\ l \in DOMAIN stack /\ stack[l].todo \subseteq Metric!Names(spec)
      /\ stack[l].todo \subseteq Dependencies(spec, stack[l].name)
  <2>1. l \in DOMAIN stack
    BY <1>1, <1>4, RestIs
  <2> HIDE DEF l
  <2> QED
    BY <1>4, <2>1, OnPath DEF Path
<1>6. n \in stack[l].todo
  <2>1. stack[l].todo \in SUBSET Nat
    BY <1>1, <1>5, SpecIs
  <2> HIDE DEF l
  <2>2. \E d \in stack[l].todo : \A e \in stack[l].todo : d <= e
    BY <1>3, <2>1, LeastNat
  <2> QED
    BY <2>2
<1> HIDE DEF n, rest
<1>7. CASE Metric!OnStack(n)
  <2>1. PICK i \in DOMAIN stack : stack[i].name = n
    BY <1>7 DEF Metric!OnStack
  <2>2. stack[i].name \in Dependencies(spec, stack[Len(stack)].name)
    BY <1>5, <1>6, <2>1
  <2>3. Metric!Cyclic(spec)
    BY <1>4, <2>2, PathCycle
  <2>4. Faulty' /\ phase' = "refused"
    BY <1>1, <1>3, <1>7, <2>3 DEF Faulty
  <2> QED
    BY <1>1, <2>4 DEF CompileInv
<1>8. CASE ~Metric!OnStack(n)
  <2>1. phase' = "visit"
    BY <1>1, <1>3, <1>8
  <2>2. CASE n \in visited
    <3>1. Path(spec, visited, rest)
      BY <1>1, <1>4, <2>2, PathDone DEF rest
    <3>2. stack' = rest
      BY <1>3, <2>2
    <3>3. Visiting'
      BY <1>1, <3>1, <3>2 DEF Visiting
    <3> QED
      BY <1>1, <2>1, <3>3 DEF CompileInv
  <2>3. CASE n \notin visited
    <3>1. \A i \in DOMAIN stack : stack[i].name # n
      BY <1>8 DEF Metric!OnStack
    <3>2. Path(spec, visited, Append(rest, [name |-> n, todo |-> Dependencies(spec, n)]))
      BY <1>1, <1>4, <1>6, <2>3, <3>1, PathPush DEF rest
    <3>3. stack' = Append(rest, [name |-> n, todo |-> Dependencies(spec, n)])
      BY <1>3, <1>8, <2>3
    <3>4. Path(spec, visited, stack')
      BY <3>2, <3>3
    <3>5. Visiting'
      BY <1>1, <3>4 DEF Visiting
    <3> QED
      BY <1>1, <2>1, <3>5 DEF CompileInv
  <2> QED
    BY <2>2, <2>3
<1> QED
  BY <1>7, <1>8

LEMMA CompileFinish ==
  ASSUME CompileInv, Metric!Finish PROVE CompileInv'
<1> DEFINE n == stack[Len(stack)].name
<1>1. /\ spec \in Specs /\ phase = "visit" /\ Visiting /\ stack # <<>>
      /\ spec' = spec /\ phase' = phase
  BY DEF CompileInv, Metric!Finish
<1>2. /\ stack[Len(stack)].todo = {} /\ visited' = visited \cup {n}
      /\ order' = Append(order, n) /\ stack' = Metric!Front(stack)
  BY DEF Metric!Finish, Metric!Last
<1>3. /\ Referenced(spec) /\ Path(spec, visited, stack) /\ Ordered(spec, visited, order)
      /\ visited \subseteq Metric!Names(spec)
  BY <1>1 DEF Visiting
<1>4. n \in Metric!Names(spec)
  <2>1. Len(stack) \in DOMAIN stack
    BY <1>1, <1>3, RestIs
  <2> QED
    BY <1>3, <2>1, OnPath
<1>5. /\ Path(spec, visited \cup {n}, Metric!Front(stack))
      /\ Ordered(spec, visited \cup {n}, Append(order, n))
  BY <1>1, <1>2, <1>3, PathPop
<1> HIDE DEF n
<1>6. Visiting'
  BY <1>1, <1>2, <1>3, <1>4, <1>5 DEF Visiting
<1> QED
  BY <1>1, <1>6 DEF CompileInv

LEMMA CompileCompile ==
  ASSUME CompileInv, Metric!Compile PROVE CompileInv'
<1>1. /\ spec \in Specs /\ Visiting /\ spec' = spec /\ visited = Metric!Names(spec)
      /\ order' = Metric!Only(order, Metric!Required(spec)) /\ phase' = "compiled"
  BY DEF CompileInv, Metric!Compile
<1>2. Referenced(spec) /\ Ordered(spec, Metric!Names(spec), order)
  BY <1>1 DEF Visiting
<1>3. ~Metric!Cyclic(spec)
  BY <1>2, OrderedIsAcyclic
<1>4. Ordered(spec, Metric!Required(spec), Metric!Only(order, Metric!Required(spec)))
  BY <1>2, OnlyIs
<1>5. Compiled'
  BY <1>1, <1>2, <1>3, <1>4 DEF Compiled
<1> QED
  BY <1>1, <1>5 DEF CompileInv

\* A call leaves what was compiled alone.
LEMMA CompileCall ==
  ASSUME CompileInv, phase \in {"compiled", "evaluate"}, phase' \in {"compiled", "evaluate"},
         UNCHANGED <<spec, order>>
  PROVE  CompileInv'
<1>1. Compiled /\ spec' = spec /\ order' = order
  BY DEF CompileInv
<1>2. Compiled'
  BY <1>1 DEF Compiled
<1> QED
  BY <1>1, <1>2 DEF CompileInv

\* What a call returns for a meaning.
Answer(meaning) ==
  IF meaning = Undefined THEN Undefined ELSE IF meaning < 0 THEN Undefined ELSE meaning

LEMMA AnswerIs ==
  /\ Answer(Undefined) = Undefined
  /\ \A m : m # Undefined => Answer(m) = IF m < 0 THEN Undefined ELSE m
  BY DEF Answer

\* What is derived so far is what the first names of the order mean, and has a value.
Computed ==
  /\ derived \in Seq({Metric!Meaning(spec, link)[n] : n \in Metric!Required(spec)})
  /\ Len(derived) <= Len(order)
  /\ \A i \in DOMAIN derived :
       derived[i] = Metric!Meaning(spec, link)[order[i]] /\ derived[i] # Undefined

CallInv ==
  /\ phase \in {"parse", "visit"} => link = Undefined
  /\ phase = "evaluate" => Computed
  /\ phase = "compiled" /\ link # Undefined =>
       outcome = Answer(Metric!Meaning(spec, link)[spec.result])

LEMMA CallInit == Metric!Init => CallInv
  BY DEF Metric!Init, CallInv

\* Compiling calls nothing.
LEMMA CallNone ==
  ASSUME CallInv, phase \in {"parse", "visit"}, link' = link,
         phase' \in {"parse", "visit", "refused", "compiled"}
  PROVE  CallInv'
  BY DEF CallInv

LEMMA CallBegins ==
  ASSUME CompileInv, NEW x \in Links, Metric!Call(x) PROVE CallInv'
<1>1. /\ phase' = "evaluate" /\ derived' = <<>> /\ order' = order /\ Compiled
  BY DEF Metric!Call, Metric!compiling, CompileInv
<1>2. Len(order) \in Nat
  BY <1>1, LenProperties DEF Compiled, Ordered
<1> DEFINE V == {Metric!Meaning(spec', link')[n] : n \in Metric!Required(spec')}
<1>3. <<>> \in Seq(V) /\ Len(<<>>) = 0
  <2> HIDE DEF V
  <2> QED
    BY EmptySeq
<1>4. DOMAIN derived' = {} /\ Len(derived') = 0
  BY <1>1
<1>5. Computed'
  BY <1>1, <1>2, <1>3, <1>4 DEF Computed
<1> QED
  BY <1>1, <1>5 DEF CallInv

\* The next name means what is derived for it.
LEMMA NextIsMeaning ==
  ASSUME NEW s, Referenced(s), NEW ord, Ordered(s, Metric!Required(s), ord), NEW x,
         NEW here \in DOMAIN ord, NEW known,
         \A m \in Dependencies(s, ord[here]) :
           Metric!Meaning(s, x)[m] # Undefined /\ known[m] = Metric!Meaning(s, x)[m],
         known = [m \in Dependencies(s, ord[here]) |-> known[m]]
  PROVE  Metric!Meaning(s, x)[ord[here]] = Eval(s, ord[here], x, known)
<1> DEFINE M == Metric!Meaning(s, x)
           n == ord[here]
<1>1. n \in Metric!Required(s)
  BY DEF Ordered
<1>2. M[n] = Worth(s, n, x, M)
  BY <1>1, MeaningIs
<1>3. \A m \in Dependencies(s, n) : M[m] # Undefined /\ known[m] = M[m]
  OBVIOUS
<1> HIDE DEF M, n
<1>4. Worth(s, n, x, M) = Eval(s, n, x, [d \in Dependencies(s, n) |-> M[d]])
  BY <1>3, WorthIs
<1>5. [d \in Dependencies(s, n) |-> M[d]] = known
  <2>1. known = [m \in Dependencies(s, n) |-> known[m]]
    BY DEF n
  <2> QED
    BY <1>3, <2>1
<1>6. M[n] = Eval(s, n, x, known)
  BY <1>2, <1>4, <1>5
<1> QED
  BY <1>6 DEF M, n

LEMMA CallEvaluates ==
  ASSUME CompileInv, CallInv, Metric!EvaluateNext PROVE CallInv'
<1> DEFINE here == Len(derived) + 1
           n == order[here]
           M == Metric!Meaning(spec, link)
           known == Metric!Known(n)
           value == Eval(spec, n, link, known)
           V == {M[r] : r \in Metric!Required(spec)}
<1>1. /\ phase = "evaluate" /\ Compiled /\ Computed
      /\ spec' = spec /\ order' = order /\ link' = link /\ Len(derived) < Len(order)
  BY DEF Metric!EvaluateNext, Metric!compiling, CompileInv, CallInv
<1>2. /\ value = Undefined => outcome' = Undefined /\ phase' = "compiled"
      /\ value # Undefined => derived' = Append(derived, value) /\ phase' = "evaluate"
  BY <1>1 DEF Metric!EvaluateNext
<1>3. Referenced(spec) /\ Ordered(spec, Metric!Required(spec), order)
  BY <1>1 DEF Compiled
<1>4. Len(order) \in Nat /\ DOMAIN order = 1..Len(order)
  BY <1>3, LenProperties DEF Ordered
<1>5. derived \in Seq(V)
  BY <1>1 DEF Computed
<1>6. \A i \in DOMAIN derived : derived[i] = M[order[i]] /\ derived[i] # Undefined
  BY <1>1 DEF Computed
<1>7. known = [m \in Dependencies(spec, n) |->
                 IF \E i \in DOMAIN derived : order[i] = m
                 THEN derived[CHOOSE i \in DOMAIN derived : order[i] = m] ELSE Undefined]
  BY Zenon DEF Metric!Known, known
<1> HIDE DEF V, M, known
<1>8. Len(derived) \in Nat /\ DOMAIN derived = 1..Len(derived)
  BY <1>5, LenProperties
<1>9. here \in DOMAIN order /\ here \in Nat /\ \A i \in DOMAIN order : i < here => i \in DOMAIN derived
  BY <1>1, <1>4, <1>8
<1> HIDE DEF here
<1>10. n \in Metric!Required(spec)
  BY <1>3, <1>9 DEF Ordered
<1>11. ASSUME NEW m \in Dependencies(spec, n) PROVE M[m] # Undefined /\ known[m] = M[m]
  <2>1. PICK j \in DOMAIN order : j < here /\ order[j] = m
    BY <1>3, <1>9 DEF Ordered
  <2>2. j \in DOMAIN derived
    BY <1>9, <2>1
  <2> DEFINE i == CHOOSE i \in DOMAIN derived : order[i] = m
  <2>3. i \in DOMAIN derived /\ order[i] = m
    BY <2>1, <2>2
  <2>4. known[m] = derived[i]
    BY <1>7, <2>1, <2>2
  <2> HIDE DEF i, n
  <2> QED
    BY <1>6, <2>3, <2>4
<1>12. known = [m \in Dependencies(spec, n) |-> known[m]]
  BY <1>7
<1>13. M[n] = value
  BY <1>3, <1>9, <1>11, <1>12, NextIsMeaning DEF M
<1> HIDE DEF value
<1>14. CASE value = Undefined
  <2>1. Metric!Meaning(spec, link)[spec.result] = Undefined
    BY <1>3, <1>10, <1>13, <1>14, MeaningSpreads DEF M
  <2>2. outcome' = Answer(Metric!Meaning(spec, link)[spec.result])
    BY <1>2, <1>14, <2>1, AnswerIs
  <2> QED
    BY <1>1, <1>2, <1>14, <2>2 DEF CallInv
<1>15. CASE value # Undefined
  <2>1. value \in V
    BY <1>10, <1>13 DEF V
  <2> DEFINE next == Append(derived, value)
  <2>2. /\ next \in Seq(V) /\ Len(next) = Len(derived) + 1
        /\ \A i : i \in DOMAIN next <=> i \in DOMAIN derived \/ i = Len(derived) + 1
        /\ \A i \in DOMAIN derived : next[i] = derived[i]
        /\ next[Len(derived) + 1] = value
    BY <1>5, <2>1, AppendIs
  <2>3. derived' = next
    BY <1>2, <1>15
  <2> HIDE DEF next
  <2>4. Len(next) <= Len(order)
    BY <1>1, <1>4, <1>8, <2>2
  <2>5. \A i \in DOMAIN next : next[i] = M[order[i]] /\ next[i] # Undefined
    <3>1. \A i : i \in DOMAIN next <=> i \in DOMAIN derived \/ i = here
      BY <2>2 DEF here
    <3>2. next[here] = value
      BY <2>2 DEF here
    <3> QED
      BY <1>6, <1>13, <1>15, <2>2, <3>1, <3>2
  <2>6. Computed'
    <3>1. derived' \in Seq({Metric!Meaning(spec', link')[r] : r \in Metric!Required(spec')})
      BY <1>1, <2>2, <2>3 DEF V, M
    <3>2. \A i \in DOMAIN derived' :
            derived'[i] = Metric!Meaning(spec', link')[order'[i]] /\ derived'[i] # Undefined
      BY <1>1, <2>3, <2>5 DEF M
    <3> QED
      BY <1>1, <2>3, <2>4, <3>1, <3>2 DEF Computed
  <2> QED
    BY <1>2, <1>15, <2>6 DEF CallInv
<1> QED
  BY <1>14, <1>15

LEMMA CallReturns ==
  ASSUME CompileInv, CallInv, Metric!Return PROVE CallInv'
<1> DEFINE i == CHOOSE i \in DOMAIN order : order[i] = spec.result
           M == Metric!Meaning(spec, link)
<1>1. /\ phase' = "compiled" /\ Compiled /\ Computed /\ spec' = spec /\ link' = link
      /\ Len(derived) = Len(order)
      /\ outcome' = IF derived[i] < 0 THEN Undefined ELSE derived[i]
  BY DEF Metric!Return, Metric!compiling, CompileInv, CallInv
<1>2. Referenced(spec) /\ Ordered(spec, Metric!Required(spec), order)
  BY <1>1 DEF Compiled
<1>3. i \in DOMAIN order /\ order[i] = spec.result
  <2>1. spec.result \in Metric!Required(spec)
    BY <1>2, ReachIs DEF Metric!Required, Referenced
  <2>2. \E h \in DOMAIN order : order[h] = spec.result
    BY <1>2, <2>1 DEF Ordered
  <2> QED
    BY <2>2
<1> HIDE DEF i
<1>4. i \in DOMAIN derived
  <2> DEFINE V == {M[r] : r \in Metric!Required(spec)}
  <2>1. derived \in Seq(V)
    BY <1>1 DEF Computed
  <2> HIDE DEF V
  <2>2. DOMAIN derived = 1..Len(derived)
    BY <2>1, LenProperties
  <2>3. DOMAIN order = 1..Len(order)
    BY <1>2, LenProperties DEF Ordered
  <2> QED
    BY <1>1, <1>3, <2>2, <2>3
<1>5. derived[i] = M[spec.result] /\ derived[i] # Undefined
  BY <1>1, <1>3, <1>4 DEF Computed
<1> HIDE DEF M
<1>6. outcome' = Answer(M[spec.result])
  <2> PICK m : m = derived[i]
    OBVIOUS
  <2>1. Answer(m) = IF m < 0 THEN Undefined ELSE m
    BY <1>5 DEF Answer
  <2> QED
    BY <1>1, <1>5, <2>1
<1>7. outcome' = Answer(Metric!Meaning(spec', link')[spec'.result])
  BY <1>1, <1>6 DEF M
<1> QED
  BY <1>1, <1>7 DEF CallInv

LEMMA MetricInit == Metric!Init => CompileInv /\ CallInv
  BY CompileInit, CallInit

LEMMA MetricStep ==
  ASSUME CompileInv, CallInv, [Metric!Next]_(Metric!vars)
  PROVE  CompileInv' /\ CallInv'
<1>1. CASE UNCHANGED Metric!vars
  <2>1. CompileInv'
    BY <1>1 DEF Metric!vars, Metric!compiling, CompileInv, Visiting, Faulty, Compiled
  <2>2. CallInv'
    BY <1>1 DEF Metric!vars, Metric!compiling, Metric!calling, CallInv, Computed
  <2> QED
    BY <2>1, <2>2
<1>2. CASE Metric!Parse
  <2>1. phase \in {"parse", "visit"} /\ link' = link /\ phase' \in {"visit", "refused"}
    BY <1>2 DEF Metric!Parse, Metric!calling
  <2> QED
    BY <1>2, <2>1, CompileParse, CallNone
<1>3. CASE Metric!VisitDeclared
  <2>1. phase \in {"parse", "visit"} /\ link' = link /\ phase' = phase
    BY <1>3 DEF Metric!VisitDeclared, Metric!calling
  <2> QED
    BY <1>3, <2>1, CompileVisitDeclared, CallNone
<1>4. CASE Metric!VisitDependency
  <2>1. phase = "visit" /\ link' = link /\ phase' \in {"visit", "refused"}
    BY <1>4 DEF Metric!VisitDependency, Metric!calling
  <2> QED
    BY <1>4, <2>1, CompileVisitDependency, CallNone
<1>5. CASE Metric!Finish
  <2>1. phase \in {"parse", "visit"} /\ link' = link /\ phase' = phase
    BY <1>5 DEF Metric!Finish, Metric!calling
  <2> QED
    BY <1>5, <2>1, CompileFinish, CallNone
<1>6. CASE Metric!Compile
  <2>1. phase = "visit" /\ link' = link /\ phase' = "compiled"
    BY <1>6 DEF Metric!Compile, Metric!calling
  <2> QED
    BY <1>6, <2>1, CompileCompile, CallNone
<1>7. CASE \E x \in Links : Metric!Call(x)
  <2>1. PICK x \in Links : Metric!Call(x)
    BY <1>7
  <2>2. phase = "compiled" /\ phase' = "evaluate" /\ spec' = spec /\ order' = order
    BY <2>1 DEF Metric!Call, Metric!compiling
  <2> QED
    BY <2>1, <2>2, CompileCall, CallBegins
<1>8. CASE Metric!EvaluateNext
  <2>1. /\ phase = "evaluate" /\ phase' \in {"compiled", "evaluate"}
        /\ spec' = spec /\ order' = order
    BY <1>8 DEF Metric!EvaluateNext, Metric!compiling
  <2> QED
    BY <1>8, <2>1, CompileCall, CallEvaluates
<1>9. CASE Metric!Return
  <2>1. phase = "evaluate" /\ phase' = "compiled" /\ spec' = spec /\ order' = order
    BY <1>9 DEF Metric!Return, Metric!compiling
  <2> QED
    BY <1>9, <2>1, CompileCall, CallReturns
<1> QED
  BY <1>1, <1>2, <1>3, <1>4, <1>5, <1>6, <1>7, <1>8, <1>9 DEF Metric!Next

\* A specification that compiles has an order without circles in which everything the
\* result needs is there once and behind what it names, one is refused for a reason
\* only, and however often the metric is called it returns what the specification means
\* for the link, for any specifications and links (_topological_order,
\* CompiledMetric.__call__).
THEOREM MetricsAreSound == Metric!Spec => []CompiledMetricIsSound
<1>1. CompileInv => Metric!OrderIsUsable
  <2> SUFFICES ASSUME CompileInv PROVE Metric!OrderIsUsable
    OBVIOUS
  <2>1. CASE phase \in {"compiled", "evaluate"}
    <3>1. Ordered(spec, Metric!Required(spec), order) /\ ~Metric!Cyclic(spec)
      BY <2>1 DEF CompileInv, Compiled
    <3>2. Metric!ToSet(order) = Metric!Reach(spec, {spec.result})
      <4> DEFINE all == Metric!Required(spec)
      <4>1. /\ \A i \in DOMAIN order : order[i] \in all
            /\ \A n \in all : \E i \in DOMAIN order : order[i] = n
        BY <3>1 DEF Ordered
      <4> HIDE DEF all
      <4>2. \A n \in Metric!ToSet(order) : n \in all
        BY <4>1 DEF Metric!ToSet
      <4>3. \A n \in all : n \in Metric!ToSet(order)
        BY <4>1 DEF Metric!ToSet
      <4>4. Metric!ToSet(order) = all
        BY <4>2, <4>3
      <4> QED
        BY <4>4 DEF all, Metric!Required
    <3>3. /\ \A i, j \in DOMAIN order : order[i] = order[j] => i = j
          /\ \A i \in DOMAIN order : \A n \in Dependencies(spec, order[i]) :
               \E j \in DOMAIN order : j < i /\ order[j] = n
      BY <3>1 DEF Ordered
    <3> QED
      BY <2>1, <3>1, <3>2, <3>3 DEF Metric!OrderIsUsable
  <2>2. CASE phase \notin {"compiled", "evaluate"}
    BY <2>2 DEF CompileInv, Faulty, Metric!OrderIsUsable
  <2> QED
    BY <2>1, <2>2
<1>2. CallInv => Metric!MetricIsMeaning
  BY DEF CallInv, Answer, Metric!MetricIsMeaning
<1>3. CompileInv /\ CallInv => CompiledMetricIsSound
  BY <1>1, <1>2 DEF CompiledMetricIsSound
<1> QED
  BY MetricInit, MetricStep, <1>3, PTL DEF Metric!Spec

-----------------------------------------------------------------------------
(* The link profile *)

LEMMA ViewIs ==
  ASSUME NEW v \in Views
  PROVE  /\ v.tx.x \in Int /\ v.tx.y \in Int /\ v.way.x \in Int /\ v.way.y \in Int
         /\ v.tx_ha \in Int /\ v.rx_ha \in Int
         /\ v.way.unit \in Nat \ {0} /\ v.length \in Nat
         /\ Profile!IsRaster(v.dtm) /\ Profile!IsRaster(v.dsm) /\ Profile!IsRaster(v.cover)
  BY ProfileAssumption DEF Profile!ViewsAreRasters

\* The greatest and the least of some numbers.
LEMMA ExtremesAre ==
  ASSUME NEW S, IsFiniteSet(S), S # {}, S \subseteq Int
  PROVE  /\ Profile!Max(S) \in S /\ \A x \in S : x <= Profile!Max(S)
         /\ Profile!Min(S) \in S /\ \A x \in S : Profile!Min(S) <= x
<1>1. Profile!Max(S) = Antenna!Max(S) /\ Profile!Min(S) = Antenna!Min(S)
  BY Zenon DEF Profile!Max, Antenna!Max, Profile!Min, Antenna!Min
<1>2. PICK n, v : n \in Nat \ {0} /\ Lists(v, n, S)
  BY SortedLists
<1>3. /\ v[1] \in S /\ v[n] \in S /\ \A x \in S : v[1] <= x /\ x <= v[n]
      /\ Antenna!Min(S) = v[1] /\ Antenna!Max(S) = v[n]
  BY <1>2, EndsOfList
<1> QED
  BY <1>1, <1>3

\* The pixels of a raster are numbered, placed and read from a row.
LEMMA PixelsAre ==
  ASSUME NEW r, Profile!IsRaster(r)
  PROVE  /\ IsFiniteSet(DOMAIN Profile!Pixels(r)) /\ DOMAIN Profile!Pixels(r) \subseteq Nat
         /\ \A i \in DOMAIN Profile!Pixels(r) :
              /\ Profile!Pixels(r)[i].x \in Int /\ Profile!Pixels(r)[i].y \in Int
              /\ \E a \in DOMAIN r.rows : \E b \in DOMAIN r.rows[a] :
                   Profile!Pixels(r)[i].v = r.rows[a][b]
<1> DEFINE w == Len(r.rows[1])
           h == Len(r.rows)
           n == h * w
           pixel(i) == [x |-> r.west + r.bin * ((i - 1) % w) + r.bin \div 2,
                        y |-> r.north - r.bin * ((i - 1) \div w) - r.bin \div 2,
                        v |-> r.rows[((i - 1) \div w) + 1][((i - 1) % w) + 1]]
<1>1. Profile!Pixels(r) = [i \in 1..n |-> pixel(i)]
  BY Zenon DEF Profile!Pixels
<1>2. /\ w \in Nat /\ h \in Nat \ {0} /\ r.bin \in Nat \ {0} /\ r.west \in Int /\ r.north \in Int
      /\ DOMAIN r.rows = 1..h /\ \A a \in DOMAIN r.rows : DOMAIN r.rows[a] = 1..w
  BY DEF Profile!IsRaster
<1> HIDE DEF w, h
<1>3. n \in Nat
  BY <1>2
<1> HIDE DEF n
<1>4. IsFiniteSet(1..n) /\ 1..n \subseteq Nat
  BY <1>3, FS_Interval
<1>5. ASSUME NEW i \in 1..n
      PROVE  /\ pixel(i).x \in Int /\ pixel(i).y \in Int
             /\ \E a \in DOMAIN r.rows : \E b \in DOMAIN r.rows[a] : pixel(i).v = r.rows[a][b]
  <2>1. w # 0
    <3>1. CASE w = 0
      <4>1. n = 0
        BY <1>2, <3>1 DEF n
      <4> QED
        BY <4>1
    <3> QED
      BY <3>1
  <2>2. PICK m \in Nat : m = i - 1 /\ m < n
    <3>1. i - 1 \in Nat /\ i - 1 < n
      BY <1>3
    <3> QED
      BY <3>1
  <2>3. PICK u \in Nat \ {0} : u = w
    BY <1>2, <2>1
  <2>4. m % u \in Nat /\ m % u < u /\ m \div u \in Int /\ m = (u * (m \div u)) + (m % u)
    BY <2>2, <2>3
  <2>5. PICK q \in Int, t \in Nat : q = m \div u /\ t = m % u
    BY <2>4
  <2>6. q >= 0 /\ q < h
    <3>1. m = u * q + t /\ t < u
      BY <2>4, <2>5
    <3>2. n = h * u
      BY <2>3 DEF n
    <3>3. CASE q < 0
      <4>1. u * q <= -u
        <5>1. q <= -1 /\ u > 0
          BY <3>3
        <5>2. u * q <= u * (-1)
          BY <5>1
        <5> QED
          BY <5>2
      <4> QED
        BY <2>2, <3>1, <4>1
    <3>4. CASE q >= h
      <4>1. u * q >= u * h
        BY <1>2, <3>4
      <4>2. u * h = h * u
        BY <1>2
      <4> QED
        BY <1>2, <1>3, <2>2, <3>1, <3>2, <4>1, <4>2
    <3> QED
      BY <1>2, <3>3, <3>4
  <2>7. q + 1 \in 1..h /\ t + 1 \in 1..w
    BY <1>2, <2>3, <2>4, <2>5, <2>6
  <2>8. pixel(i) = [x |-> r.west + r.bin * t + r.bin \div 2,
                    y |-> r.north - r.bin * q - r.bin \div 2, v |-> r.rows[q + 1][t + 1]]
    BY <2>2, <2>3, <2>5
  <2>9. r.bin * t \in Int /\ r.bin * q \in Int /\ r.bin \div 2 \in Int
    BY <1>2
  <2>10. /\ pixel(i).x = r.west + r.bin * t + r.bin \div 2
         /\ pixel(i).y = r.north - r.bin * q - r.bin \div 2
         /\ pixel(i).v = r.rows[q + 1][t + 1]
    BY <2>8
  <2> HIDE DEF pixel
  <2>11. pixel(i).x \in Int /\ pixel(i).y \in Int
    <3>1. PICK bt \in Int : bt = r.bin * t
      BY <2>9
    <3>2. PICK bq \in Int : bq = r.bin * q
      BY <2>9
    <3>3. PICK half \in Int : half = r.bin \div 2
      BY <2>9
    <3>4. pixel(i).x = r.west + bt + half /\ pixel(i).y = r.north - bq - half
      BY <2>10, <3>1, <3>2, <3>3
    <3> QED
      BY <1>2, <3>4
  <2>12. q + 1 \in DOMAIN r.rows /\ t + 1 \in DOMAIN r.rows[q + 1]
    BY <1>2, <2>7
  <2> QED
    BY <2>10, <2>11, <2>12
<1> HIDE DEF pixel
<1> QED
  BY <1>1, <1>4, <1>5

\* Where a pixel is in the frame of the link.
LEMMA PlaceIs ==
  ASSUME view \in Views, NEW p, p.x \in Int, p.y \in Int
  PROVE  Profile!Along(p) \in Int /\ Profile!Across(p) \in Int
<1>1. /\ view.tx.x \in Int /\ view.tx.y \in Int /\ view.way.x \in Int /\ view.way.y \in Int
      /\ view.way.unit \in Nat \ {0}
  BY ViewIs
<1>2. PICK x \in Int : x = p.x - view.tx.x
  BY <1>1
<1>5. PICK y \in Int : y = p.y - view.tx.y
  BY <1>1
<1>6. PICK e \in Int : e = view.way.x
  BY <1>1
<1>7. PICK n \in Int : n = view.way.y
  BY <1>1
<1>8. PICK u \in Nat \ {0} : u = view.way.unit
  BY <1>1
<1>3. Profile!Along(p) = (x * e + y * n) \div u /\ Profile!Across(p) = (y * e - x * n) \div u
  BY <1>2, <1>5, <1>6, <1>7, <1>8 DEF Profile!Along, Profile!Across
<1>4. (x * e + y * n) \div u \in Int /\ (y * e - x * n) \div u \in Int
  OBVIOUS
<1> QED
  BY <1>3, <1>4

LEMMA KeyIs ==
  ASSUME view \in Views, NEW r, Profile!IsRaster(r), NEW p, p.x \in Int, p.y \in Int
  PROVE  Profile!Key(r, p) \in Int
<1>1. PICK a \in Int : a = Profile!Along(p)
  BY PlaceIs
<1>2. PICK b \in Nat \ {0} : b = r.bin
  BY DEF Profile!IsRaster
<1>3. a \div b \in Int
  OBVIOUS
<1>4. \/ Profile!Key(r, p) = b * (a \div b + 1)
      \/ Profile!Key(r, p) = b * (a \div b)
  BY <1>1, <1>2 DEF Profile!Key
<1> QED
  BY <1>3, <1>4

LEMMA GapIs ==
  /\ \A a, b \in Int : Profile!Gap(a, b) \in Nat
  BY DEF Profile!Gap

\* Points of a slice: numbered, placed across the link.
ArePoints(points) ==
  /\ IsFiniteSet(DOMAIN points) /\ DOMAIN points # {} /\ DOMAIN points \subseteq Nat
  /\ \A i \in DOMAIN points : points[i].dh \in Int /\ points[i].v \in Int

\* Slices of heights.
AreSlices(s) ==
  /\ IsFiniteSet(DOMAIN s) /\ DOMAIN s \subseteq Int
  /\ \A d \in DOMAIN s : ArePoints(s[d])

\* The slices of a raster stand for its pixels in the corridor.
LEMMA SlicesAre ==
  ASSUME view \in Views, NEW r, Profile!IsRaster(r)
  PROVE  LET s == Profile!Slices(r)
             pixels == Profile!Pixels(r)
         IN /\ IsFiniteSet(DOMAIN s) /\ DOMAIN s \subseteq Int
            /\ \A d \in DOMAIN s : s[d] = Profile!Points(r, d)
            /\ \A d \in DOMAIN s : \E i \in DOMAIN pixels :
                 Profile!InCorridor(r, pixels[i]) /\ Profile!Key(r, pixels[i]) = d
            /\ \A i \in DOMAIN pixels : Profile!InCorridor(r, pixels[i]) =>
                 Profile!Key(r, pixels[i]) \in DOMAIN s
<1> DEFINE pixels == Profile!Pixels(r)
           s == Profile!Slices(r)
           own == {i \in DOMAIN pixels : Profile!InCorridor(r, pixels[i])}
           key == [i \in own |-> Profile!Key(r, pixels[i])]
           keys == {Profile!Key(r, p) :
                      p \in {q \in Profile!Range(pixels) : Profile!InCorridor(r, q)}}
<1>1. s = [d \in keys |-> Profile!Points(r, d)]
  BY Zenon DEF Profile!Slices
<1>2. keys = {key[i] : i \in own}
  BY DEF Profile!Range
<1>3. /\ IsFiniteSet(DOMAIN pixels)
      /\ \A i \in DOMAIN pixels : pixels[i].x \in Int /\ pixels[i].y \in Int
  BY PixelsAre
<1> HIDE DEF pixels, s, keys
<1>4. IsFiniteSet(own)
  BY <1>3, FS_Subset
<1>5. \A i \in own : key[i] = Profile!Key(r, pixels[i]) /\ key[i] \in Int
  BY <1>3, KeyIs
<1>6. IsFiniteSet(keys)
  <2>1. key \in Surjection(own, keys)
    <3> HIDE DEF own
    <3> QED
      BY <1>2 DEF Surjection
  <2> HIDE DEF own, key
  <2> QED
    BY <1>4, <2>1, FS_Surjection
<1>7. keys \subseteq Int
  BY <1>2, <1>5
<1> HIDE DEF own, key
<1>8. DOMAIN s = keys
  BY <1>1
<1>9. \A d \in keys : \E i \in DOMAIN pixels :
        Profile!InCorridor(r, pixels[i]) /\ Profile!Key(r, pixels[i]) = d
  BY <1>2, <1>5 DEF own
<1>10. \A i \in DOMAIN pixels :
         Profile!InCorridor(r, pixels[i]) => Profile!Key(r, pixels[i]) \in keys
  BY <1>2, <1>5 DEF own
<1>11. \A d \in keys : s[d] = Profile!Points(r, d)
  BY <1>1
<1> QED
  BY <1>6, <1>7, <1>8, <1>9, <1>10, <1>11 DEF s, pixels

LEMMA RangeIsFinite ==
  ASSUME NEW S, NEW T, IsFiniteSet(S), NEW f \in [S -> T]
  PROVE  IsFiniteSet(Profile!Range(f))
<1>1. f \in Surjection(S, Profile!Range(f))
  BY DEF Surjection, Profile!Range
<1> QED
  BY <1>1, FS_Surjection

LEMMA SizeInProfile == \A S : Profile!Cardinality(S) = Cardinality(S)
  BY Zenon DEF Cardinality, Profile!Cardinality

\* The point next to an offset is one of the slice.
LEMMA NearestIs ==
  ASSUME NEW points, ArePoints(points), NEW dh \in Int
  PROVE  \E i \in DOMAIN points : Profile!NearestPoint(points, dh) = points[i]
<1> DEFINE gap(i) == Profile!Gap(points[i].dh, dh)
           gaps == {gap(i) : i \in DOMAIN points}
           P(i) == \A j \in DOMAIN points : \/ gap(i) < gap(j)
                                            \/ gap(i) = gap(j) /\ i <= j
<1>1. \A i \in DOMAIN points : gap(i) \in Nat
  BY GapIs DEF ArePoints
<1>2. DOMAIN points # {} /\ DOMAIN points \subseteq Nat
  BY DEF ArePoints
<1> HIDE DEF gap
<1>3. PICK g \in gaps : \A x \in gaps : g <= x
  <2>1. gaps \in SUBSET Nat /\ gaps # {}
    BY <1>1, <1>2
  <2> HIDE DEF gaps
  <2> QED
    BY <2>1, LeastNat
<1> DEFINE ties == {i \in DOMAIN points : gap(i) = g}
<1>4. PICK i \in ties : \A j \in ties : i <= j
  <2>1. ties \in SUBSET Nat /\ ties # {}
    BY <1>2, <1>3
  <2> HIDE DEF ties
  <2> QED
    BY <2>1, LeastNat
<1>5. \A j \in DOMAIN points : gap(i) <= gap(j) /\ gap(j) \in Nat /\ gap(i) \in Nat
  BY <1>1, <1>3, <1>4
<1>6. P(i)
  <2> SUFFICES ASSUME NEW j \in DOMAIN points
               PROVE  gap(i) < gap(j) \/ (gap(i) = gap(j) /\ i <= j)
    OBVIOUS
  <2>1. CASE gap(j) = g
    BY <1>4, <2>1
  <2>2. CASE gap(j) # g
    BY <1>4, <1>5, <2>2
  <2> QED
    BY <2>1, <2>2
<1>7. (CHOOSE e \in DOMAIN points : P(e)) \in DOMAIN points
  <2>1. i \in DOMAIN points
    BY <1>4
  <2> HIDE DEF P
  <2> QED
    BY <1>6, <2>1
<1>8. Profile!NearestPoint(points, dh) = points[CHOOSE e \in DOMAIN points : P(e)]
  BY Zenon DEF Profile!NearestPoint, gap
<1> QED
  BY <1>7, <1>8

\* No point beside a ribbon is above the height of its slice.
LEMMA SliceMaxIs ==
  ASSUME NEW points, ArePoints(points), NEW dh \in Int
  PROVE  /\ Profile!SliceMax(points, dh) \in Int
         /\ \A i \in DOMAIN points : Profile!Gap(points[i].dh, dh) <= Profile!SearchRadius =>
              points[i].v <= Profile!SliceMax(points, dh)
<1> DEFINE beside == {i \in DOMAIN points : Profile!Gap(points[i].dh, dh) <= Profile!SearchRadius}
           heights == {points[i].v : i \in beside}
<1>1. Profile!SliceMax(points, dh) =
        IF beside = {} THEN Profile!NearestPoint(points, dh).v ELSE Profile!Max(heights)
  BY Zenon DEF Profile!SliceMax
<1>2. \A i \in DOMAIN points : points[i].v \in Int
  BY DEF ArePoints
<1>3. IsFiniteSet(beside) /\ beside \subseteq DOMAIN points
  BY FS_Subset DEF ArePoints
<1>4. \A i \in DOMAIN points : Profile!Gap(points[i].dh, dh) <= Profile!SearchRadius => i \in beside
  OBVIOUS
<1> HIDE DEF beside
<1>5. CASE beside = {}
  <2>1. Profile!SliceMax(points, dh) = Profile!NearestPoint(points, dh).v
    BY <1>1, <1>5
  <2> QED
    BY <1>2, <1>4, <1>5, <2>1, NearestIs
<1>6. CASE beside # {}
  <2>1. IsFiniteSet(heights)
    <3> DEFINE f == [i \in beside |-> points[i].v]
    <3>1. f \in [beside -> Int] /\ heights = Profile!Range(f)
      BY <1>2, <1>3 DEF Profile!Range
    <3> HIDE DEF f
    <3> QED
      BY <1>3, <3>1, RangeIsFinite
  <2>2. heights # {} /\ heights \subseteq Int /\ \A i \in beside : points[i].v \in heights
    BY <1>2, <1>3, <1>6
  <2> HIDE DEF heights
  <2>3. Profile!Max(heights) \in heights /\ \A x \in heights : x <= Profile!Max(heights)
    BY <2>1, <2>2, ExtremesAre
  <2>4. Profile!SliceMax(points, dh) = Profile!Max(heights)
    BY <1>1, <1>6
  <2> QED
    BY <1>4, <2>2, <2>3, <2>4
<1> QED
  BY <1>5, <1>6

\* The slices next to a distance; one at the distance is the next one.
LEMMA NeighboursAre ==
  ASSUME NEW s, AreSlices(s), DOMAIN s # {}, NEW d \in Int
  PROVE  LET b == Profile!SliceBefore(s, d)
             a == Profile!SliceAfter(s, d)
         IN /\ b \in DOMAIN s /\ a \in DOMAIN s /\ b \in Int /\ a \in Int
            /\ b <= a /\ (d \in DOMAIN s => a = d)
<1> DEFINE D == DOMAIN s
           before == {e \in D : e < d}
           after == {e \in D : e >= d}
           least == Profile!Min(D)
           most == Profile!Max(D)
<1>1. IsFiniteSet(D) /\ D \subseteq Int /\ D # {}
  BY DEF AreSlices
<1>2. least \in D /\ most \in D /\ \A e \in D : least <= e /\ e <= most
  <2> HIDE DEF D
  <2> QED
    BY <1>1, ExtremesAre
<1>3. IsFiniteSet(before) /\ before \subseteq Int /\ IsFiniteSet(after) /\ after \subseteq Int
  <2> HIDE DEF D
  <2> QED
    BY <1>1, FS_Subset
<1>4. before # {} => /\ Profile!Max(before) \in before
                     /\ \A e \in before : e <= Profile!Max(before)
  <2> HIDE DEF before
  <2> QED
    BY <1>3, ExtremesAre
<1>5. after # {} => /\ Profile!Min(after) \in after
                    /\ \A e \in after : Profile!Min(after) <= e
  <2> HIDE DEF after
  <2> QED
    BY <1>3, ExtremesAre
<1>6. Profile!SliceBefore(s, d) = IF d <= least THEN least ELSE Profile!Max(before)
  BY Zenon DEF Profile!SliceBefore
<1>7. Profile!SliceAfter(s, d) = IF d > most THEN most ELSE Profile!Min(after)
  BY Zenon DEF Profile!SliceAfter
<1> DEFINE b == Profile!SliceBefore(s, d)
           a == Profile!SliceAfter(s, d)
<1>8. /\ d <= least => b = least
      /\ ~(d <= least) => b = Profile!Max(before)
      /\ d > most => a = most
      /\ ~(d > most) => a = Profile!Min(after)
  BY <1>6, <1>7
<1> HIDE DEF least, most, b, a, D
<1>9. least \in Int /\ most \in Int
  BY <1>1, <1>2
<1>10. ~(d <= least) => b \in D /\ b < d /\ \A e \in D : e < d => e <= b
  BY <1>1, <1>2, <1>4, <1>8, <1>9
<1>11. ~(d > most) => a \in D /\ d <= a /\ \A e \in D : d <= e => a <= e
  BY <1>1, <1>2, <1>5, <1>8, <1>9
<1>12. b \in D /\ a \in D /\ b \in Int /\ a \in Int
  BY <1>1, <1>2, <1>8, <1>10, <1>11
<1>13. b <= a
  <2>1. CASE d <= least
    BY <1>2, <1>8, <1>9, <1>12, <2>1
  <2>2. CASE ~(d <= least) /\ d > most
    BY <1>2, <1>8, <1>9, <1>12, <2>2
  <2>3. CASE ~(d <= least) /\ ~(d > most)
    BY <1>10, <1>11, <1>12, <2>3
  <2> QED
    BY <2>1, <2>2, <2>3
<1>14. d \in D => a = d
  BY <1>2, <1>9, <1>11, <1>12
<1> QED
  BY <1>12, <1>13, <1>14 DEF a, b, D

\* At the distance of a slice the height is that of the slice.
LEMMA LinearMaxIs ==
  ASSUME NEW s, AreSlices(s), DOMAIN s # {}, NEW d \in Int, NEW dh \in Int
  PROVE  /\ Profile!LinearMax(s, d, dh) \in Int
         /\ d \in DOMAIN s => Profile!LinearMax(s, d, dh) = Profile!SliceMax(s[d], dh)
<1>1. PICK b \in Int, a \in Int :
        /\ b = Profile!SliceBefore(s, d) /\ a = Profile!SliceAfter(s, d)
        /\ b \in DOMAIN s /\ a \in DOMAIN s
        /\ b <= a /\ (d \in DOMAIN s => a = d)
  BY NeighboursAre
<1>2. PICK x \in Int : x = Profile!SliceMax(s[b], dh)
  BY <1>1, SliceMaxIs DEF AreSlices
<1>3. PICK y \in Int : y = Profile!SliceMax(s[a], dh)
  BY <1>1, SliceMaxIs DEF AreSlices
<1>4. Profile!LinearMax(s, d, dh) = Profile!Interpolated(d, b, a, x, y)
  BY <1>1, <1>2, <1>3, Zenon DEF Profile!LinearMax
<1>5. CASE a = b
  <2>1. Profile!Interpolated(d, b, a, x, y) = x
    BY <1>5 DEF Profile!Interpolated
  <2> QED
    BY <1>1, <1>2, <1>4, <1>5, <2>1
<1>6. CASE a # b
  <2>1. PICK m \in Nat \ {0} : m = a - b
    BY <1>1, <1>6
  <2>2. PICK e \in Int : e = y - x
    OBVIOUS
  <2>3. PICK c \in Int : c = d - b
    OBVIOUS
  <2>4. Profile!Interpolated(d, b, a, x, y) = x + (e * c) \div m
    BY <1>6, <2>1, <2>2, <2>3 DEF Profile!Interpolated
  <2>5. (e * c) \div m \in Int
    OBVIOUS
  <2>6. ASSUME d = a
        PROVE  x + (e * c) \div m = y
    <3>1. c = m
      BY <2>1, <2>3, <2>6
    <3>2. (e * m) \div m = e
      OBVIOUS
    <3> QED
      BY <2>2, <3>1, <3>2
  <2> QED
    BY <1>1, <1>3, <1>4, <2>4, <2>5, <2>6
<1> QED
  BY <1>5, <1>6

\* The distances on a link, if there are any, are listed in order.
LEMMA DistancesAre ==
  ASSUME view \in Views, NEW s, IsFiniteSet(DOMAIN s), DOMAIN s \subseteq Int,
         Profile!Distances(s) # <<>>
  PROVE  LET S == {d \in DOMAIN s : 0 <= d /\ d <= view.length}
             n == Cardinality(S)
         IN /\ n \in Nat \ {0} /\ Lists(Profile!Distances(s), n, S)
            /\ S \subseteq 0..view.length /\ S \subseteq Int
<1> DEFINE S == {d \in DOMAIN s : 0 <= d /\ d <= view.length}
           n == Cardinality(S)
<1>1. Profile!Distances(s) = Profile!Sorted(S)
  BY Zenon DEF Profile!Distances
<1>2. Profile!Sorted(S) = Antenna!Sorted(S)
  BY Zenon DEF Profile!Sorted, Antenna!Sorted, Profile!Cardinality, Antenna!Cardinality
<1>3. IsFiniteSet(S) /\ S \subseteq Int /\ S \subseteq 0..view.length
  BY FS_Subset, ViewIs
<1> HIDE DEF S
<1>4. S # {}
  <2> SUFFICES ASSUME S = {}
               PROVE  FALSE
    OBVIOUS
  <2>1. n = 0
    BY FS_EmptySet
  <2>2. Profile!Sorted(S) = [i \in 1..n |-> CHOOSE x \in S : Cardinality({t \in S : t < x}) = i - 1]
    BY Zenon DEF Profile!Sorted, Cardinality, Profile!Cardinality
  <2> HIDE DEF n
  <2>3. 1..n = {}
    BY <2>1
  <2>4. Profile!Sorted(S) = <<>>
    <3>1. DOMAIN Profile!Sorted(S) = {}
      BY <2>2, <2>3
    <3>2. Profile!Sorted(S) = [i \in {} |-> i]
      BY <2>2, <2>3
    <3> QED
      BY <3>2
  <2> QED
    BY <1>1, <2>4
<1>5. n \in Nat \ {0} /\ Lists(Antenna!Sorted(S), n, S)
  BY <1>3, <1>4, SortedLists
<1> QED
  BY <1>1, <1>2, <1>3, <1>5 DEF S, n

\* What a slice holds of a raster.
LEMMA PointsAre ==
  ASSUME NEW r, NEW d
  PROVE  LET pixels == Profile!Pixels(r)
             points == Profile!Points(r, d)
         IN /\ \A i : i \in DOMAIN points <=> /\ i \in DOMAIN pixels
                                              /\ Profile!InCorridor(r, pixels[i])
                                              /\ Profile!Key(r, pixels[i]) = d
            /\ \A i \in DOMAIN points : /\ points[i].dh = 1000 * Profile!Across(pixels[i])
                                        /\ points[i].v = pixels[i].v
<1> DEFINE pixels == Profile!Pixels(r)
           own == {j \in DOMAIN pixels : Profile!InCorridor(r, pixels[j])
                                           /\ Profile!Key(r, pixels[j]) = d}
<1>1. Profile!Points(r, d) =
        [i \in own |-> [dh |-> 1000 * Profile!Across(pixels[i]), v |-> pixels[i].v]]
  BY Zenon DEF Profile!Points
<1> HIDE DEF pixels
<1> QED
  BY <1>1 DEF pixels

\* The slices of the ground and of the surface hold heights.
LEMMA HeightsAre ==
  ASSUME view \in Views, NEW r \in {view.dtm, view.dsm}
  PROVE  AreSlices(Profile!Slices(r))
<1>1. Profile!IsRaster(r)
  BY ViewIs
<1>2. \A i \in DOMAIN r.rows : \A j \in DOMAIN r.rows[i] :
        r.rows[i][j] = None \/ r.rows[i][j] \in Int
  BY ProfileAssumption DEF Profile!ViewsAreRasters
<1> DEFINE pixels == Profile!Pixels(r)
           s == Profile!Slices(r)
<1>3. /\ IsFiniteSet(DOMAIN pixels) /\ DOMAIN pixels \subseteq Nat
      /\ \A i \in DOMAIN pixels :
           /\ pixels[i].x \in Int /\ pixels[i].y \in Int
           /\ pixels[i].v = None \/ pixels[i].v \in Int
  BY <1>1, <1>2, PixelsAre
<1>4. /\ IsFiniteSet(DOMAIN s) /\ DOMAIN s \subseteq Int
      /\ \A d \in DOMAIN s : s[d] = Profile!Points(r, d)
      /\ \A d \in DOMAIN s : \E i \in DOMAIN pixels :
           Profile!InCorridor(r, pixels[i]) /\ Profile!Key(r, pixels[i]) = d
  BY <1>1, SlicesAre
<1> HIDE DEF pixels
<1>5. ASSUME NEW d \in DOMAIN s
      PROVE  ArePoints(s[d])
  <2> DEFINE points == Profile!Points(r, d)
  <2>1. /\ \A i : i \in DOMAIN points <=> /\ i \in DOMAIN pixels
                                         /\ Profile!InCorridor(r, pixels[i])
                                         /\ Profile!Key(r, pixels[i]) = d
        /\ \A i \in DOMAIN points : /\ points[i].dh = 1000 * Profile!Across(pixels[i])
                                    /\ points[i].v = pixels[i].v
    BY PointsAre DEF pixels
  <2>2. s[d] = points
    BY <1>4
  <2>3. PICK i \in DOMAIN pixels :
          Profile!InCorridor(r, pixels[i]) /\ Profile!Key(r, pixels[i]) = d
    BY <1>4
  <2> HIDE DEF points, s
  <2>4. DOMAIN points \subseteq DOMAIN pixels /\ DOMAIN points # {}
    BY <2>1, <2>3
  <2>5. IsFiniteSet(DOMAIN points) /\ DOMAIN points \subseteq Nat
    BY <1>3, <2>4, FS_Subset
  <2>6. ASSUME NEW j \in DOMAIN points
        PROVE  points[j].dh \in Int /\ points[j].v \in Int
    <3>1. j \in DOMAIN pixels /\ Profile!InCorridor(r, pixels[j])
      BY <2>1
    <3>2. pixels[j].v # None
      BY <3>1 DEF Profile!InCorridor
    <3>3. Profile!Across(pixels[j]) \in Int
      BY <1>3, <3>1, PlaceIs
    <3> QED
      BY <1>3, <2>1, <3>1, <3>2, <3>3
  <2> QED
    BY <2>2, <2>4, <2>5, <2>6 DEF ArePoints
<1> HIDE DEF s
<1>6. AreSlices(s)
  BY <1>4, <1>5 DEF AreSlices
<1> QED
  BY <1>6 DEF s

\* The Fresnel zone has a width at every distance of a link.
LEMMA RadiusIs ==
  ASSUME view \in Views, NEW S, S \subseteq 0..view.length, NEW n \in Nat \ {0},
         NEW ds, Lists(ds, n, S), NEW i \in DOMAIN ds
  PROVE  Profile!RadiusAt(ds, i) \in Nat \ {0}
<1>1. view.length \in Nat
  BY ViewIs
<1>2. S \subseteq Int
  BY <1>1
<1>3. /\ DOMAIN ds = 1..n /\ Len(ds) = n /\ 1 \in DOMAIN ds /\ n \in DOMAIN ds
      /\ \A j \in DOMAIN ds : ds[j] \in S
  BY <1>2, EndsOfList
<1>4. \A a, b \in DOMAIN ds : a < b => ds[a] < ds[b]
  BY DEF Lists
<1>5. PICK last \in Int : last = ds[n]
  BY <1>2, <1>3
<1>6. ds[Len(ds)] = last
  BY <1>3, <1>5
<1>7. CASE i \in {1, n}
  <2>1. Profile!RadiusAt(ds, i) = 1
    BY <1>3, <1>7 DEF Profile!RadiusAt
  <2> QED
    BY <2>1
<1>8. CASE i \notin {1, n}
  <2>1. Profile!RadiusAt(ds, i) = Radius[last][ds[i]]
    BY <1>3, <1>6, <1>8 DEF Profile!RadiusAt
  <2>2. i \in Int /\ 1 < i /\ i < n
    BY <1>3, <1>8
  <2>3. ds[1] < ds[i] /\ ds[i] < ds[n]
    BY <1>3, <1>4, <2>2
  <2>4. ds[1] \in 0..view.length /\ ds[i] \in 0..view.length /\ ds[n] \in 0..view.length
    BY <1>3
  <2>5. ds[i] \in 1..(last - 1) /\ last \in 1..view.length
    BY <1>1, <1>5, <2>3, <2>4
  <2> QED
    BY <2>1, <2>5, ProfileAssumption DEF Profile!ViewsAreRasters
<1> QED
  BY <1>7, <1>8

\* The slices of the link as read.
AreRead ==
  /\ view \in Views
  /\ slices.dtm = Profile!Slices(view.dtm)
  /\ slices.dsm = Profile!Slices(view.dsm)
  /\ slices.cover = Profile!Slices(view.cover)

\* The samples of a ribbon stand in order and hold heights.
AreSamples(p) ==
  /\ Len(p) \in Nat \ {0} /\ DOMAIN p = 1..Len(p)
  /\ \A i \in DOMAIN p :
       p[i].d \in Nat /\ p[i].dh \in Int /\ p[i].dtm \in Int /\ p[i].dsm \in Int
  /\ \A i, j \in DOMAIN p : i < j => p[i].d < p[j].d
  /\ \A i \in DOMAIN p :
       Profile!RadiusAt([j \in DOMAIN p |-> p[j].d], i) \in Nat \ {0}

LEMMA ProfileIs ==
  ASSUME AreRead, Profile!Distances(slices.cover) # <<>>,
         DOMAIN slices.dtm # {}, DOMAIN slices.dsm # {}, NEW b \in Int
  PROVE  LET p == Profile!Profile(Profile!Distances(slices.cover), b)
         IN /\ AreSamples(p)
            /\ \A i \in DOMAIN p :
                 p[i].dtm = Profile!LinearMax(slices.dtm, p[i].d, p[i].dh)
<1> DEFINE ds == Profile!Distances(slices.cover)
           p == Profile!Profile(ds, b)
           S == {d \in DOMAIN slices.cover : 0 <= d /\ d <= view.length}
           n == Cardinality(S)
           id(i) == Profile!CoverAt(slices.cover[Profile!NearestSlice(slices.cover, ds[i])],
                                    b * Profile!RadiusAt(ds, i))
<1>1. view \in Views /\ view.length \in Nat
  BY ViewIs DEF AreRead
<1>2. IsFiniteSet(DOMAIN slices.cover) /\ DOMAIN slices.cover \subseteq Int
  BY <1>1, ViewIs, SlicesAre DEF AreRead
<1>3. n \in Nat \ {0} /\ Lists(ds, n, S) /\ S \subseteq 0..view.length /\ S \subseteq Int
  BY <1>1, <1>2, DistancesAre
<1>4. p = [i \in DOMAIN ds |->
             [d   |-> ds[i],
              dh  |-> b * Profile!RadiusAt(ds, i),
              dtm |-> Profile!LinearMax(slices.dtm, ds[i], b * Profile!RadiusAt(ds, i)),
              dsm |-> Profile!LinearMax(slices.dsm, ds[i], b * Profile!RadiusAt(ds, i)),
              id  |-> id(i)]]
  BY Zenon DEF Profile!Profile
<1> HIDE DEF ds, p, S, n, id
<1>5. /\ DOMAIN ds = 1..n /\ Len(ds) = n /\ \A i \in DOMAIN ds : ds[i] \in S
      /\ \A x, y \in DOMAIN ds : x < y => ds[x] < ds[y]
  BY <1>3, EndsOfList DEF Lists
<1>6. AreSlices(slices.dtm) /\ AreSlices(slices.dsm)
  BY <1>1, HeightsAre DEF AreRead
<1>7. DOMAIN p = 1..n
  BY <1>4, <1>5
<1>8. Len(p) = n
  <2>1. p \in Seq({p[i] : i \in 1..n})
    BY <1>3, <1>4, <1>5
  <2> QED
    BY <1>3, <1>7, <2>1
<1>9. ASSUME NEW i \in DOMAIN p
      PROVE  /\ p[i].d = ds[i] /\ p[i].d \in Nat
             /\ Profile!RadiusAt(ds, i) \in Nat \ {0}
             /\ p[i].dh \in Int /\ p[i].dtm \in Int /\ p[i].dsm \in Int
             /\ p[i].dtm = Profile!LinearMax(slices.dtm, p[i].d, p[i].dh)
  <2>1. i \in DOMAIN ds
    BY <1>5, <1>7
  <2>2. PICK rad \in Nat \ {0} : rad = Profile!RadiusAt(ds, i)
    BY <1>1, <1>3, <2>1, RadiusIs
  <2>3. PICK d \in Nat : d = ds[i]
    <3>1. ds[i] \in 0..view.length
      BY <1>3, <1>5, <2>1
    <3> QED
      BY <1>1, <3>1
  <2>4. PICK dh \in Int : dh = b * rad
    OBVIOUS
  <2>5. /\ p[i].d = d /\ p[i].dh = dh
        /\ p[i].dtm = Profile!LinearMax(slices.dtm, d, dh)
        /\ p[i].dsm = Profile!LinearMax(slices.dsm, d, dh)
    BY <1>4, <2>1, <2>2, <2>3, <2>4
  <2>6. p[i].dtm \in Int /\ p[i].dsm \in Int
    BY <1>6, <2>5, LinearMaxIs
  <2> QED
    BY <2>2, <2>3, <2>5, <2>6
<1>10. [j \in DOMAIN p |-> p[j].d] = ds
  <2>1. ds = [j \in DOMAIN ds |-> ds[j]]
    BY <1>3 DEF Lists
  <2> QED
    BY <1>5, <1>7, <1>9, <2>1
<1>11. AreSamples(p)
  <2>1. \A i, j \in DOMAIN p : i < j => p[i].d < p[j].d
    BY <1>5, <1>7, <1>9
  <2>2. Len(p) \in Nat \ {0} /\ DOMAIN p = 1..Len(p)
    BY <1>3, <1>7, <1>8
  <2> QED
    BY <1>9, <1>10, <2>1, <2>2 DEF AreSamples
<1> QED
  BY <1>9, <1>11 DEF p, ds

\* No pixel beside a ribbon rises above the profile at its distance.
LEMMA HighGroundSeen ==
  ASSUME AreRead, NEW r, AreSamples(r.profile),
         \A i \in DOMAIN r.profile :
           r.profile[i].dtm = Profile!LinearMax(slices.dtm, r.profile[i].d, r.profile[i].dh)
  PROVE  Profile!HighGroundIsSeen(r)
<1> DEFINE pixels == Profile!Pixels(view.dtm)
<1> SUFFICES ASSUME NEW k1 \in DOMAIN pixels, Profile!InCorridor(view.dtm, pixels[k1]),
                    NEW j \in DOMAIN r.profile,
                    r.profile[j].d = Profile!Key(view.dtm, pixels[k1]),
                    Profile!Gap(1000 * Profile!Across(pixels[k1]), r.profile[j].dh)
                      <= Profile!SearchRadius
             PROVE  r.profile[j].dtm >= pixels[k1].v
  BY DEF Profile!HighGroundIsSeen, Profile!Range
<1> DEFINE d == r.profile[j].d
           dh == r.profile[j].dh
<1>1. view \in Views /\ Profile!IsRaster(view.dtm)
  BY ViewIs DEF AreRead
<1>2. d \in Int /\ dh \in Int
  BY DEF AreSamples
<1>3. AreSlices(slices.dtm)
  BY <1>1, HeightsAre DEF AreRead
<1>4. d \in DOMAIN slices.dtm /\ slices.dtm[d] = Profile!Points(view.dtm, d)
  BY <1>1, SlicesAre DEF AreRead
<1>5. r.profile[j].dtm = Profile!SliceMax(slices.dtm[d], dh)
  BY <1>2, <1>3, <1>4, LinearMaxIs
<1> DEFINE points == slices.dtm[d]
<1>6. /\ k1 \in DOMAIN points /\ points[k1].dh = 1000 * Profile!Across(pixels[k1])
      /\ points[k1].v = pixels[k1].v
  BY <1>4, PointsAre
<1>7. ArePoints(points)
  BY <1>3, <1>4 DEF AreSlices
<1>8. points[k1].v <= Profile!SliceMax(points, dh)
  BY <1>2, <1>6, <1>7, SliceMaxIs
<1>9. points[k1].v \in Int /\ Profile!SliceMax(points, dh) \in Int
  BY <1>2, <1>6, <1>7, SliceMaxIs DEF ArePoints
<1> QED
  BY <1>5, <1>6, <1>8, <1>9

\* The runs of one class along a ribbon, and what is kept of those that end before a
\* sample.
Stretch(p, u, v) == [id |-> p[u].id, from |-> p[u].d, to |-> p[v].d]

IsRun(p, u, v) ==
  /\ u \in DOMAIN p /\ v \in DOMAIN p /\ u <= v
  /\ \A n \in u..v : p[n].id = p[u].id
  /\ u = 1 \/ p[u - 1].id # p[u].id
  /\ v = Len(p) \/ p[v + 1].id # p[u].id

Counts(p, u, v) == p[v].d - p[u].d >= Profile!MinSegment \/ v = Len(p)

Begins(p, s, i) ==
  /\ s \in DOMAIN p /\ s <= i
  /\ \A n \in s..i : p[n].id = p[s].id
  /\ s = 1 \/ p[s - 1].id # p[s].id

Stretches(p) == {Stretch(p, u, v) : u \in DOMAIN p, v \in DOMAIN p}

Keeps(p, s, closed) ==
  /\ closed \in Seq(Stretches(p))
  /\ \A a \in DOMAIN closed : \E u, v \in DOMAIN p :
       /\ IsRun(p, u, v) /\ Counts(p, u, v) /\ v < s
       /\ closed[a] = Stretch(p, u, v)
  /\ \A u, v \in DOMAIN p :
       IsRun(p, u, v) /\ Counts(p, u, v) /\ v < s =>
         \E a \in DOMAIN closed : closed[a] = Stretch(p, u, v)
  /\ \A a, b \in DOMAIN closed : a < b => closed[a].to < closed[b].from

\* Only the run that begins at a sample ends between it and the last of its class.
LEMMA OneRun ==
  ASSUME NEW p, AreSamples(p), NEW s, NEW i \in DOMAIN p, Begins(p, s, i),
         NEW u \in DOMAIN p, NEW v \in DOMAIN p, IsRun(p, u, v), s <= v, v <= i
  PROVE  u = s /\ v = i
<1>1. /\ DOMAIN p = 1..Len(p) /\ Len(p) \in Nat \ {0} /\ s \in DOMAIN p
      /\ i \in Int /\ u \in Int /\ v \in Int /\ s \in Int /\ u <= v /\ 1 <= s /\ 1 <= u
  BY DEF AreSamples, Begins, IsRun
<1>2. \A n \in s..i : p[n].id = p[s].id
  BY DEF Begins
<1>3. \A n \in u..v : p[n].id = p[u].id
  BY DEF IsRun
<1>4. p[v].id = p[s].id /\ p[u].id = p[s].id
  <2>1. v \in s..i /\ v \in u..v
    BY <1>1
  <2> QED
    BY <1>2, <1>3, <2>1
<1>5. v = i
  <2>1. CASE v < i
    <3>1. v + 1 \in s..i /\ v # Len(p)
      BY <1>1, <2>1
    <3> QED
      BY <1>2, <1>4, <3>1 DEF IsRun
  <2> QED
    BY <1>1, <2>1
<1>6. ~(u < s)
  <2> SUFFICES ASSUME u < s
               PROVE  FALSE
    OBVIOUS
  <2>1. s - 1 \in u..v /\ s # 1
    BY <1>1
  <2> QED
    BY <1>3, <1>4, <2>1 DEF Begins
<1>7. ~(s < u)
  <2> SUFFICES ASSUME s < u
               PROVE  FALSE
    OBVIOUS
  <2>1. u - 1 \in s..i /\ u # 1
    BY <1>1, <1>5
  <2> QED
    BY <1>2, <1>4, <2>1 DEF IsRun
<1> QED
  BY <1>1, <1>5, <1>6, <1>7

\* When a run ends it is kept if it counts, and nothing else changes.
LEMMA RunEnds ==
  ASSUME NEW p, AreSamples(p), NEW s, NEW i \in DOMAIN p, Begins(p, s, i),
         NEW closed, Keeps(p, s, closed), i = Len(p) \/ p[i + 1].id # p[i].id
  PROVE  /\ Counts(p, s, i) => Keeps(p, i + 1, Append(closed, Stretch(p, s, i)))
         /\ ~Counts(p, s, i) => Keeps(p, i + 1, closed)
<1>1. /\ DOMAIN p = 1..Len(p) /\ Len(p) \in Nat \ {0} /\ s \in DOMAIN p
      /\ i \in Int /\ s \in Int /\ s <= i
  BY DEF AreSamples, Begins
<1>2. IsRun(p, s, i)
  <2>1. i \in s..i /\ p[i].id = p[s].id
    BY <1>1 DEF Begins
  <2> QED
    BY <1>1, <2>1 DEF Begins, IsRun
<1>3. \A u, v \in DOMAIN p : IsRun(p, u, v) /\ v < i + 1 => v < s \/ (u = s /\ v = i)
  <2> SUFFICES ASSUME NEW u \in DOMAIN p, NEW v \in DOMAIN p, IsRun(p, u, v),
                      v < i + 1, ~(v < s)
               PROVE  u = s /\ v = i
    OBVIOUS
  <2>1. s <= v /\ v <= i
    BY <1>1
  <2> QED
    BY <2>1, OneRun
<1>4. \A v \in DOMAIN p : v < s => v < i + 1
  BY <1>1
<1>5. PICK m \in Nat : m = Len(closed) /\ DOMAIN closed = 1..m
  BY DEF Keeps
<1>6. CASE ~Counts(p, s, i)
  BY <1>3, <1>4, <1>6 DEF Keeps
<1>7. CASE Counts(p, s, i)
  <2> DEFINE last == Stretch(p, s, i)
             more == Append(closed, last)
  <2>1. last \in Stretches(p)
    BY <1>1 DEF Stretches
  <2> HIDE DEF last
  <2>2. /\ more \in Seq(Stretches(p)) /\ DOMAIN more = 1..(m + 1)
        /\ \A a \in 1..m : more[a] = closed[a]
        /\ more[m + 1] = last
    BY <1>5, <2>1 DEF Keeps
  <2> HIDE DEF more
  <2>3. ASSUME NEW a \in DOMAIN more
        PROVE  \E u, v \in DOMAIN p :
                 /\ IsRun(p, u, v) /\ Counts(p, u, v) /\ v < i + 1
                 /\ more[a] = Stretch(p, u, v)
    <3>1. CASE a \in 1..m
      <4>1. PICK u \in DOMAIN p, v \in DOMAIN p :
              /\ IsRun(p, u, v) /\ Counts(p, u, v) /\ v < s
              /\ closed[a] = Stretch(p, u, v)
        BY <1>5, <3>1 DEF Keeps
      <4> QED
        BY <1>4, <2>2, <3>1, <4>1
    <3>2. CASE a = m + 1
      <4>1. i < i + 1
        BY <1>1
      <4> QED
        BY <1>1, <1>2, <1>7, <2>2, <3>2, <4>1 DEF last
    <3> QED
      BY <2>2, <3>1, <3>2
  <2>4. ASSUME NEW u \in DOMAIN p, NEW v \in DOMAIN p,
               IsRun(p, u, v), Counts(p, u, v), v < i + 1
        PROVE  \E a \in DOMAIN more : more[a] = Stretch(p, u, v)
    <3>1. CASE v < s
      <4>1. PICK a \in DOMAIN closed : closed[a] = Stretch(p, u, v)
        BY <2>4, <3>1 DEF Keeps
      <4>2. a \in DOMAIN more
        BY <1>5, <2>2
      <4> QED
        BY <1>5, <2>2, <4>1, <4>2
    <3>2. CASE u = s /\ v = i
      <4>1. m + 1 \in DOMAIN more
        BY <2>2
      <4> QED
        BY <2>2, <3>2, <4>1 DEF last
    <3> QED
      BY <1>3, <2>4, <3>1, <3>2
  <2>5. ASSUME NEW a \in DOMAIN more, NEW b \in DOMAIN more, a < b
        PROVE  more[a].to < more[b].from
    <3>1. a \in 1..m
      BY <2>2, <2>5
    <3>2. CASE b \in 1..m
      BY <1>5, <2>2, <2>5, <3>1, <3>2 DEF Keeps
    <3>3. CASE b = m + 1
      <4>1. PICK u \in DOMAIN p, v \in DOMAIN p : v < s /\ closed[a] = Stretch(p, u, v)
        BY <1>5, <3>1 DEF Keeps
      <4>2. more[a].to = p[v].d /\ more[b].from = p[s].d
        BY <2>2, <3>1, <3>3, <4>1 DEF last, Stretch
      <4> QED
        BY <1>1, <4>1, <4>2 DEF AreSamples
    <3> QED
      BY <2>2, <3>2, <3>3
  <2>6. Keeps(p, i + 1, more)
    BY <2>2, <2>3, <2>4, <2>5 DEF Keeps
  <2> QED
    BY <1>7, <2>6 DEF more, last
<1> QED
  BY <1>6, <1>7

\* The run that get_path_segments is in at a sample.
FirstRun(p) == [id |-> p[1].id, from |-> p[1].d, to |-> p[1].d, closed |-> <<>>]

RunAt(p, i, f) == IF i = 1 THEN FirstRun(p) ELSE Profile!Extended(f[i - 1], p[i])

LEMMA RunsExist ==
  ASSUME NEW p, AreSamples(p)
  PROVE  \E f : \A i \in DOMAIN p : f[i] = RunAt(p, i, f)
<1> DEFINE Good(h) == \E f : \A i \in DOMAIN p : i <= h => f[i] = RunAt(p, i, f)
           Bad == {h \in Nat : ~Good(h)}
<1>1. DOMAIN p = 1..Len(p) /\ Len(p) \in Nat
  BY DEF AreSamples
<1>2. Bad = {}
  <2> SUFFICES ASSUME Bad # {}
               PROVE  FALSE
    OBVIOUS
  <2>1. Bad \in SUBSET Nat
    OBVIOUS
  <2> HIDE DEF Bad
  <2>2. PICK h \in Bad : \A o \in Bad : h <= o
    BY <2>1, LeastNat
  <2>3. h \in Nat /\ ~Good(h)
    BY <2>2 DEF Bad
  <2>4. h # 0
    <3>1. \A i \in DOMAIN p : ~(i <= 0)
      BY <1>1
    <3> QED
      BY <2>3, <3>1
  <2>5. PICK o \in Nat : o + 1 = h
    <3>1. h - 1 \in Nat /\ (h - 1) + 1 = h
      BY <2>3, <2>4
    <3> QED
      BY <3>1
  <2>6. Good(o)
    <3>1. ~(h <= o)
      BY <2>3, <2>5
    <3> HIDE DEF Good
    <3> QED
      BY <2>2, <2>5, <3>1 DEF Bad
  <2>7. PICK f : \A i \in DOMAIN p : i <= o => f[i] = RunAt(p, i, f)
    BY <2>6
  <2> DEFINE g == [i \in DOMAIN p |-> IF i = h THEN RunAt(p, h, f) ELSE f[i]]
  <2>8. ASSUME NEW i \in DOMAIN p, i <= h
        PROVE  g[i] = RunAt(p, i, g)
    <3>1. \A j \in DOMAIN p : j <= o => g[j] = f[j]
      BY <2>3, <2>5
    <3>2. h \in DOMAIN p => g[h] = RunAt(p, h, f)
      OBVIOUS
    <3> HIDE DEF g
    <3>3. RunAt(p, i, g) = RunAt(p, i, f)
      <4>1. CASE i = 1
        BY <4>1 DEF RunAt
      <4>2. CASE i # 1
        <5>1. i - 1 \in DOMAIN p /\ i - 1 <= o
          BY <1>1, <2>3, <2>5, <2>8, <4>2
        <5>2. g[i - 1] = f[i - 1]
          BY <3>1, <5>1
        <5> QED
          BY <5>2, Zenon DEF RunAt
      <4> QED
        BY <4>1, <4>2
    <3>4. CASE i = h
      BY <3>2, <3>3, <3>4
    <3>5. CASE i # h
      <4>1. i <= o
        BY <1>1, <2>3, <2>5, <2>8, <3>5
      <4> QED
        BY <2>7, <3>1, <3>3, <4>1
    <3> QED
      BY <3>4, <3>5
  <2> HIDE DEF g
  <2> QED
    BY <2>3, <2>8
<1>3. Good(Len(p))
  <2> HIDE DEF Good
  <2> QED
    BY <1>1, <1>2
<1> QED
  BY <1>1, <1>3

\* get_path_segments, as the code fills it in sample by sample.
LEMMA SegmentsFrom ==
  ASSUME NEW p, AreSamples(p)
  PROVE  \E run : /\ \A i \in DOMAIN p : run[i] = RunAt(p, i, run)
                  /\ Profile!Segments(p) = Profile!Closed(run[Len(p)])
<1> DEFINE Solves(f) == f = [i \in DOMAIN p |->
                               IF i = 1
                               THEN [id |-> p[1].id, from |-> p[1].d, to |-> p[1].d,
                                     closed |-> <<>>]
                               ELSE Profile!Extended(f[i - 1], p[i])]
           run == CHOOSE f : Solves(f)
<1>1. Profile!Segments(p) = Profile!Closed(run[Len(p)])
  BY Zenon DEF Profile!Segments
<1>2. \A f : [i \in DOMAIN p |-> RunAt(p, i, f)] =
        [i \in DOMAIN p |-> IF i = 1
                            THEN [id |-> p[1].id, from |-> p[1].d, to |-> p[1].d,
                                  closed |-> <<>>]
                            ELSE Profile!Extended(f[i - 1], p[i])]
  BY Zenon DEF RunAt, FirstRun
<1>3. PICK g : \A i \in DOMAIN p : g[i] = RunAt(p, i, g)
  BY RunsExist
<1> DEFINE h == [i \in DOMAIN p |-> g[i]]
<1>4. DOMAIN p = 1..Len(p) /\ Len(p) \in Nat
  BY DEF AreSamples
<1>5. ASSUME NEW i \in DOMAIN p
      PROVE  h[i] = RunAt(p, i, h)
  <2>1. h[i] = g[i]
    OBVIOUS
  <2>2. i = 1 \/ h[i - 1] = g[i - 1]
    BY <1>4
  <2> HIDE DEF h
  <2>3. RunAt(p, i, h) = RunAt(p, i, g)
    <3>1. CASE i = 1
      BY <3>1 DEF RunAt
    <3>2. CASE h[i - 1] = g[i - 1]
      BY <3>2, Zenon DEF RunAt
    <3> QED
      BY <2>2, <3>1, <3>2
  <2> QED
    BY <1>3, <2>1, <2>3
<1>6. h = [i \in DOMAIN p |-> RunAt(p, i, h)]
  <2>1. h = [i \in DOMAIN p |-> h[i]]
    OBVIOUS
  <2> HIDE DEF h
  <2> QED
    BY <1>5, <2>1
<1> HIDE DEF h
<1>7. Solves(h)
  BY <1>2, <1>6
<1>8. Solves(run)
  <2> HIDE DEF Solves
  <2> QED
    BY <1>7
<1>9. run = [i \in DOMAIN p |-> RunAt(p, i, run)]
  <2> HIDE DEF run
  <2> QED
    BY <1>2, <1>8
<1> HIDE DEF run
<1>10. \A i \in DOMAIN p : run[i] = RunAt(p, i, run)
  BY <1>9
<1> QED
  BY <1>1, <1>10

\* What is known of the run at a sample.
InRun(p, i, acc) ==
  \E s, closed :
    /\ Begins(p, s, i) /\ Keeps(p, s, closed)
    /\ acc = [id |-> p[s].id, from |-> p[s].d, to |-> p[i].d, closed |-> closed]

LEMMA RunStep ==
  ASSUME NEW p, AreSamples(p), NEW i \in DOMAIN p, NEW j \in DOMAIN p, j = i + 1,
         NEW acc, InRun(p, i, acc)
  PROVE  InRun(p, j, Profile!Extended(acc, p[j]))
<1> DEFINE next == Profile!Extended(acc, p[j])
<1>1. PICK s, closed :
        /\ Begins(p, s, i) /\ Keeps(p, s, closed)
        /\ acc = [id |-> p[s].id, from |-> p[s].d, to |-> p[i].d, closed |-> closed]
  BY DEF InRun
<1>2. /\ DOMAIN p = 1..Len(p) /\ Len(p) \in Nat /\ i \in Int /\ j \in Int /\ s \in DOMAIN p
      /\ s \in Int /\ s <= i /\ i # Len(p)
      /\ p[s].d \in Int /\ p[i].d \in Int
  BY <1>1 DEF AreSamples, Begins
<1>3. p[i].id = p[s].id
  <2>1. i \in s..i
    BY <1>2
  <2> QED
    BY <1>1, <2>1 DEF Begins
<1>4. CASE p[j].id = p[s].id
  <2>1. next = [id |-> p[s].id, from |-> p[s].d, to |-> p[j].d, closed |-> closed]
    <3>1. next = [acc EXCEPT !.to = p[j].d]
      BY <1>1, <1>4 DEF Profile!Extended
    <3> HIDE DEF next
    <3> QED
      BY <1>1, <3>1
  <2>2. Begins(p, s, j)
    <3>1. \A n \in s..j : n \in s..i \/ n = j
      BY <1>2
    <3> QED
      BY <1>1, <1>2, <1>4, <3>1 DEF Begins
  <2> HIDE DEF next
  <2>3. InRun(p, j, next)
    BY <1>1, <2>1, <2>2 DEF InRun
  <2> QED
    BY <2>3 DEF next
<1>5. CASE p[j].id # p[s].id
  <2>1. p[i + 1].id # p[i].id /\ p[j - 1].id # p[j].id
    BY <1>2, <1>3, <1>5
  <2>2. Begins(p, j, j)
    BY <1>2, <2>1 DEF Begins
  <2>3. Counts(p, s, i) <=> p[i].d - p[s].d >= Profile!MinSegment
    BY <1>2 DEF Counts
  <2>4. Profile!MinSegment \in Int
    BY DEF Profile!MinSegment
  <2> DEFINE fresh(c) == [id |-> p[j].id, from |-> p[j].d, to |-> p[j].d, closed |-> c]
  <2>5. CASE Counts(p, s, i)
    <3>1. ~(acc.to - acc.from < Profile!MinSegment)
      BY <1>1, <1>2, <2>3, <2>4, <2>5
    <3>2. next = fresh(Append(closed, Stretch(p, s, i)))
      BY <1>1, <1>5, <3>1 DEF Profile!Extended, Stretch
    <3>3. Keeps(p, j, Append(closed, Stretch(p, s, i)))
      BY <1>1, <2>1, <2>5, RunEnds
    <3> HIDE DEF next
    <3>4. InRun(p, j, next)
      BY <2>2, <3>2, <3>3 DEF InRun
    <3> QED
      BY <3>4 DEF next
  <2>6. CASE ~Counts(p, s, i)
    <3>1. acc.to - acc.from < Profile!MinSegment
      BY <1>1, <1>2, <2>3, <2>4, <2>6
    <3>2. next = fresh(closed)
      <4>1. next = [acc EXCEPT !.id = p[j].id, !.from = p[j].d, !.to = p[j].d]
        BY <1>1, <1>5, <3>1 DEF Profile!Extended
      <4> HIDE DEF next
      <4> QED
        BY <1>1, <4>1
    <3>3. Keeps(p, j, closed)
      BY <1>1, <2>1, <2>6, RunEnds
    <3> HIDE DEF next
    <3>4. InRun(p, j, next)
      BY <2>2, <3>2, <3>3 DEF InRun
    <3> QED
      BY <3>4 DEF next
  <2> QED
    BY <2>5, <2>6
<1> QED
  BY <1>4, <1>5

LEMMA RunsReach ==
  ASSUME NEW p, AreSamples(p), NEW run, \A i \in DOMAIN p : run[i] = RunAt(p, i, run)
  PROVE  \A i \in DOMAIN p : InRun(p, i, run[i])
<1> DEFINE Bad == {i \in DOMAIN p : ~InRun(p, i, run[i])}
<1>1. DOMAIN p = 1..Len(p) /\ Len(p) \in Nat /\ DOMAIN p \subseteq Nat
  BY DEF AreSamples
<1> SUFFICES ASSUME Bad # {}
             PROVE  FALSE
  OBVIOUS
<1>2. Bad \in SUBSET Nat
  BY <1>1
<1> HIDE DEF Bad
<1>3. PICK i \in Bad : \A j \in Bad : i <= j
  BY <1>2, LeastNat
<1>4. i \in DOMAIN p /\ ~InRun(p, i, run[i])
  BY <1>3 DEF Bad
<1>5. CASE i = 1
  <2>1. run[i] = FirstRun(p)
    BY <1>4, <1>5 DEF RunAt
  <2>2. Begins(p, i, i)
    BY <1>1, <1>4, <1>5 DEF Begins
  <2>3. Keeps(p, i, <<>>)
    <3>1. \A v \in DOMAIN p : ~(v < i)
      BY <1>1, <1>5
    <3> QED
      BY <3>1 DEF Keeps
  <2> QED
    BY <1>4, <1>5, <2>1, <2>2, <2>3 DEF InRun, FirstRun
<1>6. CASE i # 1
  <2>1. PICK j \in DOMAIN p : i = j + 1 /\ j < i
    <3>1. i - 1 \in DOMAIN p /\ i = (i - 1) + 1 /\ i - 1 < i
      BY <1>1, <1>4, <1>6
    <3> QED
      BY <3>1
  <2>2. InRun(p, j, run[j])
    <3>1. ~(i <= j)
      BY <1>1, <1>4, <2>1
    <3> QED
      BY <1>3, <2>1, <3>1 DEF Bad
  <2>3. run[i] = Profile!Extended(run[j], p[i])
    <3>1. j = i - 1
      BY <1>1, <2>1
    <3> QED
      BY <1>4, <1>6, <3>1 DEF RunAt
  <2> QED
    BY <1>4, <2>1, <2>2, <2>3, RunStep
<1> QED
  BY <1>5, <1>6

\* Every run of one class that is long enough, and the last one, is a segment.
LEMMA SegmentsKept ==
  ASSUME NEW r, AreSamples(r.profile), r.segments = Profile!Segments(r.profile)
  PROVE  Profile!SegmentsAreRuns(r)
<1> DEFINE p == r.profile
           n == Len(p)
           segments == r.segments
<1>1. DOMAIN p = 1..n /\ n \in Nat \ {0} /\ n \in DOMAIN p
  BY DEF AreSamples
<1>2. PICK run : /\ \A i \in DOMAIN p : run[i] = RunAt(p, i, run)
                 /\ segments = Profile!Closed(run[n])
  BY SegmentsFrom
<1>3. InRun(p, n, run[n])
  BY <1>1, <1>2, RunsReach
<1>4. PICK s, closed :
        /\ Begins(p, s, n) /\ Keeps(p, s, closed)
        /\ run[n] = [id |-> p[s].id, from |-> p[s].d, to |-> p[n].d, closed |-> closed]
  BY <1>3 DEF InRun
<1>5. segments = Append(closed, Stretch(p, s, n))
  BY <1>2, <1>4 DEF Profile!Closed, Stretch
<1>6. Counts(p, s, n)
  BY DEF Counts
<1>7. Keeps(p, n + 1, segments)
  BY <1>1, <1>4, <1>5, <1>6, RunEnds
<1> HIDE DEF segments
<1> DEFINE alike == {u \in (DOMAIN p) \X (DOMAIN p) :
                      /\ u[1] <= u[2]
                      /\ \A m \in u[1]..u[2] : p[m].id = p[u[1]].id
                      /\ u[1] = 1 \/ p[u[1] - 1].id # p[u[1]].id
                      /\ u[2] = Len(p) \/ p[u[2] + 1].id # p[u[1]].id}
           counted == {u \in alike : p[u[2]].d - p[u[1]].d >= Profile!MinSegment \/ u[2] = Len(p)}
           said == {[id |-> p[u[1]].id, from |-> p[u[1]].d, to |-> p[u[2]].d] : u \in counted}
<1>8. \A u, v \in DOMAIN p : <<u, v>> \in counted <=> IsRun(p, u, v) /\ Counts(p, u, v)
  BY DEF IsRun, Counts
<1>9. \A u \in counted : /\ u = <<u[1], u[2]>> /\ u[1] \in DOMAIN p /\ u[2] \in DOMAIN p
                         /\ IsRun(p, u[1], u[2]) /\ Counts(p, u[1], u[2])
  BY DEF IsRun, Counts
<1>10. said = {Stretch(p, u[1], u[2]) : u \in counted}
  BY DEF Stretch
<1> HIDE DEF counted, said, alike
<1>11. Profile!Range(segments) = said
  <2>1. ASSUME NEW a \in DOMAIN segments
        PROVE  segments[a] \in said
    <3>1. PICK u \in DOMAIN p, v \in DOMAIN p :
            IsRun(p, u, v) /\ Counts(p, u, v) /\ segments[a] = Stretch(p, u, v)
      BY <1>7 DEF Keeps
    <3>2. <<u, v>> \in counted /\ <<u, v>>[1] = u /\ <<u, v>>[2] = v
      BY <1>8, <3>1
    <3> QED
      BY <1>10, <3>1, <3>2
  <2>2. ASSUME NEW u \in counted
        PROVE  \E a \in DOMAIN segments : segments[a] = Stretch(p, u[1], u[2])
    <3>1. u[2] < n + 1
      BY <1>1, <1>9
    <3> QED
      BY <1>7, <1>9, <3>1 DEF Keeps
  <2> QED
    BY <1>10, <2>1, <2>2 DEF Profile!Range
<1>12. \A a, b \in DOMAIN segments : a < b => segments[a].to < segments[b].from
  BY <1>7 DEF Keeps
<1> QED
  BY <1>11, <1>12 DEF Profile!SegmentsAreRuns, segments, said, counted, alike

\* A deeper band is reached wherever a band is, and with trees wherever without.
LEMMA HeightIs ==
  ASSUME NEW q, q.dtm \in Int, q.dsm \in Int
  PROVE  /\ Profile!Height(q, FALSE) = q.dtm
         /\ Profile!Height(q, TRUE) \in Int /\ Profile!Height(q, TRUE) >= q.dtm
<1> DEFINE S == {0, q.dsm - q.dtm}
<1>1. S \subseteq Int /\ 0 \in S
  OBVIOUS
<1>2. IsFiniteSet(S)
  <2>1. IsFiniteSet({0})
    BY FS_Singleton
  <2>2. IsFiniteSet({0} \cup {q.dsm - q.dtm})
    BY <2>1, FS_AddElement
  <2>3. S = {0} \cup {q.dsm - q.dtm}
    OBVIOUS
  <2> QED
    BY <2>2, <2>3
<1> HIDE DEF S
<1>3. Profile!Max(S) \in Int /\ Profile!Max(S) >= 0
  BY <1>1, <1>2, ExtremesAre
<1>4. PICK m \in Nat : m = Profile!Max(S)
  BY <1>3
<1>5. Profile!Height(q, FALSE) = q.dtm
  BY DEF Profile!Height
<1>6. Profile!Height(q, TRUE) = q.dtm + m \/ Profile!Height(q, TRUE) = q.dtm
  BY <1>4 DEF Profile!Height, S
<1>7. PICK h \in Int : h = q.dtm
  OBVIOUS
<1>8. h + m \in Int /\ h + m >= h
  OBVIOUS
<1> DEFINE bare == Profile!Height(q, FALSE)
           tall == Profile!Height(q, TRUE)
<1>9. bare = h /\ (tall = h + m \/ tall = h)
  BY <1>5, <1>6, <1>7
<1> HIDE DEF bare, tall
<1>10. tall \in Int /\ tall >= h
  BY <1>8, <1>9
<1> QED
  BY <1>5, <1>7, <1>10, Zenon DEF tall

LEMMA Scaled ==
  ASSUME NEW x \in Int, NEW y \in Int, x <= y, NEW m \in Nat
  PROVE  x * m <= y * m
<1>1. PICK e \in Nat : y = x + e
  <2>1. y - x \in Nat /\ y = x + (y - x)
    OBVIOUS
  <2> QED
    BY <2>1
<1>2. (x + e) * m = x * m + e * m /\ e * m \in Nat /\ x * m \in Int
  OBVIOUS
<1> QED
  BY <1>1, <1>2

LEMMA HitSpreads ==
  ASSUME view \in Views, NEW p, AreSamples(p), NEW i \in DOMAIN p,
         NEW a \in Int, NEW b \in Int, a <= b
  PROVE  /\ Profile!Hit(p, i, b, FALSE) => Profile!Hit(p, i, b, TRUE)
         /\ Profile!Hit(p, i, b, FALSE) => Profile!Hit(p, i, a, FALSE)
         /\ Profile!Hit(p, i, b, TRUE) => Profile!Hit(p, i, a, TRUE)
<1>1. /\ DOMAIN p = 1..Len(p) /\ Len(p) \in Nat \ {0} /\ 1 \in DOMAIN p /\ Len(p) \in DOMAIN p
  BY DEF AreSamples
<1> DEFINE n == Len(p)
<1>2. PICK span \in Nat : span = p[Len(p)].d - p[1].d
  <2>1. n = 1 \/ 1 < n
    BY <1>1
  <2>2. p[1].d <= p[n].d /\ p[1].d \in Int /\ p[n].d \in Int
    BY <1>1, <2>1 DEF AreSamples
  <2>3. p[n].d - p[1].d \in Nat
    BY <2>2
  <2> QED
    BY <2>3
<1>3. PICK low \in Int : low = p[1].dtm + view.tx_ha
  BY <1>1, ViewIs DEF AreSamples
<1>4. PICK rise \in Int : rise = p[Len(p)].dtm + view.rx_ha - low
  <2>1. p[n].dtm \in Int /\ view.rx_ha \in Int
    BY <1>1, ViewIs DEF AreSamples
  <2> QED
    BY <2>1
<1>5. PICK rad \in Nat : rad = Profile!RadiusAt([j \in DOMAIN p |-> p[j].d], i)
  BY DEF AreSamples
<1>6. PICK bare \in Int, tall \in Int :
        bare = Profile!Height(p[i], FALSE) /\ tall = Profile!Height(p[i], TRUE) /\ tall >= bare
  BY HeightIs DEF AreSamples
<1>7. PICK far \in Int : far = (p[i].d - p[1].d) * rise
  <2>1. p[i].d - p[1].d \in Int
    BY <1>1 DEF AreSamples
  <2> QED
    BY <2>1
<1> DEFINE over(h, c) == h * span >= low * span + far + c * rad * span
<1>8. \A c \in Int : /\ Profile!Hit(p, i, c, FALSE) <=> over(bare, c)
                     /\ Profile!Hit(p, i, c, TRUE) <=> over(tall, c)
  BY <1>2, <1>3, <1>4, <1>5, <1>6, <1>7, Zenon DEF Profile!Hit
<1>9. bare * span <= tall * span
  BY <1>6, Scaled
<1>10. a * rad * span <= b * rad * span
  <2>1. a * rad <= b * rad /\ a * rad \in Int /\ b * rad \in Int
    BY Scaled
  <2>2. PICK x \in Int, y \in Int : x = a * rad /\ y = b * rad
    BY <2>1
  <2>3. x * span <= y * span
    BY <2>1, <2>2, Scaled
  <2> QED
    BY <2>2, <2>3
<1>11. /\ bare * span \in Int /\ tall * span \in Int /\ low * span \in Int
       /\ a * rad * span \in Int /\ b * rad * span \in Int
  OBVIOUS
<1>12. over(bare, b) => over(tall, b)
  BY <1>9, <1>11
<1>13. \A h \in {bare, tall} : over(h, b) => over(h, a)
  BY <1>10, <1>11
<1> QED
  BY <1>8, <1>12, <1>13

\* The metres along which some samples stand.
Metres(p, H) == UNION {p[i].d..(p[i + 1].d - 1) : i \in H}

Hits(p, b, trees) == {j \in 1..(Len(p) - 1) : Profile!Hit(p, j, b, trees)}

LEMMA MetresGrow ==
  ASSUME NEW p, AreSamples(p), NEW G, G \subseteq 1..(Len(p) - 1), NEW H, H \subseteq G
  PROVE  /\ Cardinality(Metres(p, G)) \in Nat /\ Cardinality(Metres(p, H)) \in Nat
         /\ Cardinality(Metres(p, H)) <= Cardinality(Metres(p, G))
<1>1. /\ DOMAIN p = 1..Len(p) /\ Len(p) \in Nat \ {0}
      /\ \A i, j \in DOMAIN p : i < j => p[i].d < p[j].d
      /\ \A i \in DOMAIN p : p[i].d \in Nat
  BY DEF AreSamples
<1>2. PICK top \in Nat : top = p[Len(p)].d
  BY <1>1
<1>3. \A i \in 1..(Len(p) - 1) : p[i].d..(p[i + 1].d - 1) \subseteq 0..top
  <2> SUFFICES ASSUME NEW i \in 1..(Len(p) - 1)
               PROVE  p[i].d..(p[i + 1].d - 1) \subseteq 0..top
    OBVIOUS
  <2>1. i \in DOMAIN p /\ i + 1 \in DOMAIN p /\ (i + 1 = Len(p) \/ i + 1 < Len(p))
    <3>1. PICK n \in Nat : n = Len(p) /\ DOMAIN p = 1..n /\ i \in 1..(n - 1)
      BY <1>1
    <3> QED
      BY <3>1
  <2>2. PICK x \in Nat, y \in Nat : x = p[i].d /\ y = p[i + 1].d
    BY <1>1, <2>1
  <2>3. y <= top
    BY <1>1, <1>2, <2>1, <2>2
  <2>4. x..(y - 1) \subseteq 0..top
    BY <2>3
  <2> QED
    BY <2>2, <2>4
<1>4. Metres(p, G) \subseteq 0..top /\ Metres(p, H) \subseteq Metres(p, G)
  <2> HIDE DEF AreSamples
  <2> QED
    BY <1>3 DEF Metres
<1>5. IsFiniteSet(0..top)
  BY FS_Interval
<1>6. IsFiniteSet(Metres(p, G))
  BY <1>4, <1>5, FS_Subset
<1>7. IsFiniteSet(Metres(p, H)) /\ Cardinality(Metres(p, H)) <= Cardinality(Metres(p, G))
  BY <1>4, <1>6, FS_Subset
<1> QED
  BY <1>6, <1>7, FS_CardinalityType

LEMMA DeepnessIs ==
  ASSUME NEW p, NEW b, NEW trees
  PROVE  Profile!Deepness(p, b, trees) = Cardinality(Metres(p, Hits(p, b, trees)))
  BY SizeInProfile, Zenon DEF Profile!Deepness, Metres, Hits

\* Trees only add to the metres obstructed, and a deeper band has no fewer of them.
LEMMA TreesAdd ==
  ASSUME view \in Views, NEW r, AreSamples(r.profile),
         r.terrain = [b \in Profile!Range(Profile!Bands) |->
                        Profile!Deepness(r.profile, b, FALSE)],
         r.clutter = [b \in Profile!Range(Profile!Bands) |->
                        Profile!Deepness(r.profile, b, TRUE)
                          - Profile!Deepness(r.profile, b, FALSE)]
  PROVE  Profile!TreesOnlyAdd(r)
<1> DEFINE p == r.profile
           B == Profile!Range(Profile!Bands)
           bare(b) == Profile!Deepness(p, b, FALSE)
           tall(b) == Profile!Deepness(p, b, TRUE)
<1>1. B \subseteq Int
  BY DEF Profile!Range, Profile!Bands
<1>2. /\ \A b \in B : r.terrain[b] = bare(b)
      /\ \A b \in B : r.clutter[b] = tall(b) - bare(b)
  OBVIOUS
<1> HIDE DEF B
<1>3. \A b : bare(b) = Cardinality(Metres(p, Hits(p, b, FALSE)))
  BY DeepnessIs
<1>4. \A b : tall(b) = Cardinality(Metres(p, Hits(p, b, TRUE)))
  BY DeepnessIs
<1> HIDE DEF bare, tall
<1>5. 1..(Len(p) - 1) \subseteq DOMAIN p
  BY DEF AreSamples
<1>6. \A b : /\ Hits(p, b, TRUE) \subseteq 1..(Len(p) - 1)
             /\ Hits(p, b, FALSE) \subseteq 1..(Len(p) - 1)
  BY DEF Hits
<1>7. \A b \in B : /\ bare(b) \in Nat /\ tall(b) \in Nat /\ bare(b) <= tall(b)
  <2> SUFFICES ASSUME NEW b \in B
               PROVE  bare(b) \in Nat /\ tall(b) \in Nat /\ bare(b) <= tall(b)
    OBVIOUS
  <2>1. Hits(p, b, FALSE) \subseteq Hits(p, b, TRUE)
    <3>1. b \in Int /\ b <= b
      BY <1>1
    <3>2. \A i \in 1..(Len(p) - 1) : Profile!Hit(p, i, b, FALSE) => Profile!Hit(p, i, b, TRUE)
      BY <1>5, <3>1, HitSpreads
    <3> QED
      BY <3>2 DEF Hits
  <2> QED
    BY <1>3, <1>4, <1>6, <2>1, MetresGrow
<1>8. \A a, b \in B : a <= b => bare(b) <= bare(a) /\ tall(b) <= tall(a)
  <2> SUFFICES ASSUME NEW a \in B, NEW b \in B, a <= b
               PROVE  bare(b) <= bare(a) /\ tall(b) <= tall(a)
    OBVIOUS
  <2>1. a \in Int /\ b \in Int
    BY <1>1
  <2>2. \A i \in 1..(Len(p) - 1) :
          /\ Profile!Hit(p, i, b, FALSE) => Profile!Hit(p, i, a, FALSE)
          /\ Profile!Hit(p, i, b, TRUE) => Profile!Hit(p, i, a, TRUE)
    BY <1>5, <2>1, HitSpreads
  <2>3. Hits(p, b, FALSE) \subseteq Hits(p, a, FALSE) /\ Hits(p, b, TRUE) \subseteq Hits(p, a, TRUE)
    BY <2>2 DEF Hits
  <2> QED
    BY <1>3, <1>4, <1>6, <2>3, MetresGrow
<1>9. ASSUME NEW a \in B, NEW b \in B
      PROVE  /\ r.clutter[a] >= 0
             /\ a <= b => r.terrain[a] >= r.terrain[b]
                          /\ r.terrain[a] + r.clutter[a] >= r.terrain[b] + r.clutter[b]
  <2>1. PICK ta \in Nat, tb \in Nat : ta = bare(a) /\ tb = bare(b)
    BY <1>7
  <2>2. PICK ca \in Nat, cb \in Nat : ca = tall(a) /\ cb = tall(b)
    BY <1>7
  <2>3. r.terrain[a] = ta /\ r.terrain[b] = tb
    BY <1>2, <2>1
  <2>4. r.clutter[a] = ca - ta /\ r.clutter[b] = cb - tb
    BY <1>2, <2>1, <2>2
  <2>5. ta <= ca /\ (a <= b => tb <= ta /\ cb <= ca)
    BY <1>7, <1>8, <2>1, <2>2
  <2>6. ta + (ca - ta) = ca /\ tb + (cb - tb) = cb /\ (ta <= ca => ca - ta >= 0)
    OBVIOUS
  <2> QED
    BY <2>3, <2>4, <2>5, <2>6
<1> QED
  BY <1>9 DEF Profile!TreesOnlyAdd, B

\* Severities are fractions with a positive denominator, so being worse is an order
\* that leaves no two of them apart from a third.
IsGrade(s) == s.num \in Int /\ s.den \in Nat \ {0} /\ s.d \in Nat

LEMMA Cancels ==
  ASSUME NEW x \in Int, NEW y \in Int, NEW m \in Nat \ {0}, x * m < y * m
  PROVE  x < y
<1>1. CASE y <= x
  <2>1. y * m <= x * m
    BY <1>1, Scaled
  <2>2. x * m \in Int /\ y * m \in Int
    OBVIOUS
  <2> QED
    BY <2>1, <2>2
<1> QED
  BY <1>1

LEMMA ScaledStrictly ==
  ASSUME NEW x \in Int, NEW y \in Int, x < y, NEW m \in Nat \ {0}
  PROVE  x * m < y * m
<1>1. PICK e \in Nat \ {0} : y = x + e
  <2>1. y - x \in Nat \ {0} /\ y = x + (y - x)
    OBVIOUS
  <2> QED
    BY <2>1
<1>2. (x + e) * m = x * m + e * m /\ x * m \in Int
  OBVIOUS
<1>3. e * m \in Nat \ {0}
  OBVIOUS
<1> QED
  BY <1>1, <1>2, <1>3

\* a/b over c/e and c/e over f/g.
LEMMA FractionsChain ==
  ASSUME NEW a \in Int, NEW b \in Nat \ {0}, NEW c \in Int, NEW e \in Nat \ {0},
         NEW f \in Int, NEW g \in Nat \ {0}
  PROVE  /\ a * e > c * b /\ c * g > f * e => a * g > f * b
         /\ a * e >= c * b /\ c * g >= f * e => a * g >= f * b
<1>1. PICK ae \in Int, cb \in Int, cg \in Int, fe \in Int, ag \in Int, fb \in Int :
        ae = a * e /\ cb = c * b /\ cg = c * g /\ fe = f * e /\ ag = a * g /\ fb = f * b
  <2>1. /\ a * e \in Int /\ c * b \in Int /\ c * g \in Int
        /\ f * e \in Int /\ a * g \in Int /\ f * b \in Int
    OBVIOUS
  <2> QED
    BY <2>1
<1>2. ae * g = ag * e
  BY <1>1
<1>3. cb * g = cg * b
  BY <1>1
<1>4. fe * b = fb * e
  BY <1>1
<1>5. /\ ae * g \in Int /\ cb * g \in Int /\ cg * b \in Int
      /\ fe * b \in Int /\ ag * e \in Int /\ fb * e \in Int
  OBVIOUS
<1>6. ASSUME ae > cb, cg > fe
      PROVE  ag > fb
  <2>1. cb * g < ae * g
    BY <1>6, ScaledStrictly
  <2>2. fe * b < cg * b
    BY <1>6, ScaledStrictly
  <2>3. fb * e < ag * e
    BY <1>2, <1>3, <1>4, <1>5, <2>1, <2>2
  <2> QED
    BY <2>3, Cancels
<1>7. ASSUME ae >= cb, cg >= fe
      PROVE  ag >= fb
  <2>1. cb * g <= ae * g
    BY <1>7, Scaled
  <2>2. fe * b <= cg * b
    BY <1>7, Scaled
  <2>3. CASE ag < fb
    <3>1. ag * e < fb * e
      BY <2>3, ScaledStrictly
    <3> QED
      BY <1>2, <1>3, <1>4, <1>5, <2>1, <2>2, <3>1
  <2> QED
    BY <2>3
<1> QED
  BY <1>1, <1>6, <1>7

LEMMA WorseChains ==
  ASSUME NEW s, IsGrade(s), NEW t, IsGrade(t), NEW u, IsGrade(u)
  PROVE  /\ ~Profile!Worse(s, s)
         /\ Profile!Worse(s, t) => ~Profile!Worse(t, s)
         /\ Profile!Worse(s, t) /\ Profile!Worse(t, u) => Profile!Worse(s, u)
         /\ ~Profile!Worse(s, t) /\ ~Profile!Worse(t, u) => ~Profile!Worse(s, u)
<1>1. PICK a \in Int, b \in Nat \ {0} : a = s.num /\ b = s.den
  BY DEF IsGrade
<1>2. PICK c \in Int, e \in Nat \ {0} : c = t.num /\ e = t.den
  BY DEF IsGrade
<1>3. PICK f \in Int, g \in Nat \ {0} : f = u.num /\ g = u.den
  BY DEF IsGrade
<1>4. /\ Profile!Worse(s, s) <=> a * b > a * b
      /\ Profile!Worse(s, t) <=> a * e > c * b
      /\ Profile!Worse(t, s) <=> c * b > a * e
      /\ Profile!Worse(t, u) <=> c * g > f * e
      /\ Profile!Worse(s, u) <=> a * g > f * b
  BY <1>1, <1>2, <1>3, Zenon DEF Profile!Worse
<1>5. /\ a * b \in Int /\ a * e \in Int /\ c * b \in Int /\ c * g \in Int
      /\ f * e \in Int /\ a * g \in Int /\ f * b \in Int
  OBVIOUS
<1>6. a * e > c * b /\ c * g > f * e => a * g > f * b
  BY FractionsChain
<1>7. f * e >= c * g /\ c * b >= a * e => f * b >= a * g
  BY FractionsChain
<1> QED
  BY <1>4, <1>5, <1>6, <1>7

LEMMA BeforeChains ==
  ASSUME NEW s, IsGrade(s), NEW t, IsGrade(t), NEW u, IsGrade(u)
  PROVE  /\ ~Profile!Before(s, s)
         /\ Profile!Before(s, t) /\ Profile!Before(t, u) => Profile!Before(s, u)
<1>1. s.d \in Nat /\ t.d \in Nat /\ u.d \in Nat
  BY DEF IsGrade
<1>2. s.d < t.d /\ t.d < u.d => s.d < u.d
  BY <1>1
<1>3. ~(s.d < s.d)
  BY <1>1
<1>4. \A x, y, z \in {s, t, u} :
        /\ ~Profile!Worse(x, x)
        /\ Profile!Worse(x, y) => ~Profile!Worse(y, x)
        /\ Profile!Worse(x, y) /\ Profile!Worse(y, z) => Profile!Worse(x, z)
        /\ ~Profile!Worse(x, y) /\ ~Profile!Worse(y, z) => ~Profile!Worse(x, z)
  BY WorseChains
<1> QED
  BY <1>2, <1>3, <1>4 DEF Profile!Before

\* Something comes first among finitely many severities.
LEMMA FirstExists ==
  ASSUME NEW P, IsFiniteSet(P), P # {}, \A s \in P : IsGrade(s)
  PROVE  \E s \in P : \A t \in P : ~Profile!Before(t, s)
<1> DEFINE ahead(s) == {t \in P : Profile!Before(t, s)}
           count(s) == Cardinality(ahead(s))
           counts == {count(s) : s \in P}
<1>1. \A s \in P : IsFiniteSet(ahead(s)) /\ count(s) \in Nat
  BY FS_Subset, FS_CardinalityType
<1>2. PICK s \in P : \A t \in P : count(s) <= count(t)
  <2>1. counts \in SUBSET Nat /\ counts # {}
    BY <1>1
  <2>2. PICK m \in counts : \A x \in counts : m <= x
    <3> HIDE DEF counts
    <3> QED
      BY <2>1, LeastNat
  <2> QED
    BY <2>2
<1>3. ASSUME NEW t \in P, Profile!Before(t, s)
      PROVE  FALSE
  <2>1. ahead(t) \subseteq ahead(s)
    BY <1>3, BeforeChains
  <2>2. t \in ahead(s) /\ t \notin ahead(t)
    BY <1>3, BeforeChains
  <2> HIDE DEF ahead
  <2>3. ahead(t) # ahead(s)
    BY <2>2
  <2>4. count(t) < count(s)
    BY <1>1, <2>1, <2>3, FS_Subset
  <2> HIDE DEF count
  <2> QED
    BY <1>1, <1>2, <2>4
<1> QED
  BY <1>3

\* The first of the list that WorstFirst makes is worse than none.
LEMMA WorstIsFirst ==
  ASSUME NEW P, IsFiniteSet(P), P # {}, \A s \in P : IsGrade(s)
  PROVE  LET list == Profile!FirstOf(Profile!WorstFirst(P), Profile!MaxPeaks)
         IN /\ list # <<>> /\ list[1] \in P
            /\ \A t \in P : ~Profile!Worse(t, list[1])
<1> DEFINE n == Cardinality(P)
           Q(s, m) == Cardinality({t \in P : Profile!Before(t, s)}) = m - 1
           all == Profile!WorstFirst(P)
<1>1. n \in Nat \ {0}
  BY FS_CardinalityType, FS_EmptySet
<1>2. all = [m \in 1..n |-> CHOOSE s \in P : Q(s, m)]
  BY Zenon DEF Profile!WorstFirst, Cardinality, Profile!Cardinality
<1>3. \E s \in P : Q(s, 1)
  <2>1. PICK s \in P : \A t \in P : ~Profile!Before(t, s)
    BY FirstExists
  <2>2. {t \in P : Profile!Before(t, s)} = {}
    BY <2>1
  <2>3. Cardinality({t \in P : Profile!Before(t, s)}) = 1 - 1
    BY <2>2, FS_EmptySet
  <2> QED
    BY <2>3
<1> DEFINE first == CHOOSE s \in P : Q(s, 1)
<1>4. first \in P /\ Q(first, 1)
  <2> HIDE DEF Q
  <2> QED
    BY <1>3
<1> HIDE DEF first
<1>5. \A t \in P : ~Profile!Before(t, first)
  <2> DEFINE S == {t \in P : Profile!Before(t, first)}
  <2>1. IsFiniteSet(S) /\ Cardinality(S) = 0
    BY <1>4, FS_Subset
  <2> HIDE DEF S
  <2>2. S = {}
    BY <2>1, FS_EmptySet
  <2> QED
    BY <2>2 DEF S
<1>6. \A t \in P : ~Profile!Worse(t, first)
  BY <1>5 DEF Profile!Before
<1> HIDE DEF n, Q, all
<1>7. 1 \in 1..n
  BY <1>1
<1>8. all[1] = first /\ DOMAIN all = 1..n
  BY <1>2, <1>7 DEF first
<1>9. all \in Seq({all[m] : m \in 1..n}) /\ Len(all) = n
  <2> DEFINE T == {all[m] : m \in 1..n}
  <2>1. all = [m \in 1..n |-> all[m]]
    BY <1>2
  <2>2. \A m \in 1..n : all[m] \in T
    OBVIOUS
  <2> HIDE DEF T
  <2>3. all \in [1..n -> T]
    BY <2>1, <2>2
  <2>4. PICK l \in Nat : l = n
    BY <1>1
  <2>5. all \in Seq(T) /\ Len(all) = n
    BY <2>3, <2>4
  <2> QED
    BY <2>5 DEF T
<1>10. PICK top \in Nat \ {0} : top = Profile!Min({Profile!MaxPeaks, Len(all)})
  <2> DEFINE S == {Profile!MaxPeaks, n}
  <2>1. S \subseteq Nat \ {0} /\ S # {}
    BY <1>1 DEF Profile!MaxPeaks
  <2>2. IsFiniteSet({Profile!MaxPeaks})
    BY FS_Singleton
  <2>3. IsFiniteSet({Profile!MaxPeaks} \cup {n})
    BY <2>2, FS_AddElement
  <2>4. S = {Profile!MaxPeaks} \cup {n}
    OBVIOUS
  <2>5. IsFiniteSet(S)
    BY <2>3, <2>4
  <2> HIDE DEF S
  <2>6. S \subseteq Int
    BY <2>1
  <2>7. Profile!Min(S) \in S
    BY <2>1, <2>5, <2>6, ExtremesAre
  <2> QED
    BY <1>9, <2>1, <2>7 DEF S
<1> DEFINE list == Profile!FirstOf(all, Profile!MaxPeaks)
<1>11. list = SubSeq(all, 1, top)
  BY <1>10 DEF Profile!FirstOf
<1>12. Len(list) = top /\ list[1] = all[1]
  BY <1>9, <1>11
<1> HIDE DEF list
<1>13. list # <<>> /\ list[1] = first
  BY <1>8, <1>12
<1> QED
  BY <1>4, <1>6, <1>13 DEF list, all

\* The ground below the line of sight.
AreSights(g) ==
  /\ Len(g) \in Nat \ {0} /\ DOMAIN g = 1..Len(g)
  /\ \A i \in DOMAIN g : g[i].d \in Nat /\ g[i].radius \in Nat \ {0} /\ g[i].over \in Int
  /\ \A i, j \in DOMAIN g : i < j => g[i].d < g[j].d

LEMMA GradesAre ==
  ASSUME view \in Views, NEW g, AreSights(g), NEW i \in DOMAIN g
  PROVE  IsGrade(Profile!Severity(g[i])) /\ Profile!Severity(g[i]).d = g[i].d
<1>1. PICK o \in Int, d \in Nat, rad \in Nat \ {0} :
        o = g[i].over /\ d = g[i].d /\ rad = g[i].radius
  BY DEF AreSights
<1>2. PICK len \in Nat : len = view.length
  BY ViewIs
<1>3. Profile!Severity(g[i]) = [num |-> o + 10 * rad * len, den |-> rad, d |-> d]
  BY <1>1, <1>2 DEF Profile!Severity
<1>4. o + 10 * rad * len \in Int
  OBVIOUS
<1> QED
  BY <1>1, <1>3, <1>4 DEF IsGrade

\* A sample in the Fresnel zone belongs to a lobe.
LEMMA LobeAround ==
  ASSUME NEW g, AreSights(g), NEW i \in DOMAIN g, Profile!Obstructs(g[i])
  PROVE  \E lobe \in Profile!Lobes(g) : lobe[1] <= i /\ i <= lobe[2]
<1>1. PICK n \in Nat \ {0} : n = Len(g) /\ DOMAIN g = 1..n /\ i \in 1..n
  BY DEF AreSights
<1> DEFINE In(j) == Profile!Obstructs(g[j])
           starts == {u \in 1..i : \A m \in u..i : In(m)}
           ends == {v \in i..n : \A m \in i..v : In(m)}
<1>2. i \in starts /\ i \in ends /\ starts \subseteq Int /\ ends \subseteq Int
  <2>1. i \in 1..i /\ i \in i..n /\ \A m \in i..i : m = i
    BY <1>1
  <2>2. 1..i \subseteq Int /\ i..n \subseteq Int
    BY <1>1
  <2> QED
    BY <2>1, <2>2
<1>3. IsFiniteSet(starts) /\ IsFiniteSet(ends)
  <2>1. IsFiniteSet(1..i) /\ IsFiniteSet(i..n)
    BY <1>1, FS_Interval
  <2>2. starts \subseteq 1..i /\ ends \subseteq i..n
    OBVIOUS
  <2> HIDE DEF starts, ends
  <2> QED
    BY <2>1, <2>2, FS_Subset
<1>4. PICK u \in starts : \A m \in starts : u <= m
  <2> HIDE DEF starts
  <2> QED
    BY <1>2, <1>3, ExtremesAre
<1>5. PICK v \in ends : \A m \in ends : m <= v
  <2> HIDE DEF ends
  <2> QED
    BY <1>2, <1>3, ExtremesAre
<1>6. /\ u \in 1..n /\ v \in 1..n /\ u <= i /\ i <= v
      /\ \A m \in u..i : In(m)
      /\ \A m \in i..v : In(m)
  BY <1>1, <1>4, <1>5
<1>7. \A m \in u..v : In(m)
  <2>1. \A m \in u..v : m \in u..i \/ m \in i..v
    BY <1>1, <1>6
  <2> HIDE DEF In
  <2> QED
    BY <1>6, <2>1
<1>8. u = 1 \/ ~In(u - 1)
  <2> SUFFICES ASSUME u # 1, In(u - 1)
               PROVE  FALSE
    OBVIOUS
  <2>1. u - 1 \in 1..i /\ \A m \in (u - 1)..i : m = u - 1 \/ m \in u..i
    BY <1>1, <1>6
  <2> HIDE DEF In
  <2>2. u - 1 \in starts
    BY <1>6, <2>1
  <2>3. ~(u <= u - 1)
    BY <1>1, <1>6
  <2> QED
    BY <1>4, <2>2, <2>3
<1>9. v = n \/ ~In(v + 1)
  <2> SUFFICES ASSUME v # n, In(v + 1)
               PROVE  FALSE
    OBVIOUS
  <2>1. v + 1 \in i..n /\ \A m \in i..(v + 1) : m = v + 1 \/ m \in i..v
    BY <1>1, <1>6
  <2> HIDE DEF In
  <2>2. v + 1 \in ends
    BY <1>6, <2>1
  <2>3. ~(v + 1 <= v)
    BY <1>1, <1>6
  <2> QED
    BY <1>5, <2>2, <2>3
<1>10. <<u, v>> \in Profile!Lobes(g)
  <2>1. <<u, v>> \in (DOMAIN g) \X (DOMAIN g) /\ <<u, v>>[1] = u /\ <<u, v>>[2] = v /\ u <= v
    BY <1>1, <1>6
  <2> QED
    BY <1>1, <1>7, <1>8, <1>9, <2>1 DEF Profile!Lobes
<1> QED
  BY <1>6, <1>10

\* The peak of a lobe is one of its samples and no other one is worse.
LEMMA PeakIs ==
  ASSUME view \in Views, NEW g, AreSights(g), NEW u \in DOMAIN g, NEW v \in DOMAIN g, u <= v
  PROVE  \E i \in u..v : /\ Profile!PeakOf(g, <<u, v>>) = Profile!Severity(g[i])
                         /\ \A j \in u..v : ~Profile!Worse(Profile!Severity(g[j]),
                                                           Profile!Severity(g[i]))
<1> DEFINE grade == [i \in u..v |-> Profile!Severity(g[i])]
           P == Profile!Range(grade)
           Top(i) == \A j \in u..v :
                       /\ ~Profile!Worse(Profile!Severity(g[j]), Profile!Severity(g[i]))
                       /\ j < i => Profile!Worse(Profile!Severity(g[i]), Profile!Severity(g[j]))
<1>1. /\ u \in Int /\ v \in Int /\ u..v \subseteq DOMAIN g /\ u..v \subseteq Int /\ u \in u..v
      /\ \A i, j \in u..v : i < j => g[i].d < g[j].d
  BY DEF AreSights
<1>2. \A i \in u..v : /\ grade[i] = Profile!Severity(g[i]) /\ IsGrade(grade[i])
                      /\ grade[i].d = g[i].d
  BY <1>1, GradesAre
<1>3. P = {grade[i] : i \in u..v}
  BY DEF Profile!Range
<1>4. IsFiniteSet(P)
  <2>1. IsFiniteSet(u..v)
    BY <1>1, FS_Interval
  <2>2. grade \in [u..v -> {grade[i] : i \in u..v}]
    OBVIOUS
  <2> HIDE DEF grade
  <2> QED
    BY <2>1, <2>2, RangeIsFinite
<1> HIDE DEF grade
<1>5. P # {} /\ \A s \in P : IsGrade(s)
  BY <1>1, <1>2, <1>3
<1>6. PICK i \in u..v : \A t \in P : ~Profile!Before(t, grade[i])
  <2>1. PICK s \in P : \A t \in P : ~Profile!Before(t, s)
    <3> HIDE DEF P
    <3> QED
      BY <1>4, <1>5, FirstExists
  <2> QED
    BY <1>3, <2>1
<1>7. Top(i)
  <2> SUFFICES ASSUME NEW j \in u..v
               PROVE  /\ ~Profile!Worse(grade[j], grade[i])
                      /\ j < i => Profile!Worse(grade[i], grade[j])
    BY <1>2
  <2>1. ~Profile!Before(grade[j], grade[i])
    BY <1>3, <1>6
  <2>2. ~Profile!Worse(grade[j], grade[i])
    BY <2>1 DEF Profile!Before
  <2>3. ASSUME j < i
        PROVE  Profile!Worse(grade[i], grade[j])
    <3>1. grade[j].d < grade[i].d
      BY <1>1, <1>2, <2>3
    <3> QED
      BY <2>1, <3>1 DEF Profile!Before
  <2> QED
    BY <2>2, <2>3
<1> DEFINE c == CHOOSE k1 \in u..v : Top(k1)
<1>8. c \in u..v /\ Top(c)
  <2> HIDE DEF Top
  <2> QED
    BY <1>7
<1>9. Profile!PeakOf(g, <<u, v>>) = Profile!Severity(g[c])
  BY DEF Profile!PeakOf
<1> HIDE DEF c
<1> QED
  BY <1>8, <1>9

\* The worst peak comes first.
LEMMA WorstComesFirst ==
  ASSUME view \in Views, NEW f, AreSights(f.ground), f.peaks = Profile!Peaks(f.ground)
  PROVE  Profile!WorstPeakIsFirst(f)
<1> DEFINE g == f.ground
           peak == [lobe \in Profile!Lobes(g) |-> Profile!PeakOf(g, lobe)]
           P == Profile!Range(peak)
<1>1. /\ DOMAIN g = 1..Len(g) /\ Len(g) \in Nat
  BY DEF AreSights
<1>2. \A lobe \in Profile!Lobes(g) :
        /\ lobe = <<lobe[1], lobe[2]>> /\ lobe[1] \in DOMAIN g /\ lobe[2] \in DOMAIN g
        /\ lobe[1] <= lobe[2]
  BY DEF Profile!Lobes
<1>3. P = {Profile!PeakOf(g, lobe) : lobe \in Profile!Lobes(g)}
  BY DEF Profile!Range
<1>4. f.peaks = Profile!FirstOf(Profile!WorstFirst(P), Profile!MaxPeaks)
  BY <1>3, Zenon DEF Profile!Peaks
<1>5. IsFiniteSet(P)
  <2>1. IsFiniteSet(DOMAIN g)
    BY <1>1, FS_Interval
  <2>2. IsFiniteSet((DOMAIN g) \X (DOMAIN g))
    BY <2>1, FS_Product
  <2>3. Profile!Lobes(g) \subseteq (DOMAIN g) \X (DOMAIN g)
    BY Zenon DEF Profile!Lobes
  <2>4. IsFiniteSet(Profile!Lobes(g))
    BY <2>2, <2>3, FS_Subset
  <2>5. peak \in [Profile!Lobes(g) -> {peak[lobe] : lobe \in Profile!Lobes(g)}]
    OBVIOUS
  <2> HIDE DEF peak
  <2> QED
    BY <2>4, <2>5, RangeIsFinite
<1>6. \A lobe \in Profile!Lobes(g) : IsGrade(Profile!PeakOf(g, lobe))
  <2> SUFFICES ASSUME NEW lobe \in Profile!Lobes(g)
               PROVE  IsGrade(Profile!PeakOf(g, lobe))
    OBVIOUS
  <2>1. PICK u \in DOMAIN g, v \in DOMAIN g : u <= v /\ lobe = <<u, v>>
    BY <1>2
  <2>2. PICK i \in u..v : Profile!PeakOf(g, <<u, v>>) = Profile!Severity(g[i])
    BY <2>1, PeakIs
  <2>3. i \in DOMAIN g
    BY <1>1, <2>1
  <2> QED
    BY <2>1, <2>2, <2>3, GradesAre
<1> HIDE DEF P
<1>7. ASSUME NEW i \in DOMAIN g, Profile!Obstructs(g[i])
      PROVE  f.peaks # <<>> /\ ~Profile!Worse(Profile!Severity(g[i]), f.peaks[1])
  <2>1. PICK lobe \in Profile!Lobes(g) : lobe[1] <= i /\ i <= lobe[2]
    BY <1>7, LobeAround
  <2>2. PICK u \in DOMAIN g, v \in DOMAIN g : u <= v /\ lobe = <<u, v>> /\ u <= i /\ i <= v
    BY <1>2, <2>1
  <2>3. i \in u..v
    BY <1>1, <2>2
  <2> DEFINE top == Profile!PeakOf(g, lobe)
  <2>4. top \in P /\ P # {} /\ IsGrade(top)
    BY <1>3, <1>6
  <2>5. ~Profile!Worse(Profile!Severity(g[i]), top)
    <3>1. PICK m \in u..v : /\ Profile!PeakOf(g, <<u, v>>) = Profile!Severity(g[m])
                           /\ \A j \in u..v : ~Profile!Worse(Profile!Severity(g[j]),
                                                             Profile!Severity(g[m]))
      BY <2>2, PeakIs
    <3> QED
      BY <2>2, <2>3, <3>1
  <2> HIDE DEF top
  <2>6. \A s \in P : IsGrade(s)
    BY <1>3, <1>6
  <2>7. f.peaks # <<>> /\ f.peaks[1] \in P /\ ~Profile!Worse(top, f.peaks[1])
    BY <1>4, <1>5, <2>4, <2>6, WorstIsFirst
  <2>8. IsGrade(Profile!Severity(g[i])) /\ IsGrade(f.peaks[1])
    BY <2>6, <2>7, GradesAre
  <2> QED
    BY <2>4, <2>5, <2>7, <2>8, WorseChains
<1> QED
  BY <1>7 DEF Profile!WorstPeakIsFirst, Profile!Range

LEMMA GroundIs ==
  ASSUME AreRead, NEW ds, ds = Profile!Distances(slices.dtm), ds # <<>>
  PROVE  AreSights(Profile!Ground(ds))
<1> DEFINE S == {d \in DOMAIN slices.dtm : 0 <= d /\ d <= view.length}
           n == Cardinality(S)
           ground == Profile!Ground(ds)
           h(d) == Profile!LinearMax(slices.dtm, d, 0)
<1>1. view \in Views /\ view.length \in Nat /\ view.tx_ha \in Int /\ view.rx_ha \in Int
  BY ViewIs DEF AreRead
<1>2. AreSlices(slices.dtm) /\ IsFiniteSet(DOMAIN slices.dtm) /\ DOMAIN slices.dtm \subseteq Int
  BY <1>1, HeightsAre DEF AreRead, AreSlices
<1>3. n \in Nat \ {0} /\ Lists(ds, n, S) /\ S \subseteq 0..view.length /\ S \subseteq Int
  BY <1>1, <1>2, DistancesAre
<1>4. \A x \in S : x \in DOMAIN slices.dtm
  OBVIOUS
<1> HIDE DEF S, n
<1>5. /\ DOMAIN ds = 1..n /\ \A i \in DOMAIN ds : ds[i] \in S /\ ds[i] \in Nat
      /\ \A a, b \in DOMAIN ds : a < b => ds[a] < ds[b]
  <2>1. DOMAIN ds = 1..n /\ \A i \in DOMAIN ds : ds[i] \in S
    BY <1>3, EndsOfList
  <2>2. \A x \in S : x \in Nat
    BY <1>1, <1>3
  <2> QED
    BY <1>3, <2>1, <2>2 DEF Lists
<1>6. DOMAIN slices.dtm # {}
  <2>1. 1 \in DOMAIN ds
    BY <1>3, <1>5
  <2> QED
    BY <1>4, <1>5, <2>1
<1>7. \A d \in Int : h(d) \in Int
  BY <1>2, <1>6, LinearMaxIs
<1>8. PICK low \in Int : low = h(0) + view.tx_ha
  <2>1. h(0) \in Int
    BY <1>7
  <2> HIDE DEF h
  <2> QED
    BY <1>1, <2>1
<1>9. PICK rise \in Int : rise = h(view.length) + view.rx_ha - low
  <2>1. h(view.length) \in Int
    BY <1>1, <1>7
  <2> HIDE DEF h
  <2> QED
    BY <1>1, <2>1
<1>10. ground = [i \in DOMAIN ds |->
                   [d |-> ds[i], radius |-> Profile!RadiusAt(ds, i),
                    over |-> (h(ds[i]) - low) * view.length - ds[i] * rise]]
  BY <1>8, <1>9, Zenon DEF Profile!Ground
<1> HIDE DEF ground, h
<1>11. ASSUME NEW i \in DOMAIN ds
       PROVE  /\ ground[i].d = ds[i] /\ ground[i].radius \in Nat \ {0} /\ ground[i].over \in Int
  <2>1. PICK d \in Nat : d = ds[i]
    BY <1>5
  <2>2. PICK e \in Int : e = h(ds[i]) - low
    <3>1. h(d) \in Int
      BY <1>7
    <3> QED
      BY <2>1, <3>1
  <2>3. PICK len \in Nat : len = view.length
    BY <1>1
  <2>4. e * len - d * rise \in Int
    OBVIOUS
  <2>5. Profile!RadiusAt(ds, i) \in Nat \ {0}
    BY <1>1, <1>3, RadiusIs
  <2>6. /\ ground[i].d = d /\ ground[i].radius = Profile!RadiusAt(ds, i)
        /\ ground[i].over = e * len - d * rise
    BY <1>10, <2>1, <2>2, <2>3
  <2> QED
    BY <2>1, <2>4, <2>5, <2>6
<1>12. DOMAIN ground = 1..n /\ Len(ground) = n
  <2> DEFINE T == {ground[i] : i \in 1..n}
  <2>1. ground = [i \in 1..n |-> ground[i]] /\ \A i \in 1..n : ground[i] \in T
    BY <1>5, <1>10
  <2> HIDE DEF T
  <2>2. ground \in [1..n -> T]
    BY <2>1
  <2>3. PICK l \in Nat : l = n
    BY <1>3
  <2> QED
    BY <2>2, <2>3
<1>13. AreSights(ground)
  BY <1>3, <1>5, <1>11, <1>12 DEF AreSights
<1> QED
  BY <1>13 DEF ground

\* The view does not move.
LEMMA PlaceStays ==
  ASSUME view' = view, NEW p
  PROVE  Profile!Along(p)' = Profile!Along(p) /\ Profile!Across(p)' = Profile!Across(p)
  BY DEF Profile!Along, Profile!Across

LEMMA CorridorStays ==
  ASSUME view' = view, NEW r, NEW p
  PROVE  /\ Profile!InCorridor(r, p)' <=> Profile!InCorridor(r, p)
         /\ Profile!Key(r, p)' = Profile!Key(r, p)
<1>1. (Profile!Along(p)' = Profile!Along(p)) /\ (Profile!Across(p)' = Profile!Across(p))
  BY PlaceStays
<1>2. Profile!InCorridor(r, p)' <=> Profile!InCorridor(r, p)
  BY <1>1 DEF Profile!InCorridor
<1>3. Profile!Key(r, p)' = Profile!Key(r, p)
  BY <1>1 DEF Profile!Key
<1> QED
  BY <1>2, <1>3

LEMMA SlicesStay ==
  ASSUME view' = view, NEW r
  PROVE  Profile!Slices(r)' = Profile!Slices(r)
<1>1. ASSUME NEW d
      PROVE  Profile!Points(r, d)' = Profile!Points(r, d)
  <2> DEFINE pixels == Profile!Pixels(r)
             own == {j \in DOMAIN pixels : Profile!InCorridor(r, pixels[j])
                                           /\ Profile!Key(r, pixels[j]) = d}
  <2>1. own' = own
    BY CorridorStays
  <2> QED
    BY <2>1, PlaceStays DEF Profile!Points
<1> QED
  BY <1>1, CorridorStays DEF Profile!Slices

LEMMA RibbonStays ==
  ASSUME view' = view, NEW r
  PROVE  /\ Profile!HighGroundIsSeen(r) => Profile!HighGroundIsSeen(r)'
         /\ Profile!SegmentsAreRuns(r) => Profile!SegmentsAreRuns(r)'
         /\ Profile!TreesOnlyAdd(r) => Profile!TreesOnlyAdd(r)'
<1>1. ASSUME Profile!HighGroundIsSeen(r)
      PROVE  Profile!HighGroundIsSeen(r)'
  <2>1. \A p : /\ Profile!InCorridor(view.dtm, p)' <=> Profile!InCorridor(view.dtm, p)
               /\ Profile!Key(view.dtm, p)' = Profile!Key(view.dtm, p)
               /\ Profile!Across(p)' = Profile!Across(p)
    <3> SUFFICES ASSUME NEW p
                 PROVE  /\ Profile!InCorridor(view.dtm, p)' <=> Profile!InCorridor(view.dtm, p)
                        /\ Profile!Key(view.dtm, p)' = Profile!Key(view.dtm, p)
                        /\ Profile!Across(p)' = Profile!Across(p)
      OBVIOUS
    <3>1. PICK r0 : r0 = view.dtm
      OBVIOUS
    <3>2. r0 = (view.dtm)'
      BY <3>1
    <3>3. /\ Profile!InCorridor(r0, p)' <=> Profile!InCorridor(r0, p)
          /\ Profile!Key(r0, p)' = Profile!Key(r0, p)
          /\ Profile!Across(p)' = Profile!Across(p)
      BY CorridorStays, PlaceStays
    <3> QED
      BY <3>1, <3>2, <3>3
  <2> QED
    BY <1>1, <2>1 DEF Profile!HighGroundIsSeen
<1> QED
  BY <1>1 DEF Profile!SegmentsAreRuns, Profile!TreesOnlyAdd

LEMMA FeaturesStay ==
  ASSUME view' = view, NEW f, Profile!WorstPeakIsFirst(f)
  PROVE  Profile!WorstPeakIsFirst(f)'
<1>1. \A g : Profile!Severity(g)' = Profile!Severity(g)
  BY DEF Profile!Severity
<1>2. \A g : Profile!Obstructs(g)' <=> Profile!Obstructs(g)
  BY <1>1 DEF Profile!Obstructs
<1> QED
  BY <1>1, <1>2 DEF Profile!WorstPeakIsFirst

\* What is known of the reading of a link at any step.
Kept(r) == Profile!HighGroundIsSeen(r) /\ Profile!SegmentsAreRuns(r) /\ Profile!TreesOnlyAdd(r)

ReadInv ==
  /\ view \in Views
  /\ reading # "read" => AreRead
  /\ reading \in {"read", "ribbons"} => Len(ribbons) < Len(Profile!Bands)
  /\ \E S : ribbons \in Seq(S) /\ \A r \in S : Kept(r)
  /\ features # None => Profile!WorstPeakIsFirst(features)

LEMMA BandsAre ==
  /\ Len(Profile!Bands) = 5
  /\ \A i \in 1..5 : Profile!Bands[i] \in Int
  BY DEF Profile!Bands

\* Everything a step leaves alone stays kept.
LEMMA StaysKept ==
  ASSUME view' = view, NEW S, \A r \in S : Kept(r)
  PROVE  \A r \in S : Kept(r)'
<1> SUFFICES ASSUME NEW r \in S
             PROVE  Kept(r)'
  OBVIOUS
<1> QED
  BY RibbonStays DEF Kept

LEMMA FeaturesHold ==
  ASSUME view' = view, features' = features, features # None => Profile!WorstPeakIsFirst(features)
  PROVE  (features # None => Profile!WorstPeakIsFirst(features))'
<1>1. PICK f : f = features
  OBVIOUS
<1>2. f # None => Profile!WorstPeakIsFirst(f)'
  BY <1>1, FeaturesStay
<1>3. f = features'
  BY <1>1
<1> QED
  BY <1>2, <1>3

LEMMA ReadStays ==
  ASSUME view' = view, slices' = slices, AreRead
  PROVE  AreRead'
<1>1. PICK a, b, c : a = view.dtm /\ b = view.dsm /\ c = view.cover
  OBVIOUS
<1>2. /\ Profile!Slices(a)' = Profile!Slices(a)
      /\ Profile!Slices(b)' = Profile!Slices(b)
      /\ Profile!Slices(c)' = Profile!Slices(c)
  BY SlicesStay
<1> QED
  BY <1>1, <1>2 DEF AreRead

LEMMA ReadInit == Profile!Init => ReadInv
<1> SUFFICES ASSUME Profile!Init
             PROVE  ReadInv
  OBVIOUS
<1>1. ribbons \in Seq({}) /\ Len(ribbons) = 0
  BY DEF Profile!Init
<1>2. \E S : ribbons \in Seq(S) /\ \A r \in S : Kept(r)
  BY <1>1
<1>3. Len(ribbons) < Len(Profile!Bands)
  BY <1>1, BandsAre
<1> QED
  BY <1>2, <1>3 DEF Profile!Init, ReadInv

LEMMA ReadStep ==
  ASSUME ReadInv, Profile!Read
  PROVE  ReadInv'
<1>1. /\ view' = view /\ ribbons' = ribbons /\ features' = features
      /\ slices' = [dtm |-> Profile!Slices(view.dtm), dsm |-> Profile!Slices(view.dsm),
                    cover |-> Profile!Slices(view.cover)]
      /\ reading' \in {"raised", "ribbons"} /\ reading = "read"
  BY DEF Profile!Read
<1>2. AreRead'
  <2>1. PICK a, b, c : a = view.dtm /\ b = view.dsm /\ c = view.cover
    OBVIOUS
  <2>2. /\ Profile!Slices(a)' = Profile!Slices(a)
        /\ Profile!Slices(b)' = Profile!Slices(b)
        /\ Profile!Slices(c)' = Profile!Slices(c)
    BY <1>1, SlicesStay
  <2>3. view' \in Views
    BY <1>1 DEF ReadInv
  <2> QED
    BY <1>1, <2>1, <2>2, <2>3 DEF AreRead
<1>3. (\E S : ribbons \in Seq(S) /\ \A r \in S : Kept(r))'
  <2>1. PICK S : ribbons \in Seq(S) /\ \A r \in S : Kept(r)
    BY DEF ReadInv
  <2>2. \A r \in S : Kept(r)'
    BY <1>1, <2>1, StaysKept
  <2> QED
    BY <1>1, <2>1, <2>2
<1>4. (features # None => Profile!WorstPeakIsFirst(features))'
  BY <1>1, FeaturesHold DEF ReadInv
<1>5. view' \in Views
  BY <1>1 DEF ReadInv
<1>6. Len(ribbons') < Len(Profile!Bands)
  BY <1>1 DEF ReadInv
<1> QED
  BY <1>2, <1>3, <1>4, <1>5, <1>6 DEF ReadInv

\* A ribbon that is measured is kept.
LEMMA MeasuredIsKept ==
  ASSUME AreRead, Profile!Distances(slices.cover) # <<>>, slices.dtm # <<>>,
         slices.dsm # <<>>, NEW b \in Int
  PROVE  Kept(Profile!Measured(Profile!Profile(Profile!Distances(slices.cover), b)))
<1> DEFINE p == Profile!Profile(Profile!Distances(slices.cover), b)
           m == Profile!Measured(p)
<1>1. DOMAIN slices.dtm # {} /\ DOMAIN slices.dsm # {}
  <2>1. ASSUME NEW r, Profile!Slices(r) # <<>>
        PROVE  DOMAIN Profile!Slices(r) # {}
    <3> DEFINE keys == {Profile!Key(r, q) :
                          q \in {x \in Profile!Range(Profile!Pixels(r)) : Profile!InCorridor(r, x)}}
    <3>1. Profile!Slices(r) = [d \in keys |-> Profile!Points(r, d)]
      BY Zenon DEF Profile!Slices
    <3> HIDE DEF keys
    <3>2. keys # {}
      <4>1. CASE keys = {}
        <5>1. [d \in keys |-> Profile!Points(r, d)] = <<>>
          BY <4>1
        <5> QED
          BY <2>1, <3>1, <5>1
      <4> QED
        BY <4>1
    <3> QED
      BY <3>1, <3>2
  <2> QED
    BY <2>1 DEF AreRead
<1>2. /\ AreSamples(p)
      /\ \A i \in DOMAIN p : p[i].dtm = Profile!LinearMax(slices.dtm, p[i].d, p[i].dh)
  BY <1>1, ProfileIs
<1> HIDE DEF p
<1>3. /\ m.profile = p /\ m.segments = Profile!Segments(p)
      /\ m.terrain = [c \in Profile!Range(Profile!Bands) |-> Profile!Deepness(p, c, FALSE)]
      /\ m.clutter = [c \in Profile!Range(Profile!Bands) |->
                        Profile!Deepness(p, c, TRUE) - Profile!Deepness(p, c, FALSE)]
  BY DEF Profile!Measured
<1> HIDE DEF m
<1>4. Profile!HighGroundIsSeen(m)
  BY <1>2, <1>3, HighGroundSeen
<1>5. Profile!SegmentsAreRuns(m)
  BY <1>2, <1>3, SegmentsKept
<1>6. Profile!TreesOnlyAdd(m)
  <2>1. view \in Views
    BY DEF AreRead
  <2> QED
    BY <1>2, <1>3, <2>1, TreesAdd
<1> QED
  BY <1>4, <1>5, <1>6 DEF Kept, m, p

LEMMA RibbonStep ==
  ASSUME ReadInv, Profile!Ribbon
  PROVE  ReadInv'
<1>1. /\ view' = view /\ slices' = slices /\ features' = features /\ reading = "ribbons"
  BY DEF Profile!Ribbon
<1>2. AreRead /\ AreRead' /\ view' \in Views
  <2>1. AreRead
    BY <1>1 DEF ReadInv
  <2>2. AreRead'
    BY <1>1, <2>1, ReadStays
  <2> QED
    BY <2>1, <2>2 DEF AreRead
<1>3. (features # None => Profile!WorstPeakIsFirst(features))'
  BY <1>1, FeaturesHold DEF ReadInv
<1>4. PICK S : ribbons \in Seq(S) /\ \A r \in S : Kept(r)
  BY DEF ReadInv
<1>5. \A r \in S : Kept(r)'
  BY <1>1, <1>4, StaysKept
<1>6. CASE <<>> \in {Profile!Distances(slices.cover), slices.dtm, slices.dsm}
  <2>1. reading' = "raised" /\ ribbons' = ribbons
    BY <1>6 DEF Profile!Ribbon
  <2> QED
    BY <1>2, <1>3, <1>4, <1>5, <2>1 DEF ReadInv
<1>7. CASE <<>> \notin {Profile!Distances(slices.cover), slices.dtm, slices.dsm}
  <2>1. PICK l \in Nat : l = Len(ribbons) /\ l < 5
    BY <1>1, <1>4, BandsAre DEF ReadInv
  <2>2. PICK b \in Int : b = Profile!Bands[Len(ribbons) + 1]
    <3>1. l + 1 \in 1..5
      BY <2>1
    <3> QED
      BY <2>1, <3>1, BandsAre
  <2>3. PICK m : m = Profile!Measured(Profile!Profile(Profile!Distances(slices.cover), b))
    OBVIOUS
  <2>4. Kept(m)
    BY <1>2, <1>7, <2>3, MeasuredIsKept
  <2>5. Kept(m)'
    <3>1. \A r \in {m} : Kept(r)'
      BY <1>1, <2>4, StaysKept
    <3> QED
      BY <3>1
  <2>6. /\ ribbons' = Append(ribbons, m)
        /\ reading' = IF Len(ribbons) + 1 = Len(Profile!Bands) THEN "features" ELSE "ribbons"
    BY <1>7, <2>2, <2>3, Zenon DEF Profile!Ribbon
  <2>7. /\ ribbons' \in Seq(S \cup {m}) /\ Len(ribbons') = l + 1
    <3>1. ribbons \in Seq(S \cup {m})
      BY <1>4, SeqDef
    <3> QED
      BY <2>1, <2>6, <3>1
  <2>8. reading' \in {"read", "ribbons"} => Len(ribbons') < Len(Profile!Bands)
    BY <2>1, <2>6, <2>7, BandsAre
  <2>9. \A r \in S \cup {m} : Kept(r)'
    BY <1>5, <2>5
  <2> QED
    BY <1>2, <1>3, <2>7, <2>8, <2>9 DEF ReadInv
<1> QED
  BY <1>6, <1>7

LEMMA ExtractStep ==
  ASSUME ReadInv, Profile!Extract
  PROVE  ReadInv'
<1>1. /\ view' = view /\ slices' = slices /\ ribbons' = ribbons /\ reading = "features"
      /\ reading' = "done"
      /\ features' = IF Len(Profile!Distances(slices.dtm)) < 2 THEN None
                     ELSE Profile!FeaturesOf(Profile!Ground(Profile!Distances(slices.dtm)))
  BY DEF Profile!Extract
<1>2. AreRead /\ AreRead' /\ view \in Views /\ view' \in Views
  <2>1. AreRead
    BY <1>1 DEF ReadInv
  <2>2. AreRead'
    BY <1>1, <2>1, ReadStays
  <2> QED
    BY <2>1, <2>2 DEF AreRead
<1>3. PICK S : ribbons \in Seq(S) /\ \A r \in S : Kept(r)
  BY DEF ReadInv
<1>4. \A r \in S : Kept(r)'
  BY <1>1, <1>3, StaysKept
<1>5. (features # None => Profile!WorstPeakIsFirst(features))'
  <2> SUFFICES ASSUME features' # None
               PROVE  Profile!WorstPeakIsFirst(features)'
    OBVIOUS
  <2>1. PICK ds : ds = Profile!Distances(slices.dtm)
    OBVIOUS
  <2>2. ~(Len(ds) < 2) /\ features' = Profile!FeaturesOf(Profile!Ground(ds))
    BY <1>1, <2>1
  <2>3. ds # <<>>
    BY <2>2
  <2>4. AreSights(Profile!Ground(ds))
    BY <1>2, <2>1, <2>3, GroundIs
  <2>5. PICK f : f = Profile!FeaturesOf(Profile!Ground(ds))
    OBVIOUS
  <2>6. f.ground = Profile!Ground(ds) /\ f.peaks = Profile!Peaks(Profile!Ground(ds))
    BY <2>5 DEF Profile!FeaturesOf
  <2>7. Profile!WorstPeakIsFirst(f)
    BY <1>2, <2>4, <2>6, WorstComesFirst
  <2>8. Profile!WorstPeakIsFirst(f)'
    BY <1>1, <2>7, FeaturesStay
  <2>9. f = features'
    BY <2>2, <2>5
  <2> QED
    BY <2>8, <2>9
<1> QED
  BY <1>1, <1>2, <1>3, <1>4, <1>5 DEF ReadInv

\* Nothing in the way of any link over any rasters is lost between the rasters and the
\* features of the link: the ground beside a ribbon, the stretches of one class, what
\* trees add and the worst peak (extract_and_profile, sample_dict_linear_max,
\* get_path_segments, calculate_ribbon_deepness, _terrain_degaut_peaks).
THEOREM ObstaclesStayKept ==
  Profile!Init /\ [][Profile!Next]_(Profile!vars) => []ObstaclesAreKept
<1>1. ReadInv /\ [Profile!Next]_(Profile!vars) => ReadInv'
  <2> SUFFICES ASSUME ReadInv, [Profile!Next]_(Profile!vars)
               PROVE  ReadInv'
    OBVIOUS
  <2>1. CASE UNCHANGED Profile!vars
    <3>1. /\ view' = view /\ slices' = slices /\ ribbons' = ribbons /\ features' = features
          /\ reading' = reading
      BY <2>1 DEF Profile!vars
    <3>2. PICK S : ribbons \in Seq(S) /\ \A r \in S : Kept(r)
      BY DEF ReadInv
    <3>3. \A r \in S : Kept(r)'
      BY <3>1, <3>2, StaysKept
    <3>4. reading # "read" => AreRead'
      BY <3>1, ReadStays DEF ReadInv
    <3>5. (features # None => Profile!WorstPeakIsFirst(features))'
      BY <3>1, FeaturesHold DEF ReadInv
    <3> QED
      BY <3>1, <3>2, <3>3, <3>4, <3>5 DEF ReadInv
  <2>2. CASE Profile!Next
    BY <2>2, ReadStep, RibbonStep, ExtractStep DEF Profile!Next
  <2> QED
    BY <2>1, <2>2
<1>2. ReadInv => ObstaclesAreKept
  <2> SUFFICES ASSUME ReadInv
               PROVE  ObstaclesAreKept
    OBVIOUS
  <2>1. PICK S : ribbons \in Seq(S) /\ \A r \in S : Kept(r)
    BY DEF ReadInv
  <2>2. \A r \in Profile!Range(ribbons) : Kept(r)
    <3>1. \A i \in DOMAIN ribbons : ribbons[i] \in S
      BY <2>1
    <3> QED
      BY <2>1, <3>1 DEF Profile!Range
  <2> QED
    BY <2>2 DEF ReadInv, Kept, ObstaclesAreKept, Profile!ObstaclesAreKept
<1> QED
  BY <1>1, <1>2, ReadInit, PTL

=============================================================================
