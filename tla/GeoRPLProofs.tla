--------------------------- MODULE GeoRPLProofs ---------------------------
(***************************************************************************)
(* run_RPL computes shortest forests, for every set of nodes, every graph  *)
(* and every metric.  The argument is the invariant LoopInv of the         *)
(* worklist: nodes off the worklist have passed on their rank, ranks never *)
(* fall below what the parent offers, and no stable labelling exceeds      *)
(* them.  When the worklist is empty this is RplRouting!ShortestForest.    *)
(***************************************************************************)
EXTENDS GeoRPLReports, FiniteSetTheorems, TLAPS

Carry(p, c) == Routing!Carries(nodes, metric, p, c)

\* Roots keep the rank they were given and have no parent.
RootsFixed ==
  \A n \in DOMAIN nodes :
    nodes[n].connected => rank[n] = nodes[n].rank /\ parent[n] = None

\* A node has a parent exactly if RPL ranked it; the parent is a ranked relay
\* next to it that offers no more than the rank.
ParentsOffer ==
  \A c \in DOMAIN nodes :
    /\ parent[c] # None <=> (~nodes[c].connected /\ rank[c] # Inf)
    /\ parent[c] # None => /\ Carry(parent[c], c)
                           /\ rank[parent[c]] # Inf
                           /\ rank[c] >= rank[parent[c]] + metric[Edge(parent[c], c)]

\* Only ranked relays wait to be processed.
WorklistRelays == \A p \in todo : nodes[p].relay /\ rank[p] # Inf

\* A ranked relay off the worklist has improved all its neighbours.
OthersSettled ==
  \A p, c \in DOMAIN nodes :
    Carry(p, c) /\ rank[p] # Inf /\ p \notin todo
      => rank[c] # Inf /\ rank[c] <= rank[p] + metric[Edge(p, c)]

\* No stable labelling exceeds the ranks.
RanksAbove == Routing!Greatest(nodes, metric, rank)

TInv == TypeOK /\ RootsFixed /\ WorklistRelays

LoopInv == ParentsOffer /\ OthersSettled /\ RanksAbove

IInv == TInv /\ ParentsAcyclic /\ (running => LoopInv)

-----------------------------------------------------------------------------

\* The types of what the operators read.
LEMMA Lookups ==
  ASSUME TypeOK
  PROVE  /\ \A n \in DOMAIN nodes :
              /\ nodes[n].connected \in BOOLEAN
              /\ nodes[n].relay \in BOOLEAN
              /\ nodes[n].rank \in Int \cup {Inf}
              /\ nodes[n].connected => nodes[n].rank \in Int
              /\ n \in NodeIds
              /\ n # None
         /\ \A e \in DOMAIN metric : metric[e] \in Nat
         /\ \A n \in DOMAIN nodes : rank[n] \in Int \cup {Inf}
         /\ \A n \in DOMAIN nodes : parent[n] \in DOMAIN nodes \cup {None}
<1>1. CASE nodes = Empty
  BY <1>1 DEF TypeOK, Empty, Routing!Empty
<1>2. CASE ValidTable(nodes)
  BY <1>2, GeoRPLAssumption DEF TypeOK, ValidTable, NodeRecord
<1>3. QED
  BY <1>1, <1>2 DEF TypeOK

\* The object starts without nodes, edges or a worklist, as __init__ leaves it.
LEMMA InitTypes == Init => TInv
<1> SUFFICES ASSUME Init PROVE TInv
  OBVIOUS
<1>1. DOMAIN Empty = {} /\ \A T : Empty \in [{} -> T]
  BY DEF Empty, Routing!Empty
<1>2. DOMAIN nodes = {} /\ DOMAIN metric = {}
  BY <1>1 DEF Init
<1>3. QED
  BY <1>1, <1>2 DEF Init, TInv, TypeOK, RootsFixed, WorklistRelays

\* Every method call and every round of the loop keeps the types, the roots'
\* ranks, and only ranked relays on the worklist.
LEMMA NextTypes == TInv /\ [Next]_vars => TInv'
<1> SUFFICES ASSUME TInv, [Next]_vars PROVE TInv'
  OBVIOUS
<1> USE DEF TInv, TypeOK, RootsFixed, WorklistRelays
<1>0. USE Lookups
<1>1. ASSUME NEW t \in Tables, SetNodes(t) PROVE TInv'
  <2>1. ValidTable(t)
    BY GeoRPLAssumption
  <2>2. /\ t \in [DOMAIN t -> NodeRecord]
        /\ \A n \in DOMAIN t : t[n].rank \in Int \cup {Inf}
    BY <2>1 DEF ValidTable, NodeRecord
  <2>3. nodes' = t /\ metric' = Empty /\ todo' = {}
    BY <1>1 DEF SetNodes
  <2>4. /\ rank' = [n \in DOMAIN t |-> t[n].rank]
        /\ parent' = [n \in DOMAIN t |-> None]
    BY <1>1 DEF SetNodes
  <2>5. DOMAIN metric' \subseteq Edges' /\ metric' \in [DOMAIN metric' -> Nat]
    BY <2>3 DEF Empty, Routing!Empty
  <2>6. running' \in BOOLEAN
    BY <1>1 DEF SetNodes
  <2>7. QED
    BY <2>1, <2>2, <2>3, <2>4, <2>5, <2>6
<1>2. ASSUME NEW new \in Updates, NEW update \in BOOLEAN, SetEdgeMetrics(new, update)
      PROVE  TInv'
  <2>1. new \in [DOMAIN new -> Nat]
    BY GeoRPLAssumption
  <2>2. /\ DOMAIN metric' \subseteq Edges'
        /\ metric' \in [DOMAIN metric' -> Nat]
    BY <1>2, <2>1 DEF SetEdgeMetrics, Edges
  <2>3. QED
    BY <1>2, <2>2 DEF SetEdgeMetrics
<1>3. CASE RunStart
  <2>1. UNCHANGED <<nodes, metric>> /\ Edges' = Edges
    BY <1>3 DEF RunStart, Edges
  <2>2. /\ rank' = [n \in DOMAIN nodes |-> IF nodes[n].connected THEN rank[n] ELSE Inf]
        /\ parent' = [n \in DOMAIN nodes |-> None]
        /\ todo' = {n \in DOMAIN nodes : nodes[n].connected /\ nodes[n].relay}
        /\ running' = (todo' # {})
    BY <1>3 DEF RunStart, NoParents
  <2>3. QED
    BY <2>1, <2>2, GeoRPLAssumption
<1>4. ASSUME NEW p \in todo, Expand(p) PROVE TInv'
  <2>1. rank[p] \in Int /\ p \in DOMAIN nodes
    OBVIOUS
  <2>2. \A c \in DOMAIN nodes : Improves(p, c) => metric[Edge(p, c)] \in Nat /\ ~nodes[c].connected
    BY DEF Improves
  <2>3. UNCHANGED <<nodes, metric, running>> /\ Edges' = Edges
    BY <1>4 DEF Expand, Edges
  <2>4. rank' \in [DOMAIN nodes -> Int \cup {Inf}]
    BY <1>4, <2>1, <2>2 DEF Expand
  <2>5. parent' \in [DOMAIN nodes -> DOMAIN nodes \cup {None}]
    BY <1>4, <2>1 DEF Expand
  <2>6. WorklistRelays' /\ todo' \in SUBSET DOMAIN nodes /\ running
    BY <1>4, <2>1, <2>2, GeoRPLAssumption DEF Expand
  <2>7. RootsFixed'
    BY <1>4, <2>2 DEF Expand
  <2>8. QED
    BY <2>3, <2>4, <2>5, <2>6, <2>7
<1>5. CASE RunEnd
  <2>1. UNCHANGED <<nodes, metric, rank, parent, todo>> /\ Edges' = Edges /\ todo = {}
    BY <1>5 DEF RunEnd, Edges
  <2>2. running' \in BOOLEAN
    BY <1>5 DEF RunEnd
  <2>3. QED
    BY <2>1, <2>2 DEF ValidTable
<1>6. CASE UNCHANGED vars
  BY <1>6 DEF vars, Edges, ValidTable
<1>7. QED
  BY <1>1, <1>2, <1>3, <1>4, <1>5, <1>6 DEF Next

-----------------------------------------------------------------------------

\* Loops: a set closed under the new parents would contain, below the popped
\* relay's rank, a set that was closed already.
LEMMA ExpandAcyclic ==
  ASSUME TInv, ParentsAcyclic, ParentsOffer, NEW p \in todo, Expand(p)
  PROVE  ParentsAcyclic'
<1> USE DEF TInv
<1>1. /\ UNCHANGED nodes
      /\ parent' = [n \in DOMAIN nodes |-> IF Improves(p, n) THEN p ELSE parent[n]]
  BY DEF Expand
<1>2. p \in DOMAIN nodes /\ rank[p] \in Int
  BY Lookups DEF WorklistRelays, TypeOK
<1>3. SUFFICES ASSUME NEW S \in SUBSET DOMAIN nodes, S # {},
                      \A n \in S : parent'[n] \in S
               PROVE  FALSE
  BY <1>1 DEF ParentsAcyclic
<1>4. PICK c \in S : Improves(p, c)
  BY <1>1, <1>3 DEF ParentsAcyclic
<1>5. p \in S
  BY <1>1, <1>3, <1>4
<1> DEFINE T == {n \in S : rank[n] # Inf /\ rank[n] <= rank[p]}
<1>6. p \in T
  BY <1>2, <1>5, GeoRPLAssumption
<1>7. ASSUME NEW n \in T PROVE parent[n] \in T
  <2>1. rank[n] \in Int /\ rank[n] <= rank[p]
    BY <1>7, Lookups
  <2>2. ~Improves(p, n)
    <3>1. SUFFICES ASSUME Improves(p, n) PROVE FALSE
      OBVIOUS
    <3>2. metric[Edge(p, n)] \in Nat /\ rank[p] + metric[Edge(p, n)] < rank[n]
      BY <3>1, <2>1, Lookups, GeoRPLAssumption DEF Improves
    <3>3. QED
      BY <3>2, <2>1, <1>2
  <2>3. parent[n] \in S /\ parent[n] # None
    BY <2>2, <1>1, <1>3, Lookups
  <2>4. /\ rank[parent[n]] # Inf
        /\ rank[n] >= rank[parent[n]] + metric[Edge(parent[n], n)]
        /\ Edge(parent[n], n) \in DOMAIN metric
    BY <2>3, <1>3 DEF ParentsOffer, Carry, Routing!Carries, Edge, Routing!Edge
  <2>5. rank[parent[n]] \in Int /\ metric[Edge(parent[n], n)] \in Nat
    BY <2>3, <2>4, Lookups
  <2>6. rank[parent[n]] <= rank[p]
    BY <2>1, <2>4, <2>5, <1>2
  <2>7. QED
    BY <2>3, <2>4, <2>6
<1>8. T \in SUBSET DOMAIN nodes /\ T # {}
  BY <1>6
<1>9. QED
  BY <1>7, <1>8 DEF ParentsAcyclic

\* Whoever improves has rank above what the popped relay offers.
LEMMA ExpandOffers ==
  ASSUME TInv, ParentsOffer, NEW p \in todo, Expand(p)
  PROVE  ParentsOffer'
<1> USE DEF TInv
<1>1. p \in DOMAIN nodes /\ rank[p] \in Int /\ nodes[p].relay
  BY Lookups DEF WorklistRelays, TypeOK
<1>2. /\ UNCHANGED <<nodes, metric>>
      /\ rank' = [n \in DOMAIN nodes |->
                    IF Improves(p, n) THEN rank[p] + metric[Edge(p, n)] ELSE rank[n]]
      /\ parent' = [n \in DOMAIN nodes |-> IF Improves(p, n) THEN p ELSE parent[n]]
  BY DEF Expand
<1>3. ~Improves(p, p) /\ rank'[p] = rank[p]
  BY <1>1, <1>2, Lookups, GeoRPLAssumption DEF Improves
<1>4. ASSUME NEW n \in DOMAIN nodes, rank[n] # Inf
      PROVE  rank'[n] \in Int /\ rank'[n] <= rank[n]
  BY <1>1, <1>2, <1>4, Lookups DEF Improves
<1>5. SUFFICES ASSUME NEW c \in DOMAIN nodes
               PROVE  /\ parent'[c] # None <=> (~nodes[c].connected /\ rank'[c] # Inf)
                      /\ parent'[c] # None =>
                           /\ Carry(parent'[c], c)
                           /\ rank'[parent'[c]] # Inf
                           /\ rank'[c] >= rank'[parent'[c]] + metric[Edge(parent'[c], c)]
  BY <1>2 DEF ParentsOffer, Carry, Routing!Carries, Edge, Routing!Edge
<1>6. CASE Improves(p, c)
  <2>1. parent'[c] = p /\ rank'[c] = rank[p] + metric[Edge(p, c)] /\ metric[Edge(p, c)] \in Nat
    BY <1>2, <1>6, Lookups DEF Improves
  <2>2. Carry(p, c)
    BY <1>1, <1>6 DEF Improves, Carry, Routing!Carries, Edge, Routing!Edge
  <2>3. QED
    BY <1>1, <1>3, <1>6, <2>1, <2>2, GeoRPLAssumption, Lookups DEF Improves
<1>7. CASE ~Improves(p, c)
  <2>1. parent'[c] = parent[c] /\ rank'[c] = rank[c]
    BY <1>2, <1>7
  <2>2. CASE parent[c] = None
    BY <2>1, <2>2 DEF ParentsOffer
  <2>3. CASE parent[c] # None
    <3>1. /\ Carry(parent[c], c) /\ rank[parent[c]] # Inf
          /\ rank[c] >= rank[parent[c]] + metric[Edge(parent[c], c)]
          /\ ~nodes[c].connected /\ rank[c] # Inf
      BY <2>3 DEF ParentsOffer
    <3>2. parent[c] \in DOMAIN nodes /\ metric[Edge(parent[c], c)] \in Nat /\ rank[c] \in Int
      BY <3>1, <2>3, Lookups DEF Carry, Routing!Carries, Edge, Routing!Edge
    <3>3. rank'[parent[c]] \in Int /\ rank'[parent[c]] <= rank[parent[c]] /\ rank[parent[c]] \in Int
      BY <3>1, <3>2, <1>4, Lookups
    <3>4. rank'[c] >= rank'[parent[c]] + metric[Edge(parent[c], c)]
      BY <3>1, <3>2, <3>3, <2>1
    <3>5. QED
      BY <2>1, <2>3, <3>1, <3>3, <3>4, GeoRPLAssumption
  <2>4. QED
    BY <2>2, <2>3
<1>8. QED
  BY <1>6, <1>7

\* The popped relay has passed on its rank; whoever improved waits again.
LEMMA ExpandSettles ==
  ASSUME TInv, OthersSettled, NEW p \in todo, Expand(p)
  PROVE  OthersSettled'
<1> USE DEF TInv
<1>1. p \in DOMAIN nodes /\ rank[p] \in Int /\ nodes[p].relay
  BY Lookups DEF WorklistRelays, TypeOK
<1>2. /\ UNCHANGED <<nodes, metric>>
      /\ rank' = [n \in DOMAIN nodes |->
                    IF Improves(p, n) THEN rank[p] + metric[Edge(p, n)] ELSE rank[n]]
      /\ todo' = (todo \ {p}) \cup {n \in DOMAIN nodes : Improves(p, n) /\ nodes[n].relay}
  BY DEF Expand
<1>3. ~Improves(p, p) /\ rank'[p] = rank[p]
  BY <1>1, <1>2, Lookups, GeoRPLAssumption DEF Improves
<1>4. SUFFICES ASSUME NEW q \in DOMAIN nodes, NEW c \in DOMAIN nodes,
                      Carry(q, c), rank'[q] # Inf, q \notin todo'
               PROVE  rank'[c] # Inf /\ rank'[c] <= rank'[q] + metric[Edge(q, c)]
  BY <1>2 DEF OthersSettled, Carry, Routing!Carries, Edge, Routing!Edge
<1>5. Edge(q, c) \in DOMAIN metric /\ metric[Edge(q, c)] \in Nat /\ ~nodes[c].connected /\ nodes[q].relay
  BY <1>4, Lookups DEF Carry, Routing!Carries, Edge, Routing!Edge
<1>6. ~Improves(p, q) /\ rank'[q] = rank[q] /\ rank[q] \in Int
  BY <1>2, <1>4, <1>5, Lookups
<1>7. CASE q = p
  BY <1>1, <1>2, <1>3, <1>5, <1>7, Lookups, GeoRPLAssumption DEF Improves
<1>8. CASE q # p
  <2>1. rank[c] \in Int /\ rank[c] <= rank[q] + metric[Edge(q, c)]
    BY <1>2, <1>4, <1>6, <1>8, Lookups DEF OthersSettled
  <2>2. rank'[c] \in Int /\ rank'[c] <= rank[c]
    BY <2>1, <1>1, <1>2, Lookups, GeoRPLAssumption DEF Improves
  <2>3. QED
    BY <2>1, <2>2, <1>5, <1>6, GeoRPLAssumption
<1>9. QED
  BY <1>7, <1>8

\* A stable labelling lies below the popped relay's rank, hence below what the
\* relay offers its neighbours.
LEMMA ExpandAbove ==
  ASSUME TInv, RanksAbove, NEW p \in todo, Expand(p)
  PROVE  RanksAbove'
<1> USE DEF TInv
<1>1. p \in DOMAIN nodes /\ rank[p] \in Int /\ nodes[p].relay
  BY Lookups DEF WorklistRelays, TypeOK
<1>2. /\ UNCHANGED <<nodes, metric>>
      /\ rank' = [n \in DOMAIN nodes |->
                    IF Improves(p, n) THEN rank[p] + metric[Edge(p, n)] ELSE rank[n]]
  BY DEF Expand
<1>3. SUFFICES ASSUME NEW rival \in [DOMAIN nodes -> Labels],
                      Routing!Stable(nodes, metric, rival),
                      NEW n \in DOMAIN nodes, rank'[n] # Inf
               PROVE  rival[n] <= rank'[n]
  BY <1>2 DEF RanksAbove, Routing!Greatest
<1>4. \A m \in DOMAIN nodes : rival[m] \in Int /\ (rank[m] # Inf => rival[m] <= rank[m])
  BY <1>3, GeoRPLAssumption DEF RanksAbove, Routing!Greatest
<1>5. CASE Improves(p, n)
  <2>1. Carry(p, n) /\ metric[Edge(p, n)] \in Nat
    BY <1>1, <1>5, Lookups DEF Improves, Carry, Routing!Carries, Edge, Routing!Edge
  <2>2. rival[n] <= rival[p] + metric[Edge(p, n)]
    BY <1>1, <1>3, <1>4, <2>1, GeoRPLAssumption DEF Routing!Stable, Carry, Edge, Routing!Edge
  <2>3. rival[p] <= rank[p]
    BY <1>1, <1>4, GeoRPLAssumption
  <2>4. QED
    BY <1>1, <1>2, <1>4, <1>5, <2>1, <2>2, <2>3
<1>6. CASE ~Improves(p, n)
  BY <1>2, <1>3, <1>4, <1>6
<1>7. QED
  BY <1>5, <1>6

-----------------------------------------------------------------------------

\* After the reset only roots are ranked, and those that may relay wait.
LEMMA StartLoop ==
  ASSUME TInv, RunStart
  PROVE  ParentsAcyclic' /\ (running' => LoopInv')
<1> USE DEF TInv
<1>1. /\ UNCHANGED <<nodes, metric>>
      /\ rank' = [n \in DOMAIN nodes |-> IF nodes[n].connected THEN rank[n] ELSE Inf]
      /\ parent' = [n \in DOMAIN nodes |-> None]
      /\ todo' = {n \in DOMAIN nodes : nodes[n].connected /\ nodes[n].relay}
  BY DEF RunStart, NoParents
<1>2. \A n \in DOMAIN nodes : n # None
  BY Lookups
<1>3. ParentsAcyclic'
  BY <1>1, <1>2 DEF ParentsAcyclic
<1>4. ParentsOffer'
  BY <1>1 DEF ParentsOffer
<1>5. OthersSettled'
  BY <1>1 DEF OthersSettled, Carry, Routing!Carries
<1>6. RanksAbove'
  <2>1. SUFFICES ASSUME NEW rival \in [DOMAIN nodes -> Labels],
                        Routing!Stable(nodes, metric, rival),
                        NEW n \in DOMAIN nodes, rank'[n] # Inf
                 PROVE  rival[n] <= rank'[n]
    BY <1>1 DEF RanksAbove, Routing!Greatest
  <2>2. nodes[n].connected /\ rank'[n] = nodes[n].rank
    BY <1>1, <2>1 DEF RootsFixed
  <2>3. rival[n] = nodes[n].rank /\ rival[n] \in Int
    BY <2>1, <2>2, GeoRPLAssumption DEF Routing!Stable
  <2>4. QED
    BY <2>2, <2>3
<1>7. QED
  BY <1>3, <1>4, <1>5, <1>6 DEF LoopInv

\* Before the first set_nodes there is no parent to loop through.
LEMMA InitInv == Init => IInv
<1> SUFFICES ASSUME Init PROVE IInv
  OBVIOUS
<1>1. TInv
  BY InitTypes
<1>2. DOMAIN nodes = {}
  BY DEF Init, Empty, Routing!Empty
<1>3. ParentsAcyclic
  BY <1>2 DEF ParentsAcyclic
<1>4. QED
  BY <1>1, <1>3 DEF IInv, Init

\* Every method call and every round of the loop keeps the inductive invariant:
\* the calls between runs reset or leave the parents, the rounds relax links.
LEMMA NextInv == IInv /\ [Next]_vars => IInv'
<1> SUFFICES ASSUME IInv, [Next]_vars PROVE IInv'
  OBVIOUS
<1> USE DEF IInv
<1>0. TInv'
  BY NextTypes
<1>1. ASSUME NEW t \in Tables, SetNodes(t) PROVE IInv'
  <2>1. /\ nodes' = t /\ ~running'
        /\ parent' = [n \in DOMAIN t |-> None]
        /\ \A n \in DOMAIN t : n # None
    BY <1>1, GeoRPLAssumption DEF SetNodes, ValidTable
  <2>2. ParentsAcyclic'
    BY <2>1 DEF ParentsAcyclic
  <2>3. QED
    BY <1>0, <2>1, <2>2
<1>2. ASSUME NEW new \in Updates, NEW update \in BOOLEAN, SetEdgeMetrics(new, update)
      PROVE  IInv'
  BY <1>0, <1>2 DEF SetEdgeMetrics, ParentsAcyclic
<1>3. CASE RunStart
  BY <1>0, <1>3, StartLoop
<1>4. ASSUME NEW p \in todo, Expand(p) PROVE IInv'
  <2>1. LoopInv
    BY <1>4 DEF Expand
  <2>2. ParentsAcyclic' /\ ParentsOffer' /\ OthersSettled' /\ RanksAbove'
    BY <1>4, <2>1, ExpandAcyclic, ExpandOffers, ExpandSettles, ExpandAbove DEF LoopInv
  <2>3. QED
    BY <1>0, <2>2 DEF LoopInv
<1>5. CASE RunEnd
  BY <1>0, <1>5 DEF RunEnd, ParentsAcyclic
<1>6. CASE UNCHANGED vars
  BY <1>0, <1>6 DEF vars, ParentsAcyclic, LoopInv, ParentsOffer, OthersSettled, RanksAbove,
                    Carry, Routing!Carries, Routing!Greatest, Routing!Stable
<1>7. QED
  BY <1>1, <1>2, <1>3, <1>4, <1>5, <1>6 DEF Next

\* The inductive invariant holds in every reachable state of the planner.
THEOREM Invariance == Spec => []IInv
  BY InitInv, NextInv, PTL DEF Spec

\* The variables keep their types: the table passed the checks of set_nodes, an
\* edge joins known nodes, only ranked relays are on the worklist.
THEOREM TypeCorrect == Spec => []TypeOK
<1>1. IInv => TypeOK
  BY DEF IInv, TInv
<1>2. QED
  BY Invariance, <1>1, PTL

\* At no moment of run_RPL do the parents form a loop, for any graph, any order
\* of the worklist and any metrics, zero included.
THEOREM NeverLoops == Spec => []ParentsAcyclic
<1>1. IInv => ParentsAcyclic
  BY DEF IInv
<1>2. QED
  BY Invariance, <1>1, PTL

\* A node's rank is what its parent offers, or its parent still waits to pass
\* on a better one.
THEOREM RanksFollow == Spec => []RanksFollowParents
<1>1. IInv => RanksFollowParents
  <2>1. SUFFICES ASSUME IInv, running, NEW c \in DOMAIN nodes, parent[c] # None
                 PROVE  /\ Edge(parent[c], c) \in DOMAIN metric
                        /\ rank[parent[c]] # Inf
                        /\ rank[c] >= rank[parent[c]] + metric[Edge(parent[c], c)]
                        /\ rank[c] # rank[parent[c]] + metric[Edge(parent[c], c)]
                             => parent[c] \in todo
    BY DEF RanksFollowParents
  <2>2. LoopInv /\ TypeOK
    BY <2>1 DEF IInv, TInv
  <2>3. /\ Carry(parent[c], c) /\ rank[parent[c]] # Inf /\ rank[c] # Inf
        /\ rank[c] >= rank[parent[c]] + metric[Edge(parent[c], c)]
        /\ Edge(parent[c], c) \in DOMAIN metric
    BY <2>1, <2>2 DEF LoopInv, ParentsOffer, Carry, Routing!Carries, Edge, Routing!Edge
  <2>4. /\ parent[c] \in DOMAIN nodes
        /\ rank[c] \in Int /\ rank[parent[c]] \in Int /\ metric[Edge(parent[c], c)] \in Nat
    BY <2>1, <2>2, <2>3, Lookups
  <2>5. parent[c] \notin todo => rank[c] <= rank[parent[c]] + metric[Edge(parent[c], c)]
    BY <2>2, <2>3, <2>4 DEF LoopInv, OthersSettled
  <2>6. QED
    BY <2>3, <2>4, <2>5
<1>2. QED
  BY Invariance, <1>1, PTL

-----------------------------------------------------------------------------

-----------------------------------------------------------------------------
\* Ranks and paths

\* A non-empty set of naturals has a least element.
LEMMA LeastNat ==
  ASSUME NEW T \in SUBSET Nat, T # {}
  PROVE  \E x \in T : \A y \in T : x <= y
<1>1. \E x \in T : \A y \in T : ~(<<y, x>> \in OpToRel(<, Nat))
  BY NatLessThanWellFounded, WFMin
<1>2. PICK x \in T : \A y \in T : ~(<<y, x>> \in OpToRel(<, Nat))
  BY <1>1
<1>3. ASSUME NEW y \in T PROVE x <= y
  <2>1. x \in Nat /\ y \in Nat
    BY <1>2
  <2>2. ~(y < x)
    BY <1>2, <2>1 DEF OpToRel
  <2> QED
    BY <2>1, <2>2
<1> QED
  BY <1>3

\* So a set of naturals from 0 to N that goes on to the next number is all of them.
LEMMA UpTo ==
  ASSUME NEW N \in Nat, NEW T, 0 \in T, \A k \in 0..N : k \in T /\ k < N => k + 1 \in T
  PROVE  0..N \subseteq T
<1> SUFFICES ASSUME (0..N) \ T # {} PROVE FALSE
  OBVIOUS
<1>1. PICK x \in (0..N) \ T : \A y \in (0..N) \ T : x <= y
  <2>1. (0..N) \ T \in SUBSET Nat
    OBVIOUS
  <2> QED
    BY <2>1, LeastNat
<1>2. x # 0 /\ x - 1 \in 0..N /\ x - 1 < N
  BY <1>1
<1>3. x - 1 \in T
  BY <1>1, <1>2
<1>4. (x - 1) + 1 = x
  BY <1>1
<1> QED
  BY <1>1, <1>2, <1>3, <1>4

\* The nodes are a dictionary.
LEMMA NodesFinite ==
  ASSUME TypeOK
  PROVE  IsFiniteSet(DOMAIN nodes) /\ Cardinality(DOMAIN nodes) \in Nat
<1>1. IsFiniteSet(DOMAIN nodes)
  BY FS_EmptySet DEF TypeOK, ValidTable, Empty, Routing!Empty
<1> QED
  BY <1>1, FS_CardinalityType

\* The lengths of the paths of at most k links are those the recursion names: for
\* every bound there is a function that satisfies it, one step longer each time.
LEMMA LengthsDef ==
  ASSUME Cardinality(DOMAIN nodes) \in Nat
  PROVE  \A k \in 0..Cardinality(DOMAIN nodes) :
           Lengths[k] = IF k = 0 THEN RootLengths ELSE Onward(Lengths[k - 1])
<1> DEFINE N == Cardinality(DOMAIN nodes)
           solves(f, n) == f = [k \in 0..n |-> IF k = 0 THEN RootLengths ELSE Onward(f[k - 1])]
           T == {n \in 0..N : \E f : solves(f, n)}
<1>1. 0 \in T
  <2> DEFINE f == [k \in 0..0 |-> RootLengths]
  <2>1. f = [k \in 0..0 |-> IF k = 0 THEN RootLengths ELSE Onward(f[k - 1])]
    <3> SUFFICES \A k \in 0..0 : k = 0
      OBVIOUS
    <3> QED
      OBVIOUS
  <2>2. solves(f, 0)
    BY <2>1
  <2> HIDE DEF f, solves
  <2> QED
    BY <2>2
<1>2. ASSUME NEW n \in 0..N, n \in T, n < N
      PROVE  n + 1 \in T
  <2> PICK f : solves(f, n)
    BY <1>2
  <2> DEFINE g == [k \in 0..(n + 1) |-> IF k = n + 1 THEN Onward(f[n]) ELSE f[k]]
  <2>1. ASSUME NEW k \in 0..(n + 1)
        PROVE  g[k] = IF k = 0 THEN RootLengths ELSE Onward(g[k - 1])
    <3>1. CASE k = n + 1
      <4>1. k # 0 /\ k - 1 = n /\ n \in 0..(n + 1) /\ n # n + 1
        BY <3>1
      <4>2. g[k - 1] = f[n]
        BY <4>1
      <4> QED
        BY <3>1, <4>1, <4>2
    <3>2. CASE k # n + 1
      <4>1. k \in 0..n /\ g[k] = f[k]
        BY <3>2
      <4>2. CASE k = 0
        BY <4>1, <4>2
      <4>3. CASE k # 0
        <5>1. k - 1 \in 0..(n + 1) /\ k - 1 # n + 1
          BY <4>1, <4>3
        <5>2. g[k - 1] = f[k - 1]
          BY <5>1
        <5>3. f[k] = Onward(f[k - 1])
          BY <4>1, <4>3
        <5> QED
          BY <4>1, <4>3, <5>2, <5>3
      <4> QED
        BY <4>2, <4>3
    <3> QED
      BY <3>1, <3>2
  <2>2. solves(g, n + 1)
    <3>1. DOMAIN g = 0..(n + 1) /\ g = [k \in 0..(n + 1) |-> g[k]]
      OBVIOUS
    <3> HIDE DEF g
    <3> QED
      BY <2>1, <3>1
  <2>3. n + 1 \in 0..N
    BY <1>2
  <2> HIDE DEF g, solves
  <2> QED
    BY <2>2, <2>3
<1>3. N \in T
  <2> HIDE DEF T
  <2>1. 0..N \subseteq T
    BY <1>1, <1>2, UpTo
  <2> QED
    BY <2>1
<1>4. \E f : f = [k \in 0..N |-> IF k = 0 THEN RootLengths ELSE Onward(f[k - 1])]
  BY <1>3
<1>5. Lengths = [k \in 0..N |-> IF k = 0 THEN RootLengths ELSE Onward(Lengths[k - 1])]
  BY <1>4, Zenon DEF Lengths
<1> QED
  BY <1>5

\* A link carries a rank from a relay to an unconnected node of the graph, at a
\* natural metric.
LEMMA CarriedMetric ==
  ASSUME TypeOK, NEW p \in DOMAIN nodes, NEW n \in DOMAIN nodes, Carry(p, n)
  PROVE  metric[Edge(p, n)] \in Nat
  BY Lookups DEF Carry, Routing!Carries, Edge, Routing!Edge

\* With nothing left to process no path is shorter than the rank of its last node.
LEMMA NoShorterPath ==
  ASSUME TInv, OthersSettled, todo = {}
  PROVE  \A k \in 0..Cardinality(DOMAIN nodes) : \A q \in Lengths[k] :
           /\ q[1] \in DOMAIN nodes /\ q[2] \in Int
           /\ rank[q[1]] \in Int /\ rank[q[1]] <= q[2]
<1> DEFINE N == Cardinality(DOMAIN nodes)
           above(q) == /\ q[1] \in DOMAIN nodes /\ q[2] \in Int
                       /\ rank[q[1]] \in Int /\ rank[q[1]] <= q[2]
           T == {k \in 0..N : \A q \in Lengths[k] : above(q)}
<1> USE DEF TInv
<1>0. N \in Nat
  BY NodesFinite
<1>1. 0 \in T
  <2> SUFFICES ASSUME NEW q \in Lengths[0] PROVE above(q)
    BY <1>0
  <2>1. q \in RootLengths
    BY <1>0, LengthsDef
  <2>2. PICK n \in DOMAIN nodes : nodes[n].connected /\ q = <<n, nodes[n].rank>>
    BY <2>1 DEF RootLengths
  <2>3. nodes[n].rank \in Int /\ rank[n] = nodes[n].rank
    BY <2>2, Lookups DEF RootsFixed
  <2> QED
    BY <2>2, <2>3
<1>2. ASSUME NEW k \in 0..N, k \in T, k < N
      PROVE  k + 1 \in T
  <2> SUFFICES ASSUME NEW q \in Lengths[k + 1] PROVE above(q)
    BY <1>0, <1>2
  <2>1. k + 1 \in 0..N /\ k + 1 # 0 /\ (k + 1) - 1 = k
    BY <1>0, <1>2
  <2>2. Lengths[k + 1] = Onward(Lengths[k])
    BY <1>0, <2>1, LengthsDef
  <2>3. CASE q \in Lengths[k]
    BY <1>2, <2>3
  <2>4. CASE q \notin Lengths[k]
    <3>1. PICK p \in Lengths[k], n \in DOMAIN nodes :
            Carry(p[1], n) /\ q = <<n, p[2] + metric[Edge(p[1], n)]>>
      BY <2>2, <2>4 DEF Onward, Carry
    <3>2. above(p)
      BY <1>2
    <3>3. metric[Edge(p[1], n)] \in Nat
      BY <3>1, <3>2, CarriedMetric
    <3>4. rank[p[1]] # Inf
      BY <3>2, GeoRPLAssumption
    <3>5. rank[n] # Inf /\ rank[n] <= rank[p[1]] + metric[Edge(p[1], n)]
      BY <3>1, <3>2, <3>4 DEF OthersSettled
    <3>6. rank[n] \in Int
      BY <3>5, Lookups
    <3>7. q[1] = n /\ q[2] = p[2] + metric[Edge(p[1], n)]
      BY <3>1
    <3> QED
      BY <3>2, <3>3, <3>5, <3>6, <3>7
  <2> QED
    BY <2>3, <2>4
<1> HIDE DEF above
<1>3. 0..N \subseteq T
  <2> HIDE DEF T
  <2> QED
    BY <1>0, <1>1, <1>2, UpTo
<1> QED
  BY <1>3 DEF above

\* With nothing left to process every rank is the length of some path: of the
\* nodes without one, that one lies outside whose parent has one.  A node more
\* joins with every link, so that as many links as there are nodes are enough.
LEMMA SomePathIsThatShort ==
  ASSUME TInv, ParentsAcyclic, ParentsOffer, OthersSettled, todo = {}
  PROVE  \A n \in DOMAIN nodes :
           rank[n] # Inf => <<n, rank[n]>> \in Lengths[Cardinality(DOMAIN nodes)]
<1> DEFINE N == Cardinality(DOMAIN nodes)
           Ranked == {n \in DOMAIN nodes : rank[n] # Inf}
           Found(k) == {n \in Ranked : <<n, rank[n]>> \in Lengths[k]}
           T == {k \in 0..N : Ranked \subseteq Found(k) \/ Cardinality(Found(k)) >= k}
<1> USE DEF TInv
<1>0. N \in Nat /\ IsFiniteSet(DOMAIN nodes)
  BY NodesFinite
<1>1. \A k : IsFiniteSet(Found(k)) /\ Cardinality(Found(k)) \in Nat
  <2> SUFFICES ASSUME NEW k PROVE IsFiniteSet(Found(k)) /\ Cardinality(Found(k)) \in Nat
    OBVIOUS
  <2>1. Found(k) \in SUBSET DOMAIN nodes
    OBVIOUS
  <2> HIDE DEF Found
  <2> QED
    BY <1>0, <2>1, FS_Subset, FS_CardinalityType
<1>2. \A n \in Ranked : nodes[n].connected => <<n, rank[n]>> \in RootLengths
  BY DEF RootLengths, RootsFixed
<1>3. \A k \in 0..N : RootLengths \subseteq Lengths[k]
  <2> DEFINE R == {k \in 0..N : RootLengths \subseteq Lengths[k]}
  <2>1. 0 \in R
    BY <1>0, LengthsDef
  <2>2. ASSUME NEW k \in 0..N, k \in R, k < N PROVE k + 1 \in R
    <3>1. k + 1 \in 0..N /\ k + 1 # 0 /\ (k + 1) - 1 = k
      BY <1>0, <2>2
    <3>2. Lengths[k + 1] = Onward(Lengths[k])
      BY <1>0, <3>1, LengthsDef
    <3> QED
      BY <2>2, <3>1, <3>2 DEF Onward
  <2>3. 0..N \subseteq R
    <3> HIDE DEF R
    <3> QED
      BY <1>0, <2>1, <2>2, UpTo
  <2> QED
    BY <2>3
<1>4. ASSUME NEW k \in 0..N, k < N
      PROVE  /\ Found(k) \subseteq Found(k + 1)
             /\ Ranked \subseteq Found(k) \/ \E n : n \in Found(k + 1) /\ n \notin Found(k)
  <2>1. k + 1 \in 0..N /\ k + 1 # 0 /\ (k + 1) - 1 = k
    BY <1>0, <1>4
  <2>2. Lengths[k + 1] = Onward(Lengths[k])
    BY <1>0, <2>1, LengthsDef
  <2>3. Found(k) \subseteq Found(k + 1)
    BY <2>2 DEF Onward
  <2>4. ASSUME ~(Ranked \subseteq Found(k))
        PROVE  \E n : n \in Found(k + 1) /\ n \notin Found(k)
    <3> DEFINE S == Ranked \ Found(k)
    <3>1. PICK n \in S : parent[n] \notin S
      <4>1. S \in SUBSET DOMAIN nodes /\ S # {}
        BY <2>4
      <4> HIDE DEF S
      <4> QED
        BY <4>1 DEF ParentsAcyclic
    <3>2. n \in DOMAIN nodes /\ rank[n] # Inf /\ <<n, rank[n]>> \notin Lengths[k]
      OBVIOUS
    <3>3. ~nodes[n].connected
      BY <1>2, <1>3, <3>2
    <3>4. /\ parent[n] # None /\ Carry(parent[n], n) /\ rank[parent[n]] # Inf
          /\ rank[n] >= rank[parent[n]] + metric[Edge(parent[n], n)]
      BY <3>2, <3>3 DEF ParentsOffer
    <3>5. parent[n] \in DOMAIN nodes
      BY <3>2, <3>4, Lookups
    <3>6. <<parent[n], rank[parent[n]]>> \in Lengths[k]
      BY <3>1, <3>4, <3>5
    <3>7. rank[n] <= rank[parent[n]] + metric[Edge(parent[n], n)]
      BY <3>2, <3>4, <3>5 DEF OthersSettled
    <3>8. rank[n] \in Int /\ rank[parent[n]] \in Int /\ metric[Edge(parent[n], n)] \in Nat
      BY <3>2, <3>4, <3>5, Lookups, CarriedMetric
    <3>9. rank[n] = rank[parent[n]] + metric[Edge(parent[n], n)]
      BY <3>4, <3>7, <3>8
    <3>10. <<n, rank[n]>> \in Onward(Lengths[k])
      <4> DEFINE p == <<parent[n], rank[parent[n]]>>
      <4>1. p[1] = parent[n] /\ p[2] = rank[parent[n]]
        OBVIOUS
      <4>2. n \in {m \in DOMAIN nodes : Routing!Carries(nodes, metric, p[1], m)}
        BY <3>2, <3>4, <4>1 DEF Carry
      <4>3. <<n, rank[n]>> = <<n, p[2] + metric[Edge(p[1], n)]>>
        BY <3>9, <4>1
      <4>4. p \in Lengths[k]
        BY <3>6
      <4> HIDE DEF p
      <4> QED
        BY <4>2, <4>3, <4>4 DEF Onward
    <3> QED
      BY <2>2, <3>1, <3>2, <3>10
  <2> QED
    BY <2>3, <2>4
<1>5. 0 \in T
  <2>1. 0 \in 0..N
    BY <1>0
  <2>2. Cardinality(Found(0)) >= 0
    <3>1. Cardinality(Found(0)) \in Nat
      BY <1>1
    <3> HIDE DEF Found
    <3> QED
      BY <3>1
  <2> QED
    BY <2>1, <2>2
<1>6. ASSUME NEW k \in 0..N, k \in T, k < N
      PROVE  k + 1 \in T
  <2>1. k + 1 \in 0..N
    BY <1>0, <1>6
  <2>2. CASE Ranked \subseteq Found(k)
    BY <1>4, <1>6, <2>1, <2>2
  <2>3. CASE ~(Ranked \subseteq Found(k))
    <3>1. PICK n : n \in Found(k + 1) /\ n \notin Found(k)
      BY <1>4, <1>6, <2>3
    <3>2. Cardinality(Found(k)) >= k
      BY <1>6, <2>3
    <3>3. Found(k) \in SUBSET Found(k + 1) /\ Found(k) # Found(k + 1)
      BY <1>4, <1>6, <3>1
    <3> HIDE DEF Found
    <3>4. /\ Cardinality(Found(k)) <= Cardinality(Found(k + 1))
          /\ Cardinality(Found(k)) # Cardinality(Found(k + 1))
      BY <1>1, <3>3, FS_Subset
    <3>5. Cardinality(Found(k + 1)) >= k + 1
      BY <1>0, <1>1, <3>2, <3>4
    <3> QED
      BY <2>1, <3>5
  <2> QED
    BY <2>2, <2>3
<1>7. N \in T
  <2> HIDE DEF T
  <2> QED
    BY <1>0, <1>5, <1>6, UpTo
<1>8. Ranked \subseteq Found(N)
  <2>1. CASE Cardinality(Found(N)) >= N
    <3>1. Found(N) \in SUBSET DOMAIN nodes
      OBVIOUS
    <3> HIDE DEF Found
    <3>2. Cardinality(Found(N)) <= Cardinality(DOMAIN nodes)
      BY <1>0, <3>1, FS_Subset
    <3>3. Cardinality(Found(N)) = Cardinality(DOMAIN nodes)
      BY <1>0, <1>1, <2>1, <3>2
    <3>4. Found(N) = DOMAIN nodes
      BY <1>0, <3>1, <3>3, FS_Subset
    <3> QED
      BY <3>4
  <2> QED
    BY <1>7, <2>1
<1> QED
  BY <1>8

\* So the ranks are the lengths of the shortest paths.
LEMMA RanksAreLengths ==
  ASSUME TInv, ParentsAcyclic, ParentsOffer, OthersSettled, todo = {}
  PROVE  rank = PathRank
<1> DEFINE N == Cardinality(DOMAIN nodes)
           of(n) == {p[2] : p \in {q \in Lengths[N] : q[1] = n}}
           least(n) == IF of(n) = {} THEN Inf ELSE CHOOSE d \in of(n) : \A e \in of(n) : d <= e
<1> USE DEF TInv
<1>0. N \in 0..N
  BY NodesFinite
<1>1. ASSUME NEW n \in DOMAIN nodes PROVE rank[n] = least(n)
  <2>1. ASSUME NEW d \in of(n) PROVE d \in Int /\ rank[n] \in Int /\ rank[n] <= d
    <3>1. PICK q \in Lengths[N] : q[1] = n /\ d = q[2]
      OBVIOUS
    <3> QED
      BY <1>0, <3>1, NoShorterPath
  <2>2. CASE rank[n] = Inf
    <3>1. of(n) = {}
      BY <2>1, <2>2, GeoRPLAssumption
    <3> QED
      BY <2>2, <3>1
  <2>3. CASE rank[n] # Inf
    <3>1. rank[n] \in of(n)
      <4>1. <<n, rank[n]>> \in Lengths[N]
        BY <2>3, SomePathIsThatShort
      <4> QED
        BY <4>1
    <3> HIDE DEF of
    <3>2. \A d \in of(n) : (\A e \in of(n) : d <= e) => d = rank[n]
      BY <2>1, <3>1
    <3>3. (CHOOSE d \in of(n) : \A e \in of(n) : d <= e) = rank[n]
      BY <2>1, <3>1, <3>2
    <3> QED
      BY <3>1, <3>3
  <2> QED
    BY <2>2, <2>3
<1>2. rank = [n \in DOMAIN nodes |-> rank[n]]
  BY DEF TypeOK
<1>3. PathRank = [n \in DOMAIN nodes |-> least(n)]
  BY DEF PathRank
<1> HIDE DEF least
<1> QED
  BY <1>1, <1>2, <1>3

\* When run_RPL ends every rank is the length of the shortest relay path from a
\* root, and a node is left unranked exactly when no path reaches it: for every
\* graph, all metrics, and whichever relays were popped first.
THEOREM RanksAreShortest == Spec => []RanksAreShortestPaths
<1>1. IInv => RanksAreShortestPaths
  BY RanksAreLengths DEF IInv, LoopInv, RanksAreShortestPaths
<1> QED
  BY Invariance, <1>1, PTL

-----------------------------------------------------------------------------

\* When the worklist is empty the loop invariant is a shortest forest.
LEMMA LoopEnd ==
  ASSUME IInv, RunEnd
  PROVE  Routing!Solve
<1>1. TInv /\ LoopInv /\ todo = {} /\ ParentsAcyclic
  BY DEF IInv, RunEnd
<1> DEFINE members == {n \in DOMAIN nodes : parent[n] # None \/ \E c \in DOMAIN nodes : parent[c] = n}
<1>2. /\ UNCHANGED <<nodes, metric>>
      /\ network' = Routing!NetworkOf(rank, parent)
  BY DEF RunEnd
<1>3. /\ DOMAIN parent = DOMAIN nodes
      /\ rank = [n \in DOMAIN nodes |-> rank[n]]
      /\ parent = [n \in DOMAIN nodes |-> parent[n]]
  BY <1>1 DEF TInv, TypeOK
<1>4. network' = [members |-> members, rank |-> [n \in members |-> rank[n]],
                  parent |-> [n \in members |-> parent[n]]]
  BY <1>2, <1>3 DEF Routing!NetworkOf
<1>5. /\ network'.members = members
      /\ \A n \in members : network'.rank[n] = rank[n] /\ network'.parent[n] = parent[n]
  BY <1>4
<1>6. Routing!RankIn(nodes, network') = rank
  <2>1. ASSUME NEW n \in DOMAIN nodes, n \notin members
        PROVE  rank[n] = IF nodes[n].connected THEN nodes[n].rank ELSE Inf
    <3>1. parent[n] = None
      BY <2>1
    <3>2. nodes[n].connected \/ rank[n] = Inf
      BY <1>1, <3>1 DEF LoopInv, ParentsOffer
    <3>3. QED
      BY <1>1, <3>2 DEF TInv, RootsFixed
  <2>2. \A n \in DOMAIN nodes :
          rank[n] = IF n \in network'.members THEN network'.rank[n]
                    ELSE IF nodes[n].connected THEN nodes[n].rank ELSE Inf
    BY <1>5, <2>1
  <2>3. QED
    BY <1>3, <2>2 DEF Routing!RankIn
<1>7. Routing!ParentIn(nodes, network') = parent
  <2>1. \A n \in DOMAIN nodes :
          parent[n] = IF n \in network'.members THEN network'.parent[n] ELSE None
    BY <1>5
  <2>2. QED
    BY <1>3, <2>1 DEF Routing!ParentIn
<1>8. Routing!Stable(nodes, metric, rank)
  <2>1. \A n \in DOMAIN nodes : nodes[n].connected => rank[n] = nodes[n].rank
    BY <1>1 DEF TInv, RootsFixed
  <2>2. ASSUME NEW n \in DOMAIN nodes, NEW p \in DOMAIN nodes, Carry(p, n), rank[p] # Inf
        PROVE  rank[n] # Inf /\ rank[n] <= rank[p] + metric[Edge(p, n)]
    BY <1>1, <2>2 DEF LoopInv, OthersSettled
  <2>3. QED
    BY <2>1, <2>2 DEF Routing!Stable, Carry, Edge, Routing!Edge
<1>9. Routing!Forest(nodes, metric, rank, parent)
  <2>1. ASSUME NEW n \in DOMAIN nodes
        PROVE  /\ parent[n] # None <=> (~nodes[n].connected /\ rank[n] # Inf)
               /\ parent[n] # None =>
                    /\ Carry(parent[n], n)
                    /\ rank[parent[n]] # Inf
                    /\ rank[n] = rank[parent[n]] + metric[Edge(parent[n], n)]
    <3>1. /\ parent[n] # None <=> (~nodes[n].connected /\ rank[n] # Inf)
          /\ parent[n] # None =>
               /\ Carry(parent[n], n)
               /\ rank[parent[n]] # Inf
               /\ rank[n] >= rank[parent[n]] + metric[Edge(parent[n], n)]
      BY <1>1 DEF LoopInv, ParentsOffer
    <3>2. ASSUME parent[n] # None
          PROVE  rank[n] = rank[parent[n]] + metric[Edge(parent[n], n)]
      <4>1. /\ parent[n] \in DOMAIN nodes
            /\ Edge(parent[n], n) \in DOMAIN metric
        BY <1>1, <3>1, <3>2, Lookups DEF TInv, Carry, Routing!Carries, Edge, Routing!Edge
      <4>2. rank[n] \in Int /\ rank[parent[n]] \in Int /\ metric[Edge(parent[n], n)] \in Nat
        BY <1>1, <3>1, <3>2, <4>1, Lookups DEF TInv
      <4>3. rank[n] <= rank[parent[n]] + metric[Edge(parent[n], n)]
        BY <1>1, <3>1, <3>2, <4>1 DEF LoopInv, OthersSettled
      <4>4. QED
        BY <3>1, <3>2, <4>2, <4>3
    <3>3. QED
      BY <3>1, <3>2
  <2>2. \A S \in SUBSET DOMAIN nodes : S # {} => \E n \in S : parent[n] \notin S
    BY <1>1 DEF ParentsAcyclic
  <2>3. QED
    BY <2>1, <2>2 DEF Routing!Forest, Carry, Edge, Routing!Edge
<1>10. Routing!Greatest(nodes, metric, rank)
  BY <1>1 DEF LoopInv, RanksAbove
<1>11. QED
  BY <1>2, <1>6, <1>7, <1>8, <1>9, <1>10 DEF Routing!Solve, Routing!ShortestForest

\* The network RPL planning leaves is a shortest forest of the candidate graph it
\* ran on, and changes at no other step than the end of run_RPL and set_nodes:
\* the worklist implements RplRouting.
THEOREM Implements == Spec => RoutingSpec
<1>1. Init => Routing!RoutingInit
  BY DEF Init, Routing!RoutingInit, Empty, Routing!EmptyNetwork
<1>2. IInv /\ [Next]_vars => [Routing!RoutingNext]_(Routing!routingVars)
  <2> SUFFICES ASSUME IInv, [Next]_vars
               PROVE  [Routing!RoutingNext]_(Routing!routingVars)
    OBVIOUS
  <2> USE DEF Routing!RoutingNext, Routing!routingVars
  <2>1. ASSUME NEW t \in Tables, SetNodes(t) PROVE Routing!ReplaceNodes
    BY <2>1 DEF SetNodes, Routing!ReplaceNodes, Empty
  <2>2. ASSUME NEW new \in Updates, NEW update \in BOOLEAN, SetEdgeMetrics(new, update)
        PROVE  Routing!ChangeMetrics
    BY <2>2 DEF SetEdgeMetrics, Routing!ChangeMetrics
  <2>3. CASE RunStart
    BY <2>3 DEF RunStart
  <2>4. ASSUME NEW p \in todo, Expand(p)
        PROVE  UNCHANGED Routing!routingVars
    BY <2>4 DEF Expand
  <2>5. CASE RunEnd
    BY <2>5, LoopEnd
  <2>6. CASE UNCHANGED vars
    BY <2>6 DEF vars
  <2>7. QED
    BY <2>1, <2>2, <2>3, <2>4, <2>5, <2>6 DEF Next
<1>3. QED
  BY <1>1, <1>2, Invariance, PTL DEF Spec, RoutingSpec, Routing!RoutingSpec

-----------------------------------------------------------------------------

\* How a node of the finished run stands in a table.
Row(n) ==
  [connected |-> nodes[n].connected, rank |-> Reports!JsonValue(rank[n]), parent |-> parent[n]]

\* The parent links of the finished run.
ParentEdges == {Edge(n, parent[n]) : n \in {m \in DOMAIN nodes : parent[m] # None}}

\* What a finished run leaves.
LEMMA FinishedRun ==
  ASSUME IInv, RunEnd
  PROVE  /\ TInv /\ ParentsAcyclic /\ LoopInv /\ todo = {}
         /\ network'.members \subseteq DOMAIN nodes
         /\ \A n \in network'.members : network'.rank[n] = rank[n] /\ network'.parent[n] = parent[n]
         /\ \A n \in DOMAIN nodes \ network'.members : parent[n] = None /\ rank[n] = nodes[n].rank
         /\ rank' = rank
<1>1. TInv /\ LoopInv /\ todo = {} /\ ParentsAcyclic /\ rank' = rank
  BY DEF IInv, RunEnd
<1> DEFINE members == {n \in DOMAIN nodes : parent[n] # None \/ \E c \in DOMAIN nodes : parent[c] = n}
<1>2. DOMAIN parent = DOMAIN nodes
  BY <1>1 DEF TInv, TypeOK
<1>3. network' = [members |-> members, rank |-> [n \in members |-> rank[n]],
                  parent |-> [n \in members |-> parent[n]]]
  BY <1>2 DEF RunEnd, Routing!NetworkOf
<1>4. /\ network'.members = members
      /\ \A n \in members : network'.rank[n] = rank[n] /\ network'.parent[n] = parent[n]
  BY <1>3
<1>5. ASSUME NEW n \in DOMAIN nodes, n \notin members
      PROVE  parent[n] = None /\ rank[n] = nodes[n].rank
  <2>1. parent[n] = None
    BY <1>5
  <2>2. nodes[n].connected \/ rank[n] = Inf
    BY <1>1, <2>1 DEF LoopInv, ParentsOffer
  <2>3. ValidTable(nodes)
    BY <1>1, <1>5 DEF TInv, TypeOK, Empty, Routing!Empty
  <2>4. nodes[n].connected \/ nodes[n].rank = Inf
    BY <2>3 DEF ValidTable
  <2>5. nodes[n].connected => rank[n] = nodes[n].rank
    BY <1>1 DEF TInv, RootsFixed
  <2>6. nodes[n].connected <=> nodes[n].rank # Inf
    BY <2>3 DEF ValidTable
  <2> QED
    BY <2>1, <2>2, <2>5, <2>6
<1> QED
  BY <1>1, <1>4, <1>5

\* The serialized result gives every node as the run left it.
LEMMA RowsOf ==
  ASSUME IInv, RunEnd
  PROVE  Reports!MergedNodeRecords(Reports!ToResultDict(nodes, metric, network'))
           = [n \in DOMAIN nodes |-> Row(n)]
<1> DEFINE rpl == [n \in DOMAIN nodes |->
                     [connected |-> nodes[n].connected, rank |-> Reports!JsonValue(nodes[n].rank),
                      parent |-> None]]
           planned == [n \in network'.members |->
                         [connected |-> nodes[n].connected,
                          rank |-> Reports!JsonValue(network'.rank[n]),
                          parent |-> network'.parent[n]]]
           result == Reports!ToResultDict(nodes, metric, network')
<1>1. result.rpl_nodes = rpl /\ result.planned_nodes = planned
  BY DEF Reports!ToResultDict
<1>2. \A n \in network'.members : planned[n] = Row(n)
  BY FinishedRun DEF Row
<1>3. \A n \in DOMAIN nodes \ network'.members : rpl[n] = Row(n)
  BY FinishedRun DEF Row
<1>4. DOMAIN rpl = DOMAIN nodes /\ DOMAIN planned = network'.members
  OBVIOUS
<1>5. network'.members \subseteq DOMAIN nodes
  BY FinishedRun
<1>6. Reports!MergedNodeRecords(result) = [n \in DOMAIN nodes |-> Row(n)]
  <2> HIDE DEF rpl, planned, result
  <2> QED
    BY <1>1, <1>2, <1>3, <1>4, <1>5 DEF Reports!MergedNodeRecords
<1> QED
  BY <1>6

\* and its parent links with their metrics.
LEMMA EdgesOf ==
  ASSUME IInv, RunEnd
  PROVE  Reports!ToResultDict(nodes, metric, network').planned_edges
           = [e \in ParentEdges |-> metric[e]]
<1>1. {{n, network'.parent[n]} : n \in {m \in network'.members : network'.parent[m] # None}}
        = ParentEdges
  BY FinishedRun DEF ParentEdges, Edge
<1> QED
  BY <1>1 DEF Reports!ToResultDict, Reports!PlannedEdges

\* The four qualities exclude each other.
LEMMA QualityCases ==
  ASSUME NEW row, NEW threshold, row.connected \in BOOLEAN
  PROVE  LET quality == Reports!Quality(row, threshold)
         IN /\ quality = "connected" <=> row.connected
            /\ quality = "unserved" <=> ~row.connected /\ row.rank \in {None, Inf}
            /\ quality = "good" <=> ~row.connected /\ row.rank \notin {None, Inf} /\ row.rank <= threshold
            /\ quality \in {"connected", "unserved", "good", "poor"}
  BY DEF Reports!Quality

LEMMA ReportsCardinality == \A S : Reports!Cardinality(S) = Cardinality(S)
  BY Zenon DEF Cardinality, Reports!Cardinality

-----------------------------------------------------------------------------

\* The qualities of a finished run, of the serialized result and of the graph.
LEMMA QualitiesTold ==
  ASSUME IInv, RunEnd, NEW threshold \in Thresholds
  PROVE  QualitiesAreTold(rank, Reports!ToResultDict(nodes, metric, network'), threshold)
<1> DEFINE result == Reports!ToResultDict(nodes, metric, network')
           table == Reports!QualityTable(result, threshold)
           live == Reports!LiveQualityTable(nodes, rank', network', threshold)
           targets == {n \in DOMAIN nodes : ~nodes[n].connected}
<1>1. Reports!MergedNodeRecords(result) = [n \in DOMAIN nodes |-> Row(n)]
  BY RowsOf
<1>2. table = [n \in DOMAIN nodes |-> Reports!Quality(Row(n), threshold)]
  <2> HIDE DEF result
  <2> QED
    BY <1>1 DEF Reports!QualityTable
<1>3. TInv /\ rank' = rank
  BY FinishedRun
<1>4. ASSUME NEW n \in DOMAIN nodes
      PROVE  /\ nodes[n].connected \in BOOLEAN
             /\ rank[n] \in Int \cup {Inf}
             /\ nodes[n].connected => rank[n] # Inf
             /\ Row(n).connected = nodes[n].connected
             /\ Row(n).rank = IF rank[n] = Inf THEN None ELSE rank[n]
  BY <1>3, Lookups, GeoRPLAssumption DEF TInv, RootsFixed, Row, Reports!JsonValue
<1>5. ASSUME NEW n \in DOMAIN nodes
      PROVE  /\ table[n] = "connected" <=> nodes[n].connected
             /\ table[n] = "unserved" <=> ~nodes[n].connected /\ rank[n] = Inf
             /\ table[n] = "good" <=> ~nodes[n].connected /\ Near(rank, n, threshold)
             /\ table[n] \in {"connected", "unserved", "good", "poor"}
  <2>1. table[n] = Reports!Quality(Row(n), threshold)
    BY <1>2
  <2>2. Row(n).rank \in {None, Inf} <=> rank[n] = Inf
    BY <1>4, GeoRPLAssumption, ReportsAssumption
  <2>3. rank[n] # Inf => Row(n).rank = rank[n]
    BY <1>4
  <2> HIDE DEF table
  <2> QED
    BY <1>4, <2>1, <2>2, <2>3, QualityCases DEF Near
<1>6. table = live
  <2>1. ASSUME NEW n \in DOMAIN nodes
        PROVE  (IF n \in network'.members THEN network'.rank[n] ELSE rank'[n]) = rank[n]
    BY FinishedRun
  <2>2. live = [n \in DOMAIN nodes |->
                  Reports!Quality([connected |-> nodes[n].connected, rank |-> rank[n]], threshold)]
    BY <2>1 DEF Reports!LiveQualityTable
  <2>3. ASSUME NEW n \in DOMAIN nodes
        PROVE  Reports!Quality([connected |-> nodes[n].connected, rank |-> rank[n]], threshold)
                 = table[n]
    <3> DEFINE row == [connected |-> nodes[n].connected, rank |-> rank[n]]
    <3>1. row.connected = nodes[n].connected /\ row.rank = rank[n] /\ row.connected \in BOOLEAN
      BY <1>4
    <3>2. rank[n] \in {None, Inf} <=> rank[n] = Inf
      BY <1>4, ReportsAssumption
    <3> HIDE DEF row, table
    <3>3. /\ Reports!Quality(row, threshold) = "connected" <=> nodes[n].connected
          /\ Reports!Quality(row, threshold) = "unserved" <=> ~nodes[n].connected /\ rank[n] = Inf
          /\ Reports!Quality(row, threshold) = "good" <=>
               ~nodes[n].connected /\ Near(rank, n, threshold)
          /\ Reports!Quality(row, threshold) \in {"connected", "unserved", "good", "poor"}
      BY <3>1, <3>2, QualityCases DEF Near
    <3>4. Reports!Quality(row, threshold) = table[n]
      BY <1>5, <3>3
    <3> QED
      BY <3>4 DEF row
  <2> QED
    BY <1>2, <2>2, <2>3
<1>7. Reports!QualitySummary(table).success <=>
        targets # {} /\ \A n \in targets : Near(rank, n, threshold)
  <2> DEFINE count(q) == Cardinality({n \in DOMAIN nodes : table[n] = q})
  <2>1. DOMAIN table = DOMAIN nodes
    BY <1>2
  <2>2. Reports!QualitySummary(table).success <=>
          /\ \E n \in DOMAIN nodes : table[n] # "connected"
          /\ count("poor") = 0 /\ count("unserved") = 0
    <3> HIDE DEF table
    <3> QED
      BY <2>1, ReportsCardinality DEF Reports!QualitySummary
  <2>3. \A q : count(q) = 0 <=> \A n \in DOMAIN nodes : table[n] # q
    <3> SUFFICES ASSUME NEW q PROVE count(q) = 0 <=> \A n \in DOMAIN nodes : table[n] # q
      OBVIOUS
    <3> DEFINE those == {n \in DOMAIN nodes : table[n] = q}
    <3>1. those \in SUBSET DOMAIN nodes
      OBVIOUS
    <3>2. IsFiniteSet(those)
      <4> HIDE DEF those
      <4> QED
        BY <1>3, <3>1, NodesFinite, FS_Subset DEF TInv
    <3>3. Cardinality(those) = 0 <=> those = {}
      BY <3>2, FS_EmptySet
    <3> HIDE DEF table
    <3> QED
      BY <3>3
  <2> HIDE DEF table, count
  <2>4. (\E n \in DOMAIN nodes : table[n] # "connected") <=> targets # {}
    BY <1>5
  <2>5. ((\A n \in DOMAIN nodes : table[n] # "poor") /\ (\A n \in DOMAIN nodes : table[n] # "unserved"))
          <=> \A n \in targets : Near(rank, n, threshold)
    BY <1>5
  <2> QED
    BY <2>2, <2>3, <2>4, <2>5
<1> HIDE DEF table, live
<1>8. \A n \in targets : /\ table[n] = "unserved" <=> rank[n] = Inf
                         /\ table[n] = "good" <=> Near(rank, n, threshold)
  BY <1>5
<1> QED
  BY <1>6, <1>7, <1>8 DEF QualitiesAreTold, table, live

\* The service of the clients and the loads of the cells of a finished run.
LEMMA ServiceTold ==
  ASSUME IInv, RunEnd
  PROVE  LET result == Reports!ToResultDict(nodes, metric, network')
         IN ServiceIsTold(rank, Reports!ServiceTable(result), Reports!CellLoadTable(result))
<1> DEFINE result == Reports!ToResultDict(nodes, metric, network')
           rows == Reports!MergedNodeRecords(result)
           service == Reports!ServiceTable(result)
           load == Reports!CellLoadTable(result)
           clients == {n \in DOMAIN nodes : ~nodes[n].connected /\ n \in Primary}
           cells == {n \in DOMAIN nodes : nodes[n].connected /\ n \in Primary}
<1>1. rows = [n \in DOMAIN nodes |-> Row(n)]
  BY RowsOf
<1>2. result.planned_edges = [e \in ParentEdges |-> metric[e]]
  BY EdgesOf
<1>3. TInv /\ LoopInv /\ todo = {}
  BY FinishedRun
<1>4. /\ DOMAIN rows = DOMAIN nodes
      /\ \A n \in DOMAIN nodes : rows[n].connected = nodes[n].connected /\ rows[n].parent = parent[n]
  <2> HIDE DEF rows
  <2> QED
    BY <1>1 DEF Row
<1> HIDE DEF result
<1>5. /\ DOMAIN service = clients
      /\ \A n \in clients : /\ service[n].parent = parent[n]
                            /\ service[n].served = (parent[n] # None)
                            /\ {n, parent[n]} \in DOMAIN result.planned_edges =>
                                 service[n].metric = result.planned_edges[{n, parent[n]}]
  <2> HIDE DEF rows
  <2>1. service = [n \in clients |->
                     [parent |-> rows[n].parent,
                      served |-> rows[n].parent # None,
                      rank   |-> rows[n].rank,
                      metric |-> IF {n, rows[n].parent} \in DOMAIN result.planned_edges
                                 THEN result.planned_edges[{n, rows[n].parent}] ELSE None]]
    BY <1>4 DEF Reports!ServiceTable, rows
  <2> HIDE DEF service
  <2> QED
    BY <1>4, <2>1
<1>6. /\ DOMAIN load = cells
      /\ \A cell \in cells :
           load[cell] = Cardinality({n \in DOMAIN service : service[n].served /\ service[n].parent = cell})
  <2> HIDE DEF rows, service
  <2>1. load = [cell \in {n \in DOMAIN rows : rows[n].connected /\ n \in Primary} |->
                  Cardinality({n \in DOMAIN service : service[n].served /\ service[n].parent = cell})]
    BY ReportsCardinality DEF Reports!CellLoadTable, rows, service
  <2>2. {n \in DOMAIN rows : rows[n].connected /\ n \in Primary} = cells
    BY <1>4
  <2> HIDE DEF load
  <2> QED
    BY <2>1, <2>2
<1>7. ASSUME NEW n \in clients
      PROVE  /\ service[n].served <=> rank[n] # Inf
             /\ service[n].served => rank[n] = rank[service[n].parent] + service[n].metric
  <2> HIDE DEF service
  <2>1. /\ parent[n] # None <=> rank[n] # Inf
        /\ parent[n] # None =>
             /\ Carry(parent[n], n)
             /\ rank[parent[n]] # Inf
             /\ rank[n] >= rank[parent[n]] + metric[Edge(parent[n], n)]
    BY <1>3 DEF LoopInv, ParentsOffer
  <2>2. ASSUME parent[n] # None
        PROVE  rank[n] = rank[parent[n]] + service[n].metric
    <3>1. parent[n] \in DOMAIN nodes
      BY <1>3, <2>2, Lookups DEF TInv
    <3>2. rank[n] <= rank[parent[n]] + metric[Edge(parent[n], n)]
      BY <1>3, <2>1, <2>2, <3>1 DEF LoopInv, OthersSettled
    <3>3. rank[n] \in Int /\ rank[parent[n]] \in Int /\ metric[Edge(parent[n], n)] \in Nat
      BY <1>3, <2>1, <2>2, <3>1, Lookups, CarriedMetric DEF TInv
    <3>4. rank[n] = rank[parent[n]] + metric[Edge(parent[n], n)]
      BY <2>1, <2>2, <3>2, <3>3
    <3>5. {n, parent[n]} \in ParentEdges
      BY <2>2 DEF ParentEdges, Edge
    <3>6. service[n].metric = metric[{n, parent[n]}]
      BY <1>2, <1>5, <3>5
    <3>7. {n, parent[n]} = Edge(parent[n], n)
      BY DEF Edge
    <3> QED
      BY <3>4, <3>6, <3>7
  <2> QED
    BY <1>5, <2>1, <2>2
<1>8. ASSUME NEW cell \in cells
      PROVE  load[cell] = Cardinality({n \in DOMAIN service : service[n].parent = cell})
  <2> HIDE DEF service, load
  <2>1. cell # None
    BY <1>3, Lookups DEF TInv
  <2>2. {n \in DOMAIN service : service[n].served /\ service[n].parent = cell}
          = {n \in DOMAIN service : service[n].parent = cell}
    <3>1. \A n \in DOMAIN service : service[n].parent = cell => service[n].served
      BY <1>5, <2>1
    <3> QED
      BY <3>1
  <2> QED
    BY <1>6, <2>2
<1> QED
  <2> HIDE DEF service, load
  <2>1. ServiceIsTold(rank, service, load)
    BY <1>5, <1>6, <1>7, <1>8 DEF ServiceIsTold
  <2> QED
    BY <2>1 DEF service, load, result

\* A finished run is reported as it is: for every graph, all metrics, and every
\* threshold, the tables of the saved result and of the live graph agree, and
\* say of every node whether and at which rank a shortest relay path serves it.
THEOREM ReportsAreTrue == Spec => ReportsTellTheNetwork
<1>1. IInv /\ RunEnd => \A shortest \in {PathRank} : RunIsReported(shortest)
  <2> SUFFICES ASSUME IInv, RunEnd PROVE RunIsReported(PathRank)
    OBVIOUS
  <2>1. rank = PathRank
    BY FinishedRun, RanksAreLengths DEF LoopInv
  <2>2. RunIsReported(rank)
    BY QualitiesTold, ServiceTold DEF RunIsReported
  <2> QED
    BY <2>1, <2>2
<1> QED
  BY <1>1, Invariance, PTL DEF ReportsTellTheNetwork

=============================================================================
