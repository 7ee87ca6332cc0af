--------------------------- MODULE PlanningRuntime ---------------------------
(***************************************************************************)
(* app/session.py and app/routes_planning.py: the state of one planning    *)
(* worker (scenarios, planners and geo-service pools) under its HTTP       *)
(* handlers.  Handlers written with def run on a thread pool and may be    *)
(* interrupted between any two accesses to shared state; compute_metrics   *)
(* and run_workflow are coroutines and are interrupted at their awaits (by *)
(* each other) and anywhere (by the threads).                              *)
(*                                                                         *)
(* Scenarios, planners and pools are object identities, and a metric       *)
(* mapping is told from another by its content only.  Handlers that only   *)
(* read are left out, and so are the edges and features of a planner and   *)
(* what tuning does to the scenario it reads.                              *)
(***************************************************************************)
EXTENDS Naturals, FiniteSets

CONSTANTS
  Ids,          \* scenario ids
  Serial,       \* ids whose clients wait for each answer, as ScenarioSession does
  Callers,      \* concurrent handlers
  Scenarios,    \* PlanningScenario objects, reused when nothing refers to them
  Planners,     \* GraphPlanner objects, likewise
  Metrics,      \* contents of a metric mapping
  Rejected,     \* those set_edge_metrics or run_RPL refuses
  PoolKeys,     \* connection parameters
  Pools,        \* AsyncGeoServicePool objects: a bound on those that were started
  None

ASSUME RuntimeAssumption ==
  /\ Serial \subseteq Ids
  /\ Rejected \subseteq Metrics
  /\ None \notin Ids \cup Scenarios \cup Planners \cup Metrics \cup PoolKeys \cup Pools
  /\ Callers # {} /\ IsFiniteSet(Callers)

VARIABLES
  scenarios,    \* planning_scenarios
  planners,     \* planning_planners
  origin,       \* planner -> scenario
  metrics,      \* planner -> edge_metrics, None when empty
  network,      \* planner -> the metrics its rpl was solved with
  saved,        \* planner -> the metrics its callers stored (history)
  geoPools,     \* geo_pools
  pool,         \* pool -> [at, key]
  call,         \* caller -> [at, id, scenario, planner, read, pool]
  life          \* of the application

plannerVars == <<origin, metrics, network, saved>>
poolVars == <<geoPools, pool>>
vars == <<scenarios, planners, plannerVars, poolVars, call, life>>

NoCall == [at |-> "over", id |-> None, scenario |-> None, planner |-> None,
           read |-> None, pool |-> None]

\* Not created yet, or dropped because its start failed.
NoPool == [at |-> "none", key |-> None]

Init ==
  /\ scenarios = [i \in Ids |-> None]
  /\ planners = [i \in Ids |-> None]
  /\ origin = [p \in Planners |-> None]
  /\ metrics = [p \in Planners |-> None]
  /\ network = [p \in Planners |-> None]
  /\ saved = [p \in Planners |-> {}]
  /\ geoPools = [k \in PoolKeys |-> None]
  /\ pool = [q \in Pools |-> NoPool]
  /\ call = [c \in Callers |-> NoCall]
  /\ life = "serving"

\* A handler may begin.
Begins(c, i) ==
  /\ life = "serving"
  /\ call[c] = NoCall
  /\ i \in Serial => \A d \in Callers : call[d].id # i

Goes(c, at) == call' = [call EXCEPT ![c].at = at]

Returns(c) == call' = [call EXCEPT ![c] = NoCall]

LivePlanners ==
  {p \in Planners : (\E i \in Ids : planners[i] = p) \/ (\E c \in Callers : call[c].planner = p)}

LiveScenarios ==
  {s \in Scenarios : \/ \E i \in Ids : scenarios[i] = s
                     \/ \E c \in Callers : call[c].scenario = s
                     \/ \E p \in LivePlanners : origin[p] = s}

-----------------------------------------------------------------------------
\* Stage 1: define_scenario and delete_scenario

\* Variant: the planner of the replaced scenario is kept.
DefineKeepingPlanner(c, i) ==
  /\ Begins(c, i)
  /\ \E s \in Scenarios \ LiveScenarios : scenarios' = [scenarios EXCEPT ![i] = s]
  /\ UNCHANGED <<planners, plannerVars, poolVars, call, life>>

Define(c, i) ==
  /\ Begins(c, i)
  /\ \E s \in Scenarios \ LiveScenarios : scenarios' = [scenarios EXCEPT ![i] = s]
  /\ call' = [call EXCEPT ![c].at = "forgetting", ![c].id = i]
  /\ UNCHANGED <<planners, plannerVars, poolVars, life>>

Delete(c, i) ==
  /\ Begins(c, i)
  /\ scenarios' = [scenarios EXCEPT ![i] = None]
  /\ call' = [call EXCEPT ![c].at = "forgetting", ![c].id = i]
  /\ UNCHANGED <<planners, plannerVars, poolVars, life>>

\* Both then drop the planner of the id.
ForgetPlanner(c) ==
  /\ call[c].at = "forgetting"
  /\ planners' = [planners EXCEPT ![call[c].id] = None]
  /\ Returns(c)
  /\ UNCHANGED <<scenarios, plannerVars, poolVars, life>>

-----------------------------------------------------------------------------
\* Stages 2 and 3: build_candidate_edges and tune_candidates

BuildRead(c, i) ==
  /\ Begins(c, i)
  /\ scenarios[i] # None
  /\ call' = [call EXCEPT ![c].at = "building", ![c].id = i, ![c].scenario = scenarios[i]]
  /\ UNCHANGED <<scenarios, planners, plannerVars, poolVars, life>>

\* A new planner for the scenario that was read.
BuildStore(c) ==
  /\ call[c].at = "building"
  /\ \E p \in Planners \ LivePlanners :
       /\ planners' = [planners EXCEPT ![call[c].id] = p]
       /\ origin' = [origin EXCEPT ![p] = call[c].scenario]
       /\ metrics' = [metrics EXCEPT ![p] = None]
       /\ network' = [network EXCEPT ![p] = None]
       /\ saved' = [saved EXCEPT ![p] = {}]
  /\ Returns(c)
  /\ UNCHANGED <<scenarios, poolVars, life>>

\* The scenario is invalid, or no edges can be built from it.
BuildFails(c) ==
  /\ call[c].at = "building"
  /\ Returns(c)
  /\ UNCHANGED <<scenarios, planners, plannerVars, poolVars, life>>

-----------------------------------------------------------------------------
\* Stages 4 and 5: compute_metrics; also the feature part of run_workflow,
\* whose scenario and planner are its own

ReadPlanner(c, i) ==
  /\ Begins(c, i)
  /\ planners[i] # None
  /\ \E at \in {"assigning", "pooling", "solving"} :
       call' = [call EXCEPT ![c].at = at, ![c].id = i, ![c].planner = planners[i]]
  /\ UNCHANGED <<scenarios, planners, plannerVars, poolVars, life>>

RunWorkflow(c) ==
  /\ life = "serving"
  /\ call[c] = NoCall
  /\ Goes(c, "pooling")
  /\ UNCHANGED <<scenarios, planners, plannerVars, poolVars, life>>

\* Explicit metrics replace the mapping and nothing else; None is an empty list.
Assign(c) ==
  /\ call[c].at = "assigning"
  /\ \E m \in Metrics \cup {None} :
       /\ metrics' = [metrics EXCEPT ![call[c].planner] = m]
       /\ saved' = [saved EXCEPT ![call[c].planner] = @ \cup {m}]
  /\ Returns(c)
  /\ UNCHANGED <<scenarios, planners, origin, network, poolVars, life>>

\* Variant: a pool that is there is not found.
GetPoolAnew(c) ==
  /\ call[c].at = "pooling"
  /\ \E k \in PoolKeys, q \in Pools :
       /\ pool[q] = NoPool
       /\ pool' = [pool EXCEPT ![q] = [at |-> "starting", key |-> k]]
       /\ call' = [call EXCEPT ![c].at = "starting", ![c].pool = q]
  /\ UNCHANGED <<scenarios, planners, plannerVars, geoPools, life>>

\* get_geo_pool: the pool of the key, or a new one that has to be started.
GetPool(c) ==
  /\ call[c].at = "pooling"
  /\ \E k \in PoolKeys :
       \/ /\ geoPools[k] # None
          /\ call' = [call EXCEPT ![c].at = "extracting", ![c].pool = geoPools[k]]
          /\ UNCHANGED pool
       \/ /\ geoPools[k] = None
          /\ \E q \in Pools :
               /\ pool[q] = NoPool
               /\ pool' = [pool EXCEPT ![q] = [at |-> "starting", key |-> k]]
               /\ call' = [call EXCEPT ![c].at = "starting", ![c].pool = q]
  /\ UNCHANGED <<scenarios, planners, plannerVars, geoPools, life>>

\* The new pool is stored, over one that was started meanwhile if there is one.
PoolStarted(c) ==
  LET q == call[c].pool
  IN /\ call[c].at = "starting"
     /\ pool' = [pool EXCEPT ![q].at = "open"]
     /\ geoPools' = [geoPools EXCEPT ![pool[q].key] = q]
     /\ Goes(c, "extracting")
     /\ UNCHANGED <<scenarios, planners, plannerVars, life>>

\* start raises: nothing refers to the pool any more.
PoolFails(c) ==
  /\ call[c].at = "starting"
  /\ pool' = [pool EXCEPT ![call[c].pool] = NoPool]
  /\ Returns(c)
  /\ UNCHANGED <<scenarios, planners, plannerVars, geoPools, life>>

\* The tail of compute_edge_metrics; the planner of a workflow is its own.
StoreMetrics(c) ==
  /\ call[c].at = "extracting"
  /\ IF call[c].planner = None
     THEN UNCHANGED <<metrics, saved>>
     ELSE \E m \in Metrics :
            /\ metrics' = [metrics EXCEPT ![call[c].planner] = m]
            /\ saved' = [saved EXCEPT ![call[c].planner] = @ \cup {m}]
  /\ Returns(c)
  /\ UNCHANGED <<scenarios, planners, origin, network, poolVars, life>>

ExtractFails(c) ==
  /\ call[c].at = "extracting"
  /\ Returns(c)
  /\ UNCHANGED <<scenarios, planners, plannerVars, poolVars, life>>

-----------------------------------------------------------------------------
\* Stage 6: solve_network and run_rpl

SolveRead(c) ==
  /\ call[c].at = "solving"
  /\ IF metrics[call[c].planner] = None
     THEN Returns(c)
     ELSE call' = [call EXCEPT ![c].at = "copying", ![c].read = metrics[call[c].planner]]
  /\ UNCHANGED <<scenarios, planners, plannerVars, poolVars, life>>

\* The normalised copy of what was read replaces the planner's mapping.
SolveWrite(c) ==
  /\ call[c].at = "copying"
  /\ metrics' = [metrics EXCEPT ![call[c].planner] = call[c].read]
  /\ Goes(c, "copied")
  /\ UNCHANGED <<scenarios, planners, origin, network, saved, poolVars, life>>

\* Variant: what is checked is the copy made before.
SolveLoadUnchecked(c) ==
  /\ call[c].at = "copied"
  /\ IF call[c].read \in Rejected
     THEN Returns(c)
     ELSE call' = [call EXCEPT ![c].at = "running", ![c].read = metrics[call[c].planner]]
  /\ UNCHANGED <<scenarios, planners, plannerVars, poolVars, life>>

\* The planner's mapping is read again and given to a new GeoRPL, which checks
\* it; a mapping without edges, or one without a way to run, raises.
SolveLoad(c) ==
  /\ call[c].at = "copied"
  /\ IF metrics[call[c].planner] \in Rejected \cup {None}
     THEN Returns(c)
     ELSE call' = [call EXCEPT ![c].at = "running", ![c].read = metrics[call[c].planner]]
  /\ UNCHANGED <<scenarios, planners, plannerVars, poolVars, life>>

\* Variant: the planner is looked up again to store the result.
SolveEndInCurrent(c) ==
  LET p == planners[call[c].id]
  IN /\ call[c].at = "running"
     /\ p # None
     /\ network' = [network EXCEPT ![p] = call[c].read]
     /\ Returns(c)
     /\ UNCHANGED <<scenarios, planners, origin, metrics, saved, poolVars, life>>

\* self.rpl = rpl
SolveEnd(c) ==
  /\ call[c].at = "running"
  /\ network' = [network EXCEPT ![call[c].planner] = call[c].read]
  /\ Returns(c)
  /\ UNCHANGED <<scenarios, planners, origin, metrics, saved, poolVars, life>>

-----------------------------------------------------------------------------
\* lifespan

\* The server has let its handlers finish; close_geo_pools closes each pool of
\* the dictionary (a close that raises leaves its pool closed too) and clears it.
Shutdown ==
  /\ life = "serving"
  /\ \A c \in Callers : call[c] = NoCall
  /\ life' = "closed"
  /\ pool' = [q \in Pools |-> IF \E k \in PoolKeys : geoPools[k] = q
                              THEN [pool[q] EXCEPT !.at = "closed"] ELSE pool[q]]
  /\ geoPools' = [k \in PoolKeys |-> None]
  /\ UNCHANGED <<scenarios, planners, plannerVars, call>>

-----------------------------------------------------------------------------

Stage(c) ==
  \/ ForgetPlanner(c)
  \/ BuildStore(c) \/ BuildFails(c)
  \/ RunWorkflow(c) \/ Assign(c)
  \/ GetPool(c) \/ PoolStarted(c) \/ PoolFails(c)
  \/ StoreMetrics(c) \/ ExtractFails(c)
  \/ SolveRead(c) \/ SolveWrite(c) \/ SolveLoad(c) \/ SolveEnd(c)

Next ==
  \/ \E c \in Callers, i \in Ids : Define(c, i) \/ Delete(c, i) \/ BuildRead(c, i) \/ ReadPlanner(c, i)
  \/ \E c \in Callers : Stage(c)
  \/ Shutdown

Spec == Init /\ [][Next]_vars

-----------------------------------------------------------------------------

PoolUse == {"pooling", "starting", "extracting"}

\* Positions of a handler that was given a planner.
Holding == PoolUse \cup {"assigning", "solving", "copying", "copied", "running"}

\* What a handler holds: a build a scenario, a stage of a planner its planner, and
\* whoever uses a pool that pool.
Calls ==
  {r \in [at : {"over", "forgetting", "building"} \cup Holding,
          id : Ids \cup {None}, scenario : Scenarios \cup {None},
          planner : Planners \cup {None}, read : Metrics \cup {None},
          pool : Pools \cup {None}] :
     /\ r.at = "building" => r.scenario # None
     /\ r.at \in Holding \ PoolUse => r.planner # None
     /\ r.at \in {"starting", "extracting"} => r.pool # None}

TypeOK ==
  /\ scenarios \in [Ids -> Scenarios \cup {None}]
  /\ planners \in [Ids -> Planners \cup {None}]
  /\ origin \in [Planners -> Scenarios \cup {None}]
  /\ metrics \in [Planners -> Metrics \cup {None}]
  /\ network \in [Planners -> Metrics \cup {None}]
  /\ saved \in [Planners -> SUBSET (Metrics \cup {None})]
  /\ geoPools \in [PoolKeys -> Pools \cup {None}]
  /\ pool \in [Pools -> [at : {"none", "starting", "open", "closed"},
                         key : PoolKeys \cup {None}]]
  /\ call \in [Callers -> Calls]
  /\ life \in {"serving", "closed"}

\* A planner is never offered for a scenario it was not built from, on the ids
\* whose clients call one stage at a time, whatever the others do.
PlannerIsCurrent ==
  \A i \in Serial :
    planners[i] # None /\ (\A c \in Callers : call[c].id # i) =>
      origin[planners[i]] = scenarios[i]

\* Whatever stages overlap, the metrics and the network of a planner come from
\* metrics saved for that planner, and no network comes from metrics that RPL
\* refuses: the mapping that is checked is the one that is solved.
NetworkFromSavedMetrics ==
  \A p \in LivePlanners :
    /\ metrics[p] \in saved[p] \cup {None}
    /\ network[p] \in (saved[p] \cup {None}) \ Rejected

\* Open pools that get_geo_pool will not find and close_geo_pools will not close:
\* handlers that start a pool of one key at the same time store theirs one over
\* the other.
LostPools(k) ==
  {q \in Pools : pool[q].at = "open" /\ pool[q].key = k /\ geoPools[k] # q}

\* The leak is of the first handlers of a key only: however many requests follow,
\* after calls that fail and after the shutdown, a key has fewer lost pools than
\* there are handlers at one time.
LostPoolsAreFew ==
  \A k \in PoolKeys : Cardinality(LostPools(k)) < Cardinality(Callers)

\* What close_geo_pools says of itself ("Close all reusable geo-service pools
\* owned by this runtime"): after it no pool is left open.
PoolsAreClosed ==
  life = "closed" => \A q \in Pools : pool[q].at # "open"

\* What the SDK says of set_edge_metrics ("Assign and save explicit edge
\* metrics"): saved metrics change only when metrics are saved again.
SavedMetricsStay ==
  [][\A p \in Planners :
       p \in LivePlanners /\ metrics[p] # None /\ metrics'[p] # metrics[p] =>
         \E c \in Callers : /\ call[c].planner = p
                            /\ call[c].at \in {"assigning", "extracting"}
                            /\ call'[c] # call[c]]_vars

=============================================================================
