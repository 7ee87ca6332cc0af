------------------------ MODULE PlanningRuntimeProofs ------------------------
(***************************************************************************)
(* The safety properties of PlanningRuntime for any number of handlers,    *)
(* ids, planners and pools.  Each has an invariant of its own: what the    *)
(* handlers of a serial id have read, where metrics and networks come      *)
(* from, and what becomes of a pool.                                       *)
(***************************************************************************)
EXTENDS PlanningRuntime, FiniteSetTheorems, TLAPS

\* A serial id has one handler at a time.  What a build has read is still the
\* scenario of the id, and a planner that does not belong to it is about to be
\* dropped.
SerialStages ==
  \A i \in Serial :
    /\ \A c, d \in Callers : call[c].id = i /\ call[d].id = i => c = d
    /\ \A c \in Callers :
         call[c].id = i /\ call[c].at = "building" => call[c].scenario = scenarios[i]
    /\ \/ \E c \in Callers : call[c].id = i /\ call[c].at = "forgetting"
       \/ planners[i] # None => origin[planners[i]] = scenarios[i]

\* Metrics, networks and what a solve holds come from what was saved for the
\* planner; what is being solved was accepted.
Provenance ==
  /\ \A p \in Planners :
       /\ metrics[p] \in saved[p] \cup {None}
       /\ network[p] \in (saved[p] \cup {None}) \ Rejected
  /\ \A c \in Callers :
       /\ call[c].at = "copying" => call[c].read \in saved[call[c].planner]
       /\ call[c].at = "running" => call[c].read \in saved[call[c].planner] \ Rejected

\* A pool is started by one handler; the dictionary holds open pools under
\* their keys, and a key with an open pool keeps one.
PoolHolding ==
  /\ life = "serving" =>
       /\ \A q \in Pools : pool[q].at = "open" => geoPools[pool[q].key] # None
       /\ \A q \in Pools : pool[q].at \in {"starting", "open"} => pool[q].key # None
       /\ \A k \in PoolKeys : geoPools[k] # None =>
            pool[geoPools[k]].key = k /\ pool[geoPools[k]].at = "open"
       /\ \A c \in Callers : call[c].at = "starting" => pool[call[c].pool].at = "starting"
       /\ \A c, d \in Callers :
            call[c].at = "starting" /\ call[d].at = "starting" /\ call[c].pool = call[d].pool => c = d
  /\ life = "closed" => \A c \in Callers : call[c] = NoCall

Starters(q) == {c \in Callers : call[c].at = "starting" /\ call[c].pool = q}

\* The pools of a key that are open or may become so.
Opened(k) == {q \in Pools : pool[q].at \in {"starting", "open"} /\ pool[q].key = k}

Few(S) == IsFiniteSet(S) /\ Cardinality(S) <= Cardinality(Callers)

\* New pools of a key are made only before one of them is stored, each by another
\* handler: there are no more of them than handlers.
PoolCount ==
  /\ \A q \in Pools : pool[q].at = "starting" => Starters(q) # {}
  /\ \A k \in PoolKeys : life = "serving" => Few(Opened(k))
  /\ life = "closed" => LostPoolsAreFew

IInv == TypeOK /\ SerialStages /\ Provenance /\ PoolHolding /\ PoolCount

-----------------------------------------------------------------------------

\* The initial state satisfies the inductive invariant.
LEMMA InitInv == Init => IInv
<1> SUFFICES ASSUME Init PROVE IInv
  OBVIOUS
<1>1. TypeOK /\ SerialStages /\ Provenance /\ PoolHolding
  BY RuntimeAssumption
  DEF Init, TypeOK, SerialStages, Provenance, PoolHolding, NoCall, NoPool, Calls, Holding, PoolUse
<1>2. \A k \in PoolKeys : Opened(k) = {}
  BY DEF Init, Opened, NoPool
<1>3. Few({})
  BY RuntimeAssumption, FS_EmptySet, FS_CardinalityType DEF Few
<1>4. PoolCount
  BY <1>2, <1>3 DEF Init, PoolCount, NoPool
<1> QED
  BY <1>1, <1>4 DEF IInv

\* A handler that has been given a planner or a pool has one.
LEMMA CallFields ==
  ASSUME NEW r \in Calls
  PROVE  /\ r.id \in Ids \cup {None}
         /\ r.read \in Metrics \cup {None}
         /\ r.planner \in Planners \cup {None}
         /\ r.pool \in Pools \cup {None}
         /\ r.at = "building" => r.scenario \in Scenarios
         /\ r.at \in Holding \ PoolUse => r.planner \in Planners
         /\ r.at \in {"starting", "extracting"} => r.pool \in Pools
<1>1. r \in [at : {"over", "forgetting", "building"} \cup Holding,
             id : Ids \cup {None}, scenario : Scenarios \cup {None},
             planner : Planners \cup {None}, read : Metrics \cup {None},
             pool : Pools \cup {None}]
  BY DEF Calls
<1>2. /\ r.at = "building" => r.scenario # None
      /\ r.at \in Holding \ PoolUse => r.planner # None
      /\ r.at \in {"starting", "extracting"} => r.pool # None
  BY DEF Calls
<1> QED
  BY <1>1, <1>2

\* A handler that returns holds nothing.
LEMMA NoCallType == NoCall \in Calls
  BY DEF NoCall, Calls, Holding, PoolUse

\* Every step keeps the record of each handler well formed: it goes on with what
\* it was given.
LEMMA NextCalls == TypeOK /\ [Next]_vars => call' \in [Callers -> Calls]
<1> SUFFICES ASSUME TypeOK, [Next]_vars PROVE call' \in [Callers -> Calls]
  OBVIOUS
<1> USE RuntimeAssumption, NoCallType
<1>0. \A c \in Callers : call[c] \in Calls
  BY DEF TypeOK
<1>1. ASSUME NEW c \in Callers, NEW i \in Ids, Define(c, i) PROVE call' \in [Callers -> Calls]
  <2>1. [call[c] EXCEPT !.at = "forgetting", !.id = i] \in Calls
    BY <1>0, <1>1 DEF Define, Begins, NoCall, Calls, Holding, PoolUse
  <2> QED
    BY <1>1, <2>1 DEF TypeOK, Define
<1>2. ASSUME NEW c \in Callers, NEW i \in Ids, Delete(c, i) PROVE call' \in [Callers -> Calls]
  <2>1. [call[c] EXCEPT !.at = "forgetting", !.id = i] \in Calls
    BY <1>0, <1>2 DEF Delete, Begins, NoCall, Calls, Holding, PoolUse
  <2> QED
    BY <1>2, <2>1 DEF TypeOK, Delete
<1>3. ASSUME NEW c \in Callers, NEW i \in Ids, BuildRead(c, i) PROVE call' \in [Callers -> Calls]
  <2>0. scenarios[i] \in Scenarios
    BY <1>3 DEF BuildRead, TypeOK
  <2>1. [call[c] EXCEPT !.at = "building", !.id = i, !.scenario = scenarios[i]] \in Calls
    BY <2>0, <1>0, <1>3 DEF BuildRead, Begins, NoCall, Calls, Holding, PoolUse
  <2> QED
    BY <1>3, <2>1 DEF TypeOK, BuildRead
<1>4. ASSUME NEW c \in Callers, NEW i \in Ids, ReadPlanner(c, i) PROVE call' \in [Callers -> Calls]
  <2>0. planners[i] \in Planners
    BY <1>4 DEF ReadPlanner, TypeOK
  <2>1. PICK at \in {"assigning", "pooling", "solving"} :
          call' = [call EXCEPT ![c].at = at, ![c].id = i, ![c].planner = planners[i]]
    BY <1>4 DEF ReadPlanner
  <2>2. [call[c] EXCEPT !.at = at, !.id = i, !.planner = planners[i]] \in Calls
    BY <2>0, <1>0, <1>4 DEF ReadPlanner, Begins, NoCall, Calls, Holding, PoolUse
  <2> QED
    BY <2>1, <2>2 DEF TypeOK
<1>5. ASSUME NEW c \in Callers, ForgetPlanner(c) PROVE call' \in [Callers -> Calls]
  BY <1>5 DEF TypeOK, ForgetPlanner, Returns
<1>6. ASSUME NEW c \in Callers, BuildStore(c) PROVE call' \in [Callers -> Calls]
  BY <1>6 DEF TypeOK, BuildStore, Returns
<1>7. ASSUME NEW c \in Callers, BuildFails(c) PROVE call' \in [Callers -> Calls]
  BY <1>7 DEF TypeOK, BuildFails, Returns
<1>8. ASSUME NEW c \in Callers, RunWorkflow(c) PROVE call' \in [Callers -> Calls]
  <2>1. [call[c] EXCEPT !.at = "pooling"] \in Calls
    BY <1>0, <1>8 DEF RunWorkflow, Goes, NoCall, Calls, Holding, PoolUse
  <2> QED
    BY <1>8, <2>1 DEF TypeOK, RunWorkflow, Goes
<1>9. ASSUME NEW c \in Callers, Assign(c) PROVE call' \in [Callers -> Calls]
  BY <1>9 DEF TypeOK, Assign, Returns
<1>10. ASSUME NEW c \in Callers, GetPool(c) PROVE call' \in [Callers -> Calls]
  <2>1. \A q \in Pools, at \in {"starting", "extracting"} :
          [call[c] EXCEPT !.at = at, !.pool = q] \in Calls
    BY <1>0, <1>10 DEF GetPool, Calls, Holding, PoolUse
  <2>2. PICK k \in PoolKeys :
          \/ /\ geoPools[k] # None
             /\ call' = [call EXCEPT ![c].at = "extracting", ![c].pool = geoPools[k]]
          \/ \E q \in Pools : call' = [call EXCEPT ![c].at = "starting", ![c].pool = q]
    BY <1>10 DEF GetPool
  <2>3. CASE geoPools[k] # None /\ call' = [call EXCEPT ![c].at = "extracting", ![c].pool = geoPools[k]]
    <3>1. geoPools[k] \in Pools
      BY <2>3 DEF TypeOK
    <3>2. [call[c] EXCEPT !.at = "extracting", !.pool = geoPools[k]] \in Calls
      BY <2>1, <3>1
    <3> QED
      BY <2>3, <3>2 DEF TypeOK
  <2>4. CASE \E q \in Pools : call' = [call EXCEPT ![c].at = "starting", ![c].pool = q]
    <3>1. PICK q \in Pools : call' = [call EXCEPT ![c].at = "starting", ![c].pool = q]
      BY <2>4
    <3>2. [call[c] EXCEPT !.at = "starting", !.pool = q] \in Calls
      BY <2>1
    <3> QED
      BY <3>1, <3>2 DEF TypeOK
  <2> QED
    BY <2>2, <2>3, <2>4
<1>11. ASSUME NEW c \in Callers, PoolStarted(c) PROVE call' \in [Callers -> Calls]
  <2>1. [call[c] EXCEPT !.at = "extracting"] \in Calls
    BY <1>0, <1>11 DEF PoolStarted, Calls, Holding, PoolUse
  <2> QED
    BY <1>11, <2>1 DEF TypeOK, PoolStarted, Goes
<1>12. ASSUME NEW c \in Callers, PoolFails(c) PROVE call' \in [Callers -> Calls]
  BY <1>12 DEF TypeOK, PoolFails, Returns
<1>13. ASSUME NEW c \in Callers, StoreMetrics(c) PROVE call' \in [Callers -> Calls]
  BY <1>13 DEF TypeOK, StoreMetrics, Returns
<1>14. ASSUME NEW c \in Callers, ExtractFails(c) PROVE call' \in [Callers -> Calls]
  BY <1>14 DEF TypeOK, ExtractFails, Returns
<1>15. ASSUME NEW c \in Callers, SolveRead(c) PROVE call' \in [Callers -> Calls]
  <2>1. CASE metrics[call[c].planner] = None
    BY <1>15, <2>1 DEF TypeOK, SolveRead, Returns
  <2>2. CASE ~(metrics[call[c].planner] = None)
    <3>1. call[c].planner \in Planners
      BY <1>0, <1>15, CallFields DEF SolveRead, Holding, PoolUse
    <3>2. metrics[call[c].planner] \in Metrics
      BY <2>2, <3>1 DEF TypeOK
    <3>3. [call[c] EXCEPT !.at = "copying", !.read = metrics[call[c].planner]] \in Calls
      BY <1>0, <3>1, <3>2 DEF Calls, Holding, PoolUse
    <3> QED
      BY <1>15, <2>2, <3>3 DEF TypeOK, SolveRead
  <2> QED
    BY <2>1, <2>2
<1>16. ASSUME NEW c \in Callers, SolveWrite(c) PROVE call' \in [Callers -> Calls]
  <2>1. [call[c] EXCEPT !.at = "copied"] \in Calls
    BY <1>0, <1>16 DEF SolveWrite, Calls, Holding, PoolUse
  <2> QED
    BY <1>16, <2>1 DEF TypeOK, SolveWrite, Goes
<1>17. ASSUME NEW c \in Callers, SolveLoad(c) PROVE call' \in [Callers -> Calls]
  <2>1. CASE metrics[call[c].planner] \in Rejected \cup {None}
    BY <1>17, <2>1 DEF TypeOK, SolveLoad, Returns
  <2>2. CASE ~(metrics[call[c].planner] \in Rejected \cup {None})
    <3>1. call[c].planner \in Planners
      BY <1>0, <1>17, CallFields DEF SolveLoad, Holding, PoolUse
    <3>2. metrics[call[c].planner] \in Metrics
      BY <2>2, <3>1 DEF TypeOK
    <3>3. [call[c] EXCEPT !.at = "running", !.read = metrics[call[c].planner]] \in Calls
      BY <1>0, <3>1, <3>2 DEF Calls, Holding, PoolUse
    <3> QED
      BY <1>17, <2>2, <3>3 DEF TypeOK, SolveLoad
  <2> QED
    BY <2>1, <2>2
<1>18. ASSUME NEW c \in Callers, SolveEnd(c) PROVE call' \in [Callers -> Calls]
  BY <1>18 DEF TypeOK, SolveEnd, Returns
<1>19. CASE Shutdown
  BY <1>19 DEF TypeOK, Shutdown
<1>20. CASE UNCHANGED vars
  BY <1>20 DEF TypeOK, vars
<1> QED
  BY <1>1, <1>2, <1>3, <1>4, <1>5, <1>6, <1>7, <1>8, <1>9, <1>10, 
     <1>11, <1>12, <1>13, <1>14, <1>15, <1>16, <1>17, <1>18, <1>19, <1>20
  DEF Next, Stage

\* Every step keeps the types.
LEMMA NextTypes == TypeOK /\ [Next]_vars => TypeOK'
<1> SUFFICES ASSUME TypeOK, [Next]_vars PROVE TypeOK'
  OBVIOUS
<1> USE RuntimeAssumption DEF plannerVars, poolVars
<1>0. call' \in [Callers -> Calls]
  BY NextCalls
<1>00. \A c \in Callers : call[c] \in Calls
  BY DEF TypeOK
<1>1. ASSUME NEW c \in Callers, NEW i \in Ids,
             Define(c, i) \/ Delete(c, i) \/ BuildRead(c, i) \/ ReadPlanner(c, i)
      PROVE  TypeOK'
  <2>1. scenarios' \in [Ids -> Scenarios \cup {None}]
    BY <1>1 DEF TypeOK, Define, Delete, BuildRead, ReadPlanner
  <2> QED
    BY <1>0, <1>1, <2>1 DEF TypeOK, Define, Delete, BuildRead, ReadPlanner
<1>2. ASSUME NEW c \in Callers, ForgetPlanner(c) PROVE TypeOK'
  BY <1>0, <1>2 DEF TypeOK, ForgetPlanner
<1>3. ASSUME NEW c \in Callers, BuildStore(c) PROVE TypeOK'
  <2>1. PICK p \in Planners :
          /\ planners' = [planners EXCEPT ![call[c].id] = p]
          /\ origin' = [origin EXCEPT ![p] = call[c].scenario]
          /\ metrics' = [metrics EXCEPT ![p] = None]
          /\ network' = [network EXCEPT ![p] = None]
          /\ saved' = [saved EXCEPT ![p] = {}]
    BY <1>3 DEF BuildStore
  <2>2. call[c].scenario \in Scenarios
    BY <1>00, <1>3, CallFields DEF BuildStore
  <2>3. UNCHANGED <<scenarios, geoPools, pool, life>>
    BY <1>3 DEF BuildStore
  <2>4. saved' \in [Planners -> SUBSET (Metrics \cup {None})]
    BY <2>1 DEF TypeOK
  <2>5. /\ planners' \in [Ids -> Planners \cup {None}]
        /\ origin' \in [Planners -> Scenarios \cup {None}]
        /\ metrics' \in [Planners -> Metrics \cup {None}]
        /\ network' \in [Planners -> Metrics \cup {None}]
    BY <2>1, <2>2 DEF TypeOK
  <2> QED
    BY <1>0, <2>3, <2>4, <2>5 DEF TypeOK
<1>4. ASSUME NEW c \in Callers,
             BuildFails(c) \/ RunWorkflow(c) \/ ExtractFails(c) \/ SolveRead(c) \/ SolveLoad(c)
      PROVE  TypeOK'
  <2>1. UNCHANGED <<scenarios, planners, plannerVars, poolVars, life>>
    BY <1>4 DEF BuildFails, RunWorkflow, ExtractFails, SolveRead, SolveLoad
  <2> QED
    BY <1>0, <2>1 DEF TypeOK
<1>5. ASSUME NEW c \in Callers, Assign(c) \/ StoreMetrics(c) PROVE TypeOK'
  <2>1. UNCHANGED <<scenarios, planners, origin, network, geoPools, pool, life>>
    BY <1>5 DEF Assign, StoreMetrics
  <2>2. \/ UNCHANGED <<metrics, saved>>
        \/ \E m \in Metrics \cup {None} :
             /\ metrics' = [metrics EXCEPT ![call[c].planner] = m]
             /\ saved' = [saved EXCEPT ![call[c].planner] = @ \cup {m}]
    BY <1>5 DEF Assign, StoreMetrics
  <2>3. metrics' \in [Planners -> Metrics \cup {None}]
    BY <2>2 DEF TypeOK
  <2>4. saved' \in [Planners -> SUBSET (Metrics \cup {None})]
    BY <2>2 DEF TypeOK
  <2> QED
    BY <1>0, <2>1, <2>3, <2>4 DEF TypeOK
<1>6. ASSUME NEW c \in Callers, GetPool(c) PROVE TypeOK'
  <2>1. UNCHANGED <<scenarios, planners, plannerVars, geoPools, life>>
    BY <1>6 DEF GetPool
  <2>2. \/ UNCHANGED pool
        \/ \E k \in PoolKeys, q \in Pools : pool' = [pool EXCEPT ![q] = [at |-> "starting", key |-> k]]
    BY <1>6 DEF GetPool
  <2>3. pool' \in [Pools -> [at : {"none", "starting", "open", "closed"},
                             key : PoolKeys \cup {None}]]
    BY <2>2 DEF TypeOK
  <2> QED
    BY <1>0, <2>1, <2>3 DEF TypeOK
<1>7. ASSUME NEW c \in Callers, PoolStarted(c) \/ PoolFails(c) PROVE TypeOK'
  <2>1. call[c].pool \in Pools
    BY <1>00, <1>7, CallFields DEF PoolStarted, PoolFails
  <2>2. UNCHANGED <<scenarios, planners, plannerVars, life>>
    BY <1>7 DEF PoolStarted, PoolFails
  <2>3. pool' \in [Pools -> [at : {"none", "starting", "open", "closed"},
                             key : PoolKeys \cup {None}]]
    BY <1>7, <2>1 DEF TypeOK, PoolStarted, PoolFails, NoPool
  <2>4. geoPools' \in [PoolKeys -> Pools \cup {None}]
    BY <1>7, <2>1 DEF TypeOK, PoolStarted, PoolFails
  <2> QED
    BY <1>0, <2>2, <2>3, <2>4 DEF TypeOK
<1>8. ASSUME NEW c \in Callers, SolveWrite(c) \/ SolveEnd(c) PROVE TypeOK'
  <2>1. call[c].read \in Metrics \cup {None}
    BY <1>00, CallFields
  <2>2. UNCHANGED <<scenarios, planners, origin, saved, geoPools, pool, life>>
    BY <1>8 DEF SolveWrite, SolveEnd
  <2>3. /\ metrics' \in [Planners -> Metrics \cup {None}]
        /\ network' \in [Planners -> Metrics \cup {None}]
    BY <1>8, <2>1 DEF TypeOK, SolveWrite, SolveEnd
  <2> QED
    BY <1>0, <2>2, <2>3 DEF TypeOK
<1>9. CASE Shutdown
  <2>1. pool' \in [Pools -> [at : {"none", "starting", "open", "closed"},
                             key : PoolKeys \cup {None}]]
    BY <1>9 DEF TypeOK, Shutdown
  <2> QED
    BY <1>0, <1>9, <2>1 DEF TypeOK, Shutdown
<1>10. CASE UNCHANGED vars
  BY <1>0, <1>10 DEF TypeOK, vars
<1> QED
  BY <1>1, <1>2, <1>3, <1>4, <1>5, <1>6, <1>7, <1>8, <1>9, <1>10 DEF Next, Stage

\* What a step of a handler that has begun does to the handlers: the others stay
\* where they are, and it returns or goes on with its id and its planner.
LEMMA StageCalls ==
  ASSUME TypeOK, NEW c \in Callers, Stage(c)
  PROVE  /\ \A d \in Callers \ {c} : call'[d] = call[d]
         /\ \/ call'[c] = NoCall
            \/ /\ call'[c].id = call[c].id
               /\ call'[c].planner = call[c].planner
               /\ call'[c].at \in Holding
               /\ call[c].at \notin {"forgetting", "building"}
<1>0. /\ call \in [Callers -> Calls]
      /\ call[c] \in [at : {"over", "forgetting", "building"} \cup Holding,
                      id : Ids \cup {None}, scenario : Scenarios \cup {None},
                      planner : Planners \cup {None}, read : Metrics \cup {None},
                      pool : Pools \cup {None}]
  BY DEF TypeOK, Calls
<1>1. CASE call' = [call EXCEPT ![c] = NoCall]
  BY <1>0, <1>1
<1>2. CASE RunWorkflow(c)
  BY <1>0, <1>2 DEF RunWorkflow, Goes, Holding, PoolUse, NoCall
<1>3. CASE GetPool(c)
  BY <1>0, <1>3 DEF GetPool, Holding, PoolUse
<1>4. CASE PoolStarted(c)
  BY <1>0, <1>4 DEF PoolStarted, Goes, Holding, PoolUse
<1>5. CASE SolveRead(c) \/ SolveLoad(c)
  BY <1>0, <1>5 DEF SolveRead, SolveLoad, Returns, Holding, PoolUse
<1>6. CASE SolveWrite(c)
  BY <1>0, <1>6 DEF SolveWrite, Goes, Holding, PoolUse
<1> QED
  BY <1>1, <1>2, <1>3, <1>4, <1>5, <1>6
  DEF Stage, Returns, ForgetPlanner, BuildStore, BuildFails, Assign, PoolFails, StoreMetrics,
      ExtractFails, SolveEnd

-----------------------------------------------------------------------------

\* The handlers of a serial id are as SerialStages says after every step.
LEMMA NextSerial == TypeOK /\ SerialStages /\ [Next]_vars => SerialStages'
<1> SUFFICES ASSUME TypeOK, SerialStages, [Next]_vars,
                    NEW i \in Serial
             PROVE  /\ \A c, d \in Callers : call'[c].id = i /\ call'[d].id = i => c = d
                    /\ \A c \in Callers :
                         call'[c].id = i /\ call'[c].at = "building" => call'[c].scenario = scenarios'[i]
                    /\ \/ \E c \in Callers : call'[c].id = i /\ call'[c].at = "forgetting"
                       \/ planners'[i] # None => origin'[planners'[i]] = scenarios'[i]
  BY DEF SerialStages
<1> DEFINE Alone == \A c, d \in Callers : call[c].id = i /\ call[d].id = i => c = d
           Read == \A c \in Callers :
                     call[c].id = i /\ call[c].at = "building" => call[c].scenario = scenarios[i]
           Current == \/ \E c \in Callers : call[c].id = i /\ call[c].at = "forgetting"
                      \/ planners[i] # None => origin[planners[i]] = scenarios[i]
<1> SUFFICES Alone' /\ Read' /\ Current'
  OBVIOUS
<1>0. /\ Alone /\ Read /\ Current
      /\ i \in Ids /\ i # None /\ NoCall.id # i
      /\ call \in [Callers -> Calls]
  BY RuntimeAssumption DEF SerialStages, TypeOK, NoCall
<1>1. ASSUME NEW c \in Callers, NEW j \in Ids, Define(c, j) \/ Delete(c, j)
      PROVE  Alone' /\ Read' /\ Current'
  <2>1. /\ call[c] = NoCall
        /\ j = i => \A d \in Callers : call[d].id # i
        /\ \A d \in Callers \ {c} : call'[d] = call[d]
        /\ UNCHANGED <<planners, origin>>
    BY <1>0, <1>1 DEF Define, Delete, Begins, plannerVars
  <2>2. call'[c].id = j /\ call'[c].at = "forgetting"
    BY <1>0, <1>1 DEF Define, Delete, Calls
  <2>3. j # i => scenarios'[i] = scenarios[i]
    BY <1>0, <1>1 DEF Define, Delete, TypeOK
  <2>4. CASE j = i
    BY <2>1, <2>2, <2>4
  <2>5. CASE j # i
    BY <1>0, <2>1, <2>2, <2>3, <2>5
  <2> QED
    BY <2>4, <2>5
<1>2. ASSUME NEW c \in Callers, NEW j \in Ids, BuildRead(c, j) \/ ReadPlanner(c, j)
      PROVE  Alone' /\ Read' /\ Current'
  <2>1. /\ call[c] = NoCall
        /\ j = i => \A d \in Callers : call[d].id # i
        /\ \A d \in Callers \ {c} : call'[d] = call[d]
        /\ UNCHANGED <<scenarios, planners, origin>>
    BY <1>0, <1>2 DEF BuildRead, ReadPlanner, Begins, plannerVars
  <2>2. /\ call'[c].id = j
        /\ call'[c].at = "building" => call'[c].scenario = scenarios[j]
    BY <1>0, <1>2 DEF BuildRead, ReadPlanner, Calls
  <2> QED
    BY <1>0, <2>1, <2>2
<1>3. ASSUME NEW c \in Callers, ForgetPlanner(c)
      PROVE  Alone' /\ Read' /\ Current'
  <2>1. /\ call'[c] = NoCall
        /\ \A d \in Callers \ {c} : call'[d] = call[d]
        /\ planners'[call[c].id] # None => call[c].id \notin Ids
        /\ call[c].id # i => planners'[i] = planners[i]
        /\ UNCHANGED <<scenarios, origin>>
    BY <1>0, <1>3 DEF ForgetPlanner, Returns, plannerVars, TypeOK
  <2>2. Alone' /\ Read'
    BY <1>0, <2>1
  <2>3. CASE call[c].id = i
    BY <1>0, <2>1, <2>3
  <2>4. CASE call[c].id # i
    BY <1>0, <2>1, <2>4
  <2> QED
    BY <2>2, <2>3, <2>4
<1>4. ASSUME NEW c \in Callers, BuildStore(c)
      PROVE  Alone' /\ Read' /\ Current'
  <2>1. PICK p \in Planners \ LivePlanners :
          /\ planners' = [planners EXCEPT ![call[c].id] = p]
          /\ origin' = [origin EXCEPT ![p] = call[c].scenario]
    BY <1>4 DEF BuildStore
  <2>2. /\ call[c].at = "building"
        /\ call'[c] = NoCall
        /\ \A d \in Callers \ {c} : call'[d] = call[d]
        /\ UNCHANGED scenarios
    BY <1>0, <1>4 DEF BuildStore, Returns
  <2>3. Alone' /\ Read'
    BY <1>0, <2>2
  <2>4. CASE call[c].id = i
    <3>1. planners'[i] = p /\ origin'[p] = scenarios[i]
      BY <1>0, <2>1, <2>2, <2>4 DEF TypeOK
    <3> QED
      BY <2>2, <2>3, <3>1
  <2>5. CASE call[c].id # i
    <3>1. planners'[i] = planners[i] /\ planners[i] # p
      BY <1>0, <2>1, <2>5 DEF TypeOK, LivePlanners
    <3>2. origin'[planners[i]] = origin[planners[i]]
      BY <2>1, <3>1 DEF TypeOK
    <3> QED
      BY <1>0, <2>2, <3>1, <3>2
  <2> QED
    BY <2>3, <2>4, <2>5
<1>5. ASSUME NEW c \in Callers, Stage(c), ~ForgetPlanner(c), ~BuildStore(c)
      PROVE  Alone' /\ Read' /\ Current'
  <2>1. UNCHANGED <<scenarios, planners, origin>>
    BY <1>5 DEF Stage, plannerVars, BuildFails, RunWorkflow, Assign, GetPool, PoolStarted,
                PoolFails, StoreMetrics, ExtractFails, SolveRead, SolveWrite, SolveLoad, SolveEnd
  <2>2. call[c].at # "forgetting"
    BY <1>5 DEF Stage, BuildFails, RunWorkflow, Assign, GetPool, PoolStarted, PoolFails,
                StoreMetrics, ExtractFails, SolveRead, SolveWrite, SolveLoad, SolveEnd, NoCall
  <2>3. /\ \A d \in Callers \ {c} : call'[d] = call[d]
        /\ \/ call'[c] = NoCall
           \/ call'[c].id = call[c].id /\ call'[c].at # "building"
    BY <1>5, StageCalls DEF Holding, PoolUse
  <2> QED
    BY <1>0, <2>1, <2>2, <2>3
<1>6. CASE Shutdown
  BY <1>0, <1>6 DEF Shutdown, plannerVars
<1>7. CASE UNCHANGED vars
  BY <1>0, <1>7 DEF vars, plannerVars
<1> QED
  BY <1>1, <1>2, <1>3, <1>4, <1>5, <1>6, <1>7 DEF Next

-----------------------------------------------------------------------------

\* Every step keeps the provenance of metrics and networks.
LEMMA NextProvenance == TypeOK /\ Provenance /\ [Next]_vars => Provenance'
<1> SUFFICES ASSUME TypeOK, Provenance, [Next]_vars PROVE Provenance'
  OBVIOUS
<1> DEFINE Copying(c) == call[c].at = "copying" => call[c].read \in saved[call[c].planner]
           Running(c) == call[c].at = "running" => call[c].read \in saved[call[c].planner] \ Rejected
           Kept(p) == /\ metrics[p] \in saved[p] \cup {None}
                      /\ network[p] \in (saved[p] \cup {None}) \ Rejected
<1>0. /\ \A p \in Planners : Kept(p)
      /\ \A c \in Callers : Copying(c) /\ Running(c)
      /\ \A c \in Callers : call[c] \in Calls
      /\ call \in [Callers -> Calls]
      /\ None \notin Rejected
  BY RuntimeAssumption DEF Provenance, TypeOK
<1>1. ASSUME NEW c \in Callers, UNCHANGED <<metrics, network, saved>>,
             \A d \in Callers \ {c} : call'[d] = call[d],
             call'[c].at \notin {"copying", "running"}
      PROVE  Provenance'
  BY <1>0, <1>1 DEF Provenance
<1>2. ASSUME NEW c \in Callers, NEW j \in Ids,
             Define(c, j) \/ Delete(c, j) \/ BuildRead(c, j) \/ ReadPlanner(c, j)
      PROVE  Provenance'
  <2>1. /\ UNCHANGED <<metrics, network, saved>>
        /\ \A d \in Callers \ {c} : call'[d] = call[d]
    BY <1>0, <1>2 DEF Define, Delete, BuildRead, ReadPlanner, plannerVars
  <2>2. call'[c].at \in {"forgetting", "building", "assigning", "pooling", "solving"}
    BY <1>0, <1>2 DEF Define, Delete, BuildRead, ReadPlanner, Calls
  <2> QED
    BY <1>1, <2>1, <2>2
<1>3. ASSUME NEW c \in Callers,
             \/ ForgetPlanner(c) \/ BuildFails(c) \/ RunWorkflow(c) \/ GetPool(c)
             \/ PoolStarted(c) \/ PoolFails(c) \/ ExtractFails(c)
      PROVE  Provenance'
  <2>1. UNCHANGED <<metrics, network, saved>>
    BY <1>3 DEF ForgetPlanner, BuildFails, RunWorkflow, GetPool, PoolStarted, PoolFails,
                ExtractFails, plannerVars
  <2>2. \A d \in Callers \ {c} : call'[d] = call[d]
    BY <1>3, StageCalls DEF Stage
  <2>3. call'[c].at \notin {"copying", "running"}
    BY <1>0, <1>3 DEF ForgetPlanner, BuildFails, RunWorkflow, GetPool, PoolStarted, PoolFails,
                      ExtractFails, Returns, Goes, NoCall, Calls
  <2> QED
    BY <1>1, <2>1, <2>2, <2>3
<1>4. ASSUME NEW c \in Callers, BuildStore(c) PROVE Provenance'
  <2>1. PICK p \in Planners \ LivePlanners :
          /\ metrics' = [metrics EXCEPT ![p] = None]
          /\ network' = [network EXCEPT ![p] = None]
          /\ saved' = [saved EXCEPT ![p] = {}]
    BY <1>4 DEF BuildStore
  <2>2. call'[c] = NoCall /\ \A d \in Callers \ {c} : call'[d] = call[d]
    BY <1>0, <1>4 DEF BuildStore, Returns
  <2>3. \A q \in Planners : Kept(q)'
    BY <1>0, <2>1 DEF TypeOK
  <2>4. ASSUME NEW d \in Callers PROVE (Copying(d) /\ Running(d))'
    <3>1. CASE d = c
      BY <2>2, <3>1 DEF NoCall
    <3>2. CASE d # c /\ call[d].at \in {"copying", "running"}
      <4>1. call[d].planner \in Planners \ {p}
        BY <1>0, <2>1, <3>2, CallFields DEF LivePlanners, Holding, PoolUse
      <4>2. saved'[call[d].planner] = saved[call[d].planner]
        BY <2>1, <4>1 DEF TypeOK
      <4> QED
        BY <1>0, <2>2, <3>2, <4>2
    <3> QED
      BY <2>2, <3>1, <3>2
  <2> QED
    BY <2>3, <2>4 DEF Provenance
<1>5. ASSUME NEW c \in Callers, Assign(c) \/ StoreMetrics(c) PROVE Provenance'
  <2>1. UNCHANGED network
    BY <1>5 DEF Assign, StoreMetrics
  <2>2. \/ UNCHANGED <<metrics, saved>>
        \/ \E m \in Metrics \cup {None} :
             /\ metrics' = [metrics EXCEPT ![call[c].planner] = m]
             /\ saved' = [saved EXCEPT ![call[c].planner] = @ \cup {m}]
    BY <1>5 DEF Assign, StoreMetrics
  <2>3. call'[c] = NoCall /\ \A d \in Callers \ {c} : call'[d] = call[d]
    BY <1>0, <1>5 DEF Assign, StoreMetrics, Returns
  <2>4. \A p \in Planners : /\ saved[p] \subseteq saved'[p]
                            /\ metrics'[p] \in saved'[p] \cup {None}
    BY <1>0, <2>2 DEF TypeOK
  <2>5. \A p \in Planners : Kept(p)'
    BY <1>0, <2>1, <2>4
  <2>6. ASSUME NEW d \in Callers PROVE (Copying(d) /\ Running(d))'
    <3>1. CASE d = c
      BY <2>3, <3>1 DEF NoCall
    <3>2. CASE d # c /\ call[d].at \in {"copying", "running"}
      <4>1. call[d].planner \in Planners
        BY <1>0, <3>2, CallFields DEF Holding, PoolUse
      <4> QED
        BY <1>0, <2>3, <2>4, <3>2, <4>1
    <3> QED
      BY <2>3, <3>1, <3>2
  <2> QED
    BY <2>5, <2>6 DEF Provenance
<1>6. ASSUME NEW c \in Callers, SolveRead(c) \/ SolveLoad(c) PROVE Provenance'
  <2>1. /\ UNCHANGED <<metrics, network, saved>>
        /\ \A d \in Callers \ {c} : call'[d] = call[d]
        /\ call[c].planner \in Planners
    BY <1>0, <1>6, StageCalls, CallFields
    DEF Stage, SolveRead, SolveLoad, plannerVars, Holding, PoolUse
  <2>2. \/ call'[c].at \notin {"copying", "running"}
        \/ /\ call'[c].planner = call[c].planner
           /\ call'[c].read = metrics[call[c].planner]
           /\ call'[c].read # None
           /\ call'[c].at = "running" => call'[c].read \notin Rejected
    BY <1>0, <1>6 DEF SolveRead, SolveLoad, Returns, NoCall, Calls
  <2>3. (Copying(c) /\ Running(c))'
    BY <1>0, <2>1, <2>2
  <2> QED
    BY <1>0, <2>1, <2>3 DEF Provenance
<1>7. ASSUME NEW c \in Callers, SolveWrite(c) PROVE Provenance'
  <2>1. /\ UNCHANGED <<network, saved>>
        /\ metrics' = [metrics EXCEPT ![call[c].planner] = call[c].read]
        /\ \A d \in Callers \ {c} : call'[d] = call[d]
        /\ call'[c].at = "copied"
    BY <1>0, <1>7 DEF SolveWrite, Goes, Calls
  <2>2. call[c].read \in saved[call[c].planner]
    BY <1>0, <1>7 DEF SolveWrite
  <2>3. \A p \in Planners : Kept(p)'
    BY <1>0, <2>1, <2>2 DEF TypeOK
  <2> QED
    BY <1>0, <2>1, <2>3 DEF Provenance
<1>8. ASSUME NEW c \in Callers, SolveEnd(c) PROVE Provenance'
  <2>1. /\ UNCHANGED <<metrics, saved>>
        /\ network' = [network EXCEPT ![call[c].planner] = call[c].read]
        /\ \A d \in Callers \ {c} : call'[d] = call[d]
        /\ call'[c] = NoCall
    BY <1>0, <1>8 DEF SolveEnd, Returns
  <2>2. call[c].read \in saved[call[c].planner] \ Rejected
    BY <1>0, <1>8 DEF SolveEnd
  <2>3. \A p \in Planners : Kept(p)'
    BY <1>0, <2>1, <2>2 DEF TypeOK
  <2> QED
    BY <1>0, <2>1, <2>3 DEF Provenance, NoCall
<1>9. CASE Shutdown
  BY <1>0, <1>9 DEF Shutdown, plannerVars, Provenance
<1>10. CASE UNCHANGED vars
  BY <1>0, <1>10 DEF vars, plannerVars, Provenance
<1> QED
  BY <1>2, <1>3, <1>4, <1>5, <1>6, <1>7, <1>8, <1>9, <1>10 DEF Next, Stage

-----------------------------------------------------------------------------

\* Every step keeps what becomes of a pool.
LEMMA NextPools == TypeOK /\ PoolHolding /\ [Next]_vars => PoolHolding'
<1> SUFFICES ASSUME TypeOK, PoolHolding, [Next]_vars PROVE PoolHolding'
  OBVIOUS
<1> DEFINE Held == /\ \A q \in Pools : pool[q].at = "open" => geoPools[pool[q].key] # None
                   /\ \A q \in Pools : pool[q].at \in {"starting", "open"} => pool[q].key # None
                   /\ \A k \in PoolKeys : geoPools[k] # None =>
                        pool[geoPools[k]].key = k /\ pool[geoPools[k]].at = "open"
           Starting(c) == call[c].at = "starting" => pool[call[c].pool].at = "starting"
           Apart(c, d) == call[c].at = "starting" /\ call[d].at = "starting"
                            /\ call[c].pool = call[d].pool => c = d
<1>0. /\ \A c \in Callers : call[c] \in Calls
      /\ call \in [Callers -> Calls]
      /\ \A c \in Callers : call[c].at = "starting" => call[c].pool \in Pools
      /\ life \in {"serving", "closed"}
  BY CallFields DEF TypeOK
<1>00. life = "serving" =>
         Held /\ (\A c \in Callers : Starting(c)) /\ (\A c, d \in Callers : Apart(c, d))
  BY DEF PoolHolding
<1>1. ASSUME NEW c \in Callers, life = "serving", UNCHANGED <<poolVars, life>>,
             \A d \in Callers \ {c} : call'[d] = call[d],
             call'[c].at # "starting"
      PROVE  PoolHolding'
  BY <1>0, <1>00, <1>1 DEF PoolHolding, poolVars
<1>2. ASSUME NEW c \in Callers, NEW j \in Ids,
             Define(c, j) \/ Delete(c, j) \/ BuildRead(c, j) \/ ReadPlanner(c, j)
      PROVE  PoolHolding'
  <2>1. /\ life = "serving"
        /\ UNCHANGED <<poolVars, life>>
        /\ \A d \in Callers \ {c} : call'[d] = call[d]
    BY <1>0, <1>2 DEF Define, Delete, BuildRead, ReadPlanner, Begins
  <2>2. call'[c].at \in {"forgetting", "building", "assigning", "pooling", "solving"}
    BY <1>0, <1>2 DEF Define, Delete, BuildRead, ReadPlanner, Calls
  <2> QED
    BY <1>1, <2>1, <2>2
<1>3. ASSUME NEW c \in Callers, Stage(c)
      PROVE  life = "serving" /\ UNCHANGED life
  <2>1. call[c] = NoCall => RunWorkflow(c)
    BY <1>3 DEF Stage, ForgetPlanner, BuildStore, BuildFails, Assign, GetPool, PoolStarted,
                PoolFails, StoreMetrics, ExtractFails, SolveRead, SolveWrite, SolveLoad,
                SolveEnd, NoCall
  <2>2. life = "serving"
    BY <1>0, <2>1 DEF RunWorkflow, PoolHolding
  <2> QED
    BY <1>3, <2>2
    DEF Stage, ForgetPlanner, BuildStore, BuildFails, RunWorkflow, Assign, GetPool, PoolStarted,
        PoolFails, StoreMetrics, ExtractFails, SolveRead, SolveWrite, SolveLoad, SolveEnd
<1>4. ASSUME NEW c \in Callers, Stage(c), ~GetPool(c), ~PoolStarted(c), ~PoolFails(c)
      PROVE  PoolHolding'
  <2>1. UNCHANGED poolVars
    BY <1>4 DEF Stage, ForgetPlanner, BuildStore, BuildFails, RunWorkflow, Assign, StoreMetrics,
                ExtractFails, SolveRead, SolveWrite, SolveLoad, SolveEnd
  <2>2. call'[c].at # "starting"
    <3>1. CASE call' = [call EXCEPT ![c] = NoCall]
      BY <1>0, <3>1 DEF NoCall
    <3>2. CASE RunWorkflow(c) \/ SolveRead(c) \/ SolveWrite(c) \/ SolveLoad(c)
      BY <1>0, <3>2 DEF RunWorkflow, SolveRead, SolveWrite, SolveLoad, Returns, Goes, NoCall, Calls
    <3> QED
      BY <1>4, <3>1, <3>2
      DEF Stage, ForgetPlanner, BuildStore, BuildFails, Assign, StoreMetrics, ExtractFails,
          SolveEnd, Returns
  <2> QED
    BY <1>1, <1>3, <1>4, <2>1, <2>2, StageCalls
<1>5. ASSUME NEW c \in Callers, GetPool(c) PROVE PoolHolding'
  <2>1. /\ life = "serving"
        /\ UNCHANGED <<geoPools, life>>
        /\ \A d \in Callers \ {c} : call'[d] = call[d]
    BY <1>3, <1>5, StageCalls DEF GetPool, Stage
  <2>2. \/ UNCHANGED pool /\ call'[c].at = "extracting"
        \/ \E k \in PoolKeys, q \in Pools :
             /\ pool[q] = NoPool
             /\ pool' = [pool EXCEPT ![q] = [at |-> "starting", key |-> k]]
             /\ call'[c].pool = q
    BY <1>0, <1>5 DEF GetPool, Calls
  <2>3. CASE UNCHANGED pool /\ call'[c].at = "extracting"
    BY <1>1, <2>1, <2>3 DEF poolVars
  <2>4. CASE ~(UNCHANGED pool /\ call'[c].at = "extracting")
    <3>1. PICK k \in PoolKeys, q \in Pools :
            /\ pool[q] = NoPool
            /\ pool' = [pool EXCEPT ![q] = [at |-> "starting", key |-> k]]
            /\ call'[c].pool = q
      BY <2>2, <2>4
    <3>2. /\ \A r \in Pools \ {q} : pool'[r] = pool[r]
          /\ pool'[q].at = "starting" /\ pool'[q].key = k
      BY <3>1 DEF TypeOK
    <3>3. \A d \in Callers \ {c} : call[d].at = "starting" => call[d].pool # q
      BY <1>00, <2>1, <3>1 DEF NoPool
    <3>4. \A d \in Callers : Starting(d)'
      BY <1>0, <1>00, <2>1, <3>1, <3>2, <3>3
    <3>5. \A d, e \in Callers : Apart(d, e)'
      BY <1>00, <2>1, <3>1, <3>3
    <3>6. Held'
      <4>1. \A r \in Pools : pool'[r].at = "open" => geoPools'[pool'[r].key] # None
        BY <1>00, <2>1, <3>2
      <4>2. \A r \in Pools : pool'[r].at \in {"starting", "open"} => pool'[r].key # None
        BY <1>00, <2>1, <3>2, RuntimeAssumption
      <4>3. ASSUME NEW l \in PoolKeys, geoPools'[l] # None
            PROVE  pool'[geoPools'[l]].key = l /\ pool'[geoPools'[l]].at = "open"
        <5>1. geoPools[l] \in Pools \ {q}
          BY <1>00, <2>1, <3>1, <4>3 DEF TypeOK, NoPool
        <5> QED
          BY <1>00, <2>1, <3>2, <4>3, <5>1
      <4> QED
        BY <4>1, <4>2, <4>3
    <3> QED
      BY <2>1, <3>4, <3>5, <3>6 DEF PoolHolding
  <2> QED
    BY <2>3, <2>4
<1>6. ASSUME NEW c \in Callers, PoolStarted(c) \/ PoolFails(c)
      PROVE  /\ life = "serving" /\ life' = "serving"
             /\ call[c].at = "starting" /\ call[c].pool \in Pools
             /\ pool[call[c].pool].key \in PoolKeys
             /\ \A d \in Callers : Starting(d)'
             /\ \A d, e \in Callers : Apart(d, e)'
  <2>1. /\ life = "serving" /\ life' = "serving"
        /\ \A d \in Callers \ {c} : call'[d] = call[d]
    BY <1>3, <1>6, StageCalls DEF Stage
  <2>2. call[c].at = "starting" /\ call'[c].at # "starting"
    BY <1>0, <1>6 DEF PoolStarted, PoolFails, Goes, Returns, NoCall, Calls
  <2>3. call[c].pool \in Pools /\ pool[call[c].pool].key \in PoolKeys
    BY <1>0, <1>00, <2>1, <2>2 DEF TypeOK
  <2>4. \A r \in Pools \ {call[c].pool} : pool'[r] = pool[r]
    BY <1>6, <2>3 DEF PoolStarted, PoolFails, TypeOK
  <2>5. \A d \in Callers : Starting(d)'
    BY <1>0, <1>00, <2>1, <2>2, <2>4
  <2>6. \A d, e \in Callers : Apart(d, e)'
    BY <1>00, <2>1, <2>2
  <2> QED
    BY <2>1, <2>2, <2>3, <2>5, <2>6
<1>7. ASSUME NEW c \in Callers, PoolStarted(c) PROVE PoolHolding'
  <2> DEFINE q == call[c].pool
             k == pool[q].key
  <2>1. life = "serving" /\ q \in Pools /\ k \in PoolKeys /\ pool[q].at = "starting"
    BY <1>00, <1>6, <1>7
  <2>2. /\ \A r \in Pools \ {q} : pool'[r] = pool[r]
        /\ pool'[q].at = "open" /\ pool'[q].key = k
        /\ \A l \in PoolKeys \ {k} : geoPools'[l] = geoPools[l]
        /\ geoPools'[k] = q
    BY <1>7, <2>1 DEF PoolStarted, TypeOK
  <2>3. \A l \in PoolKeys : geoPools[l] # q
    BY <1>00, <2>1, RuntimeAssumption DEF TypeOK
  <2>4. \A r \in Pools : pool'[r].at = "open" => geoPools'[pool'[r].key] # None
    <3>1. ASSUME NEW r \in Pools \ {q}, pool[r].at = "open" PROVE geoPools'[pool[r].key] # None
      <4>1. pool[r].key \in PoolKeys /\ geoPools[pool[r].key] # None
        BY <1>00, <2>1, <3>1 DEF TypeOK
      <4> QED
        BY <2>1, <2>2, <4>1, RuntimeAssumption
    <3> QED
      BY <2>1, <2>2, <3>1, RuntimeAssumption
  <2>5. \A r \in Pools : pool'[r].at \in {"starting", "open"} => pool'[r].key # None
    BY <1>00, <2>1, <2>2, RuntimeAssumption
  <2>6. ASSUME NEW l \in PoolKeys, geoPools'[l] # None
        PROVE  pool'[geoPools'[l]].key = l /\ pool'[geoPools'[l]].at = "open"
    <3>1. CASE l = k
      BY <2>2, <3>1
    <3>2. CASE l # k
      <4>1. geoPools[l] \in Pools \ {q}
        BY <2>2, <2>3, <2>6, <3>2 DEF TypeOK
      <4> QED
        BY <1>00, <2>1, <2>2, <2>6, <3>2, <4>1
    <3> QED
      BY <3>1, <3>2
  <2> QED
    BY <1>6, <1>7, <2>4, <2>5, <2>6 DEF PoolHolding
<1>8. ASSUME NEW c \in Callers, PoolFails(c) PROVE PoolHolding'
  <2> DEFINE q == call[c].pool
  <2>1. life = "serving" /\ q \in Pools /\ pool[q].at = "starting"
    BY <1>00, <1>6, <1>8
  <2>2. /\ \A r \in Pools \ {q} : pool'[r] = pool[r]
        /\ pool'[q].at = "none"
        /\ UNCHANGED geoPools
    BY <1>8, <2>1 DEF PoolFails, TypeOK, NoPool
  <2>3. \A l \in PoolKeys : geoPools[l] # q
    BY <1>00, <2>1, RuntimeAssumption DEF TypeOK
  <2>4. /\ \A r \in Pools : pool'[r].at = "open" => geoPools'[pool'[r].key] # None
        /\ \A r \in Pools : pool'[r].at \in {"starting", "open"} => pool'[r].key # None
    BY <1>00, <2>1, <2>2
  <2>5. ASSUME NEW l \in PoolKeys, geoPools'[l] # None
        PROVE  pool'[geoPools'[l]].key = l /\ pool'[geoPools'[l]].at = "open"
    <3>1. geoPools[l] \in Pools \ {q}
      BY <2>2, <2>3, <2>5 DEF TypeOK
    <3> QED
      BY <1>00, <2>1, <2>2, <2>5, <3>1
  <2> QED
    BY <1>6, <1>8, <2>4, <2>5 DEF PoolHolding
<1>9. CASE Shutdown
  <2>1. /\ life = "serving" /\ life' = "closed"
        /\ \A c \in Callers : call'[c] = NoCall
    BY <1>9 DEF Shutdown
  <2> QED
    BY <2>1 DEF PoolHolding
<1>10. CASE UNCHANGED vars
  BY <1>10 DEF vars, poolVars, PoolHolding
<1> QED
  BY <1>2, <1>4, <1>5, <1>7, <1>8, <1>9, <1>10 DEF Next

-----------------------------------------------------------------------------

\* While the application serves, the stored pool of a key is one of those opened for
\* it: the others are fewer than the handlers.
LEMMA LostWhileServing ==
  TypeOK /\ PoolHolding /\ PoolCount /\ life = "serving" => LostPoolsAreFew
<1> SUFFICES ASSUME TypeOK, PoolHolding, PoolCount, life = "serving", NEW k \in PoolKeys
             PROVE  Cardinality(LostPools(k)) < Cardinality(Callers)
  BY DEF LostPoolsAreFew
<1>1. Cardinality(Callers) \in Nat \ {0}
  BY RuntimeAssumption, FS_CardinalityType, FS_EmptySet
<1>2. CASE LostPools(k) = {}
  BY <1>1, <1>2, FS_EmptySet
<1>3. CASE LostPools(k) # {}
  <2> DEFINE r == geoPools[k]
  <2>1. PICK q \in LostPools(k) : TRUE
    BY <1>3
  <2>2. r \in Pools /\ r \in Opened(k)
    BY <2>1 DEF LostPools, PoolHolding, TypeOK, Opened
  <2>3. LostPools(k) \in SUBSET (Opened(k) \ {r})
    BY DEF LostPools, Opened
  <2>4. IsFiniteSet(Opened(k)) /\ Cardinality(Opened(k)) <= Cardinality(Callers)
    BY DEF PoolCount, Few
  <2>5. /\ IsFiniteSet(Opened(k) \ {r})
        /\ Cardinality(Opened(k) \ {r}) = Cardinality(Opened(k)) - 1
    BY <2>2, <2>4, FS_RemoveElement
  <2>6. /\ IsFiniteSet(LostPools(k))
        /\ Cardinality(LostPools(k)) <= Cardinality(Opened(k) \ {r})
    BY <2>3, <2>5, FS_Subset
  <2>7. Cardinality(Opened(k)) \in Nat /\ Cardinality(LostPools(k)) \in Nat
    BY <2>4, <2>6, FS_CardinalityType
  <2> QED
    BY <1>1, <2>4, <2>5, <2>6, <2>7
<1> QED
  BY <1>2, <1>3

\* Pools that each have a handler of their own are no more than the handlers.
LEMMA OneHandlerEach ==
  ASSUME NEW S, NEW by \in [S -> SUBSET Callers],
         \A q \in S : by[q] # {},
         \A q, r \in S : by[q] \cap by[r] # {} => q = r
  PROVE  Few(S)
<1> DEFINE f == [q \in S |-> CHOOSE c \in by[q] : TRUE]
<1>1. \A q \in S : f[q] \in by[q]
  OBVIOUS
<1>2. f \in [S -> Callers]
  BY <1>1
<1>3. \A q, r \in S : f[q] = f[r] => q = r
  BY <1>1
<1> HIDE DEF f
<1>4. f \in Injection(S, Callers)
  BY <1>2, <1>3 DEF Injection, IsInjective
<1> QED
  BY <1>4, RuntimeAssumption, FS_Injection DEF Few

\* A smaller set is few, too.
LEMMA FewAreFewer ==
  ASSUME NEW S, Few(S), NEW T \in SUBSET S
  PROVE  Few(T)
<1>1. IsFiniteSet(T) /\ Cardinality(T) <= Cardinality(S)
  BY FS_Subset DEF Few
<1>2. Cardinality(T) \in Nat /\ Cardinality(S) \in Nat /\ Cardinality(Callers) \in Nat
  BY <1>1, RuntimeAssumption, FS_CardinalityType DEF Few
<1> QED
  BY <1>1, <1>2 DEF Few

\* Every step keeps the count of the pools.
LEMMA NextCount == TypeOK /\ PoolHolding /\ PoolCount /\ [Next]_vars => PoolCount'
<1> SUFFICES ASSUME TypeOK, PoolHolding, PoolCount, [Next]_vars PROVE PoolCount'
  OBVIOUS
<1>0. /\ \A c \in Callers : call[c] \in Calls
      /\ call \in [Callers -> Calls]
      /\ \A c \in Callers : call[c].at = "starting" => call[c].pool \in Pools
      /\ life \in {"serving", "closed"}
  BY CallFields DEF TypeOK
<1>1. ASSUME UNCHANGED <<pool, life>>, life = "serving",
             \A d \in Callers : call[d].at = "starting" => call'[d] = call[d]
      PROVE  PoolCount'
  <2>1. \A k \in PoolKeys : Opened(k)' = Opened(k)
    BY <1>1 DEF Opened
  <2>2. \A q \in Pools : Starters(q) \subseteq Starters(q)'
    BY <1>1 DEF Starters
  <2> QED
    BY <1>1, <2>1, <2>2 DEF PoolCount, Few
<1>2. ASSUME NEW c \in Callers, NEW j \in Ids,
             Define(c, j) \/ Delete(c, j) \/ BuildRead(c, j) \/ ReadPlanner(c, j)
      PROVE  PoolCount'
  <2>1. /\ life = "serving"
        /\ UNCHANGED <<poolVars, life>>
        /\ \A d \in Callers \ {c} : call'[d] = call[d]
        /\ call[c].at = "over"
    BY <1>0, <1>2 DEF Define, Delete, BuildRead, ReadPlanner, Begins, NoCall
  <2> QED
    BY <1>1, <2>1 DEF poolVars
<1>3. ASSUME NEW c \in Callers, Stage(c)
      PROVE  life = "serving" /\ UNCHANGED life /\ \A d \in Callers \ {c} : call'[d] = call[d]
  <2>1. call[c] = NoCall => RunWorkflow(c)
    BY <1>3 DEF Stage, ForgetPlanner, BuildStore, BuildFails, Assign, GetPool, PoolStarted,
                PoolFails, StoreMetrics, ExtractFails, SolveRead, SolveWrite, SolveLoad,
                SolveEnd, NoCall
  <2>2. life = "serving"
    BY <1>0, <2>1 DEF RunWorkflow, PoolHolding
  <2>3. UNCHANGED life
    BY <1>3
    DEF Stage, ForgetPlanner, BuildStore, BuildFails, RunWorkflow, Assign, GetPool, PoolStarted,
        PoolFails, StoreMetrics, ExtractFails, SolveRead, SolveWrite, SolveLoad, SolveEnd
  <2> QED
    BY <1>3, <2>2, <2>3, StageCalls
<1>4. ASSUME NEW c \in Callers, Stage(c), ~GetPool(c), ~PoolStarted(c), ~PoolFails(c)
      PROVE  PoolCount'
  <2>1. UNCHANGED pool
    BY <1>4 DEF Stage, ForgetPlanner, BuildStore, BuildFails, RunWorkflow, Assign, StoreMetrics,
                ExtractFails, SolveRead, SolveWrite, SolveLoad, SolveEnd, poolVars
  <2>2. call[c].at # "starting"
    BY <1>4 DEF Stage, ForgetPlanner, BuildStore, BuildFails, RunWorkflow, Assign, StoreMetrics,
                ExtractFails, SolveRead, SolveWrite, SolveLoad, SolveEnd, NoCall
  <2> QED
    BY <1>1, <1>3, <1>4, <2>1, <2>2
<1>5. ASSUME NEW c \in Callers, GetPool(c) PROVE PoolCount'
  <2>0. Stage(c)
    BY <1>5 DEF Stage
  <2>1. call[c].at = "pooling"
    BY <1>5 DEF GetPool
  <2>2. CASE UNCHANGED pool
    BY <1>1, <1>3, <2>0, <2>1, <2>2
  <2>3. CASE ~UNCHANGED pool
    <3>1. PICK k \in PoolKeys, q \in Pools :
            /\ geoPools[k] = None
            /\ pool[q] = NoPool
            /\ pool' = [pool EXCEPT ![q] = [at |-> "starting", key |-> k]]
            /\ call' = [call EXCEPT ![c].at = "starting", ![c].pool = q]
      BY <1>5, <2>3 DEF GetPool
    <3>2. /\ \A r \in Pools \ {q} : pool'[r] = pool[r]
          /\ pool'[q].at = "starting" /\ pool'[q].key = k
      BY <3>1 DEF TypeOK
    <3>3. c \in Starters(q)'
      <4>1. call'[c].at = "starting" /\ call'[c].pool = q
        BY <1>0, <3>1 DEF Calls
      <4> QED
        BY <4>1 DEF Starters
    <3>4. ASSUME NEW r \in Pools, pool'[r].at = "starting" PROVE Starters(r)' # {}
      <4>1. CASE r = q
        BY <3>3, <4>1
      <4>2. CASE r # q
        <5>1. PICK d \in Starters(r) : TRUE
          BY <3>2, <3>4, <4>2 DEF PoolCount
        <5>2. d \in Callers \ {c}
          BY <2>1, <5>1 DEF Starters
        <5>3. d \in Starters(r)'
          BY <1>3, <2>0, <5>1, <5>2 DEF Starters
        <5> QED
          BY <5>3
      <4> QED
        BY <4>1, <4>2
    <3>5. ASSUME NEW l \in PoolKeys PROVE Few(Opened(l))'
      <4>1. CASE l = k
        <5>1. ASSUME NEW r \in Pools, r \in Opened(l)' PROVE pool'[r].at = "starting"
          BY <1>3, <2>0, <3>1, <3>2, <4>1, <5>1 DEF Opened, PoolHolding
        <5> DEFINE by == [r \in Opened(l)' |-> Starters(r)']
        <5>2. by \in [Opened(l)' -> SUBSET Callers] /\ \A r \in Opened(l)' : by[r] # {}
          BY <3>4, <5>1 DEF Opened, Starters
        <5>3. \A r, t \in Opened(l)' : by[r] \cap by[t] # {} => r = t
          BY DEF Starters
        <5> HIDE DEF by
        <5>4. Few(Opened(l)')
          BY <5>2, <5>3, OneHandlerEach
        <5> QED
          BY <5>4 DEF Few
      <4>2. CASE l # k
        <5>1. Opened(l)' \in SUBSET Opened(l)
          BY <3>2, <4>2 DEF Opened
        <5>2. Few(Opened(l))
          BY <1>3, <2>0 DEF PoolCount
        <5> QED
          BY <5>1, <5>2, FewAreFewer DEF Few
      <4> QED
        BY <4>1, <4>2
    <3> QED
      BY <1>3, <2>0, <3>4, <3>5 DEF PoolCount
  <2> QED
    BY <2>2, <2>3
<1>6. ASSUME NEW c \in Callers, PoolStarted(c) \/ PoolFails(c) PROVE PoolCount'
  <2> DEFINE q == call[c].pool
  <2>0. Stage(c)
    BY <1>6 DEF Stage
  <2>1. call[c].at = "starting" /\ q \in Pools
    BY <1>0, <1>6 DEF PoolStarted, PoolFails
  <2>2. pool[q].at = "starting"
    BY <1>3, <2>0, <2>1 DEF PoolHolding
  <2>3. /\ \A r \in Pools \ {q} : pool'[r] = pool[r]
        /\ pool'[q].at \in {"open", "none"}
        /\ pool'[q].at = "open" => pool'[q].key = pool[q].key
    BY <1>6, <2>1 DEF PoolStarted, PoolFails, TypeOK, NoPool
  <2>4. ASSUME NEW r \in Pools, pool'[r].at = "starting" PROVE Starters(r)' # {}
    <3>1. r # q
      BY <2>3, <2>4
    <3>2. PICK d \in Starters(r) : TRUE
      BY <2>3, <2>4, <3>1 DEF PoolCount
    <3>3. d \in Callers \ {c}
      BY <3>1, <3>2 DEF Starters
    <3>4. d \in Starters(r)'
      BY <1>3, <2>0, <3>2, <3>3 DEF Starters
    <3> QED
      BY <3>4
  <2>5. ASSUME NEW l \in PoolKeys PROVE Few(Opened(l))'
    <3>1. Opened(l)' \in SUBSET Opened(l)
      BY <2>2, <2>3 DEF Opened
    <3>2. Few(Opened(l))
      BY <1>3, <2>0 DEF PoolCount
    <3> QED
      BY <3>1, <3>2, FewAreFewer DEF Few
  <2> QED
    BY <1>3, <2>0, <2>4, <2>5 DEF PoolCount
<1>7. CASE Shutdown
  <2>1. /\ life = "serving" /\ life' = "closed"
        /\ \A c \in Callers : call[c] = NoCall
    BY <1>7 DEF Shutdown
  <2>2. \A q \in Pools : pool[q].at # "starting"
    BY <2>1 DEF PoolCount, Starters, NoCall
  <2>3. \A q \in Pools : pool'[q].at = "starting" => pool[q].at = "starting"
    BY <1>7 DEF Shutdown, TypeOK
  <2>4. ASSUME NEW k \in PoolKeys
        PROVE  Cardinality(LostPools(k)') < Cardinality(Callers)
    <3>1. ASSUME NEW q \in Pools, q \in LostPools(k)' PROVE q \in LostPools(k)
      <4>1. pool'[q] = pool[q] /\ \A l \in PoolKeys : geoPools[l] # q
        BY <1>7, <3>1 DEF Shutdown, TypeOK, LostPools
      <4> QED
        BY <3>1, <4>1 DEF LostPools
    <3>2. LostPools(k)' \in SUBSET LostPools(k)
      BY <3>1 DEF LostPools
    <3>3. LostPools(k) \in SUBSET Opened(k)
      BY DEF LostPools, Opened
    <3>4. Few(Opened(k))
      BY <2>1 DEF PoolCount
    <3>5. IsFiniteSet(LostPools(k))
      BY <3>3, <3>4, FewAreFewer DEF Few
    <3>6. /\ IsFiniteSet(LostPools(k)')
          /\ Cardinality(LostPools(k)') <= Cardinality(LostPools(k))
      BY <3>2, <3>5, FS_Subset
    <3>7. Cardinality(LostPools(k)) < Cardinality(Callers)
      BY <2>1, LostWhileServing DEF LostPoolsAreFew
    <3>8. /\ Cardinality(LostPools(k)') \in Nat /\ Cardinality(LostPools(k)) \in Nat
          /\ Cardinality(Callers) \in Nat
      BY <3>5, <3>6, RuntimeAssumption, FS_CardinalityType
    <3> QED
      BY <3>6, <3>7, <3>8
  <2>5. LostPoolsAreFew'
    BY <2>4 DEF LostPoolsAreFew
  <2> QED
    BY <2>1, <2>2, <2>3, <2>5 DEF PoolCount
<1>8. CASE UNCHANGED vars
  <2>1. /\ \A k \in PoolKeys : Opened(k)' = Opened(k) /\ LostPools(k)' = LostPools(k)
        /\ \A q \in Pools : Starters(q)' = Starters(q)
        /\ UNCHANGED <<pool, life>>
    BY <1>8 DEF vars, poolVars, Opened, LostPools, Starters
  <2> QED
    BY <2>1 DEF PoolCount, Few, LostPoolsAreFew
<1> QED
  BY <1>2, <1>4, <1>5, <1>6, <1>7, <1>8 DEF Next

-----------------------------------------------------------------------------

\* IInv holds in every reachable state.
LEMMA Invariance == Spec => []IInv
<1>1. IInv /\ [Next]_vars => IInv'
  BY NextTypes, NextSerial, NextProvenance, NextPools, NextCount DEF IInv
<1> QED
  BY InitInv, <1>1, PTL DEF Spec

\* The state has the shape TypeOK gives it: whoever holds a planner or a pool was
\* given one.
THEOREM TypeCorrect == Spec => []TypeOK
<1>1. IInv => TypeOK
  BY DEF IInv
<1> QED
  BY Invariance, <1>1, PTL

\* Between two stages of a serial id its planner was built from its scenario,
\* whatever the handlers of the other ids do.
THEOREM PlannersAreCurrent == Spec => []PlannerIsCurrent
<1>1. IInv => PlannerIsCurrent
  BY DEF IInv, SerialStages, PlannerIsCurrent
<1> QED
  BY Invariance, <1>1, PTL

\* However stages overlap, metrics and network of a planner in use come from what
\* was saved for it, and RPL accepted what was solved.
THEOREM NetworksComeFromSavedMetrics == Spec => []NetworkFromSavedMetrics
<1>1. IInv => NetworkFromSavedMetrics
  BY DEF IInv, Provenance, NetworkFromSavedMetrics, LivePlanners
<1> QED
  BY Invariance, <1>1, PTL

\* However many requests come, overlap, fail or are followed by a shutdown, a key
\* loses fewer pools than there are handlers.
THEOREM LostPoolsStayFew == Spec => []LostPoolsAreFew
<1>1. IInv => LostPoolsAreFew
  BY LostWhileServing DEF IInv, PoolCount, TypeOK
<1> QED
  BY Invariance, <1>1, PTL

=============================================================================
