-------------------------- MODULE MCPlanningRuntime --------------------------
(***************************************************************************)
(* Two handlers at a time on one id, or on one id each, enough objects for *)
(* the replaced and the replacing scenario and planner, metrics that RPL   *)
(* accepts and metrics it refuses, and for one key a pool that is offered, *)
(* one that is lost and one that is started.                               *)
(***************************************************************************)
EXTENDS PlanningRuntime, TLC

CONSTANTS i1, i2, c1, c2, s1, s2, p1, p2, good, bad, k1, q1, q2, q3

MCIds == {i1, i2}
MCCallers == {c1, c2}
MCScenarios == {s1, s2}
MCPlanners == {p1, p2}
MCMetrics == {good, bad}
MCPools == {q1, q2, q3}

\* What is left of a planner nobody refers to is never read again.
LiveState ==
  <<scenarios, planners, poolVars, call, life,
    [p \in LivePlanners |-> <<origin[p], metrics[p], network[p], saved[p]>>]>>

ObjectSymmetry == Permutations(MCScenarios) \cup Permutations(MCPlanners)
                    \cup Permutations(MCCallers) \cup Permutations(MCPools)

=============================================================================
