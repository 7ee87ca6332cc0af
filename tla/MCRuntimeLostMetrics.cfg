SPECIFICATION Spec
CONSTANTS
  i1 = i1
  i2 = i2
  c1 = c1
  c2 = c2
  s1 = s1
  s2 = s2
  p1 = p1
  p2 = p2
  good = good
  bad = bad
  k1 = k1
  q1 = q1
  q2 = q2
  q3 = q3
  None = None
  Ids <- MCIds
  Serial = {i1}
  Callers <- MCCallers
  Scenarios <- MCScenarios
  Planners <- MCPlanners
  Metrics <- MCMetrics
  Rejected = {bad}
  PoolKeys = {k1}
  Pools <- MCPools
PROPERTIES
  SavedMetricsStay
CHECK_DEADLOCK FALSE
