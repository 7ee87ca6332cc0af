SPECIFICATION Spec
CONSTANTS
  x = x
  y = y
  z = z
  c = c
  cr = cr
  d = d
  e = e
  A = A
  B = B
  C = C
  None = None
  Interfaces <- MCInterfaces
  Node <- MCNode
  Distance <- MCDistance
  Bearing <- MCBearing
  Full = 8
  Step = 3
  PrimaryTech = "lte"
  Rules <- MCRules
  Params <- MCParams
  ManualEdges <- MCManualEdges
  Requests <- MCRequests
  Assignments <- MCAssignments
  Weights <- MCWeights
  Precision = 10
  Filters <- MCFilters
  Turns <- MCTurns
  Removals <- MCRemovals
INVARIANTS
  NoDuplicateLinks
  LossIsPaidFor
PROPERTIES
  MetricsFollowGraph
  RemovedSectorsWereIdle
