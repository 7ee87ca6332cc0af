SPECIFICATION Spec
CONSTANTS
  r = r
  a = a
  b = b
  c = c
  None = None
  Inf = Inf
  NodeIds <- MCNodeIds
  Labels <- MCLabels
  Tables <- MCTables
  Updates <- MCUpdates
  Primary <- MCPrimary
  Thresholds = {0, 1, 3}
INVARIANTS
  ParentsAcyclic
  RanksFollowParents
  RanksAreShortestPaths
PROPERTIES
  RunTerminates
  RoutingSpec
  ReportsTellTheNetwork
