SPECIFICATION Spec
CONSTANTS
  near = near
  long = long
  far = far
  None = None
  Error = Error
  Links <- MCLinks
  Datasets <- MCDatasets
  Covers <- MCCovers
  TilesOf <- MCTilesOf
  EndParquets <- MCEndParquets
  CorridorParquets <- MCCorridorParquets
  MaxOpen = 3
  Requests = {1, 2, 3, 4}
  LinkOf <- MCLinkOf
  NumWorkers = 1
  MaxLinks = 3
  MaxWorkers = 6
  MaxCrashes = 1
  MaxFailures = 2
INVARIANTS
  AnswersAsFresh
PROPERTIES
  RequestsAnswered
CHECK_DEADLOCK FALSE
