SPECIFICATION BlocksSpec
CONSTANTS
  Undefined = Undefined
  Garbled = Garbled
  Raised = Raised
  None = None
  Src = Src
  Dst = Dst
  Poles = {a, b}
  Terrains = {}
  BreakEven = 2
  MaxRepeaters = 2
  MaxCandidates = 2
  Specs = {}
  Links <- MCLinks
  FeaturePaths = {"loss", "clear", "peak"}
  PeakPaths = {"peak"}
  MaxNodes = 4
  Dependencies <- MCDependencies
  Fits <- MCFits
  Eval <- MCEval
  Cases = {}
  Buildings <- MCBuildings
  Tiles <- MCTiles
  BatchSize = 2
  MaxFailures = 1
  MaxCrashes = 2
  MaxRuns = 3
  Queries = {}
  Views <- MCViews
  Radius <- MCRadius
  Profiles <- MCProfiles
  Tables = {}
  Grids <- MCGrids
  ZoneOf <- MCZoneOf
  MaxCopies = 2
  Inf = Inf
  Unlimited = Unlimited
  Blank = Blank
  p1 = p1
  p2 = p2
  u1 = u1
  u2 = u2
  grid = grid
  x1 = x1
INVARIANTS
  CoverIsNearest
CHECK_DEADLOCK FALSE
