SPECIFICATION Spec
CONSTANTS
  a1 = a1
  a2 = a2
  p1 = p1
  d1 = d1
  d2 = d2
  s1 = s1
  s2 = s2
  e1 = e1
  e2 = e2
  b1 = b1
  b2 = b2
  m1 = m1
  lte = lte
  File = File
  None = None
  Antennas = {a1, a2}
  InterfaceProfiles = {p1}
  DeviceProfiles = {d1}
  Sites = {s1, s2}
  Layouts <- MCLayouts
  Patterns <- MCPatterns
  Batches <- MCBatches
  EdgePairs <- MCEdgePairs
  Attrs = {e1, e2}
  RuleIds = {0, 1}
  Rules = {b1}
  Techs = {lte}
  Specs = {m1}
  Configs <- MCConfigs
  MaxEdits = 3
  MaxSaves = 2
INVARIANTS
  EdgesMatchAttributes
  SavedBundleReloads
PROPERTIES
  CarefulEditsKeepValid
  ImportsCanBeResumed
CHECK_DEADLOCK FALSE
