SPECIFICATION Spec
CONSTANTS
  k1 = k1
  k2 = k2
  t1 = t1
  t2 = t2
  c1 = c1
  c2 = c2
  s1 = s1
  g1 = g1
  None = None
  Keys <- MCKeys
  Tasks <- MCTasks
  Callers <- MCCallers
  Samplers <- MCSamplers
  Clients <- MCClients
INVARIANTS
  NoRepeatedExtraction
  CachedUnderItsKey
  ClientsConserved
  CallersAwaitLiveTasks
PROPERTIES
  CloseWaitsForInFlight
  RequestsAnswered
  CloseEnds
CHECK_DEADLOCK FALSE
