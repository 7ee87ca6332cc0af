SPECIFICATION Spec
CONSTANTS
  u1 = u1
  u2 = u2
  w1 = w1
  w2 = w2
  p1 = p1
  p2 = p2
  r1 = r1
  r2 = r2
  g1 = g1
  Reaper = Reaper
  Closer = Closer
  None = None
  Users = {u1}
  Workers <- MCWorkers
  Ports <- MCPorts
  Requests <- MCRequests
  Registers <- MCRegisters
PROPERTIES
  RequestsAnswered
  IdleWorkersReaped
CHECK_DEADLOCK FALSE
