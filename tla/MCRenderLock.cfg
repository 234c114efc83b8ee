SPECIFICATION FairSpec
CONSTANTS
  c1 = c1
  c2 = c2
  a1 = a1
  a2 = a2
  b1 = b1
  NoTask = NoTask
  Clients = {c1, c2}
  Tasks = {a1, a2, b1}
  Workflows = {w1}
  ClientOf <- MCClientOf
  MaxCalls = 1
  MaxFaults = 1
CHECK_DEADLOCK FALSE
INVARIANTS
  TypeOK
  OneRenderPerWorkflow
  StallKeepsOthersOut
  LocksMatchTasks
PROPERTIES
  CallsReturn
  ImplementsPhases
