SPECIFICATION Spec
CONSTANTS
  c1 = c1
  c2 = c2
  Clients = {c1, c2}
  FdSets = {{7}}
  ResponseUnits = 2
  SendBuffer = 1
  SizeModulus = 5
  Script <- TwoGets
INVARIANTS HandlersOutlived
CHECK_DEADLOCK FALSE
