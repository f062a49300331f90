SPECIFICATION LiveSpec
CONSTANTS
  c1 = c1
  c2 = c2
  Clients = {c1, c2}
  FdSets = {{7}, {7, 8}}
  ResponseUnits = 2
  SendBuffer = 1
  SizeModulus = 5
  Script <- TwoAndOne
INVARIANTS TypeOK DescriptorsOwned WriteInterest AnswersWhole FramedRight
PROPERTIES Served Admitted
CHECK_DEADLOCK FALSE
