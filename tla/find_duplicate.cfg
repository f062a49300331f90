SPECIFICATION Spec
CONSTANTS
  s1 = s1
  s2 = s2
  s3 = s3
  p1 = p1
  p2 = p2
  u1 = u1
  u2 = u2
  u3 = u3
  a1 = a1
  a2 = a2
  Sessions = {s1, s2}
  Processes = {p1, p2}
  ProcessOf <- TwoProcesses
  Users = {u1, u2}
  UserStatus <- AllActive
  Activities = {a1, a2}
  ActivityStatus <- AllOpen
  TotalStock <- TwoUnits
  StartTime <- OpensAt0
  EndTime <- ClosesAt2
  SuffixModulus = 5
  MaxTime = 1
  MaxRequests = 3
  MaxFaults = 0
SYMMETRY UserSymmetry
INVARIANTS DuplicateMeansOrdered
CHECK_DEADLOCK FALSE
