SPECIFICATION Spec
CONSTANTS
  s1 = s1
  s2 = s2
  s3 = s3
  p1 = p1
  p2 = p2
  u1 = u1
  u2 = u2
  u3 = u3
  a1 = a1
  a2 = a2
  Sessions = {s1, s2, s3}
  Processes = {p1}
  ProcessOf <- OneProcess
  Users = {u1, u2, u3}
  UserStatus <- TwoBuyers
  Activities = {a1, a2}
  ActivityStatus <- OneMissing
  TotalStock <- TwoUnits
  StartTime <- OpensAt1
  EndTime <- ClosesAt2
  SuffixModulus = 5
  MaxTime = 2
  MaxRequests = 3
  MaxFaults = 0
INVARIANTS TypeOK Ledger OneOrderEach AuditedStock RefusalJustified DuplicateMeansOrdered
PROPERTY RefinesFlashSale
CHECK_DEADLOCK FALSE
