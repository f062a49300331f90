SPECIFICATION LiveSpec
CONSTANTS
  Sessions = {s1, s2}
  Products = {"book", "headset", "lamp"}
  Numbers = {"n0", "n1", "n2"}
  SeedProducts <- HeadsetAndLamp
  SeedActivities <- HeadsetSold
  MaxCalls = 3
INVARIANTS TypeOK MarkedTogether
PROPERTIES RefinesOffers Answered
CHECK_DEADLOCK FALSE
