SPECIFICATION LiveSpec
CONSTANTS
  Users = {"admin", "student"}
  Accounts <- Rows
  Activity = "a1"
  Stock = 2
  ConfigFiles <- TwoFiles
  Days <- AllDays
  Clients = {"c1", "c2"}
  Files <- StaticFiles
  Dotted = {".."}
INVARIANTS TypeOK AuthorityStands QuietEnd PromptsHoldNothing DenialJustified
PROPERTIES RefinesSale Answers Exits
CHECK_DEADLOCK FALSE
