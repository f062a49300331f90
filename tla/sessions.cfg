SPECIFICATION Spec
CONSTANTS
  Names = {"u1", "u2"}
  Passwords = {"p1", "p2"}
  Accounts <- OneAccount
  Typed <- TwoAccounts
  CliTyped <- OtherAccount
  Tabs = {"t1"}
  Ids = {1, 2}
  MaxSequence <- TwoThenOne
INVARIANTS TypeOK RegisteredGetsIn
PROPERTIES TokensNeverReturn RefinesLogins
CHECK_DEADLOCK FALSE
