SPECIFICATION Spec
CONSTANTS
  Names = {"u1", "u2"}
  Passwords = {"p1", "p2"}
  Accounts <- TwoAccounts
  Typed <- TwoAccounts
  CliTyped <- OtherAccount
  Tabs = {"t1"}
  Ids = {1, 2}
  MaxSequence <- TwoThenOne
INVARIANTS OrdersAreOwn
CHECK_DEADLOCK FALSE
