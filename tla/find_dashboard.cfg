SPECIFICATION SummarySpec
CONSTANTS
  a1 = a1
  a2 = a2
  Activities = {a1, a2}
  Users = {u1, u2}
  TotalStock <- OneAndTwo
  MaxAnswers = 2
SYMMETRY UserSymmetry
INVARIANT DashboardConsistent
