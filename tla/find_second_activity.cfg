SPECIFICATION Spec
CONSTANTS
  Sessions = {s1, s2}
  Products = {book}
  Numbers = {n1, n2}
  SeedProducts <- NoProducts
  SeedActivities = {}
  MaxCalls = 2
SYMMETRY Symmetric
INVARIANT PublishedIsFound
CHECK_DEADLOCK FALSE
