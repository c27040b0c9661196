SPECIFICATION VarsSpec
CONSTANTS
  Workers = {p, q}
  Clients = {a, b}
  LastTime = 2
  Changes = 3
  Stops = 1
  Life = 1
SYMMETRY Symmetry
CONSTRAINT Whole
INVARIANTS GetsLatest StaysSaved
CHECK_DEADLOCK FALSE
