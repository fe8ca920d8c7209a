SPECIFICATION GroupsSpec
CONSTANTS
  Requests = {r1, r2, r3}
  Clients = {c1}
  Paths <- TwoPaths
  Window = 4
  Limit = 2
  Skew = 0
  Delay = 0
  MaxTime = 7
SYMMETRY Symmetry
CHECK_DEADLOCK FALSE
INVARIANT PerClient
