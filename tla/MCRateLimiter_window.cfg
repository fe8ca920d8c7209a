SPECIFICATION GroupsSpec
CONSTANTS
  Requests = {r1, r2, r3}
  Clients = {c1}
  Paths <- TwoPaths
  Window = 4
  Limit = 2
  Skew = 1
  Delay = 1
  MaxTime = 6
SYMMETRY Symmetry
CHECK_DEADLOCK FALSE
INVARIANTS TypeOK WithinLimit
PROPERTIES RefusalsAreEarned RetryAfterIsEnough
