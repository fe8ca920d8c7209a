SPECIFICATION LivenessSpec
CONSTANTS
  Users = {u1}
  Events = {e1}
  Bookings = {b1, b2}
  Cancels = {c1}
  BatchRequests = {t1}
  MaxItems = 2
  MaxTickets = 1
  MaxConns = 2
  NoOne = NoOne
  NoRow = NoRow
PROPERTIES EveryRequestEnds RowLocksAreFreed RedisLocksAreFreed EveryBatchEnds
