SPECIFICATION SeriousSpec
CONSTANTS
  Users = {u1}
  Events = {e1}
  Bookings = {b1}
  Cancels = {c1}
  MaxTickets = 1
  MaxConns = 2
  NoOne = NoOne
  NoRow = NoRow
INVARIANTS CancellationAudited
