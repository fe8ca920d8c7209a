SPECIFICATION CancelsSpec
CONSTANTS
  Users = {u1, u2}
  Events = {e1}
  Bookings = {b1, b2}
  Cancels = {c1, c2}
  MaxTickets = 2
  MaxConns = 3
  NoOne = NoOne
  NoRow = NoRow
SYMMETRY Symmetry
INVARIANTS AnswersAreTrue DeadlocksAreSelfInflicted Conservation
PROPERTIES RefinesLedger
