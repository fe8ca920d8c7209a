SPECIFICATION AdminSpec
CONSTANTS
  Users = {u1}
  Events = {e1, e2}
  Bookings = {b1}
  Creates = {c1}
  Updates = {p1, p2}
  Deletes = {d1}
  MaxTickets = 2
  MaxBatch = 2
  MaxVersion = 3
  NoRow = NoRow
SYMMETRY Symmetry
CONSTRAINT FewRequests
CHECK_DEADLOCK FALSE
INVARIANTS TypeOK NeverOversold AuditIsTrue DiffsAreTrue
PROPERTIES OnlyStaleUpdatesMiscount UpdatesAreSeen DeletedIsFinal
