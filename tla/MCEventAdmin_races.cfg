SPECIFICATION OnSaleSpec
CONSTANTS
  Users = {u1}
  Events = {e1}
  Bookings = {b1}
  Creates = {}
  Updates = {p1}
  Deletes = {}
  MaxTickets = 2
  MaxBatch = 1
  MaxVersion = 3
  NoRow = NoRow
CHECK_DEADLOCK FALSE
PROPERTY RacesAreDetected
