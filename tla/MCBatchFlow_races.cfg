SPECIFICATION RacesSpec
CONSTANTS
  Users = {u1, u2}
  Events = {e1}
  Bookings = {b1, b2}
  Cancels = {c1}
  BatchRequests = {t1}
  MaxItems = 2
  MaxTickets = 2
  MaxConns = 3
  NoOne = NoOne
  NoRow = NoRow
SYMMETRY Symmetry
INVARIANTS TypeOK SnapshotHolds OneActivePerUser AuditIsTrue AnswerTells OneTransactionAtATime
PROPERTIES OnlyHolderReleases RefinesLedger
