SPECIFICATION FairSpec
CONSTANTS
  Instances = {i1, i2}
  Requests = {q1, q2}
  Migrations = 2
  Timeout = 3
  WriteTimeout = 2
  ShutdownTime = 3
  NewConn = 1
  None = None
INVARIANTS TypeOK ServesWholeSchema OnlyDeathsSpoil StopsInTime
PROPERTIES OnlySlowAreCut SignalsStop
