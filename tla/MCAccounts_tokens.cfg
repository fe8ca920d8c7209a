SPECIFICATION SmallSpec
CONSTANTS
  Registers = {r1, r2}
  Logins = {l1}
  Calls = {c1}
  Emails <- Spellings
  Canon <- Lower
  Passwords <- Secrets
  Expiry = 1
  Skew = 1
  Delay = 1
  MaxTime = 7
  None = None
SYMMETRY Symmetry
CHECK_DEADLOCK FALSE
INVARIANTS TypeOK OneAccountPerAddress
PROPERTIES CredentialsWork AdminIsFresh ActiveIsFresh
