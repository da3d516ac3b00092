SPECIFICATION Spec
CONSTANTS
  c1 = c1
  c2 = c2
  i1 = i1
  i2 = i2
  id = id
  key = key
  Client = {c1, c2}
  IssuerOf <- TenantOf
  ClientID <- SameID
  KeyOf <- SameKey
  SessionRequired = {c1}
  Subject = {alice}
  SID = {sid1}
  JWTID = {j1}
  Window = 2
  Tolerance = 1
  Drift = 1
  Stall = 1
  Retention = 5
  Horizon = 6
  None = None
INVARIANTS
  TypeOK
  EndedByItsProvider
  LoggedOutOnce
  WindowIsSharp
CHECK_DEADLOCK FALSE
