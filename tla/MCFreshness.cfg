SPECIFICATION Spec
CONSTANTS
  MaxAge = 3
  Tolerance = 2
  Window = 4
  AssertionLifetime = 3
  Timeout = 1
  Drift = 1
  Lifetime = {2, 4, 7}
  TokenLifetime = {0, 3}
  Horizon = 11
  None = None
INVARIANTS
  TypeOK
  OneReadingIsEnough
  ResponseIsShortLived
CHECK_DEADLOCK FALSE
