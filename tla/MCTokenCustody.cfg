SPECIFICATION SliceSpec
CONSTANTS
  Worker = {w1, w2}
  Lone = w1
  Lifetime = {0, 3, 9}
  Limit = 8
  Timeout = 1
  MaxToken = 3
  Horizon = 5
  None = None
INVARIANTS
  TypeOK
  NothingLiveIsForgotten
  StoredIsNewest
  ExpiryIsHonest
CHECK_DEADLOCK FALSE
