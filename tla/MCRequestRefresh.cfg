SPECIFICATION Spec
CONSTANTS
  ACR = {silver}
  ClaimsRequest = {phone}
  Altered = {}
  None = None
INVARIANTS
  RefreshStaysInGrant
CHECK_DEADLOCK FALSE
