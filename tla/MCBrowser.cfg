SPECIFICATION BrowserSpec
CONSTANTS
  a1 = a1
  a2 = a2
  a3 = a3
  s1 = s1
  s2 = s2
  s3 = s3
  n1 = n1
  n2 = n2
  n3 = n3
  v1 = v1
  v2 = v2
  c1 = c1
  c2 = c2
  Attempt = {a1, a2, a3}
  Secret = {s1, s2, s3, n1, n2, n3, v1, v2}
  Context = {c1, c2}
  Tape <- MCTape
  MaxChanges = 2
  ACR = {silver, gold}
  ClaimsRequest = {phone}
  Altered <- MCAltered
  None = None
INVARIANTS
  BrowserTypeOK
  RecoveredIsWhole
  UntouchedRowRecovers
  VerifierStaysBack
  AskedIsHonoured
  ResponseIsUnambiguous
CHECK_DEADLOCK FALSE
