SPECIFICATION FairSpec
CONSTANTS
  None = None
  a1 = a1
  a2 = a2
  i1 = i1
  i2 = i2
  c1 = c1
  c2 = c2
  c3 = c3
  acr1 = acr1
  acr2 = acr2
  k1 = k1
  k2 = k2
  x1 = x1
  x2 = x2
  u1 = u1
  u2 = u2
  Attempt = {a1, a2}
  Secret <- MCSecret
  Tape <- MCTape
  Issuer = {i1, i2}
  ClientID = {"rp", "rp2"}
  RedirectURL = {"/callback"}
  Subject = {u1}
  Acr = {acr1}
  Client = {c1, c2}
  Config <- OneProvider
  Offer <- FaithfulOffers
  Code = {x1}
  Call = {k1, k2}
  EmitsIss = {i1}
  Careful = {i1}
  FrontChannel = "faithful"
INVARIANTS
  TypeOK
  CodeCustody
PROPERTIES
  EveryCallReturns
CHECK_DEADLOCK FALSE
