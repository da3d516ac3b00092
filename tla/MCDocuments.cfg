SPECIFICATION DocumentsSpec
CONSTANTS
  Name = {n1}
  Email = {e1, e2}
  Picture = {p1}
  Absent = Absent
  Malformed = Malformed
  Client = {rp1, rp2}
  TrustedBy <- MutualTrust
  Subject = {alice, bob}
  AccessToken = {at1, at2}
  None = None
INVARIANTS
  DocumentsTypeOK
  PairedEmailIsVouched
  UserInfoHasTheLastWord
  OneRelyingParty
  NoCrossUse
SYMMETRY Symmetry
CHECK_DEADLOCK FALSE
