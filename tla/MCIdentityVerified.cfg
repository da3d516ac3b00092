SPECIFICATION Spec
CONSTANTS
  Name = {n1}
  Email = {e1, e2}
  Picture = {p1}
  Absent = Absent
  Malformed = Malformed
INVARIANTS
  EmailIsVerified
CHECK_DEADLOCK FALSE
