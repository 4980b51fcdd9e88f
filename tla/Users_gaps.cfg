SPECIFICATION Spec
CONSTANTS
  None = None
  Absent = Absent
  Workers = {w1, w2}
  People = {p1, p2}
  Companies = {c1}
  Invitations = {i1}
  Scopes <- Singled
INVARIANTS Outcomes SomeAdministrator SignedOut ActiveAdministrator
PROPERTIES StaysDeactivated
SYMMETRY MCSymmetry
CHECK_DEADLOCK FALSE
