SPECIFICATION Spec
CONSTANTS
  None = None
  Sessions = {s1}
  StatementLines = {l1, l2}
  Payments = {p1}
  Entries = {1, 2}
  KeepsOpenItems = FALSE
  Series <- MCOneSeries
INVARIANTS CountedOnce
SYMMETRY MCSymmetry
CHECK_DEADLOCK FALSE
