SPECIFICATION Spec
CONSTANTS
  None = None
  Sessions = {s1, s2}
  StatementLines = {l1}
  Payments = {p1}
  Entries = {1, 2}
  KeepsOpenItems = TRUE
  Series <- MCOneSeries
INVARIANTS HoldingCleared
PROPERTIES OnlyPostedReconciled
SYMMETRY MCSymmetry
CHECK_DEADLOCK FALSE
