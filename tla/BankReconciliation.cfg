SPECIFICATION FairSpec
CONSTANTS
  None = None
  Sessions = {s1, s2}
  StatementLines = {l1, l2}
  Payments = {p1}
  Entries = {1, 2}
  KeepsOpenItems = TRUE
  Series <- MCManySeries
INVARIANTS BankMovesOnce LeavesOnce
PROPERTIES EveryRequestEnds
CHECK_DEADLOCK FALSE
