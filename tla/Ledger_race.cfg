SPECIFICATION Spec
CONSTANTS
  Sessions = {s1, s2, s3}
  Journals = {INV}
  Codes = {INV, SAL}
  Ids = {1, 2, 3}
  Sources = {invoice}
  Dates = {23, 24}
  LockDates = {23}
  StartMonth = 1
  MaxCalls = 1
  None = None
SYMMETRY Symmetry
INVARIANTS Gapless OnceOnly SingleCallsNeverDeadlock
PROPERTIES ClosedPeriodFrozen
CHECK_DEADLOCK FALSE
