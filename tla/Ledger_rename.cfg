SPECIFICATION Spec
CONSTANTS
  Sessions = {s1}
  Journals = {INV}
  Codes = {INV, SAL}
  Ids = {1}
  Sources = {}
  Dates = {24}
  LockDates = {}
  StartMonth = 1
  MaxCalls = 1
  None = None
INVARIANTS NumberNamesItsJournal
CHECK_DEADLOCK FALSE
