SPECIFICATION FairSpec
CONSTANTS
  Sessions = {s1, s2}
  Journals = {INV}
  Codes = {INV}
  Ids = {1, 2, 3, 4}
  Sources = {}
  Dates = {23, 24}
  LockDates = {}
  StartMonth = 1
  MaxCalls = 2
  None = None
PROPERTIES RefinesBook EveryRequestEnds
CHECK_DEADLOCK FALSE
