SPECIFICATION FairSpec
CONSTANTS
  Sessions = {s1, s2}
  Invoices = {1}
  Payments = {2}
  Foreign = {1}
  Amounts = {1, 2}
  Memos = {x1}
  Owed = {2}
  Changes <- MCChanges
  Takes = {1}
  MatchIds = {1, 2}
  MaxLines = 3
  Span = 3
  None = None
INVARIANTS OpenAmountsNeverRefused MatchesQueue EntriesFollowState
PROPERTIES PostedIsEvidence RefinesAccount EveryRequestEnds
CHECK_DEADLOCK FALSE
