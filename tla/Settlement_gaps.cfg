SPECIFICATION FairSpec
CONSTANTS
  Sessions = {s1, s2}
  Invoices = {1, 2}
  Payments = {3}
  Foreign = {}
  Amounts = {1, 2}
  Memos = {x1}
  Owed = {1, 2}
  Changes <- MCChanges
  Takes = {1}
  MatchIds = {1, 2, 3}
  MaxLines = 2
  Span = 4
  None = None
INVARIANTS PostedAmountIsEntryAmount NoDeadlock
PROPERTIES OnlyCancellingChanges CancellingLeavesNoMatch ReversalClosesThePair
CHECK_DEADLOCK FALSE
