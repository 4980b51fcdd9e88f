SPECIFICATION Spec
CONSTANTS
  Null = Null
  Accounts <- MCAccounts
  Defaults <- MCDefaults
  Boxes <- MCBoxes
  Documents <- MCDocuments
  Payments <- MCPayments
  BookDays <- MCBookDays
  Base = "sar"
  Quotes <- MCQuotes
  Files <- MCFiles
  StartMonths = {1, 4}
  MaxEntries = 3
INVARIANTS StatementsAgree CashFlowReconciles VatAgrees TaxFollowsNet CancelledLeavesNothing FiguresNeverRefused EachEntryInOnePeriod
CHECK_DEADLOCK FALSE
