SPECIFICATION Spec
CONSTANTS
  Null = Null
  Accounts <- MCAccounts
  Defaults <- MCDefaults
  Boxes <- MCBoxes
  Documents <- GapDocuments
  Payments <- MCPayments
  BookDays <- MCBookDays
  Base = "sar"
  Quotes <- MCQuotes
  Files <- MCFiles
  StartMonths = {1, 4}
  MaxEntries = 3
INVARIANTS VatAgrees FiguresNeverRefused
CHECK_DEADLOCK FALSE
