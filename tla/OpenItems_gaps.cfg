CONSTANTS
  Currencies = {"eur", "usd"}
  Base = "eur"
  Days = {1, 2}
  Today = 1
  Quotes <- MCQuotes
  Origins <- MCOrigins
  Amounts = {200, 300}
  Takes = {100}
  Minor = 100
  MaxLines = 3
  MatchIds = {1, 2}
SPECIFICATION Spec
INVARIANTS LesserIsMatched NothingSettledIsCancelled AgedIsBalance
CHECK_DEADLOCK FALSE
