CONSTANTS
  Currencies = {"eur", "sek"}
  Base = "eur"
  Days = {1}
  Today = 2
  Quotes <- MCSmall
  Origins <- MCOrigins
  Amounts = {20, 110}
  Takes = {10}
  Minor = 10
  MaxLines = 4
  MatchIds = {1, 2, 3, 4}
SPECIFICATION Spec
INVARIANT ClosedInBoth
CHECK_DEADLOCK FALSE
