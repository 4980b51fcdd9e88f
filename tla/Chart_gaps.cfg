SPECIFICATION Spec
CONSTANTS
  None = None
  asset = asset
  liability = liability
  receivable = receivable
  Sessions = {s1, s2}
  Accounts = {a1, a2, a3}
  Types = {asset, liability}
  Slots = {receivable}
  Suits <- MCSuits
  Levels = 2
  Walk = 4
  Scopes <- Singled
INVARIANTS TreeUnderRaces DefaultsSuit GroupsHoldNoLinesUnderRaces WithinLevels OpenItemsCanBeSettled ParentsShareType
SYMMETRY MCSymmetry
CHECK_DEADLOCK FALSE
