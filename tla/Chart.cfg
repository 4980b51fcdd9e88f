SPECIFICATION Spec
CONSTANTS
  None = None
  asset = asset
  liability = liability
  receivable = receivable
  Sessions = {s1, s2}
  Accounts = {a1, a2, a3}
  Types = {asset, liability}
  Slots = {receivable}
  Suits <- MCSuits
  Levels = 3
  Walk = 6
  Scopes <- MCScopes
INVARIANTS NothingDangles ReferencesSuit StaysATree
SYMMETRY MCSymmetry
CHECK_DEADLOCK FALSE
