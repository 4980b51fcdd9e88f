SPECIFICATION Spec
CONSTANTS
  None = None
  Sessions = {s1}
  Templates = {t1}
  Dates <- Quarter
  Edited = {t1}
  Intervals = {1}
INVARIANTS StaysOnItsDay DueIsBilled
SYMMETRY MCSymmetry
