SPECIFICATION Spec
CONSTANTS
  None = None
  Sessions = {s1, s2, s3}
  Templates = {t1, t2}
  Dates <- MCDates
  Edited = {t1}
  Intervals = {1}
INVARIANTS BilledOnce BilledMonthByMonth
PROPERTIES PausedNotBilled
SYMMETRY MCSymmetry
