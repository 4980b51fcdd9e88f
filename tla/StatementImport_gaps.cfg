SPECIFICATION Spec
CONSTANTS
  Null = Null
  Sessions = {s1}
  History <- MCUnreadable
  Formats = {"csv", "mt940"}
  MidDay = {"csv", "mt940"}
INVARIANTS NeverTwice NeverLost
SYMMETRY MCSymmetry
