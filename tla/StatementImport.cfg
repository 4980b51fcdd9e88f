SPECIFICATION Spec
CONSTANTS
  Null = Null
  Sessions = {s1, s2}
  History <- MCHistory
  Formats = {"csv", "mt940", "ofx"}
  MidDay = {"mt940"}
INVARIANTS NeverTwice NeverLost
SYMMETRY MCSymmetry
