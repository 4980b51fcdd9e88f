SPECIFICATION FairSpec
CONSTANTS
  None = None
  Absent = Absent
  Workers = {w1, w2}
  People = {p1, p2}
  Companies = {c1}
  Invitations = {i1, i2, i3}
  Scopes <- MCScopes
INVARIANTS OneOpenInvitation SoundAlone
PROPERTIES EveryRequestEnds
