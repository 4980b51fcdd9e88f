SPECIFICATION FairSpec
CONSTANTS
  None = None
  Sessions = {s1, s2}
  Invoices = {i1}
  Notes = {n1, n2}
  Amounts = {1, 2}
  Kinds = {"create", "note", "update", "edit", "delete", "post", "cancel"}
  Edited = {n1}
  Texts = {x1}
  Narrated = {n1}
INVARIANTS EntriesFollowState NotesWithinOriginal
PROPERTIES IssuedIsEvidence EveryRequestEnds
CHECK_DEADLOCK FALSE
