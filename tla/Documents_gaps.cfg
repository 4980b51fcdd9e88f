SPECIFICATION Spec
CONSTANTS
  None = None
  Sessions = {s1, s2}
  Invoices = {i1}
  Notes = {n1}
  Amounts = {1, 2}
  Kinds = {"create", "note", "update", "edit", "post", "cancel"}
  Edited = {i1}
  Texts = {x1}
  Narrated = {i1}
INVARIANTS NoDeadlock IssuedIsItsEntry
PROPERTIES NotesCorrectIssued OnlyCancellingChanges
CHECK_DEADLOCK FALSE
