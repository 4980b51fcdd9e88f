------------------------- MODULE MCStatementImport -------------------------
EXTENDS StatementImport, TLC

MCSymmetry == Permutations(Sessions)

Row(day, amount, readable) == [day |-> day, amount |-> amount, text |-> "deposit", readable |-> readable]

(* Twice the same on one day, something between, and the same again later. *)
MCHistory ==
  <<Row(1, 5, TRUE), Row(1, 5, TRUE), Row(1, -2, TRUE), Row(2, 5, TRUE), Row(2, 5, TRUE)>>

(* Another in the middle of a day that cannot be read. *)
MCUnreadable == <<Row(1, 5, TRUE), Row(1, 5, TRUE), Row(1, 3, FALSE), Row(1, 7, TRUE)>>
=============================================================================
