----------------------- MODULE MCBankReconciliation -----------------------
EXTENDS BankReconciliation, TLC

(* All entries are numbered in one series. *)
MCOneSeries == [x \in StatementLines \cup Payments |-> 1]

(* One statement line is of the payment's year and bank account, the        *)
(* others each of another.                                                  *)
MCManySeries ==
  LET near == CHOOSE l \in StatementLines : TRUE
  IN [x \in StatementLines \cup Payments |-> IF x \in StatementLines \ {near} THEN x ELSE 1]

(* Sessions, and with one series statement lines and payments, are          *)
(* interchangeable; the ids of bank entries are ordered.                    *)
MCSymmetry ==
  Permutations(Sessions) \cup Permutations(StatementLines) \cup Permutations(Payments)
=============================================================================
