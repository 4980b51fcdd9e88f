---------------------------- MODULE MCRecurring ----------------------------
(* Invoices of the end of the month, over a short month.                   *)
EXTENDS Recurring, TLC

MCDates == {Date(2024, 1, 31), Date(2024, 2, 29)}
Quarter == MCDates \cup {Date(2024, 3, 31)}

(* Sessions are interchangeable.                                           *)
MCSymmetry == Permutations(Sessions)
=============================================================================
