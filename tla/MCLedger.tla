------------------------------ MODULE MCLedger ------------------------------
(* Ledger on small instances.  Only sessions are interchangeable: ids are  *)
(* drawn in order, and the other constants occur alone in their sets.      *)
EXTENDS Ledger, TLC

Symmetry == Permutations(Sessions)
=============================================================================
