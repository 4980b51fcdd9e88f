---------------------------- MODULE MCSettlement ----------------------------
(* Settlement on small instances.  Sessions are interchangeable; lines and *)
(* matches are ordered by their ids and are not.                           *)
EXTENDS Settlement

Symmetry == Permutations(Sessions)

(* An update lowers the amount or writes a memo.                           *)
MCChanges == {<<1, None>>} \cup {<<None, memo>> : memo \in Memos}
=============================================================================
