------------------------------ MODULE RowLocks ------------------------------
(***************************************************************************)
(* PostgreSQL's row locks, as the transactions of the other modules take   *)
(* them.  A lock is a row and a mode.  A transaction is a record with the  *)
(* locks it still asks for, in order (queue), and those it has until it    *)
(* ends (held).                                                            *)
(***************************************************************************)
EXTENDS Integers, Sequences, FiniteSets

(* FOR KEY SHARE, FOR SHARE, FOR NO KEY UPDATE and FOR UPDATE. *)
Modes == {"key_share", "share", "no_key_update", "update"}

Strength(mode) ==
  CASE mode = "key_share"     -> 1
    [] mode = "share"         -> 2
    [] mode = "no_key_update" -> 3
    [] mode = "update"        -> 4

(* The table of conflicting modes. *)
Conflicting(m, n) == Strength(m) + Strength(n) > 4

Clash(l, k) == l[1] = k[1] /\ Conflicting(l[2], k[2])

(* Whom s waits for, of the transactions tx. *)
WaitsFor(tx, s) ==
  IF tx[s].queue = <<>> THEN {}
  ELSE {t \in DOMAIN tx \ {s} : \E l \in tx[t].held : Clash(l, Head(tx[s].queue))}

CanTakeLock(tx, s) == tx[s].queue # <<>> /\ WaitsFor(tx, s) = {}

WithLock(t) == [t EXCEPT !.held = @ \cup {Head(t.queue)}, !.queue = Tail(@)]

(* Sessions each of which waits for another of them. *)
Stuck(tx, S) == S # {} /\ \A s \in S : WaitsFor(tx, s) \cap S # {}

(* The detector cancels a transaction of a smallest such set, a cycle.     *)
InCycle(tx, s) ==
  \E S \in SUBSET DOMAIN tx : s \in S /\ Stuck(tx, S) /\ \A R \in SUBSET S : R # S => ~Stuck(tx, R)
=============================================================================
