----------------------------- MODULE OpenAccount -----------------------------
(***************************************************************************)
(* What the services that settle open items promise of an account: a line  *)
(* is opened once for an amount that never changes, a match takes part of  *)
(* two lines and gives back what it took when it is taken back, nothing is *)
(* taken twice, and a line is reversed once.  Settlement implements it     *)
(* with requests that race for locks, OpenItems with two currencies.       *)
(***************************************************************************)
EXTENDS Integers

CONSTANTS
  Sides(_),    \* the two lines of a match
  Taken(_, _)  \* what some matches take of a line

VARIABLES
  amount,    \* what each line was opened for
  open,      \* what of it is still open
  matches,
  reversals  \* pairs of a line and the one that reverses it

vars == <<amount, open, matches, reversals>>

Lines == DOMAIN amount

New == matches' \ matches
Gone == matches \ matches'

(* What is there stays, and what is open of it changes by matches alone.   *)
Keeps ==
  /\ Lines \subseteq DOMAIN amount'
  /\ DOMAIN open' = DOMAIN amount'
  /\ \A l \in Lines :
       /\ amount'[l] = amount[l]
       /\ open'[l] = open[l] + Taken(Gone, l) - Taken(New, l)
       /\ open'[l] >= 0

Opens(l, a) ==
  /\ l \notin Lines
  /\ DOMAIN amount' = Lines \cup {l}
  /\ amount'[l] = a /\ open'[l] = a

Init == open = amount /\ matches = {} /\ reversals = {}

Post ==
  /\ Keeps
  /\ \E l \in DOMAIN amount' : Opens(l, amount'[l]) /\ amount'[l] > 0
  /\ UNCHANGED <<matches, reversals>>

(* A request makes one match or several. *)
Settle ==
  /\ Keeps
  /\ Gone = {} /\ \A m \in New : Sides(m) \subseteq Lines /\ \A l \in Sides(m) : Taken({m}, l) > 0
  /\ UNCHANGED <<amount, reversals>>

TakeBack ==
  /\ Keeps
  /\ New = {} /\ \E m \in matches : Gone = {m}
  /\ UNCHANGED <<amount, reversals>>

(* A line is reversed once, by one of the same amount; its matches may be  *)
(* taken back with it, and no others.                                      *)
Reverse ==
  /\ Keeps
  /\ New = {}
  /\ \E l \in Lines, r \in DOMAIN amount' :
       /\ \A x \in reversals : x[1] # l
       /\ Opens(r, amount[l])
       /\ \A m \in Gone : l \in Sides(m)
       /\ reversals' = reversals \cup {<<l, r>>}

Next == Post \/ Settle \/ TakeBack \/ Reverse

Spec == Init /\ [][Next]_vars
=============================================================================
