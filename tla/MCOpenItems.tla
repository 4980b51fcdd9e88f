----------------------------- MODULE MCOpenItems -----------------------------
(* Two days and a third on which reports are asked for; the dollar is worth *)
(* four thirds of the company's unit on the first and twice as much on the  *)
(* second, so that some matches post a difference, some need none and some  *)
(* are refused.                                                             *)
EXTENDS OpenItems

MCQuotes ==
  {[currency |-> "usd", day |-> 1, of |-> 4, per |-> 3],
   [currency |-> "usd", day |-> 2, of |-> 2, per |-> 1]}

(* Invoices, credit notes and what customers pay.                           *)
MCOrigins == {<<"document", "debit">>, <<"document", "credit">>, <<"payment", "credit">>}

(* A currency of which ten make three of the company's.                     *)
MCSmall == {[currency |-> "sek", day |-> 1, of |-> 3, per |-> 11]}
=============================================================================
