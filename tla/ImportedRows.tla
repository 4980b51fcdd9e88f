---------------------------- MODULE ImportedRows ----------------------------
(***************************************************************************)
(* The rows of bank statements that are imported (bank_statement_line),    *)
(* beside the transactions the bank has told of, and what must be true of  *)
(* them.  StatementImport has the requests that import files.              *)
(*                                                                         *)
(* The bank's own history is a constant.  What a row says of itself (date, *)
(* amount, texts) is its look, and the hash of a line is the look with the *)
(* running balance.                                                        *)
(***************************************************************************)
EXTENDS Integers, Sequences, FiniteSets, Functions

CONSTANTS
  History,  \* transactions of the account: day, amount, text, readable
  Null

(* A bank tells its transactions in the order of their days.               *)
ASSUME HistoryAssumption ==
  /\ Len(History) \in Nat /\ DOMAIN History = 1..Len(History)
  /\ \A i \in DOMAIN History : /\ History[i].day \in Nat /\ History[i].amount \in Int \ {0}
                              /\ History[i].readable \in BOOLEAN
  /\ \A i, j \in DOMAIN History : i <= j => History[i].day <= History[j].day
  /\ Null \notin Int

VARIABLES
  format, \* the format in which the bank sends its statements of the account
  lines,  \* rows of bank_statement_line: hash and occurrence
  told    \* transactions that a file imported has told of, and could be read

Look(i) == [day |-> History[i].day, amount |-> History[i].amount, text |-> History[i].text]

AmountOf(I) == SumFunctionOnSet([i \in DOMAIN History |-> History[i].amount], I)

-----------------------------------------------------------------------------
Looks == {Look(i) : i \in DOMAIN History}

LinesOf(look) == {l \in lines : l.hash[1] = look}
ToldOf(look) == {i \in told : Look(i) = look}

(* "IF an imported row repeats a line already in the system, THEN the      *)
(* system SHALL skip it" (payments requirements, R7.AC4): there are never  *)
(* more lines of a look than transactions of that look the bank told of,   *)
(* for overlapping files imported in any order, again, and at once.        *)
NeverTwice == \A look \in Looks : Cardinality(LinesOf(look)) <= Cardinality(ToldOf(look))

(* "two identical payments on one day are two transactions"                *)
(* (tests/treasury/test_statement_import.py:168): there are never fewer.   *)
NeverLost == \A look \in Looks : Cardinality(LinesOf(look)) >= Cardinality(ToldOf(look))
=============================================================================
