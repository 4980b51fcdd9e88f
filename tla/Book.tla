-------------------------------- MODULE Book --------------------------------
(***************************************************************************)
(* What the posting engine promises its callers: a request that makes      *)
(* several calls adds an entry for each of them or for none, to a book     *)
(* gaplessly numbered per journal and fiscal year and closed up to a lock  *)
(* date.  Ledger implements it with transactions, row locks, unique        *)
(* indexes and triggers.                                                   *)
(***************************************************************************)
EXTENDS Integers, FiniteSets

CONSTANTS Requests, Dates, None, FiscalYear(_)

VARIABLES
  book,      \* the entries a caller can see
  lockDate,
  asked      \* calls that each request under way has made

Number(b, j, y) == {e.number : e \in {x \in b : x.journal = j /\ FiscalYear(x.date) = y}}

(* In every series the numbers are 1..n and no two entries share one. *)
WellNumbered(b) ==
  /\ \A e \in b :
       /\ e.number >= 1
       /\ 1..e.number \subseteq Number(b, e.journal, FiscalYear(e.date))
  /\ \A e, f \in b :
       e.journal = f.journal /\ FiscalYear(e.date) = FiscalYear(f.date) /\ e.number = f.number
         => e = f

(* One entry per source document; one reversal of each entry, and only of  *)
(* an entry in the book.                                                   *)
WellLinked(b) ==
  /\ \A e, f \in b :
       \/ e.source # None /\ e.source = f.source
       \/ e.reverses # None /\ e.reverses = f.reverses
         => e = f
  /\ \A e \in b : e.reverses # None => \E o \in b : o.id = e.reverses

Init == book = {} /\ lockDate = None /\ asked = [r \in Requests |-> 0]

Ask(r) ==
  /\ asked' = [asked EXCEPT ![r] = @ + 1]
  /\ UNCHANGED <<book, lockDate>>

Ends(r) == asked[r] > 0 /\ asked' = [asked EXCEPT ![r] = 0] /\ UNCHANGED lockDate

(* A request ends well: one entry for each of its calls, dated in open     *)
(* periods, joins the book.                                                *)
AddRequest(r) ==
  /\ Ends(r)
  /\ book \subseteq book'
  /\ Cardinality(book' \ book) = asked[r]
  /\ \A e \in book' \ book : lockDate # None => e.date > lockDate
  /\ WellNumbered(book')
  /\ WellLinked(book')

(* It fails: nothing of it is left. *)
DropRequest(r) == Ends(r) /\ UNCHANGED book

MoveLockDate ==
  /\ lockDate' \in Dates
  /\ UNCHANGED <<book, asked>>

Next ==
  \/ \E r \in Requests : Ask(r) \/ AddRequest(r) \/ DropRequest(r)
  \/ MoveLockDate

Spec == Init /\ [][Next]_<<book, lockDate, asked>>
=============================================================================
