------------------------------ MODULE Reports ------------------------------
(***************************************************************************)
(* What the statements are read of: the entries that documents, payments,  *)
(* bank statement lines and cancellations leave, with the exchange rates   *)
(* on file (app/ledger/rates.py, app/coa/rates.py).                        *)
(*                                                                         *)
(* One request is one step here: Ledger is about requests that overlap,    *)
(* and a report is one read.  Figures is what an entry's lines are.        *)
(***************************************************************************)
EXTENDS Statements

CONSTANTS
  Quotes,      \* exchange rates a user may enter
  Files,       \* files of exchange rates a user may import
  StartMonths, \* months a company's fiscal year may start with
  MaxEntries   \* bound: entries posted

(* What set_rate accepts; Null is a currency that is not known, or not     *)
(* read.                                                                   *)
Accepted(q) == q.currency \notin {Base, Null} /\ q.of > 0

DefaultNames ==
  {"receivable", "payable", "rounding", "bank", "outstanding_receipts", "outstanding_payments"}

IsTax(t) == t # Null /\ t.rate \in Nat /\ t.account \in DOMAIN Accounts

IsDraftLine(line) ==
  /\ line.account \in DOMAIN Accounts
  /\ line.quantity \in Nat /\ line.price \in Nat /\ line.discount \in 0..100
  /\ IsFiniteSet(line.taxes) /\ \A t \in line.taxes : IsTax(t)

IsQuote(q) == q.day \in BusinessDays /\ q.of \in Int /\ q.per \in Nat \ {0}

ASSUME ReportsAssumption ==
  /\ Defaults \in [DefaultNames -> DOMAIN Accounts]
  /\ \A d \in Documents : /\ <<"document", d.id>> # Null
                          /\ d.date \in BookDays /\ IsFiniteSet(DOMAIN d.lines)
                          /\ \A i \in DOMAIN d.lines : IsDraftLine(d.lines[i])
                          /\ \A e \in Documents : e.id = d.id => e = d
  /\ \A p \in Payments : /\ <<"payment", p.id>> # Null /\ <<"bank", p.id>> # Null
                         /\ p.date \in BookDays /\ p.amount \in Int
                         /\ p.withholding # Null => IsTax(p.withholding)
  /\ \A t, u \in Taxes : t.name = u.name => t = u
  /\ \A q \in Quotes : IsQuote(q) /\ Accepted(q)
  /\ \A f \in Files : IsFiniteSet(DOMAIN f) /\ \A i \in DOMAIN f : IsQuote(f[i])
  /\ StartMonths \subseteq 1..12
  /\ MaxEntries \in Nat

vars == <<entries, posted, quotes, startMonth>>

-----------------------------------------------------------------------------
(* Posting.                                                                *)

Posted(source) == \E e \in entries : e.source = source

Dated(line, source, number, on, journal) ==
  [source |-> source, number |-> number, date |-> on, journal |-> journal,
   account |-> line.account, amount |-> line.amount, currency |-> line.currency,
   tax |-> line.tax, tag |-> line.tag, base |-> line.base]

(* post: one entry for a source, at the rate of its day.                   *)
Post(source, on, currency, journal, lines) ==
  /\ Cardinality(entries) < MaxEntries
  /\ ~Posted(source)
  /\ ValidRequest(lines)
  /\ HasRate(currency, on)
  /\ LET rate == GetRate(currency, on)
         stored == ConvertLines(lines, rate, Defaults.rounding)
     IN /\ WithinRounding(lines, rate)
        /\ Storable(stored)
        /\ posted' = posted \cup {Dated(stored[i], source, i, on, journal) : i \in DOMAIN stored}
  /\ entries' = entries \cup {[source |-> source, reverses |-> Null, date |-> on, journal |-> journal]}
  /\ UNCHANGED <<quotes, startMonth>>

(* post_document, of an invoice, a bill or a note.                         *)
Issue(d) ==
  /\ TaxesApply(d)
  /\ Unambiguous(d)
  /\ Post(<<"document", d.id>>, d.date, d.currency, d.type, DocumentRequest(d, Defaults))

(* post_payment *)
Pay(p) ==
  /\ ValidPayment(p)
  /\ Post(<<"payment", p.id>>, p.date, p.currency, "bank", PaymentRequest(p, Defaults))

(* reconcile_line, of a line with a payment that is posted.                *)
Reconcile(p, on) ==
  /\ \E e \in entries : e.source = <<"payment", p.id>> /\ ~Reversed(e)
  /\ Post(<<"bank", p.id>>, on, p.currency, "bank", BankRequest(p, Defaults.bank, Defaults))

(* cancel_document, cancel_payment and undo_reconcile: the entry stays and *)
(* a reversal of its date joins it.                                        *)
Cancel(e) ==
  /\ Cardinality(entries) < MaxEntries
  /\ e.reverses = Null /\ ~Reversed(e)
  /\ LET source == <<"reversal", e.source>>
     IN /\ entries' = entries \cup {[e EXCEPT !.source = source, !.reverses = e.source]}
        /\ posted' = posted \cup {OppositeFor(source, l) : l \in LinesOf(e.source)}
  /\ UNCHANGED <<quotes, startMonth>>

(* One rate for a currency and a day: a second takes the first's place.    *)
SameDay(q, r) == q.currency = r.currency /\ q.day = r.day

(* set_rate *)
SetRate(q) ==
  /\ q \notin quotes
  /\ quotes' = {r \in quotes : ~SameDay(r, q)} \cup {q}
  /\ UNCHANGED <<entries, posted, startMonth>>

(* import_rates: rows in their order, each in a savepoint of its own, those *)
(* refused or not read left out; of two for a day the later one stays.     *)
ImportRates(file) ==
  LET good == {i \in DOMAIN file : Accepted(file[i])}
      last == {i \in good : \A j \in good : SameDay(file[i], file[j]) => j <= i}
  IN /\ quotes' = {r \in quotes : \A i \in good : ~SameDay(r, file[i])} \cup {file[i] : i \in last}
     /\ UNCHANGED <<entries, posted, startMonth>>

-----------------------------------------------------------------------------
Init ==
  /\ entries = {}
  /\ posted = {}
  /\ quotes = {}
  /\ startMonth \in StartMonths

Next ==
  \/ \E d \in Documents : Issue(d)
  \/ \E p \in Payments : Pay(p)
  \/ \E p \in Payments, on \in BookDays : Reconcile(p, on)
  \/ \E e \in entries : Cancel(e)
  \/ \E q \in Quotes : SetRate(q)
  \/ \E f \in Files : ImportRates(f)

Spec == Init /\ [][Next]_vars

(* The rates the conversions need (RecurringProofs).                       *)
Quoted == IsFiniteSet(quotes) /\ \A q \in quotes : IsQuote(q)

=============================================================================
