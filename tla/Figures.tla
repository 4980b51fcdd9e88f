------------------------------ MODULE Figures ------------------------------
(***************************************************************************)
(* What documents and payments come to, and the lines they are posted as:  *)
(* app/billing/totals.py, build_posting_request of documents.py and        *)
(* payments.py, and validate_request and convert_lines of                  *)
(* app/ledger/posting.py.                                                  *)
(*                                                                         *)
(* An amount is a number of the smallest units of its currency, debits     *)
(* positive; quantities are in hundredths and rates in per cent.           *)
(***************************************************************************)
EXTENDS Integers, Sequences, FiniteSets, Functions, Calendar

CONSTANT Null  \* SQL's

(* quantize: to the nearest unit, halves away from zero.                   *)
Rounded(n, d) ==
  IF n >= 0 THEN (2 * n + d) \div (2 * d) ELSE -((d - 2 * n) \div (2 * d))

Magnitude(n) == IF n < 0 THEN -n ELSE n

(* The lines of a request are kept by what each is for.                    *)
Only(what) == <<what, 0>>

Total(lines, Of(_)) == SumFunctionOnSet([k \in DOMAIN lines |-> Of(lines[k])], DOMAIN lines)

-----------------------------------------------------------------------------
(* Documents.                                                              *)

CombinedRate(taxes) == SumFunctionOnSet([t \in taxes |-> t.rate], taxes)

(* Mutant of LineAmounts: taxes are charged on the price they are in.      *)
LineAmountsOnPrice(line, inclusive) ==
  LET price == line.quantity * line.price * (100 - line.discount)
      combined == IF inclusive THEN CombinedRate(line.taxes) ELSE 0
  IN [net |-> Rounded(price, 100 * (100 + combined)),
      tax |-> [t \in line.taxes |-> Rounded(price * t.rate, 1000000)]]

(* line_amounts: where the price includes the taxes they are worked back   *)
(* out of it; each is charged on the same net amount.                      *)
LineAmounts(line, inclusive) ==
  LET price == line.quantity * line.price * (100 - line.discount)
      combined == IF inclusive THEN CombinedRate(line.taxes) ELSE 0
      net == Rounded(price, 100 * (100 + combined))
  IN [net |-> net, tax |-> [t \in line.taxes |-> Rounded(net * t.rate, 100)]]

(* document_totals: the taxes of all lines, each with what it was charged  *)
(* on.                                                                     *)
DocumentTotals(lines, inclusive) ==
  LET Amounts(line) == LineAmounts(line, inclusive)
      net == Total(lines, LAMBDA line : Amounts(line).net)
      taxes == UNION {lines[i].taxes : i \in DOMAIN lines}
      With(t) == Restrict(lines, {i \in DOMAIN lines : t \in lines[i].taxes})
      groups == [t \in taxes |->
                  [base   |-> Total(With(t), LAMBDA line : Amounts(line).net),
                   amount |-> Total(With(t), LAMBDA line : Amounts(line).tax[t])]]
      tax == Total(groups, LAMBDA group : group.amount)
  IN [net |-> net, groups |-> groups, tax |-> tax, total |-> net + tax]

Outgoing(document) == document.type \in {"out_invoice", "out_credit"}
Note(document) == document.type \in {"out_credit", "in_debit"}

IsEffectiveOn(tax, on) ==
  /\ tax.from # Null => NotAfter(tax.from, on)
  /\ tax.to # Null => NotAfter(on, tax.to)

(* _check_taxes                                                            *)
TaxesApply(document) ==
  \A i \in DOMAIN document.lines : \A t \in document.lines[i].taxes :
    /\ IsEffectiveOn(t, document.date)
    /\ t.type = IF Outgoing(document) THEN "sale" ELSE "purchase"

(* _zero_rated_tags: the taxes of a line that come to nothing.             *)
Untaxed(line, inclusive) == {t \in line.taxes : LineAmounts(line, inclusive).tax[t] = 0}

Unambiguous(document) ==
  \A i \in DOMAIN document.lines :
    Cardinality(Untaxed(document.lines[i], document.inclusive)) <= 1

(* An invoice or a debit note debits its open item; a bill or a credit     *)
(* note credits it.                                                        *)
OpenItemIsDebit(document) == Outgoing(document) # Note(document)

Sided(amount, debit) == IF debit THEN amount ELSE -amount

Plain(account, amount) ==
  [account |-> account, amount |-> amount, tax |-> Null, tag |-> Null, base |-> Null]

Taxed(account, amount, tax, base) ==
  [account |-> account, amount |-> amount, tax |-> tax.name, tag |-> tax.tag, base |-> base]

(* A line's net amount, with the tag of the tax that comes to nothing.     *)
NetLine(document, line) ==
  LET net == LineAmounts(line, document.inclusive).net
      untaxed == Untaxed(line, document.inclusive)
      side == Sided(net, ~OpenItemIsDebit(document))
  IN IF untaxed = {} THEN Plain(line.account, side)
     ELSE Taxed(line.account, side, CHOOSE t \in untaxed : TRUE, net)

NonZero(lines) == Restrict(lines, {k \in DOMAIN lines : lines[k].amount # 0})

(* build_posting_request of a document: the open item, the lines, then a   *)
(* line for each tax.                                                      *)
DocumentRequest(document, defaults) ==
  LET totals == DocumentTotals(document.lines, document.inclusive)
      debit == OpenItemIsDebit(document)
      open == Plain(defaults[IF Outgoing(document) THEN "receivable" ELSE "payable"],
                    Sided(totals.total, debit))
      TaxLine(t) == Taxed(t.account, Sided(totals.groups[t].amount, ~debit), t,
                          totals.groups[t].base)
      keys == {Only("open")} \cup ({"line"} \X DOMAIN document.lines)
                \cup ({"tax"} \X DOMAIN totals.groups)
  IN NonZero([k \in keys |-> CASE k[1] = "open" -> open
                               [] k[1] = "line" -> NetLine(document, document.lines[k[2]])
                               [] k[1] = "tax"  -> TaxLine(k[2])])

-----------------------------------------------------------------------------
(* Payments.                                                               *)

(* _withheld                                                               *)
Withheld(payment) ==
  IF payment.withholding = Null THEN 0
  ELSE Rounded(payment.amount * payment.withholding.rate, 100)

(* _validate, and the checks of _withheld.                                 *)
ValidPayment(payment) ==
  /\ payment.direction \in {"inbound", "outbound"}
  /\ payment.amount > 0
  /\ payment.withholding # Null => payment.withholding.type = "withholding"
  /\ Withheld(payment) < payment.amount

(* build_posting_request of a payment: the partner's account in full, the  *)
(* outstanding account with what moves, and the tax withheld.              *)
PaymentRequest(payment, defaults) ==
  LET inbound == payment.direction = "inbound"
      withheld == Withheld(payment)
      partner == Plain(defaults[IF inbound THEN "receivable" ELSE "payable"],
                       Sided(payment.amount, ~inbound))
      moves == Plain(defaults[IF inbound THEN "outstanding_receipts" ELSE "outstanding_payments"],
                     Sided(payment.amount - withheld, inbound))
      tax == payment.withholding
      taxed == [Plain(tax.account, Sided(withheld, inbound)) EXCEPT !.tax = tax.name, !.tag = tax.tag]
      keys == {Only("partner"), Only("moves")} \cup (IF withheld > 0 THEN {Only("tax")} ELSE {})
  IN [k \in keys |-> CASE k[1] = "partner" -> partner
                      [] k[1] = "moves"   -> moves
                      [] k[1] = "tax"     -> taxed]

(* _entry_for: a statement line moves the bank account against the         *)
(* outstanding account.                                                    *)
BankRequest(payment, bank, defaults) ==
  LET inbound == payment.direction = "inbound"
      moves == payment.amount - Withheld(payment)
      outstanding == defaults[IF inbound THEN "outstanding_receipts" ELSE "outstanding_payments"]
  IN [k \in {Only("bank"), Only("moves")} |->
       IF k[1] = "bank" THEN Plain(bank, Sided(moves, inbound))
       ELSE Plain(outstanding, Sided(moves, ~inbound))]

-----------------------------------------------------------------------------
(* Entries.                                                                *)

(* validate_request                                                        *)
ValidRequest(lines) ==
  /\ Cardinality(DOMAIN lines) >= 2
  /\ \A i \in DOMAIN lines : lines[i].amount # 0
  /\ Total(lines, LAMBDA line : line.amount) = 0

Stored(line, amount) ==
  [account |-> line.account, amount |-> amount, currency |-> line.amount, tax |-> line.tax,
   tag |-> line.tag, base |-> line.base]

Converted(lines, rate) ==
  [i \in DOMAIN lines |-> Stored(lines[i], Rounded(lines[i].amount * rate.of, rate.per))]

(* What rounding every line has left of an entry that balanced.            *)
RoundingDifference(lines, rate) == Total(Converted(lines, rate), LAMBDA line : line.amount)

(* max_rounding: half a unit a line.                                       *)
WithinRounding(lines, rate) ==
  2 * Magnitude(RoundingDifference(lines, rate)) <= Cardinality(DOMAIN lines)

(* Mutant of ConvertLines: the difference is left where it is.             *)
ConvertLinesAlone(lines, rate, rounding) == Converted(lines, rate)

(* convert_lines: what rounding left is posted on the rounding account.    *)
ConvertLines(lines, rate, rounding) ==
  LET difference == RoundingDifference(lines, rate)
  IN IF difference = 0 THEN Converted(lines, rate)
     ELSE [k \in DOMAIN lines \cup {Only("rounding")} |->
            IF k = Only("rounding") THEN [Stored(Plain(rounding, 0), -difference) EXCEPT !.currency = 0]
            ELSE Converted(lines, rate)[k]]

(* Mutant of Opposite: the basis is not carried.                           *)
OppositeWithoutBase(line) == [line EXCEPT !.amount = -@, !.currency = -@, !.base = Null]

(* reverse: amounts are copied, the sides exchanged.                       *)
Opposite(line) == [line EXCEPT !.amount = -@, !.currency = -@]

(* The CHECK that a basis has a tag, and the trigger's that an entry moves *)
(* something and balances.                                                 *)
Storable(lines) ==
  /\ \A i \in DOMAIN lines : lines[i].base # Null => lines[i].tag # Null
  /\ \E i \in DOMAIN lines : lines[i].amount # 0
  /\ Total(lines, LAMBDA line : line.amount) = 0
  /\ Total(lines, LAMBDA line : line.currency) = 0
=============================================================================
