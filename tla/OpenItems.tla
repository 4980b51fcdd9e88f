------------------------------ MODULE OpenItems ------------------------------
(***************************************************************************)
(* Open items in two currencies (app/treasury/matching.py, exchange.py),   *)
(* the aged report over them (app/reporting/aged.py) and the payment state *)
(* of documents (app/treasury/state.py).                                   *)
(*                                                                         *)
(* Every line is on the company's receivable account.  It has an amount in *)
(* its own currency and one in the company's, at the rate of its day; a    *)
(* match takes something off both amounts of both its lines, and where the *)
(* two sides differ in company currency it posts the difference.  Matches  *)
(* over the same lines queue for them (module Settlement), so a match is   *)
(* one step here.                                                          *)
(*                                                                         *)
(* Amounts are counted in units of the database's NUMERIC(20, 6); Minor of *)
(* them make the smallest amount a currency has.                           *)
(***************************************************************************)
EXTENDS Integers, Sequences, FiniteSets, FiniteSetsExt, Functions

CONSTANTS
  Currencies,  \* currencies lines may be in
  Base,        \* the company's own
  Days,        \* days entries may be dated
  Today,       \* the day reports are asked for
  Quotes,      \* exchange rates on file
  Origins,     \* what is posted: documents and payments, and on which side
  Amounts,     \* amounts, in the line's currency, an entry may have
  Takes,       \* amounts a clerk may ask to match
  Minor,       \* units that make the smallest amount of a currency
  MaxLines,    \* bound: lines posted
  MatchIds     \* bound: ids of reconciliation rows

ASSUME OpenItemsAssumption ==
  /\ Base \in Currencies
  /\ Days \subseteq Nat /\ Today \in Nat
  /\ Quotes \subseteq [currency: Currencies \ {Base}, day: Days, of: Nat \ {0}, per: Nat \ {0}]
  /\ Origins \subseteq {"document", "payment"} \X {"debit", "credit"}
  /\ Minor \in Nat \ {0}
  /\ \A a \in Amounts \cup Takes : a \in Nat \ {0} /\ a % Minor = 0
  /\ MaxLines \in Nat /\ MatchIds \subseteq Nat

VARIABLES
  lines,       \* receivable lines, in the order they were posted
  matches,     \* reconciliation rows
  differences  \* by day, what exchange differences have debited the account

vars == <<lines, matches, differences>>

Sides == {"debit", "credit"}

(* Rounding to whole multiples of a unit, halves away from zero.           *)
Rounded(amount, per, unit) == ((2 * amount + per * unit) \div (2 * per * unit)) * unit
IsRounded(amount, unit) == amount % unit = 0

(***************************************************************************)
(* Posting.                                                                *)
(***************************************************************************)

(* The rates of a currency on or before a day; the latest of them counts.  *)
QuotesBy(currency, day) == {q \in Quotes : q.currency = currency /\ q.day <= day}

HasRate(currency, day) == currency = Base \/ QuotesBy(currency, day) # {}

Converted(amount, currency, day) ==
  IF currency = Base THEN amount
  ELSE LET latest == CHOOSE q \in QuotesBy(currency, day) :
                       \A r \in QuotesBy(currency, day) : r.day <= q.day
       IN Rounded(amount * latest.of, latest.per, Minor)

OpenLine(of, side, currency, day, amount, amountCurrency, reverses) ==
  [of |-> of, side |-> side, currency |-> currency, day |-> day, amount |-> amount,
   amountCurrency |-> amountCurrency, residual |-> amount,
   residualCurrency |-> amountCurrency, reverses |-> reverses]

(* post(): an invoice's debit, a payment's or a credit note's credit.  A   *)
(* line worth nothing in company currency is refused by a CHECK.           *)
Post ==
  \E origin \in Origins, currency \in Currencies, day \in Days, a \in Amounts :
    /\ Len(lines) < MaxLines
    /\ HasRate(currency, day)
    /\ Converted(a, currency, day) > 0
    /\ lines' = Append(lines, OpenLine(origin[1], origin[2], currency, day,
                                       Converted(a, currency, day), a, 0))
    /\ UNCHANGED <<matches, differences>>

Reversed(l) == \E k \in DOMAIN lines : lines[k].reverses = l

MatchesOf(l) == {m \in matches : l \in {m.debit, m.credit}}

(* A match seen from one of its lines: the line across, and what it took.  *)
Across(m, l) == IF m.debit = l THEN m.credit ELSE m.debit
TakenFrom(m, l) == IF m.debit = l THEN m.debitTaken ELSE m.creditTaken

AmountTaken(l, from) == SumFunctionOnSet([m \in from |-> TakenFrom(m, l).amount], from)
CurrencyTaken(l, from) == SumFunctionOnSet([m \in from |-> TakenFrom(m, l).currency], from)

(* What matches take of a line in the company's currency. *)
Ends(m) == {m.debit, m.credit}
TakenOf(ms, l) == AmountTaken(l, {m \in ms : l \in Ends(m)})

(* reverse(): both amounts are copied, not converted again.  Cancelling a  *)
(* payment takes its matches back first; cancelling a document does not.   *)
Reverse ==
  \E l \in DOMAIN lines :
    /\ Len(lines) < MaxLines
    /\ ~Reversed(l)
    /\ lines[l].of = "payment" => MatchesOf(l) = {}
    /\ LET o == lines[l]
           side == IF o.side = "debit" THEN "credit" ELSE "debit"
       IN lines' = Append(lines, OpenLine("reversal", side, o.currency, o.day, o.amount,
                                          o.amountCurrency, l))
    /\ UNCHANGED <<matches, differences>>

(***************************************************************************)
(* Matching.                                                               *)
(***************************************************************************)

Closed(line) == line.residual = 0 /\ line.residualCurrency = 0
Open(line) == ~Closed(line) /\ line.residual > 0

Shared(d, c) == d.currency = c.currency

(* As much as both can take.                                               *)
Available(d, c) ==
  IF Shared(d, c) THEN Min({d.residualCurrency, c.residualCurrency})
                  ELSE Min({d.residual, c.residual})

(* What a part of the open amount in one currency is worth in the other.   *)
(* The places are those of the column, not of the currency.                *)
Share(take, of, other) ==
  IF of = 0 THEN 0 ELSE IF take = of THEN other ELSE Rounded(other * take, of, 1)

CompanyShare(line, take) == Share(take, line.residualCurrency, line.residual)
CurrencyShare(line, take) == Share(take, line.residual, line.residualCurrency)

Taken(line, take, shared) ==
  IF shared THEN [amount |-> CompanyShare(line, take), currency |-> take]
            ELSE [amount |-> take, currency |-> CurrencyShare(line, take)]

(* difference_between: a gain when the credit was worth more than the      *)
(* debit it cleared; none in the company's own currency, where the two     *)
(* sides are alike, nor between two currencies.                            *)
Gap(d, c, take) ==
  IF Shared(d, c) /\ d.currency # Base
  THEN Taken(c, take, TRUE).amount - Taken(d, take, TRUE).amount
  ELSE 0

Closing(line, taken) ==
  [line EXCEPT !.residual = @ - taken.amount, !.residualCurrency = @ - taken.currency]

(* Mutant: what is given back is the company amount, in both currencies.   *)
ReopeningAlike(line, taken) ==
  [line EXCEPT !.residual = @ + taken.amount, !.residualCurrency = @ + taken.amount]

Reopening(line, taken) ==
  [line EXCEPT !.residual = @ + taken.amount, !.residualCurrency = @ + taken.currency]

Matchable(d, c) ==
  /\ Open(lines[d]) /\ lines[d].side = "debit"
  /\ Open(lines[c]) /\ lines[c].side = "credit"

(* Mutant: the difference is posted on the day of the debit.               *)
DebitsDay(d, c) == lines[d].day

LatestDay(d, c) == Max({lines[d].day, lines[c].day})

NextId == Min(MatchIds \ {m.id : m \in matches})

(* match_amount: both sides close by what they give up, and the difference *)
(* is posted on the later day.  post() refuses one that is not rounded and *)
(* the table a side that gives up nothing; the request is then rolled      *)
(* back.  match_lines is a sequence of these steps under one set of locks. *)
Match ==
  \E d, c \in DOMAIN lines :
    /\ Matchable(d, c)
    /\ {m.id : m \in matches} # MatchIds
    /\ \E take \in Takes \cup {Available(lines[d], lines[c])} :
         LET shared == Shared(lines[d], lines[c])
             fromDebit == Taken(lines[d], take, shared)
             fromCredit == Taken(lines[c], take, shared)
             gap == Gap(lines[d], lines[c], take)
             day == LatestDay(d, c)
         IN /\ take > 0 /\ take <= Available(lines[d], lines[c])
            /\ fromDebit.amount > 0 /\ fromCredit.amount > 0
            /\ IsRounded(gap, Minor)
            /\ lines' = [lines EXCEPT ![d] = Closing(@, fromDebit),
                                      ![c] = Closing(@, fromCredit)]
            /\ matches' = matches \cup
                 {[id |-> NextId, debit |-> d, credit |-> c, debitTaken |-> fromDebit,
                   creditTaken |-> fromCredit, gap |-> gap, day |-> day]}
            /\ differences' = [differences EXCEPT ![day] = @ + gap]

(* unmatch: what was taken is given back and the difference is reversed on *)
(* the day it was posted.                                                  *)
Unmatch ==
  \E m \in matches :
    /\ lines' = [lines EXCEPT ![m.debit] = Reopening(@, m.debitTaken),
                              ![m.credit] = Reopening(@, m.creditTaken)]
    /\ matches' = matches \ {m}
    /\ differences' = [differences EXCEPT ![m.day] = @ - m.gap]

Init ==
  /\ lines = <<>>
  /\ matches = {}
  /\ differences = [day \in Days |-> 0]

Next == Post \/ Reverse \/ Match \/ Unmatch

Spec == Init /\ [][Next]_vars

(***************************************************************************)
(* The aged report.                                                        *)
(***************************************************************************)

Signed(line, amount) == IF line.side = "debit" THEN amount ELSE -amount

Until(on) == {l \in DOMAIN lines : lines[l].day <= on}

(* OPEN_AS_OF: what the line was posted for, less what matches with lines  *)
(* dated by then have taken off it.                                        *)
OpenAsOf(l, on) ==
  lines[l].amount - AmountTaken(l, {m \in MatchesOf(l) : lines[Across(m, l)].day <= on})

(* A day that has passed is rebuilt; today and later read what is open.    *)
OpenOn(l, on) == IF on < Today THEN OpenAsOf(l, on) ELSE lines[l].residual

AgedTotal(on) ==
  SumFunctionOnSet([l \in Until(on) |-> Signed(lines[l], OpenOn(l, on))], Until(on))

Balance(on) ==
  SumFunctionOnSet([l \in Until(on) |-> Signed(lines[l], lines[l].amount)], Until(on))
  + SumFunctionOnSet(differences, {day \in Days : day <= on})

(***************************************************************************)
(* The payment state of a document, derived when it is read.               *)
(***************************************************************************)

DocumentLines == {l \in DOMAIN lines : lines[l].of = "document"}
PaymentLines == {l \in DOMAIN lines : lines[l].of = "payment"}

(* The payments that settled it.                                          *)
PaymentsBehind(l) == {p \in PaymentLines : \E m \in MatchesOf(l) : Across(m, l) = p}

(* Mutant: by what they gave up themselves.                                *)
BehindTheirs(l) == [p \in PaymentsBehind(l) |-> AmountTaken(p, MatchesOf(l) \cap MatchesOf(p))]

(* _payments_behind: each with how much of it it settled.                  *)
Behind(l) == [p \in PaymentsBehind(l) |-> AmountTaken(l, MatchesOf(l) \cap MatchesOf(p))]

(* payment_state_of *)
PaymentState(l) ==
  IF Reversed(l) THEN [state |-> "cancelled", paid |-> 0, payments |-> <<>>]
  ELSE [state    |-> IF lines[l].residual = lines[l].amount THEN "not_paid"
                     ELSE IF lines[l].residual = 0 THEN "paid" ELSE "partial",
        paid     |-> lines[l].amount - lines[l].residual,
        payments |-> Behind(l)]

(* documents_settled_by, whatever their states.                            *)
SettledBy(p) == {l \in DocumentLines : \E m \in MatchesOf(p) : Across(m, p) = l}

(***************************************************************************)
(* Properties.                                                             *)
(***************************************************************************)

(* check_line_residual (0005_payments.py:248-294) agrees with every line:  *)
(* in both currencies what is open is the line's amount less its matches   *)
(* and they take no more than it has, so the trigger never refuses a match *)
(* or the undoing of one, in whatever order they come (R3.AC5).            *)
ResidualsAgree ==
  \A l \in DOMAIN lines :
    /\ lines[l].residual >= 0 /\ lines[l].residualCurrency >= 0
    /\ lines[l].residual = lines[l].amount - AmountTaken(l, MatchesOf(l))
    /\ lines[l].residualCurrency = lines[l].amountCurrency - CurrencyTaken(l, MatchesOf(l))

(* The aged report of any day totals the balance of the account on that    *)
(* day, exchange differences included (R5.AC5, R10.AC4 of the reports).    *)
AgedIsBalance == \A on \in Days \cup {Today} : AgedTotal(on) = Balance(on)

(* What a document shows as paid is what payments, credit notes and        *)
(* reversals together took off it; a payment is listed with the documents  *)
(* it settled exactly when they list it, and one that settles nothing is   *)
(* not listed (R6.AC1-AC6).                                                *)
PaidIsExplained ==
  \A l \in DocumentLines : ~Reversed(l) =>
    LET shown == PaymentState(l)
        others == {m \in MatchesOf(l) : Across(m, l) \notin PaymentLines}
    IN /\ shown.paid = SumFunctionOnSet(shown.payments, DOMAIN shown.payments)
                        + AmountTaken(l, others)
       /\ \A p \in PaymentLines : p \in DOMAIN shown.payments <=> l \in SettledBy(p)
       /\ (shown.state = "not_paid") <=> MatchesOf(l) = {}

Reversals == {x \in (DOMAIN lines) \X (DOMAIN lines) : lines[x[2]].reverses = x[1]}

(* In the company's currency too, whatever differences a match posts, each *)
(* request is a step of the abstract account (matching.py, posting.py).    *)
AbstractAccount ==
  INSTANCE OpenAccount WITH
    Sides <- Ends, Taken <- TakenOf, matches <- matches,
    amount <- [l \in DOMAIN lines |-> lines[l].amount],
    open <- [l \in DOMAIN lines |-> lines[l].residual],
    reversals <- Reversals

RefinesAccount == AbstractAccount!Spec

(* A payment settles no document that has been cancelled (state.py:142).   *)
NothingSettledIsCancelled == \A p \in PaymentLines : \A l \in SettledBy(p) : ~Reversed(l)

(* Closed is closed in both currencies (matching.py:304-306): nothing is   *)
(* left open in one of them that no further match can take.                *)
ClosedInBoth ==
  \A l \in DOMAIN lines : lines[l].residual = 0 <=> lines[l].residualCurrency = 0

(***************************************************************************)
(* What the proofs take by induction.                                      *)
(***************************************************************************)

OpenLines ==
  [of: {"document", "payment", "reversal"}, side: Sides, currency: Currencies, day: Days,
   amount: Nat \ {0}, amountCurrency: Nat \ {0}, residual: Int, residualCurrency: Int,
   reverses: Nat]

Takings == [amount: Nat \ {0}, currency: Nat]

MatchRows ==
  [id: MatchIds, debit: Nat, credit: Nat, debitTaken: Takings, creditTaken: Takings,
   gap: Int, day: Days]

TypeOK ==
  /\ lines \in Seq(OpenLines)
  /\ matches \subseteq MatchRows /\ IsFiniteSet(matches)
  /\ differences \in [Days -> Int]

IdsApart == \A m, n \in matches : m.id = n.id => m = n

(* A match is between a debit and a credit; the difference it posted, on   *)
(* the later day of the two, is what its sides are apart.                  *)
MatchesFit ==
  \A m \in matches :
    /\ m.debit \in DOMAIN lines /\ lines[m.debit].side = "debit"
    /\ m.credit \in DOMAIN lines /\ lines[m.credit].side = "credit"
    /\ m.day = LatestDay(m.debit, m.credit)
    /\ m.gap = m.creditTaken.amount - m.debitTaken.amount

(* In the company's own currency a line and what is taken from it have the *)
(* same amount twice.                                                      *)
BaseAlike ==
  /\ \A l \in DOMAIN lines : lines[l].currency = Base =>
       lines[l].amount = lines[l].amountCurrency /\ lines[l].residual = lines[l].residualCurrency
  /\ \A m \in matches : \A l \in {m.debit, m.credit} : lines[l].currency = Base =>
       TakenFrom(m, l).amount = TakenFrom(m, l).currency

(* What OPEN_AS_OF rebuilds of any day, even of one to come, totals the    *)
(* balance of that day.                                                    *)
RebuiltIsBalance ==
  \A on \in Days \cup {Today} :
    SumFunctionOnSet([l \in Until(on) |-> Signed(lines[l], OpenAsOf(l, on))], Until(on)) = Balance(on)

(* A line is reversed by a later one.                                      *)
ReversesEarlier == \A k \in DOMAIN lines : lines[k].reverses < k

OpenItemsInv == TypeOK /\ IdsApart /\ MatchesFit /\ BaseAlike /\ ResidualsAgree /\ RebuiltIsBalance

(* Lines of one currency can always be matched for the lesser amount       *)
(* (R4.AC2 of payments, matching.py:95).                                   *)
LesserIsMatched ==
  \A d, c \in DOMAIN lines :
    Matchable(d, c) /\ Shared(lines[d], lines[c]) =>
      IsRounded(Gap(lines[d], lines[c], Available(lines[d], lines[c])), Minor)
=============================================================================
