----------------------------- MODULE Statements -----------------------------
(***************************************************************************)
(* The statements of app/reporting, as the code computes them from the     *)
(* lines that are posted, and what they must agree on, with each other and *)
(* with the drafts the lines are of.  Reports has the requests that post.  *)
(***************************************************************************)
EXTENDS Figures

CONSTANTS
  Accounts,  \* the chart: by id, type, subtype, parent and cash-flow tag
  Boxes,     \* the boxes of the VAT return, by tag
  BookDays,  \* days on which entries are dated and reports asked for
  Documents, \* drafts
  Payments,  \* draft payments
  Defaults,  \* company defaults, with the rounding and a bank account
  Base       \* the company's currency

VARIABLES
  entries,    \* posted entries
  posted,     \* their lines, with the day and the journal of the entry
  startMonth, \* the month the company's fiscal year starts with
  quotes      \* exchange rates on file

Sales == "sales"
ProfitAndLossTypes == {"income", "expense"}

Reversed(e) == \E r \in entries : r.reverses = e.source

LinesOf(source) == {l \in posted : l.source = source}

(* The chart's hierarchy has no cycle (Chart shows how it is kept), and    *)
(* the first of Python's dates is no business day.                         *)
AccountTypes == {"asset", "liability", "equity", "income", "expense"}
Classifications == {"operating", "investing", "financing", "unclassified"}
Beginning == Date(1, 1, 1)
BusinessDays == {d \in CalendarDates : d.year >= 1} \ {Beginning}

ASSUME StatementsAssumption ==
  /\ IsFiniteSet(DOMAIN Accounts)
  /\ \A a \in DOMAIN Accounts : /\ Accounts[a].type \in AccountTypes
                               /\ Accounts[a].tag \in Classifications \cup {Null}
  /\ \A S \in SUBSET DOMAIN Accounts : S # {} => \E a \in S : Accounts[a].parent \notin S
  /\ Null \notin DOMAIN Accounts \cup Int \cup DOMAIN Boxes
  /\ IsFiniteSet(DOMAIN Boxes)
  /\ \A tag \in DOMAIN Boxes : /\ Boxes[tag].side \in {Sales, "purchases"}
                              /\ Boxes[tag].taxable \in BOOLEAN
  /\ BookDays \subseteq BusinessDays

-----------------------------------------------------------------------------
(* The balances all statements are read from.                              *)

Sum(lines, Of(_)) == SumFunctionOnSet([l \in lines |-> Of(l)], lines)
Amount(l) == l.amount
Debit(l) == IF l.amount > 0 THEN l.amount ELSE 0
Credit(l) == IF l.amount < 0 THEN -l.amount ELSE 0

UpTo(end, journal) ==
  {l \in posted : NotAfter(l.date, end) /\ (journal = Null \/ l.journal = journal)}

On(account, lines) == {l \in lines : l.account = account}

(* Mutant of Since: the day a period starts on is before it.               *)
After(start, lines) == {l \in lines : ~NotAfter(l.date, start)}

Since(start, lines) == {l \in lines : NotAfter(start, l.date)}

(* BALANCES: an account that has lines has a row when one of them is dated *)
(* by the end, of any journal; with a journal, of that.                    *)
Listed(upTo) == {a \in DOMAIN Accounts : On(a, posted) = {} \/ On(a, upTo) # {}}

Balances(period, yearStart, journal) ==
  LET upTo == UpTo(period.end, journal)
  IN [a \in Listed(upTo) |->
       LET mine == On(a, upTo)
           moved == Since(period.start, mine)
       IN [opening |-> Sum(mine \ moved, Amount), debit |-> Sum(moved, Debit),
           credit |-> Sum(moved, Credit), year |-> Sum(Since(yearStart, mine), Amount)]]

Movement(row) == row.debit - row.credit
Closing(row) == row.opening + Movement(row)

OfTypes(rows, types) == {a \in DOMAIN rows : Accounts[a].type \in types}

TotalOf(rows, accounts, Of(_)) == SumFunctionOnSet([a \in accounts |-> Of(rows[a])], accounts)

(* as_of: everything up to a day; date.min is before every entry.          *)
AsOf(on) == Period(Beginning, on)

-----------------------------------------------------------------------------
(* The statements.                                                         *)

(* tree: rows under their parents, as far as these are rows themselves,    *)
(* each with the figures of those under it.                                *)
Roots(shown) == {a \in shown : Accounts[a].parent \notin shown}
ChildrenOf(shown, a) == {c \in shown : Accounts[c].parent = a}

Settled(own) ==
  LET settled[a \in DOMAIN own] ==
        LET below == ChildrenOf(DOMAIN own, a)
        IN own[a] + SumFunctionOnSet([c \in below |-> settled[c]], below)
  IN settled

(* _pruned: accounts that held and moved nothing are left out, unless one  *)
(* under them is shown.                                                    *)
Unused(node) == node.opening = 0 /\ node.debit = 0 /\ node.credit = 0

Shown(nodes) ==
  LET shown[a \in DOMAIN nodes] ==
        (\E c \in ChildrenOf(DOMAIN nodes, a) : shown[c]) \/ ~Unused(nodes[a])
  IN shown

(* The nodes at the top of a tree of some types, without those unused.     *)
TreeOf(rows, types) ==
  LET kept == OfTypes(rows, types)
      opening == Settled([a \in kept |-> rows[a].opening])
      debit == Settled([a \in kept |-> rows[a].debit])
      credit == Settled([a \in kept |-> rows[a].credit])
      nodes == [a \in kept |-> [opening |-> opening[a], debit |-> debit[a], credit |-> credit[a]]]
  IN Restrict(nodes, {a \in Roots(kept) : Shown(nodes)[a]})

TrialBalance(period, journal) ==
  LET rows == Balances(period, period.start, journal)
  IN [rows |-> rows, tree |-> TreeOf(rows, {Accounts[a].type : a \in DOMAIN Accounts}),
      debit |-> TotalOf(rows, DOMAIN rows, LAMBDA r : r.debit),
      credit |-> TotalOf(rows, DOMAIN rows, LAMBDA r : r.credit)]

(* profit_and_loss: income is a credit, shown as what was earned.          *)
ProfitAndLoss(period) ==
  LET rows == Balances(period, period.start, Null)
      income == -TotalOf(rows, OfTypes(rows, {"income"}), Movement)
      expenses == TotalOf(rows, OfTypes(rows, {"expense"}), Movement)
      cost == TotalOf(rows, {a \in OfTypes(rows, ProfitAndLossTypes) :
                               Accounts[a].subtype = "cost_of_revenue"}, Movement)
  IN [income |-> income, cost |-> cost, other |-> expenses - cost,
      gross |-> income - cost, net |-> income - expenses]

YearStartOf(on) == FiscalYearBounds(on, startMonth).start

(* balance_sheet: earnings are computed, this year's and all before it.    *)
BalanceSheet(on) ==
  LET rows == Balances(AsOf(on), YearStartOf(on), Null)
      Closed(types) == TotalOf(rows, OfTypes(rows, types), Closing)
      current == -TotalOf(rows, OfTypes(rows, ProfitAndLossTypes), LAMBDA r : r.year)
  IN [assets |-> Closed({"asset"}), liabilities |-> -Closed({"liability"}),
      equity |-> -Closed({"equity"}), current |-> current,
      retained |-> -Closed(ProfitAndLossTypes) - current]

(* Bank and cash.                                                          *)
IsCash(l) == Accounts[l.account].subtype = "bank_cash"

CashBalance(on) == Sum({l \in posted : IsCash(l) /\ NotAfter(l.date, on)}, Amount)

(* Mutant of CashEntries: those before the period count too.               *)
CashEntriesByEnd(period) ==
  {l.source : l \in {k \in posted : IsCash(k) /\ NotAfter(k.date, period.end)}}

CashEntries(period) == {l.source : l \in {k \in posted : IsCash(k) /\ Covers(period, k.date)}}

Classification(account) ==
  IF Accounts[account].tag = Null THEN "unclassified" ELSE Accounts[account].tag

(* _day_before *)
DayBefore(on) == IF on = Beginning THEN Beginning ELSE Plus(on, -1)

(* cash_flow: the other lines of every entry that moved cash.              *)
CashFlow(period) ==
  LET moved == {l \in posted : l.source \in CashEntries(period) /\ ~IsCash(l)}
      sections == [c \in Classifications |->
                    -Sum({l \in moved : Classification(l.account) = c}, Amount)]
  IN [opening |-> CashBalance(DayBefore(period.start)), sections |-> sections,
      net |-> SumFunctionOnSet(sections, Classifications),
      closing |-> CashBalance(period.end)]

(* account_detail: an account's lines of a period after what it held; the  *)
(* balance that runs over them ends at the closing one.                    *)
AccountDetail(account, period) ==
  LET mine == {l \in posted : l.account = account}
      opening == Sum({l \in mine : ~NotAfter(period.start, l.date)}, Amount)
      lines == {l \in mine : Covers(period, l.date)}
  IN [opening |-> opening, lines |-> lines, debit |-> Sum(lines, Debit), credit |-> Sum(lines, Credit),
      closing |-> opening + Sum(lines, Debit) - Sum(lines, Credit)]

(* vat_return: the tagged lines by box.  A line's own amount is the tax;   *)
(* its basis takes the sign of the line.                                   *)
Tagged(period, tag) == {l \in posted : l.tag = tag /\ Covers(period, l.date)}

CreditNet(l) ==
  IF l.base = Null THEN 0 ELSE IF l.amount < 0 THEN l.base ELSE -l.base
DebitNet(l) ==
  IF l.base = Null THEN 0 ELSE IF l.amount > 0 THEN l.base ELSE -l.base

(* Mutant of BoxTotal: whatever is on a tagged line is its tax.            *)
BoxTotalOfLines(period, tag) ==
  LET lines == Tagged(period, tag)
      sale == Boxes[tag].side = Sales
  IN [net |-> IF sale THEN Sum(lines, CreditNet) ELSE Sum(lines, DebitNet),
      tax |-> IF sale THEN -Sum(lines, Amount) ELSE Sum(lines, Amount)]

(* A box that bears no tax has its basis on the line of the supply.        *)
BoxTotal(period, tag) ==
  LET lines == Tagged(period, tag)
      sale == Boxes[tag].side = Sales
  IN [net |-> IF sale THEN Sum(lines, CreditNet) ELSE Sum(lines, DebitNet),
      tax |-> IF ~Boxes[tag].taxable THEN 0
              ELSE IF sale THEN -Sum(lines, Amount) ELSE Sum(lines, Amount)]

(* Tags no box is known for are listed, tax and all.                       *)
UntaggedTags(period) ==
  {l.tag : l \in {k \in posted : Covers(period, k.date)}} \ (DOMAIN Boxes \cup {Null})

UntaggedTotal(period, tag) ==
  [net |-> Sum(Tagged(period, tag), CreditNet), tax |-> -Sum(Tagged(period, tag), Amount)]

VatReturn(period) ==
  LET boxes == [tag \in DOMAIN Boxes |-> BoxTotal(period, tag)]
      Side(side) == {tag \in DOMAIN Boxes : Boxes[tag].side = side}
  IN [boxes |-> boxes,
      untagged |-> [tag \in UntaggedTags(period) |-> UntaggedTotal(period, tag)],
      output |-> SumFunctionOnSet([t \in Side(Sales) |-> boxes[t].tax], Side(Sales)),
      input |-> SumFunctionOnSet([t \in Side("purchases") |-> boxes[t].tax], Side("purchases"))]

-----------------------------------------------------------------------------
(* The rates a draft would be posted at, and the taxes of all drafts.      *)

QuotesBy(currency, on) == {q \in quotes : q.currency = currency /\ NotAfter(q.day, on)}

HasRate(currency, on) == currency = Base \/ QuotesBy(currency, on) # {}

(* get_rate: the latest on or before the day.                              *)
GetRate(currency, on) ==
  IF currency = Base THEN [of |-> 1, per |-> 1]
  ELSE CHOOSE q \in QuotesBy(currency, on) :
         \A r \in QuotesBy(currency, on) : NotAfter(r.day, q.day)

LineTaxes == UNION {UNION {d.lines[i].taxes : i \in DOMAIN d.lines} : d \in Documents}
Withholdings == {p.withholding : p \in Payments}
Taxes == (LineTaxes \cup Withholdings) \ {Null}

TaxAccounts == {t.account : t \in Taxes}
RateOf(name) == (CHOOSE t \in Taxes : t.name = name).rate

-----------------------------------------------------------------------------
(* What the statements must agree on.                                      *)

Periods == {p \in [start: BookDays, end: BookDays] : IsPeriod(p)}

(* The balance sheet balances on any day (R10.AC1).                        *)
SheetBalances ==
  \A d \in BookDays :
    LET s == BalanceSheet(d) IN s.assets = s.liabilities + s.equity + s.retained + s.current

(* What was earned in a period of one fiscal year is the change of that    *)
(* year's earnings in it, and the year's are retained when it is over.     *)
EarningsAgree ==
  \A p \in Periods :
    LET before == BalanceSheet(DayBefore(p.start))
        after == BalanceSheet(p.end)
        earned == ProfitAndLoss(p).net
    IN /\ YearStartOf(DayBefore(p.start)) = YearStartOf(p.end) =>
            earned = after.current - before.current
       /\ earned = after.current + after.retained - before.current - before.retained
       /\ p.start = YearStartOf(p.end) => after.retained = before.retained + before.current

(* The trial balance balances, and its tree has the figures of its rows.   *)
TrialBalances ==
  \A d \in BookDays :
    LET t == TrialBalance(YearToDate(d, startMonth), Null)
    IN /\ t.debit = t.credit
       /\ TotalOf(t.tree, DOMAIN t.tree, Closing) = TotalOf(t.rows, DOMAIN t.rows, Closing)
       /\ TotalOf(t.tree, DOMAIN t.tree, LAMBDA r : r.debit) = t.debit

(* The detail of an account closes where its balance does.                 *)
DetailsClose ==
  \A p \in Periods :
    LET rows == Balances(p, p.start, Null)
    IN \A a \in DOMAIN rows : AccountDetail(a, p).closing = Closing(rows[a])

(* The statements agree with each other and with the books on any day and  *)
(* over any period (R1.AC4, R2.AC4, R10.AC1, AC2, AC6).                    *)
StatementsAgree == SheetBalances /\ EarningsAgree /\ TrialBalances /\ DetailsClose

(* The cash of a period's end is that of its start with what the report    *)
(* says moved it (R10.AC3).                                                *)
CashFlowReconciles ==
  \A p \in Periods : LET c == CashFlow(p) IN c.opening + c.net = c.closing

(* The named periods part time between them: the quarters part the fiscal  *)
(* year a day is in, last year's end is where it begins, months likewise,  *)
(* and what a period is compared with is as long and ends where it begins  *)
(* (R8.AC3, R8.AC4), so an entry is in one period of a kind and in no two. *)
EachEntryInOnePeriod ==
  \A today \in BookDays :
    LET the == [name \in PeriodNames |-> Named(name, today, startMonth)]
        toDate == YearToDate(today, startMonth)
        before == Preceding(toDate)
    IN /\ Plus(the["last-fiscal-year"].end, 1) = the["this-fiscal-year"].start
       /\ Days(before) = Days(toDate)
       /\ \A e \in entries :
            LET In(name) == Covers(the[name], e.date) IN
            /\ Cardinality({q \in {"q1", "q2", "q3", "q4"} : In(q)}) =
                 IF In("this-fiscal-year") THEN 1 ELSE 0
            /\ In("last-fiscal-year") <=> YearStartOf(e.date) = the["last-fiscal-year"].start
            /\ In("this-month") <=> e.date.month = today.month /\ e.date.year = today.year
            /\ In("last-month") => (e.date.month % 12) + 1 = today.month
            /\ Covers(toDate, e.date) <=> In("this-fiscal-year") /\ NotAfter(e.date, today)
            /\ ~(Covers(toDate, e.date) /\ Covers(before, e.date))

(* A cancelled entry and its reversal leave nothing on any account, in     *)
(* either currency, nor in any box (R10.AC8), whatever rates were entered  *)
(* meanwhile; a basis on a line that conversion left nothing of has no     *)
(* side to exchange (vat_return.py:67).                                    *)
CancelledLeavesNothing ==
  \A r \in {e \in entries : e.reverses # Null} :
    LET both == {l \in posted : l.source \in {r.source, r.reverses}}
    IN /\ \A a \in DOMAIN Accounts :
            LET mine == {l \in both : l.account = a}
            IN Sum(mine, Amount) = 0 /\ Sum(mine, LAMBDA l : l.currency) = 0
       /\ \A tag \in DOMAIN Boxes : Sum({l \in both : l.tag = tag /\ l.amount # 0}, CreditNet) = 0

(* What the return says is due is what moved the accounts of the taxes     *)
(* (R6.AC6, R10.AC5).                                                      *)
VatAgrees ==
  \A p \in Periods :
    LET v == VatReturn(p)
        other == Total(v.untagged, LAMBDA tag : tag.tax)
    IN v.output - v.input + other =
         -Sum({l \in posted : l.account \in TaxAccounts /\ Covers(p, l.date)}, Amount)

(* The tax posted on a document follows from the basis it is reported      *)
(* with, to half a unit for every line it was charged on (R6.AC1, D2).     *)
ChargedOn(source, tax) ==
  LET lines == (CHOOSE d \in Documents : d.id = source[2]).lines
  IN Cardinality({i \in DOMAIN lines : \E t \in lines[i].taxes : t.name = tax})

TaxFollowsNet ==
  \A l \in {k \in posted : k.source[1] = "document"} :
    l.base # Null /\ l.account \in TaxAccounts =>
      Magnitude(100 * Magnitude(l.currency) - RateOf(l.tax) * l.base) <= 50 * ChargedOn(l.source, l.tax)

(* A draft whose taxes apply is never refused for what its figures came    *)
(* to: the entry balances before and after conversion, and what rounding   *)
(* left is what the rounding line may carry.                               *)
FiguresNeverRefused ==
  \A d \in Documents :
    LET lines == DocumentRequest(d, Defaults) IN
    TaxesApply(d) /\ Unambiguous(d) /\ HasRate(d.currency, d.date) =>
      LET rate == GetRate(d.currency, d.date) IN
      /\ ValidRequest(lines)
      /\ WithinRounding(lines, rate)
      /\ Storable(ConvertLines(lines, rate, Defaults.rounding))

-----------------------------------------------------------------------------
(* What the statements need of the books (RecurringProofs).                *)

IsPosted(l) ==
  /\ DOMAIN l = {"source", "number", "date", "journal", "account", "amount", "currency", "tax",
                 "tag", "base"}
  /\ l.account \in DOMAIN Accounts /\ l.date \in BusinessDays
  /\ l.amount \in Int /\ l.currency \in Int /\ l.base \in Int \cup {Null}

(* Every entry balances and is of one day.                                 *)
Booked ==
  /\ startMonth \in 1..12
  /\ IsFiniteSet(posted) /\ \A l \in posted : IsPosted(l)
  /\ \A k, l \in posted : k.source = l.source => k.date = l.date
  /\ \A l \in posted : Sum(LinesOf(l.source), Amount) = 0

(* A line is of an entry, the only one of its number there.                *)
Recorded ==
  /\ \A e \in entries : DOMAIN e = {"source", "reverses", "date", "journal"}
  /\ \A l \in posted : \E e \in entries : e.source = l.source
  /\ \A k, l \in posted : k.source = l.source /\ k.number = l.number => k = l

(* A reversal has the lines of what it reverses, on their other side; it   *)
(* reverses no reversal.                                                   *)
OppositeFor(source, l) == [Opposite(l) EXCEPT !.source = source]

Reversals ==
  /\ \A e \in entries : e.reverses = Null => e.source # Null /\ e.source[1] # "reversal"
  /\ \A e \in entries : e.reverses # Null =>
       /\ \E o \in entries : o.source = e.reverses /\ o.reverses = Null
       /\ e.source = <<"reversal", e.reverses>>
       /\ LinesOf(e.source) = {OppositeFor(e.source, l) : l \in LinesOf(e.reverses)}
=============================================================================
