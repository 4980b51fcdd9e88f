----------------------------- MODULE MCReports -----------------------------
(* A chart with a group under a group, invoices, a bill and a credit note  *)
(* over a fiscal year that starts in January or in April, and two payments *)
(* of which one has tax withheld.                                          *)
EXTENDS Reports, TLC

Account(type, subtype, parent, tag) ==
  [type |-> type, subtype |-> subtype, parent |-> parent, tag |-> tag]

MCAccounts ==
  "assets"      :> Account("asset", "current", Null, Null) @@
  "current"     :> Account("asset", "current", "assets", Null) @@
  "bank"        :> Account("asset", "bank_cash", "current", Null) @@
  "receivable"  :> Account("asset", "receivable", "current", "operating") @@
  "outstanding" :> Account("asset", "current", "current", Null) @@
  "input_vat"   :> Account("asset", "current", "assets", Null) @@
  "output_vat"  :> Account("liability", "current", Null, "operating") @@
  "payable"     :> Account("liability", "payable", Null, "operating") @@
  "revenue"     :> Account("income", "revenue", Null, Null) @@
  "purchases"   :> Account("expense", "cost_of_revenue", Null, Null) @@
  "rounding"    :> Account("expense", "other", "purchases", Null)

MCDefaults ==
  [receivable |-> "receivable", payable |-> "payable", rounding |-> "rounding", bank |-> "bank",
   outstanding_receipts |-> "outstanding", outstanding_payments |-> "outstanding"]

Box(side, taxable) == [side |-> side, taxable |-> taxable]

MCBoxes ==
  "sales_standard" :> Box("sales", TRUE) @@ "sales_zero_rated" :> Box("sales", FALSE) @@
  "purchases_standard" :> Box("purchases", TRUE)

Tax(name, rate, type, account, tag) ==
  [name |-> name, rate |-> rate, type |-> type, account |-> account, tag |-> tag,
   from |-> Null, to |-> Null]

Vat == Tax("vat", 15, "sale", "output_vat", "sales_standard")
Export == Tax("export", 0, "sale", "output_vat", "sales_zero_rated")
Levy == Tax("levy", 2, "sale", "output_vat", "levies")
InputVat == Tax("input", 15, "purchase", "input_vat", "purchases_standard")
OldVat == [Tax("old", 5, "sale", "output_vat", "sales_standard") EXCEPT !.to = Date(2024, 3, 31)]
Withholding == Tax("withholding", 5, "withholding", "output_vat", "withheld")

Line(account, quantity, price, discount, taxes) ==
  [account |-> account, quantity |-> quantity, price |-> price, discount |-> discount,
   taxes |-> taxes]

Draft(id, type, date, currency, inclusive, lines) ==
  [id |-> id, type |-> type, date |-> date, currency |-> currency, inclusive |-> inclusive,
   lines |-> lines]

D2 == Date(2024, 3, 31)
D3 == Date(2024, 4, 1)
D4 == Date(2024, 12, 31)
D5 == Date(2025, 1, 1)

MCBookDays == {D2, D3, D4, D5}

MCDocuments ==
  {Draft(1, "out_invoice", D2, "sar", FALSE,
         <<Line("revenue", 100, 333, 0, {Vat}), Line("revenue", 300, 33, 0, {Export}),
           Line("revenue", 150, 111, 10, {Vat, Levy})>>),
   Draft(2, "out_invoice", D4, "usd", TRUE,
         <<Line("revenue", 100, 1150, 0, {Vat}), Line("revenue", 100, 777, 0, {})>>),
   Draft(3, "in_bill", D3, "sar", TRUE, <<Line("purchases", 200, 499, 0, {InputVat})>>),
   Draft(4, "out_credit", D5, "sar", FALSE, <<Line("revenue", 100, 333, 0, {Vat})>>),
   Draft(5, "out_invoice", D3, "sar", FALSE, <<Line("revenue", 100, 333, 0, {OldVat})>>)}

(* A tax of three hundredths comes to nothing; a tax with no tag.          *)
GapDocuments ==
  {Draft(1, "out_invoice", D3, "sar", FALSE, <<Line("revenue", 100, 3, 0, {Vat})>>),
   Draft(2, "out_invoice", D3, "sar", FALSE,
         <<Line("revenue", 100, 333, 0, {Tax("fee", 5, "sale", "output_vat", Null)})>>)}

PaymentOf(id, direction, date, currency, amount, withholding) ==
  [id |-> id, direction |-> direction, date |-> date, currency |-> currency, amount |-> amount,
   withholding |-> withholding]

MCPayments ==
  {PaymentOf(1, "inbound", D5, "usd", 1001, Null),
   PaymentOf(2, "outbound", D2, "sar", 333, Withholding)}

Quote(day, of, per) == [currency |-> "usd", day |-> day, of |-> of, per |-> per]

MCQuotes == {Quote(D3, 4, 3)}

(* A row that is refused, one that is not read, and a day given twice.     *)
MCFiles ==
  {<<Quote(D4, 15, 4), [Quote(D3, 0, 1) EXCEPT !.currency = Null], Quote(D3, 0, 1),
     Quote(D4, 3751, 1000)>>}
=============================================================================
