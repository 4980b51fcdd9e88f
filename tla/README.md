# financeBoard in TLA+

A verification project for financeBoard, a finance ERP: a FastAPI and
SQLAlchemy backend on PostgreSQL (`backend/app`), whose migrations
(`backend/migrations/versions`) carry the invariants as constraints and
triggers, and a React frontend that is a client of its API. The modules are
translated from the code and the SQL; docs and tests are read for what they
claim. TLC checks the models on small instances; TLAPS proves for all of them what
the ledger, matching, payments, documents, bank reconciliation, the chart, the
recurring invoices, the statements and the users guarantee.

## The system

One request is one database transaction (`app/db.py:69`): it commits when the
route returns and is rolled back by any error. PostgreSQL runs it at READ
COMMITTED, so every SELECT sees what was committed when it started, and what
must not change is locked explicitly (`docs/architecture.md:452-456`).

| part | state | operations | hard because |
|---|---|---|---|
| ledger (`ledger/posting.py`) | `journal_entry`, `journal_entry_line` | `post`, `reverse` | numbering, one reversal, lock date, all under races and rollback |
| numbering (`platform/sequence`) | `sequence_counter` | `next_number` | a row lock held to the end of the transaction |
| journals, accounts (`coa`) | `journal`, `account` | create, update, archive, restore, delete | read without locks by what posts |
| matching (`treasury/matching.py`) | residuals of lines, `reconciliation` | `match_amount`, `match_lines`, `unmatch`, `unmatch_payment` | lock order, two lines at once, exchange differences |
| payments (`treasury/payments.py`) | `payment` | create, update, delete, post, cancel | state read without a lock |
| bank reconciliation (`treasury/reconciling.py`) | `bank_statement`, `bank_statement_line` | import, reconcile, undo | two rows of two services, repeated files |
| documents (`billing/documents.py`) | `document` and lines | draft, post, cancel, credit note | the credit-note limit across requests |
| recurring invoices (`billing/recurring.py`) | `recurring_template` | create, change, pause, `generate_due` | idempotence per due date, over short months |
| totals and taxes (`billing/totals.py`, `taxes.py`) | `tax` | `line_amounts`, `document_totals` | rounding per line and per group, prices that include tax |
| exchange rates (`ledger/rates.py`, `coa/rates.py`) | `exchange_rate` | `get_rate`, `set_rate`, `import_rates` | rows of a file fail on their own |
| reporting (`reporting`) | none | balances, statements, cash flow, aged, VAT | identities between different reads of the same lines |
| identity, access (`platform/identity`, `platform/access`, `cli.py`) | users, invitations, sessions, roles | bootstrap, invite, accept, resend, withdraw, login, end, deactivate, grant, revoke | checks on rows that are read without locks |

Documents, payments, reconciliation and matching all write the books through
`post` and `reverse`, in their own transaction. `reverse` is called when a
document (`documents.py:541`), a payment (`payments.py:227`) or a bank
reconciliation (`reconciling.py:246`) is undone, and when a match with an
exchange difference is (`matching.py:266`).

What makes each part correct:

- ledger: the numbers of a series have no gap and no duplicate; an entry is
  reversed once and a document posted once; a closed period stays closed; what
  is posted never changes;
- matching: an open amount is always the line's amount less its matches, and
  concurrent matches never spend it twice;
- payments: the entry follows the payment's state, and a posted payment is
  what its entry says;
- bank reconciliation: one entry for a statement line, no payment on two lines,
  no row imported twice;
- documents: credit notes never exceed the invoice, the entry follows the state;
- recurring: one invoice for each due date, none forgotten, none while paused;
- chart: the accounts are a forest, only leaves take entries, and nothing refers
  to an account that is gone;
- rates, totals, reports: an entry balances in both currencies, the tax is that
  of the basis beside it, an entry and its reversal leave nothing, and the
  statements agree with each other;
- access and identity: somebody has the role, an invitation ends in one way,
  one link works, and who is deactivated is signed out;
- every request ends, whatever it waits for.

## The modules

**Ledger** is the posting engine with the database objects it relies on. Its
actions are the statements of `post` and `reverse` that can wait or that read
what another request may change:

| action | code |
|---|---|
| `BeginPost` | `post` up to the number: the journal is read without a lock (`posting.py:179`) |
| `BeginReverse`, `LockEntry` | `reverse`: SELECT ... FOR UPDATE, then the checks under it (`posting.py:219-235`) |
| `TakeNumber` | the upsert of `next_number` |
| `InsertDraft` | the flush of the draft and its unique keys (`posting.py:330`) |
| `Stamp` | the flush that posts it and the trigger on the lock date (`posting.py:335`, `0001_core_ledger.py:250-256`) |
| `Commit`, `Rollback` | the end of the request (`db.py:75-87`) |
| `DeadlockVictim` | PostgreSQL's detector |
| `BeginClose`, `EndClose` | an operator's UPDATE of `company.lock_date` |
| `Archive`, `BeginRename`, `EndRename` | `archive_journal`; `update_journal` with a new code: its checks, then its UPDATE, which waits for entries that refer to the journal |

`entries` and `lastNumber` are committed rows; `pending` and `drawn` what a
transaction has written and others cannot see; `counterLock`, `entryLock` and
`closing` the row locks. A rollback returns `drawn` to `lastNumber`: that is
why there are no gaps.

**Book** is what a caller of the ledger is promised of a request that makes several
calls: it adds one entry for each call it made or none at all, in open periods, and
what it adds keeps the book well numbered and well linked. `Ledger` implements it
(`RefinesBook`) with `book <- entries, asked <- calls`: the entries of a request join
the book together, at its commit, and nothing else changes the book.

**Settlement** is payments and matching. Receivable lines are identified by
their ids, which is also the order in which they are locked; a payment `p` has
its line `p` when it is posted and the line `Reversal(p)` when it is cancelled.
A session has a queue of row locks to ask for, a set it holds, and what it has
written; it acts when its queue is empty. `Commit` writes everything at once if
the deferred residual trigger agrees. A payment has an amount, which stands for the
columns that `payment_guard` compares, and a memo, which stands for `memo` and
`reference`: the guard does not compare those (`0005_payments.py:352-360`).

| action | code |
|---|---|
| `Create`, `BeginUpdate`/`Update`, `BeginDelete`/`Delete` | `payments.py:87-171` with `payment_guard` |
| `BeginPost`, `InsertEntry`, `StampPosted` | `post_payment`: read, post the entry, write the state |
| `BeginMatch`, `Match` | `match_amount`, `match_lines`: lock all lines by id, check, settle pair after pair |
| `BeginUnmatch`, `NextUndo`, `Undo` | `unmatch`: lock the match, the lines, reopen both |
| `BeginCancel`, `NextUndo`, `Undo`, `ReverseEntry`, `StampCancelled` | `cancel_payment`: every match found, then the reversal, then the state |

**OpenItems** is the same matching in two currencies, one step for each match
since Settlement shows that matches over the same lines queue. Amounts are
counted in the units of the database's six decimal places.

| action | code |
|---|---|
| `Post`, `Reverse` | the receivable line of `post` (converted at the latest rate by `Converted`) and of `reverse` (`posting.py:178-270`) |
| `Match` | `match_amount`: the shares of both sides (`matching.py:336-357`), the difference between them (`exchange.py:50-71`) and its entry on the later day; `post` refuses a difference that is not a whole amount |
| `Unmatch` | `_undo`: both sides reopen by what the row recorded and the difference is reversed on its day |

`AgedTotal` is the report of `reporting/aged.py`, rebuilt from the matches for a
day that has passed and read from the open amounts for today; `Balance` is what
the lines and the differences leave on the account.

**OpenAccount** is what both promise of an account: a line is opened once for an
amount that never changes, a match takes part of two lines and gives back what it
took, what is open never falls below nothing, and a line is reversed once, for its
amount; a reversal may take back matches of the line it reverses and no others.
`Settlement` implements it commit by commit, with the lines that are committed, and
`OpenItems` step by step, with the amounts in the company's currency
(`RefinesAccount` of each).

**RowLocks** is PostgreSQL's table of conflicting row locks and the queue of
locks of a transaction; the modules below use it.

**BankReconciliation** reconciles statement lines with payments. A line of the
outstanding account is open or closed as a whole, for `_check_agrees` makes all
amounts agree.

| action | code |
|---|---|
| `BeginReconcile`, `CheckLine`, `Post`, `FinishReconcile` | `reconcile_line`: read both rows, post the bank's entry, clear the outstanding account, write the line (`reconciling.py:186-231`, `468-503`) |
| `BeginUndo`, `CheckReconciled`, `ReverseBank`, `FinishUndo` | `undo_reconcile` (`reconciling.py:234-266`) |
| `BeginCancel`, `UnmatchPayment`, `Reopen`, `ReversePayment`, `FinishCancel` | `cancel_payment` |

**ImportedRows** has the rows of imported statements beside what the bank has told,
and what must be true of them. **StatementImport** imports files that tell stretches
of a fixed history of the bank's, in a format that states balances or not. `Hash`,
with `Running`, is the fingerprint of a row, and `Repeats` counts those known already;
the unique key holds an insertion back until the transaction that made the same one
has ended.

**Documents** is invoices and credit notes with the triggers of migration 0004. A
document's total stands for its lines and for the columns that `document_guard`
compares; its narration is kept apart, for the guard does not compare it
(`0004_invoicing.py:196-202`).

| action | code |
|---|---|
| `Create`, `BeginNote` | `create_document`, `credit_note_from` |
| `BeginUpdate`, `WriteLines`, `Touch` | `update_document` with new lines: the columns that change, the lines behind `document_line_guard`, then `updated_at` |
| `BeginEdit`, `Touch` | `update_document` without lines: one UPDATE of the columns that change, behind `document_guard` alone (`documents.py:270-286`) |
| `BeginDelete`, `Delete` | `delete_document` |
| `BeginPost`, `CheckLimit`, `InsertEntry`, `StampPosted` | `post_document` with `_check_credit_note_limit` |
| `BeginCancel`, `ReverseEntry`, `StampCancelled` | `cancel_document` |

**Recurring** is templates and the run that bills those due: `Create`,
`BeginChange`/`Change` (date, interval, pause), `BeginGenerate`/`Generate`, which
locks the templates one by one in the order of the dates it read and looks again
under each lock whether it is due. Dates are those of **Calendar**, which has
Python's dates, `add_months`, the fiscal year and the named periods of
`reporting/periods.py`; `billed` counts how often a template was billed for a
date.

**Chart** is the accounts: `BeginCreate`/`Insert`, `BeginUpdate`/`Check`/`Write`
(`Check` takes together the fields that one UPDATE writes: those up to the next check
that queries, `Together`), `BeginArchive` and `BeginRestore`, `BeginDelete`/`Delete`,
`InsertLine`/`Refer` for a posting, `BeginDefault`/`SetDefault`, and `SettleLine` for matching. A
trigger reads what is committed and what its own transaction wrote; a foreign
key takes a key share of the row it refers to.

**Figures** is arithmetic: `LineAmounts` and `DocumentTotals`
(`billing/totals.py`), the entries a document, a payment and a bank statement
line are posted as (`DocumentRequest`, `PaymentRequest`, `BankRequest`),
`ConvertLines` with its rounding line, and `Opposite`, the line of a reversal.

**Statements** defines, over the lines that are posted, the reports as the code
computes them: `Balances` and `TrialBalance`, the tree and its pruning,
`ProfitAndLoss`, `BalanceSheet`, `CashFlow`, `AccountDetail` and `VatReturn`; and
what they must agree on, with each other and with the drafts they are of at the rates
on file (`GetRate`). **Reports** posts the lines: `Issue`, `Pay`, `Reconcile`,
`Cancel`, `SetRate` and `ImportRates` are a request each, taken as one step since
Ledger is about requests that overlap.

**Identity** has the rows of identity and access as they are committed, and what
must be true of them. **Users** is the requests over these rows: each loads its caller's session and
writes it, reads and checks its rows (`Bootstrap`, `Invite`, `Resend`,
`Withdraw`, `Accept`, `Login`, `Logout`, `EndSessions`, `Password`,
`Deactivate`, `Grant`, `Revoke`), waits for the rows it writes, and commits if
the unique keys allow it; a user who is deactivated or changes the password has
the sessions ended that are read then (`EndOthers`). `Bootstrap` grants the role in
one company (`--company-id`) or in all; the instance has one, where the two are the
same.

In all of them `Acquire` takes the next row lock, `Commit` and `Rollback` end the
request and `DeadlockVictim` is PostgreSQL's detector.

The modules `MC...` give the constants that a configuration cannot write, and
symmetry where ids are interchangeable and no liveness is checked.
**LedgerProofs**, **SettlementProofs**, **OpenItemsProofs**, **DocumentsProofs**,
**RecurringProofs**, **BankProofs** and **ChartProofs** hold the proofs, **SumProofs**
what they need to know of sums over sets. Those of the statements are in
RecurringProofs, for both rest on the calendar.

## What the runs check

| run | instance | shows |
|---|---|---|
| `ledger_race` | 3 requests of one call, 1 journal that changes its code or is archived, 1 invoice, December and January, a closing | `Gapless`, `OnceOnly`, `ClosedPeriodFrozen`; requests of one call never deadlock |
| `ledger_calls` | 2 requests of two calls over the counters of two years, fair | each request adds an entry for every call or none (`RefinesBook`), wherever it fails; every request ends though they may deadlock |
| `settlement` | 2 requests, 1 foreign invoice of 2, 1 payment of 1 or 2, changes that lower its amount or write a memo, takes of 1, 3 lines a request (the reversal's is the third), 2 matches, so that two requests match the same lines at once, fair | the deferred trigger never has to refuse; matches queue; entries follow state; the guarded fields of what is posted never change, whatever was read while it was a draft; every commit is one step of the abstract account; every request ends |
| `open_items` | 3 lines of documents and payments in two currencies on two days at rates 4/3 and 2, 2 matches in part or whole | open amounts agree in both currencies; the aged report of any day totals the account; what a document shows as paid is what its payments and their differences took |
| `bank` | 2 requests, 2 statement lines of different series, 1 payment of the series of one of them, an account that keeps open items, fair | the bank moves once for a line; a payment leaves the outstanding account once; every request ends |
| `import` | 2 requests, a history with identical transactions on one day, 3 formats | no transaction is imported twice and none is lost |
| `documents` | 2 requests, 1 invoice, 2 credit notes of which one is edited (lines, columns, narration) or deleted, totals 1 and 2, fair | notes stay within the invoice; entries follow state; lines and guarded columns of an issued document never change, whatever was read while it was a draft; every request ends |
| `recurring` | 3 requests, 2 templates of which one is edited, the ends of January and February of a leap year | one invoice for a date; a template left alone is billed in each of its months; a paused one is not billed |
| `chart` | 1 request at a time over 3 accounts and over 2 of two types; 2 requests over 2 accounts | nothing refers to an account that is gone; references suit what an account is; no cycle escapes the walk |
| `reports` | 5 documents (invoices, a bill, a note; inclusive prices, a zero rate, a tax of no box, one no longer effective), 2 payments in 2 currencies, one with tax withheld, 4 dates at the ends of quarters and years, rates entered and imported, up to 3 entries | see below |
| `users` | single requests of every kind over 2 people; 2 at a time over invitations and over sessions, fair | one link works; what single requests keep; every request ends |
| `bank_twice` | 1 request, 2 statement lines, 1 payment | ends in a violation, see below |

`reports` reads every statement of every period after every step, in fiscal
years from January and from April: the balance sheet balances, the earnings of a
year are what was earned in it and are retained when it is over, and the trial
balance totals nothing (`StatementsAgree`); cash moved by what its
classifications say (`CashFlowReconciles`); every box of the VAT return has what
was charged and its basis (`VatAgrees`), and a tax is the rate of its net to a
unit for each line (`TaxFollowsNet`); an entry and its reversal cancel in every
figure (`CancelledLeavesNothing`); no posting is refused for its figures
(`FiguresNeverRefused`); every entry is in one fiscal year, quarter and month
(`EachEntryInOnePeriod`).

Where the bounds come from. Two requests are enough for a lost update and a
deadlock; three let a third request start on what the second left behind. Two
dates around a year's end give two series; the earlier is the one that may be
closed. Three or four ids let a reversal, a reversal of a reversal and a second
posting coexist; an id freed by a rollback is drawn again, so no run stops for
want of ids that were never committed. Two rates give matches that post a gain, a
loss or nothing and some that are refused; a unit of a hundredth is coarse enough
for shares to be rounded. Two notes of 1 or 2 on an invoice of 2 reach the limit
exactly and pass it together. Three accounts give a chain as long as the levels
allow and a walk twice as long. Three entries give an invoice, its payment and a
reversal of either; prices and rates are chosen so that lines round up, down and
to nothing. The end of January over February is the shortest way to a month that
cannot be added. `Kinds`, `Edited`, `Narrated`, `Changes` and `Scopes` choose which
requests an instance makes; between them the runs make all.

Deadlock checking is off where a model stops because its ids, drafts or lines
run out and everyone is idle, or, in Chart, where no liveness is checked and two
requests may wait for each other; that nobody is stuck before is what
`EveryRequestEnds` shows. `recurring`, `users` and `import` never stop and are
checked for deadlock.

Every property has a mutant: an operator beside the one it changes, such as a
failed batch that leaves its first entries, an upsert that burns numbers, a lock date read
without FOR SHARE, a match that does not lock its lines, a difference posted on
the day of the debit. Each is a plausible change of the code that the property
catches.

Fairness: a request that has started goes on (a thread of the server runs it),
PostgreSQL grants a row to its waiters in turn (strong fairness of the step that
waits), and its detector cancels one request of a cycle. Nothing is assumed of
users, operators or failures.

### Where the code and its documents part

One run and the configurations below, which are run by hand
(`tlc -config X.cfg M`, with the property alone where a configuration names
several), check what a document, a comment or a test states and the code does not
keep; TLC ends each in a violation. `REQ` is the `requirements.md` of the feature
under `.walden/specs`.

| configuration | property | what happens | what says otherwise |
|---|---|---|---|
| `BankReconciliation_twice` (run `bank_twice`) | `CountedOnce` | a payment that one statement line has is taken by another; the bank account is debited twice (`reconciling.py:201`) | payments REQ:172 "cash cannot be double-counted" |
| `BankReconciliation_gaps` | `OnlyPostedReconciled` | a cancellation commits between the reading of the payment and the line's write (`reconciling.py:201`) | `reconciling.py:204` "only a posted payment can be matched" |
| `BankReconciliation_gaps` | `HoldingCleared` | undoing leaves the match of the outstanding account, so a second reconciliation clears nothing (`reconciling.py:246`) | `reconciling.py:194` "the payment leaves the holding account" |
| `Settlement_gaps` | `CancellingLeavesNoMatch` | a match committed between `unmatch_payment` and the reversal stays (`matching.py:226`) | `matching.py:213` "leaves no invoice looking paid" |
| `Settlement_gaps` | `PostedAmountIsEntryAmount` | a draft changed while it is posted differs from its entry (`payments.py:178`) | `payments.py:135` "a posted payment is evidence" |
| `Settlement_gaps` | `OnlyCancellingChanges` | an update that read a draft writes its memo or reference after the payment was posted; the guard does not compare them (`payments.py:148-149`, `0005_payments.py:352-360`) | `0005_payments.py:333` "A posted payment is evidence, the same way an issued invoice is: only cancelling changes it" |
| `Settlement_gaps` | `ReversalClosesThePair` | neither line of a reversed pair is closed (`posting.py:258`) | `docs/architecture.md:457-459` "reconciles the pair" |
| `Settlement_gaps` | `NoDeadlock` | a cancellation locks pair after pair (`matching.py:235`); PostgreSQL cancels one request | `docs/architecture.md:455` "always taken in a fixed order" |
| `OpenItems_gaps` | `LesserIsMatched` | a share has the six places of its column (`matching.py:355`), so the difference of a partial match at another rate is rarely a whole amount and `post` refuses it | payments REQ R4.AC2 "match the lesser amount and leave the rest open" |
| `OpenItems_gaps` | `NothingSettledIsCancelled` | a payment still lists a document that was cancelled (`state.py:139`) | payments REQ R6; `payment_state_of` shows the document without it |
| `OpenItems_stranded` | `ClosedInBoth` | after matches across currencies a line has a millionth of its currency left and nothing in the company's; no match takes it | `matching.py:304-306` "no rounding dust left behind" |
| `OpenItems_gaps` | `AgedIsBalance` | today's report reads open amounts that a payment dated later has lowered (`aged.py:168`) | reports REQ:96 "the total ... equals the balance of the receivable accounts on the same date" |
| `StatementImport_gaps` | `NeverTwice` | after a row that could not be read the running balance is not the bank's (`reconciling.py:82`) | payments REQ:124 "the system SHALL skip it" |
| `StatementImport_gaps` | `NeverLost` | a file without balances that begins within a day counts its rows from one (`reconciling.py:89`) | `tests/treasury/test_statement_import.py:168` "two identical payments on one day are two transactions" |
| `Documents_gaps` | `IssuedIsItsEntry` | lines changed while a document is posted (`documents.py:487`) | invoicing REQ:105 "debit the receivable account with the total" |
| `Documents_gaps` | `OnlyCancellingChanges` | an update that read a draft writes its narration after the document was issued; without new lines it meets `document_guard` alone, which does not compare it (`documents.py:273`, `0004_invoicing.py:196-202`) | `0004_invoicing.py:175` "only its state may change after posting", `:195` "Cancelling is the only change an issued document accepts" |
| `Documents_gaps` | `NotesCorrectIssued` | a note drafted before its invoice was cancelled is issued (`documents.py:620`) | `documents.py:577` "only an issued document can be corrected" |
| `Documents_gaps` | `NoDeadlock` | a note locks its invoice, then the counter; a cancellation the other way (`documents.py:623`) | `docs/architecture.md:455` |
| `Recurring_gaps` | `DueIsBilled` | a template set back to a date it was billed for is never moved on (`recurring.py:236`) | invoicing REQ:135 "on or after a template's next date" |
| `Recurring_gaps` | `StaysOnItsDay` | a template of the 31st bills the 29th of March after February: the last date is all it keeps (`recurring.py:266`) | `recurring.py:74` "keeping to the end of a short month" |
| `Chart_gaps` | `TreeUnderRaces` | two groups are moved under each other at once (`0003_chart_of_accounts.py:73`) | `0003:44` "the hierarchy must stay a tree" |
| `Chart_gaps` | `GroupsHoldNoLinesUnderRaces` | an account becomes a group while its first line is posted (`0001_core_ledger.py:217`) | chart REQ:55 "postings only to accounts that are not group accounts" |
| `Chart_gaps` | `ParentsShareType` | a group changes its type under its children (`accounts.py:221`) | `0003:44` "of the same type" |
| `Chart_gaps` | `WithinLevels` | a subtree is moved down past the limit (`0003:98`) | `0003:99` "limited to 10 levels" |
| `Chart_gaps` | `DefaultsSuit` | a default becomes a group or changes its type (`accounts.py:221`) | `defaults.py:13` "the account subtypes it may point at" |
| `Chart_gaps` | `OpenItemsCanBeSettled` | the trigger on archived accounts refuses the update of a residual (`0003:118`) | `accounts.py:275` "only new postings are refused" |
| `Ledger_rename` | `NumberNamesItsJournal` | a code changes between a posting's first read and its commit (`journals.py:138`) | chart REQ:86 |
| `Reports_gaps` | `VatAgrees` | a standard tax that rounds to nothing on a line passes for a zero rate: its basis is on the line and in the group, and the net is reported as tax (`documents.py:378`) | reports REQ R6.AC6 |
| `Reports_gaps` | `FiguresNeverRefused` | a tax without a grid tag is refused by a CHECK, as a database error (`0006:35-36`) | `taxes.py:37` makes the tag optional |
| `Users_gaps` | `SomeAdministrator` | two administrators revoke each other at once (`access/api.py:164`) | identity REQ:107 R5.AC6 |
| `Users_gaps` | `Outcomes` | an invitation is accepted while it is withdrawn and ends both ways (`identity/api.py:134`) | identity REQ:182 R11.AC9 |
| `Users_gaps` | `SignedOut` | a session starts while its user is deactivated (`identity/api.py:374`) | identity REQ:47 R1.AC6 |
| `Users_gaps` | `ActiveAdministrator` | the last administrator is deactivated and nobody can log in; grants of the deactivated count as spare (`access/api.py:209`) | `access/api.py:167` "this is the last administrator" |
| `Users_gaps` | `StaysDeactivated` | who was deactivated while invited accepts the link and is active (`identity/api.py:166`) | identity REQ:47 |

Seen while reading and not stated as a property: the basis of a tax is stored in
the document's currency (`posting.py:146`), so the net of a VAT box mixes
currencies; a line that converts to nothing gives its basis the sign of a debit in
the entry and in its reversal (`vat_return.py:67-70`); a withholding line with a
tax and no tag is on no line of the return (`vat_return.py:78`); the trial balance
leaves out an account whose lines are all dated after the period
(`balances.py:104-105`), which `StatementsAgree` allows for; net and tax of a price
that includes tax may differ from it by a unit (`totals.py:76-84`); a tax changes
its rate on a check that a posting escapes (`taxes.py:158-164`); a row of a rates
file that the database refuses fails the whole import (`rates.py:139`); resending
an older invitation while a newer one is open ends in a database error
(`identity/api.py:116`); two bootstraps at once make two administrators
(`cli.py:43`).

## What is proved

For every value of the constants, from the modules' named assumptions alone:

| theorem | module | property |
|---|---|---|
| `TypeCorrect` | `LedgerProofs` | types |
| `GaplessNumbers` | `LedgerProofs` | `Gapless` |
| `ReversedAndPostedOnce` | `LedgerProofs` | `OnceOnly` |
| `PeriodFrozen` | `LedgerProofs` | `ClosedPeriodFrozen` |
| `FixedLockOrder` | `LedgerProofs` | `SingleCallsNeverDeadlock` |
| `ImplementsBook` | `LedgerProofs` | `RefinesBook` |
| `BilledOnceAlways` | `RecurringProofs` | `BilledOnce` |
| `PausedNotBilledEver` | `RecurringProofs` | `PausedNotBilled` |
| `BilledMonthByMonthAlways` | `RecurringProofs` | `BilledMonthByMonth` |
| `OpenAmountsAreNeverRefused` | `SettlementProofs` | `OpenAmountsNeverRefused` |
| `MatchRequestsQueue` | `SettlementProofs` | `MatchesQueue` |
| `EntriesAlwaysFollowState` | `SettlementProofs` | `EntriesFollowState` |
| `PostedIsAlwaysEvidence` | `SettlementProofs` | `PostedIsEvidence`: the fields that the guard covers |
| `ImplementsAccount` | `SettlementProofs` | `RefinesAccount` |
| `ResidualsAlwaysAgree` | `OpenItemsProofs` | `ResidualsAgree` |
| `PastDaysAlwaysBalance` | `OpenItemsProofs` | `AgedIsBalance` of the days before today |
| `AgedAlwaysBalances` | `OpenItemsProofs` | `AgedIsBalance`, where no entry is dated after today |
| `PaidIsAlwaysExplained` | `OpenItemsProofs` | `PaidIsExplained` |
| `ImplementsAccount` | `OpenItemsProofs` | `RefinesAccount` |
| `EntriesAlwaysFollowState` | `DocumentsProofs` | `EntriesFollowState` |
| `NotesAlwaysWithinOriginal` | `DocumentsProofs` | `NotesWithinOriginal` |
| `IssuedIsAlwaysEvidence` | `DocumentsProofs` | `IssuedIsEvidence`: the lines and columns that the guards cover |
| `BankAlwaysMovesOnce` | `BankProofs` | `BankMovesOnce` |
| `AlwaysLeavesOnce` | `BankProofs` | `LeavesOnce` |
| `NothingEverDangles` | `ChartProofs` | `NothingDangles` |
| `AlwaysATree` | `ChartProofs` | `StaysATree` |
| `ReferencesAlwaysSuit` | `ChartProofs` | `ReferencesSuit` |
| `OneInvitationIsOpen` | `BankProofs` | `OneOpenInvitation` |
| `SoundServedAlone` | `BankProofs` | `SoundAlone`, where there is a company |
| `StatementsAlwaysAgree` | `RecurringProofs` | `StatementsAgree` |
| `CashAlwaysReconciles` | `RecurringProofs` | `CashFlowReconciles` |
| `CancelledAlwaysLeavesNothing` | `RecurringProofs` | `CancelledLeavesNothing` |
| `VatAlwaysAgrees` | `RecurringProofs` | `VatAgrees`, of taxes with a tag and accounts of their own |
| `TaxAlwaysFollowsNet` | `RecurringProofs` | `TaxFollowsNet`, where no line is on a tax's account |
| `FiguresAreNeverRefused` | `RecurringProofs` | `FiguresNeverRefused`, of tagged taxes and drafts that come to something |
| `EachEntryAlwaysInOnePeriod` | `RecurringProofs` | `EachEntryInOnePeriod`, of days from year 5 on |
| `RowsNeverImportedTwice` | `BankProofs` | `NeverTwice`, where all rows of an MT940 file are read |
| `RowsNeverLost` | `BankProofs` | `NeverLost`, where moreover files start with a day or the hashes of a day differ |

### Ledger

For every set of sessions, journals, ids, sources and dates and any number of
calls, from `LedgerAssumption`.

`Gapless` says nothing of numbers drawn and not committed, so it is not
inductive: a state in which two sessions hold the number 4 satisfies it and the
next two commits break it. The invariant `Inv` adds what the locks give:

- `LocksKept`: who drew a number still holds its counter, and an idle session
  holds nothing;
- `Numbering`: committed numbers fill 1..lastNumber and those of the counter's
  holder the rest up to drawn;
- `KeysUnique`: no two inserted rows, committed or not, share a unique key, and
  what is reversed is committed;
- `PeriodHeld`: what is posted and not committed is dated in an open period,
  and no lock date is being written meanwhile;
- `FirstCall`: a session in its first call holds only what that call has
  reached, from which the lock order follows;
- `Typed`, `IdsGiven`: types, and which calls have ids.

Each part has a lemma for one step and the action lemmas it needs; `Invariance`
combines them. `ImplementsBook` adds `Counted`: what a request has posted, with the call
under way, is as many as the calls it made. So its commit, the only step that changes
`entries`, adds one entry for each of its calls, and by `PeriodHeld` and the other parts
the set it leaves is as Book wants it; an abort, at whichever call, adds nothing.

### Recurring invoices

For every set of sessions, of dates and of intervals and every finite set of
templates, from `RecurringAssumption`; dates are all of the calendar's, so the
lemmas about `NextDate` are about any month and any leap year.

`BilledOnce` is not inductive: a run that is about to commit may hold any draft.
`Inv` adds why it holds a new one:

- `HeldAlone`: no two requests hold a lock of one row, since both modes taken
  here conflict with each other;
- `Changing`, `Generating`: a request holds, or still asks for, the rows it is
  about, until its queue is empty;
- `Written`: what a request is going to write is made of rows it holds, as they
  still are; it drafts only for a template that is active and not billed for its
  date, and then moves it on (`Drafted`);
- `BilledByLast`: nothing was billed for a day after a template's last.

A draft is for a day after the last, by the order of dates being total, so it is
new; and no other request wrote its row meanwhile, since it held the lock. The
commit of one request leaves what is known of the others for the same reason
(`CommitOfOthers`). `PausedNotBilled` is the same fact about `active`. For
`BilledMonthByMonth` a template that nobody edits is only moved by being billed
(`BillsNext`), by as many months as its interval (`NextMonth`).

TLC checked `Inv` on two sessions before it was proved.

### Documents

For every set of sessions, invoices, notes and totals, from
`DocumentsAssumption`.

The state a request acts on is read before its locks are taken
(`documents.py:487`, `:526`), so `EntriesFollowState` is not inductive: a request
about to commit might stamp a document that was cancelled meanwhile. `Inv` says why
it does not:

- `HeldApart`: no two requests hold locks that conflict, of rows, of entries or of
  the unique key (source, document) that an entry being inserted holds;
- `MadeAlone`: a note being made is known to its request alone;
- `Knows`: what holds until the request has written: a document is stamped only
  while the request holds the key of its entry, and then no entry was committed for
  it; it is cancelled only while the request holds the entry it reverses, which
  shows that it was still posted;
- `Written`: what will be committed is of one of four kinds (a new note, an edit of
  a draft, an issue, a cancellation), each of a row that the request has kept
  locked and that is still in the state it expects.

The guard triggers are what makes `Edits` true: they refuse a change of a row that
is no longer a draft when the change runs. What they do not cover, that the lines
of a draft change between its posting and its stamp, is why the entry may be of
another total (`Documents_gaps`), and the invariant says only that there is one.
`IssuedIsEvidence` is what `Written` allows a commit to do to a posted row: cancel it,
or write its narration, which the guard lets through (`OnlyCancellingChanges` of
`Documents_gaps`).

`NotesWithinOriginal` is about a sum that a request reads
(`_check_credit_note_limit`) and that must still fit when the request commits.
`LimitInv` adds that a note's original is an issued invoice (`NotesHaveOrigins`),
and of each request that what it `Checked` holds: from the check to the commit it
has the original's row, so that no other note of that invoice is issued meanwhile
and the sum only falls. The invoice itself keeps its total, by `IssuedIsEvidence`.
The sum is over the notes whose lines nobody changed while they were posted
(`AsEntered`): the check reads the lines' total, and of the others the entry is for
another amount (`Documents_gaps`).

### Payments

For every set of sessions, invoices, payments and amounts, from
`SettlementAssumption`: the same argument for `post_payment` and `cancel_payment`,
whose state too is read without a lock (`payments.py:178`, `:220`). A request that
cancels first undoes matches, for as long as others like; all it `Knows` until it
has the entry's row is that the payment was posted once. What it reverses is then
the amount of the entry, not of the row, which is why `EntriesFollowState` can say
that the reversal has the same amount though `Settlement_gaps` shows that the
payment need not. Matches do not come into this invariant. `PostedIsEvidence` is what `Written`
allows a commit to do to a posted row: cancel it, or write its memo, which the guard
lets through.

`OpenAmountsNeverRefused` takes a second one, `OpenInv`, over what is committed and
what each request has written:

- `Balanced`: what is open of a line is its amount less its committed matches, and a
  line that is not there has none;
- `Tallies`: the same of the amounts a request has written, with the matches it will
  leave, and every match it made or took back is between lines it wrote;
- `Locked`: a request holds the lock of each line it wrote and of each match it took
  back, or, of a line that it opens, the unique key or the entry that only one
  request can have;
- `MadeApart`: no two requests make one match.

A commit changes lines and matches that no other request has written, since it holds
their locks, so what the others have written still tallies (`CommitKeepsTallies`).
Taking the same amount off both sides of a pair, or giving it back, changes the
amount and the sum alike. So the deferred trigger has nothing to refuse, which is
what the code relies on when it locks lines alone (`matching.py:3-5`).

`MatchesQueue` takes a third, `OrderInv`: requests that match, or take back one
match, ask for a match first, then for lines by id, then for the counter of
exchange differences and the entries of the lines, in either order (`LockRank`,
`InOrder`). `LinesInOrder` shows that `LinesOf` does sort any set of ids. Entries
are taken FOR SHARE, which those requests do not refuse each other. If each of a set
of them waited for another, the row that one waits for would come before the row
its holder waits for (`HeadsAscend`), without end, among ranks that have an end. It
is not so of a cancellation, which locks pair after pair (`Settlement_gaps`).

`ImplementsAccount` says that a commit is one step of `OpenAccount`, and that nothing
else changes the account. That what is open changes by the matches made and taken back
follows from `Balanced` before and after the commit; which step it is, from `Deed`: a
request makes matches, or takes back one, or is about a payment, and then it takes back
matches of that payment's line only, and none unless it reverses it. `DeedInv` is
needed because a cancellation takes back its matches one by one long before it writes
the reversal, under the locks of each; only its commit makes one step of them.

### Open items

For every set of currencies, rates, amounts, days and lines and whatever is matched
and taken back, from `OpenItemsAssumption`. Nothing runs at once here; what is hard is
the arithmetic. `OpenItemsInv`:

- `MatchesFit`: a match is between a debit and a credit, and the difference it
  posted is what its two sides are apart in the company's currency, on the later day
  of the two lines;
- `BaseAlike`: of a line in the company's currency both amounts are one;
- `ResidualsAgree`, which needs that what `Share` takes of a line is never more than
  is open, in either currency, for any rounding;
- `RebuiltIsBalance`: what is rebuilt of any day from the lines and matches until
  then totals the account on that day. A match takes its two sides off, and they
  differ by what was posted; it is counted from the later day on, as its difference
  is, and a match taken back is out of every day, as `_undo` takes back its difference.

The report reads a past day from what is rebuilt (`PastDaysAlwaysBalance`), and today
from the residuals, which is the same only where no match is dated later
(`AgedAlwaysBalances` assumes no day after today; `OpenItems_gaps` is the other case).
`PaidIsExplained` follows from `MatchesFit`: the matches of a line are those across a
payment, grouped by it, and the others.

`ImplementsAccount` follows from `ResidualsAgree` before and after each step: a match
and its undoing change what is open and nothing else of two lines. `ReversesEarlier`,
that a line is reversed by a later one, is what makes a new line one that nothing
reverses yet. No run names this property: TLC checked it on the instance of
`open_items`, which passes with `PROPERTIES RefinesAccount` added.

### Sums

`SumFunctionOnSet` is a fold, defined by choice. `SumProofs` shows that it unfolds one
element at a time, that adding a summand or changing one changes the sum by as much,
and that sums of equal summands, of unions and of groups are equal. The induction is
over the subsets of a finite set: among those for which a fact fails there would be a
smallest (`NatMin`, from the order of the naturals being well founded), stated with
sets of subsets in place of predicates. A sum over an image whose elements come of one
summand each is that of the summands, and the sum of what is negated is negated; that
is what a reversal's lines are.

### Bank reconciliation

For every set of sessions, statement lines, payments and bank entries, whichever
series they are numbered in and whether or not the account keeps open items, from
`BankReconciliationAssumption`.

`Inv` adds to `BankMovesOnce` that a statement line is locked by one request
(`LinesApart`), that entries being made differ (`EntriesApart`), and what a request
`Knows`: from when it has the lock the line is as it was read under it, so what
`finish` sets was unset and what `end_of_undo` clears is the entry it reversed.
`LeavesOnce` needs no lock: the deferred check of open amounts at commit is enough,
as the proof shows by using nothing else (`ResidualsAgree`).

### Chart of accounts

For every set of sessions, accounts, types and defaults and any limits, from
`ChartAssumption`.

`delete_account` checks that nothing refers to the account before it has the row,
and others read it before they refer to it, so `NothingDangles` is not inductive.
`Inv` adds what the two locks give, the share of a foreign key and the one of a
deletion:

- `Apart`, `SharedIsHere`: an account is not shared while it is being deleted, and
  it was there when it was shared;
- `Keeps`: what a request will make a parent it shares, or is about to share, and
  it creates nothing without naming a parent or none; lines and defaults likewise
  (`Knows`);
- `Removes`: a deletion that will commit still has the row, and nothing refers to it
  yet, since nobody else could have come to share it.

The triggers play no part in that, nor do the limits of their walks: a chart that
races have made no tree (`Chart_gaps`) does not dangle either.

`StaysATree` and `ReferencesSuit` hold of requests one after another, the checks of
`accounts.py` and the triggers together. `AloneInv` says that the chart is `Rooted`
and `Suitable`, and of the request that is served, that it would be so of what its
statements have made of it (`Fits`, over `After`), and that its next statement was
checked (`Ready`). That a move makes no cycle: from the new parent up, all accounts
of a cycle would be among those passed, so the walk would never come to the top; but
the walk of the trigger that measures depth is longer than the levels it allows, so
it comes to the top or refuses. `Ancestors` and `Depth` are recursive functions of
the steps left, and what is true of each step is shown by a smallest counterexample.
A new account has no children, by `NothingDangles`, so that naming its parent is no
move.

### Users

For every set of sessions, people, companies and invitations, from
`UsersAssumption`. The properties of `Identity` say what must be true of committed
rows; the proofs are about an instance of `Users` over them, in `BankProofs` beside
those of bank reconciliation.

What makes one link at most work for a person is the unique index over open
invitations, which looks at a row when it is written and again when the other
transaction has ended; several requests may each be about to open one. So
`OneOpenInvitation` is inductive only with what each request will commit: its
writes are to rows that keep their user (`Writes`), no two requests send a new
invitation under one id (`SentApart`), and the index is checked over the rows as
they will be, which is what `Commit` leaves.

`SoundAlone` is what requests keep that are served one after another. `Alone` says
that only one request has started, `Administered` that someone is an administrator
once anyone is a user, and `LeavesSound` that the rows would be sound with what
the request has written so far: it `Knows` what it has read of its caller, an
administrator is revoked only while another is (`OnlyUser`), and who is deactivated
has the sessions ended (`EndsOthers`). The command that makes the first
administrator grants the role for every company there is, and with no company it
grants none (`cli.py:43`), hence the hypothesis of `SoundServedAlone`.

TLC checked each of these invariants on the instances of the runs before it was
proved.

### Statements

For every finite chart of any depth, all documents, payments, rates, taxes and boxes,
every month a fiscal year may start with and all dates that business is done on, from
`ReportsAssumption`. `Reports` is an instance there, over the variables `Statements`
declares.

The statements are functions of the lines that are posted, so what is proved of them
rests on `Books`, the invariant of what posts:

- `Booked`: every line is of an account of the chart, and the lines of an entry are of
  one day and add up to nothing. For `Issue`, `Pay` and `Reconcile` that follows from
  `ConvertLines`, whose rounding line takes up what the conversion of each line leaves;
- `Quoted`: of the rates of a finite set of days there is a latest for any day from the
  first on, so that what is converted is an integer;
- `Recorded`: a line is of an entry that is there, and of one number in it, so that a
  reversal has one line for each;
- `Reversals`: a reversal has the lines of what it reverses on their other side, and
  reverses no reversal.

From `Booked`: the lines up to a day are those of whole entries, hence their amounts
add up to nothing; grouped by account and then by type they are the balance sheet, so
it balances. `EarningsAgree` compares two of them, one at the end of a period and one
on the day before it, so that day has to be just what is not in the period
(`DayBeforeIs`, over the ordinals of all dates), and the first of Python's dates has
no day before (`cash_flow.py:143-146` takes the date itself, and a line of that day would be
counted twice): hence `BusinessDays`. The tree of the trial balance is a recursive
function over the chart: that it has a solution, and that the accounts on top
have the sum of all (`TopHasAll`), is shown by taking away accounts that have none
above them. Cash moves by the other lines of each entry that moved some, again since
an entry adds up to nothing. `CancelledLeavesNothing` is `Reversals` with the lemmas
about sums of what is opposite.

`EachEntryInOnePeriod` is about the calendar alone, once the days of entries are days
of business (`Dated`). Months are counted from one origin (`MonthParts`), so that a
month, a quarter, a fiscal year and the year to date are runs of months
(`Months(i, j)`), whatever month the year starts with; the months of a kind follow
one another without gap or overlap, and so do the ordinals of their days. What a year
to date is compared with is as many days long, since every ordinal from one on is a
date (`OrdinalFrom`). Python's dates begin with year 1, so the fiscal year before must
exist: hence the hypothesis that no business was done before year 5.

What follows rests on the arithmetic of `Rounded` and of sums: a rounded quotient is
within half a unit of the quotient (`RoundedNear`), and values no more than so much apart
have sums no more than so many times that apart (`SumNear`).

- `TaxFollowsNet`: on each line a tax is its rate of the net to half a unit, so the tax
  of a document and its rate of the basis are half a unit apart for each line charged
  (`ChargeNearBasis`), whatever the discounts and prices that include tax. The lines
  `Issue` stores are those of the request and the rounding line (`StoredFrom`). The
  hypothesis is that no line of a draft is booked on an account of a tax
  (`AccountsKept`), for such a line would count as tax.
- `FiguresNeverRefused`: a document's open item is the sum of its nets and its taxes, so
  its lines add up to nothing and there are two at least (`DocumentBalances`). Converted,
  each line is half a unit off at most, so what is left is half a unit a line
  (`ConversionBalances`), and the rounding line takes it. `QuotesKnown`, which is
  inductive, says a rate on file was entered or imported. The hypotheses: every tax
  has a tag (`TaxesTagged`; else the CHECK refuses its line), and every draft comes to
  half a unit or more at the rates of its currency (`WorthPosting`; else the entry moves
  nothing and is refused).
- `VatAgrees`: `TaxesApart`, which is inductive, says a posted line is on an account of a
  tax just when the return counts its amount as tax: it has a tag, and not that of a box
  without tax. The boxes and the untagged lines then partition the lines on those
  accounts (`VatDoesAgree`). The hypothesis `TaxesPlaced` says that of the company's
  taxes and accounts, which the code leaves to whoever sets them up: a tax has a tag,
  of a box that bears tax if it has a rate and of one that does not if it has none;
  other lines and defaults are on other accounts; and a tax that comes to nothing on a
  line has no rate.

`Reports_gaps` has drafts that break `TaxesTagged` and `TaxesPlaced`, and both properties
fail. `ReportsAssumption` has what the tables check of drafts and taxes: quantities and prices
are not negative, discounts are of 0 to 100 percent, names of taxes and ids are unique
(`0004_invoicing.py:71,127-130`).

TLC checked the parts of `Books`, `TaxesApart`, `QuotesKnown` and the hypotheses on the
instance of `reports` before they were proved.

### Statement import

For every history a bank has in the order of its days, any sessions and formats, from
`HistoryAssumption`; the proofs are about an instance of `StatementImport` over the
rows of `ImportedRows`, in `BankProofs`.

A file's rows are numbered within their hash from one, and imported from the number on
that is not known yet. With all rows read, the balance added up in a file is the sum of
the history from its beginning (`SameHash`), so a transaction has the same hash in every
file (`HashOf`), and which row of its hash it is is a rank in a set (`Rank`). The
invariant says that

- `LinesNumbered`: the lines of a hash are numbered from one without a gap, no further
  than transactions of that hash were told. `NeverTwice` follows, each line being the
  one of the transaction of that rank (`LinesWithinTold`);
- `Adds`: what a request found missing completes the rows of its file still when it
  commits, because lines are only ever added; so nothing is assumed of what another
  request inserts meanwhile, and the unique key is not needed for the count;
- `ToldInOrder` and `ToldHaveLines`: the transactions told of a hash are the first of
  it, and there is a line for each number up to how many they are. `NeverLost` follows
  by a line of its own for each transaction (`ToldWithinLines`).

The last two hold because two files tell of one hash the first so many each, and
one of them tells all the other does (`OneHoldsTheOther`); a file that starts with a day
does, the look of a row having its day in it (`ToldFromTheFirst`). A file that begins
within a day does when a hash belongs to one transaction, hence the hypothesis
`FilesWhole`: such files state balances and no balance comes back at a transaction that
looks the same. TLC finds a deposit lost without it: of a deposit, its return and the
same deposit on one day, the first and the last have one balance and one look, and
a file that begins with the last brings nothing new.

TLC checked these invariants on the instance of `import` before they were proved.

### Only model-checked

Liveness: fairness is out of the prover's reach (`EveryRequestEnds`). Every other
property of a run has a theorem, some under hypotheses named above.

## Not modelled

- Counting of failed sign-ins: its records are written in the transaction that
  the refusal rolls back. Passwords, tokens, mail and the audit log keep nothing
  another part depends on. `delete_user` and `set_role_permissions` are called by
  no route.
- Creating, changing and archiving of taxes, journals' names and default
  accounts, partners, codes and names of accounts, chart templates and readiness:
  records with format checks.
- Reading of bank files down to their fields, bank lines in other currencies,
  links and labels of report rows.
- HTTP routes other than those of users: each calls one service function in one
  transaction. The frontend is a client of the API.

## Plan

Done: Ledger and Book, Settlement and OpenItems with OpenAccount, BankReconciliation,
StatementImport, Documents, Recurring, Chart, Calendar, Figures, Statements, Reports,
Identity and Users; the proofs of Ledger, Settlement, OpenItems, Documents, Recurring,
BankReconciliation, StatementImport, Chart, Users, Statements and periods.

Next, where someone goes on:

1. Documents composed with Settlement, so that an invoice is cancelled while it is
   being paid;
2. taxes as rows that change.
