----------------------------- MODULE Settlement -----------------------------
(***************************************************************************)
(* Payments and the matching of open items (app/treasury/payments.py,      *)
(* app/treasury/matching.py) with the row locks and triggers of the        *)
(* database they run on.                                                   *)
(*                                                                         *)
(* An open item is a ledger line on the receivable account: the debit of   *)
(* an invoice, the credit of a posted payment, the debit of the entry that *)
(* reverses it.  A match settles part of a debit line with part of a       *)
(* credit line.  All is in the company's currency and for one partner;     *)
(* Foreign names the invoices whose settlement also posts an exchange      *)
(* difference, of which only the lock is kept here.                        *)
(*                                                                         *)
(* A session is one request in one transaction at READ COMMITTED.  It asks *)
(* for row locks one at a time (queue), keeps them to its end (held), acts *)
(* when the queue is empty, and writes what it changed when it commits.    *)
(* What the ledger does inside post() and reverse() is the matter of       *)
(* Ledger; here it is the locks taken and the entry that results.          *)
(***************************************************************************)
EXTENDS Integers, Sequences, FiniteSets, FiniteSetsExt, SequencesExt

CONSTANTS
  Sessions,  \* requests being served
  Invoices,  \* receivable lines of posted invoices, by line id
  Payments,  \* inbound payments, each by the id of the line its entry will have
  Foreign,   \* invoices settled at another rate than they were booked at
  Amounts,   \* amounts a payment may have
  Memos,     \* memos that updates write
  Owed,      \* amounts an invoice may have
  Takes,     \* amounts a clerk may ask to match
  Changes,   \* bound: the amount and the memo that an update writes, None for what it leaves
  MatchIds,  \* bound: ids of reconciliation rows
  MaxLines,  \* bound: lines in one match request
  Span,      \* above every id of an invoice's or a payment's line
  None

(* Payment rows: one that exists has an amount, and a memo once it has been *)
(* changed; the memo stands for the reference too.                         *)
Rows ==
  {row \in [state: {"none", "draft", "posted", "cancelled", "deleted"},
            amount: Amounts \cup {None}, memo: Memos \cup {None}] :
     row.amount = None <=> row.state \in {"none", "deleted"}}

NoPayment == [state |-> "none", amount |-> None, memo |-> None]
Deleted == [NoPayment EXCEPT !.state = "deleted"]

ASSUME SettlementAssumption ==
  /\ Invoices \cup Payments \subseteq 0..(Span - 1)
  /\ Invoices \cap Payments = {}
  /\ Foreign \subseteq Invoices
  /\ Amounts \subseteq Nat \ {0} /\ Owed \subseteq Amounts
  /\ Changes \subseteq ((Amounts \cup {None}) \X (Memos \cup {None})) \ {<<None, None>>}
  /\ Takes \subseteq Nat
  /\ MatchIds \subseteq Nat
  /\ Span \in Nat
  /\ None \notin Nat \cup Memos \cup Rows

(* The line of the entry that reverses a payment's. *)
Reversal(p) == Span + p

Debits == Invoices \cup {Reversal(p) : p \in Payments}
Credits == Payments
Lines == Debits \cup Credits

Sides(m) == {m.debit, m.credit}

VARIABLES
  payment,   \* payment rows: state, amount and memo
  amount,    \* what a line was posted for, None while there is no such line
  residual,  \* what of it is still open
  matches,   \* reconciliation rows
  tx         \* the request each session serves

rows == <<payment, amount, residual, matches>>
vars == <<rows, tx>>

(* A transaction: where it is, the row locks it asks for and holds, the    *)
(* payment and the amount it is about (of an update, the amount and the    *)
(* memo to write, None for what it leaves), the lines of a match request,  *)
(* the matches it has still to undo and the one it is undoing, and what it *)
(* has written: the payment row, the line it opened, open amounts, matches *)
(* made and matches deleted.                                               *)
Idle ==
  [pc |-> "idle", queue |-> <<>>, held |-> {}, payment |-> None, amount |-> None, memo |-> None,
   lines |-> {}, todo |-> {}, match |-> None, row |-> None, opens |-> None,
   open |-> <<>>, made |-> {}, undone |-> {}]

Start(s, t) == tx' = [tx EXCEPT ![s] = t]

At(s, here) == tx[s].pc = here /\ tx[s].queue = <<>>

Goto(s, t, to, locks) == tx' = [tx EXCEPT ![s] = [t EXCEPT !.pc = to, !.queue = locks]]

(* Mutant of Abort: the connection goes back to its pool with the          *)
(* transaction's locks.                                                    *)
AbortKeepingLocks(s) == Start(s, [Idle EXCEPT !.held = tx[s].held]) /\ UNCHANGED rows

Abort(s) == Start(s, Idle) /\ UNCHANGED rows

-----------------------------------------------------------------------------
(* Row locks.  A resource is a kind of row and its key; "share" is the     *)
(* entry's row FOR SHARE, "entry" the same row FOR UPDATE, "counter" the   *)
(* numbering row of the payments' journal (0) and of the exchange          *)
(* differences (1), "source" the unique key of an entry's source.          *)

Conflict(r, q) ==
  \/ r = q /\ r[1] # "share"
  \/ {r[1], q[1]} = {"share", "entry"} /\ r[2] = q[2]

Holders(s) ==
  {t \in Sessions \ {s} : \E r \in tx[t].held : Conflict(r, Head(tx[s].queue))}

WaitsFor(s) == IF tx[s].queue = <<>> THEN {} ELSE Holders(s)

Acquire(s) ==
  /\ tx[s].queue # <<>>
  /\ Holders(s) = {}
  /\ Start(s, [tx[s] EXCEPT !.held = @ \cup {Head(tx[s].queue)}, !.queue = Tail(@)])
  /\ UNCHANGED rows

(* Rows of one kind, by id ascending. *)
Ranked(ids, i) == CHOOSE k \in ids : Cardinality({j \in ids : j < k}) = i - 1

Ascending(kind, ids) == [i \in 1..Cardinality(ids) |-> <<kind, Ranked(ids, i)>>]

(* Mutant of LinesOf: lines are read without FOR UPDATE. *)
LinesUnlocked(ids) == <<>>

(* _lock: the lines FOR UPDATE, ordered by id. *)
LinesOf(ids) == Ascending("line", ids)

(* Flushing changed lines: the line guard takes each line's entry FOR SHARE. *)
EntriesOf(ids) == Ascending("share", ids)

(* post() and reverse() of an exchange difference lock its journal's counter. *)
Difference(m) == IF m.debit \in Foreign THEN <<<<"counter", 1>>>> ELSE <<>>

-----------------------------------------------------------------------------
(* What a transaction sees of open amounts: its own writes, else committed. *)

Open(t, l) == IF l \in DOMAIN t.open THEN t.open[l] ELSE residual[l]

Writes(t, changes) == [l \in DOMAIN t.open \cup DOMAIN changes |->
                         IF l \in DOMAIN changes THEN changes[l] ELSE t.open[l]]

Touching(ms, l) == {m \in ms : l \in Sides(m)}

Matched(ms, l) == SumFunctionOnSet([m \in Touching(ms, l) |-> m.amount], Touching(ms, l))

Posted == {l \in Lines : amount[l] # None}

(* Ids are never drawn twice; one nobody remembers stands for a new one. *)
UsedIds == {m.id : m \in matches \cup UNION {tx[s].made \cup tx[s].todo : s \in Sessions}}

NextId == CHOOSE i \in MatchIds \ UsedIds : \A k \in MatchIds \ UsedIds : i <= k

(* The bound on matches: every request begun finds ids for all it makes,   *)
(* one fewer than its lines at most.                                       *)
RoomForMatch(lines) ==
  LET matching == {s \in Sessions : tx[s].pc \in {"match", "matched"}} IN
  Cardinality(UsedIds) + Cardinality(lines) - 1
    + MapThenSumSet(LAMBDA s : Cardinality(tx[s].lines) - 1 - Cardinality(tx[s].made), matching)
  <= Cardinality(MatchIds)

-----------------------------------------------------------------------------
Init ==
  /\ payment = [p \in Payments |-> NoPayment]
  /\ \E owed \in [Invoices -> Owed] :
       amount = [l \in Lines |-> IF l \in Invoices THEN owed[l] ELSE None]
  /\ residual = amount
  /\ matches = {}
  /\ tx = [s \in Sessions |-> Idle]

-----------------------------------------------------------------------------
(* Drafts. *)

Create(p, a) ==
  /\ payment[p].state = "none"
  /\ payment' = [payment EXCEPT ![p] = [NoPayment EXCEPT !.state = "draft", !.amount = a]]
  /\ UNCHANGED <<amount, residual, matches, tx>>

(* Mutant of Allows: the trigger lets every field of a posted payment change. *)
AllowsFields(old, new) == old.state = "draft" \/ new.state # "draft"

(* payment_guard on UPDATE: only a draft's fields change, but for the memo *)
(* and the reference, and nothing becomes a draft again.                   *)
Allows(old, new) == old.state = "draft" \/ (new.state # "draft" /\ new.amount = old.amount)

(* update_payment and delete_payment read the state without a lock; their  *)
(* statement waits for the row, and writes the columns that change.        *)
BeginUpdate(s, p, a, memo) ==
  /\ tx[s].pc = "idle"
  /\ payment[p].state = "draft"
  /\ a # payment[p].amount
  /\ Start(s, [Idle EXCEPT !.pc = "update", !.payment = p, !.amount = a, !.memo = memo,
                           !.queue = <<<<"payment", p>>>>])
  /\ UNCHANGED rows

Or(new, old) == IF new = None THEN old ELSE new

Update(s) ==
  LET t   == tx[s]
      old == payment[t.payment]
      new == [old EXCEPT !.amount = Or(t.amount, @), !.memo = Or(t.memo, @)]
  IN
  /\ At(s, "update")
  /\ \/ /\ old.state # "deleted"
        /\ Allows(old, new)
        /\ Goto(s, [t EXCEPT !.row = new], "commit", <<>>)
        /\ UNCHANGED rows
     \/ /\ old.state = "deleted" \/ ~Allows(old, new)
        /\ Abort(s)

BeginDelete(s, p) ==
  /\ tx[s].pc = "idle"
  /\ payment[p].state = "draft"
  /\ Start(s, [Idle EXCEPT !.pc = "delete", !.payment = p, !.queue = <<<<"payment", p>>>>])
  /\ UNCHANGED rows

(* Mutant of Delete: the trigger lets a posted payment be deleted. *)
DeleteAnyState(s) ==
  /\ At(s, "delete")
  /\ Goto(s, [tx[s] EXCEPT !.row = Deleted], "commit", <<>>)
  /\ UNCHANGED rows

Delete(s) ==
  LET t == tx[s] IN
  /\ At(s, "delete")
  /\ \/ /\ payment[t.payment].state = "draft"
        /\ Goto(s, [t EXCEPT !.row = Deleted], "commit", <<>>)
        /\ UNCHANGED rows
     \/ /\ payment[t.payment].state # "draft"
        /\ Abort(s)

-----------------------------------------------------------------------------
(* post_payment: the row is read without a lock, the entry is built from   *)
(* what was read, and then the row's state is written.                     *)

BeginPost(s, p) ==
  /\ tx[s].pc = "idle"
  /\ payment[p].state = "draft"
  /\ Start(s, [Idle EXCEPT !.pc = "post", !.payment = p, !.amount = payment[p].amount,
                           !.queue = <<<<"counter", 0>>, <<"source", p>>>>])
  /\ UNCHANGED rows

InsertEntry(s) ==
  LET t == tx[s]
      p == t.payment
  IN
  /\ At(s, "post")
  /\ \/ /\ amount[p] = None
        /\ Goto(s, [t EXCEPT !.opens = p, !.open = [l \in {p} |-> t.amount]], "stamp", <<<<"payment", p>>>>)
        /\ UNCHANGED rows
     \/ /\ amount[p] # None
        /\ Abort(s)

(* Only the columns that changed are written; no row, no update. *)
StampPosted(s) ==
  LET t   == tx[s]
      row == payment[t.payment]
  IN
  /\ At(s, "stamp")
  /\ \/ /\ row.state # "deleted"
        /\ Goto(s, [t EXCEPT !.row = [row EXCEPT !.state = "posted"]], "commit", <<>>)
        /\ UNCHANGED rows
     \/ /\ row.state = "deleted"
        /\ Abort(s)

-----------------------------------------------------------------------------
(* match_amount and match_lines: a clerk names lines that were open when   *)
(* the screen was drawn, and for a pair perhaps how much to take.          *)

(* Mutant of BeginMatch: lines are locked in the order they are named. *)
BeginMatchAsNamed(s, lines, take) ==
  /\ tx[s].pc = "idle"
  /\ RoomForMatch(lines)
  /\ \A l \in lines : amount[l] # None /\ residual[l] > 0
  /\ lines \cap Debits # {} /\ lines \cap Credits # {}
  /\ take # None => Cardinality(lines) = 2
  /\ \E order \in SetToSeqs({<<"line", l>> : l \in lines}) :
       Start(s, [Idle EXCEPT !.pc = "match", !.lines = lines, !.amount = take, !.queue = order])
  /\ UNCHANGED rows

BeginMatch(s, lines, take) ==
  /\ tx[s].pc = "idle"
  /\ RoomForMatch(lines)
  /\ \A l \in lines : amount[l] # None /\ residual[l] > 0
  /\ lines \cap Debits # {} /\ lines \cap Credits # {}
  /\ take # None => Cardinality(lines) = 2
  /\ Start(s, [Idle EXCEPT !.pc = "match", !.lines = lines, !.amount = take,
                           !.queue = LinesOf(lines)])
  /\ UNCHANGED rows

Pairs(t) ==
  {pair \in (t.lines \cap Debits) \X (t.lines \cap Credits) :
     Open(t, pair[1]) > 0 /\ Open(t, pair[2]) > 0}

(* The loops over debits, then credits: a debit is left when it is closed. *)
NextPairs(t) ==
  LET begun == {pair \in Pairs(t) : \E m \in t.made : m.debit = pair[1]} IN
  IF begun = {} THEN Pairs(t) ELSE begun

Smaller(a, b) == IF a <= b THEN a ELSE b

(* Take an amount off both sides, record the match, flush the lines. *)
Settle(s, t, d, c, take) ==
  LET m    == [id |-> NextId, debit |-> d, credit |-> c, amount |-> take]
      done == [t EXCEPT !.made = @ \cup {m},
                        !.open = Writes(t, [l \in {d, c} |-> Open(t, l) - take])]
  IN /\ MatchIds \ UsedIds # {}
     /\ Goto(s, done, IF Pairs(done) = {} \/ t.amount # None THEN "commit" ELSE "matched",
             EntriesOf({d, c}) \o Difference(m))

Match(s) ==
  LET t      == tx[s]
      closed == \E l \in t.lines : Open(t, l) <= 0
      fits(d, c) == t.amount \in 1..Smaller(Open(t, d), Open(t, c))
  IN
  /\ At(s, "match") \/ At(s, "matched")
  /\ \/ /\ t.pc = "match" => ~closed
        /\ \E pair \in NextPairs(t) :
             LET d == pair[1]
                 c == pair[2]
             IN \/ t.amount = None /\ Settle(s, t, d, c, Smaller(Open(t, d), Open(t, c)))
                \/ t.amount # None /\ fits(d, c) /\ Settle(s, t, d, c, t.amount)
        /\ UNCHANGED rows
     \/ /\ t.pc = "match"
        /\ closed \/ (t.amount # None /\ \A d \in t.lines \cap Debits, c \in t.lines \cap Credits :
                                            ~fits(d, c))
        /\ Abort(s)

-----------------------------------------------------------------------------
(* unmatch locks the match it was given; cancel_payment reads the payment  *)
(* without a lock, then locks every match of its line that it finds, in    *)
(* the order of an index.                                                  *)

BeginUnmatch(s, m) ==
  /\ tx[s].pc = "idle"
  /\ Start(s, [Idle EXCEPT !.pc = "undoing", !.todo = {m}, !.queue = <<<<"match", m.id>>>>])
  /\ UNCHANGED rows

BeginCancel(s, p) ==
  LET found == {m \in matches : p \in Sides(m)} IN
  /\ tx[s].pc = "idle"
  /\ payment[p].state = "posted"
  /\ \E order \in SetToSeqs({<<"match", m.id>> : m \in found}) :
       Start(s, [Idle EXCEPT !.pc = "undoing", !.payment = p, !.todo = found, !.queue = order])
  /\ UNCHANGED rows

(* Of the matches it waited for, those another transaction deleted are     *)
(* gone: unmatch fails, a cancellation goes on with the others and, when   *)
(* none is left, with the reversal.                                        *)
NextUndo(s) ==
  LET t    == tx[s]
      left == t.todo \cap matches
  IN
  /\ At(s, "undoing")
  /\ \/ /\ \E m \in left :
             Goto(s, [t EXCEPT !.todo = left, !.match = m], "undo", LinesOf(Sides(m)))
        /\ UNCHANGED rows
     \/ /\ left = {} /\ t.payment # None
        /\ Goto(s, t, "reverse", <<<<"entry", t.payment>>>>)
        /\ UNCHANGED rows
     \/ /\ left = {} /\ t.payment = None /\ t.undone # {}
        /\ Goto(s, t, "commit", <<>>)
        /\ UNCHANGED rows
     \/ /\ left = {} /\ t.payment = None /\ t.undone = {}
        /\ Abort(s)

(* _undo: the difference is reversed, both lines reopened, the match gone. *)
Undo(s) ==
  LET t == tx[s]
      m == t.match
  IN
  /\ At(s, "undo")
  /\ Goto(s, [t EXCEPT !.todo = @ \ {m}, !.match = None, !.undone = @ \cup {m},
                       !.open = Writes(t, [l \in Sides(m) |-> Open(t, l) + m.amount])],
          "undoing", Difference(m) \o EntriesOf(Sides(m)))
  /\ UNCHANGED rows

(* Mutant of ReverseEntry: the reversal is for what the payment says.      *)
ReverseAsPaid(s) ==
  LET t == tx[s]
      r == Reversal(t.payment)
      of == payment[t.payment].amount
  IN
  /\ At(s, "reverse")
  /\ \/ /\ amount[r] = None
        /\ Goto(s, [t EXCEPT !.opens = r, !.open = Writes(t, [l \in {r} |-> of])], "cancel",
                <<<<"counter", 0>>, <<"payment", t.payment>>>>)
        /\ UNCHANGED rows
     \/ /\ amount[r] # None
        /\ Abort(s)

(* reverse(): with the original's row, it is known whether it was reversed *)
(* meanwhile.  The reversal's own line opens; the original's stays open.   *)
ReverseEntry(s) ==
  LET t == tx[s]
      r == Reversal(t.payment)
  IN
  /\ At(s, "reverse")
  /\ \/ /\ amount[r] = None
        /\ Goto(s, [t EXCEPT !.opens = r, !.open = Writes(t, [l \in {r} |-> amount[t.payment]])], "cancel",
                <<<<"counter", 0>>, <<"payment", t.payment>>>>)
        /\ UNCHANGED rows
     \/ /\ amount[r] # None
        /\ Abort(s)

StampCancelled(s) ==
  LET t == tx[s] IN
  /\ At(s, "cancel")
  /\ Goto(s, [t EXCEPT !.row = [payment[t.payment] EXCEPT !.state = "cancelled"]], "commit", <<>>)
  /\ UNCHANGED rows

-----------------------------------------------------------------------------
(* The end of a transaction. *)

AmountAfter(t, l) == IF l = t.opens THEN t.open[l] ELSE amount[l]

MatchesAfter(t) == (matches \ t.undone) \cup t.made

(* check_line_residual, deferred to COMMIT, on the lines written. *)
ResidualsCheck(t) ==
  \A l \in DOMAIN t.open :
    t.open[l] >= 0 /\ t.open[l] = AmountAfter(t, l) - Matched(MatchesAfter(t), l)

Commit(s) ==
  LET t == tx[s] IN
  /\ At(s, "commit")
  /\ ResidualsCheck(t)
  /\ payment' = IF t.row = None THEN payment ELSE [payment EXCEPT ![t.payment] = t.row]
  /\ amount' = [l \in Lines |-> AmountAfter(t, l)]
  /\ residual' = [l \in Lines |-> Open(t, l)]
  /\ matches' = MatchesAfter(t)
  /\ Start(s, Idle)

(* An error of the request or a lost connection. *)
Rollback(s) == tx[s].pc # "idle" /\ Abort(s)

(* A set of sessions in which each waits for another of the set; the       *)
(* detector cancels one of a smallest such set, a cycle.                   *)
Stuck(S) == S # {} /\ \A s \in S : WaitsFor(s) \cap S # {}

DeadlockVictim(s) ==
  /\ \E S \in SUBSET Sessions :
       s \in S /\ Stuck(S) /\ \A R \in SUBSET S : R # S => ~Stuck(R)
  /\ Abort(s)

-----------------------------------------------------------------------------
Act(s) ==
  \/ Update(s) \/ Delete(s)
  \/ InsertEntry(s) \/ StampPosted(s)
  \/ Match(s)
  \/ NextUndo(s) \/ Undo(s) \/ ReverseEntry(s) \/ StampCancelled(s)
  \/ Commit(s)

Next ==
  \/ \E p \in Payments, a \in Amounts : Create(p, a)
  \/ \E s \in Sessions :
       \/ \E p \in Payments, c \in Changes : BeginUpdate(s, p, c[1], c[2])
       \/ \E p \in Payments : BeginDelete(s, p) \/ BeginPost(s, p) \/ BeginCancel(s, p)
       \/ \E lines \in SUBSET Lines, take \in Takes \cup {None} :
            Cardinality(lines) <= MaxLines /\ BeginMatch(s, lines, take)
       \/ \E m \in matches : BeginUnmatch(s, m)
       \/ Acquire(s)
       \/ Update(s)
       \/ Delete(s)
       \/ InsertEntry(s)
       \/ StampPosted(s)
       \/ Match(s)
       \/ NextUndo(s)
       \/ Undo(s)
       \/ ReverseEntry(s)
       \/ StampCancelled(s)
       \/ Commit(s)
       \/ Rollback(s)
       \/ DeadlockVictim(s)

Spec == Init /\ [][Next]_vars

(* A request that is served goes on to its end; PostgreSQL grants a row to *)
(* its waiters in turn and detects deadlocks.  Nobody has to make a        *)
(* request or to fail.                                                     *)
Fairness ==
  \A s \in Sessions : SF_vars(Acquire(s)) /\ WF_vars(Act(s)) /\ WF_vars(DeadlockVictim(s))

FairSpec == Spec /\ Fairness

-----------------------------------------------------------------------------
(* The lock order alone keeps open amounts right: whatever requests race   *)
(* over a line, none reaches its commit with an open amount that is not    *)
(* the line's amount less its matches, so the deferred trigger never has   *)
(* to refuse one (matching.py:3-5, 0005_payments.py:246-294).              *)
OpenAmountsNeverRefused == \A s \in Sessions : At(s, "commit") => ResidualsCheck(tx[s])

(* A posted payment has one entry, a cancelled one its reversal too, and   *)
(* nothing else has either, although posting, deleting and cancelling read *)
(* the payment's state without a lock (payments.py:158,178,220).           *)
EntriesFollowState ==
  \A p \in Payments :
    /\ amount[p] # None <=> payment[p].state \in {"posted", "cancelled"}
    /\ amount[Reversal(p)] # None <=> payment[p].state = "cancelled"
    /\ amount[Reversal(p)] \in {amount[p], None}

(* A posted payment is evidence: whatever was read while it was a draft,   *)
(* the fields of the guard never change, it is only ever cancelled, and    *)
(* that is for good (0005_payments.py:333-365).  Its memo is left out, as  *)
(* the guard leaves it out: see OnlyCancellingChanges.                     *)
PostedIsEvidence ==
  [][\A p \in Payments :
       LET old == payment[p]
           new == payment'[p]
       IN
       /\ old.state \in {"posted", "cancelled"} =>
            new \in [state: {old.state, "cancelled"}, amount: {old.amount}, memo: Memos \cup {None}]
       /\ old.state = "deleted" => new = old]_vars

(* Requests that match or take back one match queue for their rows and     *)
(* never wait in a cycle (matching.py:3,470).                              *)
Matching(s) == tx[s].pc \in {"match", "matched", "commit"} \/ tx[s].payment = None
MatchesQueue == \A S \in SUBSET {s \in Sessions : Matching(s)} : ~Stuck(S)

Reversals == {<<p, Reversal(p)>> : p \in {q \in Payments : amount[Reversal(q)] # None}}

(* Whatever requests race over lines and matches, what each commits is one *)
(* step of the abstract account: a line opened, lines matched, one match   *)
(* taken back, or a payment reversed with some of its matches              *)
(* (matching.py, payments.py:209-252).                                     *)
AbstractAccount ==
  INSTANCE OpenAccount WITH
    Taken <- Matched, Sides <- Sides, matches <- matches,
    amount <- [l \in Posted |-> amount[l]],
    open <- [l \in Posted |-> residual[l]],
    reversals <- Reversals

RefinesAccount == AbstractAccount!Spec

(* Every request ends, although requests wait for one another's rows.      *)
EveryRequestEnds == \A s \in Sessions : tx[s].pc # "idle" ~> tx[s].pc = "idle"

-----------------------------------------------------------------------------
(* Why a payment's entries follow its state (SettlementProofs).            *)

(* A record with the fields of a request. *)
IsRequest(t) ==
  t \in [pc: {t.pc}, queue: {t.queue}, held: {t.held}, payment: {t.payment}, amount: {t.amount},
         memo: {t.memo}, lines: {t.lines}, todo: {t.todo}, match: {t.match}, row: {t.row}, opens: {t.opens},
         open: {t.open}, made: {t.made}, undone: {t.undone}]

Typed ==
  /\ payment \in [Payments -> Rows]
  /\ amount \in [Lines -> Amounts \cup {None}]
  /\ tx = [s \in Sessions |-> tx[s]] /\ \A s \in Sessions : IsRequest(tx[s])

HeldApart ==
  \A s, r \in Sessions : s # r => \A l \in tx[s].held \cap tx[r].held : l[1] = "share"

PaymentLock(p) == <<"payment", p>>
SourceLock(p) == <<"source", p>>
EntryLock(p) == <<"entry", p>>
Counter == <<"counter", 0>>

Holds(s, l) == l \in tx[s].held
Awaits(s, l) == Holds(s, l) \/ tx[s].queue = <<l>> \/ tx[s].queue = <<Counter, l>>

(* What a request knows of its payment until it has written it. *)
Knows(s) ==
  LET t == tx[s]
      p == t.payment
  IN
  /\ t.pc \in {"idle", "match", "matched", "undoing", "undo", "update", "delete", "post", "stamp",
               "reverse", "cancel", "commit"}
  /\ p # None => p \in Payments /\ payment[p].state # "none"
  /\ t.pc \in {"idle", "match", "matched"} => p = None
  /\ t.pc \in {"update", "delete", "post", "stamp", "reverse", "cancel"} => p # None
  /\ t.pc # "commit" => t.row = None
  /\ t.pc \notin {"stamp", "cancel", "commit"} => t.opens = None
  /\ t.pc = "update" => t.amount \in Amounts \cup {None} /\ t.memo \in Memos \cup {None}
  /\ t.pc = "post" => t.amount \in Amounts
  /\ t.pc \in {"update", "delete"} => Awaits(s, PaymentLock(p))
  /\ t.pc = "post" => Awaits(s, SourceLock(p))
  /\ t.pc = "stamp" =>
       /\ Holds(s, SourceLock(p)) /\ Awaits(s, PaymentLock(p))
       /\ amount[p] = None /\ t.opens = p /\ t.open[p] \in Amounts
  /\ t.pc \in {"undoing", "undo", "reverse"} /\ p # None => payment[p].state \in {"posted", "cancelled"}
  /\ t.pc = "reverse" => Awaits(s, EntryLock(p))
  /\ t.pc = "cancel" =>
       /\ Holds(s, EntryLock(p)) /\ Awaits(s, PaymentLock(p))
       /\ payment[p].state = "posted" /\ t.opens = Reversal(p) /\ t.open[t.opens] = amount[p]

(* What a request will write: matches alone, or its payment's row, which   *)
(* it has locked and which is still as it was.                             *)
MatchesOnly(t) == t.row = None /\ t.opens = None

Edits(t) ==
  /\ t.opens = None
  /\ \/ payment[t.payment].state # "deleted" /\ t.row = [payment[t.payment] EXCEPT !.memo = t.row.memo]
     \/ payment[t.payment].state = "draft" /\ t.row.state \in {"draft", "deleted"}

Posts(t) ==
  /\ payment[t.payment].state = "draft" /\ t.row = [payment[t.payment] EXCEPT !.state = "posted"]
  /\ t.opens = t.payment /\ t.open[t.payment] \in Amounts
  /\ SourceLock(t.payment) \in t.held

Cancels(t) ==
  /\ payment[t.payment].state = "posted" /\ t.row = [payment[t.payment] EXCEPT !.state = "cancelled"]
  /\ t.opens = Reversal(t.payment) /\ t.open[t.opens] = amount[t.payment]
  /\ EntryLock(t.payment) \in t.held

Written(s) ==
  LET t == tx[s] IN
  t.pc = "commit" =>
    \/ MatchesOnly(t)
    \/ /\ t.payment # None /\ t.row \in Rows /\ Holds(s, PaymentLock(t.payment))
       /\ Edits(t) \/ Posts(t) \/ Cancels(t)

Inv ==
  /\ Typed
  /\ HeldApart
  /\ \A s \in Sessions : Knows(s) /\ Written(s)
  /\ EntriesFollowState

-----------------------------------------------------------------------------
(* Why open amounts are never refused (SettlementProofs).                  *)

LineLock(l) == <<"line", l>>
MatchLock(m) == <<"match", m.id>>
Asks(t) == t.held \cup Range(t.queue)

(* The lines whose open amounts a request writes, but for the one it opens. *)
Touched(t) == DOMAIN t.open \ {t.opens}

(* A request has locked the lines and the matches that it writes, and      *)
(* asked for those that it is going to.                                    *)
Locked(t) ==
  /\ t.queue \in Seq(Range(t.queue))
  /\ t.pc = "match" => \A l \in t.lines : LineLock(l) \in Asks(t)
  /\ t.pc = "matched" => \A l \in t.lines : LineLock(l) \in t.held
  /\ t.pc = "undoing" => \A m \in t.todo : MatchLock(m) \in Asks(t)
  /\ t.pc = "undo" => /\ \A m \in t.todo : MatchLock(m) \in t.held
                      /\ \A l \in Sides(t.match) : LineLock(l) \in Asks(t)
  /\ \A m \in t.undone : MatchLock(m) \in t.held
  /\ \A l \in Touched(t) : LineLock(l) \in t.held
  /\ t.opens # None => \E p \in Payments : \/ t.opens = p /\ SourceLock(p) \in t.held
                                           \/ t.opens = Reversal(p) /\ EntryLock(p) \in t.held

MatchRows == [id: MatchIds, debit: Debits, credit: Credits, amount: Nat \ {0}]

(* What is committed agrees: what is open of a line is its amount less its *)
(* matches, and a line that is not there has none.                         *)
Balanced ==
  /\ matches \subseteq MatchRows /\ IsFiniteSet(matches)
  /\ \A l \in Lines :
       IF l \in Posted THEN residual[l] \in Nat /\ residual[l] = amount[l] - Matched(matches, l)
       ELSE Touching(matches, l) = {}

(* What a request has written agrees with it. *)
Tallies(t) ==
  /\ t.pc \in {"idle", "match", "update", "delete", "post"} => DOMAIN t.open = {} /\ t.undone = {}
  /\ t.pc \in {"match", "matched"} => t.lines \subseteq Posted /\ t.undone = {}
  /\ t.pc \notin {"matched", "commit"} => t.made = {}
  /\ t.pc = "undo" => t.match \in matches \cap t.todo
  /\ t.undone \subseteq matches \ t.todo
  /\ t.made \subseteq MatchRows \ matches /\ IsFiniteSet(t.made)
  /\ DOMAIN t.open \subseteq Lines /\ Touched(t) \subseteq Posted
  /\ t.opens # None => t.opens \in DOMAIN t.open \ Posted
  /\ \A m \in t.made \cup t.undone : Sides(m) \subseteq Touched(t)
  /\ \A l \in DOMAIN t.open :
       t.open[l] \in Nat /\ t.open[l] = AmountAfter(t, l) - Matched(MatchesAfter(t), l)

(* New matches are nobody else's. *)
MadeApart == \A s, r \in Sessions : s # r => tx[s].made \cap tx[r].made = {}

OpenInv ==
  /\ Balanced
  /\ MadeApart
  /\ \A s \in Sessions : Locked(tx[s]) /\ Tallies(tx[s])

-----------------------------------------------------------------------------
(* Why a commit is a step of the abstract account (SettlementProofs).      *)

(* A request makes matches, or takes back one, or is about a payment: it   *)
(* takes back matches of the payment's line alone, and only to reverse it. *)
Deed(t) ==
  /\ t.made # {} => t.payment = None /\ t.undone = {}
  /\ t.payment = None => \A m, n \in t.todo \cup t.undone : m = n
  /\ t.payment # None => \A m \in t.todo \cup t.undone : t.payment \in Sides(m)
  /\ t.payment # None /\ t.undone # {} =>
       t.pc \in {"undoing", "undo", "reverse"} \/ t.opens = Reversal(t.payment)

DeedInv == \A s \in Sessions : Deed(tx[s])

-----------------------------------------------------------------------------
(* Why requests that match queue (SettlementProofs).                       *)

(* The order of the rows they lock: a match, lines by id, and then a       *)
(* counter and entries in either order.                                    *)
LockRank(l) == IF l[1] = "match" THEN 0 ELSE IF l[1] = "line" THEN 1 + l[2] ELSE 2 * Span + 1

MatchingLock(l) ==
  l[1] \in {"match", "share"} \/ l = <<"counter", 1>> \/ \E k \in Lines : l = LineLock(k)

(* A request asks for a match or a line after all that precede it.         *)
InOrder(t) ==
  /\ t.pc = "commit" /\ t.payment # None => t.queue = <<>>
  /\ t.payment = None =>
       /\ \A l \in Asks(t) : MatchingLock(l)
       /\ \A i \in DOMAIN t.queue : t.queue[i][1] \in {"match", "line"} =>
            /\ \A l \in t.held : LockRank(l) < LockRank(t.queue[i])
            /\ \A j \in 1..(i - 1) : LockRank(t.queue[j]) < LockRank(t.queue[i])
       /\ t.pc = "undo" => t.todo = {t.match}
       /\ t.pc = "undoing" /\ t.todo # {} =>
            (\E m \in t.todo : t.todo = {m}) /\ \A l \in Asks(t) : l[1] = "match"

OrderInv == \A s \in Sessions : InOrder(tx[s])

-----------------------------------------------------------------------------
(* What the project says and its code does not do.                         *)

(* "locks are always taken in a fixed order (sequence -> documents by id   *)
(* -> ledger lines by id)" (docs/architecture.md:455).                     *)
NoDeadlock == \A S \in SUBSET Sessions : ~Stuck(S)

(* "A posted payment is evidence, the same way an issued invoice is: only  *)
(* cancelling changes it" (0005_payments.py:333).                          *)
OnlyCancellingChanges ==
  [][\A p \in Payments :
       payment[p].state = "posted" =>
         payment'[p] \in {payment[p], [payment[p] EXCEPT !.state = "cancelled"]}]_vars

(* "Undo everything a payment settled, so cancelling it leaves no invoice  *)
(* looking paid" (matching.py:213): the step that cancels a payment leaves *)
(* no match on its line.                                                   *)
CancellingLeavesNoMatch ==
  [][\A p \in Payments :
       payment[p].state = "posted" /\ payment'[p].state = "cancelled" =>
         \A m \in matches' : p \notin Sides(m)]_vars

(* "A posted payment is evidence" (payments.py:135) of the entry it moved  *)
(* the partner's balance by.                                               *)
PostedAmountIsEntryAmount ==
  \A p \in Payments : payment[p].state = "posted" => payment[p].amount = amount[p]

(* A reversal "unreconciles/reconciles the pair so the original's open     *)
(* amounts close out" (docs/architecture.md:457-459).                      *)
ReversalClosesThePair ==
  [][\A p \in Payments :
       payment[p].state = "posted" /\ payment'[p].state = "cancelled" =>
         residual'[p] = 0 /\ residual'[Reversal(p)] = 0]_vars
=============================================================================
