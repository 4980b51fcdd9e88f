------------------------ MODULE BankReconciliation ------------------------
(***************************************************************************)
(* Reconciling bank statement lines with payments                          *)
(* (app/treasury/reconciling.py), with cancel_payment and the part of      *)
(* matching.py they call on the outstanding account.                       *)
(*                                                                         *)
(* All amounts agree (_check_agrees), so a line of the outstanding account *)
(* is open or reconciled as a whole, and a match joins the line of a       *)
(* payment's entry with the line of a bank entry.  A session is one        *)
(* request in one transaction at READ COMMITTED; what it writes others see *)
(* when it commits.                                                        *)
(***************************************************************************)
EXTENDS Integers, Sequences, FiniteSets, SequencesExt, RowLocks

CONSTANTS
  Sessions,        \* requests being served
  StatementLines,  \* ids of bank statement lines
  Payments,        \* ids of posted payments
  Entries,         \* bound: ids of bank entries, a set of 1..n
  KeepsOpenItems,  \* whether the outstanding account is reconcilable
  Series,          \* the numbering series of what a line or a payment posts
  None

Entry == [line: StatementLines, payment: Payments, state: {"posted", "reversed"}]

ASSUME BankReconciliationAssumption ==
  /\ Entries \subseteq Nat
  /\ KeepsOpenItems \in BOOLEAN
  /\ StatementLines \cup Payments \subseteq DOMAIN Series
  /\ None \notin StatementLines \cup Payments \cup Entries \cup Entry

VARIABLES
  line,       \* statement lines: the payment and the bank entry they have
  cancelled,  \* payments that were cancelled
  entry,      \* bank entries: the statement line, the payment, their state
  matches,    \* matches: a payment and a bank entry
  closed,     \* lines of the outstanding account stored as reconciled
  tx          \* the request each session serves

books == <<line, cancelled, entry, matches, closed>>
vars == <<books, tx>>

Line == [payment: Payments \cup {None}, entry: Entries \cup {None}]
Unreconciled == [payment |-> None, entry |-> None]

(* A request: where it is, its locks, what it is about, what it read       *)
(* before it had its locks, and what it has done of the rest.              *)
Idle == [pc |-> "idle", queue |-> <<>>, held |-> {}, line |-> None, payment |-> None,
         entry |-> None, matched |-> FALSE, undone |-> {}]

Start(s, t) == tx' = [tx EXCEPT ![s] = t]

At(s, here) == tx[s].pc = here /\ tx[s].queue = <<>>

Goto(s, t, to, locks) == Start(s, [t EXCEPT !.pc = to, !.queue = locks]) /\ UNCHANGED books

(* Mutant of Abort: the connection goes back to its pool with its locks. *)
AbortKeepingLocks(s) == Start(s, [Idle EXCEPT !.held = tx[s].held]) /\ UNCHANGED books

Abort(s) == Start(s, Idle) /\ UNCHANGED books

Lock(kind, id, mode) == <<<<kind, id>>, mode>>

(* The journal of the bank account (or of the payment) and the fiscal year *)
(* of the date choose the series: lines may share one or not.              *)
Counter(x) == Lock("counter", Series[x], "no_key_update")

(* The two sides of a match, the payment's with the lower id, and then     *)
(* their entries, which the guard on lines shares.                         *)
MatchLocks(p, e) ==
  <<Lock("payment_line", p, "update"), Lock("bank_line", e, "update"),
    Lock("payment_entry", p, "share"), Lock("bank_entry", e, "share")>>

-----------------------------------------------------------------------------
Init ==
  /\ line = [l \in StatementLines |-> Unreconciled]
  /\ cancelled = {}
  /\ entry = [e \in Entries |-> None]
  /\ matches = {}
  /\ closed = {}
  /\ tx = [s \in Sessions |-> Idle]

Acquire(s) ==
  /\ CanTakeLock(tx, s)
  /\ Start(s, WithLock(tx[s]))
  /\ UNCHANGED books

-----------------------------------------------------------------------------
(* reconcile_line: the statement line is locked, the payment only read.    *)

(* Mutant of LineLock: the statement line is only read. *)
LineUnlocked(l) == <<>>

LineLock(l) == <<Lock("statement_line", l, "update")>>

(* Bound: a request is only made while there is an id for its bank entry. *)
BeginReconcile(s, l, p) ==
  /\ tx[s].pc = "idle"
  /\ \E e \in Entries :
       /\ entry[e] = None /\ \A r \in Sessions : tx[r].entry # e
       /\ \A f \in Entries : f < e => entry[f] # None \/ \E r \in Sessions : tx[r].entry = f
       /\ Goto(s, [Idle EXCEPT !.line = l, !.payment = p, !.entry = e], "reconcile", LineLock(l))

CheckLine(s) ==
  LET t == tx[s] IN
  /\ At(s, "reconcile")
  /\ \/ /\ line[t.line] = Unreconciled /\ t.payment \notin cancelled
        /\ Goto(s, t, "post", <<Counter(t.line)>>)
     \/ /\ line[t.line] # Unreconciled \/ t.payment \in cancelled
        /\ Abort(s)

(* post(), and _clear_outstanding: the lines are loaded without a lock, and *)
(* keep the values they were loaded with when match_amount locks them.      *)
Post(s) ==
  LET t == tx[s] IN
  /\ At(s, "post")
  /\ \/ /\ KeepsOpenItems /\ <<"payment", t.payment>> \notin closed
        /\ Goto(s, [t EXCEPT !.matched = TRUE], "finish", MatchLocks(t.payment, t.entry))
     \/ /\ ~KeepsOpenItems \/ <<"payment", t.payment>> \in closed
        /\ Goto(s, t, "finish", <<>>)

(* Mutant of ResidualsAgree: there is no deferred trigger. *)
ResidualsUnchecked(ms, shut, p) == TRUE

(* check_line_residual at commit: what is matched of the line is no more   *)
(* than the line, and the rest of it is open.                              *)
ResidualsAgree(ms, shut, p) ==
  LET matched == Cardinality({m \in ms : m[1] = p})
  IN matched <= 1 /\ (matched = 1 <=> <<"payment", p>> \in shut)

FinishReconcile(s) ==
  LET t    == tx[s]
      pair == IF t.matched THEN {<<t.payment, t.entry>>} ELSE {}
      shut == IF t.matched THEN closed \cup {<<"payment", t.payment>>, <<"bank", t.entry>>} ELSE closed
  IN
  /\ At(s, "finish")
  /\ \/ /\ ResidualsAgree(matches \cup pair, shut, t.payment)
        /\ line' = [line EXCEPT ![t.line] = [payment |-> t.payment, entry |-> t.entry]]
        /\ entry' = [entry EXCEPT ![t.entry] =
                       [line |-> t.line, payment |-> t.payment, state |-> "posted"]]
        /\ matches' = matches \cup pair
        /\ closed' = shut
        /\ Start(s, Idle)
        /\ UNCHANGED cancelled
     \/ ~ResidualsAgree(matches \cup pair, shut, t.payment) /\ Abort(s)

-----------------------------------------------------------------------------
(* undo_reconcile: the bank entry is reversed and the line let go; a match *)
(* of the entry stays.                                                     *)
BeginUndo(s, l) ==
  /\ tx[s].pc = "idle"
  /\ Goto(s, [Idle EXCEPT !.line = l], "undo", LineLock(l))

CheckReconciled(s) ==
  LET t == tx[s]
      e == line[t.line].entry
  IN
  /\ At(s, "undo")
  /\ \/ e # None /\ Goto(s, [t EXCEPT !.undone = {e}], "reverse",
                         <<Lock("bank_entry", e, "update")>>)
     \/ e = None /\ Abort(s)

(* reverse(): an entry is reversed once. *)
ReverseBank(s) ==
  LET t == tx[s] IN
  /\ At(s, "reverse")
  /\ \A e \in t.undone :
       \/ entry[e].state = "posted" /\ Goto(s, t, "end_of_undo", <<Counter(t.line)>>)
       \/ entry[e].state = "reversed" /\ Abort(s)

FinishUndo(s) ==
  LET t == tx[s] IN
  /\ At(s, "end_of_undo")
  /\ line' = [line EXCEPT ![t.line] = Unreconciled]
  /\ entry' = [e \in Entries |->
                 IF e \in t.undone THEN [entry[e] EXCEPT !.state = "reversed"] ELSE entry[e]]
  /\ Start(s, Idle)
  /\ UNCHANGED <<cancelled, matches, closed>>

-----------------------------------------------------------------------------
(* cancel_payment: the matches of the payment are locked and undone, then  *)
(* its entry is reversed, and the payment's row is written last.           *)
MatchesOf(p) == {m \in matches : m[1] = p}

MatchLock(m) == Lock("match", m, "update")

BeginCancel(s, p) ==
  /\ tx[s].pc = "idle"
  /\ p \notin cancelled
  /\ Goto(s, [Idle EXCEPT !.payment = p], "unmatch", SetToSeq({MatchLock(m) : m \in MatchesOf(p)}))

(* A match that was deleted during the wait is not found. *)
UnmatchPayment(s) ==
  LET t    == tx[s]
      mine == {m \in MatchesOf(t.payment) : MatchLock(m) \in t.held}
  IN
  /\ At(s, "unmatch")
  /\ Goto(s, [t EXCEPT !.undone = mine], "reopen",
          FlattenSeq(SetToSeq({MatchLocks(m[1], m[2]) : m \in mine})))

Reopen(s) ==
  /\ At(s, "reopen")
  /\ Goto(s, tx[s], "cancel", <<Lock("payment_entry", tx[s].payment, "update")>>)

ReversePayment(s) ==
  LET t == tx[s] IN
  /\ At(s, "cancel")
  /\ \/ /\ t.payment \notin cancelled
        /\ Goto(s, t, "end_of_cancel",
                <<Counter(t.payment), Lock("payment", t.payment, "no_key_update")>>)
     \/ t.payment \in cancelled /\ Abort(s)

FinishCancel(s) ==
  LET t    == tx[s]
      rest == matches \ t.undone
      shut == closed \ UNION {{<<"payment", m[1]>>, <<"bank", m[2]>>} : m \in t.undone}
  IN
  /\ At(s, "end_of_cancel")
  /\ \/ /\ t.undone # {} => ResidualsAgree(rest, shut, t.payment)
        /\ cancelled' = cancelled \cup {t.payment}
        /\ matches' = rest
        /\ closed' = shut
        /\ Start(s, Idle)
        /\ UNCHANGED <<line, entry>>
     \/ t.undone # {} /\ ~ResidualsAgree(rest, shut, t.payment) /\ Abort(s)

-----------------------------------------------------------------------------
(* An error elsewhere in the request, or a lost connection. *)
Rollback(s) == tx[s].pc # "idle" /\ Abort(s)

DeadlockVictim(s) == InCycle(tx, s) /\ Abort(s)

Act(s) ==
  \/ CheckLine(s) \/ Post(s) \/ FinishReconcile(s)
  \/ CheckReconciled(s) \/ ReverseBank(s) \/ FinishUndo(s)
  \/ UnmatchPayment(s) \/ Reopen(s) \/ ReversePayment(s) \/ FinishCancel(s)

Next ==
  \E s \in Sessions :
    \/ \E l \in StatementLines, p \in Payments : BeginReconcile(s, l, p)
    \/ \E l \in StatementLines : BeginUndo(s, l)
    \/ \E p \in Payments : BeginCancel(s, p)
    \/ Acquire(s)
    \/ CheckLine(s)
    \/ Post(s)
    \/ FinishReconcile(s)
    \/ CheckReconciled(s)
    \/ ReverseBank(s)
    \/ FinishUndo(s)
    \/ UnmatchPayment(s)
    \/ Reopen(s)
    \/ ReversePayment(s)
    \/ FinishCancel(s)
    \/ Rollback(s)
    \/ DeadlockVictim(s)

Spec == Init /\ [][Next]_vars

(* A request that is served goes on to its end; PostgreSQL grants a row to *)
(* its waiters in turn and detects deadlocks.  Nobody has to make a        *)
(* request or to fail.                                                     *)
Fairness ==
  \A s \in Sessions : SF_vars(Acquire(s)) /\ WF_vars(Act(s)) /\ WF_vars(DeadlockVictim(s))

FairSpec == Spec /\ Fairness

-----------------------------------------------------------------------------
(* The bank account moves once for a statement line: a reconciled line has *)
(* one entry that stands, its own, and any other line has none (R8.AC4,    *)
(* R11.AC5).                                                               *)
BankMovesOnce ==
  \A l \in StatementLines :
    {e \in Entries : entry[e] # None /\ entry[e].line = l /\ entry[e].state = "posted"}
      = IF line[l].entry = None THEN {} ELSE {line[l].entry}

(* A payment leaves the outstanding account at most once, although the     *)
(* lines are loaded before they are locked: when the two are numbered in   *)
(* different series, only the check at commit stops the second (NFR1).     *)
LeavesOnce ==
  \A p \in Payments :
    /\ Cardinality(MatchesOf(p)) <= 1
    /\ MatchesOf(p) # {} <=> <<"payment", p>> \in closed

(* Every request ends, although a cancellation holds the payment's entry   *)
(* and asks for the counter when a reconciliation has that and wants the   *)
(* entry.                                                                  *)
EveryRequestEnds == \A s \in Sessions : tx[s].pc # "idle" ~> tx[s].pc = "idle"

-----------------------------------------------------------------------------
(* Why they hold (BankProofs).                                             *)

(* A record with the fields of a request. *)
IsRequest(t) ==
  t \in [pc: {t.pc}, queue: {t.queue}, held: {t.held}, line: {t.line}, payment: {t.payment},
         entry: {t.entry}, matched: {t.matched}, undone: {t.undone}]

Typed ==
  /\ line \in [StatementLines -> Line]
  /\ entry \in [Entries -> Entry \cup {None}]
  /\ matches \subseteq Payments \X Entries /\ IsFiniteSet(matches)
  /\ tx = [s \in Sessions |-> tx[s]] /\ \A s \in Sessions : IsRequest(tx[s])

Owns(s, l) == Lock("statement_line", l, "update") \in tx[s].held

LinesApart ==
  \A s, r \in Sessions : s # r => \A l \in StatementLines : ~(Owns(s, l) /\ Owns(r, l))

(* No two requests make one bank entry. *)
EntriesApart ==
  \A s, r \in Sessions : s # r /\ tx[s].entry # None => tx[s].entry # tx[r].entry

(* The request waits for its statement line, or has it. *)
Locking(s) == tx[s].queue = LineLock(tx[s].line) \/ (tx[s].queue = <<>> /\ Owns(s, tx[s].line))

Reconciling == {"reconcile", "post", "finish"}
Undoing == {"undo", "reverse", "end_of_undo"}
Cancelling == {"reopen", "cancel", "end_of_cancel"}

(* What a request knows of its line from when it has it. *)
Knows(s) ==
  LET t == tx[s] IN
  /\ t.pc \in {"idle", "unmatch"} \cup Reconciling \cup Undoing \cup Cancelling
  /\ IF t.pc \in Reconciling THEN t.entry \in Entries /\ entry[t.entry] = None ELSE t.entry = None
  /\ t.pc \in Reconciling => t.payment \in Payments /\ t.matched \in BOOLEAN
  /\ t.pc \in Reconciling \cup Undoing => t.line \in StatementLines
  /\ t.pc \in {"reconcile", "undo"} => Locking(s)
  /\ t.pc \in {"post", "finish"} => Owns(s, t.line) /\ line[t.line] = Unreconciled
  /\ t.pc \in {"reverse", "end_of_undo"} =>
       /\ Owns(s, t.line)
       /\ line[t.line].entry # None /\ t.undone = {line[t.line].entry}
  /\ t.pc \in Cancelling => \A m \in t.undone : m[1] = t.payment

Inv ==
  /\ Typed
  /\ LinesApart
  /\ EntriesApart
  /\ \A s \in Sessions : Knows(s)
  /\ BankMovesOnce
  /\ LeavesOnce

-----------------------------------------------------------------------------
(* What the project says and its code does not do.                         *)

(* "only a posted payment can be matched to a statement line"              *)
(* (reconciling.py:204).                                                   *)
OnlyPostedReconciled ==
  [][\A l \in StatementLines :
       line[l] = Unreconciled /\ line'[l] # Unreconciled => line'[l].payment \notin cancelled]_vars

(* "every match and payment recorded and safe under load, so that cash     *)
(* cannot be double-counted" (payments requirements, R11): no payment is   *)
(* the money of two statement lines.                                       *)
CountedOnce ==
  \A k, l \in StatementLines :
    k # l /\ line[k].payment # None => line[k].payment # line[l].payment

(* "the payment leaves the holding account" (reconciling.py:194): where    *)
(* that account keeps open items, the payment's is closed against the      *)
(* entry of the statement line.                                            *)
HoldingCleared ==
  \A l \in StatementLines :
    line[l].payment # None /\ line[l].payment \notin cancelled =>
      <<line[l].payment, line[l].entry>> \in matches
=============================================================================
