----------------------------- MODULE Documents -----------------------------
(***************************************************************************)
(* Invoices, bills and the notes that correct them                         *)
(* (app/billing/documents.py) with the triggers that guard them            *)
(* (migration 0004).                                                       *)
(*                                                                         *)
(* A document's lines, and the columns of its row that document_guard      *)
(* compares, are kept as the total it comes to (which the lines and        *)
(* tax_inclusive decide; the other columns do as tax_inclusive does); its  *)
(* narration, which the guard leaves out, is kept apart.  The ledger is    *)
(* kept as the entry each document got and whether that was reversed.      *)
(* A session is one request in one transaction at READ COMMITTED: it reads *)
(* the document without a lock, waits for the locks of its statements, and *)
(* writes what it changed when it commits.                                 *)
(***************************************************************************)
EXTENDS Integers, Sequences, FiniteSets, Functions, RowLocks

CONSTANTS
  Sessions,  \* requests being served
  Invoices,  \* ids of invoices
  Notes,     \* ids of credit notes
  Amounts,   \* totals a document may have
  Texts,     \* narrations that updates write
  Kinds,     \* bound: kinds of requests made
  Edited,    \* bound: documents that requests change or delete
  Narrated,  \* bound: those whose narration requests change
  None

ASSUME DocumentsAssumption ==
  /\ Invoices \cap Notes = {} /\ IsFiniteSet(Notes)
  /\ Amounts \subseteq Nat \ {0}
  /\ Narrated \subseteq Edited /\ Edited \subseteq Invoices \cup Notes
  /\ None \notin Invoices \cup Notes \cup Texts \cup Nat

Ids == Invoices \cup Notes

VARIABLES
  document,  \* document rows: state, total, narration (None: as created), what a note corrects
  entry,     \* what the document's entry was posted for, None without one
  reversed,  \* documents whose entry has a reversal
  tx         \* the request each session serves

rows == <<document, entry, reversed>>
vars == <<rows, tx>>

Document ==
  [state: {"none", "draft", "posted", "cancelled", "deleted"},
   amount: Amounts \cup {None}, narration: Texts \cup {None}, origin: Invoices \cup {None}]

NoDocument == [state |-> "none", amount |-> None, narration |-> None, origin |-> None]
Draft(a, o) == [state |-> "draft", amount |-> a, narration |-> None, origin |-> o]
Deleted == [NoDocument EXCEPT !.state = "deleted"]

(* A request: where it is, the locks it asks for and has, its document,    *)
(* the total it read; of an update, the total that columns of the row and  *)
(* that new lines make, and the narration (None for what it leaves); what  *)
(* it has written: the row, an entry's amount, whether it reversed one.    *)
Idle == [pc |-> "idle", queue |-> <<>>, held |-> {}, doc |-> None, amount |-> None,
         lines |-> None, text |-> None, row |-> None, posts |-> None, reverses |-> FALSE]

Start(s, t) == tx' = [tx EXCEPT ![s] = t]

At(s, here) == tx[s].pc = here /\ tx[s].queue = <<>>

Goto(s, t, to, locks) == Start(s, [t EXCEPT !.pc = to, !.queue = locks]) /\ UNCHANGED rows

(* Mutant of Abort: the connection goes back to its pool with its locks. *)
AbortKeepingLocks(s) == Start(s, [Idle EXCEPT !.held = tx[s].held]) /\ UNCHANGED rows

Abort(s) == Start(s, Idle) /\ UNCHANGED rows

Begins(s, kind) == tx[s].pc = "idle" /\ kind \in Kinds

RowOf(d) == <<"document", d>>
Counter == <<<<"counter", None>>, "no_key_update">>

NotesOf(d, state) == {n \in Notes : document[n].state = state /\ document[n].origin = d}

(* What the lines of notes come to.                                        *)
TotalOf(notes) == SumFunctionOnSet([n \in Notes |-> document[n].amount], notes)

-----------------------------------------------------------------------------
Init ==
  /\ document = [d \in Ids |-> NoDocument]
  /\ entry = [d \in Ids |-> None]
  /\ reversed = {}
  /\ tx = [s \in Sessions |-> Idle]

Acquire(s) ==
  /\ CanTakeLock(tx, s)
  /\ Start(s, WithLock(tx[s]))
  /\ UNCHANGED rows

-----------------------------------------------------------------------------
(* create_document: nothing else refers to the new row. *)
Create(d, a) ==
  /\ "create" \in Kinds
  /\ document[d].state = "none"
  /\ document' = [document EXCEPT ![d] = Draft(a, None)]
  /\ UNCHANGED <<entry, reversed, tx>>

(* credit_note_from: a draft copy of an issued document, whose row the     *)
(* foreign key of the copy shares.                                         *)
BeginNote(s, n, o) ==
  /\ Begins(s, "note")
  /\ document[n].state = "none" /\ \A r \in Sessions : tx[r].doc # n
  /\ document[o].state = "posted"
  /\ Goto(s, [Idle EXCEPT !.doc = n, !.row = Draft(document[o].amount, o)],
          "commit", <<<<RowOf(o), "key_share">>>>)

(* Mutant of LineAllowed: there is no guard on lines. *)
LineAnyState(d) == document[d].state # "deleted"

(* document_line_guard, and the foreign key of lines. *)
LineAllowed(d) == document[d].state = "draft"

(* Mutant of Allowed: the guard refuses nothing but a way back to draft. *)
AllowedAnyColumn(old, new) == old.state = "draft" \/ new.state # "draft"

(* document_guard on UPDATE: a document once issued does not become a      *)
(* draft and keeps every column but its narration.                         *)
Allowed(old, new) ==
  old.state = "draft" \/ (new.state # "draft" /\ new.amount = old.amount /\ new.origin = old.origin)

(* update_document reads a draft without a lock.  New lines replace the    *)
(* old ones behind the document's row FOR SHARE, once columns that change  *)
(* (the narration stands for them) are flushed; updated_at comes last.     *)
BeginUpdate(s, d, a, text) ==
  /\ Begins(s, "update")
  /\ document[d].state = "draft" /\ a # document[d].amount
  /\ Goto(s, [Idle EXCEPT !.doc = d, !.lines = a, !.text = text], "lines",
          IF text = None THEN <<<<RowOf(d), "share">>>>
          ELSE <<<<RowOf(d), "no_key_update">>, <<RowOf(d), "share">>>>)

WriteLines(s) ==
  LET t == tx[s] IN
  /\ At(s, "lines")
  /\ \/ LineAllowed(t.doc) /\ Goto(s, t, "touch", <<<<RowOf(t.doc), "no_key_update">>>>)
     \/ ~LineAllowed(t.doc) /\ Abort(s)

(* Without new lines it is one UPDATE of the row.                          *)
BeginEdit(s, d, a, text) ==
  /\ Begins(s, "edit")
  /\ document[d].state = "draft" /\ a # document[d].amount /\ <<a, text>> # <<None, None>>
  /\ Goto(s, [Idle EXCEPT !.doc = d, !.amount = a, !.text = text], "touch",
          <<<<RowOf(d), "no_key_update">>>>)

Or(new, old) == IF new = None THEN old ELSE new

(* The UPDATE writes the columns the request changes, of the row as it is  *)
(* by then; lines written before are no matter of the guard.               *)
Touch(s) ==
  LET t   == tx[s]
      row == document[t.doc]
      old == [row EXCEPT !.amount = Or(t.lines, @)]
      new == [old EXCEPT !.amount = Or(t.amount, @), !.narration = Or(t.text, @)]
  IN
  /\ At(s, "touch")
  /\ \/ /\ old.state # "deleted" /\ Allowed(old, new)
        /\ Goto(s, [t EXCEPT !.row = new], "commit", <<>>)
     \/ /\ old.state = "deleted" \/ ~Allowed(old, new)
        /\ Abort(s)

(* delete_document: lines first, behind the same guard, then the document. *)
BeginDelete(s, d) ==
  /\ Begins(s, "delete")
  /\ document[d].state = "draft"
  /\ Goto(s, [Idle EXCEPT !.doc = d], "delete",
          <<<<RowOf(d), "share">>, <<RowOf(d), "update">>>>)

(* Mutant of Delete: the state read at the start is believed. *)
DeleteAsRead(s) ==
  LET t == tx[s] IN
  /\ At(s, "delete")
  /\ Goto(s, [t EXCEPT !.row = Deleted], "commit", <<>>)

Delete(s) ==
  LET t == tx[s] IN
  /\ At(s, "delete")
  /\ \/ /\ LineAllowed(t.doc)
        /\ Goto(s, [t EXCEPT !.row = Deleted], "commit", <<>>)
     \/ ~LineAllowed(t.doc) /\ Abort(s)

-----------------------------------------------------------------------------
(* post_document: the document and its lines are read without a lock; a    *)
(* note waits for the document it corrects.                                *)

(* Mutant of OriginLock: the document a note corrects is only read. *)
OriginUnlocked(d) == <<>>

OriginLock(d) ==
  IF document[d].origin = None THEN <<>> ELSE <<<<RowOf(document[d].origin), "update">>>>

(* What post() takes: the journal's counter, and the unique key of an      *)
(* entry's source.                                                         *)
LedgerLocks(d) == <<Counter, <<<<"source", d>>, "update">>>>

BeginPost(s, d) ==
  /\ Begins(s, "post")
  /\ document[d].state = "draft"
  /\ Goto(s, [Idle EXCEPT !.doc = d, !.amount = document[d].amount], "limit", OriginLock(d))

(* _check_credit_note_limit: the totals of the notes issued so far are     *)
(* computed from their lines.                                              *)
Fits(d, a) ==
  LET o == document[d].origin IN
  o # None => TotalOf(NotesOf(o, "posted") \ {d}) + a <= document[o].amount

CheckLimit(s) ==
  LET t == tx[s] IN
  /\ At(s, "limit")
  /\ \/ Fits(t.doc, t.amount) /\ Goto(s, t, "enter", LedgerLocks(t.doc))
     \/ ~Fits(t.doc, t.amount) /\ Abort(s)

InsertEntry(s) ==
  LET t == tx[s] IN
  /\ At(s, "enter")
  /\ \/ /\ entry[t.doc] = None
        /\ Goto(s, [t EXCEPT !.posts = t.amount], "stamp", <<<<RowOf(t.doc), "no_key_update">>>>)
     \/ entry[t.doc] # None /\ Abort(s)

(* Only the columns that changed are written; no row, no update. *)
StampPosted(s) ==
  LET t   == tx[s]
      old == document[t.doc]
      new == [old EXCEPT !.state = "posted"]
  IN
  /\ At(s, "stamp")
  /\ \/ /\ old.state # "deleted" /\ Allowed(old, new)
        /\ Goto(s, [t EXCEPT !.row = new], "commit", <<>>)
     \/ /\ old.state = "deleted" \/ ~Allowed(old, new)
        /\ Abort(s)

-----------------------------------------------------------------------------
(* cancel_document: the state is read without a lock; reverse() waits for  *)
(* the entry, then for the counter; the matches of the entry's open item   *)
(* and the notes that correct it are left as they are.                     *)
BeginCancel(s, d) ==
  /\ Begins(s, "cancel")
  /\ document[d].state = "posted"
  /\ Goto(s, [Idle EXCEPT !.doc = d], "reverse", <<<<<<"entry", d>>, "update">>>>)

ReverseEntry(s) ==
  LET t == tx[s] IN
  /\ At(s, "reverse")
  /\ \/ /\ t.doc \notin reversed
        /\ Goto(s, [t EXCEPT !.reverses = TRUE], "cancel",
                <<Counter, <<RowOf(t.doc), "no_key_update">>>>)
     \/ t.doc \in reversed /\ Abort(s)

StampCancelled(s) ==
  LET t == tx[s] IN
  /\ At(s, "cancel")
  /\ Goto(s, [t EXCEPT !.row = [document[t.doc] EXCEPT !.state = "cancelled"]], "commit", <<>>)

-----------------------------------------------------------------------------
Commit(s) ==
  LET t == tx[s] IN
  /\ At(s, "commit")
  /\ document' = [document EXCEPT ![t.doc] = t.row]
  /\ entry' = IF t.posts = None THEN entry ELSE [entry EXCEPT ![t.doc] = t.posts]
  /\ reversed' = IF t.reverses THEN reversed \cup {t.doc} ELSE reversed
  /\ Start(s, Idle)

(* An error elsewhere in the request, or a lost connection. *)
Rollback(s) == tx[s].pc # "idle" /\ Abort(s)

DeadlockVictim(s) == InCycle(tx, s) /\ Abort(s)

TextsOf(d) == IF d \in Narrated THEN Texts \cup {None} ELSE {None}

Act(s) ==
  \/ WriteLines(s) \/ Touch(s) \/ Delete(s)
  \/ CheckLimit(s) \/ InsertEntry(s) \/ StampPosted(s)
  \/ ReverseEntry(s) \/ StampCancelled(s)
  \/ Commit(s)

Next ==
  \/ \E d \in Invoices, a \in Amounts : Create(d, a)
  \/ \E s \in Sessions :
       \/ \E n \in Notes, o \in Invoices : BeginNote(s, n, o)
       \/ \E d \in Edited, a \in Amounts : \E text \in TextsOf(d) : BeginUpdate(s, d, a, text)
       \/ \E d \in Narrated, a \in Amounts \cup {None}, text \in Texts \cup {None} : BeginEdit(s, d, a, text)
       \/ \E d \in Edited : BeginDelete(s, d)
       \/ \E d \in Ids : BeginPost(s, d) \/ BeginCancel(s, d)
       \/ Acquire(s)
       \/ WriteLines(s)
       \/ Touch(s)
       \/ Delete(s)
       \/ CheckLimit(s)
       \/ InsertEntry(s)
       \/ StampPosted(s)
       \/ ReverseEntry(s)
       \/ StampCancelled(s)
       \/ Commit(s)
       \/ Rollback(s)
       \/ DeadlockVictim(s)

Spec == Init /\ [][Next]_vars

(* A request that is served goes on to its end; PostgreSQL grants a row to *)
(* its waiters in turn and detects deadlocks.  Nobody has to make a        *)
(* request or to fail.                                                     *)
Fairness ==
  \A s \in Sessions : SF_vars(Acquire(s)) /\ WF_vars(Act(s)) /\ WF_vars(DeadlockVictim(s))

FairSpec == Spec /\ Fairness

-----------------------------------------------------------------------------
(* The entries of the notes issued for a document never come to more than  *)
(* its own, for any notes issued, cancelled and changed at once, unless a  *)
(* note was changed between being read and being issued                    *)
(* (documents.py:615, R5.AC6; see IssuedIsItsEntry).                       *)
NotesWithinOriginal ==
  \A o \in Invoices :
    LET notes == NotesOf(o, "posted") IN
    notes # {} /\ (\A d \in notes \cup {o} : entry[d] = document[d].amount) =>
      SumFunctionOnSet(entry, notes) <= entry[o]

(* An issued document has one entry, a cancelled one its reversal too, and *)
(* a draft, a deleted document and one whose issue failed have neither     *)
(* (R6.AC1, R6.AC9, R7.AC5).                                               *)
EntriesFollowState ==
  \A d \in Ids :
    /\ entry[d] # None <=> document[d].state \in {"posted", "cancelled"}
    /\ d \in reversed <=> document[d].state = "cancelled"

(* An issued document is evidence: whatever was read while it was a draft, *)
(* its lines and the columns of the guard never change, it is only ever    *)
(* cancelled, and that is for good (0004_invoicing.py:173-209).  Its       *)
(* narration is left out, as the guard leaves it out: see                  *)
(* OnlyCancellingChanges.                                                  *)
IssuedIsEvidence ==
  [][\A d \in Ids :
       LET old == document[d]
           new == document'[d]
       IN
       /\ old.state \in {"posted", "cancelled"} =>
            new \in [state: {old.state, "cancelled"}, amount: {old.amount}, origin: {old.origin},
                     narration: Texts \cup {None}]
       /\ old.state = "deleted" => new = old]_vars

(* Every request ends, although two that change the lines of one draft     *)
(* wait for each other.                                                    *)
EveryRequestEnds == \A s \in Sessions : tx[s].pc # "idle" ~> tx[s].pc = "idle"

-----------------------------------------------------------------------------
(* Why they hold (DocumentsProofs).                                        *)

(* A row that exists has a total.                                          *)
Rows == {row \in Document : row.amount = None <=> row.state \in {"none", "deleted"}}

Locks == ({"document", "source", "entry", "counter"} \X (Ids \cup {None})) \X Modes

Request ==
  [pc: {"idle", "lines", "touch", "delete", "limit", "enter", "stamp", "reverse", "cancel", "commit"},
   queue: Seq(Locks), held: SUBSET Locks, doc: Ids \cup {None}, amount: Amounts \cup {None},
   lines: Amounts \cup {None}, text: Texts \cup {None},
   row: Document \cup {None}, posts: Amounts \cup {None}, reverses: BOOLEAN]

Typed ==
  /\ document \in [Ids -> Rows]
  /\ entry \in [Ids -> Amounts \cup {None}]
  /\ reversed \in SUBSET Ids
  /\ tx \in [Sessions -> Request]

HeldApart ==
  \A s, r \in Sessions : s # r => \A l \in tx[s].held, k \in tx[r].held : ~Clash(l, k)

(* A note being made is known to its request alone.                        *)
MadeAlone ==
  \A s, r \in Sessions :
    s # r /\ tx[s].doc # None /\ tx[s].doc = tx[r].doc => document[tx[s].doc].state # "none"

Holds(s, l) == l \in tx[s].held
Takes(s, l) == Holds(s, l) \/ \E i \in DOMAIN tx[s].queue : tx[s].queue[i] = l

SourceLock(d) == <<<<"source", d>>, "update">>
EntryLock(d) == <<<<"entry", d>>, "update">>

(* What a request knows of its document until it has written it.           *)
Knows(s) ==
  LET t == tx[s]
      d == t.doc
  IN
  /\ t.pc = "idle" <=> d = None
  /\ t.pc \notin {"idle", "commit"} => document[d].state # "none"
  /\ t.pc \in {"limit", "enter", "stamp"} => t.amount # None
  /\ t.pc \in {"lines", "touch", "delete", "limit", "enter", "reverse", "cancel"} => t.posts = None
  /\ t.pc \in {"lines", "touch", "delete", "limit", "enter", "reverse", "stamp"} => ~t.reverses
  /\ t.pc = "lines" => Takes(s, <<RowOf(d), "share">>)
  /\ t.pc = "touch" =>
       /\ Takes(s, <<RowOf(d), "no_key_update">>)
       /\ t.lines # None => Holds(s, <<RowOf(d), "share">>) /\ document[d].state = "draft"
  /\ t.pc = "delete" => Takes(s, <<RowOf(d), "update">>)
  /\ t.pc = "enter" => Takes(s, SourceLock(d))
  /\ t.pc = "stamp" =>
       /\ Holds(s, SourceLock(d)) /\ Takes(s, <<RowOf(d), "no_key_update">>)
       /\ entry[d] = None /\ t.posts # None
  /\ t.pc = "reverse" => Takes(s, EntryLock(d)) /\ document[d].state \in {"posted", "cancelled"}
  /\ t.pc = "cancel" =>
       /\ Holds(s, EntryLock(d)) /\ Takes(s, <<RowOf(d), "no_key_update">>)
       /\ document[d].state = "posted" /\ t.reverses

(* The row is kept from whoever would change it or its lines.              *)
Owns(s, d) == \E m \in {"no_key_update", "update"} : Holds(s, <<RowOf(d), m>>)

(* What a request will write, of the row as it still is.                   *)
MakesNote(t) ==
  /\ t.doc \in Notes /\ document[t.doc].state = "none" /\ t.row.state = "draft"
  /\ t.posts = None /\ ~t.reverses

Edits(t) ==
  /\ document[t.doc].state = "draft" /\ t.row.state \in {"draft", "deleted"}
  /\ t.posts = None /\ ~t.reverses

Annotates(t) ==
  /\ document[t.doc].state \in {"posted", "cancelled"}
  /\ t.row = [document[t.doc] EXCEPT !.narration = t.row.narration]
  /\ t.posts = None /\ ~t.reverses

Issues(t) ==
  /\ document[t.doc].state = "draft" /\ t.row = [document[t.doc] EXCEPT !.state = "posted"]
  /\ t.posts # None /\ ~t.reverses
  /\ SourceLock(t.doc) \in t.held

Cancels(t) ==
  /\ document[t.doc].state = "posted" /\ t.row = [document[t.doc] EXCEPT !.state = "cancelled"]
  /\ t.posts = None /\ t.reverses
  /\ EntryLock(t.doc) \in t.held

Written(s) ==
  LET t == tx[s] IN
  t.pc = "commit" =>
    /\ t.row \in Rows
    /\ MakesNote(t) \/ (Owns(s, t.doc) /\ (Edits(t) \/ Annotates(t) \/ Issues(t) \/ Cancels(t)))

Inv ==
  /\ Typed
  /\ HeldApart
  /\ MadeAlone
  /\ \A s \in Sessions : Knows(s) /\ Written(s)
  /\ EntriesFollowState

(* Why NotesWithinOriginal holds.                                          *)

(* A note corrects what was issued when it was made.                       *)
NotesHaveOrigins ==
  \A d \in Ids :
    /\ document[d].origin # None => d \in Notes
    /\ document[d].origin # None => document[document[d].origin].state \in {"posted", "cancelled"}

OriginHeld(d) == <<RowOf(document[d].origin), "update">>

(* From the check of the limit to the commit.                              *)
Issuing(t) == t.pc \in {"enter", "stamp"} \/ (t.pc = "commit" /\ t.posts # None)

(* What was checked stays true, since no other note of that document can   *)
(* be issued meanwhile.                                                    *)
Checked(s) ==
  LET t == tx[s]
      d == t.doc
  IN
  /\ t.pc = "limit" /\ document[d].origin # None => Takes(s, OriginHeld(d))
  /\ Issuing(t) => Fits(d, t.amount) /\ (document[d].origin # None => Holds(s, OriginHeld(d)))
  /\ t.posts # None => t.posts = t.amount
  /\ t.pc = "commit" =>
       \/ t.row.origin \in {None, document[d].origin}
       \/ /\ document[d].state = "none" /\ d \in Notes
          /\ t.row.origin # None => document[t.row.origin].state \in {"posted", "cancelled"}

(* Of the notes issued, those whose lines were not changed meanwhile.      *)
AsEntered(o) == {n \in NotesOf(o, "posted") : entry[n] = document[n].amount}

WithinLimit(o) ==
  NotesOf(o, "posted") # {} => SumFunctionOnSet(entry, AsEntered(o)) <= document[o].amount

LimitInv ==
  /\ Inv
  /\ NotesHaveOrigins
  /\ \A s \in Sessions : Checked(s)
  /\ \A o \in Invoices : WithinLimit(o)

-----------------------------------------------------------------------------
(* What the project says and its code does not do.                         *)

(* "locks are always taken in a fixed order (sequence -> documents by id   *)
(* -> ledger lines by id)" (docs/architecture.md:455).                     *)
NoDeadlock == \A S \in SUBSET Sessions : ~Stuck(tx, S)

(* "Cancelling is the only change an issued document accepts"              *)
(* (0004_invoicing.py:195).                                                *)
OnlyCancellingChanges ==
  [][\A d \in Ids :
       document[d].state = "posted" =>
         document'[d] \in {document[d], [document[d] EXCEPT !.state = "cancelled"]}]_vars

(* "When a customer invoice is posted, the system SHALL debit the          *)
(* receivable account with the total" (invoicing requirements, R6.AC2).    *)
IssuedIsItsEntry ==
  \A d \in Ids : document[d].state = "posted" => entry[d] = document[d].amount

(* "only an issued document can be corrected by a note" (documents.py:577):*)
(* a note is not issued for a document that was cancelled meanwhile.       *)
NotesCorrectIssued ==
  [][\A n \in Notes :
       document[n].state = "draft" /\ document'[n].state = "posted" =>
         document[document[n].origin].state = "posted"]_vars
=============================================================================
