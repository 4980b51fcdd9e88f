------------------------------- MODULE Ledger -------------------------------
(***************************************************************************)
(* The posting engine (app/ledger/posting.py) with the database objects it *)
(* relies on: the counter row of a numbering series, the row lock a        *)
(* reversal takes on its original, the unique indexes on the source and on *)
(* the reversed entry, and the lock date of the company.                   *)
(*                                                                         *)
(* A session is one request: one database transaction that makes one or    *)
(* more ledger calls, commits at its end and is rolled back by any error.  *)
(* PostgreSQL runs at READ COMMITTED, so a step sees what others committed *)
(* and what its own transaction wrote, and waits on a row or a unique key  *)
(* another open transaction holds.  Every statement of a call that can     *)
(* wait, or that reads what another transaction may change, is a step.     *)
(*                                                                         *)
(* Amounts are not here: what an entry's lines hold is the matter of       *)
(* Conversion and OpenItems.                                               *)
(***************************************************************************)
EXTENDS Integers, FiniteSets

CONSTANTS
  Sessions,    \* requests being served, each in a transaction of its own
  Journals,    \* the company's journals, each named by the code it was created with
  Codes,       \* journal codes, the prefix of an entry's number
  Ids,         \* entry ids (uuid7, ordered in time): bounds the entries at any time
  Sources,     \* (source_type, source_id) pairs: an invoice, a payment, ...
  Dates,       \* accounting dates, as months counted from year 0
  LockDates,   \* bound: the lock dates the operator may set
  StartMonth,  \* company.fiscal_year_start_month, 1..12
  MaxCalls,    \* bound: ledger calls in one transaction
  None

ASSUME LedgerAssumption ==
  /\ Journals \subseteq Codes
  /\ Ids \subseteq Nat
  /\ Dates \subseteq Nat
  /\ LockDates \subseteq Dates
  /\ StartMonth \in 1..12
  /\ MaxCalls \in Nat \ {0}
  /\ None \notin Sessions \cup Ids \cup Sources \cup Dates

(* The calendar year in which the fiscal year of a date starts. *)
FiscalYear(d) == IF (d % 12) + 1 >= StartMonth THEN d \div 12 ELSE (d \div 12) - 1

Years == {FiscalYear(d) : d \in Dates}

(* A numbering series: one row of sequence_counter. *)
Counters == Journals \X Years
CounterOf(e) == <<e.journal, FiscalYear(e.date)>>

Entries ==
  [id: Ids \cup {None}, journal: Journals, code: Codes, date: Dates, number: Nat,
   source: Sources \cup {None}, reverses: Ids \cup {None}]

VARIABLES
  entries,     \* committed journal entries, all posted
  lastNumber,  \* committed sequence_counter rows: the last number handed out
  drawn,       \* the same rows as the transaction that locks them sees them
  counterLock, \* who holds the row lock of a counter
  entryLock,   \* who holds an entry's row FOR UPDATE
  journal,     \* each journal's active flag, its code and the code a rename will give it
  lockDate,    \* company.lock_date, None when the books are open
  closing,     \* a lock date written by an uncommitted UPDATE of company
  pc,          \* where each session is
  call,        \* the entry its current ledger call is building
  pending,     \* entries it posted and has not committed
  calls        \* ledger calls its transaction has begun

books    == <<entries, lastNumber, journal, lockDate>>
locks    == <<drawn, counterLock, entryLock, closing>>
requests == <<pc, call, pending, calls>>
vars     == <<books, locks, requests>>

NoCall == [id |-> None, number |-> 0, source |-> None, reverses |-> None]

-----------------------------------------------------------------------------
(* What one session sees and what it makes others wait for. *)

(* Mutant of Flushed: the draft is inserted before its number is drawn. *)
FlushedBeforeNumber(s) ==
  pending[s] \cup (IF pc[s] \in {"number", "insert", "stamp"} THEN {call[s]} ELSE {})

(* Rows of journal_entry a transaction has inserted: those it posted, and  *)
(* the draft it has flushed but not stamped yet.                           *)
Flushed(s) == pending[s] \cup (IF pc[s] = "stamp" THEN {call[s]} ELSE {})

InFlight == UNION {Flushed(s) : s \in Sessions}

(* Mutant of Clash: without the unique index on the source. *)
ClashOnReversalsOnly(e, f) == e.reverses # None /\ e.reverses = f.reverses

(* journal_entry_one_per_source and journal_entry_one_reversal *)
Clash(e, f) ==
  \/ e.source # None /\ e.source = f.source
  \/ e.reverses # None /\ e.reverses = f.reverses

(* journal_entry_number_uniq *)
SameNumber(e, f) ==
  e.code = f.code /\ e.number = f.number /\ CounterOf(e) = CounterOf(f)

(* Mutant of Sharing: the lock date is read without FOR SHARE. *)
SharingNothing == {}

(* The trigger on posting reads the lock date FOR SHARE and keeps the row  *)
(* until the transaction ends, so every transaction that posted holds it.  *)
Sharing == {s \in Sessions : pending[s] # {}}

Open(d) == lockDate # None => d > lockDate

(* Ids are drawn in order; that of an entry rolled back may be drawn again. *)
UsedIds == {e.id : e \in entries \cup InFlight}

NextId(i) == i \in Ids \ UsedIds /\ \A k \in Ids \ UsedIds : i <= k

(* The bound on the number of entries: every call begun can get an id. *)
RoomForAnother ==
  Cardinality(UsedIds) + Cardinality({s \in Sessions : pc[s] \in {"entry", "number", "insert"}})
    < Cardinality(Ids)

-----------------------------------------------------------------------------
Init ==
  /\ entries = {}
  /\ lastNumber = [c \in Counters |-> 0]
  /\ drawn = lastNumber
  /\ counterLock = [c \in Counters |-> None]
  /\ entryLock = [i \in Ids |-> None]
  /\ journal = [j \in Journals |-> [active |-> TRUE, code |-> j, wanted |-> None]]
  /\ lockDate = None
  /\ closing = None
  /\ pc = [s \in Sessions |-> "idle"]
  /\ call = [s \in Sessions |-> NoCall]
  /\ pending = [s \in Sessions |-> {}]
  /\ calls = [s \in Sessions |-> 0]

Goto(s, to) == pc' = [pc EXCEPT ![s] = to]

(* Mutant of EndOfTransaction: the lock on the original outlives it. *)
EndKeepingEntries(s) ==
  /\ Goto(s, "idle")
  /\ call' = [call EXCEPT ![s] = NoCall]
  /\ pending' = [pending EXCEPT ![s] = {}]
  /\ calls' = [calls EXCEPT ![s] = 0]
  /\ counterLock' = [c \in Counters |-> IF counterLock[c] = s THEN None ELSE counterLock[c]]
  /\ UNCHANGED <<entryLock, closing>>

(* The transaction ends: its row locks are released and nothing is pending. *)
EndOfTransaction(s) ==
  /\ Goto(s, "idle")
  /\ call' = [call EXCEPT ![s] = NoCall]
  /\ pending' = [pending EXCEPT ![s] = {}]
  /\ calls' = [calls EXCEPT ![s] = 0]
  /\ counterLock' = [c \in Counters |-> IF counterLock[c] = s THEN None ELSE counterLock[c]]
  /\ entryLock' = [i \in Ids |-> IF entryLock[i] = s THEN None ELSE entryLock[i]]
  /\ UNCHANGED closing

(* Mutant of Abort: a number drawn is not returned, as from a sequence. *)
AbortBurningNumbers(s) ==
  /\ EndOfTransaction(s)
  /\ UNCHANGED <<books, drawn>>

(* Mutant of Abort: each call has a savepoint of its own, and what the     *)
(* calls before the failed one posted is committed.                        *)
AbortKeepingPosted(s) ==
  LET kept(c) == lastNumber[c] + Cardinality({e \in pending[s] : CounterOf(e) = c}) IN
  /\ EndOfTransaction(s)
  /\ entries' = entries \cup pending[s]
  /\ lastNumber' = [c \in Counters |-> kept(c)]
  /\ drawn' = [c \in Counters |-> IF counterLock[c] = s THEN kept(c) ELSE drawn[c]]
  /\ UNCHANGED <<journal, lockDate>>

(* An error anywhere, in the ledger or in its caller, rolls everything     *)
(* back: a counter row returns to its committed value.                     *)
Abort(s) ==
  /\ EndOfTransaction(s)
  /\ drawn' = [c \in Counters |-> IF counterLock[c] = s THEN lastNumber[c] ELSE drawn[c]]
  /\ UNCHANGED books

MayCall(s) == pc[s] \in {"idle", "ready"} /\ calls[s] < MaxCalls /\ RoomForAnother

Begin(s, to, e) ==
  /\ Goto(s, to)
  /\ call' = [call EXCEPT ![s] = e]
  /\ calls' = [calls EXCEPT ![s] = @ + 1]
  /\ UNCHANGED <<books, locks, pending>>

(* post(): the journal is read without a lock; the number comes next.  An  *)
(* archived journal, or lines that do not validate, raise before any write *)
(* and are a Rollback of the request.                                      *)
BeginPost(s, j, d, src) ==
  /\ MayCall(s)
  /\ journal[j].active
  /\ Begin(s, "number",
       [id |-> None, journal |-> j, code |-> journal[j].code, date |-> d, number |-> 0,
        source |-> src, reverses |-> None])

(* reverse(): starts with SELECT ... FOR UPDATE on the original, which may *)
(* wait.  No caller reverses an entry its own transaction posted.          *)
BeginReverse(s, e, d) ==
  /\ MayCall(s)
  /\ Begin(s, "entry",
       [id |-> None, journal |-> e.journal, code |-> e.code, date |-> d, number |-> 0,
        source |-> None, reverses |-> e.id])

(* The original's row is granted; only now is it known whether the entry   *)
(* was reversed meanwhile and whether its journal still takes entries.     *)
AlreadyReversed(s) ==
  \E e \in entries \cup pending[s] : e.reverses = call[s].reverses

LockEntry(s) ==
  LET i == call[s].reverses
      j == journal[call[s].journal]
  IN
  /\ pc[s] = "entry"
  /\ entryLock[i] \in {None, s}
  /\ \/ /\ ~AlreadyReversed(s)
        /\ j.active
        /\ entryLock' = [entryLock EXCEPT ![i] = s]
        /\ call' = [call EXCEPT ![s].code = j.code]
        /\ Goto(s, "number")
        /\ UNCHANGED <<books, drawn, counterLock, closing, pending, calls>>
     \/ /\ AlreadyReversed(s) \/ ~j.active
        /\ Abort(s)

(* next_number: the upsert waits for the counter row, then holds it. *)
TakeNumber(s) ==
  LET c == CounterOf(call[s]) IN
  /\ pc[s] = "number"
  /\ counterLock[c] \in {None, s}
  /\ counterLock' = [counterLock EXCEPT ![c] = s]
  /\ drawn' = [drawn EXCEPT ![c] = @ + 1]
  /\ call' = [call EXCEPT ![s].number = drawn[c] + 1]
  /\ Goto(s, "insert")
  /\ UNCHANGED <<books, entryLock, closing, pending, calls>>

(* The flush that inserts the draft.  A unique key another open            *)
(* transaction has inserted makes it wait for that transaction; a          *)
(* committed one is an integrity error.                                    *)
InsertDraft(s) ==
  /\ pc[s] = "insert"
  /\ \A t \in Sessions \ {s} : \A f \in Flushed(t) : ~Clash(call[s], f)
  /\ \/ /\ \A f \in entries \cup pending[s] : ~Clash(call[s], f)
        /\ \E i \in Ids : NextId(i) /\ call' = [call EXCEPT ![s].id = i]
        /\ Goto(s, "stamp")
        /\ UNCHANGED <<books, locks, pending, calls>>
     \/ /\ \E f \in entries \cup pending[s] : Clash(call[s], f)
        /\ Abort(s)

(* The flush that posts the draft: the trigger waits for an uncommitted    *)
(* change of the lock date, refuses a date on or before it, and the number *)
(* enters its unique index.                                                *)
Stamp(s) ==
  /\ pc[s] = "stamp"
  /\ closing = None
  /\ \A t \in Sessions \ {s} : \A f \in pending[t] : ~SameNumber(call[s], f)
  /\ \/ /\ Open(call[s].date)
        /\ \A f \in entries \cup pending[s] : ~SameNumber(call[s], f)
        /\ pending' = [pending EXCEPT ![s] = @ \cup {call[s]}]
        /\ call' = [call EXCEPT ![s] = NoCall]
        /\ Goto(s, "ready")
        /\ UNCHANGED <<books, locks, calls>>
     \/ /\ ~Open(call[s].date) \/ \E f \in entries \cup pending[s] : SameNumber(call[s], f)
        /\ Abort(s)

Commit(s) ==
  /\ pc[s] = "ready"
  /\ entries' = entries \cup pending[s]
  /\ lastNumber' = [c \in Counters |-> IF counterLock[c] = s THEN drawn[c] ELSE lastNumber[c]]
  /\ EndOfTransaction(s)
  /\ UNCHANGED <<drawn, journal, lockDate>>

(* A refused validation, a later error of the request, a lost connection. *)
Rollback(s) ==
  /\ pc[s] # "idle"
  /\ Abort(s)

-----------------------------------------------------------------------------
(* Sessions waiting on each other, and the one PostgreSQL cancels. *)

WaitsFor(s) ==
  CASE pc[s] = "entry"  -> {entryLock[call[s].reverses]} \ {s, None}
    [] pc[s] = "number" -> {counterLock[CounterOf(call[s])]} \ {s, None}
    [] pc[s] = "insert" -> {t \in Sessions \ {s} : \E f \in Flushed(t) : Clash(call[s], f)}
    [] OTHER            -> {}

(* A set of sessions in which each waits for another of the set. *)
Stuck(S) == S # {} /\ \A s \in S : WaitsFor(s) \cap S # {}

(* The detector cancels a session of a smallest such set, a cycle. *)
DeadlockVictim(s) ==
  /\ \E S \in SUBSET Sessions :
       s \in S /\ Stuck(S) /\ \A R \in SUBSET S : R # S => ~Stuck(R)
  /\ Abort(s)

-----------------------------------------------------------------------------
(* The other writers of the rows a posting reads.                          *)

(* UPDATE company SET lock_date: no code of the application does it, the   *)
(* operator does.  It waits for every transaction that shares the row.     *)
BeginClose(d) ==
  /\ closing = None
  /\ Sharing = {}
  /\ closing' = d
  /\ UNCHANGED <<books, drawn, counterLock, entryLock, requests>>

EndClose ==
  /\ closing # None
  /\ lockDate' \in {closing, lockDate}
  /\ closing' = None
  /\ UNCHANGED <<entries, lastNumber, journal, drawn, counterLock, entryLock, requests>>

(* archive_journal: one committed UPDATE.  Nothing restores a journal. *)
Archive(j) ==
  /\ journal[j].active
  /\ journal' = [journal EXCEPT ![j].active = FALSE]
  /\ UNCHANGED <<entries, lastNumber, lockDate, locks, requests>>

(* update_journal: the code may change while the journal has no committed  *)
(* entry and no other journal has that code.                               *)
BeginRename(j, code) ==
  /\ journal[j].wanted = None
  /\ \A k \in Journals : journal[k].code # code
  /\ \A e \in entries : e.journal # j
  /\ journal' = [journal EXCEPT ![j].wanted = code]
  /\ UNCHANGED <<entries, lastNumber, lockDate, locks, requests>>

(* Its UPDATE changes a key of the row, so it waits for the transactions   *)
(* whose entries refer to the journal; it checks nothing again but that    *)
(* the code is free.                                                       *)
EndRename(j) ==
  /\ journal[j].wanted # None
  /\ \A e \in InFlight : e.journal # j
  /\ \/ /\ \A k \in Journals : journal[k].code # journal[j].wanted
        /\ journal' = [journal EXCEPT ![j].code = journal[j].wanted, ![j].wanted = None]
     \/ journal' = [journal EXCEPT ![j].wanted = None]
  /\ UNCHANGED <<entries, lastNumber, lockDate, locks, requests>>

-----------------------------------------------------------------------------
Step(s) == LockEntry(s) \/ TakeNumber(s) \/ InsertDraft(s) \/ Stamp(s)

Next ==
  \/ \E s \in Sessions :
       \/ \E j \in Journals, d \in Dates, src \in Sources \cup {None} : BeginPost(s, j, d, src)
       \/ \E e \in entries, d \in Dates : BeginReverse(s, e, d)
       \/ LockEntry(s)
       \/ TakeNumber(s)
       \/ InsertDraft(s)
       \/ Stamp(s)
       \/ Commit(s)
       \/ Rollback(s)
       \/ DeadlockVictim(s)
  \/ \E d \in LockDates : BeginClose(d)
  \/ EndClose
  \/ \E j \in Journals : Archive(j)
  \/ \E j \in Journals, code \in Codes : BeginRename(j, code)
  \/ \E j \in Journals : EndRename(j)

Spec == Init /\ [][Next]_vars

(* A request that is served keeps going and commits at its end; an open    *)
(* lock-date change ends; a waiter is granted its row in its turn, because *)
(* PostgreSQL queues waiters, and a deadlock is detected.  Nobody has to   *)
(* make a request, archive a journal, close a period or fail.              *)
Fairness ==
  /\ \A s \in Sessions : SF_vars(Step(s)) /\ WF_vars(Commit(s)) /\ WF_vars(DeadlockVictim(s))
  /\ WF_vars(EndClose)

FairSpec == Spec /\ Fairness

-----------------------------------------------------------------------------
TypeOK ==
  /\ entries \subseteq Entries
  /\ lastNumber \in [Counters -> Nat]
  /\ drawn \in [Counters -> Nat]
  /\ counterLock \in [Counters -> Sessions \cup {None}]
  /\ entryLock \in [Ids -> Sessions \cup {None}]
  /\ journal \in [Journals -> [active: BOOLEAN, code: Codes, wanted: Codes \cup {None}]]
  /\ lockDate \in LockDates \cup {None}
  /\ closing \in LockDates \cup {None}
  /\ pc \in [Sessions -> {"idle", "ready", "entry", "number", "insert", "stamp"}]
  /\ call \in [Sessions -> Entries \cup {NoCall}]
  /\ pending \in [Sessions -> SUBSET Entries]
  /\ calls \in [Sessions -> 0..MaxCalls]

(* The numbers of the committed entries of a series are exactly 1..n, each *)
(* used once, and the counter row stands at n: rollbacks, refusals and     *)
(* concurrent postings leave no gap and no duplicate                       *)
(* (platform/sequence/api.py:1-6, posting.py:288-289).                     *)
Gapless ==
  \A c \in Counters :
    LET series == {e \in entries : CounterOf(e) = c} IN
    /\ {e.number : e \in series} = 1..lastNumber[c]
    /\ \A e, f \in series : e.number = f.number => e = f

(* However requests race, an entry has at most one committed reversal, of  *)
(* an entry committed before, and a document at most one entry             *)
(* (posting.py:219-235; 0001_core_ledger.py:160-163).                      *)
OnceOnly ==
  \A e, f \in entries :
    /\ e.source # None /\ e.source = f.source => e = f
    /\ e.reverses # None /\ e.reverses = f.reverses => e = f
    /\ e.reverses # None => \E o \in entries : o.id = e.reverses

(* A closed period stays as it is: no step adds an entry dated on or       *)
(* before the lock date in force, or changes or removes a committed entry  *)
(* (0001_core_ledger.py:243-256).                                          *)
ClosedPeriodFrozen ==
  [][/\ entries \subseteq entries'
     /\ \A e \in entries' \ entries : lockDate # None => e.date > lockDate]_vars

(* Requests that make one ledger call each never wait in a cycle: the      *)
(* original, then the counter, then the unique keys is one order for all   *)
(* (docs/architecture.md:455; posting.py:288).                             *)
SingleCallsNeverDeadlock ==
  MaxCalls = 1 => \A S \in SUBSET Sessions : ~Stuck(S)

(* Every request that begins ends, committed or rolled back, although      *)
(* requests wait for one another's rows and may do so in a cycle           *)
(* (docs/architecture.md:452-456).                                         *)
EveryRequestEnds == \A s \in Sessions : pc[s] # "idle" ~> pc[s] = "idle"

(* A request of several calls leaves an entry for each or for none, and    *)
(* what it leaves keeps the book well numbered, well linked and closed:    *)
(* whatever its calls interleave with and wherever it fails, every step is *)
(* a step of Book or none at all (app/db.py:70-86;                         *)
(* docs/architecture.md:452-459).                                          *)
ABook == INSTANCE Book WITH book <- entries, asked <- calls, Requests <- Sessions

RefinesBook == ABook!Spec

(* An entry's number begins with the code of its journal: "already has     *)
(* posted entries, so its code cannot change" (coa/journals.py:139).       *)
NumberNamesItsJournal == \A e \in entries : e.code = journal[e.journal].code

-----------------------------------------------------------------------------
(* Why the properties hold: the parts of the inductive invariant.          *)

Phase(s) == pc[s] \in {"entry", "number", "insert", "stamp"}

(* A call under way is a whole entry record; between calls there is none. *)
CallOK ==
  \A s \in Sessions :
    IF Phase(s) THEN call[s] \in Entries ELSE call[s] = NoCall

Typed == TypeOK /\ CallOK

(* An entry has its id from the moment its draft is inserted, and a        *)
(* session that waits for an original knows which.                         *)
IdsGiven ==
  /\ \A e \in entries : e.id # None
  /\ \A s \in Sessions :
       /\ pc[s] \in {"entry", "number", "insert"} => call[s].id = None
       /\ pc[s] = "stamp" => call[s].id # None
       /\ pc[s] = "entry" => call[s].reverses # None
       /\ \A e \in pending[s] : e.id # None

(* The entries of a session that have drawn their number. *)
Drawn(s) == pending[s] \cup (IF pc[s] \in {"insert", "stamp"} THEN {call[s]} ELSE {})

(* A session keeps the counters it drew from until its transaction ends,   *)
(* and between transactions it holds nothing.                              *)
LocksKept ==
  /\ \A s \in Sessions : \A e \in Drawn(s) : counterLock[CounterOf(e)] = s
  /\ \A s \in Sessions : pc[s] = "idle" =>
       /\ pending[s] = {}
       /\ \A c \in Counters : counterLock[c] # s
       /\ \A i \in Ids : entryLock[i] # s

(* Committed numbers fill 1..lastNumber, the holder's fill the rest. *)
Numbering ==
  /\ \A c \in Counters :
       /\ lastNumber[c] <= drawn[c]
       /\ counterLock[c] = None => drawn[c] = lastNumber[c]
       /\ \A n \in 1..lastNumber[c] : \E e \in entries : CounterOf(e) = c /\ e.number = n
       /\ \A n \in (lastNumber[c] + 1)..drawn[c] :
            \E e \in Drawn(counterLock[c]) : CounterOf(e) = c /\ e.number = n
  /\ \A e \in entries : e.number \in 1..lastNumber[CounterOf(e)]
  /\ \A s \in Sessions : \A e \in Drawn(s) :
       e.number \in (lastNumber[CounterOf(e)] + 1)..drawn[CounterOf(e)]
  /\ \A e, f \in entries : CounterOf(e) = CounterOf(f) /\ e.number = f.number => e = f
  /\ \A s \in Sessions : \A e, f \in Drawn(s) :
       CounterOf(e) = CounterOf(f) /\ e.number = f.number => e = f

(* No two rows, committed or not, have the same unique key, and what a     *)
(* reversal reverses is committed.                                         *)
KeysUnique ==
  /\ \A e, f \in entries \cup InFlight : Clash(e, f) => e = f
  /\ \A e \in entries \cup InFlight \cup {call[s] : s \in Sessions} :
       e.reverses # None => \E o \in entries : o.id = e.reverses

(* What is posted and not committed is dated in an open period, and the    *)
(* lock date cannot move under it.                                         *)
PeriodHeld ==
  /\ \A s \in Sessions : \A e \in pending[s] : Open(e.date)
  /\ closing # None => Sharing = {}

(* A session in its first call holds only what that call has reached. *)
FirstCall ==
  \A s \in Sessions :
    /\ pc[s] # "idle" => calls[s] >= 1
    /\ calls[s] = 1 =>
         /\ pending[s] # {} => pc[s] = "ready"
         /\ \A c \in Counters : counterLock[c] = s => pc[s] \in {"insert", "stamp", "ready"}
         /\ \A i \in Ids : entryLock[i] = s => pc[s] \in {"number", "insert", "stamp", "ready"}

(* What a request posted, with the call under way, are the calls it made.  *)
Counted ==
  \A s \in Sessions :
    /\ IsFiniteSet(pending[s])
    /\ calls[s] = Cardinality(pending[s]) + (IF Phase(s) THEN 1 ELSE 0)

Inv == Typed /\ IdsGiven /\ LocksKept /\ Numbering /\ KeysUnique /\ PeriodHeld /\ FirstCall
=============================================================================
