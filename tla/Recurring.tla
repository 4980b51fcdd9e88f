----------------------------- MODULE Recurring -----------------------------
(***************************************************************************)
(* Recurring invoices (app/billing/recurring.py): templates with the date  *)
(* of their next invoice, and the run that bills those that are due.       *)
(*                                                                         *)
(* Dates are the calendar's.  What is drafted is kept as the times a       *)
(* template was billed for each date.  A session is one request in one     *)
(* transaction at READ COMMITTED.                                          *)
(***************************************************************************)
EXTENDS Calendar, Sequences, SequencesExt, RowLocks

CONSTANTS
  Sessions,   \* requests being served
  Templates,  \* ids of templates
  Dates,      \* bound: dates that requests name
  Intervals,  \* months between invoices
  Edited,     \* bound: templates that requests change
  None

(* The columns of a template.                                              *)
Template == [next: CalendarDates, every: Intervals, active: BOOLEAN,
             last: CalendarDates \cup {None}]

ASSUME RecurringAssumption ==
  /\ Dates \subseteq CalendarDates
  /\ Intervals \subseteq 1..12 /\ Intervals # {}
  /\ Edited \subseteq Templates /\ IsFiniteSet(Templates)
  /\ None \notin CalendarDates \cup Template

VARIABLES
  template,  \* template rows, None before one is created
  billed,    \* how often a template was billed for a date
  tx         \* the request each session serves

vars == <<template, billed, tx>>

(* A request: where it is, its locks; a run's date and the templates it    *)
(* found due; a change's template and fields; what it will write.          *)
Idle == [pc |-> "idle", queue |-> <<>>, held |-> {}, on |-> None, order |-> <<>>,
         template |-> None, fields |-> <<>>, rows |-> [t \in Templates |-> None], drafts |-> {}]

Start(s, t) == tx' = [tx EXCEPT ![s] = t]

At(s, here) == tx[s].pc = here /\ tx[s].queue = <<>>

Writing(t) == [r \in Templates |-> IF t.rows[r] # None THEN t.rows[r] ELSE template[r]]

Copies(draft) == IF draft \in DOMAIN billed THEN billed[draft] ELSE 0

Abort(s) == Start(s, Idle) /\ UNCHANGED <<template, billed>>

-----------------------------------------------------------------------------
Init ==
  /\ template = [t \in Templates |-> None]
  /\ billed = <<>>
  /\ tx = [s \in Sessions |-> Idle]

Acquire(s) ==
  /\ CanTakeLock(tx, s)
  /\ Start(s, WithLock(tx[s]))
  /\ UNCHANGED <<template, billed>>

(* create_template. *)
Create(t, next, every) ==
  /\ template[t] = None
  /\ template' = [template EXCEPT ![t] = [next |-> next, every |-> every, active |-> TRUE,
                                          last |-> None]]
  /\ UNCHANGED <<billed, tx>>

(* update_template and set_active: the template is read without a lock,    *)
(* and the fields that differ from what was read are written.              *)
BeginChange(s, t, fields) ==
  /\ tx[s].pc = "idle"
  /\ template[t] # None
  /\ \A f \in DOMAIN fields : fields[f] # template[t][f]
  /\ Start(s, [Idle EXCEPT !.pc = "change", !.template = t, !.fields = fields,
                           !.queue = <<<<t, "no_key_update">>>>])
  /\ UNCHANGED <<template, billed>>

With(row, fields) ==
  [f \in DOMAIN row |-> IF f \in DOMAIN fields THEN fields[f] ELSE row[f]]

Change(s) ==
  LET t == tx[s] IN
  /\ At(s, "change")
  /\ Start(s, [t EXCEPT !.pc = "commit",
                        !.rows[t.template] = With(template[t.template], t.fields)])
  /\ UNCHANGED <<template, billed>>

-----------------------------------------------------------------------------
(* generate_due. *)

(* Mutant of DueAgain: the rows are not looked at again after the wait. *)
DueAsRead(t, on) == TRUE

(* What the query asks of a row, and asks again of one it waited for. *)
Due(t, on) == template[t] # None /\ template[t].active /\ NotAfter(template[t].next, on)
DueAgain(t, on) == Due(t, on)

(* Mutant of LockDue: the templates are only read. *)
LockNone(order) == <<>>

LockDue(order) == [i \in DOMAIN order |-> <<order[i], "update">>]

(* The templates due, in the order of their dates, locked in that order. *)
BeginGenerate(s, on) ==
  /\ tx[s].pc = "idle"
  /\ \E order \in SetToSeqs({t \in Templates : Due(t, on)}) :
       /\ \A i, j \in DOMAIN order : i < j => NotAfter(template[order[i]].next, template[order[j]].next)
       /\ Start(s, [Idle EXCEPT !.pc = "generate", !.on = on, !.order = order,
                                !.queue = LockDue(order)])
  /\ UNCHANGED <<template, billed>>

AlreadyBilled(row) == row.last # None /\ NotAfter(row.next, row.last)

MovedOn(row) == [row EXCEPT !.last = row.next, !.next = NextDate(row.next, row.every)]

(* A draft for each, and the template moved on by its interval. *)
Generate(s) ==
  LET t     == tx[s]
      found == {r \in ToSet(t.order) : DueAgain(r, t.on)}
      bill  == {r \in found : ~AlreadyBilled(template[r])}
  IN
  /\ At(s, "generate")
  /\ Start(s, [t EXCEPT !.pc = "commit",
                        !.rows = [r \in Templates |->
                                    IF r \in bill THEN MovedOn(template[r]) ELSE None],
                        !.drafts = {<<r, template[r].next>> : r \in bill}])
  /\ UNCHANGED <<template, billed>>

-----------------------------------------------------------------------------
Commit(s) ==
  LET t == tx[s] IN
  /\ At(s, "commit")
  /\ template' = Writing(t)
  /\ billed' = [draft \in DOMAIN billed \cup t.drafts |->
                 Copies(draft) + (IF draft \in t.drafts THEN 1 ELSE 0)]
  /\ Start(s, Idle)

(* An error elsewhere in the request, or a lost connection. *)
Rollback(s) == tx[s].pc # "idle" /\ Abort(s)

DeadlockVictim(s) == InCycle(tx, s) /\ Abort(s)

Changes ==
  {[next |-> d] : d \in Dates} \cup {[every |-> i] : i \in Intervals}
    \cup {[active |-> a] : a \in BOOLEAN}

Next ==
  \/ \E t \in Templates, d \in Dates, i \in Intervals : Create(t, d, i)
  \/ \E s \in Sessions :
       \/ \E t \in Edited, f \in Changes : BeginChange(s, t, f)
       \/ \E d \in Dates : BeginGenerate(s, d)
       \/ Acquire(s)
       \/ Change(s)
       \/ Generate(s)
       \/ Commit(s)
       \/ Rollback(s)
       \/ DeadlockVictim(s)

Spec == Init /\ [][Next]_vars

-----------------------------------------------------------------------------
(* A template is billed at most once for a date, whatever runs overlap and *)
(* however its next date is moved about between them (R8.AC5).             *)
BilledOnce == \A draft \in DOMAIN billed : billed[draft] = 1

MonthNumber(d) == (12 * d.year) + d.month

MonthsBilled(t) == {MonthNumber(draft[2]) : draft \in {b \in DOMAIN billed : b[1] = t}}

InStep(t) ==
  LET next == MonthNumber(template[t].next)
      every == template[t].every
  IN /\ \A m \in MonthsBilled(t) : m < next /\ m + every \in MonthsBilled(t) \cup {next}
     /\ MonthsBilled(t) = {} <=> template[t].last = None

(* A template that nobody edits is billed once in every interval, in the   *)
(* month its interval leads to however short the months between, and its   *)
(* next date is the one after its last bill (R8.AC3).                      *)
BilledMonthByMonth == \A t \in Templates \ Edited : template[t] # None => InStep(t)

(* A paused template is not billed, not even by a run that began before it *)
(* was paused (R8.AC6).                                                    *)
PausedNotBilled ==
  [][\A draft \in DOMAIN billed' :
       billed'[draft] # Copies(draft) => template[draft[1]].active]_vars

-----------------------------------------------------------------------------
(* Why they hold (RecurringProofs).                                        *)

Locks == Templates \X {"no_key_update", "update"}

Request ==
  [pc: {"idle", "change", "generate", "commit"}, queue: Seq(Locks), held: SUBSET Locks,
   on: Dates \cup {None}, order: Seq(Templates), template: Templates \cup {None},
   fields: Changes \cup {<<>>}, rows: [Templates -> Template \cup {None}],
   drafts: SUBSET (Templates \X CalendarDates)]

Typed ==
  /\ template \in [Templates -> Template \cup {None}]
  /\ DOMAIN billed \subseteq Templates \X CalendarDates
  /\ billed \in [DOMAIN billed -> Nat]
  /\ tx \in [Sessions -> Request]

(* Both modes keep a row from every other request that writes it.          *)
HeldAlone ==
  \A s, r \in Sessions : s # r => \A l \in tx[s].held, k \in tx[r].held : l[1] # k[1]

Holds(s, t) == \E m \in {"no_key_update", "update"} : <<t, m>> \in tx[s].held

Asks(s, t) == \E i \in DOMAIN tx[s].queue : tx[s].queue[i][1] = t

Changing(s) ==
  tx[s].pc = "change" =>
    /\ tx[s].template \in Edited /\ template[tx[s].template] # None
    /\ tx[s].fields \in Changes
    /\ tx[s].drafts = {} /\ \A t \in Templates : tx[s].rows[t] = None
    /\ Holds(s, tx[s].template) \/ Asks(s, tx[s].template)

Generating(s) ==
  tx[s].pc = "generate" => \A t \in ToSet(tx[s].order) : Holds(s, t) \/ Asks(s, t)

(* What a request will write of a row is what it makes of that row as it   *)
(* still is.                                                               *)
Drafted(s, t) ==
  /\ template[t].active /\ ~AlreadyBilled(template[t])
  /\ tx[s].rows[t] = MovedOn(template[t])

Written(s) ==
  tx[s].pc = "commit" =>
    /\ \A draft \in tx[s].drafts : tx[s].rows[draft[1]] # None
                                  /\ draft[2] = template[draft[1]].next
    /\ \A t \in {u \in Templates : tx[s].rows[u] # None} :
         /\ Holds(s, t) /\ template[t] # None
         /\ \/ <<t, template[t].next>> \in tx[s].drafts /\ Drafted(s, t)
            \/ /\ <<t, template[t].next>> \notin tx[s].drafts
               /\ t \in Edited /\ tx[s].rows[t].last = template[t].last

(* Nothing was billed for a later date than the last.                      *)
BilledByLast ==
  \A draft \in DOMAIN billed :
    LET row == template[draft[1]]
    IN row # None /\ row.last # None /\ NotAfter(draft[2], row.last)

Inv ==
  /\ Typed
  /\ HeldAlone
  /\ \A s \in Sessions : Changing(s) /\ Generating(s) /\ Written(s)
  /\ BilledByLast
  /\ BilledOnce

-----------------------------------------------------------------------------
(* "WHEN the generator runs on or after a template's next date, the system *)
(* SHALL create a draft invoice from it" (invoicing requirements, R8.AC2): *)
(* a run leaves no template it found due unbilled for its date.            *)
DueIsBilled ==
  \A s \in Sessions : At(s, "commit") /\ tx[s].on # None =>
    \A t \in ToSet(tx[s].order) :
      Due(t, tx[s].on) => \/ <<t, template[t].next>> \in tx[s].drafts
                         \/ <<t, template[t].next>> \in DOMAIN billed

(* A template of the last of January bills the last of each month:         *)
(* add_months says it is "keeping to the end of a short month"             *)
(* (recurring.py:74), and the template keeps no day of its own.            *)
StaysOnItsDay ==
  \A b, c \in DOMAIN billed :
    b[1] = c[1] /\ c[2].day < b[2].day => c[2].day = DaysIn(c[2].year, c[2].month)
=============================================================================
