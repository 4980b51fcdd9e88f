-------------------------- MODULE RecurringProofs --------------------------
(***************************************************************************)
(* What Recurring guarantees for every set of sessions, templates, dates   *)
(* and intervals, and what the statements guarantee (Statements, Reports)  *)
(* for every chart, set of drafts and payments, and exchange rates: both   *)
(* rest on the calendar.                                                   *)
(***************************************************************************)
EXTENDS Recurring, Statements, SumProofs

LEMMA NotAfterReflexive == ASSUME NEW c \in CalendarDates PROVE NotAfter(c, c)
  BY DEF CalendarDates, NotAfter

LEMMA NotAfterTotal ==
  ASSUME NEW c \in CalendarDates, NEW d \in CalendarDates
  PROVE  NotAfter(c, d) \/ NotAfter(d, c)
  BY DEF CalendarDates, NotAfter

LEMMA NotAfterTransitive ==
  ASSUME NEW b \in CalendarDates, NEW c \in CalendarDates, NEW d \in CalendarDates,
         NotAfter(b, c), NotAfter(c, d)
  PROVE  NotAfter(b, d)
  BY DEF CalendarDates, NotAfter

LEMMA MonthLengthBounds ==
  ASSUME NEW year \in Int, NEW month \in 1..12
  PROVE  MonthLength(year, month) \in 28..31
  BY DEF MonthLength

LEMMA NextDateType ==
  ASSUME NEW d \in CalendarDates, NEW n \in 1..12
  PROVE  NextDate(d, n) \in CalendarDates
  <1> DEFINE index == d.month - 1 + n
             year == d.year + (index \div 12)
             month == (index % 12) + 1
             last == MonthLength(year, month)
             day == IF d.day < last THEN d.day ELSE last
  <1>1. d.year \in Int /\ d.month \in 1..12 /\ d.day \in 1..31
    BY DEF CalendarDates
  <1>2. year \in Int /\ month \in 1..12
    <2>1. index \in Int
      BY <1>1
    <2> HIDE DEF index
    <2>2. index \div 12 \in Int /\ index % 12 \in 0..11
      BY <2>1
    <2>3. QED
      BY <1>1, <2>2
  <1>3. last \in 28..31
    BY <1>2, MonthLengthBounds
  <1>4. day \in 1..last /\ day \in 1..31
    BY <1>1, <1>3
  <1>5. NextDate(d, n) = [year |-> year, month |-> month, day |-> day]
    BY DEF NextDate, Date
  <1> HIDE DEF year, month, day
  <1>6. QED
    BY <1>2, <1>4, <1>5 DEF CalendarDates, IsDate

-----------------------------------------------------------------------------
(* Rows.                                                                   *)

LEMMA WithType ==
  ASSUME NEW row \in Template, NEW fields \in Changes
  PROVE  With(row, fields) \in Template /\ With(row, fields).last = row.last
  <1>1. CASE \E d \in Dates : fields = [next |-> d]
    <2>1. PICK d \in Dates : fields = [next |-> d]
      BY <1>1
    <2>2. With(row, fields) = [row EXCEPT !.next = d]
      BY <2>1 DEF With, Template
    <2>3. d \in CalendarDates
      BY RecurringAssumption
    <2>4. QED
      BY <2>2, <2>3 DEF Template
  <1>2. CASE \E i \in Intervals : fields = [every |-> i]
    <2>1. PICK i \in Intervals : fields = [every |-> i]
      BY <1>2
    <2>2. With(row, fields) = [row EXCEPT !.every = i]
      BY <2>1 DEF With, Template
    <2>3. QED
      BY <2>2 DEF Template
  <1>3. CASE \E a \in BOOLEAN : fields = [active |-> a]
    <2>1. PICK a \in BOOLEAN : fields = [active |-> a]
      BY <1>3
    <2>2. With(row, fields) = [row EXCEPT !.active = a]
      BY <2>1 DEF With, Template
    <2>3. QED
      BY <2>2 DEF Template
  <1>4. QED
    BY <1>1, <1>2, <1>3 DEF Changes

LEMMA MovedOnType ==
  ASSUME NEW row \in Template
  PROVE  /\ MovedOn(row) \in Template
         /\ MovedOn(row).last = row.next
         /\ MovedOn(row).active = row.active
  <1>1. row.next \in CalendarDates /\ row.every \in 1..12
    BY RecurringAssumption DEF Template
  <1>2. NextDate(row.next, row.every) \in CalendarDates
    BY <1>1, NextDateType
  <1>3. QED
    BY <1>2 DEF MovedOn, Template

LEMMA IdleType == Idle \in Request
  BY DEF Idle, Request, Locks

LEMMA LockParts ==
  ASSUME NEW l \in Locks
  PROVE  l = <<l[1], l[2]>> /\ l[2] \in {"no_key_update", "update"}
  BY DEF Locks

LEMMA LocksConflict ==
  ASSUME NEW l \in Locks, NEW k \in Locks
  PROVE  Conflicting(l[2], k[2])
  <1>1. ASSUME NEW m \in {"no_key_update", "update"} PROVE Strength(m) \in 3..4
    <2>1. Strength("no_key_update") = 3
      BY DEF Strength
    <2>2. Strength("update") = 4
      BY DEF Strength
    <2>3. QED
      BY <1>1, <2>1, <2>2
  <1>2. Strength(l[2]) \in 3..4 /\ Strength(k[2]) \in 3..4
    BY <1>1 DEF Locks
  <1>3. QED
    BY <1>2 DEF Conflicting

LEMMA WithLockType ==
  ASSUME NEW t \in Request, t.queue # <<>>
  PROVE  /\ WithLock(t) \in Request
         /\ Head(t.queue) \in Locks
         /\ \A i \in DOMAIN t.queue :
              t.queue[i] = Head(t.queue) \/ \E j \in DOMAIN Tail(t.queue) : Tail(t.queue)[j] = t.queue[i]
  <1>1. t.queue \in Seq(Locks) /\ t.held \in SUBSET Locks
    BY DEF Request
  <1> DEFINE queue == t.queue
  <1>2. queue \in Seq(Locks) /\ queue # <<>>
    BY <1>1
  <1> HIDE DEF queue
  <1>3. Head(queue) \in Locks /\ Tail(queue) \in Seq(Locks)
    BY <1>2
  <1>4. ASSUME NEW i \in DOMAIN queue
        PROVE  queue[i] = Head(queue) \/ \E j \in DOMAIN Tail(queue) : Tail(queue)[j] = queue[i]
    <2>1. CASE i = 1
      BY <2>1, <1>2
    <2>2. CASE i # 1
      <3>1. i - 1 \in DOMAIN Tail(queue) /\ Tail(queue)[i - 1] = queue[i]
        BY <2>2, <1>2
      <3>2. QED
        BY <3>1
    <2>3. QED
      BY <2>1, <2>2
  <1>5. WithLock(t) \in Request
    BY <1>1, <1>3 DEF WithLock, Request, queue
  <1>6. QED
    BY <1>3, <1>4, <1>5 DEF queue

-----------------------------------------------------------------------------
(* Steps that write no table.                                              *)

(* A step that changes one request, and gives it no lock of another's,     *)
(* leaves what is known of the others.                                     *)
LEMMA StepOfOne ==
  ASSUME Inv, NEW s \in Sessions, NEW t \in Request,
         Start(s, t), UNCHANGED <<template, billed>>,
         \A r \in Sessions \ {s} : \A l \in t.held, k \in tx[r].held : l[1] # k[1],
         Changing(s)', Generating(s)', Written(s)'
  PROVE  Inv'
  <1>1. tx' = [tx EXCEPT ![s] = t] /\ tx \in [Sessions -> Request]
    BY DEF Inv, Typed, Start
  <1>2. Typed'
    BY <1>1 DEF Inv, Typed
  <1>3. HeldAlone'
    BY <1>1 DEF Inv, HeldAlone
  <1>4. ASSUME NEW r \in Sessions PROVE (Changing(r) /\ Generating(r) /\ Written(r))'
    <2>1. CASE r = s
      BY <2>1
    <2>2. CASE r # s
      <3>1. tx'[r] = tx[r] /\ template' = template
        BY <1>1, <2>2
      <3>2. Changing(r) /\ Generating(r) /\ Written(r)
        BY DEF Inv
      <3>3. /\ \A u : Holds(r, u) <=> Holds(r, u)'
            /\ \A u : Asks(r, u) <=> Asks(r, u)'
        BY <3>1 DEF Holds, Asks
      <3>4. Changing(r)'
        BY <3>1, <3>2, <3>3 DEF Changing
      <3>5. Generating(r)'
        BY <3>1, <3>2, <3>3 DEF Generating
      <3>6. Written(r)'
        BY <3>1, <3>2, <3>3 DEF Written, Drafted
      <3>7. QED
        BY <3>4, <3>5, <3>6
    <2>3. QED
      BY <2>1, <2>2
  <1>5. (BilledByLast /\ BilledOnce)'
    BY DEF Inv, BilledByLast, BilledOnce
  <1>6. QED
    BY <1>2, <1>3, <1>4, <1>5 DEF Inv

LEMMA AbortStep ==
  ASSUME Inv, NEW s \in Sessions, Abort(s)
  PROVE  Inv'
  <1>1. Start(s, Idle) /\ UNCHANGED <<template, billed>> /\ tx'[s] = Idle
    BY DEF Abort, Start, Inv, Typed
  <1>2. Changing(s)' /\ Generating(s)' /\ Written(s)'
    BY <1>1 DEF Changing, Generating, Written, Idle
  <1>3. Idle.held = {}
    BY DEF Idle
  <1>4. QED
    BY <1>1, <1>2, <1>3, IdleType, StepOfOne

LEMMA AcquireStep ==
  ASSUME Inv, NEW s \in Sessions, Acquire(s)
  PROVE  Inv'
  <1> DEFINE t == WithLock(tx[s])
             head == Head(tx[s].queue)
  <1>1. /\ tx \in [Sessions -> Request]
        /\ tx[s] \in Request /\ tx[s].queue # <<>>
        /\ Start(s, t) /\ UNCHANGED <<template, billed>> /\ tx'[s] = t
    BY DEF Acquire, CanTakeLock, Start, Inv, Typed
  <1>2. /\ t \in Request /\ head \in Locks
        /\ \A i \in DOMAIN tx[s].queue :
              tx[s].queue[i] = head \/ \E j \in DOMAIN Tail(tx[s].queue) : Tail(tx[s].queue)[j] = tx[s].queue[i]
    BY <1>1, WithLockType
  <1>3. /\ t.held = tx[s].held \cup {head} /\ t.queue = Tail(tx[s].queue)
        /\ t.pc = tx[s].pc /\ t.template = tx[s].template /\ t.fields = tx[s].fields
        /\ t.order = tx[s].order /\ t.rows = tx[s].rows /\ t.drafts = tx[s].drafts
    BY <1>1 DEF WithLock, Request
  <1>4. ASSUME NEW r \in Sessions \ {s}, NEW l \in t.held, NEW k \in tx[r].held
        PROVE  l[1] # k[1]
    <2>1. CASE l \in tx[s].held
      BY <2>1 DEF Inv, HeldAlone
    <2>2. CASE l = head
      <3>1. ~Clash(k, head)
        BY <1>1 DEF Acquire, CanTakeLock, WaitsFor
      <3>2. k \in Locks
        BY <1>1 DEF Request
      <3>3. Conflicting(k[2], head[2])
        BY <1>2, <3>2, LocksConflict
      <3>4. QED
        BY <2>2, <3>1, <3>3 DEF Clash
    <2>3. QED
      BY <1>3, <2>1, <2>2
  <1> HIDE DEF t, head
  <1>5. ASSUME NEW u, Holds(s, u) \/ Asks(s, u)
        PROVE  Holds(s, u)' \/ Asks(s, u)'
    <2>1. CASE Holds(s, u)
      BY <2>1, <1>1, <1>3 DEF Holds
    <2>2. CASE Asks(s, u)
      <3>1. PICK i \in DOMAIN tx[s].queue : tx[s].queue[i][1] = u
        BY <2>2 DEF Asks
      <3>2. CASE tx[s].queue[i] = head
        <4>1. head = <<u, head[2]>> /\ head[2] \in {"no_key_update", "update"}
          BY <1>2, <3>1, <3>2, LockParts
        <4>2. QED
          BY <1>1, <1>3, <4>1 DEF Holds
      <3>3. CASE \E j \in DOMAIN Tail(tx[s].queue) : Tail(tx[s].queue)[j] = tx[s].queue[i]
        BY <1>1, <1>3, <3>1, <3>3 DEF Asks
      <3>4. QED
        BY <1>2, <3>2, <3>3
    <2>3. QED
      BY <1>5, <2>1, <2>2
  <1>6. Changing(s) /\ Generating(s) /\ Written(s)
    BY DEF Inv
  <1>7. Changing(s)'
    BY <1>1, <1>3, <1>5, <1>6 DEF Changing
  <1>8. Generating(s)'
    BY <1>1, <1>3, <1>5, <1>6 DEF Generating
  <1>9. Written(s)'
    <2>1. ASSUME NEW u, Holds(s, u) PROVE Holds(s, u)'
      BY <2>1, <1>1, <1>3 DEF Holds
    <2>2. QED
      BY <1>1, <1>3, <1>6, <2>1 DEF Written, Drafted
  <1>10. QED
    BY <1>1, <1>2, <1>4, <1>7, <1>8, <1>9, StepOfOne

LEMMA BeginChangeStep ==
  ASSUME Inv, NEW s \in Sessions, NEW u \in Edited, NEW f \in Changes, BeginChange(s, u, f)
  PROVE  Inv'
  <1> DEFINE t == [Idle EXCEPT !.pc = "change", !.template = u, !.fields = f,
                               !.queue = <<<<u, "no_key_update">>>>]
  <1>1. Start(s, t) /\ UNCHANGED <<template, billed>> /\ tx'[s] = t /\ template[u] # None
    BY DEF BeginChange, Start, Inv, Typed
  <1>2. u \in Templates
    BY RecurringAssumption
  <1>3. t.queue \in Seq(Locks)
    BY <1>2 DEF Locks, Idle
  <1>4. /\ t \in Request
        /\ t.held = {} /\ t.pc = "change" /\ t.template = u /\ t.fields = f
        /\ t.queue = <<<<u, "no_key_update">>>>
    BY <1>2, <1>3, IdleType DEF Request, Idle
  <1>5. t.drafts = {} /\ \A v \in Templates : t.rows[v] = None
    BY DEF Idle
  <1> HIDE DEF t
  <1>6. Asks(s, u)'
    BY <1>1, <1>4 DEF Asks
  <1>7. Changing(s)' /\ Generating(s)' /\ Written(s)'
    BY <1>1, <1>4, <1>5, <1>6 DEF Changing, Generating, Written
  <1>8. QED
    BY <1>1, <1>4, <1>7, StepOfOne

LEMMA SequenceOf ==
  ASSUME NEW S, NEW n \in Nat, NEW f \in [1..n -> S]
  PROVE  f \in Seq(S) /\ DOMAIN f = 1..n
  OBVIOUS

LEMMA BeginGenerateStep ==
  ASSUME Inv, NEW s \in Sessions, NEW on \in Dates, BeginGenerate(s, on)
  PROVE  Inv'
  <1> DEFINE found == {t \in Templates : Due(t, on)}
             t(order) == [Idle EXCEPT !.pc = "generate", !.on = on, !.order = order,
                                      !.queue = LockDue(order)]
  <1>1. PICK order \in SetToSeqs(found) :
          Start(s, t(order)) /\ UNCHANGED <<template, billed>>
    BY DEF BeginGenerate
  <1>2. Cardinality(found) \in Nat
    BY RecurringAssumption, FS_Subset, FS_CardinalityType
  <1>3. order \in [1..Cardinality(found) -> found]
    BY DEF SetToSeqs
  <1>4. order \in Seq(Templates) /\ DOMAIN order = 1..Cardinality(found)
    <2>1. order \in [1..Cardinality(found) -> Templates]
      BY <1>3
    <2>2. QED
      BY <1>2, <2>1, SequenceOf
  <1>5. LockDue(order) \in Seq(Locks) /\ DOMAIN LockDue(order) = DOMAIN order
    <2>1. LockDue(order) \in [1..Cardinality(found) -> Locks]
      BY <1>3, <1>4 DEF LockDue, Locks
    <2>2. QED
      BY <1>2, <1>4, <2>1, SequenceOf
  <1>6. /\ t(order) \in Request
        /\ t(order).held = {} /\ t(order).pc = "generate" /\ t(order).order = order
        /\ t(order).queue = LockDue(order)
    BY <1>4, <1>5, IdleType DEF Request, Idle
  <1>7. tx'[s] = t(order)
    BY <1>1 DEF Start, Inv, Typed
  <1> HIDE DEF t
  <1>8. ASSUME NEW u \in ToSet(order) PROVE Asks(s, u)'
    <2>1. PICK i \in DOMAIN order : u = order[i]
      BY DEF ToSet
    <2>2. LockDue(order)[i] = <<u, "update">>
      BY <2>1 DEF LockDue
    <2>3. QED
      BY <1>5, <1>6, <1>7, <2>1, <2>2 DEF Asks
  <1>9. Changing(s)' /\ Generating(s)' /\ Written(s)'
    BY <1>6, <1>7, <1>8 DEF Changing, Generating, Written
  <1>10. QED
    BY <1>1, <1>6, <1>9, StepOfOne

LEMMA ChangeStep ==
  ASSUME Inv, NEW s \in Sessions, Change(s)
  PROVE  Inv'
  <1> PICK u : u = tx[s].template
    OBVIOUS
  <1> DEFINE row == With(template[u], tx[s].fields)
             t == [tx[s] EXCEPT !.pc = "commit", !.rows[u] = row]
  <1>1. /\ tx[s] \in Request /\ tx[s].pc = "change" /\ tx[s].queue = <<>>
        /\ Start(s, t) /\ UNCHANGED <<template, billed>> /\ tx'[s] = t
    BY DEF Change, At, Start, Inv, Typed
  <1>2. u \in Edited /\ u \in Templates /\ template[u] # None /\ tx[s].fields \in Changes
    BY <1>1, RecurringAssumption DEF Inv, Changing
  <1>3. Holds(s, u)
    BY <1>1 DEF Inv, Changing, Asks
  <1>4. template[u] \in Template
    BY <1>2 DEF Inv, Typed
  <1>5. row \in Template /\ row.last = template[u].last /\ row # None
    BY <1>2, <1>4, WithType, RecurringAssumption
  <1>6. /\ tx[s].drafts = {} /\ \A v \in Templates : tx[s].rows[v] = None
        /\ tx[s].rows \in [Templates -> Template \cup {None}]
    BY <1>1 DEF Inv, Changing, Request
  <1>7. /\ t \in Request /\ t.pc = "commit" /\ t.held = tx[s].held /\ t.drafts = {}
        /\ t.rows = [tx[s].rows EXCEPT ![u] = row]
    BY <1>1, <1>2, <1>5, <1>6 DEF Request
  <1> HIDE DEF t, row
  <1>8. Changing(s)' /\ Generating(s)'
    BY <1>1, <1>7 DEF Changing, Generating
  <1>9. Written(s)'
    <2>1. tx'[s].drafts = {} /\ template' = template /\ Holds(s, u)'
      BY <1>1, <1>3, <1>7 DEF Holds
    <2>2. \A v \in Templates : tx'[s].rows[v] # None => v = u /\ tx'[s].rows[v] = row
      BY <1>1, <1>6, <1>7
    <2>3. QED
      BY <1>2, <1>5, <2>1, <2>2 DEF Written
  <1>10. \A r \in Sessions \ {s} : \A l \in t.held, k \in tx[r].held : l[1] # k[1]
    BY <1>7 DEF Inv, HeldAlone
  <1>11. QED
    BY <1>1, <1>7, <1>8, <1>9, <1>10, StepOfOne

LEMMA GenerateStep ==
  ASSUME Inv, NEW s \in Sessions, Generate(s)
  PROVE  Inv'
  <1> DEFINE found == {u \in ToSet(tx[s].order) : DueAgain(u, tx[s].on)}
             bill == {u \in found : ~AlreadyBilled(template[u])}
             rows == [u \in Templates |-> IF u \in bill THEN MovedOn(template[u]) ELSE None]
             drafts == {<<u, template[u].next>> : u \in bill}
             t == [tx[s] EXCEPT !.pc = "commit", !.rows = rows, !.drafts = drafts]
  <1>1. /\ tx[s] \in Request /\ tx[s].pc = "generate" /\ tx[s].queue = <<>>
        /\ Start(s, t) /\ UNCHANGED <<template, billed>> /\ tx'[s] = t
    BY DEF Generate, At, Start, Inv, Typed
  <1>2. ASSUME NEW u \in bill
        PROVE  /\ u \in Templates /\ Holds(s, u)
               /\ template[u] \in Template /\ template[u] # None
               /\ template[u].active /\ ~AlreadyBilled(template[u])
               /\ MovedOn(template[u]) \in Template
    <2>1. u \in ToSet(tx[s].order) /\ Due(u, tx[s].on) /\ ~AlreadyBilled(template[u])
      BY DEF DueAgain
    <2>2. u \in Templates
      BY <1>1, <2>1 DEF ToSet, Request
    <2>3. Holds(s, u)
      BY <1>1, <2>1 DEF Inv, Generating, Asks
    <2>4. template[u] # None /\ template[u].active
      BY <2>1 DEF Due
    <2>5. template[u] \in Template
      BY <2>2, <2>4 DEF Inv, Typed
    <2>6. QED
      BY <2>1, <2>2, <2>3, <2>4, <2>5, MovedOnType
  <1>3. rows \in [Templates -> Template \cup {None}]
    BY <1>2
  <1>4. drafts \in SUBSET (Templates \X CalendarDates)
    BY <1>2 DEF Template
  <1>5. t \in Request /\ t.pc = "commit" /\ t.held = tx[s].held /\ t.rows = rows /\ t.drafts = drafts
    BY <1>1, <1>3, <1>4 DEF Request
  <1> HIDE DEF t
  <1>6. Changing(s)' /\ Generating(s)'
    BY <1>1, <1>5 DEF Changing, Generating
  <1>7. Written(s)'
    <2>1. /\ tx'[s].drafts = drafts /\ tx'[s].rows = rows /\ template' = template
          /\ \A u \in bill : Holds(s, u)'
      BY <1>1, <1>2, <1>5 DEF Holds
    <2>2. \A u \in Templates : rows[u] # None => u \in bill
      OBVIOUS
    <2>3. \A u \in bill : rows[u] = MovedOn(template[u]) /\ rows[u] # None /\ <<u, template[u].next>> \in drafts
      BY <1>2, RecurringAssumption
    <2>4. \A draft \in drafts : draft[1] \in bill /\ draft[2] = template[draft[1]].next
      OBVIOUS
    <2> HIDE DEF rows, drafts, bill
    <2>5. QED
      BY <1>2, <2>1, <2>2, <2>3, <2>4 DEF Written, Drafted
  <1>8. \A r \in Sessions \ {s} : \A l \in t.held, k \in tx[r].held : l[1] # k[1]
    BY <1>5 DEF Inv, HeldAlone
  <1>9. QED
    BY <1>1, <1>5, <1>6, <1>7, <1>8, StepOfOne

-----------------------------------------------------------------------------
(* Steps that write tables.                                                *)

LEMMA CreateStep ==
  ASSUME Inv, NEW u \in Templates, NEW d \in Dates, NEW n \in Intervals, Create(u, d, n)
  PROVE  Inv'
  <1> DEFINE row == [next |-> d, every |-> n, active |-> TRUE, last |-> None]
  <1>1. /\ template[u] = None /\ template' = [template EXCEPT ![u] = row]
        /\ billed' = billed /\ tx' = tx
    BY DEF Create
  <1>2. row \in Template /\ row # None
    <2>1. d \in CalendarDates
      BY RecurringAssumption
    <2>2. row \in Template
      BY <2>1 DEF Template
    <2>3. QED
      BY <2>2, RecurringAssumption
  <1> HIDE DEF row
  <1>3. template \in [Templates -> Template \cup {None}]
    BY DEF Inv, Typed
  <1>4. \A v \in Templates : template[v] # None => template'[v] = template[v] /\ template'[v] # None
    BY <1>1, <1>2, <1>3
  <1>5. Typed' /\ HeldAlone'
    BY <1>1, <1>2 DEF Inv, Typed, HeldAlone
  <1>6. ASSUME NEW s \in Sessions PROVE (Changing(s) /\ Generating(s) /\ Written(s))'
    <2>1. Changing(s) /\ Generating(s) /\ Written(s) /\ tx[s] \in Request
      BY DEF Inv, Typed
    <2>2. /\ \A v : Holds(s, v) <=> Holds(s, v)'
          /\ \A v : Asks(s, v) <=> Asks(s, v)'
      BY <1>1 DEF Holds, Asks
    <2>3. Changing(s)'
      BY <1>1, <1>4, <2>1, <2>2, RecurringAssumption DEF Changing
    <2>4. Generating(s)'
      BY <1>1, <2>1, <2>2 DEF Generating
    <2>5. tx[s].pc = "commit" => \A v \in Templates : tx[s].rows[v] # None => template'[v] = template[v]
      BY <1>4, <2>1 DEF Written
    <2>6. \A draft \in tx[s].drafts : draft[1] \in Templates
      BY <2>1 DEF Request
    <2>7. Written(s)'
      BY <1>1, <2>1, <2>2, <2>5, <2>6 DEF Written, Drafted
    <2>8. QED
      BY <2>3, <2>4, <2>7
  <1>7. BilledByLast'
    <2>1. \A draft \in DOMAIN billed : draft[1] \in Templates
      BY DEF Inv, Typed
    <2>2. QED
      BY <1>1, <1>4, <2>1 DEF Inv, BilledByLast
  <1>8. BilledOnce'
    BY <1>1 DEF Inv, BilledOnce
  <1>9. QED
    BY <1>5, <1>6, <1>7, <1>8 DEF Inv

(* What a request writes: rows it holds, of templates there are.           *)
LEMMA WrittenRows ==
  ASSUME Inv, NEW s \in Sessions, tx[s].pc = "commit"
  PROVE  /\ Writing(tx[s]) \in [Templates -> Template \cup {None}]
         /\ \A u \in Templates :
              /\ tx[s].rows[u] = None => Writing(tx[s])[u] = template[u]
              /\ tx[s].rows[u] # None =>
                   /\ Writing(tx[s])[u] = tx[s].rows[u] /\ Holds(s, u)
                   /\ tx[s].rows[u] \in Template /\ template[u] \in Template
                   /\ \/ <<u, template[u].next>> \in tx[s].drafts /\ Drafted(s, u)
                      \/ /\ <<u, template[u].next>> \notin tx[s].drafts
                         /\ u \in Edited /\ tx[s].rows[u].last = template[u].last
         /\ \A draft \in tx[s].drafts :
              /\ draft[1] \in Templates /\ tx[s].rows[draft[1]] # None
              /\ draft = <<draft[1], template[draft[1]].next>>
              /\ Drafted(s, draft[1])
  <1>1. /\ tx[s].rows \in [Templates -> Template \cup {None}]
        /\ tx[s].drafts \subseteq Templates \X CalendarDates
        /\ template \in [Templates -> Template \cup {None}]
    BY DEF Inv, Typed, Request
  <1>2. Written(s)
    BY DEF Inv
  <1>3. Writing(tx[s]) \in [Templates -> Template \cup {None}]
    BY <1>1 DEF Writing
  <1>4. ASSUME NEW u \in Templates, tx[s].rows[u] # None
        PROVE  /\ Writing(tx[s])[u] = tx[s].rows[u] /\ Holds(s, u)
               /\ tx[s].rows[u] \in Template /\ template[u] \in Template
               /\ \/ <<u, template[u].next>> \in tx[s].drafts /\ Drafted(s, u)
                  \/ /\ <<u, template[u].next>> \notin tx[s].drafts
                     /\ u \in Edited /\ tx[s].rows[u].last = template[u].last
    BY <1>1, <1>2, <1>4 DEF Writing, Written
  <1>5. \A u \in Templates : tx[s].rows[u] = None => Writing(tx[s])[u] = template[u]
    BY <1>1 DEF Writing
  <1>6. ASSUME NEW draft \in tx[s].drafts
        PROVE  /\ draft[1] \in Templates /\ tx[s].rows[draft[1]] # None
               /\ draft = <<draft[1], template[draft[1]].next>>
               /\ Drafted(s, draft[1])
    <2>1. draft[1] \in Templates /\ draft = <<draft[1], draft[2]>>
      BY <1>1
    <2>2. tx[s].rows[draft[1]] # None /\ draft[2] = template[draft[1]].next
      BY <1>2 DEF Written
    <2>3. Drafted(s, draft[1])
      BY <1>4, <2>1, <2>2
    <2>4. QED
      BY <2>1, <2>2, <2>3
  <1>7. QED
    BY <1>3, <1>4, <1>5, <1>6

LEMMA CommitOfOthers ==
  ASSUME Inv, NEW s \in Sessions, Commit(s), NEW r \in Sessions \ {s}
  PROVE  (Changing(r) /\ Generating(r) /\ Written(r))'
  <1>1. /\ tx[s].pc = "commit" /\ template' = Writing(tx[s])
        /\ tx'[r] = tx[r] /\ tx[r] \in Request
    BY DEF Commit, At, Start, Inv, Typed
  <1>2. Changing(r) /\ Generating(r) /\ Written(r)
    BY DEF Inv
  <1>3. /\ \A v : Holds(r, v) <=> Holds(r, v)'
        /\ \A v : Asks(r, v) <=> Asks(r, v)'
    BY <1>1 DEF Holds, Asks
  <1>4. \A v \in Templates : template[v] # None => template'[v] # None
    <2>1. ASSUME NEW v \in Templates, template[v] # None PROVE template'[v] # None
      <3>1. CASE tx[s].rows[v] = None
        BY <1>1, <2>1, <3>1, WrittenRows
      <3>2. CASE tx[s].rows[v] # None
        <4>1. Writing(tx[s])[v] = tx[s].rows[v]
          BY <1>1, <3>2, WrittenRows
        <4>2. QED
          BY <1>1, <3>2, <4>1
      <3>3. QED
        BY <3>1, <3>2
    <2>2. QED
      BY <2>1
  <1>5. Changing(r)'
    BY <1>1, <1>2, <1>3, <1>4, RecurringAssumption DEF Changing
  <1>6. Generating(r)'
    BY <1>1, <1>2, <1>3 DEF Generating
  <1>7. ASSUME NEW v \in Templates, Holds(r, v) PROVE template'[v] = template[v]
    <2>1. ~Holds(s, v)
      BY <1>7 DEF Inv, HeldAlone, Holds
    <2>2. QED
      BY <1>1, <2>1, WrittenRows
  <1>8. \A draft \in tx[r].drafts : draft[1] \in Templates
    BY <1>1 DEF Request
  <1>9. Written(r)'
    BY <1>1, <1>2, <1>3, <1>7, <1>8 DEF Written, Drafted
  <1>10. QED
    BY <1>5, <1>6, <1>9

LEMMA CommitStep ==
  ASSUME Inv, NEW s \in Sessions, Commit(s)
  PROVE  Inv'
  <1> DEFINE t == tx[s]
  <1>1. /\ t.pc = "commit" /\ t \in Request /\ template' = Writing(t)
        /\ DOMAIN billed' = DOMAIN billed \cup t.drafts
        /\ \A draft \in DOMAIN billed \cup t.drafts :
              billed'[draft] = Copies(draft) + (IF draft \in t.drafts THEN 1 ELSE 0)
        /\ billed' = [draft \in DOMAIN billed \cup t.drafts |->
                        Copies(draft) + (IF draft \in t.drafts THEN 1 ELSE 0)]
        /\ tx' = [tx EXCEPT ![s] = Idle] /\ tx \in [Sessions -> Request]
    BY DEF Commit, At, Start, Inv, Typed
  <1>2. t.drafts \subseteq Templates \X CalendarDates
    BY <1>1 DEF Request
  <1>3. \A draft \in DOMAIN billed :
          /\ draft[1] \in Templates /\ draft[2] \in CalendarDates
          /\ template[draft[1]] \in Template /\ template[draft[1]].last \in CalendarDates
          /\ NotAfter(draft[2], template[draft[1]].last)
    BY RecurringAssumption DEF Inv, Typed, BilledByLast, Template
  <1>4. ASSUME NEW draft \in t.drafts PROVE draft \notin DOMAIN billed
    BY <1>1, <1>3, WrittenRows DEF Inv, BilledByLast, Drafted, AlreadyBilled
  <1>5. \A draft \in DOMAIN billed \cup t.drafts : Copies(draft) \in Nat
    BY DEF Copies, Inv, Typed
  <1>6. Typed'
    <2>1. template' \in [Templates -> Template \cup {None}]
      BY <1>1, WrittenRows
    <2>2. DOMAIN billed' \subseteq Templates \X CalendarDates
      BY <1>1, <1>2 DEF Inv, Typed
    <2>3. billed' \in [DOMAIN billed' -> Nat]
      BY <1>1, <1>5
    <2>4. tx' \in [Sessions -> Request]
      BY <1>1, IdleType
    <2>5. QED
      BY <2>1, <2>2, <2>3, <2>4 DEF Typed
  <1>7. HeldAlone'
    BY <1>1 DEF Inv, HeldAlone, Idle
  <1>8. ASSUME NEW r \in Sessions PROVE (Changing(r) /\ Generating(r) /\ Written(r))'
    <2>1. CASE r = s
      BY <1>1, <2>1 DEF Changing, Generating, Written, Idle
    <2>2. CASE r # s
      BY <2>2, CommitOfOthers
    <2>3. QED
      BY <2>1, <2>2
  <1>9. ASSUME NEW draft \in DOMAIN billed'
        PROVE  /\ template'[draft[1]] # None /\ template'[draft[1]].last # None
               /\ NotAfter(draft[2], template'[draft[1]].last)
    <2> DEFINE u == draft[1]
    <2>1. CASE draft \in t.drafts
      <3>1. /\ template'[u] = MovedOn(template[u]) /\ template[u] \in Template
            /\ draft[2] = template[u].next
        BY <1>1, <2>1, WrittenRows DEF Drafted
      <3>2. template[u].next \in CalendarDates /\ template'[u] \in Template /\ template'[u].last = template[u].next
        BY <3>1, MovedOnType DEF Template
      <3>3. QED
        BY <3>1, <3>2, NotAfterReflexive, RecurringAssumption
    <2>2. CASE draft \in DOMAIN billed /\ t.rows[u] = None
      BY <1>1, <1>3, <2>2, WrittenRows, RecurringAssumption
    <2>3. CASE draft \in DOMAIN billed /\ t.rows[u] # None /\ Drafted(s, u)
      <3>1. /\ template'[u] = MovedOn(template[u]) /\ ~AlreadyBilled(template[u])
            /\ template[u] \in Template /\ template[u].last \in CalendarDates
            /\ draft[2] \in CalendarDates /\ NotAfter(draft[2], template[u].last)
        BY <1>1, <1>3, <2>3, WrittenRows DEF Drafted
      <3>2. template[u].next \in CalendarDates /\ ~NotAfter(template[u].next, template[u].last)
        BY <3>1, RecurringAssumption DEF AlreadyBilled, Template
      <3>3. NotAfter(draft[2], template[u].next)
        BY <3>1, <3>2, NotAfterTotal, NotAfterTransitive
      <3>4. QED
        BY <3>1, <3>2, <3>3, MovedOnType, RecurringAssumption
    <2>4. CASE draft \in DOMAIN billed /\ t.rows[u] # None /\ t.rows[u].last = template[u].last
      <3>1. u \in Templates /\ template[u].last # None /\ NotAfter(draft[2], template[u].last)
        BY <1>3, <2>4, RecurringAssumption
      <3>2. template'[u] = t.rows[u]
        BY <1>1, <2>4, <3>1, WrittenRows
      <3>3. QED
        BY <2>4, <3>1, <3>2
    <2>5. QED
      BY <1>1, <1>3, <2>1, <2>2, <2>3, <2>4, WrittenRows
  <1>10. BilledByLast'
    BY <1>9 DEF BilledByLast
  <1>11. BilledOnce'
    <2>1. ASSUME NEW draft \in DOMAIN billed' PROVE billed'[draft] = 1
      <3>1. CASE draft \in t.drafts
        BY <1>1, <1>4, <3>1 DEF Copies
      <3>2. CASE draft \notin t.drafts
        BY <1>1, <3>2 DEF Copies, Inv, BilledOnce
      <3>3. QED
        BY <3>1, <3>2
    <2>2. QED
      BY <2>1 DEF BilledOnce
  <1>12. QED
    BY <1>6, <1>7, <1>8, <1>10, <1>11 DEF Inv

-----------------------------------------------------------------------------
(* The theorems.                                                           *)

LEMMA InitInv == ASSUME Init PROVE Inv
  <1>1. tx = [s \in Sessions |-> Idle] /\ DOMAIN billed = {} /\ billed = <<>>
    BY DEF Init
  <1>2. Typed
    <2>1. billed \in [DOMAIN billed -> Nat]
      BY <1>1
    <2>2. template \in [Templates -> Template \cup {None}]
      BY DEF Init
    <2>3. QED
      BY <1>1, <2>1, <2>2, IdleType DEF Typed
  <1>3. HeldAlone /\ \A s \in Sessions : Changing(s) /\ Generating(s) /\ Written(s)
    BY <1>1 DEF HeldAlone, Changing, Generating, Written, Idle
  <1>4. BilledByLast /\ BilledOnce
    BY <1>1 DEF BilledByLast, BilledOnce
  <1>5. QED
    BY <1>2, <1>3, <1>4 DEF Inv

LEMMA StepInv == ASSUME Inv, [Next]_vars PROVE Inv'
  <1>1. CASE UNCHANGED vars
    <2>1. template' = template /\ billed' = billed /\ tx' = tx
      BY <1>1 DEF vars
    <2>2. (Typed /\ HeldAlone /\ BilledByLast /\ BilledOnce)'
      BY <2>1 DEF Inv, Typed, HeldAlone, BilledByLast, BilledOnce
    <2>3. ASSUME NEW s \in Sessions PROVE (Changing(s) /\ Generating(s) /\ Written(s))'
      <3>1. Changing(s) /\ Generating(s) /\ Written(s)
        BY DEF Inv
      <3>2. /\ \A u : Holds(s, u) <=> Holds(s, u)'
            /\ \A u : Asks(s, u) <=> Asks(s, u)'
        BY <2>1 DEF Holds, Asks
      <3>3. Changing(s)' /\ Generating(s)'
        BY <2>1, <3>1, <3>2 DEF Changing, Generating
      <3>4. Written(s)'
        BY <2>1, <3>1, <3>2 DEF Written, Drafted
      <3>5. QED
        BY <3>3, <3>4
    <2>4. QED
      BY <2>2, <2>3 DEF Inv
  <1>2. CASE \E t \in Templates, d \in Dates, i \in Intervals : Create(t, d, i)
    BY <1>2, CreateStep
  <1>3. ASSUME NEW s \in Sessions, \E t \in Edited, f \in Changes : BeginChange(s, t, f) PROVE Inv'
    BY <1>3, BeginChangeStep
  <1>4. ASSUME NEW s \in Sessions, \E d \in Dates : BeginGenerate(s, d) PROVE Inv'
    BY <1>4, BeginGenerateStep
  <1>5. ASSUME NEW s \in Sessions,
               Acquire(s) \/ Change(s) \/ Generate(s) \/ Commit(s) \/ Rollback(s) \/ DeadlockVictim(s)
        PROVE  Inv'
    BY <1>5, AcquireStep, ChangeStep, GenerateStep, CommitStep, AbortStep DEF Rollback, DeadlockVictim
  <1>6. QED
    BY <1>1, <1>2, <1>3, <1>4, <1>5 DEF Next

(* What a request will write is made of rows it holds and that have not    *)
(* changed since (generate_due takes them FOR UPDATE).                     *)
THEOREM Invariance == Spec => []Inv
  <1>1. Init => Inv
    BY InitInv
  <1>2. Inv /\ [Next]_vars => Inv'
    BY StepInv
  <1>3. QED
    BY <1>1, <1>2, PTL DEF Spec

(* A template is billed at most once for a date, whatever runs overlap     *)
(* (generate_due).                                                         *)
THEOREM BilledOnceAlways == Spec => []BilledOnce
  <1>1. Inv => BilledOnce
    BY DEF Inv
  <1>2. QED
    BY <1>1, Invariance, PTL

(* Only Commit bills.                                                      *)
LEMMA OthersBillNothing ==
  ASSUME [Next]_vars, \A s \in Sessions : ~Commit(s)
  PROVE  billed' = billed
  BY DEF Next, vars, Create, BeginChange, BeginGenerate, Acquire, Change, Generate,
         Rollback, DeadlockVictim, Abort

LEMMA PausedStep ==
  ASSUME Inv, [Next]_vars, NEW draft \in DOMAIN billed', billed'[draft] # Copies(draft)
  PROVE  template[draft[1]].active
  <1>1. PICK s \in Sessions : Commit(s)
    BY OthersBillNothing DEF Copies
  <1>2. draft \in tx[s].drafts
    BY <1>1 DEF Commit, Copies, Inv, Typed
  <1>3. Drafted(s, draft[1])
    BY <1>1, <1>2, WrittenRows DEF Commit, At
  <1>4. QED
    BY <1>3 DEF Drafted

(* A paused template is not billed, not even by a run that began before it *)
(* was paused (generate_due and set_active).                               *)
THEOREM PausedNotBilledEver == Spec => PausedNotBilled
  <1>1. Inv /\ [Next]_vars =>
          [\A draft \in DOMAIN billed' : billed'[draft] # Copies(draft) => template[draft[1]].active]_vars
    BY PausedStep
  <1>2. QED
    BY <1>1, Invariance, PTL DEF Spec, PausedNotBilled

-----------------------------------------------------------------------------
(* Month by month.                                                         *)

LEMMA YearsAndMonths ==
  ASSUME NEW y \in Int, NEW m \in Int, NEW n \in Int, NEW i \in Int, i = m - 1 + n
  PROVE  (12 * (y + (i \div 12))) + ((i % 12) + 1) = (12 * y) + m + n
  <1>1. PICK k \in Int, r \in Int : k = i \div 12 /\ r = i % 12 /\ i = (12 * k) + r
    OBVIOUS
  <1>2. (12 * (y + k)) + (r + 1) = (12 * y) + m + n
    BY <1>1
  <1>3. QED
    BY <1>1, <1>2

LEMMA NextMonth ==
  ASSUME NEW d \in CalendarDates, NEW n \in 1..12
  PROVE  MonthNumber(NextDate(d, n)) = MonthNumber(d) + n /\ MonthNumber(d) \in Int
  <1>1. PICK i \in Int : i = d.month - 1 + n
    BY DEF CalendarDates
  <1>2. d.year \in Int /\ d.month \in Int /\ n \in Int
    BY DEF CalendarDates
  <1>3. NextDate(d, n).year = d.year + (i \div 12) /\ NextDate(d, n).month = (i % 12) + 1
    BY <1>1 DEF NextDate, Date
  <1>4. QED
    BY <1>1, <1>2, <1>3, YearsAndMonths DEF MonthNumber

LEMMA BillsNothing ==
  ASSUME NEW t, template'[t] = template[t],
         \A draft : draft[1] = t => (draft \in DOMAIN billed' <=> draft \in DOMAIN billed),
         InStep(t)
  PROVE  InStep(t)'
  <1>1. MonthsBilled(t)' = MonthsBilled(t)
    BY DEF MonthsBilled
  <1>2. QED
    BY <1>1 DEF InStep

LEMMA BillsNext ==
  ASSUME Inv, NEW s \in Sessions, Commit(s), NEW t \in Templates, Drafted(s, t),
         <<t, template[t].next>> \in tx[s].drafts, InStep(t)
  PROVE  InStep(t)'
  <1> DEFINE m == MonthNumber(template[t].next)
  <1>1. /\ tx[s].pc = "commit" /\ template' = Writing(tx[s])
        /\ DOMAIN billed' = DOMAIN billed \cup tx[s].drafts
    BY DEF Commit, At
  <1>2. tx[s].rows[t] # None
    BY <1>1, WrittenRows
  <1>3. template'[t] = MovedOn(template[t]) /\ template[t] \in Template
    BY <1>1, <1>2, WrittenRows DEF Drafted
  <1>4. /\ template[t].next \in CalendarDates /\ template[t].every \in 1..12
        /\ template'[t].every = template[t].every
        /\ template'[t].next = NextDate(template[t].next, template[t].every)
        /\ template'[t].last = template[t].next
    BY <1>3, RecurringAssumption DEF Template, MovedOn
  <1>5. MonthNumber(template'[t].next) = m + template[t].every /\ m \in Int /\ template'[t].last # None
    BY <1>4, NextMonth, RecurringAssumption
  <1>6. MonthsBilled(t)' = MonthsBilled(t) \cup {m}
    <2>1. \A draft \in tx[s].drafts : draft[1] = t => draft = <<t, template[t].next>>
      BY <1>1, WrittenRows
    <2>2. {b \in DOMAIN billed' : b[1] = t} = {b \in DOMAIN billed : b[1] = t} \cup {<<t, template[t].next>>}
      BY <1>1, <2>1
    <2>3. QED
      BY <2>2 DEF MonthsBilled
  <1>7. \A k \in MonthsBilled(t) : k \in Int
    <2>1. \A b \in DOMAIN billed : b[2].year \in Int /\ b[2].month \in Int
      BY DEF Inv, Typed, CalendarDates
    <2>2. QED
      BY <2>1 DEF MonthsBilled, MonthNumber
  <1>8. \A k \in MonthsBilled(t) : k < m /\ k + template[t].every \in MonthsBilled(t) \cup {m}
    BY DEF InStep
  <1> HIDE DEF m
  <1>9. \A k \in MonthsBilled(t)' :
          /\ k < MonthNumber(template'[t].next)
          /\ k + template'[t].every \in MonthsBilled(t)' \cup {MonthNumber(template'[t].next)}
    BY <1>4, <1>5, <1>6, <1>7, <1>8
  <1>10. MonthsBilled(t)' # {}
    BY <1>6
  <1>11. QED
    BY <1>5, <1>9, <1>10 DEF InStep

LEMMA MonthStep ==
  ASSUME Inv, BilledMonthByMonth, [Next]_vars
  PROVE  BilledMonthByMonth'
  <1> SUFFICES ASSUME NEW t \in Templates \ Edited, template'[t] # None
               PROVE  InStep(t)'
    BY DEF BilledMonthByMonth
  <1>1. template[t] # None => InStep(t)
    BY DEF BilledMonthByMonth
  <1>2. CASE \E s \in Sessions : Commit(s)
    <2>1. PICK s \in Sessions : Commit(s)
      BY <1>2
    <2>2. /\ tx[s].pc = "commit" /\ template' = Writing(tx[s])
          /\ DOMAIN billed' = DOMAIN billed \cup tx[s].drafts
      BY <2>1 DEF Commit, At
    <2>3. CASE tx[s].rows[t] = None
      <3>1. template'[t] = template[t]
        BY <2>2, <2>3, WrittenRows
      <3>2. \A draft \in tx[s].drafts : draft[1] # t
        BY <2>2, <2>3, WrittenRows
      <3>3. QED
        BY <1>1, <2>2, <3>1, <3>2, BillsNothing
    <2>4. CASE tx[s].rows[t] # None
      <3>1. /\ <<t, template[t].next>> \in tx[s].drafts /\ Drafted(s, t)
            /\ template[t] \in Template
        BY <2>2, <2>4, WrittenRows
      <3>2. QED
        BY <1>1, <2>1, <3>1, BillsNext, RecurringAssumption
    <2>5. QED
      BY <2>3, <2>4
  <1>3. CASE \E u \in Templates, d \in Dates, i \in Intervals : Create(u, d, i) /\ u = t
    <2>1. PICK d \in Dates, i \in Intervals : Create(t, d, i)
      BY <1>3
    <2>2. template[t] = None /\ billed' = billed /\ template'[t].last = None
      BY <2>1 DEF Create, Inv, Typed
    <2>3. \A b \in DOMAIN billed : b[1] # t
      BY <2>2 DEF Inv, BilledByLast
    <2>4. MonthsBilled(t)' = {}
      BY <2>2, <2>3 DEF MonthsBilled
    <2>5. QED
      BY <2>2, <2>4 DEF InStep
  <1>4. CASE template'[t] = template[t] /\ billed' = billed
    BY <1>1, <1>4, BillsNothing
  <1>5. ASSUME NEW u \in Templates, NEW d \in Dates, NEW i \in Intervals, Create(u, d, i), u # t
        PROVE  template'[t] = template[t] /\ billed' = billed
    BY <1>5 DEF Create, Inv, Typed
  <1>6. QED
    BY <1>2, <1>3, <1>4, <1>5 DEF Next, vars, BeginChange, BeginGenerate, Acquire, Change, Generate,
       Rollback, DeadlockVictim, Abort

(* A template that nobody edits is billed once in each of its intervals,   *)
(* however short the months between and whatever runs overlap              *)
(* (generate_due and add_months).                                          *)
THEOREM BilledMonthByMonthAlways == Spec => []BilledMonthByMonth
  <1>1. Init => BilledMonthByMonth
    BY DEF Init, BilledMonthByMonth
  <1>2. Inv /\ BilledMonthByMonth /\ [Next]_vars => BilledMonthByMonth'
    BY MonthStep
  <1>3. QED
    BY <1>1, <1>2, Invariance, PTL DEF Spec

-----------------------------------------------------------------------------
(* The calendar: the days of a year, and the day before (cash_flow.py).   *)
(* Days are counted within a year, and years follow each other.            *)
NewYear(y) == (365 * (y - 1)) + ((y - 1) \div 4) - ((y - 1) \div 100) + ((y - 1) \div 400)

DaysBefore(y, m) ==
  (((367 * m) - 362) \div 12) - (IF m <= 2 THEN 0 ELSE IF Leap(y) THEN 1 ELSE 2)

LEMMA OrdinalOf ==
  ASSUME NEW y \in Int, NEW m \in 1..12, NEW n \in Int
  PROVE  Ordinal(Date(y, m, n)) = NewYear(y) + DaysBefore(y, m) + n
  BY DEF Ordinal, Date, NewYear, DaysBefore

LEMMA NewYearType == \A y \in Int : NewYear(y) \in Int
  BY DEF NewYear

LEMMA YearLength == \A y \in Int : NewYear(y + 1) = NewYear(y) + (IF Leap(y) THEN 366 ELSE 365)
  BY DEF NewYear, Leap

LEMMA NewYearOrder == \A y, z \in Int : y < z => NewYear(y + 1) <= NewYear(z)
  BY DEF NewYear

LEMMA NewYearBounds == \A y \in Int : y >= 1 => NewYear(y) >= 365 * (y - 1) /\ NewYear(y + 1) <= 366 * y
  BY DEF NewYear

LEMMA MonthFigures ==
  \A y \in Int, m \in 1..12 : DaysBefore(y, m) \in Int /\ MonthLength(y, m) \in Int
  <1>1. SUFFICES ASSUME NEW y \in Int, NEW m \in 1..12
                 PROVE  DaysBefore(y, m) \in Int /\ MonthLength(y, m) \in Int
    OBVIOUS
  <1>2. QED
    BY DEF DaysBefore, MonthLength

LEMMA MonthsOfYear ==
  ASSUME NEW y \in Int, NEW m \in 1..12
  PROVE  /\ m < 12 => DaysBefore(y, m + 1) = DaysBefore(y, m) + MonthLength(y, m)
         /\ DaysBefore(y, m) + MonthLength(y, m) <= (IF Leap(y) THEN 366 ELSE 365)
         /\ DaysBefore(y, 12) + 31 = (IF Leap(y) THEN 366 ELSE 365)
         /\ DaysBefore(y, 1) = 0 /\ DaysBefore(y, m) >= 0
  <1>1. m \in {1, 2, 3, 4, 5, 6, 7, 8, 9, 10, 11, 12}
    OBVIOUS
  <1>2. Leap(y) \in BOOLEAN
    BY DEF Leap
  <1>3. QED
    BY <1>1, <1>2 DEF DaysBefore, MonthLength

LEMMA MonthsOrder ==
  ASSUME NEW y \in Int, NEW m \in 1..12, NEW k \in 1..12, m < k
  PROVE  DaysBefore(y, m) + MonthLength(y, m) <= DaysBefore(y, k)
  <1>1. m \in {1, 2, 3, 4, 5, 6, 7, 8, 9, 10, 11} /\ k \in {2, 3, 4, 5, 6, 7, 8, 9, 10, 11, 12}
    OBVIOUS
  <1>2. Leap(y) \in BOOLEAN
    BY DEF Leap
  <1>3. QED
    BY <1>1, <1>2 DEF DaysBefore, MonthLength

LEMMA WithinYear ==
  ASSUME NEW y \in Int, NEW m \in 1..12, NEW k \in Int, 1 <= k, k <= MonthLength(y, m)
  PROVE  /\ NewYear(y) < NewYear(y) + DaysBefore(y, m) + k
         /\ NewYear(y) + DaysBefore(y, m) + k <= NewYear(y + 1)
  <1>1. DaysBefore(y, m) \in Int /\ MonthLength(y, m) \in Int
    BY MonthFigures
  <1>2. DaysBefore(y, m) >= 0 /\ DaysBefore(y, m) + MonthLength(y, m) <= (IF Leap(y) THEN 366 ELSE 365)
    BY MonthsOfYear
  <1>3. NewYear(y + 1) = NewYear(y) + (IF Leap(y) THEN 366 ELSE 365) /\ NewYear(y) \in Int
    BY NewYearType, YearLength
  <1>4. QED
    BY <1>1, <1>2, <1>3

LEMMA FromOrdinalOf ==
  ASSUME NEW y0 \in Int, NEW m0 \in 1..12, NEW k0 \in Int, 1 <= k0, k0 <= MonthLength(y0, m0), y0 >= 1
  PROVE  FromOrdinal(Ordinal(Date(y0, m0, k0))) = Date(y0, m0, k0)
  <1> PICK n : n = Ordinal(Date(y0, m0, k0))
    OBVIOUS
  <1>0. n = NewYear(y0) + DaysBefore(y0, m0) + k0 /\ DaysBefore(y0, m0) \in Int /\ MonthLength(y0, m0) \in Int
    BY OrdinalOf, MonthFigures
  <1>1. n \in Int /\ n > NewYear(y0) /\ n <= NewYear(y0 + 1) /\ NewYear(y0) \in Int
    <2>1. NewYear(y0) < n /\ n <= NewYear(y0 + 1)
      BY <1>0, WithinYear
    <2>2. NewYear(y0) \in Int
      BY NewYearType
    <2>3. QED
      BY <1>0, <2>1, <2>2
  <1>2. \A y \in Int : Ordinal(Date(y, 1, 1)) = NewYear(y) + 1
    <2>1. SUFFICES ASSUME NEW y \in Int PROVE Ordinal(Date(y, 1, 1)) = NewYear(y) + 1
      OBVIOUS
    <2>2. Ordinal(Date(y, 1, 1)) = NewYear(y) + DaysBefore(y, 1) + 1
      BY OrdinalOf
    <2>3. DaysBefore(y, 1) = 0
      BY MonthsOfYear
    <2>4. NewYear(y) \in Int
      BY NewYearType
    <2>5. QED
      BY <2>2, <2>3, <2>4
  <1> DEFINE years == (n \div 366)..((n \div 365) + 1)
             Is(y) == Ordinal(Date(y, 1, 1)) <= n /\ n < Ordinal(Date(y + 1, 1, 1))
             year == CHOOSE y \in years : Is(y)
  <1>3. y0 \in years
    <2>1. NewYear(y0) >= 365 * (y0 - 1) /\ NewYear(y0 + 1) <= 366 * y0
      BY NewYearBounds
    <2>2. NewYear(y0 + 1) \in Int
      BY NewYearType
    <2>3. n > 365 * (y0 - 1) /\ n <= 366 * y0
      BY <1>1, <2>1, <2>2
    <2>4. n \div 366 \in Int /\ n \div 365 \in Int /\ n \div 366 <= y0 /\ y0 <= (n \div 365) + 1
      BY <1>1, <2>3
    <2>5. QED
      BY <2>4
  <1>4. Is(y0)
    <2>1. y0 + 1 \in Int /\ NewYear(y0 + 1) \in Int
      BY NewYearType
    <2>2. QED
      BY <1>1, <1>2, <2>1
  <1>5. \A y \in years : Is(y) => y = y0
    <2>1. SUFFICES ASSUME NEW y \in years, Is(y) PROVE y = y0
      OBVIOUS
    <2>2. y \in Int /\ y0 \in Int /\ y + 1 \in Int
      BY <1>1
    <2>3. NewYear(y) + 1 <= n /\ n < NewYear(y + 1) + 1 /\ NewYear(y) \in Int /\ NewYear(y + 1) \in Int
      BY <1>2, <2>1, <2>2, NewYearType
    <2>4. y < y0 => NewYear(y + 1) <= NewYear(y0)
      BY <2>2, NewYearOrder
    <2>5. y0 < y => NewYear(y0 + 1) <= NewYear(y)
      BY <2>2, NewYearOrder
    <2>6. NewYear(y0 + 1) \in Int
      BY <2>2, NewYearType
    <2>7. QED
      BY <1>1, <2>2, <2>3, <2>4, <2>5, <2>6
  <1>6. year = y0
    <2> HIDE DEF years, Is
    <2>1. QED
      BY <1>3, <1>4, <1>5
  <1> DEFINE Of(m) == n - Ordinal(Date(y0, m, 1)) \in 0..(MonthLength(y0, m) - 1)
             month == CHOOSE m \in 1..12 : Of(m)
  <1>7. \A m \in 1..12 : n - Ordinal(Date(y0, m, 1)) = DaysBefore(y0, m0) + k0 - 1 - DaysBefore(y0, m)
    <2>1. SUFFICES ASSUME NEW m \in 1..12
                   PROVE  n - Ordinal(Date(y0, m, 1)) = DaysBefore(y0, m0) + k0 - 1 - DaysBefore(y0, m)
      OBVIOUS
    <2>2. Ordinal(Date(y0, m, 1)) = NewYear(y0) + DaysBefore(y0, m) + 1
      BY OrdinalOf
    <2>3. DaysBefore(y0, m) \in Int
      BY MonthFigures
    <2>4. QED
      BY <1>0, <1>1, <2>2, <2>3
  <1>8. Of(m0)
    <2>1. n - Ordinal(Date(y0, m0, 1)) = k0 - 1
      BY <1>0, <1>7
    <2>2. QED
      BY <1>0, <2>1
  <1>9. \A m \in 1..12 : Of(m) => m = m0
    <2>1. SUFFICES ASSUME NEW m \in 1..12, Of(m) PROVE m = m0
      OBVIOUS
    <2>2. DaysBefore(y0, m0) + k0 - 1 - DaysBefore(y0, m) \in 0..(MonthLength(y0, m) - 1)
      BY <1>7, <2>1
    <2>3. m < m0 => DaysBefore(y0, m) + MonthLength(y0, m) <= DaysBefore(y0, m0)
      BY MonthsOrder
    <2>4. m0 < m => DaysBefore(y0, m0) + MonthLength(y0, m0) <= DaysBefore(y0, m)
      BY MonthsOrder
    <2>5. DaysBefore(y0, m0) \in Int /\ DaysBefore(y0, m) \in Int /\ MonthLength(y0, m) \in Int /\ MonthLength(y0, m0) \in Int
      BY MonthFigures
    <2>6. k0 \in Int /\ k0 >= 1 /\ k0 <= MonthLength(y0, m0) /\ m0 \in Int /\ m \in Int
      BY <2>5
    <2>7. QED
      BY <2>2, <2>3, <2>4, <2>5, <2>6
  <1>10. month = m0
    <2> HIDE DEF Of
    <2>1. m0 \in 1..12
      BY <1>0
    <2>2. QED
      BY <2>1, <1>8, <1>9
  <1>11. FromOrdinal(n) = Date(year, CHOOSE m \in 1..12 : n - Ordinal(Date(year, m, 1)) \in 0..(MonthLength(year, m) - 1),
                               n - Ordinal(Date(year, CHOOSE m \in 1..12 : n - Ordinal(Date(year, m, 1)) \in 0..(MonthLength(year, m) - 1), 1)) + 1)
    BY DEF FromOrdinal
  <1> HIDE DEF year
  <1>12. FromOrdinal(n) = Date(y0, month, n - Ordinal(Date(y0, month, 1)) + 1)
    BY <1>6, <1>11
  <1> HIDE DEF month
  <1>13. FromOrdinal(n) = Date(y0, m0, n - Ordinal(Date(y0, m0, 1)) + 1)
    BY <1>10, <1>12
  <1>14. n - Ordinal(Date(y0, m0, 1)) + 1 = k0
    BY <1>0, <1>7
  <1>15. QED
    BY <1>13, <1>14

(* The day before a date, and that no date is between.                     *)
Previous(y, m, k) ==
  IF k > 1 THEN Date(y, m, k - 1)
  ELSE IF m > 1 THEN Date(y, m - 1, MonthLength(y, m - 1)) ELSE Date(y - 1, 12, 31)

LEMMA PreviousOrdinal ==
  ASSUME NEW y \in Int, NEW m \in 1..12, NEW k \in Int, 1 <= k, k <= MonthLength(y, m)
  PROVE  Ordinal(Previous(y, m, k)) = Ordinal(Date(y, m, k)) - 1
  <1>1. Ordinal(Date(y, m, k)) = NewYear(y) + DaysBefore(y, m) + k
    BY OrdinalOf
  <1>2. NewYear(y) \in Int /\ DaysBefore(y, m) \in Int
    BY NewYearType, MonthFigures
  <1>3. CASE k > 1
    <2>1. Ordinal(Date(y, m, k - 1)) = NewYear(y) + DaysBefore(y, m) + (k - 1)
      BY OrdinalOf
    <2>2. QED
      BY <1>1, <1>2, <1>3, <2>1 DEF Previous
  <1>4. CASE k = 1 /\ m > 1
    <2> PICK p : p = m - 1
      OBVIOUS
    <2> PICK last : last = MonthLength(y, p)
      OBVIOUS
    <2>1. p \in 1..12 /\ p < 12 /\ p + 1 = m
      BY <1>4
    <2>2. last \in Int
      BY <2>1, MonthFigures
    <2>3. Ordinal(Date(y, p, last)) = NewYear(y) + DaysBefore(y, p) + last
      BY <2>1, <2>2, OrdinalOf
    <2>4. DaysBefore(y, p + 1) = DaysBefore(y, p) + last
      BY <2>1, MonthsOfYear
    <2>5. DaysBefore(y, p) \in Int
      BY <2>1, MonthFigures
    <2>6. Previous(y, m, k) = Date(y, p, last)
      BY <1>4 DEF Previous
    <2>7. QED
      BY <1>1, <1>2, <1>4, <2>1, <2>2, <2>3, <2>4, <2>5, <2>6
  <1>5. CASE k = 1 /\ m = 1
    <2> PICK z : z = y - 1
      OBVIOUS
    <2>1. z \in Int /\ z + 1 = y
      OBVIOUS
    <2>2. Ordinal(Date(z, 12, 31)) = NewYear(z) + DaysBefore(z, 12) + 31
      BY <2>1, OrdinalOf
    <2>3. DaysBefore(z, 12) + 31 = (IF Leap(z) THEN 366 ELSE 365)
      BY <2>1, MonthsOfYear
    <2>4. NewYear(z + 1) = NewYear(z) + (IF Leap(z) THEN 366 ELSE 365)
      BY <2>1, YearLength
    <2>5. NewYear(z) \in Int /\ DaysBefore(z, 12) \in Int
      <3>1. NewYear(z) \in Int
        BY <2>1, NewYearType
      <3>2. 12 \in 1..12
        OBVIOUS
      <3>3. QED
        BY <2>1, <3>1, <3>2, MonthFigures
    <2>6. DaysBefore(y, 1) = 0
      BY MonthsOfYear
    <2>7. Previous(y, m, k) = Date(z, 12, 31)
      BY <1>5 DEF Previous
    <2>8. QED
      BY <1>1, <1>2, <1>5, <2>1, <2>2, <2>3, <2>4, <2>5, <2>6, <2>7
  <1>6. QED
    BY <1>3, <1>4, <1>5

LEMMA DateFields ==
  ASSUME NEW d \in CalendarDates
  PROVE  /\ d.year \in Int /\ d.month \in 1..12 /\ d.day \in Int
         /\ 1 <= d.day /\ d.day <= MonthLength(d.year, d.month)
         /\ d = Date(d.year, d.month, d.day)
  <1>1. d.year \in Int /\ d.month \in 1..12 /\ d.day \in 1..31 /\ d.day \in 1..MonthLength(d.year, d.month)
    BY DEF CalendarDates, IsDate
  <1>2. d = Date(d.year, d.month, d.day)
    BY DEF CalendarDates, Date
  <1>3. MonthLength(d.year, d.month) \in Int
    BY <1>1, MonthFigures
  <1>4. QED
    BY <1>1, <1>2, <1>3

LEMMA PreviousDate ==
  ASSUME NEW y \in Int, NEW m \in 1..12, NEW k \in Int, 1 <= k, k <= MonthLength(y, m), y >= 1,
         Date(y, m, k) # Beginning
  PROVE  /\ Previous(y, m, k) \in CalendarDates
         /\ FromOrdinal(Ordinal(Previous(y, m, k))) = Previous(y, m, k)
         /\ \A d \in CalendarDates : NotAfter(d, Previous(y, m, k)) <=> ~NotAfter(Date(y, m, k), d)
  <1>1. PICK py \in Int, pm \in 1..12, pk \in Int :
          /\ Previous(y, m, k) = Date(py, pm, pk) /\ py >= 1
          /\ 1 <= pk /\ pk <= MonthLength(py, pm)
          /\ k > 1 => py = y /\ pm = m /\ pk = k - 1
          /\ k = 1 /\ m > 1 => py = y /\ pm = m - 1 /\ pk = MonthLength(py, pm)
          /\ k = 1 /\ m = 1 => py = y - 1 /\ pm = 12 /\ pk = 31
    <2>1. CASE k > 1
      <3>1. k - 1 <= MonthLength(y, m)
        <4>1. MonthLength(y, m) \in Int
          BY MonthFigures
        <4>2. QED
          BY <4>1
      <3>2. Previous(y, m, k) = Date(y, m, k - 1) /\ 1 <= k - 1
        BY <2>1 DEF Previous
      <3>3. QED
        BY <2>1, <3>1, <3>2
    <2>2. CASE k = 1 /\ m > 1
      <3> PICK p : p = m - 1
        OBVIOUS
      <3>1. p \in 1..12
        BY <2>2
      <3>2. MonthLength(y, p) \in Int /\ 1 <= MonthLength(y, p)
        BY <3>1 DEF MonthLength
      <3>3. Previous(y, m, k) = Date(y, p, MonthLength(y, p))
        BY <2>2 DEF Previous
      <3> PICK last : last = MonthLength(y, p)
        OBVIOUS
      <3>4. y \in Int /\ p \in 1..12 /\ last \in Int
        BY <3>1, <3>2
      <3>5. /\ Previous(y, m, k) = Date(y, p, last) /\ y >= 1
            /\ 1 <= last /\ last <= MonthLength(y, p)
            /\ k > 1 => y = y /\ p = m /\ last = k - 1
            /\ k = 1 /\ m > 1 => y = y /\ p = m - 1 /\ last = MonthLength(y, p)
            /\ k = 1 /\ m = 1 => y = y - 1 /\ p = 12 /\ last = 31
        BY <2>2, <3>1, <3>2, <3>3
      <3>6. QED
        BY <3>4, <3>5, Zenon
    <2>3. CASE k = 1 /\ m = 1
      <3>1. y # 1
        BY <2>3 DEF Beginning
      <3>2. MonthLength(y - 1, 12) = 31
        BY DEF MonthLength
      <3>3. Previous(y, m, k) = Date(y - 1, 12, 31) /\ y - 1 \in Int /\ y - 1 >= 1
        BY <2>3, <3>1 DEF Previous
      <3>4. QED
        BY <2>3, <3>2, <3>3
    <2>4. QED
      BY <2>1, <2>2, <2>3
  <1>2. MonthLength(py, pm) \in 28..31
    BY DEF MonthLength
  <1>3. pk \in 1..31 /\ pk \in 1..MonthLength(py, pm)
    BY <1>1, <1>2
  <1>4. Date(py, pm, pk) \in CalendarDates
    BY <1>1, <1>3 DEF CalendarDates, IsDate, Date
  <1>5. FromOrdinal(Ordinal(Date(py, pm, pk))) = Date(py, pm, pk)
    BY <1>1, FromOrdinalOf
  <1>6. ASSUME NEW d \in CalendarDates PROVE NotAfter(d, Date(py, pm, pk)) <=> ~NotAfter(Date(y, m, k), d)
    <2> PICK dy, dm, dk : dy = d.year /\ dm = d.month /\ dk = d.day
      OBVIOUS
    <2>1. dy \in Int /\ dm \in 1..12 /\ dk \in Int /\ 1 <= dk /\ dk <= MonthLength(dy, dm)
      BY DateFields
    <2>2. NotAfter(d, Date(py, pm, pk)) <=>
            (dy < py \/ (dy = py /\ (dm < pm \/ (dm = pm /\ dk <= pk))))
      BY DEF NotAfter, Date
    <2>3. NotAfter(Date(y, m, k), d) <=>
            (y < dy \/ (y = dy /\ (m < dm \/ (m = dm /\ k <= dk))))
      BY DEF NotAfter, Date
    <2>4. CASE k > 1
      BY <1>1, <2>1, <2>2, <2>3, <2>4
    <2>5. CASE k = 1 /\ m > 1
      BY <1>1, <2>1, <2>2, <2>3, <2>5
    <2>6. CASE k = 1 /\ m = 1
      <3>1. dk <= 31
        BY <2>1 DEF MonthLength
      <3>2. QED
        BY <1>1, <2>1, <2>2, <2>3, <2>6, <3>1
    <2>7. QED
      BY <2>4, <2>5, <2>6
  <1>7. QED
    BY <1>1, <1>4, <1>5, <1>6

LEMMA DayBeforeIs ==
  ASSUME NEW s \in BusinessDays
  PROVE  /\ DayBefore(s) \in CalendarDates
         /\ \A d \in CalendarDates : NotAfter(d, DayBefore(s)) <=> ~NotAfter(s, d)
  <1>1. s \in CalendarDates /\ s.year >= 1 /\ s # Beginning
    BY DEF BusinessDays
  <1> PICK y, m, k : y = s.year /\ m = s.month /\ k = s.day
    OBVIOUS
  <1>2. y \in Int /\ m \in 1..12 /\ k \in Int /\ 1 <= k /\ k <= MonthLength(y, m) /\ s = Date(y, m, k) /\ y >= 1
    BY <1>1, DateFields
  <1>3. DayBefore(s) = FromOrdinal(Ordinal(Date(y, m, k)) + (-1))
    BY <1>1, <1>2 DEF DayBefore, Plus
  <1>4. Ordinal(Date(y, m, k)) \in Int
    <2>1. Ordinal(Date(y, m, k)) = NewYear(y) + DaysBefore(y, m) + k
      BY <1>2, OrdinalOf
    <2>2. NewYear(y) \in Int /\ DaysBefore(y, m) \in Int
      BY <1>2, NewYearType, MonthFigures
    <2>3. QED
      BY <1>2, <2>1, <2>2
  <1>5. Ordinal(Previous(y, m, k)) = Ordinal(Date(y, m, k)) + (-1)
    BY <1>2, <1>4, PreviousOrdinal
  <1>6. DayBefore(s) = Previous(y, m, k)
    <2>1. FromOrdinal(Ordinal(Previous(y, m, k))) = Previous(y, m, k)
      BY <1>1, <1>2, PreviousDate
    <2>2. QED
      BY <1>3, <1>5, <2>1
  <1>7. /\ Previous(y, m, k) \in CalendarDates
        /\ \A d \in CalendarDates : NotAfter(d, Previous(y, m, k)) <=> ~NotAfter(Date(y, m, k), d)
    BY <1>1, <1>2, PreviousDate
  <1>8. QED
    BY <1>2, <1>6, <1>7

-----------------------------------------------------------------------------
(* Sums over posted lines.                                                 *)
Amounts == [l \in posted |-> l.amount]
Debits == [l \in posted |-> Debit(l)]
Credits == [l \in posted |-> Credit(l)]

Balance(lines) == SumFunctionOnSet(Amounts, lines)

LEMMA LineFigures ==
  ASSUME Booked
  PROVE  /\ IntOn(Amounts, posted) /\ IntOn(Debits, posted) /\ IntOn(Credits, posted)
         /\ \A l \in posted : Amounts[l] = Debits[l] - Credits[l]
  BY DEF Booked, IsPosted, IntOn, Amounts, Debits, Credits, Debit, Credit

LEMMA LinesFinite ==
  ASSUME Booked, NEW T \in SUBSET posted
  PROVE  /\ IsFiniteSet(T) /\ IntOn(Amounts, T) /\ IntOn(Debits, T) /\ IntOn(Credits, T)
         /\ Balance(T) \in Int
         /\ SumFunctionOnSet(Debits, T) \in Int /\ SumFunctionOnSet(Credits, T) \in Int
  <1>1. IsFiniteSet(T)
    BY FS_Subset DEF Booked
  <1>2. IntOn(Amounts, T) /\ IntOn(Debits, T) /\ IntOn(Credits, T)
    BY LineFigures DEF IntOn
  <1>3. QED
    BY <1>1, <1>2, SumInt DEF Balance

LEMMA SumsOfLines ==
  ASSUME Booked, NEW T \in SUBSET posted
  PROVE  /\ Sum(T, Amount) = Balance(T)
         /\ Sum(T, Debit) = SumFunctionOnSet(Debits, T)
         /\ Sum(T, Credit) = SumFunctionOnSet(Credits, T)
         /\ Balance(T) = Sum(T, Debit) - Sum(T, Credit)
  <1>1. IsFiniteSet(T)
    BY LinesFinite
  <1>2. PICK f, g, h : f = [l \in T |-> l.amount] /\ g = [l \in T |-> Debit(l)] /\ h = [l \in T |-> Credit(l)]
    OBVIOUS
  <1>3. \A l \in T : f[l] = Amounts[l] /\ g[l] = Debits[l] /\ h[l] = Credits[l]
    BY <1>2 DEF Amounts, Debits, Credits
  <1>4. /\ SumFunctionOnSet(f, T) = Balance(T)
        /\ SumFunctionOnSet(g, T) = SumFunctionOnSet(Debits, T)
        /\ SumFunctionOnSet(h, T) = SumFunctionOnSet(Credits, T)
    BY <1>1, <1>3, SumSame DEF Balance
  <1>5. Sum(T, Amount) = SumFunctionOnSet(f, T) /\ Sum(T, Debit) = SumFunctionOnSet(g, T) /\ Sum(T, Credit) = SumFunctionOnSet(h, T)
    BY <1>2 DEF Sum, Amount
  <1>6. SumFunctionOnSet(Debits, T) = Balance(T) + SumFunctionOnSet(Credits, T)
    <2>1. \A l \in T : Debits[l] = Amounts[l] + Credits[l]
      BY LineFigures DEF IntOn
    <2>2. QED
      BY <1>1, <2>1, LinesFinite, SumOfTwo DEF Balance
  <1>7. QED
    BY <1>4, <1>5, <1>6, LinesFinite

(* A balance is that of two parts.                                         *)
LEMMA BalanceOfTwo ==
  ASSUME Booked, NEW T \in SUBSET posted, NEW U \in SUBSET posted, T \cap U = {}
  PROVE  Balance(T \cup U) = Balance(T) + Balance(U)
  <1>1. IntOn(Amounts, T \cup U)
    BY LineFigures DEF IntOn
  <1>2. QED
    BY <1>1, LinesFinite, SumSplit DEF Balance

(* And that of all accounts, or of all entries, with lines in it.          *)
LEMMA BalanceOfParts ==
  ASSUME Booked, NEW P, IsFiniteSet(P), NEW part \in [P -> SUBSET posted],
         \A p, q \in P : p # q => part[p] \cap part[q] = {},
         NEW f, \A p \in P : f[p] = Balance(part[p])
  PROVE  SumFunctionOnSet(f, P) = Balance(UNION {part[p] : p \in P})
  <1>1. PICK g : g = [p \in P |-> SumFunctionOnSet(Amounts, part[p])]
    OBVIOUS
  <1>2. SumFunctionOnSet(g, P) = SumFunctionOnSet(Amounts, UNION {part[p] : p \in P})
    BY <1>1, SumParts, LineFigures DEF Booked
  <1>3. SumFunctionOnSet(f, P) = SumFunctionOnSet(g, P)
    BY <1>1, SumSame DEF Balance
  <1>4. QED
    BY <1>2, <1>3 DEF Balance

(* Whole entries leave nothing.                                            *)
LEMMA EntriesLeaveNothing ==
  ASSUME Booked, NEW T \in SUBSET posted, \A l \in T : LinesOf(l.source) \subseteq T
  PROVE  Balance(T) = 0
  <1>1. PICK sourceOf : \A l \in T : sourceOf[l] = l.source
    <2>1. \A l \in T : [k \in T |-> k.source][l] = l.source
      OBVIOUS
    <2>2. QED
      BY <2>1
  <1> PICK sources : sources = {sourceOf[l] : l \in T}
    OBVIOUS
  <1>2. IsFiniteSet(sources)
    <2>1. IsFiniteSet(T)
      BY LinesFinite
    <2>2. QED
      BY <2>1, ImageFinite DEF ImageOf
  <1>3. PICK part \in [sources -> SUBSET posted] : \A s \in sources : part[s] = LinesOf(s)
    <2>1. [s \in sources |-> LinesOf(s)] \in [sources -> SUBSET posted]
      BY DEF LinesOf
    <2>2. QED
      BY <2>1
  <1>4. PICK f : \A s \in sources : f[s] = Balance(part[s])
    <2>1. \A s \in sources : [t \in sources |-> Balance(part[t])][s] = Balance(part[s])
      OBVIOUS
    <2>2. QED
      BY <2>1
  <1>5. \A s \in sources : \E l \in T : s = l.source
    BY <1>1
  <1>6. \A s, t \in sources : s # t => part[s] \cap part[t] = {}
    BY <1>3 DEF LinesOf
  <1>7. UNION {part[s] : s \in sources} = T
    <2>1. ASSUME NEW l \in T PROVE \E s \in sources : l \in part[s]
      <3>1. sourceOf[l] \in sources /\ l \in LinesOf(sourceOf[l])
        BY <1>1 DEF LinesOf
      <3>2. QED
        BY <1>3, <3>1
    <2>2. \A s \in sources : part[s] \subseteq T
      BY <1>3, <1>5
    <2>3. \A l \in T : l \in UNION {part[s] : s \in sources}
      BY <2>1
    <2>4. \A l \in UNION {part[s] : s \in sources} : l \in T
      BY <2>2
    <2>5. QED
      BY <2>3, <2>4
  <1>8. SumFunctionOnSet(f, sources) = Balance(UNION {part[s] : s \in sources})
    BY <1>2, <1>4, <1>6, BalanceOfParts
  <1>9. \A s \in sources : f[s] = 0
    <2>1. SUFFICES ASSUME NEW s \in sources PROVE f[s] = 0
      OBVIOUS
    <2>2. PICK l \in T : s = l.source
      BY <1>5
    <2>3. LinesOf(l.source) \in SUBSET posted /\ Sum(LinesOf(l.source), Amount) = 0
      <3>1. l \in posted /\ LinesOf(l.source) \subseteq posted
        BY DEF LinesOf
      <3>2. QED
        BY <3>1 DEF Booked
    <2>4. Balance(LinesOf(l.source)) = 0
      BY <2>3, SumsOfLines
    <2>5. QED
      BY <1>3, <1>4, <2>2, <2>4
  <1>10. SumFunctionOnSet(f, sources) = 0
    BY <1>2, <1>9, SumZero
  <1>11. QED
    BY <1>7, <1>8, <1>10

-----------------------------------------------------------------------------
-----------------------------------------------------------------------------
(* Rows.                                                                   *)
MovedIn(period) == Since(period.start, UpTo(period.end, Null))

(* What a row says of an account.                                          *)
RowSays(row, a, period, yearStart) ==
  /\ row.opening = Balance(On(a, UpTo(period.end, Null) \ MovedIn(period)))
  /\ row.debit = SumFunctionOnSet(Debits, On(a, MovedIn(period)))
  /\ row.credit = SumFunctionOnSet(Credits, On(a, MovedIn(period)))
  /\ row.opening \in Int /\ row.debit \in Int /\ row.credit \in Int
  /\ Movement(row) = Balance(On(a, MovedIn(period)))
  /\ Closing(row) = Balance(On(a, UpTo(period.end, Null)))
  /\ row.year = Balance(On(a, Since(yearStart, UpTo(period.end, Null))))

LEMMA RowFigures ==
  ASSUME Booked, NEW period, NEW yearStart, NEW a \in Listed(UpTo(period.end, Null))
  PROVE  RowSays(Balances(period, yearStart, Null)[a], a, period, yearStart)
  <1> PICK row : row = Balances(period, yearStart, Null)[a]
    OBVIOUS
  <1> PICK upTo : upTo = UpTo(period.end, Null)
    OBVIOUS
  <1> PICK moved : moved = MovedIn(period)
    OBVIOUS
  <1> PICK mine : mine = On(a, upTo)
    OBVIOUS
  <1>1. upTo \in SUBSET posted /\ moved \in SUBSET upTo /\ moved = Since(period.start, upTo)
    BY DEF UpTo, MovedIn, Since
  <1>2. /\ Since(period.start, mine) = On(a, moved)
        /\ Since(yearStart, mine) = On(a, Since(yearStart, upTo))
        /\ mine \ On(a, moved) = On(a, upTo \ moved)
    BY <1>1 DEF Since, On
  <1>3. /\ row.opening = Sum(mine \ Since(period.start, mine), Amount)
        /\ row.debit = Sum(Since(period.start, mine), Debit)
        /\ row.credit = Sum(Since(period.start, mine), Credit)
        /\ row.year = Sum(Since(yearStart, mine), Amount)
    BY DEF Balances
  <1>4. /\ On(a, moved) \in SUBSET posted /\ On(a, upTo \ moved) \in SUBSET posted
        /\ On(a, Since(yearStart, upTo)) \in SUBSET posted
    BY <1>1 DEF On, Since
  <1> PICK old, new : old = On(a, upTo \ moved) /\ new = On(a, moved)
    OBVIOUS
  <1>5. /\ row.opening = Balance(old)
        /\ row.debit = SumFunctionOnSet(Debits, new)
        /\ row.credit = SumFunctionOnSet(Credits, new)
        /\ Balance(new) = row.debit - row.credit
        /\ row.year = Balance(On(a, Since(yearStart, upTo)))
    BY <1>2, <1>3, <1>4, SumsOfLines
  <1>6. /\ row.opening \in Int /\ row.debit \in Int /\ row.credit \in Int /\ Balance(new) \in Int
    BY <1>4, <1>5, LinesFinite
  <1>7. Balance(mine) = Balance(old) + Balance(new)
    <2>1. old \cup new = mine /\ old \cap new = {}
      BY <1>1 DEF On
    <2>2. QED
      BY <2>1, <1>4, BalanceOfTwo
  <1>8. QED
    BY <1>5, <1>6, <1>7 DEF RowSays, Movement, Closing

(* What groups of accounts come to.                                        *)
OfAccounts(lines, accounts) == {l \in lines : l.account \in accounts}

LEMMA BalanceOfAccounts ==
  ASSUME Booked, NEW T \in SUBSET posted, NEW accounts, IsFiniteSet(accounts),
         NEW f, \A a \in accounts : f[a] = Balance(On(a, T))
  PROVE  SumFunctionOnSet(f, accounts) = Balance(OfAccounts(T, accounts))
  <1>1. PICK part \in [accounts -> SUBSET posted] : \A a \in accounts : part[a] = On(a, T)
    <2>1. [a \in accounts |-> On(a, T)] \in [accounts -> SUBSET posted]
      BY DEF On
    <2>2. QED
      BY <2>1
  <1>2. \A a, b \in accounts : a # b => part[a] \cap part[b] = {}
    BY <1>1 DEF On
  <1>3. UNION {part[a] : a \in accounts} = OfAccounts(T, accounts)
    BY <1>1 DEF On, OfAccounts
  <1>4. \A a \in accounts : f[a] = Balance(part[a])
    BY <1>1
  <1>5. SumFunctionOnSet(f, accounts) = Balance(UNION {part[a] : a \in accounts})
    BY <1>2, <1>4, BalanceOfParts
  <1>6. QED
    BY <1>3, <1>5

LEMMA RowsListed ==
  ASSUME NEW period, NEW yearStart, NEW rows, rows = Balances(period, yearStart, Null)
  PROVE  DOMAIN rows = Listed(UpTo(period.end, Null)) /\ DOMAIN rows \in SUBSET DOMAIN Accounts
  BY DEF Balances, Listed

TotalClosing(rows, accounts) == TotalOf(rows, accounts, Closing)
TotalMovement(rows, accounts) == TotalOf(rows, accounts, Movement)
TotalYear(rows, accounts) == TotalOf(rows, accounts, LAMBDA r : r.year)

LEMMA TotalsOfRows ==
  ASSUME Booked, NEW period, NEW yearStart, NEW rows, rows = Balances(period, yearStart, Null),
         NEW accounts \in SUBSET DOMAIN rows
  PROVE  /\ TotalClosing(rows, accounts) = Balance(OfAccounts(UpTo(period.end, Null), accounts))
         /\ TotalMovement(rows, accounts) = Balance(OfAccounts(MovedIn(period), accounts))
         /\ TotalYear(rows, accounts) =
              Balance(OfAccounts(Since(yearStart, UpTo(period.end, Null)), accounts))
  <1> PICK upTo, moved, year : upTo = UpTo(period.end, Null) /\ moved = MovedIn(period) /\ year = Since(yearStart, upTo)
    OBVIOUS
  <1>1. upTo \in SUBSET posted /\ moved \in SUBSET posted /\ year \in SUBSET posted
    BY DEF UpTo, MovedIn, Since
  <1>2. IsFiniteSet(accounts)
    <2>1. accounts \in SUBSET DOMAIN Accounts
      BY RowsListed
    <2>2. QED
      BY <2>1, StatementsAssumption, FS_Subset DEF StatementsAssumption
  <1>3. PICK f, g, h : /\ f = [a \in accounts |-> Closing(rows[a])]
                       /\ g = [a \in accounts |-> Movement(rows[a])]
                       /\ h = [a \in accounts |-> rows[a].year]
    OBVIOUS
  <1>4. \A a \in accounts : f[a] = Balance(On(a, upTo)) /\ g[a] = Balance(On(a, moved)) /\ h[a] = Balance(On(a, year))
    <2>1. SUFFICES ASSUME NEW a \in accounts
                   PROVE  f[a] = Balance(On(a, upTo)) /\ g[a] = Balance(On(a, moved)) /\ h[a] = Balance(On(a, year))
      OBVIOUS
    <2>2. f[a] = Closing(rows[a]) /\ g[a] = Movement(rows[a]) /\ h[a] = rows[a].year
      BY <1>3
    <2>3. a \in Listed(UpTo(period.end, Null))
      BY RowsListed
    <2>4. RowSays(rows[a], a, period, yearStart)
      BY <2>3, RowFigures
    <2>5. QED
      BY <2>2, <2>4 DEF RowSays
  <1>5. /\ SumFunctionOnSet(f, accounts) = Balance(OfAccounts(upTo, accounts))
        /\ SumFunctionOnSet(g, accounts) = Balance(OfAccounts(moved, accounts))
        /\ SumFunctionOnSet(h, accounts) = Balance(OfAccounts(year, accounts))
    <2>1. SumFunctionOnSet(f, accounts) = Balance(OfAccounts(upTo, accounts))
      BY <1>1, <1>2, <1>4, BalanceOfAccounts
    <2>2. SumFunctionOnSet(g, accounts) = Balance(OfAccounts(moved, accounts))
      BY <1>1, <1>2, <1>4, BalanceOfAccounts
    <2>3. SumFunctionOnSet(h, accounts) = Balance(OfAccounts(year, accounts))
      BY <1>1, <1>2, <1>4, BalanceOfAccounts
    <2>4. QED
      BY <2>1, <2>2, <2>3
  <1>6. /\ TotalClosing(rows, accounts) = SumFunctionOnSet(f, accounts)
        /\ TotalMovement(rows, accounts) = SumFunctionOnSet(g, accounts)
        /\ TotalYear(rows, accounts) = SumFunctionOnSet(h, accounts)
    BY <1>3 DEF TotalOf, TotalClosing, TotalMovement, TotalYear
  <1>7. QED
    BY <1>5, <1>6

(* The accounts that are not listed have nothing.                          *)
LinesOfTypes(lines, types) == {l \in lines : Accounts[l.account].type \in types}

LEMMA TotalsOfTypes ==
  ASSUME Booked, NEW period, NEW yearStart, NEW rows, rows = Balances(period, yearStart, Null), NEW types
  PROVE  /\ TotalClosing(rows, OfTypes(rows, types)) = Balance(LinesOfTypes(UpTo(period.end, Null), types))
         /\ TotalMovement(rows, OfTypes(rows, types)) = Balance(LinesOfTypes(MovedIn(period), types))
         /\ TotalYear(rows, OfTypes(rows, types)) =
              Balance(LinesOfTypes(Since(yearStart, UpTo(period.end, Null)), types))
  <1> PICK upTo, moved, year : upTo = UpTo(period.end, Null) /\ moved = MovedIn(period) /\ year = Since(yearStart, upTo)
    OBVIOUS
  <1>1. upTo \in SUBSET posted /\ moved \in SUBSET upTo /\ year \in SUBSET upTo
    BY DEF UpTo, MovedIn, Since
  <1> PICK accounts : accounts = OfTypes(rows, types)
    OBVIOUS
  <1>2. accounts \in SUBSET DOMAIN rows
    BY DEF OfTypes
  <1>3. \A l \in upTo : l.account \in DOMAIN rows
    <2>1. SUFFICES ASSUME NEW l \in upTo PROVE l.account \in Listed(upTo)
      BY RowsListed
    <2>2. l.account \in DOMAIN Accounts
      BY <1>1 DEF Booked, IsPosted
    <2>3. l \in On(l.account, upTo)
      BY DEF On
    <2>4. QED
      BY <2>2, <2>3 DEF Listed
  <1>4. \A T \in SUBSET upTo : OfAccounts(T, accounts) = LinesOfTypes(T, types)
    BY <1>3 DEF LinesOfTypes, OfTypes, OfAccounts
  <1>5. /\ TotalClosing(rows, accounts) = Balance(OfAccounts(upTo, accounts))
        /\ TotalMovement(rows, accounts) = Balance(OfAccounts(moved, accounts))
        /\ TotalYear(rows, accounts) = Balance(OfAccounts(year, accounts))
    BY <1>2, TotalsOfRows
  <1>6. QED
    BY <1>1, <1>4, <1>5

-----------------------------------------------------------------------------
-----------------------------------------------------------------------------
(* The balance sheet.                                                      *)
LEMMA LinesUpTo ==
  ASSUME Booked, NEW on, NEW start, NEW types
  PROVE  /\ UpTo(on, Null) = {l \in posted : NotAfter(l.date, on)}
         /\ LinesOfTypes(UpTo(on, Null), types) \in SUBSET posted
         /\ LinesOfTypes(Since(start, UpTo(on, Null)), types) \in SUBSET posted
         /\ Balance(LinesOfTypes(UpTo(on, Null), types)) \in Int
         /\ Balance(LinesOfTypes(Since(start, UpTo(on, Null)), types)) \in Int
  <1>1. UpTo(on, Null) = {l \in posted : NotAfter(l.date, on)}
    BY DEF UpTo
  <1>2. /\ LinesOfTypes(UpTo(on, Null), types) \in SUBSET posted
        /\ LinesOfTypes(Since(start, UpTo(on, Null)), types) \in SUBSET posted
    BY <1>1 DEF LinesOfTypes, Since
  <1>3. QED
    BY <1>1, <1>2, LinesFinite

(* What a balance sheet says.                                              *)
SheetSays(sheet, on) ==
  LET upTo == UpTo(on, Null)
      earned == Balance(LinesOfTypes(upTo, ProfitAndLossTypes))
      current == Balance(LinesOfTypes(Since(YearStartOf(on), upTo), ProfitAndLossTypes))
  IN /\ sheet.assets = Balance(LinesOfTypes(upTo, {"asset"}))
     /\ sheet.liabilities = -Balance(LinesOfTypes(upTo, {"liability"}))
     /\ sheet.equity = -Balance(LinesOfTypes(upTo, {"equity"}))
     /\ sheet.current = -current
     /\ sheet.retained = current - earned

LEMMA SheetFigures ==
  ASSUME Booked, NEW on
  PROVE  SheetSays(BalanceSheet(on), on)
  <1> PICK rows : rows = Balances(AsOf(on), YearStartOf(on), Null)
    OBVIOUS
  <1> PICK s : s = BalanceSheet(on)
    OBVIOUS
  <1> PICK upTo, year : upTo = UpTo(on, Null) /\ year = Since(YearStartOf(on), upTo)
    OBVIOUS
  <1>1. AsOf(on).end = on
    BY DEF AsOf, Period
  <1>2. \A types : TotalClosing(rows, OfTypes(rows, types)) = Balance(LinesOfTypes(upTo, types))
    <2>1. SUFFICES ASSUME NEW types PROVE TotalClosing(rows, OfTypes(rows, types)) = Balance(LinesOfTypes(upTo, types))
      OBVIOUS
    <2>2. TotalClosing(rows, OfTypes(rows, types)) = Balance(LinesOfTypes(UpTo(AsOf(on).end, Null), types))
      BY TotalsOfTypes
    <2>3. QED
      BY <1>1, <2>2
  <1>3. TotalYear(rows, OfTypes(rows, ProfitAndLossTypes)) = Balance(LinesOfTypes(year, ProfitAndLossTypes))
    BY <1>1, TotalsOfTypes
  <1> PICK current : current = Balance(LinesOfTypes(year, ProfitAndLossTypes))
    OBVIOUS
  <1>4. /\ s.assets = TotalClosing(rows, OfTypes(rows, {"asset"}))
        /\ s.liabilities = -TotalClosing(rows, OfTypes(rows, {"liability"}))
        /\ s.equity = -TotalClosing(rows, OfTypes(rows, {"equity"}))
        /\ s.current = -TotalYear(rows, OfTypes(rows, ProfitAndLossTypes))
        /\ s.retained = -TotalClosing(rows, OfTypes(rows, ProfitAndLossTypes)) -
                          (-TotalYear(rows, OfTypes(rows, ProfitAndLossTypes)))
    BY DEF BalanceSheet, TotalClosing, TotalYear
  <1>5. current \in Int /\ Balance(LinesOfTypes(upTo, ProfitAndLossTypes)) \in Int
    BY LinesUpTo
  <1>6. /\ s.assets = Balance(LinesOfTypes(upTo, {"asset"}))
        /\ s.liabilities = -Balance(LinesOfTypes(upTo, {"liability"}))
        /\ s.equity = -Balance(LinesOfTypes(upTo, {"equity"}))
        /\ s.current = -current
        /\ s.retained = -Balance(LinesOfTypes(upTo, ProfitAndLossTypes)) - (-current)
    BY <1>2, <1>3, <1>4
  <1>7. s.retained = current - Balance(LinesOfTypes(upTo, ProfitAndLossTypes))
    BY <1>5, <1>6
  <1>8. QED
    BY <1>6, <1>7 DEF SheetSays

(* All types together.                                                     *)
LEMMA AllTypes ==
  ASSUME Booked, NEW T \in SUBSET posted
  PROVE  Balance(T) = Balance(LinesOfTypes(T, {"asset"})) + Balance(LinesOfTypes(T, {"liability"}))
                        + Balance(LinesOfTypes(T, {"equity"})) + Balance(LinesOfTypes(T, ProfitAndLossTypes))
  <1> PICK a, b, c, d : /\ a = LinesOfTypes(T, {"asset"}) /\ b = LinesOfTypes(T, {"liability"})
                        /\ c = LinesOfTypes(T, {"equity"}) /\ d = LinesOfTypes(T, ProfitAndLossTypes)
    OBVIOUS
  <1>1. \A l \in T : Accounts[l.account].type \in AccountTypes
    BY StatementsAssumption DEF StatementsAssumption, Booked, IsPosted
  <1>2. /\ a \in SUBSET posted /\ b \in SUBSET posted /\ c \in SUBSET posted /\ d \in SUBSET posted
        /\ a \cap b = {} /\ (a \cup b) \cap c = {} /\ ((a \cup b) \cup c) \cap d = {}
    BY DEF LinesOfTypes, ProfitAndLossTypes
  <1>3. T = ((a \cup b) \cup c) \cup d
    BY <1>1 DEF LinesOfTypes, ProfitAndLossTypes, AccountTypes
  <1>4. Balance(a \cup b) = Balance(a) + Balance(b)
    BY <1>2, BalanceOfTwo
  <1>5. a \cup b \in SUBSET posted /\ (a \cup b) \cup c \in SUBSET posted
    BY <1>2
  <1>6. Balance((a \cup b) \cup c) = Balance(a \cup b) + Balance(c)
    BY <1>2, <1>5, BalanceOfTwo
  <1>7. Balance(((a \cup b) \cup c) \cup d) = Balance((a \cup b) \cup c) + Balance(d)
    BY <1>2, <1>5, BalanceOfTwo
  <1>8. QED
    BY <1>3, <1>4, <1>6, <1>7

LEMMA EntriesUpTo ==
  ASSUME Booked, NEW on
  PROVE  Balance(UpTo(on, Null)) = 0
  <1>1. UpTo(on, Null) \in SUBSET posted
    BY DEF UpTo
  <1>2. \A l \in UpTo(on, Null) : LinesOf(l.source) \subseteq UpTo(on, Null)
    BY DEF UpTo, LinesOf, Booked
  <1>3. QED
    BY <1>1, <1>2, EntriesLeaveNothing

LEMMA SheetsBalance == ASSUME Booked PROVE SheetBalances
  <1>1. SUFFICES ASSUME NEW on \in BookDays, NEW s, s = BalanceSheet(on)
                 PROVE  s.assets = s.liabilities + s.equity + s.retained + s.current
    BY DEF SheetBalances
  <1>a. PICK upTo : upTo = UpTo(on, Null)
    OBVIOUS
  <1>b. PICK a, b, c, d, e :
        /\ a = Balance(LinesOfTypes(upTo, {"asset"})) /\ b = Balance(LinesOfTypes(upTo, {"liability"}))
        /\ c = Balance(LinesOfTypes(upTo, {"equity"})) /\ d = Balance(LinesOfTypes(upTo, ProfitAndLossTypes))
        /\ e = Balance(LinesOfTypes(Since(YearStartOf(on), upTo), ProfitAndLossTypes))
    OBVIOUS
  <1>2. a \in Int /\ b \in Int /\ c \in Int /\ d \in Int /\ e \in Int
    BY <1>a, <1>b, LinesUpTo
  <1>3. upTo \in SUBSET posted
    BY <1>a DEF UpTo
  <1>4. Balance(upTo) = 0
    BY <1>a, EntriesUpTo
  <1>5. a + b + c + d = 0
    BY <1>b, <1>3, <1>4, AllTypes
  <1>6. SheetSays(s, on)
    BY <1>1, SheetFigures
  <1>7. s.assets = a /\ s.liabilities = -b /\ s.equity = -c /\ s.current = -e /\ s.retained = e - d
    BY <1>a, <1>b, <1>6 DEF SheetSays
  <1>8. a = (-b) + (-c) + (e - d) + (-e)
    BY <1>2, <1>5
  <1>9. QED
    BY <1>7, <1>8

-----------------------------------------------------------------------------
-----------------------------------------------------------------------------
(* Earnings.                                                               *)
LEMMA YearStarts ==
  ASSUME startMonth \in 1..12, NEW d \in CalendarDates
  PROVE  YearStartOf(d) \in CalendarDates /\ NotAfter(YearStartOf(d), d)
  <1> PICK y, m, k : y = d.year /\ m = d.month /\ k = d.day
    OBVIOUS
  <1>1. y \in Int /\ m \in 1..12 /\ k \in Int /\ 1 <= k
    BY DateFields
  <1>2. YearStartOf(d) = Date(IF m >= startMonth THEN y ELSE y - 1, startMonth, 1)
    BY DEF YearStartOf, FiscalYearBounds, FiscalYear, Period
  <1>3. \A z \in Int : Date(z, startMonth, 1) \in CalendarDates
    <2>1. SUFFICES ASSUME NEW z \in Int PROVE Date(z, startMonth, 1) \in CalendarDates
      OBVIOUS
    <2>2. MonthLength(z, startMonth) \in 28..31
      BY DEF MonthLength
    <2>3. 1 \in 1..MonthLength(z, startMonth)
      BY <2>2
    <2>4. QED
      BY <2>3 DEF CalendarDates, IsDate, Date
  <1>4. YearStartOf(d) \in CalendarDates
    BY <1>1, <1>2, <1>3
  <1>5. NotAfter(YearStartOf(d), d)
    BY <1>1, <1>2 DEF NotAfter, Date
  <1>6. QED
    BY <1>4, <1>5

LEMMA LineDates ==
  ASSUME Booked
  PROVE  \A l \in posted : l.date \in CalendarDates
  BY DEF Booked, IsPosted, BusinessDays

LEMMA PeriodDates ==
  ASSUME NEW p \in Periods
  PROVE  /\ p.start \in BusinessDays /\ p.start \in CalendarDates /\ p.end \in CalendarDates
         /\ NotAfter(p.start, p.end) /\ DayBefore(p.start) \in CalendarDates
  <1>1. p.start \in BusinessDays /\ p.end \in BusinessDays /\ NotAfter(p.start, p.end)
    BY StatementsAssumption DEF StatementsAssumption, Periods, IsPeriod
  <1>2. QED
    BY <1>1, DayBeforeIs DEF BusinessDays

(* A period parts what there is by its end.                                *)
LEMMA PeriodParts ==
  ASSUME Booked, NEW p \in Periods, NEW l \in posted
  PROVE  /\ NotAfter(l.date, DayBefore(p.start)) <=> ~NotAfter(p.start, l.date)
         /\ ~NotAfter(p.start, l.date) => NotAfter(l.date, p.end)
         /\ Covers(p, l.date) <=> l \in MovedIn(p)
         /\ l \in UpTo(p.end, Null) <=> NotAfter(l.date, p.end)
         /\ l \in UpTo(DayBefore(p.start), Null) <=> NotAfter(l.date, DayBefore(p.start))
  <1>1. l.date \in CalendarDates
    BY LineDates
  <1>2. NotAfter(l.date, DayBefore(p.start)) <=> ~NotAfter(p.start, l.date)
    BY <1>1, PeriodDates, DayBeforeIs
  <1>3. ~NotAfter(p.start, l.date) => NotAfter(l.date, p.end)
    BY <1>1, PeriodDates, NotAfterTotal, NotAfterTransitive
  <1>4. QED
    BY <1>2, <1>3 DEF Covers, MovedIn, Since, UpTo

LEMMA EarnedIn ==
  ASSUME Booked, NEW p
  PROVE  ProfitAndLoss(p).net = -Balance(LinesOfTypes(MovedIn(p), ProfitAndLossTypes))
  <1> PICK rows : rows = Balances(p, p.start, Null)
    OBVIOUS
  <1> PICK i, e : i = LinesOfTypes(MovedIn(p), {"income"}) /\ e = LinesOfTypes(MovedIn(p), {"expense"})
    OBVIOUS
  <1>1. TotalMovement(rows, OfTypes(rows, {"income"})) = Balance(i)
    BY TotalsOfTypes
  <1>2. TotalMovement(rows, OfTypes(rows, {"expense"})) = Balance(e)
    BY TotalsOfTypes
  <1>3. ProfitAndLoss(p).net = -TotalMovement(rows, OfTypes(rows, {"income"})) - TotalMovement(rows, OfTypes(rows, {"expense"}))
    <2>1. ProfitAndLoss(p).net = -TotalOf(rows, OfTypes(rows, {"income"}), Movement) - TotalOf(rows, OfTypes(rows, {"expense"}), Movement)
      BY DEF ProfitAndLoss
    <2>2. QED
      BY <2>1 DEF TotalMovement
  <1>4. i \in SUBSET posted /\ e \in SUBSET posted /\ i \cap e = {} /\ i \cup e = LinesOfTypes(MovedIn(p), ProfitAndLossTypes)
    BY DEF LinesOfTypes, MovedIn, Since, UpTo, ProfitAndLossTypes
  <1>5. Balance(i \cup e) = Balance(i) + Balance(e)
    BY <1>4, BalanceOfTwo
  <1>6. Balance(i) \in Int /\ Balance(e) \in Int
    BY <1>4, LinesFinite
  <1>7. ProfitAndLoss(p).net = -Balance(i) - Balance(e)
    BY <1>1, <1>2, <1>3
  <1>8. Balance(LinesOfTypes(MovedIn(p), ProfitAndLossTypes)) = Balance(i) + Balance(e)
    BY <1>4, <1>5
  <1>9. QED
    BY <1>6, <1>7, <1>8

LEMMA EarningsDoAgree == ASSUME Booked PROVE EarningsAgree
  <1>1. SUFFICES ASSUME NEW p \in Periods, NEW before, before = BalanceSheet(DayBefore(p.start)),
                        NEW after, after = BalanceSheet(p.end),
                        NEW earned, earned = ProfitAndLoss(p).net
                 PROVE  /\ YearStartOf(DayBefore(p.start)) = YearStartOf(p.end) =>
                             earned = after.current - before.current
                        /\ earned = after.current + after.retained - before.current - before.retained
                        /\ p.start = YearStartOf(p.end) => after.retained = before.retained + before.current
    BY DEF EarningsAgree
  <1> PICK b, ys : b = DayBefore(p.start) /\ ys = YearStartOf(p.end)
    OBVIOUS
  <1> PICK whole, old, new, year, past :
        /\ whole = LinesOfTypes(UpTo(p.end, Null), ProfitAndLossTypes)
        /\ old = LinesOfTypes(UpTo(b, Null), ProfitAndLossTypes)
        /\ new = LinesOfTypes(MovedIn(p), ProfitAndLossTypes)
        /\ year = LinesOfTypes(Since(ys, UpTo(p.end, Null)), ProfitAndLossTypes)
        /\ past = LinesOfTypes(Since(YearStartOf(b), UpTo(b, Null)), ProfitAndLossTypes)
    OBVIOUS
  <1>2. /\ whole \in SUBSET posted /\ old \in SUBSET posted /\ new \in SUBSET posted
        /\ year \in SUBSET posted /\ past \in SUBSET posted
    BY DEF LinesOfTypes, MovedIn, Since, UpTo
  <1>3. /\ Balance(whole) \in Int /\ Balance(old) \in Int /\ Balance(new) \in Int
        /\ Balance(year) \in Int /\ Balance(past) \in Int
    BY <1>2, LinesFinite
  <1>4. \A l \in posted : /\ l \in UpTo(p.end, Null) <=> l \in UpTo(b, Null) \/ l \in MovedIn(p)
                          /\ ~(l \in UpTo(b, Null) /\ l \in MovedIn(p))
    <2>1. SUFFICES ASSUME NEW l \in posted
                   PROVE  /\ l \in UpTo(p.end, Null) <=> l \in UpTo(b, Null) \/ l \in MovedIn(p)
                          /\ ~(l \in UpTo(b, Null) /\ l \in MovedIn(p))
      OBVIOUS
    <2>2. QED
      BY PeriodParts DEF Covers
  <1>5. whole = old \cup new /\ old \cap new = {}
    BY <1>2, <1>4 DEF LinesOfTypes
  <1>6. Balance(whole) = Balance(old) + Balance(new)
    BY <1>2, <1>5, BalanceOfTwo
  <1>7. earned = -Balance(new)
    BY <1>1, EarnedIn
  <1>8. after.current = -Balance(year) /\ after.retained = Balance(year) - Balance(whole)
    BY <1>1, SheetFigures DEF SheetSays
  <1>9. before.current = -Balance(past) /\ before.retained = Balance(past) - Balance(old)
    BY <1>1, SheetFigures DEF SheetSays
  <1>10. YearStartOf(b) = ys => Balance(year) = Balance(past) + Balance(new)
    <2>1. SUFFICES ASSUME YearStartOf(b) = ys PROVE Balance(year) = Balance(past) + Balance(new)
      OBVIOUS
    <2>2. ys \in CalendarDates /\ NotAfter(ys, b)
      BY <2>1, PeriodDates, YearStarts DEF Booked
    <2>3. NotAfter(ys, p.start)
      BY <2>2, PeriodDates, DayBeforeIs, NotAfterTotal
    <2>4. \A l \in posted : l \in MovedIn(p) => NotAfter(ys, l.date)
      <3>1. SUFFICES ASSUME NEW l \in posted, l \in MovedIn(p) PROVE NotAfter(ys, l.date)
        OBVIOUS
      <3>2. NotAfter(p.start, l.date) /\ l.date \in CalendarDates
        BY <3>1, LineDates DEF MovedIn, Since
      <3>3. QED
        BY <2>2, <2>3, <3>2, PeriodDates, NotAfterTransitive
    <2>5. past \cap new = {}
      <3>1. past \subseteq old
        BY DEF LinesOfTypes, Since
      <3>2. QED
        BY <1>5, <3>1
    <2>6. year = past \cup new
      BY <1>2, <1>4, <2>1, <2>4 DEF LinesOfTypes, Since
    <2>7. QED
      BY <1>2, <2>5, <2>6, BalanceOfTwo
  <1>11. p.start = ys => year = new
    BY DEF MovedIn
  <1>12. QED
    BY <1>3, <1>6, <1>7, <1>8, <1>9, <1>10, <1>11

-----------------------------------------------------------------------------
-----------------------------------------------------------------------------
(* Details of accounts.                                                    *)
LEMMA DetailsDoClose == ASSUME Booked PROVE DetailsClose
  <1>1. SUFFICES ASSUME NEW p \in Periods, NEW a \in DOMAIN Balances(p, p.start, Null)
                 PROVE  AccountDetail(a, p).closing = Closing(Balances(p, p.start, Null)[a])
    BY DEF DetailsClose
  <1> PICK mine, old, new : /\ mine = On(a, UpTo(p.end, Null))
                            /\ old = {l \in On(a, posted) : ~NotAfter(p.start, l.date)}
                            /\ new = {l \in On(a, posted) : Covers(p, l.date)}
    OBVIOUS
  <1>2. old \in SUBSET posted /\ new \in SUBSET posted /\ old \cap new = {}
    BY DEF On, Covers
  <1>3. mine = old \cup new
    <2>1. \A l \in posted : l \in mine <=> l \in old \cup new
      <3>1. SUFFICES ASSUME NEW l \in posted PROVE l \in mine <=> l \in old \cup new
        OBVIOUS
      <3>2. /\ l \in UpTo(p.end, Null) <=> NotAfter(l.date, p.end)
            /\ ~NotAfter(p.start, l.date) => NotAfter(l.date, p.end)
        BY PeriodParts
      <3>3. QED
        BY <3>2 DEF On, Covers
    <2>2. mine \in SUBSET posted
      BY DEF On, UpTo
    <2>3. QED
      BY <1>2, <2>1, <2>2
  <1>4. Balance(mine) = Balance(old) + Balance(new)
    BY <1>2, <1>3, BalanceOfTwo
  <1>5. Closing(Balances(p, p.start, Null)[a]) = Balance(mine)
    <2> PICK rows : rows = Balances(p, p.start, Null)
      OBVIOUS
    <2>1. a \in Listed(UpTo(p.end, Null))
      BY RowsListed
    <2>2. RowSays(rows[a], a, p, p.start)
      BY <2>1, RowFigures
    <2>3. QED
      BY <2>2 DEF RowSays
  <1>6. AccountDetail(a, p).closing = Sum(old, Amount) + Sum(new, Debit) - Sum(new, Credit)
    BY DEF AccountDetail, On
  <1>7. Sum(old, Amount) = Balance(old)
    BY <1>2, SumsOfLines
  <1>8. /\ Balance(new) = Sum(new, Debit) - Sum(new, Credit)
        /\ Sum(new, Debit) = SumFunctionOnSet(Debits, new) /\ Sum(new, Credit) = SumFunctionOnSet(Credits, new)
    BY <1>2, SumsOfLines
  <1>9. Balance(old) \in Int /\ Sum(new, Debit) \in Int /\ Sum(new, Credit) \in Int
    BY <1>2, <1>8, LinesFinite
  <1>10. QED
    BY <1>4, <1>5, <1>6, <1>7, <1>8, <1>9

-----------------------------------------------------------------------------
(* Cash.                                                                   *)
InClass(lines, c) == {l \in lines : Classification(l.account) = c}

LEMMA ClassOfLine ==
  ASSUME Booked, NEW l \in posted
  PROVE  Classification(l.account) \in Classifications
  BY StatementsAssumption DEF StatementsAssumption, Booked, IsPosted, Classification, Classifications

LEMMA ClassesTogether ==
  ASSUME Booked, NEW T \in SUBSET posted, NEW f, \A c \in Classifications : f[c] = -Balance(InClass(T, c))
  PROVE  SumFunctionOnSet(f, Classifications) = -Balance(T)
  <1>1. IsFiniteSet(Classifications)
    <2>1. IsFiniteSet({"operating"})
      BY FS_Singleton
    <2>2. IsFiniteSet({"operating"} \cup {"investing"})
      BY <2>1, FS_AddElement
    <2>3. IsFiniteSet(({"operating"} \cup {"investing"}) \cup {"financing"})
      BY <2>2, FS_AddElement
    <2>4. IsFiniteSet((({"operating"} \cup {"investing"}) \cup {"financing"}) \cup {"unclassified"})
      BY <2>3, FS_AddElement
    <2>5. Classifications = (({"operating"} \cup {"investing"}) \cup {"financing"}) \cup {"unclassified"}
      BY DEF Classifications
    <2>6. QED
      BY <2>4, <2>5
  <1>2. PICK part \in [Classifications -> SUBSET posted] : \A c \in Classifications : part[c] = InClass(T, c)
    <2>1. [c \in Classifications |-> InClass(T, c)] \in [Classifications -> SUBSET posted]
      BY DEF InClass
    <2>2. QED
      BY <2>1
  <1>3. \A c, d \in Classifications : c # d => part[c] \cap part[d] = {}
    BY <1>2 DEF InClass
  <1>4. UNION {part[c] : c \in Classifications} = T
    <2>1. \A l \in T : \E c \in Classifications : l \in part[c]
      BY <1>2, ClassOfLine DEF InClass
    <2>2. \A c \in Classifications : part[c] \subseteq T
      BY <1>2 DEF InClass
    <2>3. \A l \in T : l \in UNION {part[c] : c \in Classifications}
      BY <2>1
    <2>4. \A l \in UNION {part[c] : c \in Classifications} : l \in T
      BY <2>2
    <2>5. QED
      BY <2>3, <2>4
  <1>5. PICK g : \A c \in Classifications : g[c] = Balance(part[c])
    <2>1. \A c \in Classifications : [d \in Classifications |-> Balance(part[d])][c] = Balance(part[c])
      OBVIOUS
    <2>2. QED
      BY <2>1
  <1>6. SumFunctionOnSet(g, Classifications) = Balance(UNION {part[c] : c \in Classifications})
    BY <1>1, <1>3, <1>5, BalanceOfParts
  <1>7. IntOn(g, Classifications)
    <2>1. SUFFICES ASSUME NEW c \in Classifications PROVE g[c] \in Int
      BY DEF IntOn
    <2>2. part[c] \in SUBSET posted
      OBVIOUS
    <2>3. QED
      BY <1>5, <2>2, LinesFinite
  <1>8. \A c \in Classifications : f[c] = -g[c]
    BY <1>2, <1>5
  <1>9. SumFunctionOnSet(f, Classifications) = -SumFunctionOnSet(g, Classifications)
    BY <1>1, <1>7, <1>8, SumNegated
  <1>10. QED
    BY <1>4, <1>6, <1>9

LEMMA CashReconciles == ASSUME Booked PROVE CashFlowReconciles
  <1>1. SUFFICES ASSUME NEW p \in Periods PROVE CashFlow(p).opening + CashFlow(p).net = CashFlow(p).closing
    BY DEF CashFlowReconciles
  <1> PICK b : b = DayBefore(p.start)
    OBVIOUS
  <1> PICK old, new, whole, moved, all :
        /\ old = {l \in posted : IsCash(l) /\ NotAfter(l.date, b)}
        /\ new = {l \in posted : IsCash(l) /\ Covers(p, l.date)}
        /\ whole = {l \in posted : IsCash(l) /\ NotAfter(l.date, p.end)}
        /\ moved = {l \in posted : l.source \in CashEntries(p) /\ ~IsCash(l)}
        /\ all = {l \in posted : l.source \in CashEntries(p)}
    OBVIOUS
  <1>2. /\ old \in SUBSET posted /\ new \in SUBSET posted /\ whole \in SUBSET posted
        /\ moved \in SUBSET posted /\ all \in SUBSET posted
    OBVIOUS
  <1>3. /\ Balance(old) \in Int /\ Balance(new) \in Int /\ Balance(moved) \in Int
    BY <1>2, LinesFinite
  <1>4. whole = old \cup new /\ old \cap new = {}
    <2>1. \A l \in posted : /\ NotAfter(l.date, p.end) <=> NotAfter(l.date, b) \/ Covers(p, l.date)
                            /\ ~(NotAfter(l.date, b) /\ Covers(p, l.date))
      BY PeriodParts DEF Covers
    <2>2. QED
      BY <2>1
  <1>5. Balance(whole) = Balance(old) + Balance(new)
    BY <1>2, <1>4, BalanceOfTwo
  <1>6. all = new \cup moved /\ new \cap moved = {}
    <2>1. \A l \in new : l.source \in CashEntries(p)
      BY DEF CashEntries
    <2>2. \A l \in all : IsCash(l) => Covers(p, l.date)
      <3>1. SUFFICES ASSUME NEW l \in all PROVE Covers(p, l.date)
        OBVIOUS
      <3>2. PICK k \in posted : Covers(p, k.date) /\ k.source = l.source
        BY DEF CashEntries
      <3>3. k.date = l.date
        BY <3>2 DEF Booked
      <3>4. QED
        BY <3>2, <3>3
    <2>3. QED
      BY <2>1, <2>2
  <1>7. Balance(all) = Balance(new) + Balance(moved)
    BY <1>2, <1>6, BalanceOfTwo
  <1>8. Balance(all) = 0
    <2>1. \A l \in all : LinesOf(l.source) \subseteq all
      BY DEF LinesOf
    <2>2. QED
      BY <1>2, <2>1, EntriesLeaveNothing
  <1>9. PICK sections : /\ CashFlow(p).net = SumFunctionOnSet(sections, Classifications)
                        /\ sections = [c \in Classifications |-> -Sum({l \in moved : Classification(l.account) = c}, Amount)]
    BY DEF CashFlow
  <1>10. \A c \in Classifications : sections[c] = -Balance(InClass(moved, c))
    <2>1. SUFFICES ASSUME NEW c \in Classifications PROVE sections[c] = -Balance(InClass(moved, c))
      OBVIOUS
    <2>2. sections[c] = -Sum(InClass(moved, c), Amount)
      BY <1>9 DEF InClass
    <2>3. InClass(moved, c) \in SUBSET posted
      BY <1>2 DEF InClass
    <2>4. QED
      BY <2>2, <2>3, SumsOfLines
  <1>11. CashFlow(p).net = -Balance(moved)
    BY <1>2, <1>9, <1>10, ClassesTogether
  <1>12. CashFlow(p).opening = Balance(old) /\ CashFlow(p).closing = Balance(whole)
    <2>1. CashFlow(p).opening = CashBalance(b) /\ CashFlow(p).closing = CashBalance(p.end)
      BY DEF CashFlow
    <2>2. CashBalance(b) = Sum(old, Amount) /\ CashBalance(p.end) = Sum(whole, Amount)
      BY DEF CashBalance
    <2>3. QED
      BY <1>2, <2>1, <2>2, SumsOfLines
  <1>13. QED
    BY <1>3, <1>5, <1>7, <1>8, <1>11, <1>12

-----------------------------------------------------------------------------
-----------------------------------------------------------------------------
(* The tree.  From a set of accounts that has all those under them, one    *)
(* with none above it there may be taken away.                             *)
Parent(a) == Accounts[a].parent

Lower(T, K) == \A a \in T : ChildrenOf(K, a) \subseteq T

LEMMA TakeAway ==
  ASSUME NEW K \in SUBSET DOMAIN Accounts, NEW T \in SUBSET K, Lower(T, K), T # {}
  PROVE  \E a \in T : /\ Parent(a) \notin T /\ Lower(T \ {a}, K)
                      /\ \A b \in T : ChildrenOf(K, b) \subseteq T \ {a}
  <1>1. PICK a \in T : Parent(a) \notin T
    BY StatementsAssumption DEF StatementsAssumption, Parent
  <1>2. \A b \in T : ChildrenOf(K, b) \subseteq T \ {a}
    BY <1>1 DEF Lower, ChildrenOf, Parent
  <1>3. QED
    BY <1>1, <1>2 DEF Lower

Below(g, K, a) == SumFunctionOnSet([c \in ChildrenOf(K, a) |-> g[c]], ChildrenOf(K, a))
UsedBelow(g, K, a) == \E c \in ChildrenOf(K, a) : g[c]

SolvesAt(own, nodes, g, h, K, a) ==
  /\ g[a] = own[a] + Below(g, K, a)
  /\ h[a] = (UsedBelow(h, K, a) \/ ~Unused(nodes[a]))

LEMMA TreeExists ==
  ASSUME NEW K \in SUBSET DOMAIN Accounts, NEW own, NEW nodes
  PROVE  \E g, h : \A a \in K : SolvesAt(own, nodes, g, h, K, a)
  <1> DEFINE Good == {T \in SUBSET K : Lower(T, K) => \E g, h : \A a \in T : SolvesAt(own, nodes, g, h, K, a)}
  <1>1. ASSUME NEW T \in SUBSET K, \A x \in T : T \ {x} \in Good, Lower(T, K)
        PROVE  \E g, h : \A a \in T : SolvesAt(own, nodes, g, h, K, a)
    <2>1. CASE T = {}
      BY <2>1
    <2>2. CASE T # {}
      <3>1. PICK a \in T : /\ Lower(T \ {a}, K)
                           /\ \A b \in T : ChildrenOf(K, b) \subseteq T \ {a}
        BY <1>1, <2>2, TakeAway
      <3>2. PICK g, h : \A b \in T \ {a} : SolvesAt(own, nodes, g, h, K, b)
        BY <1>1, <3>1
      <3>3. PICK i : \A b \in T : i[b] = IF b = a THEN own[a] + Below(g, K, a) ELSE g[b]
        <4>1. \A b \in T : [x \in T |-> IF x = a THEN own[a] + Below(g, K, a) ELSE g[x]][b] =
                            IF b = a THEN own[a] + Below(g, K, a) ELSE g[b]
          OBVIOUS
        <4>2. QED
          BY <4>1
      <3>4. PICK j : \A b \in T : j[b] = IF b = a THEN (UsedBelow(h, K, a) \/ ~Unused(nodes[a])) ELSE h[b]
        <4>1. \A b \in T : [x \in T |-> IF x = a THEN (UsedBelow(h, K, a) \/ ~Unused(nodes[a])) ELSE h[x]][b] =
                            IF b = a THEN (UsedBelow(h, K, a) \/ ~Unused(nodes[a])) ELSE h[b]
          OBVIOUS
        <4>2. QED
          BY <4>1
      <3>5. ASSUME NEW b \in T PROVE Below(i, K, b) = Below(g, K, b) /\ (UsedBelow(j, K, b) <=> UsedBelow(h, K, b))
        <4>1. \A c \in ChildrenOf(K, b) : c \in T /\ c # a
          BY <3>1
        <4>2. \A c \in ChildrenOf(K, b) : i[c] = g[c]
          BY <3>3, <4>1
        <4>3. \A c \in ChildrenOf(K, b) : j[c] = h[c]
          BY <3>4, <4>1
        <4>4. [c \in ChildrenOf(K, b) |-> i[c]] = [c \in ChildrenOf(K, b) |-> g[c]]
          BY <4>2
        <4>5. QED
          BY <4>3, <4>4 DEF Below, UsedBelow
      <3>6. ASSUME NEW b \in T PROVE SolvesAt(own, nodes, i, j, K, b)
        <4>1. CASE b = a
          BY <3>3, <3>4, <3>5, <4>1 DEF SolvesAt
        <4>2. CASE b # a
          <5>1. SolvesAt(own, nodes, g, h, K, b)
            BY <3>2, <4>2
          <5>2. i[b] = g[b] /\ j[b] = h[b]
            BY <3>3, <3>4, <4>2
          <5>3. QED
            BY <3>5, <5>1, <5>2 DEF SolvesAt
        <4>3. QED
          BY <4>1, <4>2
      <3>7. QED
        BY <3>6
    <2>3. QED
      BY <2>1, <2>2
  <1>2. Good \in SUBSET SUBSET K
    OBVIOUS
  <1>3. \A T \in SUBSET K : (\A x \in T : T \ {x} \in Good) => T \in Good
    BY <1>1
  <1>4. K \in Good
    <2> HIDE DEF Good
    <2>1. IsFiniteSet(K)
      BY StatementsAssumption, FS_Subset DEF StatementsAssumption
    <2>2. QED
      BY <1>2, <1>3, <2>1, FiniteInduction
  <1>5. Lower(K, K)
    BY DEF Lower, ChildrenOf
  <1>6. QED
    BY <1>4, <1>5

LEMMA SettledUnfolds ==
  ASSUME NEW K \in SUBSET DOMAIN Accounts, NEW own, DOMAIN own = K
  PROVE  \A a \in K : Settled(own)[a] = own[a] + Below(Settled(own), K, a)
  <1> DEFINE Unfolds(g) == g = [a \in K |-> own[a] + Below(g, K, a)]
  <1>1. PICK f, h : \A a \in K : SolvesAt(own, own, f, h, K, a)
    BY TreeExists
  <1>2. PICK g : g = [a \in K |-> f[a]]
    OBVIOUS
  <1>3. \A a \in K : Below(g, K, a) = Below(f, K, a)
    <2>1. SUFFICES ASSUME NEW a \in K PROVE Below(g, K, a) = Below(f, K, a)
      OBVIOUS
    <2>2. \A c \in ChildrenOf(K, a) : g[c] = f[c]
      BY <1>2 DEF ChildrenOf
    <2>3. [c \in ChildrenOf(K, a) |-> g[c]] = [c \in ChildrenOf(K, a) |-> f[c]]
      BY <2>2
    <2>4. QED
      BY <2>3 DEF Below
  <1>4. Unfolds(g)
    BY <1>1, <1>2, <1>3 DEF SolvesAt
  <1>5. Settled(own) = CHOOSE x : Unfolds(x)
    BY DEF Settled, Below
  <1>6. Unfolds(Settled(own))
    <2> HIDE DEF Unfolds
    <2>1. QED
      BY <1>4, <1>5
  <1>7. QED
    BY <1>6

LEMMA ShownUnfolds ==
  ASSUME NEW K \in SUBSET DOMAIN Accounts, NEW nodes, DOMAIN nodes = K, NEW a \in K, ~Shown(nodes)[a]
  PROVE  Unused(nodes[a])
  <1> DEFINE Unfolds(g) == g = [b \in K |-> UsedBelow(g, K, b) \/ ~Unused(nodes[b])]
  <1>1. PICK h, f : \A b \in K : SolvesAt(nodes, nodes, h, f, K, b)
    BY TreeExists
  <1>2. PICK g : g = [b \in K |-> f[b]]
    OBVIOUS
  <1>3. \A b \in K : UsedBelow(g, K, b) = UsedBelow(f, K, b)
    <2>1. SUFFICES ASSUME NEW b \in K PROVE UsedBelow(g, K, b) = UsedBelow(f, K, b)
      OBVIOUS
    <2>2. \A c \in ChildrenOf(K, b) : g[c] = f[c]
      BY <1>2 DEF ChildrenOf
    <2>3. QED
      BY <2>2 DEF UsedBelow
  <1>4. Unfolds(g)
    BY <1>1, <1>2, <1>3 DEF SolvesAt
  <1>5. Shown(nodes) = CHOOSE x : Unfolds(x)
    BY DEF Shown, UsedBelow
  <1>6. Unfolds(Shown(nodes))
    <2> HIDE DEF Unfolds
    <2>1. QED
      BY <1>4, <1>5
  <1>7. Shown(nodes)[a] = (UsedBelow(Shown(nodes), K, a) \/ ~Unused(nodes[a]))
    BY <1>6
  <1>8. QED
    BY <1>7

(* What is at the top of a set has the figures of all of it.               *)
Top(T) == {a \in T : Parent(a) \notin T}

LEMMA TopHasAll ==
  ASSUME NEW K \in SUBSET DOMAIN Accounts, NEW own, IntOn(own, K), DOMAIN own = K
  PROVE  IntOn(Settled(own), K) /\ SumFunctionOnSet(Settled(own), Roots(K)) = SumFunctionOnSet(own, K)
  <1> PICK s : s = Settled(own)
    OBVIOUS
  <1>1. \A a \in K : s[a] = own[a] + Below(s, K, a)
    BY SettledUnfolds
  <1> DEFINE Good == {T \in SUBSET K : Lower(T, K) =>
                        IntOn(s, T) /\ SumFunctionOnSet(s, Top(T)) = SumFunctionOnSet(own, T)}
  <1>2. ASSUME NEW T \in SUBSET K, \A x \in T : T \ {x} \in Good, Lower(T, K)
        PROVE  IntOn(s, T) /\ SumFunctionOnSet(s, Top(T)) = SumFunctionOnSet(own, T)
    <2>1. CASE T = {}
      <3>1. Top(T) = {} /\ IntOn(s, T)
        BY <2>1 DEF Top, IntOn
      <3>2. QED
        BY <2>1, <3>1, SumEmpty
    <2>2. CASE T # {}
      <3>1. PICK a \in T : /\ Parent(a) \notin T /\ Lower(T \ {a}, K)
                           /\ \A b \in T : ChildrenOf(K, b) \subseteq T \ {a}
        BY <1>2, <2>2, TakeAway
      <3> PICK rest, kids, others : rest = T \ {a} /\ kids = ChildrenOf(K, a) /\ others = Top(T) \ {a}
        OBVIOUS
      <3>2. IntOn(s, rest) /\ SumFunctionOnSet(s, Top(rest)) = SumFunctionOnSet(own, rest)
        BY <1>2, <3>1
      <3>3. Top(rest) = others \cup kids /\ others \cap kids = {} /\ a \in Top(T) /\ kids \subseteq rest /\ others \subseteq rest
        <4>1. kids \subseteq rest
          BY <3>1
        <4>2. \A b \in kids : Parent(b) = a
          BY DEF ChildrenOf, Parent
        <4>3. \A b \in rest : Parent(b) \notin rest <=> Parent(b) \notin T \/ b \in kids
          BY <3>1 DEF ChildrenOf, Parent
        <4>4. QED
          BY <3>1, <4>1, <4>2, <4>3 DEF Top
      <3>4. IsFiniteSet(T) /\ IsFiniteSet(rest) /\ IsFiniteSet(kids) /\ IsFiniteSet(others) /\ IsFiniteSet(Top(T))
        <4>1. IsFiniteSet(T)
          BY StatementsAssumption, FS_Subset DEF StatementsAssumption
        <4>2. QED
          BY <4>1, <3>3, FS_Subset DEF Top
      <3>5. IntOn(s, kids) /\ IntOn(s, others) /\ IntOn(s, others \cup kids) /\ IntOn(own, T)
        BY <3>2, <3>3 DEF IntOn
      <3>6. Below(s, K, a) = SumFunctionOnSet(s, kids)
        <4>1. PICK f : f = [c \in kids |-> s[c]]
          OBVIOUS
        <4>2. \A c \in kids : f[c] = s[c]
          BY <4>1
        <4>3. SumFunctionOnSet(f, kids) = SumFunctionOnSet(s, kids)
          BY <3>4, <4>2, SumSame
        <4>4. QED
          BY <4>1, <4>3 DEF Below
      <3>7. SumFunctionOnSet(s, kids) \in Int /\ SumFunctionOnSet(s, others) \in Int /\ own[a] \in Int
        BY <3>4, <3>5, SumInt DEF IntOn
      <3>8. s[a] = own[a] + SumFunctionOnSet(s, kids)
        BY <1>1, <3>6
      <3>9. IntOn(s, T)
        BY <3>2, <3>7, <3>8 DEF IntOn
      <3>10. SumFunctionOnSet(s, Top(T)) = s[a] + SumFunctionOnSet(s, others)
        <4>1. IntOn(s, Top(T))
          BY <3>9 DEF IntOn, Top
        <4>2. QED
          BY <3>3, <3>4, <4>1, SumRemove
      <3>11. SumFunctionOnSet(s, Top(rest)) = SumFunctionOnSet(s, others) + SumFunctionOnSet(s, kids)
        BY <3>3, <3>4, <3>5, SumSplit
      <3>12. SumFunctionOnSet(own, T) = own[a] + SumFunctionOnSet(own, rest)
        BY <3>4, <3>5, SumRemove
      <3>13. QED
        BY <3>2, <3>7, <3>8, <3>9, <3>10, <3>11, <3>12
    <2>3. QED
      BY <2>1, <2>2
  <1>3. Good \in SUBSET SUBSET K
    OBVIOUS
  <1>4. \A T \in SUBSET K : (\A x \in T : T \ {x} \in Good) => T \in Good
    BY <1>2
  <1>5. K \in Good
    <2> HIDE DEF Good
    <2>1. IsFiniteSet(K)
      BY StatementsAssumption, FS_Subset DEF StatementsAssumption
    <2>2. QED
      <3>1. \A T \in SUBSET K : T \in Good
        BY <1>3, <1>4, <2>1, FiniteInduction
      <3>2. QED
        BY <3>1
  <1>6. Lower(K, K) /\ Top(K) = Roots(K)
    BY DEF Lower, ChildrenOf, Top, Roots, Parent
  <1>7. QED
    BY <1>5, <1>6

-----------------------------------------------------------------------------
(* Sums of closing balances, and sums over what is not nothing.            *)
LEMMA SumOfClosing ==
  ASSUME NEW f, NEW g, NEW k, NEW h, NEW S, IsFiniteSet(S), IntOn(f, S), IntOn(g, S), IntOn(k, S),
         \A x \in S : h[x] = f[x] + (g[x] - k[x])
  PROVE  SumFunctionOnSet(h, S) = SumFunctionOnSet(f, S) + (SumFunctionOnSet(g, S) - SumFunctionOnSet(k, S))
  <1>1. PICK i : \A x \in S : i[x] = g[x] - k[x]
    <2>1. \A x \in S : [y \in S |-> g[y] - k[y]][x] = g[x] - k[x]
      OBVIOUS
    <2>2. QED
      BY <2>1
  <1>2. IntOn(i, S) /\ \A x \in S : g[x] = i[x] + k[x]
    BY <1>1 DEF IntOn
  <1>3. SumFunctionOnSet(g, S) = SumFunctionOnSet(i, S) + SumFunctionOnSet(k, S)
    BY <1>2, SumOfTwo
  <1>4. \A x \in S : h[x] = f[x] + i[x]
    BY <1>1
  <1>5. SumFunctionOnSet(h, S) = SumFunctionOnSet(f, S) + SumFunctionOnSet(i, S)
    BY <1>2, <1>4, SumOfTwo
  <1>6. SumFunctionOnSet(i, S) \in Int /\ SumFunctionOnSet(k, S) \in Int
    BY <1>2, SumInt
  <1>7. QED
    BY <1>3, <1>5, <1>6

LEMMA SumOfSome ==
  ASSUME NEW f, NEW S, IsFiniteSet(S), IntOn(f, S), NEW T \in SUBSET S, \A x \in S \ T : f[x] = 0
  PROVE  SumFunctionOnSet(f, T) = SumFunctionOnSet(f, S)
  <1> PICK U : U = S \ T
    OBVIOUS
  <1>1. IsFiniteSet(T) /\ IsFiniteSet(U) /\ T \cap U = {} /\ T \cup U = S
    BY FS_Subset
  <1>2. IntOn(f, T \cup U) /\ IntOn(f, T)
    BY DEF IntOn
  <1>3. SumFunctionOnSet(f, T \cup U) = SumFunctionOnSet(f, T) + SumFunctionOnSet(f, U)
    BY <1>1, <1>2, SumSplit
  <1>4. SumFunctionOnSet(f, U) = 0
    BY <1>1, SumZero
  <1>5. SumFunctionOnSet(f, T) \in Int
    BY <1>1, <1>2, SumInt
  <1>6. SumFunctionOnSet(f, S) = SumFunctionOnSet(f, T) + SumFunctionOnSet(f, U)
    <2>1. T \cup U = S
      BY <1>1
    <2>2. QED
      BY <2>1, <1>3
  <1>7. QED
    BY <1>4, <1>5, <1>6

-----------------------------------------------------------------------------
(* The trial balance.                                                      *)
AllAccountTypes == {Accounts[a].type : a \in DOMAIN Accounts}

TotalDebit(rows, accounts) == TotalOf(rows, accounts, LAMBDA r : r.debit)
TotalCredit(rows, accounts) == TotalOf(rows, accounts, LAMBDA r : r.credit)

LEMMA RowsOfIntegers ==
  ASSUME Booked, NEW period, NEW yearStart, NEW rows, rows = Balances(period, yearStart, Null)
  PROVE  \A a \in DOMAIN rows : /\ rows[a].opening \in Int /\ rows[a].debit \in Int /\ rows[a].credit \in Int
  <1>1. SUFFICES ASSUME NEW a \in DOMAIN rows
                 PROVE  rows[a].opening \in Int /\ rows[a].debit \in Int /\ rows[a].credit \in Int
    OBVIOUS
  <1>2. a \in Listed(UpTo(period.end, Null))
    BY RowsListed
  <1>3. RowSays(rows[a], a, period, yearStart)
    BY <1>2, RowFigures
  <1>4. QED
    BY <1>3 DEF RowSays

LEMMA RowsFinite ==
  ASSUME NEW period, NEW yearStart, NEW rows, rows = Balances(period, yearStart, Null)
  PROVE  IsFiniteSet(DOMAIN rows) /\ DOMAIN rows \in SUBSET DOMAIN Accounts
         /\ OfTypes(rows, AllAccountTypes) = DOMAIN rows
  <1>1. DOMAIN rows \in SUBSET DOMAIN Accounts
    BY RowsListed
  <1>2. IsFiniteSet(DOMAIN rows)
    BY <1>1, StatementsAssumption, FS_Subset DEF StatementsAssumption
  <1>3. QED
    BY <1>1, <1>2 DEF OfTypes, AllAccountTypes

LEMMA DebitsAreCredits ==
  ASSUME Booked, NEW period, NEW yearStart, NEW rows, rows = Balances(period, yearStart, Null)
  PROVE  TotalDebit(rows, DOMAIN rows) = TotalCredit(rows, DOMAIN rows)
  <1> PICK S : S = DOMAIN rows
    OBVIOUS
  <1>1. PICK d, c, m : /\ d = [a \in S |-> rows[a].debit] /\ c = [a \in S |-> rows[a].credit]
                       /\ m = [a \in S |-> Movement(rows[a])]
    OBVIOUS
  <1>2. IsFiniteSet(S)
    BY RowsFinite
  <1>3. \A a \in S : d[a] \in Int /\ c[a] \in Int /\ m[a] \in Int /\ d[a] = m[a] + c[a]
    <2>1. \A a \in S : rows[a].debit \in Int /\ rows[a].credit \in Int
      BY RowsOfIntegers
    <2>2. QED
      BY <1>1, <2>1 DEF Movement
  <1>4. SumFunctionOnSet(d, S) = SumFunctionOnSet(m, S) + SumFunctionOnSet(c, S)
    BY <1>2, <1>3, SumOfTwo DEF IntOn
  <1>5. SumFunctionOnSet(m, S) = 0
    <2>1. TotalMovement(rows, OfTypes(rows, AllAccountTypes)) = Balance(LinesOfTypes(MovedIn(period), AllAccountTypes))
      BY TotalsOfTypes
    <2>2. OfTypes(rows, AllAccountTypes) = S
      BY RowsFinite
    <2>3. TotalMovement(rows, S) = SumFunctionOnSet(m, S)
      BY <1>1 DEF TotalMovement, TotalOf
    <2>4. MovedIn(period) \in SUBSET posted
      BY DEF MovedIn, Since, UpTo
    <2>5. LinesOfTypes(MovedIn(period), AllAccountTypes) = MovedIn(period)
      BY <2>4 DEF LinesOfTypes, AllAccountTypes, Booked, IsPosted
    <2>6. \A l \in MovedIn(period) : LinesOf(l.source) \subseteq MovedIn(period)
      BY DEF MovedIn, Since, UpTo, LinesOf, Booked
    <2>7. Balance(MovedIn(period)) = 0
      BY <2>4, <2>6, EntriesLeaveNothing
    <2>8. QED
      BY <2>1, <2>2, <2>3, <2>5, <2>7
  <1>6. SumFunctionOnSet(c, S) \in Int
    BY <1>2, <1>3, SumInt DEF IntOn
  <1>7. TotalDebit(rows, S) = SumFunctionOnSet(d, S) /\ TotalCredit(rows, S) = SumFunctionOnSet(c, S)
    BY <1>1 DEF TotalDebit, TotalCredit, TotalOf
  <1>8. QED
    BY <1>4, <1>5, <1>6, <1>7

LEMMA TreeHasAll ==
  ASSUME Booked, NEW period, NEW yearStart, NEW rows, rows = Balances(period, yearStart, Null),
         NEW tree, tree = TreeOf(rows, AllAccountTypes)
  PROVE  /\ TotalClosing(tree, DOMAIN tree) = TotalClosing(rows, DOMAIN rows)
         /\ TotalDebit(tree, DOMAIN tree) = TotalDebit(rows, DOMAIN rows)
  <1> PICK K : K = DOMAIN rows
    OBVIOUS
  <1>1. IsFiniteSet(K) /\ K \in SUBSET DOMAIN Accounts /\ OfTypes(rows, AllAccountTypes) = K
    BY RowsFinite
  <1>2. PICK o, d, c : /\ o = [a \in K |-> rows[a].opening]
                       /\ d = [a \in K |-> rows[a].debit]
                       /\ c = [a \in K |-> rows[a].credit]
    OBVIOUS
  <1> PICK so, sd, sc : so = Settled(o) /\ sd = Settled(d) /\ sc = Settled(c)
    OBVIOUS
  <1>3. PICK nodes : nodes = [a \in K |-> [opening |-> so[a], debit |-> sd[a], credit |-> sc[a]]]
    OBVIOUS
  <1>4. PICK top : top = {a \in Roots(K) : Shown(nodes)[a]}
    OBVIOUS
  <1>5. tree = Restrict(nodes, top)
    BY <1>1, <1>2, <1>3, <1>4 DEF TreeOf
  <1>6. IntOn(o, K) /\ IntOn(d, K) /\ IntOn(c, K)
    <2>1. \A a \in K : rows[a].opening \in Int /\ rows[a].debit \in Int /\ rows[a].credit \in Int
      BY RowsOfIntegers
    <2>2. QED
      BY <1>2, <2>1 DEF IntOn
  <1>7. DOMAIN o = K /\ DOMAIN d = K /\ DOMAIN c = K /\ DOMAIN nodes = K
    BY <1>2, <1>3
  <1>8. IntOn(so, K) /\ SumFunctionOnSet(so, Roots(K)) = SumFunctionOnSet(o, K)
    BY <1>1, <1>6, <1>7, TopHasAll
  <1>9. IntOn(sd, K) /\ SumFunctionOnSet(sd, Roots(K)) = SumFunctionOnSet(d, K)
    BY <1>1, <1>6, <1>7, TopHasAll
  <1>10. IntOn(sc, K) /\ SumFunctionOnSet(sc, Roots(K)) = SumFunctionOnSet(c, K)
    BY <1>1, <1>6, <1>7, TopHasAll
  <1>11. Roots(K) \in SUBSET K /\ IsFiniteSet(Roots(K)) /\ top \in SUBSET Roots(K) /\ IsFiniteSet(top)
    BY <1>1, <1>4, FS_Subset DEF Roots
  <1>12. IntOn(so, Roots(K)) /\ IntOn(sd, Roots(K)) /\ IntOn(sc, Roots(K))
    BY <1>8, <1>9, <1>10, <1>11 DEF IntOn
  <1>13. \A a \in K : nodes[a].opening = so[a] /\ nodes[a].debit = sd[a] /\ nodes[a].credit = sc[a]
    BY <1>3
  <1>14. \A a \in Roots(K) \ top : so[a] = 0 /\ sd[a] = 0 /\ sc[a] = 0
    <2>1. SUFFICES ASSUME NEW a \in Roots(K), a \notin top PROVE so[a] = 0 /\ sd[a] = 0 /\ sc[a] = 0
      OBVIOUS
    <2>2. a \in K /\ ~Shown(nodes)[a]
      BY <1>4, <1>11, <2>1
    <2>3. Unused(nodes[a])
      BY <1>1, <1>7, <2>2, ShownUnfolds
    <2>4. QED
      BY <1>13, <2>2, <2>3 DEF Unused
  <1>15. DOMAIN tree = top /\ \A a \in top : tree[a] = nodes[a]
    BY <1>5 DEF Restrict
  <1>16. PICK h : \A a \in K : h[a] = so[a] + (sd[a] - sc[a])
    <2>1. \A a \in K : [b \in K |-> so[b] + (sd[b] - sc[b])][a] = so[a] + (sd[a] - sc[a])
      OBVIOUS
    <2>2. QED
      BY <2>1
  <1>17. PICK k : \A a \in K : k[a] = o[a] + (d[a] - c[a])
    <2>1. \A a \in K : [b \in K |-> o[b] + (d[b] - c[b])][a] = o[a] + (d[a] - c[a])
      OBVIOUS
    <2>2. QED
      BY <2>1
  <1>18. SumFunctionOnSet(h, Roots(K)) = SumFunctionOnSet(so, Roots(K)) + (SumFunctionOnSet(sd, Roots(K)) - SumFunctionOnSet(sc, Roots(K)))
    <2>1. \A a \in Roots(K) : h[a] = so[a] + (sd[a] - sc[a])
      BY <1>11, <1>16
    <2>2. QED
      BY <1>11, <1>12, <2>1, SumOfClosing
  <1>19. SumFunctionOnSet(k, K) = SumFunctionOnSet(o, K) + (SumFunctionOnSet(d, K) - SumFunctionOnSet(c, K))
    BY <1>1, <1>6, <1>17, SumOfClosing
  <1>20. SumFunctionOnSet(h, top) = SumFunctionOnSet(h, Roots(K))
    <2>1. IntOn(h, Roots(K))
      BY <1>11, <1>12, <1>16 DEF IntOn
    <2>2. \A a \in Roots(K) \ top : h[a] = 0
      BY <1>11, <1>14, <1>16
    <2>3. QED
      BY <1>11, <2>1, <2>2, SumOfSome
  <1>21. SumFunctionOnSet(sd, top) = SumFunctionOnSet(sd, Roots(K))
    BY <1>11, <1>12, <1>14, SumOfSome
  <1>22. TotalDebit(tree, top) = SumFunctionOnSet(sd, top)
    <2>1. PICK f : f = [a \in top |-> tree[a].debit]
      OBVIOUS
    <2>2. \A a \in top : f[a] = sd[a]
      BY <1>11, <1>13, <1>15, <2>1
    <2>3. TotalDebit(tree, top) = SumFunctionOnSet(f, top)
      BY <2>1 DEF TotalDebit, TotalOf
    <2>4. QED
      BY <1>11, <2>2, <2>3, SumSame
  <1>23. TotalClosing(tree, top) = SumFunctionOnSet(h, top)
    <2>1. PICK f : f = [a \in top |-> Closing(tree[a])]
      OBVIOUS
    <2>2. \A a \in top : f[a] = h[a]
      BY <1>11, <1>13, <1>15, <1>16, <2>1 DEF Closing, Movement
    <2>3. TotalClosing(tree, top) = SumFunctionOnSet(f, top)
      BY <2>1 DEF TotalClosing, TotalOf
    <2>4. QED
      BY <1>11, <2>2, <2>3, SumSame
  <1>24. TotalDebit(rows, K) = SumFunctionOnSet(d, K)
    BY <1>2 DEF TotalDebit, TotalOf
  <1>25. TotalClosing(rows, K) = SumFunctionOnSet(k, K)
    <2>1. PICK f : f = [a \in K |-> Closing(rows[a])]
      OBVIOUS
    <2>2. \A a \in K : f[a] = k[a]
      BY <1>2, <1>17, <2>1 DEF Closing, Movement
    <2>3. TotalClosing(rows, K) = SumFunctionOnSet(f, K)
      BY <2>1 DEF TotalClosing, TotalOf
    <2>4. QED
      BY <1>1, <2>2, <2>3, SumSame
  <1>26. TotalClosing(tree, top) = TotalClosing(rows, K)
    BY <1>8, <1>9, <1>10, <1>18, <1>19, <1>20, <1>23, <1>25
  <1>27. TotalDebit(tree, top) = TotalDebit(rows, K)
    BY <1>9, <1>21, <1>22, <1>24
  <1>28. QED
    BY <1>15, <1>26, <1>27

LEMMA TrialDoesBalance == ASSUME Booked PROVE TrialBalances
  <1>1. SUFFICES ASSUME NEW on \in BookDays, NEW p, p = YearToDate(on, startMonth), NEW t, t = TrialBalance(p, Null)
                 PROVE  /\ t.debit = t.credit
                        /\ TotalOf(t.tree, DOMAIN t.tree, Closing) = TotalOf(t.rows, DOMAIN t.rows, Closing)
                        /\ TotalOf(t.tree, DOMAIN t.tree, LAMBDA r : r.debit) = t.debit
    BY DEF TrialBalances
  <1> PICK rows, tree : rows = Balances(p, p.start, Null) /\ tree = TreeOf(rows, AllAccountTypes)
    OBVIOUS
  <1>2. t.rows = rows /\ t.tree = tree /\ t.debit = TotalDebit(rows, DOMAIN rows) /\ t.credit = TotalCredit(rows, DOMAIN rows)
    BY <1>1 DEF TrialBalance, AllAccountTypes, TotalDebit, TotalCredit
  <1>3. TotalDebit(rows, DOMAIN rows) = TotalCredit(rows, DOMAIN rows)
    BY DebitsAreCredits
  <1>4. /\ TotalClosing(tree, DOMAIN tree) = TotalClosing(rows, DOMAIN rows)
        /\ TotalDebit(tree, DOMAIN tree) = TotalDebit(rows, DOMAIN rows)
    BY TreeHasAll
  <1>5. QED
    BY <1>2, <1>3, <1>4 DEF TotalClosing, TotalDebit

LEMMA StatementsDoAgree == ASSUME Booked PROVE StatementsAgree
  BY SheetsBalance, EarningsDoAgree, TrialDoesBalance, DetailsDoClose DEF StatementsAgree

-----------------------------------------------------------------------------
(* What posts: the lines a draft or a payment asks for.                    *)
CONSTANTS Quotes, Files, StartMonths, MaxEntries

Reports == INSTANCE Reports

(* Sums, sets and dates of the instance are those of this module.          *)
LEMMA SameSum == ASSUME NEW f, NEW S PROVE Reports!SumFunctionOnSet(f, S) = SumFunctionOnSet(f, S)
  BY DEF Reports!SumFunctionOnSet, SumFunctionOnSet, Reports!FoldFunctionOnSet, FoldFunctionOnSet,
         Reports!MapThenFoldSet, MapThenFoldSet

LEMMA SameFinite == ASSUME NEW S PROVE Reports!IsFiniteSet(S) <=> IsFiniteSet(S)
  BY DEF Reports!IsFiniteSet, IsFiniteSet

LEMMA SameDates == Reports!BusinessDays = BusinessDays
  BY DEF Reports!CalendarDates, CalendarDates, Reports!Beginning, Beginning, Reports!Date, Date,
         Reports!BusinessDays, BusinessDays, Reports!MonthLength, MonthLength, Reports!IsDate, IsDate,
         Reports!Leap, Leap

LEMMA SumOfIntegers ==
  ASSUME NEW f, NEW S, IsFiniteSet(S), \A x \in S : f[x] \in Int
  PROVE  Reports!SumFunctionOnSet(f, S) \in Int
  BY SameSum, SumInt DEF IntOn

(* The lines of a request are of the chart's accounts.                     *)
IsRequestLine(l) == l.account \in DOMAIN Accounts /\ l.amount \in Int /\ l.base \in Int \cup {Null}

IsRequest(lines) == IsFiniteSet(DOMAIN lines) /\ \A k \in DOMAIN lines : IsRequestLine(lines[k])

LEMMA RoundedInt ==
  ASSUME NEW n \in Int, NEW d \in Int, d > 0
  PROVE  Reports!Rounded(n, d) \in Int
  BY DEF Reports!Rounded

LEMMA SidedInt ==
  ASSUME NEW n \in Int, NEW debit
  PROVE  Reports!Sided(n, debit) \in Int
  BY DEF Reports!Sided

LEMMA PlainLine ==
  ASSUME NEW account \in DOMAIN Accounts, NEW amount \in Int
  PROVE  /\ IsRequestLine(Reports!Plain(account, amount))
         /\ \A tax, base : base \in Int => IsRequestLine(Reports!Taxed(account, amount, tax, base))
  BY DEF IsRequestLine, Reports!Plain, Reports!Taxed

LEMMA LineAmountsInt ==
  ASSUME NEW line, Reports!IsDraftLine(line), NEW inclusive
  PROVE  /\ Reports!LineAmounts(line, inclusive).net \in Int
         /\ \A t \in line.taxes : Reports!LineAmounts(line, inclusive).tax[t] \in Int
  <1> PICK price : price = line.quantity * line.price * (100 - line.discount)
    OBVIOUS
  <1>1. price \in Int
    <2>1. line.quantity \in Int /\ line.price \in Int /\ line.discount \in Int
      BY DEF Reports!IsDraftLine
    <2>2. line.quantity * line.price \in Int /\ 100 - line.discount \in Int
      BY <2>1
    <2>3. QED
      BY <2>2
  <1> PICK combined : combined = IF inclusive THEN Reports!CombinedRate(line.taxes) ELSE 0
    OBVIOUS
  <1>2. combined \in Nat
    <2> PICK f : f = [t \in line.taxes |-> t.rate]
      OBVIOUS
    <2>1. IsFiniteSet(line.taxes) /\ \A t \in line.taxes : f[t] \in Nat
      BY SameFinite DEF Reports!IsDraftLine, Reports!IsTax
    <2>2. SumFunctionOnSet(f, line.taxes) \in Nat
      BY <2>1, SumNat
    <2>3. Reports!CombinedRate(line.taxes) = SumFunctionOnSet(f, line.taxes)
      BY SameSum DEF Reports!CombinedRate
    <2>4. QED
      BY <2>2, <2>3
  <1> PICK net : net = Reports!Rounded(price, 100 * (100 + combined))
    OBVIOUS
  <1>3. net \in Int
    BY <1>1, <1>2, RoundedInt
  <1>4. \A t \in line.taxes : Reports!Rounded(net * t.rate, 100) \in Int
    <2>1. \A t \in line.taxes : net * t.rate \in Int
      BY <1>3 DEF Reports!IsDraftLine, Reports!IsTax
    <2>2. QED
      BY <2>1, RoundedInt
  <1>5. Reports!LineAmounts(line, inclusive) = [net |-> net, tax |-> [t \in line.taxes |-> Reports!Rounded(net * t.rate, 100)]]
    BY DEF Reports!LineAmounts
  <1>6. QED
    BY <1>3, <1>4, <1>5
(* A draft whose lines are typed, as those of Documents are.               *)
IsDraft(d) == IsFiniteSet(DOMAIN d.lines) /\ \A i \in DOMAIN d.lines : Reports!IsDraftLine(d.lines[i])

TaxesOf(lines) == UNION {lines[i].taxes : i \in DOMAIN lines}

LEMMA TaxesFinite ==
  ASSUME NEW d, IsDraft(d)
  PROVE  IsFiniteSet(TaxesOf(d.lines)) /\ \A t \in TaxesOf(d.lines) : t.account \in DOMAIN Accounts
  <1> PICK g : g = [i \in DOMAIN d.lines |-> d.lines[i].taxes]
    OBVIOUS
  <1> PICK S : S = {g[i] : i \in DOMAIN d.lines}
    OBVIOUS
  <1>1. IsFiniteSet(S)
    BY ImageFinite DEF IsDraft, ImageOf
  <1>2. \A T \in S : IsFiniteSet(T)
    BY SameFinite DEF IsDraft, Reports!IsDraftLine
  <1>3. UNION S = TaxesOf(d.lines)
    BY DEF TaxesOf
  <1>4. IsFiniteSet(TaxesOf(d.lines))
    BY <1>1, <1>2, <1>3, FS_UNION
  <1>5. \A t \in TaxesOf(d.lines) : t.account \in DOMAIN Accounts
    BY DEF TaxesOf, IsDraft, Reports!IsDraftLine, Reports!IsTax
  <1>6. QED
    BY <1>4, <1>5

LEMMA TotalsInt ==
  ASSUME NEW d, IsDraft(d), NEW inclusive, NEW totals, totals = Reports!DocumentTotals(d.lines, inclusive)
  PROVE  /\ DOMAIN totals.groups = TaxesOf(d.lines) /\ totals.total \in Int
         /\ \A t \in TaxesOf(d.lines) : totals.groups[t].amount \in Int /\ totals.groups[t].base \in Int
  <1> DEFINE lines == d.lines
             Charged(t) == {i \in DOMAIN lines : t \in lines[i].taxes}
             Net(i) == Reports!LineAmounts(lines[i], inclusive).net
             Tax(t, i) == Reports!LineAmounts(lines[i], inclusive).tax[t]
             net == Reports!SumFunctionOnSet([i \in DOMAIN lines |-> Net(i)], DOMAIN lines)
             Basis(t) == Reports!SumFunctionOnSet([i \in Charged(t) |-> Net(i)], Charged(t))
             Charge(t) == Reports!SumFunctionOnSet([i \in Charged(t) |-> Tax(t, i)], Charged(t))
             groups == [t \in TaxesOf(lines) |-> [base |-> Basis(t), amount |-> Charge(t)]]
             tax == Reports!SumFunctionOnSet([t \in TaxesOf(lines) |-> groups[t].amount], TaxesOf(lines))
  <1>1. \A i \in DOMAIN lines : Net(i) \in Int
    BY LineAmountsInt DEF IsDraft
  <1>2. \A t : \A i \in Charged(t) : Tax(t, i) \in Int
    BY LineAmountsInt DEF IsDraft
  <1>3. net \in Int
    <2>1. \A i \in DOMAIN lines : [j \in DOMAIN lines |-> Net(j)][i] \in Int
      BY <1>1
    <2> HIDE DEF Net
    <2>2. QED
      BY <2>1, SumOfIntegers DEF IsDraft
  <1>4. \A t : Basis(t) \in Int /\ Charge(t) \in Int
    <2>1. TAKE t
    <2> PICK C : C = Charged(t)
      OBVIOUS
    <2>2. IsFiniteSet(C) /\ C \in SUBSET DOMAIN lines
      BY FS_Subset DEF IsDraft
    <2>3. (\A i \in C : [j \in C |-> Net(j)][i] \in Int) /\ (\A i \in C : [j \in C |-> Tax(t, j)][i] \in Int)
      BY <1>1, <1>2, <2>2
    <2> HIDE DEF Net, Tax, Charged
    <2>4. Reports!SumFunctionOnSet([j \in C |-> Net(j)], C) \in Int /\ Reports!SumFunctionOnSet([j \in C |-> Tax(t, j)], C) \in Int
      BY <2>2, <2>3, SumOfIntegers
    <2>5. QED
      BY <2>4
  <1>5. tax \in Int
    <2> HIDE DEF Basis, Charge
    <2> DEFINE f == [t \in TaxesOf(lines) |-> groups[t].amount]
    <2>1. \A t \in TaxesOf(lines) : f[t] \in Int
      BY <1>4
    <2> HIDE DEF f
    <2>2. Reports!SumFunctionOnSet(f, TaxesOf(lines)) \in Int
      BY <2>1, TaxesFinite, SumOfIntegers
    <2>3. QED
      BY <2>2 DEF f
  <1>6. totals = [net |-> net, groups |-> groups, tax |-> tax, total |-> net + tax]
    BY DEF Reports!DocumentTotals, Reports!Total, Reports!Restrict, TaxesOf
  <1> HIDE DEF net, tax, Basis, Charge
  <1>7. QED
    BY <1>3, <1>4, <1>5, <1>6
LEMMA PairFinite ==
  ASSUME NEW x, NEW y
  PROVE  IsFiniteSet({x, y}) /\ IsFiniteSet({x})
  <1>1. IsFiniteSet({x}) /\ IsFiniteSet({y})
    BY FS_Singleton
  <1> PICK S, T : S = {x} /\ T = {y}
    OBVIOUS
  <1>2. IsFiniteSet(S \cup T)
    BY <1>1, FS_Union
  <1>3. {x, y} = S \cup T
    OBVIOUS
  <1>4. QED
    BY <1>1, <1>2, <1>3

LEMMA DocumentRequests ==
  ASSUME Reports!ReportsAssumption, NEW d \in Documents
  PROVE  IsRequest(Reports!DocumentRequest(d, Defaults))
  <1> DEFINE totals == Reports!DocumentTotals(d.lines, d.inclusive)
             debit == Reports!OpenItemIsDebit(d)
             open == Reports!Plain(Defaults[IF Reports!Outgoing(d) THEN "receivable" ELSE "payable"],
                                   Reports!Sided(totals.total, debit))
             TaxLine(t) == Reports!Taxed(t.account, Reports!Sided(totals.groups[t].amount, ~debit), t,
                                         totals.groups[t].base)
             keys == {Reports!Only("open")} \cup ({"line"} \X DOMAIN d.lines) \cup ({"tax"} \X DOMAIN totals.groups)
             request == [k \in keys |-> CASE k[1] = "open" -> open
                                          [] k[1] = "line" -> Reports!NetLine(d, d.lines[k[2]])
                                          [] k[1] = "tax"  -> TaxLine(k[2])]
  <1>1. IsDraft(d)
    BY SameFinite DEF Reports!ReportsAssumption, IsDraft
  <1>2. /\ DOMAIN totals.groups = TaxesOf(d.lines) /\ totals.total \in Int
        /\ \A t \in TaxesOf(d.lines) : totals.groups[t].amount \in Int /\ totals.groups[t].base \in Int
    BY <1>1, TotalsInt
  <1> HIDE DEF totals
  <1>3. IsFiniteSet(keys)
    <2>1. IsFiniteSet({"line"} \X DOMAIN d.lines) /\ IsFiniteSet({"tax"} \X DOMAIN totals.groups)
      <3>1. IsFiniteSet({"line"}) /\ IsFiniteSet({"tax"})
        BY FS_Singleton
      <3>2. IsFiniteSet(DOMAIN d.lines) /\ IsFiniteSet(TaxesOf(d.lines))
        BY <1>1, TaxesFinite DEF IsDraft
      <3>3. QED
        BY <1>2, <3>1, <3>2, FS_Product
    <2>2. IsFiniteSet({Reports!Only("open")})
      BY FS_Singleton
    <2>3. QED
      BY <2>1, <2>2, FS_Union
  <1>4. IsRequestLine(open)
    <2>1. Defaults["receivable"] \in DOMAIN Accounts /\ Defaults["payable"] \in DOMAIN Accounts
      BY DEF Reports!ReportsAssumption, Reports!DefaultNames
    <2>2. Reports!Sided(totals.total, debit) \in Int
      BY <1>2, SidedInt
    <2>3. QED
      BY <2>1, <2>2, PlainLine
  <1>5. \A i \in DOMAIN d.lines : IsRequestLine(Reports!NetLine(d, d.lines[i]))
    <2>1. TAKE i \in DOMAIN d.lines
    <2> PICK line : line = d.lines[i]
      OBVIOUS
    <2>2. Reports!IsDraftLine(line) /\ line.account \in DOMAIN Accounts
      BY <1>1 DEF IsDraft, Reports!IsDraftLine
    <2>3. Reports!LineAmounts(line, d.inclusive).net \in Int
      BY <2>2, LineAmountsInt
    <2>4. Reports!Sided(Reports!LineAmounts(line, d.inclusive).net, ~Reports!OpenItemIsDebit(d)) \in Int
      BY <2>3, SidedInt
    <2>5. IsRequestLine(Reports!NetLine(d, line))
      BY <2>2, <2>3, <2>4, PlainLine DEF Reports!NetLine
    <2>6. QED
      BY <2>5
  <1>6. \A t \in TaxesOf(d.lines) : IsRequestLine(TaxLine(t))
    <2>1. TAKE t \in TaxesOf(d.lines)
    <2>2. t.account \in DOMAIN Accounts /\ Reports!Sided(totals.groups[t].amount, ~debit) \in Int /\ totals.groups[t].base \in Int
      BY <1>1, <1>2, TaxesFinite, SidedInt
    <2>3. QED
      BY <2>2, PlainLine
  <1> HIDE DEF open, TaxLine
  <1>7. \A k \in keys : IsRequestLine(request[k])
    <2>1. TAKE k \in keys
    <2>2. CASE k = Reports!Only("open")
      BY <2>2, <1>4 DEF Reports!Only
    <2>3. CASE k \in {"line"} \X DOMAIN d.lines
      BY <2>3, <1>5
    <2>4. CASE k \in {"tax"} \X DOMAIN totals.groups
      BY <2>4, <1>2, <1>6
    <2>5. QED
      BY <2>1, <2>2, <2>3, <2>4
  <1> PICK kept : kept = {k \in keys : request[k].amount # 0}
    OBVIOUS
  <1>8. Reports!DocumentRequest(d, Defaults) = [k \in kept |-> request[k]]
    BY DEF Reports!DocumentRequest, Reports!NonZero, Reports!Restrict, totals, open, TaxLine
  <1> HIDE DEF request, keys
  <1>9. IsFiniteSet(kept) /\ kept \in SUBSET keys
    BY <1>3, FS_Subset
  <1>10. QED
    BY <1>7, <1>8, <1>9 DEF IsRequest

LEMMA PaymentRequests ==
  ASSUME Reports!ReportsAssumption, NEW p \in Payments, Null \notin DOMAIN Accounts \cup Int
  PROVE  /\ IsRequest(Reports!PaymentRequest(p, Defaults))
         /\ IsRequest(Reports!BankRequest(p, Defaults.bank, Defaults))
  <1> PICK withheld : withheld = Reports!Withheld(p)
    OBVIOUS
  <1>1. p.amount \in Int /\ withheld \in Int
    <2>1. CASE p.withholding = Null
      BY <2>1 DEF Reports!Withheld, Reports!ReportsAssumption
    <2>2. CASE p.withholding # Null
      <3>1. p.amount \in Int /\ p.withholding.rate \in Int
        BY <2>2 DEF Reports!ReportsAssumption, Reports!IsTax
      <3>2. p.amount * p.withholding.rate \in Int
        BY <3>1
      <3>3. Reports!Rounded(p.amount * p.withholding.rate, 100) \in Int
        BY <3>2, RoundedInt
      <3>4. QED
        BY <2>2, <3>1, <3>3 DEF Reports!Withheld
    <2>3. QED
      BY <2>1, <2>2
  <1>2. \A name \in {"receivable", "payable", "bank", "outstanding_receipts", "outstanding_payments"} : Defaults[name] \in DOMAIN Accounts
    BY DEF Reports!ReportsAssumption, Reports!DefaultNames
  <1>3. withheld > 0 => p.withholding.account \in DOMAIN Accounts
    BY DEF Reports!ReportsAssumption, Reports!IsTax, Reports!Withheld
  <1>4. \A account \in DOMAIN Accounts, amount \in Int, debit \in BOOLEAN :
          IsRequestLine(Reports!Plain(account, Reports!Sided(amount, debit)))
    BY SidedInt, PlainLine
  <1>5. IsRequest(Reports!PaymentRequest(p, Defaults))
    <2> DEFINE inbound == p.direction = "inbound"
               partner == Reports!Plain(Defaults[IF inbound THEN "receivable" ELSE "payable"],
                                        Reports!Sided(p.amount, ~inbound))
               moves == Reports!Plain(Defaults[IF inbound THEN "outstanding_receipts" ELSE "outstanding_payments"],
                                      Reports!Sided(p.amount - withheld, inbound))
               tax == p.withholding
               untagged == Reports!Plain(tax.account, Reports!Sided(withheld, inbound))
               taxed == [untagged EXCEPT !.tax = tax.name, !.tag = tax.tag]
               keys == {Reports!Only("partner"), Reports!Only("moves")} \cup (IF withheld > 0 THEN {Reports!Only("tax")} ELSE {})
               request == [k \in keys |-> CASE k[1] = "partner" -> partner
                                            [] k[1] = "moves"   -> moves
                                            [] k[1] = "tax"     -> taxed]
    <2>1. IsRequestLine(partner)
      BY <1>1, <1>2, <1>4
    <2>2. IsRequestLine(moves)
      <3>1. p.amount - withheld \in Int
        BY <1>1
      <3>2. QED
        BY <3>1, <1>2, <1>4
    <2>3. withheld > 0 => IsRequestLine(taxed)
      <3>1. SUFFICES ASSUME withheld > 0 PROVE IsRequestLine(taxed)
        OBVIOUS
      <3>2. IsRequestLine(untagged)
        BY <1>1, <1>3, <1>4, <3>1
      <3>3. DOMAIN untagged = {"account", "amount", "tax", "tag", "base"}
        BY DEF Reports!Plain
      <3> HIDE DEF untagged
      <3>4. taxed.account = untagged.account /\ taxed.amount = untagged.amount /\ taxed.base = untagged.base
        BY <3>3
      <3> HIDE DEF taxed
      <3>5. QED
        BY <3>2, <3>4 DEF IsRequestLine
    <2> HIDE DEF partner, moves, taxed
    <2>4. \A k \in keys : IsRequestLine(request[k])
      BY <2>1, <2>2, <2>3 DEF Reports!Only
    <2>5. IsFiniteSet(keys)
      <3>1. IsFiniteSet({Reports!Only("partner"), Reports!Only("moves")}) /\ IsFiniteSet({Reports!Only("tax")}) /\ IsFiniteSet({})
        BY PairFinite, FS_EmptySet
      <3>2. QED
        BY <3>1, FS_Union
    <2>6. Reports!PaymentRequest(p, Defaults) = request
      BY DEF Reports!PaymentRequest, partner, moves, taxed
    <2> HIDE DEF keys
    <2>7. DOMAIN request = keys
      OBVIOUS
    <2> HIDE DEF request
    <2>8. QED
      BY <2>4, <2>5, <2>6, <2>7 DEF IsRequest
  <1>6. IsRequest(Reports!BankRequest(p, Defaults.bank, Defaults))
    <2> DEFINE inbound == p.direction = "inbound"
               amount == p.amount - withheld
               bank == Reports!Plain(Defaults.bank, Reports!Sided(amount, inbound))
               moves == Reports!Plain(Defaults[IF inbound THEN "outstanding_receipts" ELSE "outstanding_payments"],
                                      Reports!Sided(amount, ~inbound))
               keys == {Reports!Only("bank"), Reports!Only("moves")}
               request == [k \in keys |-> IF k[1] = "bank" THEN bank ELSE moves]
    <2>1. amount \in Int
      BY <1>1
    <2>2. IsRequestLine(bank) /\ IsRequestLine(moves)
      <3> HIDE DEF amount
      <3>1. QED
        BY <2>1, <1>2, <1>4
    <2>3. Reports!BankRequest(p, Defaults.bank, Defaults) = request
      BY DEF Reports!BankRequest
    <2> HIDE DEF bank, moves
    <2>4. \A k \in keys : IsRequestLine(request[k])
      BY <2>2
    <2>5. IsFiniteSet(keys)
      BY PairFinite
    <2> HIDE DEF keys
    <2>6. DOMAIN request = keys
      OBVIOUS
    <2> HIDE DEF request
    <2>7. QED
      BY <2>3, <2>4, <2>5, <2>6 DEF IsRequest
  <1>7. QED
    BY <1>5, <1>6

-----------------------------------------------------------------------------
(* The rate an entry is posted at, and the lines as they are stored.       *)
LEMMA LatestExists ==
  ASSUME NEW Q, IsFiniteSet(Q), Q # {}, \A q \in Q : q.day \in CalendarDates
  PROVE  \E q \in Q : \A r \in Q : NotAfter(r.day, q.day)
  <1> DEFINE Good == {T \in SUBSET Q : T # {} => \E q \in T : \A r \in T : NotAfter(r.day, q.day)}
  <1>1. ASSUME NEW T \in SUBSET Q, \A x \in T : T \ {x} \in Good PROVE T \in Good
    <2>1. SUFFICES ASSUME T # {} PROVE \E q \in T : \A r \in T : NotAfter(r.day, q.day)
      OBVIOUS
    <2>2. PICK x \in T : TRUE
      BY <2>1
    <2>3. CASE T \ {x} = {}
      <3>1. T = {x}
        BY <2>3
      <3>2. NotAfter(x.day, x.day)
        BY NotAfterReflexive
      <3>3. QED
        BY <3>1, <3>2
    <2>4. CASE T \ {x} # {}
      <3>1. PICK q \in T \ {x} : \A r \in T \ {x} : NotAfter(r.day, q.day)
        BY <1>1, <2>4
      <3>2. CASE NotAfter(x.day, q.day)
        <4>1. \A r \in T : NotAfter(r.day, q.day)
          BY <3>1, <3>2
        <4>2. QED
          BY <4>1
      <3>3. CASE NotAfter(q.day, x.day)
        <4>1. \A r \in T : NotAfter(r.day, x.day)
          <5>1. TAKE r \in T
          <5>2. CASE r = x
            BY <5>2, NotAfterReflexive
          <5>3. CASE r # x
            <6>1. NotAfter(r.day, q.day) /\ r.day \in CalendarDates /\ q.day \in CalendarDates /\ x.day \in CalendarDates
              BY <3>1, <5>3
            <6>2. QED
              BY <3>3, <6>1, NotAfterTransitive
          <5>4. QED
            BY <5>2, <5>3
        <4>2. QED
          BY <4>1
      <3>4. QED
        BY <3>2, <3>3, NotAfterTotal
    <2>5. QED
      BY <2>3, <2>4
  <1>2. Good \in SUBSET SUBSET Q
    OBVIOUS
  <1>3. \A T \in SUBSET Q : (\A x \in T : T \ {x} \in Good) => T \in Good
    BY <1>1
  <1>4. Q \in Good
    <2> HIDE DEF Good
    <2>1. QED
      BY <1>2, <1>3, FiniteInduction
  <1>5. QED
    BY <1>4

LEMMA SameOrder == ASSUME NEW c, NEW d PROVE Reports!NotAfter(c, d) <=> NotAfter(c, d)
  BY DEF Reports!NotAfter, NotAfter

LEMMA RateGiven ==
  ASSUME Reports!Quoted, NEW currency, NEW on, Reports!HasRate(currency, on)
  PROVE  Reports!GetRate(currency, on).of \in Int /\ Reports!GetRate(currency, on).per \in Nat \ {0}
  <1>1. CASE currency = Base
    BY <1>1 DEF Reports!GetRate
  <1>2. CASE currency # Base
    <2> PICK Q : Q = Reports!QuotesBy(currency, on)
      OBVIOUS
    <2>1. Q # {} /\ Q \in SUBSET quotes
      BY <1>2 DEF Reports!HasRate, Reports!QuotesBy
    <2>2. IsFiniteSet(Q)
      BY <2>1, SameFinite, FS_Subset DEF Reports!Quoted
    <2>3. \A q \in Q : q.day \in BusinessDays /\ q.of \in Int /\ q.per \in Nat \ {0}
      BY <2>1, SameDates DEF Reports!Quoted, Reports!IsQuote
    <2>4. \A q \in Q : q.day \in CalendarDates
      BY <2>3 DEF BusinessDays
    <2>5. \E q \in Q : \A r \in Q : Reports!NotAfter(r.day, q.day)
      BY <2>1, <2>2, <2>4, LatestExists, SameOrder
    <2>6. Reports!GetRate(currency, on) \in Q
      BY <1>2, <2>5 DEF Reports!GetRate
    <2>7. QED
      BY <2>3, <2>6
  <1>3. QED
    BY <1>1, <1>2

IsStoredLine(l) ==
  l.account \in DOMAIN Accounts /\ l.amount \in Int /\ l.currency \in Int /\ l.base \in Int \cup {Null}

LEMMA StoredLines ==
  ASSUME NEW lines, IsRequest(lines), NEW rate, rate.of \in Int, rate.per \in Nat \ {0},
         NEW rounding \in DOMAIN Accounts, Null \notin DOMAIN Accounts \cup Int,
         NEW stored, stored = Reports!ConvertLines(lines, rate, rounding)
  PROVE  IsFiniteSet(DOMAIN stored) /\ \A k \in DOMAIN stored : IsStoredLine(stored[k])
  <1> DEFINE converted == Reports!Converted(lines, rate)
  <1>1. DOMAIN converted = DOMAIN lines /\ \A k \in DOMAIN lines : IsStoredLine(converted[k])
    <2>1. DOMAIN converted = DOMAIN lines
      BY DEF Reports!Converted
    <2>2. ASSUME NEW k \in DOMAIN lines PROVE IsStoredLine(converted[k])
      <3>1. lines[k].account \in DOMAIN Accounts /\ lines[k].amount \in Int /\ lines[k].base \in Int \cup {Null}
        BY DEF IsRequest, IsRequestLine
      <3>2. lines[k].amount * rate.of \in Int
        BY <3>1
      <3>3. Reports!Rounded(lines[k].amount * rate.of, rate.per) \in Int
        BY <3>2, RoundedInt
      <3>4. QED
        BY <3>1, <3>3 DEF IsStoredLine, Reports!Converted, Reports!Stored
    <2>3. QED
      BY <2>1, <2>2
  <1> HIDE DEF converted
  <1> PICK difference : difference = Reports!RoundingDifference(lines, rate)
    OBVIOUS
  <1>2. difference \in Int
    <2> PICK f : f = [k \in DOMAIN converted |-> converted[k].amount]
      OBVIOUS
    <2>1. \A k \in DOMAIN lines : f[k] \in Int
      BY <1>1 DEF IsStoredLine
    <2>2. Reports!SumFunctionOnSet(f, DOMAIN lines) \in Int
      BY <2>1, SumOfIntegers DEF IsRequest
    <2>3. difference = Reports!SumFunctionOnSet(f, DOMAIN converted)
      BY DEF Reports!RoundingDifference, Reports!Total, converted
    <2>4. QED
      BY <1>1, <2>2, <2>3
  <1>3. CASE difference = 0
    BY <1>1, <1>3 DEF Reports!ConvertLines, IsRequest, converted
  <1>4. CASE difference # 0
    <2> DEFINE line == Reports!Stored(Reports!Plain(rounding, 0), -difference)
               last == [line EXCEPT !.currency = 0]
               keys == DOMAIN lines \cup {Reports!Only("rounding")}
    <2>1. IsStoredLine(last)
      <3>1. /\ DOMAIN line = {"account", "amount", "currency", "tax", "tag", "base"}
            /\ line.account = rounding /\ line.amount = -difference /\ line.base = Null
        BY DEF Reports!Stored, Reports!Plain
      <3> HIDE DEF line
      <3>2. last.account = rounding /\ last.amount = -difference /\ last.base = Null /\ last.currency = 0
        BY <3>1
      <3> HIDE DEF last
      <3>3. QED
        BY <1>2, <3>2 DEF IsStoredLine
    <2>2. stored = [k \in keys |-> IF k = Reports!Only("rounding") THEN last ELSE converted[k]]
      BY <1>4 DEF Reports!ConvertLines, converted
    <2> HIDE DEF last
    <2>3. \A k \in keys : IsStoredLine(stored[k])
      BY <1>1, <2>1, <2>2
    <2>4. IsFiniteSet(keys)
      BY FS_AddElement DEF IsRequest
    <2> HIDE DEF keys
    <2>5. DOMAIN stored = keys
      BY <2>2
    <2>6. QED
      BY <2>3, <2>4, <2>5
  <1>5. QED
    BY <1>3, <1>4

-----------------------------------------------------------------------------
(* An entry that joins the books, with lines that balance.                 *)
Joins(new, fresh) ==
  /\ DOMAIN new = {"source", "reverses", "date", "journal"}
  /\ \A e \in entries : e.source # new.source
  /\ IsFiniteSet(fresh) /\ \A l \in fresh : IsPosted(l) /\ l.source = new.source
  /\ \A k, l \in fresh : k.date = l.date /\ (k.number = l.number => k = l)
  /\ Sum(fresh, Amount) = 0
  /\ new.reverses = Null => new.source # Null /\ new.source[1] # "reversal"
  /\ new.reverses # Null =>
       /\ \E o \in entries : o.source = new.reverses /\ o.reverses = Null
       /\ new.source = <<"reversal", new.reverses>>
       /\ fresh = {OppositeFor(new.source, l) : l \in LinesOf(new.reverses)}

LEMMA EntryJoins ==
  ASSUME Booked, Recorded, Reversals, NEW new, NEW fresh, Joins(new, fresh),
         entries' = entries \cup {new}, posted' = posted \cup fresh, startMonth' = startMonth
  PROVE  Booked' /\ Recorded' /\ Reversals'
  <1>1. \A l \in posted : l.source # new.source
    BY DEF Recorded, Joins
  <1>2. LinesOf(new.source)' = fresh
    BY <1>1 DEF LinesOf, Joins
  <1>3. \A s : s # new.source => LinesOf(s)' = LinesOf(s)
    BY DEF LinesOf, Joins
  <1>4. Booked'
    <2>1. startMonth' \in 1..12
      BY DEF Booked
    <2>2. IsFiniteSet(posted') /\ \A l \in posted' : IsPosted(l)
      BY FS_Union DEF Booked, Joins
    <2>3. \A k, l \in posted' : k.source = l.source => k.date = l.date
      BY <1>1 DEF Booked, Joins
    <2>4. ASSUME NEW l \in posted' PROVE Sum(LinesOf(l.source)', Amount) = 0
      <3>1. CASE l \in fresh
        <4>1. LinesOf(l.source)' = fresh
          BY <3>1, <1>2 DEF Joins
        <4>2. QED
          BY <4>1 DEF Sum, Amount, Joins
      <3>2. CASE l \in posted
        <4>1. LinesOf(l.source)' = LinesOf(l.source)
          BY <3>2, <1>1, <1>3
        <4>2. Sum(LinesOf(l.source), Amount) = 0
          BY <3>2 DEF Booked
        <4>3. QED
          BY <4>1, <4>2 DEF Sum, Amount
      <3>3. QED
        BY <3>1, <3>2
    <2>5. QED
      BY <2>1, <2>2, <2>3, <2>4 DEF Booked, Sum, Amount
  <1>5. Recorded'
    <2>1. \A e \in entries' : DOMAIN e = {"source", "reverses", "date", "journal"}
      BY DEF Recorded, Joins
    <2>2. \A l \in posted' : \E e \in entries' : e.source = l.source
      BY DEF Recorded, Joins
    <2>3. \A k, l \in posted' : k.source = l.source /\ k.number = l.number => k = l
      BY <1>1 DEF Recorded, Joins
    <2>4. QED
      BY <2>1, <2>2, <2>3 DEF Recorded
  <1>6. Reversals'
    <2>1. \A e \in entries' : e.reverses = Null => e.source # Null /\ e.source[1] # "reversal"
      BY DEF Reversals, Joins
    <2>2. ASSUME NEW e \in entries', e.reverses # Null
          PROVE  /\ \E o \in entries' : o.source = e.reverses /\ o.reverses = Null
                 /\ e.source = <<"reversal", e.reverses>>
                 /\ LinesOf(e.source)' = {OppositeFor(e.source, l) : l \in LinesOf(e.reverses)'}
      <3>1. CASE e = new
        <4>1. PICK o \in entries : o.source = e.reverses /\ o.reverses = Null
          BY <2>2, <3>1 DEF Joins
        <4>2. LinesOf(e.reverses)' = LinesOf(e.reverses)
          BY <1>3, <4>1 DEF Joins
        <4>3. LinesOf(e.source)' = {OppositeFor(e.source, l) : l \in LinesOf(e.reverses)}
          BY <1>2, <2>2, <3>1 DEF Joins
        <4>4. e.source = <<"reversal", e.reverses>>
          BY <2>2, <3>1 DEF Joins
        <4>5. QED
          BY <4>1, <4>2, <4>3, <4>4
      <3>2. CASE e \in entries
        <4>1. PICK o \in entries : o.source = e.reverses /\ o.reverses = Null
          BY <2>2, <3>2 DEF Reversals
        <4>2. LinesOf(e.reverses)' = LinesOf(e.reverses) /\ LinesOf(e.source)' = LinesOf(e.source)
          BY <1>3, <3>2, <4>1 DEF Joins
        <4>3. LinesOf(e.source) = {OppositeFor(e.source, l) : l \in LinesOf(e.reverses)} /\ e.source = <<"reversal", e.reverses>>
          BY <2>2, <3>2 DEF Reversals
        <4>4. QED
          BY <4>1, <4>2, <4>3
      <3>3. QED
        BY <3>1, <3>2
    <2>3. QED
      BY <2>1, <2>2 DEF Reversals
  <1>7. QED
    BY <1>4, <1>5, <1>6

(* post                                                                    *)
LEMMA PostKeeps ==
  ASSUME Reports!ReportsAssumption, Booked, Recorded, Reversals, Reports!Quoted,
         NEW source, source # Null, source[1] # "reversal", NEW on \in BookDays, NEW currency, NEW journal,
         NEW lines, IsRequest(lines), Reports!Post(source, on, currency, journal, lines)
  PROVE  Booked' /\ Recorded' /\ Reversals'
  <1> PICK rate : rate = Reports!GetRate(currency, on)
    OBVIOUS
  <1> PICK stored : stored = Reports!ConvertLines(lines, rate, Defaults.rounding)
    OBVIOUS
  <1> PICK S : S = DOMAIN stored
    OBVIOUS
  <1> DEFINE new == [source |-> source, reverses |-> Null, date |-> on, journal |-> journal]
             Line(i) == Reports!Dated(stored[i], source, i, on, journal)
  <1>1. IsFiniteSet(S) /\ \A i \in S : IsStoredLine(stored[i])
    <2>1. rate.of \in Int /\ rate.per \in Nat \ {0}
      BY RateGiven DEF Reports!Post
    <2>2. Defaults.rounding \in DOMAIN Accounts
      BY DEF Reports!ReportsAssumption, Reports!DefaultNames
    <2>3. Null \notin DOMAIN Accounts \cup Int
      BY StatementsAssumption DEF StatementsAssumption
    <2>4. QED
      BY <2>1, <2>2, <2>3, StoredLines
  <1>2. on \in BusinessDays
    BY StatementsAssumption DEF StatementsAssumption
  <1>3. \A i \in S :
          /\ IsPosted(Line(i)) /\ Line(i).source = source /\ Line(i).date = on
          /\ Line(i).number = i /\ Line(i).amount = stored[i].amount
    BY <1>1, <1>2 DEF IsPosted, Reports!Dated, IsStoredLine
  <1> PICK line : line = [i \in S |-> Line(i)]
    OBVIOUS
  <1> PICK fresh : fresh = ImageOf(line, S)
    OBVIOUS
  <1>4. posted' = posted \cup fresh /\ entries' = entries \cup {new} /\ startMonth' = startMonth
    <2>1. {Line(i) : i \in S} = fresh
      BY DEF ImageOf
    <2>2. posted' = posted \cup {Line(i) : i \in S}
      BY DEF Reports!Post
    <2>3. QED
      BY <2>1, <2>2 DEF Reports!Post
  <1>5. \A i \in S :
          /\ IsPosted(line[i]) /\ line[i].source = source /\ line[i].date = on
          /\ line[i].number = i /\ line[i].amount = stored[i].amount
    BY <1>3
  <1> HIDE DEF Line
  <1>6. IsFiniteSet(fresh)
    BY <1>1, ImageFinite
  <1>7. /\ \A k, l \in fresh : k.number = l.number => k = l
        /\ \A l \in fresh : IsPosted(l) /\ l.source = source /\ l.date = on
    BY <1>5 DEF ImageOf
  <1>8. Sum(fresh, Amount) = 0
    <2> DEFINE f == [l \in fresh |-> l.amount]
               h == [i \in S |-> stored[i].amount]
    <2>1. \A i \in S : h[i] = f[line[i]] /\ h[i] \in Int
      BY <1>1, <1>5 DEF IsStoredLine, ImageOf
    <2>2. \A i, j \in S : i # j => line[i] # line[j]
      BY <1>5
    <2>3. Reports!SumFunctionOnSet(h, S) = 0
      BY DEF Reports!Post, Reports!Storable, Reports!Total
    <2>4. Sum(fresh, Amount) = SumFunctionOnSet(f, fresh)
      BY DEF Sum, Amount
    <2> HIDE DEF f, h
    <2>5. SumFunctionOnSet(f, fresh) = SumFunctionOnSet(h, S)
      BY <1>1, <2>1, <2>2, SumImage
    <2>6. QED
      BY <2>3, <2>4, <2>5, SameSum
  <1>9. \A e \in entries : e.source # source
    BY DEF Reports!Post, Reports!Posted
  <1>10. Joins(new, fresh)
    <2>1. /\ DOMAIN new = {"source", "reverses", "date", "journal"}
          /\ new.source = source /\ new.reverses = Null
      OBVIOUS
    <2> HIDE DEF new
    <2>2. QED
      BY <1>6, <1>7, <1>8, <1>9, <2>1 DEF Joins, Sum, Amount
  <1> HIDE DEF new
  <1>11. QED
    BY <1>4, <1>10, EntryJoins

-----------------------------------------------------------------------------
(* The lines of a reversal.                                                *)
IsOppositeOf(m, source, l) ==
  /\ IsPosted(m) /\ m.source = source /\ m.number = l.number /\ m.date = l.date
  /\ m.account = l.account /\ m.tag = l.tag /\ m.base = l.base
  /\ m.amount = -l.amount /\ m.currency = -l.currency

LEMMA OppositeLine ==
  ASSUME NEW l, IsPosted(l), NEW source
  PROVE  IsOppositeOf(OppositeFor(source, l), source, l)
  <1> DEFINE o == Opposite(l)
             m == [o EXCEPT !.source = source]
  <1>1. /\ DOMAIN o = DOMAIN l /\ o.amount = -l.amount /\ o.currency = -l.currency
        /\ o.number = l.number /\ o.date = l.date /\ o.account = l.account /\ o.tag = l.tag /\ o.base = l.base
    BY DEF IsPosted, Opposite
  <1> HIDE DEF o
  <1>2. DOMAIN l = {"source", "number", "date", "journal", "account", "amount", "currency", "tax", "tag", "base"}
    BY DEF IsPosted
  <1>3. /\ DOMAIN m = DOMAIN l /\ m.source = source /\ m.amount = o.amount /\ m.currency = o.currency
        /\ m.number = o.number /\ m.date = o.date /\ m.account = o.account /\ m.tag = o.tag /\ m.base = o.base
    BY <1>1, <1>2
  <1>4. OppositeFor(source, l) = m
    BY DEF OppositeFor, o
  <1> HIDE DEF m
  <1>5. l.account \in DOMAIN Accounts /\ l.date \in BusinessDays /\ -l.amount \in Int /\ -l.currency \in Int /\ l.base \in Int \cup {Null}
    BY DEF IsPosted
  <1>6. QED
    BY <1>1, <1>2, <1>3, <1>4, <1>5 DEF IsOppositeOf, IsPosted

LEMMA EntryOfLines == ASSUME Booked, NEW s PROVE Sum(LinesOf(s), Amount) = 0 /\ LinesOf(s) \in SUBSET posted /\ IsFiniteSet(LinesOf(s))
  <1>1. LinesOf(s) \in SUBSET posted
    BY DEF LinesOf
  <1>2. IsFiniteSet(LinesOf(s))
    BY <1>1, FS_Subset DEF Booked
  <1>3. Sum(LinesOf(s), Amount) = 0
    <2>1. CASE LinesOf(s) = {}
      <3>1. Balance({}) = 0
        BY SumEmpty DEF Balance
      <3>2. Sum(LinesOf(s), Amount) = Balance(LinesOf(s))
        BY <1>1, SumsOfLines DEF Sum, Amount
      <3>3. QED
        BY <2>1, <3>1, <3>2 DEF Sum, Amount
    <2>2. CASE LinesOf(s) # {}
      <3>1. PICK l \in posted : l.source = s
        BY <2>2 DEF LinesOf
      <3>2. Sum(LinesOf(l.source), Amount) = 0
        BY DEF Booked, Sum, Amount
      <3>3. QED
        BY <3>1, <3>2 DEF Sum, Amount
    <2>3. QED
      BY <2>1, <2>2
  <1>4. QED
    BY <1>1, <1>2, <1>3 DEF Sum, Amount

LEMMA SameOpposite ==
  ASSUME NEW source, NEW l
  PROVE  Reports!OppositeFor(source, l) = OppositeFor(source, l)
  BY DEF Reports!OppositeFor, OppositeFor, Reports!Opposite, Opposite

(* cancel                                                                  *)
LEMMA CancelKeeps ==
  ASSUME Booked, Recorded, Reversals, NEW e \in entries, Reports!Cancel(e)
  PROVE  Booked' /\ Recorded' /\ Reversals'
  <1> PICK s : s = <<"reversal", e.source>>
    OBVIOUS
  <1> DEFINE new == [e EXCEPT !.source = s, !.reverses = e.source]
  <1> PICK T : T = LinesOf(e.source)
    OBVIOUS
  <1> PICK g : g = [l \in T |-> OppositeFor(s, l)]
    OBVIOUS
  <1> PICK fresh : fresh = ImageOf(g, T)
    OBVIOUS
  <1>1. T \in SUBSET posted /\ IsFiniteSet(T) /\ Sum(T, Amount) = 0
    BY EntryOfLines DEF Sum, Amount
  <1>2. e.reverses = Null /\ \A r \in entries : r.reverses # e.source
    BY DEF Reports!Cancel, Reports!Reversed
  <1>3. e.source # Null
    BY <1>2 DEF Reversals
  <1>4. DOMAIN new = {"source", "reverses", "date", "journal"} /\ new.source = s /\ new.reverses = e.source
    <2>1. DOMAIN e = {"source", "reverses", "date", "journal"}
      BY DEF Recorded
    <2>2. QED
      BY <2>1
  <1>5. {OppositeFor(s, l) : l \in T} = fresh
    BY DEF ImageOf
  <1>6. entries' = entries \cup {new} /\ posted' = posted \cup fresh /\ startMonth' = startMonth
    <2>1. T = Reports!LinesOf(e.source)
      BY DEF LinesOf, Reports!LinesOf
    <2>2. {Reports!OppositeFor(s, l) : l \in T} = fresh
      BY <1>5, SameOpposite
    <2>3. QED
      BY <2>1, <2>2 DEF Reports!Cancel
  <1> HIDE DEF new
  <1>7. \A l \in T : IsOppositeOf(g[l], s, l)
    BY <1>1, OppositeLine DEF Booked
  <1>8. \A k, l \in T : (k.number = l.number => k = l) /\ k.date = l.date
    BY DEF Recorded, Booked, LinesOf
  <1>9. /\ \A l \in fresh : IsPosted(l) /\ l.source = s
        /\ \A k, l \in fresh : k.date = l.date /\ (k.number = l.number => k = l)
    BY <1>7, <1>8 DEF ImageOf, IsOppositeOf
  <1>10. Sum(fresh, Amount) = 0
    <2> DEFINE f == [l \in fresh |-> l.amount]
               h == [l \in T |-> -l.amount]
               i == [l \in T |-> l.amount]
    <2>1. \A l \in T : l.amount \in Int /\ g[l].amount = -l.amount
      BY <1>1, <1>7 DEF Booked, IsPosted, IsOppositeOf
    <2>2. \A l \in T : h[l] = f[g[l]] /\ h[l] \in Int
      BY <2>1 DEF ImageOf
    <2>3. \A k, l \in T : k # l => g[k] # g[l]
      BY <1>7, <1>8 DEF IsOppositeOf
    <2>4. IntOn(i, T) /\ \A l \in T : h[l] = -i[l]
      BY <2>1 DEF IntOn
    <2>5. Sum(fresh, Amount) = SumFunctionOnSet(f, fresh) /\ SumFunctionOnSet(i, T) = 0
      BY <1>1 DEF Sum, Amount
    <2> HIDE DEF f, h, i
    <2>6. SumFunctionOnSet(f, fresh) = SumFunctionOnSet(h, T)
      BY <1>1, <2>2, <2>3, SumImage
    <2>7. SumFunctionOnSet(h, T) = -SumFunctionOnSet(i, T)
      BY <1>1, <2>4, SumNegated
    <2>8. QED
      BY <2>5, <2>6, <2>7
  <1>11. \A r \in entries : r.source # s
    <2>1. SUFFICES ASSUME NEW r \in entries, r.source = s PROVE FALSE
      OBVIOUS
    <2>2. CASE r.reverses = Null
      BY <2>1, <2>2 DEF Reversals
    <2>3. CASE r.reverses # Null
      <3>1. <<"reversal", r.reverses>> = <<"reversal", e.source>>
        BY <2>1, <2>3 DEF Reversals
      <3>2. QED
        BY <1>2, <3>1
    <2>4. QED
      BY <2>2, <2>3
  <1>12. Joins(new, fresh)
    <2>1. IsFiniteSet(fresh)
      BY <1>1, ImageFinite
    <2>2. new.reverses # Null =>
            /\ \E o \in entries : o.source = new.reverses /\ o.reverses = Null
            /\ new.source = <<"reversal", new.reverses>>
            /\ fresh = {OppositeFor(new.source, l) : l \in LinesOf(new.reverses)}
      <3>1. new.source = <<"reversal", new.reverses>> /\ \E o \in entries : o.source = new.reverses /\ o.reverses = Null
        BY <1>2, <1>4
      <3>2. fresh = {OppositeFor(new.source, l) : l \in LinesOf(new.reverses)}
        BY <1>4, <1>5
      <3>3. QED
        BY <3>1, <3>2
    <2>3. new.reverses # Null
      BY <1>3, <1>4
    <2>4. \A r \in entries : r.source # new.source
      BY <1>4, <1>11
    <2>5. \A l \in fresh : IsPosted(l) /\ l.source = new.source
      BY <1>4, <1>9
    <2>6. QED
      BY <1>4, <1>9, <1>10, <2>1, <2>2, <2>3, <2>4, <2>5 DEF Joins, Sum, Amount
  <1>13. QED
    BY <1>6, <1>12, EntryJoins

-----------------------------------------------------------------------------
(* A reversed entry leaves nothing.                                        *)
LEMMA OppositesLeaveNothing ==
  ASSUME NEW T, IsFiniteSet(T), NEW g, NEW f, IntOn(f, T),
         \A k, l \in T : k # l => g[k] # g[l],
         \A l \in T : f[g[l]] = -f[l] /\ g[l] \notin T
  PROVE  SumFunctionOnSet(f, T \cup ImageOf(g, T)) = 0
  <1> PICK U : U = ImageOf(g, T)
    OBVIOUS
  <1> PICK h : \A l \in T : h[l] = -f[l]
    <2>1. \A l \in T : [k \in T |-> -f[k]][l] = -f[l]
      OBVIOUS
    <2>2. QED
      BY <2>1
  <1>1. \A l \in T : h[l] = f[g[l]] /\ h[l] \in Int /\ h[l] = -f[l]
    BY DEF IntOn
  <1>2. SumFunctionOnSet(f, U) = SumFunctionOnSet(h, T)
    BY <1>1, SumImage
  <1>3. SumFunctionOnSet(h, T) = -SumFunctionOnSet(f, T)
    BY <1>1, SumNegated
  <1>4. IsFiniteSet(U) /\ T \cap U = {} /\ IntOn(f, T \cup U)
    <2>1. IsFiniteSet(U)
      BY ImageFinite
    <2>2. \A u \in U : u \notin T /\ f[u] \in Int
      BY <1>1 DEF ImageOf
    <2>3. QED
      BY <2>1, <2>2 DEF IntOn
  <1>5. SumFunctionOnSet(f, T \cup U) = SumFunctionOnSet(f, T) + SumFunctionOnSet(f, U)
    BY <1>4, SumSplit
  <1>6. SumFunctionOnSet(f, T) \in Int
    BY SumInt
  <1>7. QED
    BY <1>2, <1>3, <1>5, <1>6

(* Each of an entry's lines with the one that takes it back.               *)
TakenBackBy(g, T, r) ==
  /\ \A l \in T : IsOppositeOf(g[l], r.source, l) /\ l.source # r.source
  /\ \A k, l \in T : k # l => g[k] # g[l]
  /\ LinesOf(r.source) = ImageOf(g, T)
  /\ IsFiniteSet(T) /\ T \in SUBSET posted

LEMMA ReversalLines ==
  ASSUME Booked, Recorded, Reversals, NEW r \in entries, r.reverses # Null
  PROVE  \E g : TakenBackBy(g, LinesOf(r.reverses), r)
  <1> PICK T : T = LinesOf(r.reverses)
    OBVIOUS
  <1> PICK g : g = [l \in T |-> OppositeFor(r.source, l)]
    OBVIOUS
  <1>1. T \in SUBSET posted /\ IsFiniteSet(T)
    BY EntryOfLines DEF Sum, Amount
  <1>2. \A l \in T : IsOppositeOf(g[l], r.source, l)
    BY <1>1, OppositeLine DEF Booked
  <1>3. r.source # r.reverses
    <2>1. PICK o \in entries : o.source = r.reverses /\ o.reverses = Null
      BY DEF Reversals
    <2>2. o.source[1] # "reversal"
      BY <2>1 DEF Reversals
    <2>3. r.source = <<"reversal", r.reverses>>
      BY DEF Reversals
    <2>4. QED
      BY <2>1, <2>2, <2>3
  <1>4. \A l \in T : l.source # r.source
    BY <1>3 DEF LinesOf
  <1>5. \A k, l \in T : k # l => g[k] # g[l]
    <2>1. \A k, l \in T : k.number = l.number => k = l
      BY DEF Recorded, LinesOf
    <2>2. QED
      BY <1>2, <2>1 DEF IsOppositeOf
  <1>6. LinesOf(r.source) = ImageOf(g, T)
    BY DEF Reversals, ImageOf
  <1>7. TakenBackBy(g, T, r)
    BY <1>1, <1>2, <1>4, <1>5, <1>6 DEF TakenBackBy
  <1>8. QED
    BY <1>7

LEMMA CancelledDoLeaveNothing ==
  ASSUME Booked, Recorded, Reversals
  PROVE  CancelledLeavesNothing
  <1> SUFFICES ASSUME NEW r \in entries, r.reverses # Null,
                      NEW both, both = {l \in posted : l.source \in {r.source, r.reverses}}
               PROVE  /\ \A a \in DOMAIN Accounts :
                           LET mine == {l \in both : l.account = a}
                           IN Sum(mine, Amount) = 0 /\ Sum(mine, LAMBDA l : l.currency) = 0
                      /\ \A tag \in DOMAIN Boxes : Sum({l \in both : l.tag = tag /\ l.amount # 0}, CreditNet) = 0
    BY DEF CancelledLeavesNothing
  <1> PICK T : T = LinesOf(r.reverses)
    OBVIOUS
  <1> PICK g : TakenBackBy(g, T, r)
    BY ReversalLines
  <1>1. /\ \A l \in T : IsOppositeOf(g[l], r.source, l) /\ l.source # r.source
        /\ \A k, l \in T : k # l => g[k] # g[l]
        /\ LinesOf(r.source) = ImageOf(g, T)
        /\ IsFiniteSet(T) /\ T \in SUBSET posted
    BY DEF TakenBackBy
  <1>2. \A l \in T : /\ l.amount \in Int /\ l.currency \in Int /\ l.base \in Int \cup {Null}
                     /\ g[l].source = r.source /\ g[l].account = l.account /\ g[l].tag = l.tag
                     /\ g[l].base = l.base /\ g[l].amount = -l.amount /\ g[l].currency = -l.currency
                     /\ g[l] \notin T
    BY <1>1 DEF IsOppositeOf, Booked, IsPosted
  <1>3. both = T \cup ImageOf(g, T)
    <2>1. both = LinesOf(r.reverses) \cup LinesOf(r.source)
      BY DEF LinesOf
    <2>2. QED
      BY <1>1, <2>1
  <1>4. ASSUME NEW U \in SUBSET T, NEW f, \A l \in U : f[l] \in Int /\ f[g[l]] = -f[l]
        PROVE  SumFunctionOnSet(f, U \cup ImageOf(g, U)) = 0
    <2>1. IsFiniteSet(U)
      BY <1>1, FS_Subset
    <2>2. \A k, l \in U : k # l => g[k] # g[l]
      BY <1>1
    <2>3. \A l \in U : f[g[l]] = -f[l] /\ g[l] \notin U
      BY <1>2, <1>4
    <2>4. IntOn(f, U)
      BY <1>4 DEF IntOn
    <2>5. QED
      BY <2>1, <2>2, <2>3, <2>4, OppositesLeaveNothing
  <1>5. ASSUME NEW a \in DOMAIN Accounts, NEW mine, mine = {l \in both : l.account = a}
        PROVE  Sum(mine, Amount) = 0 /\ Sum(mine, LAMBDA l : l.currency) = 0
    <2> PICK U \in SUBSET T : U = {l \in T : l.account = a}
      OBVIOUS
    <2>1. mine = U \cup ImageOf(g, U)
      BY <1>2, <1>3, <1>5 DEF ImageOf
    <2> DEFINE f == [l \in mine |-> l.amount]
               h == [l \in mine |-> l.currency]
    <2>2. \A l \in U : /\ f[l] \in Int /\ f[g[l]] = -f[l]
                       /\ h[l] \in Int /\ h[g[l]] = -h[l]
      BY <1>2, <2>1 DEF ImageOf
    <2> HIDE DEF f, h
    <2>3. SumFunctionOnSet(f, mine) = 0 /\ SumFunctionOnSet(h, mine) = 0
      BY <1>4, <2>1, <2>2
    <2>4. QED
      BY <2>3 DEF Sum, Amount, f, h
  <1>6. ASSUME NEW tag \in DOMAIN Boxes, NEW mine, mine = {l \in both : l.tag = tag /\ l.amount # 0}
        PROVE  Sum(mine, CreditNet) = 0
    <2> PICK U \in SUBSET T : U = {l \in T : l.tag = tag /\ l.amount # 0}
      OBVIOUS
    <2>1. mine = U \cup ImageOf(g, U)
      BY <1>2, <1>3, <1>6 DEF ImageOf
    <2> DEFINE f == [l \in mine |-> CreditNet(l)]
    <2>2. \A l \in U : f[l] \in Int /\ f[g[l]] = -f[l]
      <3>1. TAKE l \in U
      <3>2. f[l] = CreditNet(l) /\ f[g[l]] = CreditNet(g[l])
        BY <2>1 DEF ImageOf
      <3> HIDE DEF f
      <3>3. CreditNet(l) \in Int /\ CreditNet(g[l]) = -CreditNet(l)
        BY <1>2, StatementsAssumption DEF CreditNet, StatementsAssumption
      <3>4. QED
        BY <3>2, <3>3
    <2> HIDE DEF f
    <2>3. SumFunctionOnSet(f, mine) = 0
      BY <1>4, <2>1, <2>2
    <2>4. QED
      BY <2>3 DEF Sum, f
  <1>7. QED
    BY <1>5, <1>6 DEF Sum, Amount

-----------------------------------------------------------------------------
(* The periods.                                                            *)
(* First days of months, counted in months.                                *)
MonthIndex(d) == (12 * d.year) + d.month - 1
MonthStart(i) == Date(i \div 12, (i % 12) + 1, 1)

LEMMA MonthParts ==
  ASSUME NEW i \in Int
  PROVE  \E y \in Int, m \in 1..12 : y = i \div 12 /\ m = (i % 12) + 1 /\ i = (12 * y) + m - 1
  <1>1. i \div 12 \in Int /\ (i % 12) + 1 \in 1..12 /\ i = (12 * (i \div 12)) + ((i % 12) + 1) - 1
    OBVIOUS
  <1>2. QED
    BY <1>1, Zenon

LEMMA MonthStartIs ==
  ASSUME NEW y \in Int, NEW m \in 1..12
  PROVE  MonthStart((12 * y) + m - 1) = Date(y, m, 1)
  <1>1. ((12 * y) + m - 1) \div 12 = y /\ (((12 * y) + m - 1) % 12) + 1 = m
    OBVIOUS
  <1>2. QED
    BY <1>1 DEF MonthStart

LEMMA FirstDay ==
  ASSUME NEW y \in Int, NEW m \in 1..12
  PROVE  Date(y, m, 1) \in CalendarDates
  <1>1. 1 \in 1..MonthLength(y, m)
    BY MonthLengthBounds
  <1>2. QED
    BY <1>1 DEF CalendarDates, IsDate, Date

LEMMA MonthStartType ==
  ASSUME NEW i \in Int
  PROVE  MonthStart(i) \in CalendarDates /\ MonthIndex(MonthStart(i)) = i
  <1>1. PICK y \in Int, m \in 1..12 : y = i \div 12 /\ m = (i % 12) + 1 /\ i = (12 * y) + m - 1
    BY MonthParts
  <1>2. MonthStart(i) = Date(y, m, 1)
    BY <1>1 DEF MonthStart
  <1>3. MonthStart(i) \in CalendarDates
    BY <1>2, FirstDay
  <1>4. MonthIndex(MonthStart(i)) = (12 * y) + m - 1
    BY <1>2 DEF MonthIndex, Date
  <1>5. QED
    BY <1>1, <1>3, <1>4

LEMMA MonthIndexType ==
  ASSUME NEW d \in CalendarDates
  PROVE  MonthIndex(d) \in Int
  BY DateFields DEF MonthIndex

LEMMA StartNotAfter ==
  ASSUME NEW i \in Int, NEW d \in CalendarDates
  PROVE  NotAfter(MonthStart(i), d) <=> i <= MonthIndex(d)
  <1>1. PICK y \in Int, m \in 1..12 : y = i \div 12 /\ m = (i % 12) + 1 /\ i = (12 * y) + m - 1
    BY MonthParts
  <1>2. MonthStart(i) = Date(y, m, 1)
    BY <1>1 DEF MonthStart
  <1> PICK dy, dm, dk : dy = d.year /\ dm = d.month /\ dk = d.day
    OBVIOUS
  <1>3. dy \in Int /\ dm \in 1..12 /\ dk \in Int /\ 1 <= dk
    BY DateFields
  <1>4. NotAfter(MonthStart(i), d) <=> (y < dy \/ (y = dy /\ (m < dm \/ (m = dm /\ 1 <= dk))))
    BY <1>2 DEF NotAfter, Date
  <1>5. MonthIndex(d) = (12 * dy) + dm - 1
    BY DEF MonthIndex
  <1>6. QED
    BY <1>1, <1>3, <1>4, <1>5

LEMMA InOrderOfMonths ==
  ASSUME NEW c \in CalendarDates, NEW d \in CalendarDates, NotAfter(c, d)
  PROVE  MonthIndex(c) <= MonthIndex(d)
  BY DateFields DEF MonthIndex, NotAfter

LEMMA DaysInIs ==
  ASSUME NEW y \in Int, NEW m \in 1..12
  PROVE  DaysIn(y, m) \in Int /\ DaysIn(y, m) >= 1
  <1>0. DaysBefore(y, m) \in Int /\ NewYear(y) \in Int /\ NewYear(y + 1) \in Int /\ MonthLength(y, m) \in 28..31
    <2>1. DaysBefore(y, m) \in Int
      BY MonthFigures
    <2>2. y + 1 \in Int /\ NewYear(y) \in Int
      BY NewYearType
    <2>3. NewYear(y + 1) \in Int
      BY <2>2, NewYearType
    <2>4. MonthLength(y, m) \in 28..31
      BY MonthLengthBounds
    <2>5. QED
      BY <2>1, <2>2, <2>3, <2>4
  <1>1. Ordinal(Date(y, m, 1)) = NewYear(y) + DaysBefore(y, m) + 1
    BY OrdinalOf
  <1>2. CASE m < 12
    <2> PICK p \in 1..12 : p = m + 1
      BY <1>2
    <2>1. m % 12 = m
      BY <1>2
    <2>2. DaysIn(y, m) = Ordinal(Date(y, p, 1)) - Ordinal(Date(y, m, 1))
      <3>1. y + 0 = y /\ m # 12
        BY <1>2
      <3>2. QED
        BY <2>1, <3>1 DEF DaysIn, Between
    <2>3. Ordinal(Date(y, p, 1)) = NewYear(y) + DaysBefore(y, p) + 1
      BY OrdinalOf
    <2>4. DaysBefore(y, p) = DaysBefore(y, m) + MonthLength(y, m)
      BY <1>2, MonthsOfYear
    <2>5. QED
      BY <1>0, <1>1, <2>2, <2>3, <2>4
  <1>3. CASE m = 12
    <2> PICK z \in Int : z = y + 1
      OBVIOUS
    <2>1. DaysIn(y, m) = Ordinal(Date(z, 1, 1)) - Ordinal(Date(y, m, 1))
      BY <1>3 DEF DaysIn, Between
    <2>2. Ordinal(Date(z, 1, 1)) = NewYear(z) + DaysBefore(z, 1) + 1
      BY OrdinalOf
    <2>3. DaysBefore(z, 1) = 0
      BY MonthsOfYear
    <2>4. NewYear(z) = NewYear(y) + (IF Leap(y) THEN 366 ELSE 365)
      BY YearLength
    <2>5. DaysBefore(y, 12) + 31 = (IF Leap(y) THEN 366 ELSE 365)
      BY MonthsOfYear
    <2>6. QED
      BY <1>0, <1>1, <1>3, <2>1, <2>2, <2>3, <2>4, <2>5
  <1>4. QED
    BY <1>2, <1>3

LEMMA AddToStart ==
  ASSUME NEW i \in Int, NEW k \in Int
  PROVE  AddMonths(MonthStart(i), k) = MonthStart(i + k)
  <1>1. PICK y \in Int, m \in 1..12 : y = i \div 12 /\ m = (i % 12) + 1 /\ i = (12 * y) + m - 1
    BY MonthParts
  <1>2. MonthStart(i) = Date(y, m, 1)
    BY <1>1 DEF MonthStart
  <1> PICK total \in Int : total = m - 1 + k
    OBVIOUS
  <1>3. PICK years \in Int, n \in 1..12 : years = total \div 12 /\ n = (total % 12) + 1 /\ total = (12 * years) + n - 1
    BY MonthParts
  <1> PICK z \in Int : z = y + years
    OBVIOUS
  <1>4. AddMonths(MonthStart(i), k) = Date(z, n, IF 1 < DaysIn(z, n) THEN 1 ELSE DaysIn(z, n))
    BY <1>2, <1>3 DEF AddMonths, Date
  <1>5. (IF 1 < DaysIn(z, n) THEN 1 ELSE DaysIn(z, n)) = 1
    <2>1. DaysIn(z, n) \in Int /\ DaysIn(z, n) >= 1
      BY DaysInIs
    <2>2. \A x \in Int : x >= 1 => (IF 1 < x THEN 1 ELSE x) = 1
      OBVIOUS
    <2>3. QED
      BY <2>1, <2>2
  <1>6. i + k = (12 * z) + n - 1
    BY <1>1, <1>3
  <1>7. QED
    BY <1>4, <1>5, <1>6, MonthStartIs

(* The day before a month starts.                                          *)
LEMMA EndOfMonths ==
  ASSUME NEW j \in Int, j >= 24
  PROVE  /\ Plus(MonthStart(j), -1) \in CalendarDates
         /\ \A d \in CalendarDates : NotAfter(d, Plus(MonthStart(j), -1)) <=> MonthIndex(d) < j
         /\ Plus(Plus(MonthStart(j), -1), 1) = MonthStart(j)
         /\ Ordinal(Plus(MonthStart(j), -1)) = Ordinal(MonthStart(j)) - 1
         /\ MonthIndex(Plus(MonthStart(j), -1)) = j - 1
  <1>1. PICK y \in Int, m \in 1..12 : y = j \div 12 /\ m = (j % 12) + 1 /\ j = (12 * y) + m - 1
    BY MonthParts
  <1>2. MonthStart(j) = Date(y, m, 1) /\ y >= 2
    BY <1>1 DEF MonthStart
  <1>3. MonthStart(j) \in BusinessDays /\ MonthStart(j) # Beginning
    <2>1. Date(y, m, 1).year = y /\ Beginning.year = 1
      BY DEF Date, Beginning
    <2>2. QED
      BY <1>2, <2>1, FirstDay DEF BusinessDays
  <1> PICK last : last = Plus(MonthStart(j), -1)
    OBVIOUS
  <1>4. last = DayBefore(MonthStart(j))
    BY <1>3 DEF DayBefore
  <1>5. last \in CalendarDates /\ \A d \in CalendarDates : NotAfter(d, last) <=> ~NotAfter(MonthStart(j), d)
    BY <1>3, <1>4, DayBeforeIs
  <1>6. \A d \in CalendarDates : NotAfter(d, last) <=> MonthIndex(d) < j
    <2>1. SUFFICES ASSUME NEW d \in CalendarDates PROVE NotAfter(d, last) <=> MonthIndex(d) < j
      OBVIOUS
    <2>2. NotAfter(MonthStart(j), d) <=> j <= MonthIndex(d)
      BY StartNotAfter
    <2>3. MonthIndex(d) \in Int
      BY MonthIndexType
    <2>4. QED
      BY <1>5, <2>2, <2>3
  <1>7. MonthIndex(last) = j - 1
    <2> PICK i \in Int : i = j - 1
      OBVIOUS
    <2>1. MonthIndex(last) \in Int /\ MonthIndex(last) < j
      BY <1>5, <1>6, MonthIndexType, NotAfterReflexive
    <2>2. MonthStart(i) \in CalendarDates /\ MonthIndex(MonthStart(i)) = i
      BY MonthStartType
    <2>3. NotAfter(MonthStart(i), last)
      BY <1>6, <2>2
    <2>4. i <= MonthIndex(last)
      BY <1>5, <2>3, StartNotAfter
    <2>5. QED
      BY <2>1, <2>4
  <1>8. MonthLength(y, m) \in 28..31
    BY MonthLengthBounds
  <1>9. 1 <= 1 /\ 1 <= MonthLength(y, m) /\ y >= 1
    BY <1>2, <1>8
  <1>10. Ordinal(Date(y, m, 1)) \in Int
    <2>1. Ordinal(Date(y, m, 1)) = NewYear(y) + DaysBefore(y, m) + 1
      BY OrdinalOf
    <2>2. NewYear(y) \in Int /\ DaysBefore(y, m) \in Int
      BY NewYearType, MonthFigures
    <2>3. QED
      BY <2>1, <2>2
  <1>11. Ordinal(Previous(y, m, 1)) = Ordinal(Date(y, m, 1)) - 1
    BY <1>9, PreviousOrdinal
  <1>12. FromOrdinal(Ordinal(Previous(y, m, 1))) = Previous(y, m, 1)
    BY <1>2, <1>3, <1>9, PreviousDate
  <1>13. last = Previous(y, m, 1)
    <2>1. last = FromOrdinal(Ordinal(Date(y, m, 1)) + (-1))
      BY <1>2 DEF Plus
    <2>2. QED
      BY <1>10, <1>11, <1>12, <2>1
  <1>14. Ordinal(last) = Ordinal(MonthStart(j)) - 1
    BY <1>2, <1>11, <1>13
  <1>15. Plus(last, 1) = MonthStart(j)
    <2>1. Plus(last, 1) = FromOrdinal(Ordinal(last) + 1)
      BY DEF Plus
    <2>2. Ordinal(last) + 1 = Ordinal(Date(y, m, 1))
      BY <1>2, <1>10, <1>14
    <2>3. FromOrdinal(Ordinal(Date(y, m, 1))) = Date(y, m, 1)
      BY <1>9, FromOrdinalOf
    <2>4. QED
      BY <1>2, <2>1, <2>2, <2>3
  <1>16. QED
    BY <1>5, <1>6, <1>7, <1>14, <1>15

(* From the start of one month to the day before another starts.           *)
Months(i, j) == Period(MonthStart(i), Plus(MonthStart(j), -1))

LEMMA MonthsCover ==
  ASSUME NEW i \in Int, NEW j \in Int, j >= 24, NEW d \in CalendarDates
  PROVE  Covers(Months(i, j), d) <=> i <= MonthIndex(d) /\ MonthIndex(d) < j
  <1>1. Months(i, j).start = MonthStart(i) /\ Months(i, j).end = Plus(MonthStart(j), -1)
    BY DEF Months, Period
  <1>2. NotAfter(d, Plus(MonthStart(j), -1)) <=> MonthIndex(d) < j
    BY EndOfMonths
  <1>3. NotAfter(MonthStart(i), d) <=> i <= MonthIndex(d)
    BY StartNotAfter
  <1>4. QED
    BY <1>1, <1>2, <1>3 DEF Covers

(* Where the fiscal year of a day starts.                                  *)
FirstMonth(d) == (12 * FiscalYear(d, startMonth)) + startMonth - 1

LEMMA FirstMonthOf ==
  ASSUME startMonth \in 1..12, NEW d \in CalendarDates
  PROVE  /\ FirstMonth(d) \in Int /\ MonthIndex(d) \in Int
         /\ FirstMonth(d) <= MonthIndex(d) /\ MonthIndex(d) < FirstMonth(d) + 12
         /\ FirstMonth(d) >= (12 * (d.year - 1)) + startMonth - 1
  <1> PICK y, m : y = d.year /\ m = d.month
    OBVIOUS
  <1>1. y \in Int /\ m \in 1..12
    BY DateFields
  <1>2. FirstMonth(d) = (12 * (IF m >= startMonth THEN y ELSE y - 1)) + startMonth - 1
    BY DEF FirstMonth, FiscalYear
  <1>3. MonthIndex(d) = (12 * y) + m - 1
    BY DEF MonthIndex
  <1>4. QED
    BY <1>1, <1>2, <1>3

LEMMA SameFirstMonth ==
  ASSUME startMonth \in 1..12, NEW d \in CalendarDates, NEW c \in CalendarDates, NEW n \in Int
  PROVE  FirstMonth(d) = FirstMonth(c) + (12 * n)
           <=> FirstMonth(c) + (12 * n) <= MonthIndex(d) /\ MonthIndex(d) < FirstMonth(c) + (12 * n) + 12
  <1> PICK y \in Int, z \in Int : y = FiscalYear(d, startMonth) /\ z = FiscalYear(c, startMonth)
    <2>1. FiscalYear(d, startMonth) \in Int /\ FiscalYear(c, startMonth) \in Int
      BY DateFields DEF FiscalYear
    <2>2. QED
      BY <2>1, Zenon
  <1>1. FirstMonth(d) = (12 * y) + startMonth - 1 /\ FirstMonth(c) = (12 * z) + startMonth - 1
    BY DEF FirstMonth
  <1>2. MonthIndex(d) \in Int /\ FirstMonth(d) <= MonthIndex(d) /\ MonthIndex(d) < FirstMonth(d) + 12
    BY FirstMonthOf
  <1> PICK k \in Int, f \in Int, g \in Int : k = MonthIndex(d) /\ f = FirstMonth(d) /\ g = FirstMonth(c) + (12 * n)
    <2>1. FirstMonth(c) + (12 * n) \in Int /\ FirstMonth(d) \in Int
      BY <1>1
    <2>2. QED
      BY <1>2, <2>1, Zenon
  <1>3. f = (12 * y) + startMonth - 1 /\ g = (12 * (z + n)) + startMonth - 1
    BY <1>1
  <1>4. f <= k /\ k < f + 12
    BY <1>2
  <1>5. g <= k /\ k < g + 12 => y = z + n
    <2>1. \A e \in Int : -12 < 12 * e /\ 12 * e < 12 => e = 0
      OBVIOUS
    <2> PICK e \in Int : e = y - (z + n)
      OBVIOUS
    <2>2. startMonth \in Int
      OBVIOUS
    <2>3. f - g = 12 * e
      BY <1>3, <2>2
    <2>4. g <= k /\ k < g + 12 => -12 < f - g /\ f - g < 12
      BY <1>4
    <2>5. g <= k /\ k < g + 12 => e = 0
      BY <2>1, <2>3, <2>4
    <2>6. QED
      BY <2>5
  <1>6. f = g <=> g <= k /\ k < g + 12
    BY <1>3, <1>4, <1>5
  <1>7. QED
    BY <1>6

LEMMA FiscalYearIs ==
  ASSUME startMonth \in 1..12, NEW d \in CalendarDates
  PROVE  /\ FiscalYearBounds(d, startMonth) = Months(FirstMonth(d), FirstMonth(d) + 12)
         /\ YearStartOf(d) = MonthStart(FirstMonth(d))
  <1> PICK y \in Int : y = FiscalYear(d, startMonth)
    <2>1. FiscalYear(d, startMonth) \in Int
      BY DateFields DEF FiscalYear
    <2>2. QED
      BY <2>1, Zenon
  <1>1. MonthStart(FirstMonth(d)) = Date(y, startMonth, 1)
    BY MonthStartIs DEF FirstMonth
  <1>2. FiscalYearBounds(d, startMonth) = Period(Date(y, startMonth, 1), Plus(AddMonths(Date(y, startMonth, 1), 12), -1))
    BY DEF FiscalYearBounds
  <1>3. AddMonths(MonthStart(FirstMonth(d)), 12) = MonthStart(FirstMonth(d) + 12)
    BY FirstMonthOf, AddToStart
  <1>4. FiscalYearBounds(d, startMonth) = Months(FirstMonth(d), FirstMonth(d) + 12)
    BY <1>1, <1>2, <1>3 DEF Months
  <1>5. YearStartOf(d) = MonthStart(FirstMonth(d))
    BY <1>4 DEF YearStartOf, Months, Period
  <1>6. QED
    BY <1>4, <1>5

(* Every day from the first on is a date.                                  *)
LEMMA YearOfOrdinal ==
  ASSUME NEW n \in Int, n >= 1
  PROVE  \E y \in Int : y >= 1 /\ NewYear(y) < n /\ n <= NewYear(y + 1)
  <1> PICK T \in SUBSET Nat : T = {y \in Nat : n <= NewYear(y + 1)}
    OBVIOUS
  <1>1. n \in T
    <2>1. NewYear(n + 1) >= 365 * ((n + 1) - 1)
      BY NewYearBounds
    <2>2. NewYear(n + 1) \in Int
      BY NewYearType
    <2>3. QED
      BY <2>1, <2>2
  <1>2. PICK y \in T : \A z \in T : y <= z
    BY <1>1, NatMin
  <1>3. y # 0
    <2>1. NewYear(1) = 0
      BY DEF NewYear
    <2>2. QED
      BY <1>2, <2>1
  <1>4. NewYear(y) < n
    <2> PICK z \in Nat : z = y - 1
      BY <1>3
    <2>1. z \notin T /\ z + 1 = y
      BY <1>2
    <2>2. NewYear(y) \in Int
      BY NewYearType
    <2>3. QED
      BY <2>1, <2>2
  <1>5. QED
    BY <1>2, <1>3, <1>4

LEMMA MonthOfDay ==
  ASSUME NEW y \in Int, NEW r \in Int, 1 <= r, r <= (IF Leap(y) THEN 366 ELSE 365)
  PROVE  \E m \in 1..12 : DaysBefore(y, m) < r /\ r <= DaysBefore(y, m) + MonthLength(y, m)
  <1> PICK T : T = {m \in 1..12 : r <= DaysBefore(y, m) + MonthLength(y, m)}
    OBVIOUS
  <1>0. T \in SUBSET Nat
    OBVIOUS
  <1>1. 12 \in T
    <2>1. DaysBefore(y, 12) + 31 = (IF Leap(y) THEN 366 ELSE 365)
      BY MonthsOfYear
    <2>2. MonthLength(y, 12) = 31
      BY DEF MonthLength
    <2>3. QED
      BY <2>1, <2>2
  <1>2. PICK m \in T : \A k \in T : m <= k
    BY <1>0, <1>1, NatMin
  <1>3. CASE m = 1
    <2>1. DaysBefore(y, 1) = 0
      BY MonthsOfYear
    <2>2. QED
      BY <1>2, <1>3, <2>1
  <1>4. CASE m # 1
    <2> PICK p \in 1..12 : p = m - 1
      BY <1>2, <1>4
    <2>1. p < 12 /\ p + 1 = m /\ p \notin T
      BY <1>2
    <2>2. DaysBefore(y, p + 1) = DaysBefore(y, p) + MonthLength(y, p)
      BY <2>1, MonthsOfYear
    <2>3. DaysBefore(y, p) \in Int /\ MonthLength(y, p) \in Int
      BY MonthFigures
    <2>4. DaysBefore(y, m) < r
      BY <2>1, <2>2, <2>3
    <2>5. QED
      BY <1>2, <2>4
  <1>5. QED
    BY <1>3, <1>4

LEMMA OrdinalFrom ==
  ASSUME NEW n \in Int, n >= 1
  PROVE  Ordinal(FromOrdinal(n)) = n
  <1>1. PICK y \in Int : y >= 1 /\ NewYear(y) < n /\ n <= NewYear(y + 1)
    BY YearOfOrdinal
  <1>2. NewYear(y) \in Int /\ NewYear(y + 1) = NewYear(y) + (IF Leap(y) THEN 366 ELSE 365)
    BY NewYearType, YearLength
  <1> PICK r \in Int : r = n - NewYear(y)
    BY <1>2
  <1>3. 1 <= r /\ r <= (IF Leap(y) THEN 366 ELSE 365)
    BY <1>1, <1>2
  <1>4. PICK m \in 1..12 : DaysBefore(y, m) < r /\ r <= DaysBefore(y, m) + MonthLength(y, m)
    BY <1>3, MonthOfDay
  <1>5. DaysBefore(y, m) \in Int /\ MonthLength(y, m) \in Int
    BY MonthFigures
  <1> PICK k \in Int : k = r - DaysBefore(y, m)
    BY <1>5
  <1>6. 1 <= k /\ k <= MonthLength(y, m)
    BY <1>4, <1>5
  <1>7. Ordinal(Date(y, m, k)) = NewYear(y) + DaysBefore(y, m) + k
    BY OrdinalOf
  <1>8. Ordinal(Date(y, m, k)) = n
    BY <1>2, <1>5, <1>7
  <1>9. FromOrdinal(Ordinal(Date(y, m, k))) = Date(y, m, k)
    BY <1>1, <1>6, FromOrdinalOf
  <1>10. QED
    BY <1>8, <1>9

LEMMA OrdinalOfDate ==
  ASSUME NEW d \in CalendarDates
  PROVE  /\ Ordinal(d) \in Int /\ NewYear(d.year) \in Int /\ NewYear(d.year + 1) \in Int
         /\ NewYear(d.year) < Ordinal(d) /\ Ordinal(d) <= NewYear(d.year + 1)
  <1> PICK y, m, k : y = d.year /\ m = d.month /\ k = d.day
    OBVIOUS
  <1>1. y \in Int /\ m \in 1..12 /\ k \in Int /\ 1 <= k /\ k <= MonthLength(y, m) /\ d = Date(y, m, k)
    BY DateFields
  <1>2. Ordinal(d) = NewYear(y) + DaysBefore(y, m) + k
    BY <1>1, OrdinalOf
  <1>3. NewYear(y) \in Int /\ DaysBefore(y, m) \in Int
    BY <1>1, NewYearType, MonthFigures
  <1>4. y + 1 \in Int
    BY <1>1
  <1>5. NewYear(y + 1) \in Int
    BY <1>4, NewYearType
  <1>6. NewYear(y) < NewYear(y) + DaysBefore(y, m) + k /\ NewYear(y) + DaysBefore(y, m) + k <= NewYear(y + 1)
    BY <1>1, WithinYear
  <1> PICK n : n = Ordinal(d)
    OBVIOUS
  <1> PICK a \in Int, e \in Int : a = NewYear(y) /\ e = DaysBefore(y, m)
    BY <1>3, Zenon
  <1>7. n \in Int /\ NewYear(y) < n /\ n <= NewYear(y + 1)
    <2>1. n = a + e + k
      BY <1>2
    <2>2. n \in Int
      BY <1>1, <2>1
    <2>3. QED
      BY <1>6, <2>1, <2>2
  <1>8. QED
    BY <1>3, <1>5, <1>7

(* What a year to date is compared with is as long as it.                  *)
LEMMA PrecedingAsLong ==
  ASSUME startMonth \in 1..12, NEW today \in CalendarDates, today.year >= 5
  PROVE  /\ Days(Preceding(YearToDate(today, startMonth))) = Days(YearToDate(today, startMonth))
         /\ Preceding(YearToDate(today, startMonth)).end = Plus(MonthStart(FirstMonth(today)), -1)
  <1> PICK f \in Int : f = FirstMonth(today)
    BY FirstMonthOf, Zenon
  <1> PICK z \in Int : z = FiscalYear(today, startMonth)
    <2>1. FiscalYear(today, startMonth) \in Int
      BY DateFields DEF FiscalYear
    <2>2. QED
      BY <2>1, Zenon
  <1> PICK y \in Int : y = today.year
    BY DateFields, Zenon
  <1> PICK start, before : start = MonthStart(f) /\ before = Plus(start, -1)
    OBVIOUS
  <1>1. YearToDate(today, startMonth) = Period(start, today)
    BY FiscalYearIs DEF YearToDate, YearStartOf
  <1>2. start = Date(z, startMonth, 1)
    BY MonthStartIs DEF FirstMonth
  <1>3. start \in CalendarDates /\ start.year = z
    <2>1. Date(z, startMonth, 1) \in CalendarDates
      BY FirstDay
    <2>2. Date(z, startMonth, 1).year = z
      BY DEF Date
    <2>3. QED
      BY <1>2, <2>1, <2>2
  <1>4. (z = y \/ z = y - 1) /\ y >= 5
    BY DEF FiscalYear
  <1>5. f >= 24
    <2>1. f = (12 * z) + startMonth - 1
      BY DEF FirstMonth
    <2>2. QED
      BY <1>4, <2>1
  <1> PICK a \in Int, b \in Int : a = Ordinal(start) /\ b = Ordinal(today)
    BY <1>3, OrdinalOfDate, Zenon
  <1>6. Ordinal(before) = a - 1
    BY <1>5, EndOfMonths
  <1> PICK n \in Int : n = b - a + 1
    OBVIOUS
  <1>7. Days(YearToDate(today, startMonth)) = n
    BY <1>1 DEF Days, Between, Period
  <1>8. a - 1 - n >= 1
    <2>1. NewYear(z) \in Int /\ NewYear(z) < a
      BY <1>3, OrdinalOfDate
    <2>2. NewYear(y + 1) \in Int /\ b <= NewYear(y + 1)
      BY OrdinalOfDate
    <2>3. NewYear(z) >= 365 * (z - 1)
      <3>1. z >= 1
        BY <1>4
      <3>2. QED
        BY <3>1, NewYearBounds
    <2>4. NewYear(z + 1) = NewYear(z) + (IF Leap(z) THEN 366 ELSE 365)
      BY YearLength
    <2>5. NewYear(z + 2) = NewYear(z + 1) + (IF Leap(z + 1) THEN 366 ELSE 365)
      <3> PICK x \in Int : x = z + 1
        OBVIOUS
      <3>1. NewYear(x + 1) = NewYear(x) + (IF Leap(x) THEN 366 ELSE 365)
        BY YearLength
      <3>2. x + 1 = z + 2
        OBVIOUS
      <3>3. QED
        BY <3>1, <3>2
    <2>6. NewYear(z + 2) <= NewYear(z) + 732 /\ NewYear(z + 1) <= NewYear(z) + 732
      BY <2>1, <2>4, <2>5
    <2>7. NewYear(y + 1) <= NewYear(z) + 732
      <3>1. y + 1 = z + 1 \/ y + 1 = z + 2
        BY <1>4
      <3>2. QED
        BY <2>6, <3>1
    <2>8. z >= 4
      BY <1>4
    <2>9. QED
      BY <2>1, <2>2, <2>3, <2>7, <2>8
  <1> PICK c : c = Plus(before, -n)
    OBVIOUS
  <1>9. Ordinal(c) = a - 1 - n
    <2>1. c = FromOrdinal(Ordinal(before) + (-n))
      BY DEF Plus
    <2>2. Ordinal(before) + (-n) = a - 1 - n /\ a - 1 - n \in Int
      BY <1>6
    <2>3. Ordinal(FromOrdinal(a - 1 - n)) = a - 1 - n
      BY <1>8, <2>2, OrdinalFrom
    <2>4. QED
      BY <2>1, <2>2, <2>3
  <1>10. Ordinal(Plus(c, 1)) = a - n
    <2>1. Plus(c, 1) = FromOrdinal(Ordinal(c) + 1)
      BY DEF Plus
    <2>2. Ordinal(c) + 1 = a - n /\ a - n \in Int /\ a - n >= 1
      BY <1>8, <1>9
    <2>3. Ordinal(FromOrdinal(a - n)) = a - n
      BY <2>2, OrdinalFrom
    <2>4. QED
      BY <2>1, <2>2, <2>3
  <1>11. Preceding(YearToDate(today, startMonth)) = Period(Plus(c, 1), before)
    BY <1>1, <1>7 DEF Preceding, Period
  <1>12. Days(Period(Plus(c, 1), before)) = n
    <2>1. Days(Period(Plus(c, 1), before)) = Ordinal(before) - Ordinal(Plus(c, 1)) + 1
      BY DEF Days, Between, Period
    <2>2. QED
      BY <1>6, <1>10, <2>1
  <1>13. Period(Plus(c, 1), before).end = before
    BY DEF Period
  <1>14. QED
    BY <1>7, <1>11, <1>12, <1>13

(* The named periods as runs of months.                                    *)
LEMMA NamedYears ==
  ASSUME startMonth \in 1..12, NEW today \in CalendarDates, today.year >= 5,
         NEW f \in Int, f = FirstMonth(today)
  PROVE  /\ f >= 36
         /\ Named("this-fiscal-year", today, startMonth) = Months(f, f + 12)
         /\ Named("last-fiscal-year", today, startMonth) = Months(f - 12, f)
  <1>1. FiscalYearBounds(today, startMonth) = Months(f, f + 12)
    BY FiscalYearIs
  <1>2. f >= 36
    <2>1. f >= (12 * (today.year - 1)) + startMonth - 1 /\ today.year \in Int
      BY FirstMonthOf, DateFields
    <2>2. QED
      BY <2>1
  <1> PICK last : last = Plus(MonthStart(f), -1)
    OBVIOUS
  <1>3. last \in CalendarDates /\ MonthIndex(last) = f - 1
    BY <1>2, EndOfMonths
  <1>4. FirstMonth(last) = f - 12
    <2>1. FirstMonth(today) + (12 * (-1)) = f - 12
      OBVIOUS
    <2>2. f - 12 <= f - 1 /\ f - 1 < f - 12 + 12
      OBVIOUS
    <2>3. FirstMonth(last) = FirstMonth(today) + (12 * (-1))
      BY <1>3, <2>1, <2>2, SameFirstMonth
    <2>4. QED
      BY <2>1, <2>3
  <1>5. FiscalYearBounds(last, startMonth) = Months(f - 12, f - 12 + 12)
    BY <1>3, <1>4, FiscalYearIs
  <1>6. f - 12 + 12 = f
    OBVIOUS
  <1>7. LastFiscalYear(today, startMonth) = Months(f - 12, f)
    BY <1>1, <1>5, <1>6 DEF LastFiscalYear, Months, Period
  <1>8. QED
    BY <1>1, <1>2, <1>7 DEF Named

LEMMA QuarterIs ==
  ASSUME startMonth \in 1..12, NEW today \in CalendarDates, NEW q \in 1..4, NEW f \in Int, f = FirstMonth(today),
         NEW i \in Int, i = f + ((q - 1) * 3)
  PROVE  FiscalQuarter(q, today, startMonth) = Months(i, i + 3)
  <1>1. FiscalYearBounds(today, startMonth).start = MonthStart(f)
    BY FiscalYearIs DEF Months, Period
  <1>2. (q - 1) * 3 \in Int
    OBVIOUS
  <1>3. AddMonths(MonthStart(f), (q - 1) * 3) = MonthStart(i)
    BY <1>2, AddToStart
  <1>4. AddMonths(MonthStart(i), 3) = MonthStart(i + 3)
    BY AddToStart
  <1>5. QED
    BY <1>1, <1>3, <1>4 DEF FiscalQuarter, Months

LEMMA NamedQuarters ==
  ASSUME startMonth \in 1..12, NEW today \in CalendarDates, NEW f \in Int, f = FirstMonth(today)
  PROVE  /\ Named("q1", today, startMonth) = Months(f, f + 3)
         /\ Named("q2", today, startMonth) = Months(f + 3, f + 6)
         /\ Named("q3", today, startMonth) = Months(f + 6, f + 9)
         /\ Named("q4", today, startMonth) = Months(f + 9, f + 12)
  <1>1. f + ((1 - 1) * 3) = f /\ f + ((2 - 1) * 3) = f + 3 /\ f + ((3 - 1) * 3) = f + 6 /\ f + ((4 - 1) * 3) = f + 9
    OBVIOUS
  <1>2. f + 3 \in Int /\ f + 6 \in Int /\ f + 9 \in Int
        /\ (f + 3) + 3 = f + 6 /\ (f + 6) + 3 = f + 9 /\ (f + 9) + 3 = f + 12
    OBVIOUS
  <1>3. FiscalQuarter(1, today, startMonth) = Months(f, f + 3)
    BY <1>1, QuarterIs
  <1>4. FiscalQuarter(2, today, startMonth) = Months(f + 3, (f + 3) + 3)
    BY <1>1, <1>2, QuarterIs
  <1>5. FiscalQuarter(3, today, startMonth) = Months(f + 6, (f + 6) + 3)
    BY <1>1, <1>2, QuarterIs
  <1>6. FiscalQuarter(4, today, startMonth) = Months(f + 9, (f + 9) + 3)
    BY <1>1, <1>2, QuarterIs
  <1>7. QED
    BY <1>2, <1>3, <1>4, <1>5, <1>6 DEF Named

LEMMA NamedMonths ==
  ASSUME NEW today \in CalendarDates, NEW i \in Int, i = MonthIndex(today)
  PROVE  /\ Named("this-month", today, startMonth) = Months(i, i + 1)
         /\ Named("last-month", today, startMonth) = Months(i - 1, i)
  <1>1. [today EXCEPT !.day = 1] = MonthStart(i)
    <2> PICK y \in Int, m \in 1..12, k \in Int : today = Date(y, m, k)
      BY DateFields
    <2>1. today.year = y /\ today.month = m
      BY DEF Date
    <2>2. [today EXCEPT !.day = 1] = Date(y, m, 1)
      BY DEF Date
    <2>3. i = (12 * y) + m - 1
      BY <2>1 DEF MonthIndex
    <2>4. QED
      BY <2>2, <2>3, MonthStartIs
  <1>2. \A j \in Int : MonthOf(MonthStart(j)) = Months(j, j + 1)
    BY AddToStart DEF MonthOf, Months
  <1> PICK h \in Int : h = i - 1
    OBVIOUS
  <1>3. AddMonths(MonthStart(i), -1) = MonthStart(h)
    <2>1. -1 \in Int /\ i + (-1) = h
      OBVIOUS
    <2>2. QED
      BY <2>1, AddToStart
  <1>4. ThisMonth(today) = Months(i, i + 1)
    BY <1>1, <1>2 DEF ThisMonth
  <1>5. LastMonth(today) = Months(h, h + 1)
    BY <1>1, <1>2, <1>3 DEF LastMonth
  <1>6. h + 1 = i
    OBVIOUS
  <1>7. QED
    BY <1>4, <1>5, <1>6 DEF Named

(* One quarter of a fiscal year's four.                                    *)
LEMMA OneOfFour ==
  ASSUME NEW S \in SUBSET {"q1", "q2", "q3", "q4"}, NEW f \in Int, NEW x \in Int,
         "q1" \in S <=> f <= x /\ x < f + 3, "q2" \in S <=> f + 3 <= x /\ x < f + 6,
         "q3" \in S <=> f + 6 <= x /\ x < f + 9, "q4" \in S <=> f + 9 <= x /\ x < f + 12
  PROVE  Cardinality(S) = IF f <= x /\ x < f + 12 THEN 1 ELSE 0
  <1>1. ~(f <= x /\ x < f + 12) => S = {}
    OBVIOUS
  <1>2. f <= x /\ x < f + 12 => S = {"q1"} \/ S = {"q2"} \/ S = {"q3"} \/ S = {"q4"}
    <2>1. CASE f <= x /\ x < f + 3
      <3>1. "q1" \in S /\ "q2" \notin S /\ "q3" \notin S /\ "q4" \notin S
        BY <2>1
      <3>2. S = {"q1"}
        BY <3>1
      <3>3. QED
        BY <3>2
    <2>2. CASE f + 3 <= x /\ x < f + 6
      <3>1. "q1" \notin S /\ "q2" \in S /\ "q3" \notin S /\ "q4" \notin S
        BY <2>2
      <3>2. S = {"q2"}
        BY <3>1
      <3>3. QED
        BY <3>2
    <2>3. CASE f + 6 <= x /\ x < f + 9
      <3>1. "q1" \notin S /\ "q2" \notin S /\ "q3" \in S /\ "q4" \notin S
        BY <2>3
      <3>2. S = {"q3"}
        BY <3>1
      <3>3. QED
        BY <3>2
    <2>4. CASE f + 9 <= x /\ x < f + 12
      <3>1. "q1" \notin S /\ "q2" \notin S /\ "q3" \notin S /\ "q4" \in S
        BY <2>4
      <3>2. S = {"q4"}
        BY <3>1
      <3>3. QED
        BY <3>2
    <2>5. f <= x /\ x < f + 12 => \/ f <= x /\ x < f + 3
                                  \/ f + 3 <= x /\ x < f + 6
                                  \/ f + 6 <= x /\ x < f + 9
                                  \/ f + 9 <= x /\ x < f + 12
      OBVIOUS
    <2>6. QED
      BY <2>1, <2>2, <2>3, <2>4, <2>5
  <1>3. Cardinality({}) = 0 /\ \A q : Cardinality({q}) = 1
    BY FS_EmptySet, FS_Singleton
  <1>4. QED
    BY <1>1, <1>2, <1>3

LEMMA EntriesInOnePeriod ==
  ASSUME startMonth \in 1..12, \A d \in BookDays : d.year >= 5, \A e \in entries : e.date \in BookDays
  PROVE  EachEntryInOnePeriod
  <1>0. BookDays \subseteq CalendarDates
    BY StatementsAssumption DEF StatementsAssumption, BusinessDays
  <1> SUFFICES
        ASSUME NEW today \in BookDays, NEW the, the = [name \in PeriodNames |-> Named(name, today, startMonth)],
               NEW toDate, toDate = YearToDate(today, startMonth), NEW before, before = Preceding(toDate)
        PROVE  /\ Plus(the["last-fiscal-year"].end, 1) = the["this-fiscal-year"].start
               /\ Days(before) = Days(toDate)
               /\ \A e \in entries :
                    LET In(name) == Covers(the[name], e.date) IN
                    /\ Cardinality({q \in {"q1", "q2", "q3", "q4"} : In(q)}) =
                         IF In("this-fiscal-year") THEN 1 ELSE 0
                    /\ In("last-fiscal-year") <=> YearStartOf(e.date) = the["last-fiscal-year"].start
                    /\ In("this-month") <=> e.date.month = today.month /\ e.date.year = today.year
                    /\ In("last-month") => (e.date.month % 12) + 1 = today.month
                    /\ Covers(toDate, e.date) <=> In("this-fiscal-year") /\ NotAfter(e.date, today)
                    /\ ~(Covers(toDate, e.date) /\ Covers(before, e.date))
    BY DEF EachEntryInOnePeriod
  <1>1. today \in CalendarDates /\ today.year >= 5
    BY <1>0
  <1> PICK f \in Int, i \in Int : f = FirstMonth(today) /\ i = MonthIndex(today)
    BY <1>1, FirstMonthOf, Zenon
  <1>2. /\ the["this-fiscal-year"] = Named("this-fiscal-year", today, startMonth)
        /\ the["last-fiscal-year"] = Named("last-fiscal-year", today, startMonth)
        /\ the["this-month"] = Named("this-month", today, startMonth)
        /\ the["last-month"] = Named("last-month", today, startMonth)
        /\ the["q1"] = Named("q1", today, startMonth) /\ the["q2"] = Named("q2", today, startMonth)
        /\ the["q3"] = Named("q3", today, startMonth) /\ the["q4"] = Named("q4", today, startMonth)
    BY DEF PeriodNames
  <1>3. the["this-fiscal-year"] = Months(f, f + 12) /\ the["last-fiscal-year"] = Months(f - 12, f) /\ f >= 36
    BY <1>1, <1>2, NamedYears
  <1>4. the["this-month"] = Months(i, i + 1) /\ the["last-month"] = Months(i - 1, i)
    BY <1>1, <1>2, NamedMonths
  <1>5. /\ the["q1"] = Months(f, f + 3) /\ the["q2"] = Months(f + 3, f + 6)
        /\ the["q3"] = Months(f + 6, f + 9) /\ the["q4"] = Months(f + 9, f + 12)
    BY <1>1, <1>2, NamedQuarters
  <1>6. f <= i /\ i < f + 12
    BY <1>1, FirstMonthOf
  <1>7. toDate.start = MonthStart(f) /\ toDate.end = today
    BY <1>1, FiscalYearIs DEF YearToDate, YearStartOf, Period
  <1>8. Days(before) = Days(toDate) /\ before.end = Plus(MonthStart(f), -1)
    BY <1>1, PrecedingAsLong
  <1>9. Plus(the["last-fiscal-year"].end, 1) = the["this-fiscal-year"].start
    <2>1. the["last-fiscal-year"].end = Plus(MonthStart(f), -1) /\ the["this-fiscal-year"].start = MonthStart(f)
      BY <1>3 DEF Months, Period
    <2>2. Plus(Plus(MonthStart(f), -1), 1) = MonthStart(f)
      BY <1>3, EndOfMonths
    <2>3. QED
      BY <2>1, <2>2
  <1>10. ASSUME NEW e \in entries
         PROVE  /\ Cardinality({q \in {"q1", "q2", "q3", "q4"} : Covers(the[q], e.date)}) =
                     IF Covers(the["this-fiscal-year"], e.date) THEN 1 ELSE 0
                /\ Covers(the["last-fiscal-year"], e.date) <=> YearStartOf(e.date) = the["last-fiscal-year"].start
                /\ Covers(the["this-month"], e.date) <=> e.date.month = today.month /\ e.date.year = today.year
                /\ Covers(the["last-month"], e.date) => (e.date.month % 12) + 1 = today.month
                /\ Covers(toDate, e.date) <=> Covers(the["this-fiscal-year"], e.date) /\ NotAfter(e.date, today)
                /\ ~(Covers(toDate, e.date) /\ Covers(before, e.date))
    <2> PICK d \in CalendarDates : d = e.date
      BY <1>0, Zenon
    <2> PICK x \in Int : x = MonthIndex(d)
      BY MonthIndexType, Zenon
    <2>1. \A a, b \in Int : b >= 24 => (Covers(Months(a, b), d) <=> a <= x /\ x < b)
      BY MonthsCover
    <2>2. /\ f + 12 \in Int /\ f + 12 >= 24 /\ f - 12 \in Int /\ f >= 24
          /\ i + 1 \in Int /\ i + 1 >= 24 /\ i - 1 \in Int /\ i >= 24
          /\ f + 3 \in Int /\ f + 3 >= 24 /\ f + 6 \in Int /\ f + 6 >= 24 /\ f + 9 \in Int /\ f + 9 >= 24
      BY <1>3, <1>6
    <2>3. Covers(the["this-fiscal-year"], d) <=> f <= x /\ x < f + 12
      BY <1>3, <2>1, <2>2
    <2>4. Covers(the["last-fiscal-year"], d) <=> f - 12 <= x /\ x < f
      BY <1>3, <2>1, <2>2
    <2>5. Cardinality({q \in {"q1", "q2", "q3", "q4"} : Covers(the[q], d)}) =
            IF Covers(the["this-fiscal-year"], d) THEN 1 ELSE 0
      <3> PICK S \in SUBSET {"q1", "q2", "q3", "q4"} : S = {q \in {"q1", "q2", "q3", "q4"} : Covers(the[q], d)}
        OBVIOUS
      <3>1. Covers(the["q1"], d) <=> f <= x /\ x < f + 3
        BY <1>5, <2>1, <2>2
      <3>2. Covers(the["q2"], d) <=> f + 3 <= x /\ x < f + 6
        BY <1>5, <2>1, <2>2
      <3>3. Covers(the["q3"], d) <=> f + 6 <= x /\ x < f + 9
        BY <1>5, <2>1, <2>2
      <3>4. Covers(the["q4"], d) <=> f + 9 <= x /\ x < f + 12
        BY <1>5, <2>1, <2>2
      <3>5. Cardinality(S) = IF f <= x /\ x < f + 12 THEN 1 ELSE 0
        BY <3>1, <3>2, <3>3, <3>4, OneOfFour
      <3>6. QED
        BY <2>3, <3>5
    <2>6. Covers(the["last-fiscal-year"], d) <=> YearStartOf(d) = the["last-fiscal-year"].start
      <3>1. the["last-fiscal-year"].start = MonthStart(f - 12)
        BY <1>3 DEF Months, Period
      <3> PICK g \in Int : g = FirstMonth(d)
        BY FirstMonthOf, Zenon
      <3>2. YearStartOf(d) = MonthStart(g)
        BY FiscalYearIs
      <3>3. MonthIndex(MonthStart(g)) = g /\ MonthIndex(MonthStart(f - 12)) = f - 12
        BY <2>2, MonthStartType
      <3>4. YearStartOf(d) = MonthStart(f - 12) <=> g = f - 12
        BY <3>2, <3>3
      <3>5. g = f - 12 <=> f - 12 <= x /\ x < f
        <4>1. -1 \in Int /\ FirstMonth(today) + (12 * (-1)) = f - 12 /\ f - 12 + 12 = f
          OBVIOUS
        <4>2. FirstMonth(d) = FirstMonth(today) + (12 * (-1))
                <=> FirstMonth(today) + (12 * (-1)) <= MonthIndex(d) /\ MonthIndex(d) < FirstMonth(today) + (12 * (-1)) + 12
          BY <1>1, <4>1, SameFirstMonth
        <4>3. QED
          BY <4>1, <4>2
      <3>6. QED
        BY <2>4, <3>1, <3>4, <3>5
    <2> PICK y \in Int, m \in 1..12, z \in Int, n \in 1..12 :
          y = d.year /\ m = d.month /\ z = today.year /\ n = today.month
      BY <1>1, DateFields, Zenon
    <2>7. x = (12 * y) + m - 1 /\ i = (12 * z) + n - 1
      BY DEF MonthIndex
    <2>8. Covers(the["this-month"], d) <=> d.month = today.month /\ d.year = today.year
      <3>1. Covers(the["this-month"], d) <=> i <= x /\ x < i + 1
        BY <1>4, <2>1, <2>2
      <3>2. x = i <=> y = z /\ m = n
        BY <2>7
      <3>3. i <= x /\ x < i + 1 <=> x = i
        OBVIOUS
      <3>4. QED
        BY <3>1, <3>2, <3>3
    <2>9. Covers(the["last-month"], d) => (d.month % 12) + 1 = today.month
      <3>1. Covers(the["last-month"], d) <=> i - 1 <= x /\ x < i
        BY <1>4, <2>1, <2>2
      <3>2. i - 1 <= x /\ x < i => (m < 12 /\ n = m + 1) \/ (m = 12 /\ n = 1)
        BY <2>7
      <3>3. (m < 12 => m % 12 = m) /\ (m = 12 => m % 12 = 0)
        OBVIOUS
      <3>4. QED
        BY <3>1, <3>2, <3>3
    <2>10. Covers(toDate, d) <=> Covers(the["this-fiscal-year"], d) /\ NotAfter(d, today)
      <3>1. NotAfter(MonthStart(f), d) <=> f <= x
        BY StartNotAfter
      <3>2. NotAfter(d, today) => x <= i
        BY <1>1, InOrderOfMonths
      <3>3. QED
        BY <1>6, <1>7, <2>3, <3>1, <3>2 DEF Covers
    <2>11. ~(Covers(toDate, d) /\ Covers(before, d))
      <3>1. NotAfter(MonthStart(f), d) <=> f <= x
        BY StartNotAfter
      <3>2. NotAfter(d, Plus(MonthStart(f), -1)) <=> x < f
        BY <2>2, EndOfMonths
      <3>3. QED
        BY <1>7, <1>8, <3>1, <3>2 DEF Covers
    <2>12. QED
      BY <2>5, <2>6, <2>8, <2>9, <2>10, <2>11
  <1>11. QED
    BY <1>8, <1>9, <1>10

-----------------------------------------------------------------------------
(* The inductive invariant.                                                *)
Books == Booked /\ Recorded /\ Reversals /\ Reports!Quoted

LEMMA BooksStart ==
  ASSUME Reports!ReportsAssumption, Reports!Init
  PROVE  Books
  <1>1. entries = {} /\ posted = {} /\ quotes = {} /\ startMonth \in 1..12
    BY DEF Reports!Init, Reports!ReportsAssumption
  <1>2. Booked
    BY <1>1, FS_EmptySet DEF Booked
  <1>3. Recorded /\ Reversals
    BY <1>1 DEF Recorded, Reversals
  <1>4. Reports!Quoted
    BY <1>1, SameFinite, FS_EmptySet DEF Reports!Quoted
  <1>5. QED
    BY <1>2, <1>3, <1>4 DEF Books

LEMMA BooksUnchanged ==
  ASSUME Books, UNCHANGED <<entries, posted, startMonth>>
  PROVE  Booked' /\ Recorded' /\ Reversals'
  <1>1. entries' = entries /\ posted' = posted /\ startMonth' = startMonth
    OBVIOUS
  <1>2. \A s : LinesOf(s)' = LinesOf(s)
    BY <1>1 DEF LinesOf
  <1>3. Booked'
    BY <1>1, <1>2 DEF Books, Booked, Sum, Amount
  <1>4. Recorded'
    BY <1>1 DEF Books, Recorded
  <1>5. Reversals'
    BY <1>1, <1>2 DEF Books, Reversals
  <1>6. QED
    BY <1>3, <1>4, <1>5

LEMMA QuotesUnchanged ==
  ASSUME Books, UNCHANGED quotes
  PROVE  Reports!Quoted'
  BY DEF Books, Reports!Quoted

LEMMA SetRateKeeps ==
  ASSUME Reports!ReportsAssumption, Books, NEW q \in Quotes, Reports!SetRate(q)
  PROVE  Books'
  <1>1. Booked' /\ Recorded' /\ Reversals'
    BY BooksUnchanged DEF Reports!SetRate
  <1> PICK kept : kept = {r \in quotes : ~Reports!SameDay(r, q)}
    OBVIOUS
  <1>2. quotes' = kept \cup {q}
    BY DEF Reports!SetRate
  <1>3. IsFiniteSet(kept)
    BY SameFinite, FS_Subset DEF Books, Reports!Quoted
  <1>4. IsFiniteSet(quotes')
    BY <1>2, <1>3, FS_AddElement
  <1>5. \A r \in quotes' : Reports!IsQuote(r)
    BY <1>2 DEF Books, Reports!Quoted, Reports!ReportsAssumption
  <1>6. QED
    BY <1>1, <1>4, <1>5, SameFinite DEF Books, Reports!Quoted

LEMMA ImportRatesKeeps ==
  ASSUME Reports!ReportsAssumption, Books, NEW f \in Files, Reports!ImportRates(f)
  PROVE  Books'
  <1>1. Booked' /\ Recorded' /\ Reversals'
    BY BooksUnchanged DEF Reports!ImportRates
  <1>2. PICK kept \in SUBSET quotes, last \in SUBSET DOMAIN f : quotes' = kept \cup ImageOf(f, last)
    <2> DEFINE good == {i \in DOMAIN f : Reports!Accepted(f[i])}
               last == {i \in good : \A j \in good : Reports!SameDay(f[i], f[j]) => j <= i}
               kept == {r \in quotes : \A i \in good : ~Reports!SameDay(r, f[i])}
    <2>1. quotes' = kept \cup {f[i] : i \in last}
      BY DEF Reports!ImportRates
    <2>2. kept \in SUBSET quotes /\ last \in SUBSET DOMAIN f
      OBVIOUS
    <2> HIDE DEF kept, last
    <2>3. QED
      BY <2>1, <2>2 DEF ImageOf
  <1>3. IsFiniteSet(kept)
    BY SameFinite, FS_Subset DEF Books, Reports!Quoted
  <1>4. IsFiniteSet(ImageOf(f, last))
    <2>1. IsFiniteSet(last)
      BY SameFinite, FS_Subset DEF Reports!ReportsAssumption
    <2>2. QED
      BY <2>1, ImageFinite
  <1>5. IsFiniteSet(quotes')
    BY <1>2, <1>3, <1>4, FS_Union
  <1>6. \A r \in quotes' : Reports!IsQuote(r)
    BY <1>2 DEF Books, Reports!Quoted, Reports!ReportsAssumption, ImageOf
  <1>7. QED
    BY <1>1, <1>5, <1>6, SameFinite DEF Books, Reports!Quoted

LEMMA BooksKept ==
  ASSUME Reports!ReportsAssumption, Books, [Reports!Next]_(Reports!vars)
  PROVE  Books'
  <1>1. ASSUME NEW d \in Documents, Reports!Issue(d) PROVE Books'
    <2>1. <<"document", d.id>> # Null /\ d.date \in BookDays /\ <<"document", d.id>>[1] # "reversal"
      BY DEF Reports!ReportsAssumption
    <2>2. Reports!Post(<<"document", d.id>>, d.date, d.currency, d.type, Reports!DocumentRequest(d, Defaults))
      BY <1>1 DEF Reports!Issue
    <2>3. UNCHANGED quotes
      BY <2>2 DEF Reports!Post
    <2>4. QED
      BY <2>1, <2>2, <2>3, DocumentRequests, PostKeeps, QuotesUnchanged DEF Books
  <1>2. ASSUME NEW p \in Payments, Reports!Pay(p) PROVE Books'
    <2>1. <<"payment", p.id>> # Null /\ p.date \in BookDays /\ <<"payment", p.id>>[1] # "reversal"
      BY DEF Reports!ReportsAssumption
    <2>2. Reports!Post(<<"payment", p.id>>, p.date, p.currency, "bank", Reports!PaymentRequest(p, Defaults))
      BY <1>2 DEF Reports!Pay
    <2>3. UNCHANGED quotes
      BY <2>2 DEF Reports!Post
    <2>4. Null \notin DOMAIN Accounts \cup Int
      BY StatementsAssumption DEF StatementsAssumption
    <2>5. QED
      BY <2>1, <2>2, <2>3, <2>4, PaymentRequests, PostKeeps, QuotesUnchanged DEF Books
  <1>3. ASSUME NEW p \in Payments, NEW on \in BookDays, Reports!Reconcile(p, on) PROVE Books'
    <2>1. <<"bank", p.id>> # Null /\ <<"bank", p.id>>[1] # "reversal"
      BY DEF Reports!ReportsAssumption
    <2>2. Reports!Post(<<"bank", p.id>>, on, p.currency, "bank", Reports!BankRequest(p, Defaults.bank, Defaults))
      BY <1>3 DEF Reports!Reconcile
    <2>3. UNCHANGED quotes
      BY <2>2 DEF Reports!Post
    <2>4. Null \notin DOMAIN Accounts \cup Int
      BY StatementsAssumption DEF StatementsAssumption
    <2>5. QED
      BY <2>1, <2>2, <2>3, <2>4, PaymentRequests, PostKeeps, QuotesUnchanged DEF Books
  <1>4. ASSUME NEW e \in entries, Reports!Cancel(e) PROVE Books'
    <2>1. UNCHANGED quotes
      BY <1>4 DEF Reports!Cancel
    <2>2. QED
      BY <1>4, <2>1, CancelKeeps, QuotesUnchanged DEF Books
  <1>5. ASSUME UNCHANGED Reports!vars PROVE Books'
    <2>1. UNCHANGED <<entries, posted, startMonth>> /\ UNCHANGED quotes
      BY <1>5 DEF Reports!vars
    <2>2. QED
      BY <2>1, BooksUnchanged, QuotesUnchanged DEF Books
  <1>6. QED
    BY <1>1, <1>2, <1>3, <1>4, <1>5, SetRateKeeps, ImportRatesKeeps DEF Reports!Next

LEMMA BooksAlways ==
  ASSUME Reports!ReportsAssumption
  PROVE  Reports!Spec => []Books
  <1>1. Reports!Init => Books
    BY BooksStart
  <1>2. Books /\ [Reports!Next]_(Reports!vars) => Books'
    BY BooksKept
  <1>3. QED
    BY <1>1, <1>2, PTL DEF Reports!Spec

(* The balance sheet balances on every day, what the profit and loss says  *)
(* was earned is the change of the sheet's earnings, the trial balance     *)
(* balances and its tree has the figures of its rows, and an account's     *)
(* detail closes at its balance, whatever was posted and cancelled         *)
(* (balances.py, balance_sheet.py, profit_and_loss.py, trial_balance.py,   *)
(* account_detail.py).                                                     *)
THEOREM StatementsAlwaysAgree ==
  ASSUME Reports!ReportsAssumption
  PROVE  Reports!Spec => []StatementsAgree
  <1>1. Books => StatementsAgree
    BY StatementsDoAgree DEF Books
  <1>2. QED
    BY <1>1, BooksAlways, PTL

(* The cash at a period's end is that at its start with what the report    *)
(* says moved it (cash_flow.py).                                           *)
THEOREM CashAlwaysReconciles ==
  ASSUME Reports!ReportsAssumption
  PROVE  Reports!Spec => []CashFlowReconciles
  <1>1. Books => CashFlowReconciles
    BY CashReconciles DEF Books
  <1>2. QED
    BY <1>1, BooksAlways, PTL

(* An entry and its reversal leave nothing on an account, in either        *)
(* currency, nor in a box of the return (posting.py's reverse).            *)
THEOREM CancelledAlwaysLeavesNothing ==
  ASSUME Reports!ReportsAssumption
  PROVE  Reports!Spec => []CancelledLeavesNothing
  <1>1. Books => CancelledLeavesNothing
    BY CancelledDoLeaveNothing DEF Books
  <1>2. QED
    BY <1>1, BooksAlways, PTL

(* Entries are dated by who asks for them, or as what they reverse.        *)
Dated == \A e \in entries : DOMAIN e = {"source", "reverses", "date", "journal"} /\ e.date \in BookDays

LEMMA DatedKept ==
  ASSUME Reports!ReportsAssumption, Dated, [Reports!Next]_(Reports!vars)
  PROVE  Dated'
  <1>1. ASSUME NEW s, NEW on \in BookDays, NEW currency, NEW journal, NEW lines,
               Reports!Post(s, on, currency, journal, lines)
        PROVE  Dated'
    <2>1. entries' = entries \cup {[source |-> s, reverses |-> Null, date |-> on, journal |-> journal]}
      BY <1>1 DEF Reports!Post
    <2>2. QED
      BY <2>1 DEF Dated
  <1>2. ASSUME NEW d \in Documents, Reports!Issue(d) PROVE Dated'
    <2>1. d.date \in BookDays
      BY DEF Reports!ReportsAssumption
    <2>2. QED
      BY <1>1, <1>2, <2>1 DEF Reports!Issue
  <1>3. ASSUME NEW p \in Payments, Reports!Pay(p) PROVE Dated'
    <2>1. p.date \in BookDays
      BY DEF Reports!ReportsAssumption
    <2>2. QED
      BY <1>1, <1>3, <2>1 DEF Reports!Pay
  <1>4. ASSUME NEW p \in Payments, NEW on \in BookDays, Reports!Reconcile(p, on) PROVE Dated'
    BY <1>1, <1>4 DEF Reports!Reconcile
  <1>5. ASSUME NEW e \in entries, Reports!Cancel(e) PROVE Dated'
    <2> PICK r : r = [e EXCEPT !.source = <<"reversal", e.source>>, !.reverses = e.source]
      OBVIOUS
    <2>1. entries' = entries \cup {r}
      BY <1>5 DEF Reports!Cancel
    <2>2. DOMAIN r = DOMAIN e /\ r.date = e.date
      BY DEF Dated
    <2>3. QED
      BY <2>1, <2>2 DEF Dated
  <1>6. ASSUME UNCHANGED entries PROVE Dated'
    BY <1>6 DEF Dated
  <1>7. QED
    BY <1>2, <1>3, <1>4, <1>5, <1>6 DEF Reports!Next, Reports!SetRate, Reports!ImportRates, Reports!vars

(* An entry is in one period of a kind and in no two, whatever month the   *)
(* fiscal year starts with (periods.py), of dates whose last fiscal year   *)
(* and the days before it Python has too.                                  *)
THEOREM EachEntryAlwaysInOnePeriod ==
  ASSUME Reports!ReportsAssumption, \A d \in BookDays : d.year >= 5
  PROVE  Reports!Spec => []EachEntryInOnePeriod
  <1> DEFINE I == Dated /\ startMonth \in 1..12
  <1>1. Reports!Init => I
    BY DEF Reports!Init, Reports!ReportsAssumption, Dated
  <1>2. I /\ [Reports!Next]_(Reports!vars) => I'
    <2>1. [Reports!Next]_(Reports!vars) => startMonth' = startMonth
      BY DEF Reports!Next, Reports!vars, Reports!Issue, Reports!Pay, Reports!Reconcile, Reports!Post,
             Reports!Cancel, Reports!SetRate, Reports!ImportRates
    <2>2. QED
      BY <2>1, DatedKept
  <1>3. I => EachEntryInOnePeriod
    BY EntriesInOnePeriod DEF Dated
  <1> HIDE DEF I
  <1>4. QED
    BY <1>1, <1>2, <1>3, PTL DEF Reports!Spec

-----------------------------------------------------------------------------
(* The return and the taxes.                                               *)
(* What of a draft's taxes the return rests on: each has a tag, of a box   *)
(* that bears tax where it has a rate, and comes to something there; and   *)
(* its account is kept for taxes.                                          *)
TaxesPlaced ==
  /\ \A t \in Taxes : /\ t.tag # Null
                      /\ t.rate > 0 /\ t.tag \in DOMAIN Boxes => Boxes[t.tag].taxable
                      /\ t.rate = 0 => t.tag \in DOMAIN Boxes /\ ~Boxes[t.tag].taxable
  /\ \A d \in Documents : \A i \in DOMAIN d.lines :
       /\ d.lines[i].account \notin TaxAccounts
       /\ \A t \in Untaxed(d.lines[i], d.inclusive) : t.rate = 0
  /\ \A name \in DOMAIN Defaults : Defaults[name] \notin TaxAccounts

(* What is on a tagged line is tax, but in a box that bears none.          *)
Counts(tag) == tag # Null /\ (tag \in DOMAIN Boxes => Boxes[tag].taxable)

TaxesApart == \A l \in posted : l.account \in TaxAccounts <=> Counts(l.tag)

(* Lines by their tags.                                                    *)
LEMMA TaggedTogether ==
  ASSUME Booked, NEW all \in SUBSET posted, NEW counted, IsFiniteSet(counted),
         NEW due, \A tag \in counted : due[tag] = -Balance({l \in all : l.tag = tag})
  PROVE  SumFunctionOnSet(due, counted) = -Balance({l \in all : l.tag \in counted})
  <1>1. PICK part : part = [tag \in counted |-> {l \in all : l.tag = tag}]
    OBVIOUS
  <1>2. PICK of : of = [tag \in counted |-> Balance(part[tag])]
    OBVIOUS
  <1>3. part \in [counted -> SUBSET posted] /\ \A s, t \in counted : s # t => part[s] \cap part[t] = {}
    BY <1>1
  <1>4. \A tag \in counted : of[tag] = Balance(part[tag]) /\ due[tag] = -of[tag]
    BY <1>1, <1>2
  <1>5. SumFunctionOnSet(of, counted) = Balance(UNION {part[tag] : tag \in counted})
    BY <1>3, <1>4, BalanceOfParts
  <1>6. IntOn(of, counted)
    BY <1>3, <1>4, LinesFinite DEF IntOn
  <1>7. SumFunctionOnSet(due, counted) = -SumFunctionOnSet(of, counted)
    BY <1>4, <1>6, SumNegated
  <1>8. UNION {part[tag] : tag \in counted} = {l \in all : l.tag \in counted}
    BY <1>1
  <1>9. QED
    BY <1>5, <1>7, <1>8

(* What each tag comes to as a credit, where it counts.                    *)
TaxDue(p, tag) == IF Counts(tag) THEN -Balance(Tagged(p, tag)) ELSE 0

LEMMA TaggedLines ==
  ASSUME Booked, NEW p, NEW tag
  PROVE  /\ Tagged(p, tag) \in SUBSET posted
         /\ Sum(Tagged(p, tag), Amount) = Balance(Tagged(p, tag))
         /\ Balance(Tagged(p, tag)) \in Int /\ TaxDue(p, tag) \in Int
  <1>1. Tagged(p, tag) \in SUBSET posted
    BY DEF Tagged
  <1>2. QED
    BY <1>1, LinesFinite, SumsOfLines DEF TaxDue

LEMMA BoxTaxes ==
  ASSUME Booked, NEW p, NEW tag \in DOMAIN Boxes
  PROVE  /\ Boxes[tag].side = Sales => BoxTotal(p, tag).tax = TaxDue(p, tag)
         /\ Boxes[tag].side # Sales => BoxTotal(p, tag).tax = -TaxDue(p, tag)
  <1>1. PICK s : s = Sum(Tagged(p, tag), Amount)
    OBVIOUS
  <1>2. s \in Int /\ TaxDue(p, tag) = IF Counts(tag) THEN -s ELSE 0
    BY <1>1, TaggedLines DEF TaxDue
  <1>3. Counts(tag) <=> Boxes[tag].taxable
    BY StatementsAssumption DEF StatementsAssumption, Counts
  <1>4. BoxTotal(p, tag).tax = IF ~Boxes[tag].taxable THEN 0 ELSE IF Boxes[tag].side = Sales THEN -s ELSE s
    BY <1>1 DEF BoxTotal
  <1>5. QED
    BY <1>2, <1>3, <1>4

(* The lines of a period by their tags.                                    *)
LEMMA VatDoesAgree ==
  ASSUME Booked, TaxesApart
  PROVE  VatAgrees
  <1>1. SUFFICES ASSUME NEW p \in Periods
                 PROVE  LET v == VatReturn(p)
                            other == Total(v.untagged, LAMBDA tag : tag.tax)
                        IN v.output - v.input + other =
                             -Sum({l \in posted : l.account \in TaxAccounts /\ Covers(p, l.date)}, Amount)
    BY DEF VatAgrees
  <1>2. PICK all : all = {l \in posted : Covers(p, l.date)}
    OBVIOUS
  <1>3. PICK listed : listed = UntaggedTags(p)
    OBVIOUS
  <1>4. PICK sales, purchases : /\ sales = {tag \in DOMAIN Boxes : Boxes[tag].side = Sales}
                                /\ purchases = {tag \in DOMAIN Boxes : Boxes[tag].side = "purchases"}
    OBVIOUS
  <1>5. PICK tags : tags = sales \cup purchases \cup listed
    OBVIOUS
  <1>6. PICK counted : counted = {tag \in tags : Counts(tag)}
    OBVIOUS
  <1>7. PICK due : due = [tag \in tags |-> TaxDue(p, tag)]
    OBVIOUS
  <1>8. all \in SUBSET posted /\ IsFiniteSet(all)
    BY <1>2, LinesFinite
  <1>9. /\ IsFiniteSet(sales) /\ IsFiniteSet(purchases) /\ sales \cup purchases = DOMAIN Boxes
        /\ sales \cap purchases = {}
    <2>1. sales \in SUBSET DOMAIN Boxes /\ purchases \in SUBSET DOMAIN Boxes
      BY <1>4
    <2>2. IsFiniteSet(sales) /\ IsFiniteSet(purchases)
      BY <2>1, FS_Subset, StatementsAssumption DEF StatementsAssumption
    <2>3. QED
      BY <1>4, <2>2, StatementsAssumption DEF StatementsAssumption, Sales
  <1>10. /\ IsFiniteSet(listed) /\ (sales \cup purchases) \cap listed = {} /\ Null \notin listed
         /\ \A l \in all : l.tag # Null => l.tag \in tags
    <2>1. listed = {l.tag : l \in all} \ (DOMAIN Boxes \cup {Null})
      BY <1>2, <1>3 DEF UntaggedTags
    <2>2. PICK g : g = [l \in all |-> l.tag]
      OBVIOUS
    <2>3. listed \in SUBSET ImageOf(g, all)
      BY <2>1, <2>2 DEF ImageOf
    <2>4. IsFiniteSet(listed)
      BY <1>8, <2>3, ImageFinite, FS_Subset
    <2>5. QED
      BY <1>5, <1>9, <2>1, <2>4
  <1>11. IntOn(due, tags)
    BY <1>7, TaggedLines DEF IntOn
  <1>12. \A tag \in tags \ counted : due[tag] = 0
    BY <1>6, <1>7 DEF TaxDue
  <1>13. /\ SumFunctionOnSet(due, counted) = SumFunctionOnSet(due, sales) + SumFunctionOnSet(due, purchases)
              + SumFunctionOnSet(due, listed)
         /\ SumFunctionOnSet(due, sales) \in Int /\ SumFunctionOnSet(due, purchases) \in Int
         /\ SumFunctionOnSet(due, listed) \in Int /\ IsFiniteSet(counted)
    <2>1. PICK sides : sides = sales \cup purchases
      OBVIOUS
    <2>2. tags = sides \cup listed /\ sides \cap listed = {} /\ counted \in SUBSET tags
      BY <1>5, <1>6, <1>10, <2>1
    <2>3. IsFiniteSet(sales) /\ IsFiniteSet(purchases) /\ IsFiniteSet(listed) /\ sales \cap purchases = {}
      BY <1>9, <1>10
    <2>4. PICK others : others = tags \ counted
      OBVIOUS
    <2>5. IsFiniteSet(sides) /\ IsFiniteSet(tags)
      BY <2>1, <2>2, <2>3, FS_Union
    <2>6. IsFiniteSet(counted) /\ IsFiniteSet(others) /\ counted \cup others = tags /\ counted \cap others = {}
      BY <2>2, <2>4, <2>5, FS_Subset
    <2>7. /\ IntOn(due, sales) /\ IntOn(due, purchases) /\ IntOn(due, listed) /\ IntOn(due, sides)
          /\ IntOn(due, counted) /\ IntOn(due, others)
      BY <1>11, <2>1, <2>2, <2>4 DEF IntOn
    <2>8. SumFunctionOnSet(due, sides) = SumFunctionOnSet(due, sales) + SumFunctionOnSet(due, purchases)
      BY <2>1, <2>3, <2>7, SumSplit
    <2>9. SumFunctionOnSet(due, tags) = SumFunctionOnSet(due, sides) + SumFunctionOnSet(due, listed)
      BY <1>11, <2>2, <2>3, <2>5, SumSplit
    <2>10. SumFunctionOnSet(due, tags) = SumFunctionOnSet(due, counted) + SumFunctionOnSet(due, others)
      BY <1>11, <2>6, SumSplit
    <2>11. SumFunctionOnSet(due, others) = 0
      BY <1>12, <2>4, <2>6, SumZero
    <2>12. /\ SumFunctionOnSet(due, sales) \in Int /\ SumFunctionOnSet(due, purchases) \in Int
           /\ SumFunctionOnSet(due, listed) \in Int /\ SumFunctionOnSet(due, counted) \in Int
      BY <2>3, <2>6, <2>7, SumInt
    <2>13. QED
      BY <2>6, <2>8, <2>9, <2>10, <2>11, <2>12
  (* The totals of the return. *)
  <1>14. VatReturn(p).output = SumFunctionOnSet(due, sales)
    <2>1. PICK f : f = [tag \in sales |-> [t \in DOMAIN Boxes |-> BoxTotal(p, t)][tag].tax]
      OBVIOUS
    <2>2. \A tag \in sales : f[tag] = due[tag]
      BY <1>4, <1>5, <1>7, <2>1, BoxTaxes
    <2>3. VatReturn(p).output = SumFunctionOnSet(f, sales)
      BY <1>4, <2>1 DEF VatReturn
    <2>4. QED
      BY <1>9, <2>2, <2>3, SumSame
  <1>15. VatReturn(p).input = -SumFunctionOnSet(due, purchases)
    <2>1. PICK f : f = [tag \in purchases |-> [t \in DOMAIN Boxes |-> BoxTotal(p, t)][tag].tax]
      OBVIOUS
    <2>2. \A tag \in purchases : f[tag] = -due[tag]
      BY <1>4, <1>5, <1>7, <2>1, BoxTaxes DEF Sales
    <2>3. VatReturn(p).input = SumFunctionOnSet(f, purchases)
      BY <1>4, <2>1 DEF VatReturn
    <2>4. IntOn(due, purchases)
      BY <1>5, <1>11 DEF IntOn
    <2>5. QED
      BY <1>9, <2>2, <2>3, <2>4, SumNegated
  <1>16. Total(VatReturn(p).untagged, LAMBDA tag : tag.tax) = SumFunctionOnSet(due, listed)
    <2>1. PICK u : u = [tag \in listed |-> UntaggedTotal(p, tag)]
      OBVIOUS
    <2>2. PICK f : f = [tag \in listed |-> u[tag].tax]
      OBVIOUS
    <2>3. VatReturn(p).untagged = u /\ DOMAIN u = listed
      BY <1>3, <2>1 DEF VatReturn
    <2>4. Total(u, LAMBDA tag : tag.tax) = SumFunctionOnSet(f, listed)
      BY <2>1, <2>2 DEF Total
    <2>5. \A tag \in listed : f[tag] = -Sum(Tagged(p, tag), Amount)
      BY <2>1, <2>2 DEF UntaggedTotal
    <2>6. \A tag \in listed : Counts(tag) /\ tag \in tags
      BY <1>5, <1>9, <1>10 DEF Counts
    <2>7. \A tag \in listed : f[tag] = due[tag]
      BY <1>7, <2>5, <2>6, TaggedLines DEF TaxDue
    <2>8. SumFunctionOnSet(f, listed) = SumFunctionOnSet(due, listed)
      BY <1>10, <2>7, SumSame
    <2>9. QED
      BY <2>3, <2>4, <2>8
  (* The lines that count. *)
  <1>17. PICK taxed : taxed = {l \in posted : l.account \in TaxAccounts /\ Covers(p, l.date)}
    OBVIOUS
  <1>18. SumFunctionOnSet(due, counted) = -Balance(taxed)
    <2>1. \A tag \in counted : due[tag] = -Balance({l \in all : l.tag = tag})
      <3>1. \A tag \in counted : Tagged(p, tag) = {l \in all : l.tag = tag}
        BY <1>2 DEF Tagged
      <3>2. QED
        BY <1>6, <1>7, <3>1 DEF TaxDue
    <2>2. SumFunctionOnSet(due, counted) = -Balance({l \in all : l.tag \in counted})
      BY <1>8, <1>13, <2>1, TaggedTogether
    <2>3. \A l \in all : l.account \in TaxAccounts <=> l.tag \in counted
      BY <1>6, <1>8, <1>10 DEF TaxesApart, Counts
    <2>4. {l \in all : l.tag \in counted} = taxed
      BY <1>2, <1>17, <2>3
    <2>5. QED
      BY <2>2, <2>4
  <1>19. Sum(taxed, Amount) = Balance(taxed) /\ Balance(taxed) \in Int
    BY <1>17, LinesFinite, SumsOfLines
  <1>20. VatReturn(p).output - VatReturn(p).input + Total(VatReturn(p).untagged, LAMBDA tag : tag.tax)
           = -Sum(taxed, Amount)
    <2>1. PICK s, q, u : /\ s = SumFunctionOnSet(due, sales) /\ q = SumFunctionOnSet(due, purchases)
                         /\ u = SumFunctionOnSet(due, listed)
      OBVIOUS
    <2>2. s \in Int /\ q \in Int /\ u \in Int /\ s + q + u = -Balance(taxed)
      BY <1>13, <1>18, <2>1
    <2>3. s - (-q) + u = -Balance(taxed)
      BY <2>2
    <2>4. QED
      BY <1>14, <1>15, <1>16, <1>19, <2>1, <2>3
  <1>21. QED
    BY <1>17, <1>20

-----------------------------------------------------------------------------
(* What a document's request has.                                          *)
NetOf(d, i) == Reports!LineAmounts(d.lines[i], d.inclusive).net
TaxOf(d, t, i) == Reports!LineAmounts(d.lines[i], d.inclusive).tax[t]
ChargedLines(d, t) == {i \in DOMAIN d.lines : t \in d.lines[i].taxes}
TotalsOf(d) == Reports!DocumentTotals(d.lines, d.inclusive)

LEMMA DocumentSums ==
  ASSUME NEW d
  PROVE  /\ DOMAIN TotalsOf(d).groups = TaxesOf(d.lines)
         /\ \A t \in TaxesOf(d.lines) :
              /\ TotalsOf(d).groups[t].base =
                   SumFunctionOnSet([i \in ChargedLines(d, t) |-> NetOf(d, i)], ChargedLines(d, t))
              /\ TotalsOf(d).groups[t].amount =
                   SumFunctionOnSet([i \in ChargedLines(d, t) |-> TaxOf(d, t, i)], ChargedLines(d, t))
         /\ TotalsOf(d).total =
              SumFunctionOnSet([i \in DOMAIN d.lines |-> NetOf(d, i)], DOMAIN d.lines)
                + SumFunctionOnSet([t \in TaxesOf(d.lines) |-> TotalsOf(d).groups[t].amount], TaxesOf(d.lines))
  <1> DEFINE lines == d.lines
             Charged(t) == {i \in DOMAIN lines : t \in lines[i].taxes}
             Net(i) == Reports!LineAmounts(lines[i], d.inclusive).net
             Tax(t, i) == Reports!LineAmounts(lines[i], d.inclusive).tax[t]
             net == Reports!SumFunctionOnSet([i \in DOMAIN lines |-> Net(i)], DOMAIN lines)
             Basis(t) == Reports!SumFunctionOnSet([i \in Charged(t) |-> Net(i)], Charged(t))
             Charge(t) == Reports!SumFunctionOnSet([i \in Charged(t) |-> Tax(t, i)], Charged(t))
             groups == [t \in TaxesOf(lines) |-> [base |-> Basis(t), amount |-> Charge(t)]]
             tax == Reports!SumFunctionOnSet([t \in TaxesOf(lines) |-> groups[t].amount], TaxesOf(lines))
  <1>1. TotalsOf(d) = [net |-> net, groups |-> groups, tax |-> tax, total |-> net + tax]
    BY DEF TotalsOf, Reports!DocumentTotals, Reports!Total, Reports!Restrict, TaxesOf
  <1>2. net = SumFunctionOnSet([i \in DOMAIN d.lines |-> NetOf(d, i)], DOMAIN d.lines)
    BY SameSum DEF NetOf
  <1>3. \A t : /\ Basis(t) = SumFunctionOnSet([i \in ChargedLines(d, t) |-> NetOf(d, i)], ChargedLines(d, t))
               /\ Charge(t) = SumFunctionOnSet([i \in ChargedLines(d, t) |-> TaxOf(d, t, i)], ChargedLines(d, t))
    BY SameSum DEF NetOf, TaxOf, ChargedLines
  <1> HIDE DEF net, Basis, Charge
  <1>4. \A t \in TaxesOf(d.lines) : groups[t].base = Basis(t) /\ groups[t].amount = Charge(t)
    OBVIOUS
  <1>5. DOMAIN groups = TaxesOf(d.lines)
    OBVIOUS
  <1> HIDE DEF groups
  <1>6. TotalsOf(d).groups = groups /\ TotalsOf(d).total = net + tax
    BY <1>1
  <1>7. tax = SumFunctionOnSet([t \in TaxesOf(d.lines) |-> TotalsOf(d).groups[t].amount], TaxesOf(d.lines))
    BY <1>6, SameSum
  <1> HIDE DEF tax
  <1>8. QED
    BY <1>2, <1>3, <1>4, <1>5, <1>6, <1>7

OpenLine(d) ==
  Reports!Plain(Defaults[IF Reports!Outgoing(d) THEN "receivable" ELSE "payable"],
                Reports!Sided(TotalsOf(d).total, Reports!OpenItemIsDebit(d)))
TaxLineOf(d, t) ==
  Reports!Taxed(t.account, Reports!Sided(TotalsOf(d).groups[t].amount, ~Reports!OpenItemIsDebit(d)), t,
                TotalsOf(d).groups[t].base)
LineOf(d, k) ==
  IF k[1] = "open" THEN OpenLine(d)
  ELSE IF k[1] = "line" THEN Reports!NetLine(d, d.lines[k[2]]) ELSE TaxLineOf(d, k[2])
LineKeys(d) == {<<"line", i>> : i \in DOMAIN d.lines}
TaxKeys(d) == {<<"tax", t>> : t \in TaxesOf(d.lines)}
KeysOf(d) == {<<"open", 0>>} \cup LineKeys(d) \cup TaxKeys(d)

RequestOf(d) == Reports!DocumentRequest(d, Defaults)

LEMMA DocumentLines ==
  ASSUME NEW d
  PROVE  /\ DOMAIN RequestOf(d) = {k \in KeysOf(d) : LineOf(d, k).amount # 0}
         /\ \A k \in KeysOf(d) : LineOf(d, k).amount # 0 =>
              k \in DOMAIN RequestOf(d) /\ RequestOf(d)[k] = LineOf(d, k)
         /\ \A k \in DOMAIN RequestOf(d) :
              k \in KeysOf(d) /\ LineOf(d, k).amount # 0 /\ RequestOf(d)[k] = LineOf(d, k)
  <1> DEFINE totals == Reports!DocumentTotals(d.lines, d.inclusive)
             debit == Reports!OpenItemIsDebit(d)
             open == Reports!Plain(Defaults[IF Reports!Outgoing(d) THEN "receivable" ELSE "payable"],
                                   Reports!Sided(totals.total, debit))
             TaxLine(t) == Reports!Taxed(t.account, Reports!Sided(totals.groups[t].amount, ~debit), t,
                                         totals.groups[t].base)
             keys == {Reports!Only("open")} \cup ({"line"} \X DOMAIN d.lines) \cup ({"tax"} \X DOMAIN totals.groups)
             request == [k \in keys |-> CASE k[1] = "open" -> open
                                          [] k[1] = "line" -> Reports!NetLine(d, d.lines[k[2]])
                                          [] k[1] = "tax"  -> TaxLine(k[2])]
  <1>1. RequestOf(d) = [k \in {j \in keys : request[j].amount # 0} |-> request[k]]
    BY DEF RequestOf, Reports!DocumentRequest, Reports!NonZero, Reports!Restrict
  <1>2. open = OpenLine(d) /\ \A t : TaxLine(t) = TaxLineOf(d, t)
    BY DEF OpenLine, TaxLineOf, TotalsOf
  <1>3. keys = KeysOf(d)
    <2>1. DOMAIN totals.groups = TaxesOf(d.lines)
      BY DocumentSums DEF TotalsOf
    <2> HIDE DEF totals
    <2>2. {"line"} \X DOMAIN d.lines = LineKeys(d) /\ {"tax"} \X TaxesOf(d.lines) = TaxKeys(d)
      BY DEF LineKeys, TaxKeys
    <2>3. QED
      BY <2>1, <2>2 DEF KeysOf, Reports!Only
  <1> HIDE DEF open, TaxLine
  <1>4. \A k \in keys : request[k] = LineOf(d, k)
    <2>1. TAKE k \in keys
    <2>2. k[1] \in {"open", "line", "tax"}
      BY <1>3 DEF KeysOf, LineKeys, TaxKeys
    <2> HIDE DEF keys
    <2>3. QED
      BY <1>2, <2>1, <2>2 DEF LineOf
  <1> HIDE DEF request, keys
  <1>5. QED
    BY <1>1, <1>3, <1>4

(* The figures of this module are those of the instance.                   *)
LEMMA SameAmounts ==
  ASSUME NEW line, NEW inclusive
  PROVE  /\ Reports!LineAmounts(line, inclusive) = LineAmounts(line, inclusive)
         /\ Reports!Untaxed(line, inclusive) = Untaxed(line, inclusive)
  <1>1. \A n, d : Reports!Rounded(n, d) = Rounded(n, d)
    BY DEF Reports!Rounded, Rounded
  <1>2. \A taxes : Reports!CombinedRate(taxes) = CombinedRate(taxes)
    BY SameSum DEF Reports!CombinedRate, CombinedRate
  <1>3. Reports!LineAmounts(line, inclusive) = LineAmounts(line, inclusive)
    BY <1>1, <1>2 DEF Reports!LineAmounts, LineAmounts
  <1>4. QED
    BY <1>3 DEF Reports!Untaxed, Untaxed

LEMMA RoundedZero == Reports!Rounded(0, 100) = 0
  BY DEF Reports!Rounded

Apart(l) == l.account \in TaxAccounts <=> Counts(l.tag)

LEMMA PlainApart ==
  ASSUME NEW account, account \notin TaxAccounts, NEW amount
  PROVE  Apart(Reports!Plain(account, amount))
  BY DEF Apart, Counts, Reports!Plain

(* Taxes of drafts and payments are taxes.                                 *)
LEMMA TaxesAre ==
  ASSUME Reports!ReportsAssumption
  PROVE  /\ \A d \in Documents : \A i \in DOMAIN d.lines : \A t \in d.lines[i].taxes : t \in Taxes /\ t.rate \in Nat
         /\ \A p \in Payments : p.withholding # Null => p.withholding \in Taxes /\ p.withholding.rate \in Nat
  <1>1. \A d \in Documents : \A i \in DOMAIN d.lines : \A t \in d.lines[i].taxes : t # Null /\ t.rate \in Nat
    BY DEF Reports!ReportsAssumption, Reports!IsDraftLine, Reports!IsTax
  <1>2. \A p \in Payments : p.withholding # Null => p.withholding.rate \in Nat
    BY DEF Reports!ReportsAssumption, Reports!IsTax
  <1>3. ASSUME NEW d \in Documents, NEW i \in DOMAIN d.lines, NEW t \in d.lines[i].taxes
        PROVE  t \in Taxes
    <2>1. t \in TaxesOf(d.lines)
      BY DEF TaxesOf
    <2>2. LineTaxes = UNION {TaxesOf(e.lines) : e \in Documents}
      BY DEF LineTaxes, TaxesOf
    <2>3. t \in LineTaxes
      BY <2>1, <2>2
    <2>4. QED
      BY <1>1, <2>3 DEF Taxes
  <1>4. \A p \in Payments : p.withholding # Null => p.withholding \in Taxes
    <2>1. \A p \in Payments : p.withholding \in Withholdings
      BY DEF Withholdings
    <2>2. QED
      BY <2>1 DEF Taxes
  <1>5. QED
    BY <1>1, <1>2, <1>3, <1>4

LEMMA ChargedZero ==
  ASSUME Reports!ReportsAssumption, NEW d \in Documents, NEW t \in TaxesOf(d.lines), t.rate = 0
  PROVE  TotalsOf(d).groups[t].amount = 0
  <1>1. PICK C : C = ChargedLines(d, t)
    OBVIOUS
  <1>2. PICK f : f = [i \in C |-> TaxOf(d, t, i)]
    OBVIOUS
  <1>3. IsFiniteSet(C) /\ \A i \in C : Reports!IsDraftLine(d.lines[i]) /\ t \in d.lines[i].taxes
    <2>1. C \in SUBSET DOMAIN d.lines /\ IsFiniteSet(DOMAIN d.lines)
      BY <1>1, SameFinite DEF ChargedLines, Reports!ReportsAssumption
    <2>2. IsFiniteSet(C)
      BY <2>1, FS_Subset
    <2>3. QED
      BY <1>1, <2>2 DEF ChargedLines, Reports!ReportsAssumption
  <1>4. ASSUME NEW i \in C PROVE f[i] = 0
    <2>1. PICK n \in Int : n = NetOf(d, i)
      BY <1>3, LineAmountsInt DEF NetOf
    <2>2. TaxOf(d, t, i) = Reports!Rounded(n * t.rate, 100)
      BY <1>3, <2>1 DEF TaxOf, NetOf, Reports!LineAmounts
    <2>3. n * t.rate = 0
      <3>1. n * 0 = 0
        OBVIOUS
      <3>2. QED
        BY <3>1
    <2>4. QED
      BY <1>2, <2>2, <2>3, RoundedZero
  <1>5. SumFunctionOnSet(f, C) = 0
    BY <1>3, <1>4, SumZero
  <1>6. QED
    BY <1>1, <1>2, <1>5, DocumentSums

LEMMA DocumentApart ==
  ASSUME Reports!ReportsAssumption, TaxesPlaced, NEW d \in Documents
  PROVE  \A k \in DOMAIN RequestOf(d) : Apart(RequestOf(d)[k])
  <1>1. SUFFICES ASSUME NEW k \in KeysOf(d), LineOf(d, k).amount # 0
                 PROVE  Apart(LineOf(d, k))
    <2>1. \A k \in DOMAIN RequestOf(d) :
            k \in KeysOf(d) /\ LineOf(d, k).amount # 0 /\ RequestOf(d)[k] = LineOf(d, k)
      BY DocumentLines
    <2>2. QED
      BY <2>1
  <1>2. CASE k = <<"open", 0>>
    <2>1. Defaults["receivable"] \notin TaxAccounts /\ Defaults["payable"] \notin TaxAccounts
      BY DEF Reports!ReportsAssumption, Reports!DefaultNames, TaxesPlaced
    <2>2. LineOf(d, k) = OpenLine(d)
      BY <1>2 DEF LineOf
    <2>3. QED
      BY <2>1, <2>2, PlainApart DEF OpenLine
  <1>3. CASE k \in LineKeys(d)
    <2>1. PICK i \in DOMAIN d.lines : k = <<"line", i>>
      BY <1>3 DEF LineKeys
    <2>2. PICK line : line = d.lines[i]
      OBVIOUS
    <2>3. LineOf(d, k) = Reports!NetLine(d, line)
      BY <2>1, <2>2 DEF LineOf
    <2>4. PICK untaxed : untaxed = Reports!Untaxed(line, d.inclusive)
      OBVIOUS
    <2>5. line.account \notin TaxAccounts
      BY <2>2 DEF TaxesPlaced
    <2>6. CASE untaxed = {}
      BY <2>3, <2>4, <2>5, <2>6, PlainApart DEF Reports!NetLine
    <2>7. CASE untaxed # {}
      <3>1. PICK t : t = CHOOSE u \in untaxed : TRUE
        OBVIOUS
      <3>2. t \in untaxed
        BY <2>7, <3>1
      <3>3. t.rate = 0 /\ t \in line.taxes
        BY <2>2, <2>4, <3>2, SameAmounts DEF TaxesPlaced, Untaxed
      <3>4. t \in Taxes
        BY <2>2, <3>3, TaxesAre
      <3>5. ~Counts(t.tag)
        BY <3>3, <3>4 DEF TaxesPlaced, Counts
      <3>6. LineOf(d, k).account = line.account /\ LineOf(d, k).tag = t.tag
        BY <2>3, <2>4, <2>7, <3>1 DEF Reports!NetLine, Reports!Taxed
      <3>7. QED
        BY <2>5, <3>5, <3>6 DEF Apart
    <2>8. QED
      BY <2>6, <2>7
  <1>4. CASE k \in TaxKeys(d)
    <2>1. PICK t \in TaxesOf(d.lines) : k = <<"tax", t>>
      BY <1>4 DEF TaxKeys
    <2>2. LineOf(d, k) = TaxLineOf(d, t)
      BY <2>1 DEF LineOf
    <2>3. LineOf(d, k).account = t.account /\ LineOf(d, k).tag = t.tag
          /\ LineOf(d, k).amount = Reports!Sided(TotalsOf(d).groups[t].amount, ~Reports!OpenItemIsDebit(d))
      BY <2>2 DEF TaxLineOf, Reports!Taxed
    <2>4. t \in Taxes /\ t.rate \in Nat
      BY TaxesAre DEF TaxesOf
    <2>5. t.rate # 0
      <3>1. PICK a : a = TotalsOf(d).groups[t].amount
        OBVIOUS
      <3>2. LineOf(d, k).amount = IF ~Reports!OpenItemIsDebit(d) THEN a ELSE -a
        BY <2>3, <3>1 DEF Reports!Sided
      <3>3. a # 0
        BY <1>1, <3>2
      <3>4. QED
        BY <3>1, <3>3, ChargedZero
    <2>6. Counts(t.tag)
      <3>1. t.rate > 0
        BY <2>4, <2>5
      <3>2. QED
        BY <2>4, <3>1 DEF TaxesPlaced, Counts
    <2>7. t.account \in TaxAccounts
      BY <2>4 DEF TaxAccounts
    <2>8. QED
      BY <2>3, <2>6, <2>7 DEF Apart
  <1>5. QED
    BY <1>1, <1>2, <1>3, <1>4 DEF KeysOf

LEMMA PaymentApart ==
  ASSUME Reports!ReportsAssumption, TaxesPlaced, NEW p \in Payments, NEW lines,
         \/ lines = Reports!PaymentRequest(p, Defaults)
         \/ lines = Reports!BankRequest(p, Defaults.bank, Defaults)
  PROVE  \A k \in DOMAIN lines : Apart(lines[k])
  <1>1. \A name \in {"receivable", "payable", "bank", "outstanding_receipts", "outstanding_payments"} :
          Defaults[name] \notin TaxAccounts
    BY DEF Reports!ReportsAssumption, Reports!DefaultNames, TaxesPlaced
  <1>2. CASE lines = Reports!PaymentRequest(p, Defaults)
    <2> DEFINE inbound == p.direction = "inbound"
               withheld == Reports!Withheld(p)
               partner == Reports!Plain(Defaults[IF inbound THEN "receivable" ELSE "payable"],
                                        Reports!Sided(p.amount, ~inbound))
               moves == Reports!Plain(Defaults[IF inbound THEN "outstanding_receipts" ELSE "outstanding_payments"],
                                      Reports!Sided(p.amount - withheld, inbound))
               tax == p.withholding
               untagged == Reports!Plain(tax.account, Reports!Sided(withheld, inbound))
               taxed == [untagged EXCEPT !.tax = tax.name, !.tag = tax.tag]
               keys == {Reports!Only("partner"), Reports!Only("moves")} \cup (IF withheld > 0 THEN {Reports!Only("tax")} ELSE {})
               request == [k \in keys |-> CASE k[1] = "partner" -> partner
                                            [] k[1] = "moves"   -> moves
                                            [] k[1] = "tax"     -> taxed]
    <2>1. lines = request
      BY <1>2 DEF Reports!PaymentRequest
    <2>2. Apart(partner) /\ Apart(moves)
      BY <1>1, PlainApart
    <2>3. withheld > 0 => Apart(taxed)
      <3>1. SUFFICES ASSUME withheld > 0 PROVE Apart(taxed)
        OBVIOUS
      <3>2. tax # Null
        BY <3>1 DEF Reports!Withheld
      <3>3. tax \in Taxes /\ tax.rate \in Nat
        BY <3>2, TaxesAre
      <3>4. tax.rate # 0
        <4>1. SUFFICES ASSUME tax.rate = 0 PROVE FALSE
          OBVIOUS
        <4>2. p.amount \in Int
          BY DEF Reports!ReportsAssumption
        <4>3. p.amount * 0 = 0
          BY <4>2
        <4>4. p.amount * tax.rate = 0
          BY <4>1, <4>3
        <4>5. withheld = 0
          BY <3>2, <4>4, RoundedZero DEF Reports!Withheld
        <4>6. QED
          BY <3>1, <4>5
      <3>5. Counts(tax.tag) /\ tax.account \in TaxAccounts
        <4>1. tax.rate > 0
          BY <3>3, <3>4
        <4>2. QED
          BY <3>3, <4>1 DEF TaxesPlaced, Counts, TaxAccounts
      <3>6. DOMAIN untagged = {"account", "amount", "tax", "tag", "base"} /\ untagged.account = tax.account
        BY DEF Reports!Plain
      <3> HIDE DEF untagged
      <3>7. taxed.account = tax.account /\ taxed.tag = tax.tag
        BY <3>6
      <3>8. QED
        BY <3>5, <3>7 DEF Apart
    <2> HIDE DEF partner, moves, taxed, withheld
    <2>4. \A k \in keys : Apart(request[k])
      BY <2>2, <2>3 DEF Reports!Only
    <2>5. QED
      BY <2>1, <2>4
  <1>3. CASE lines = Reports!BankRequest(p, Defaults.bank, Defaults)
    <2> DEFINE inbound == p.direction = "inbound"
               amount == p.amount - Reports!Withheld(p)
               bank == Reports!Plain(Defaults.bank, Reports!Sided(amount, inbound))
               moves == Reports!Plain(Defaults[IF inbound THEN "outstanding_receipts" ELSE "outstanding_payments"],
                                      Reports!Sided(amount, ~inbound))
    <2>1. Apart(bank) /\ Apart(moves)
      BY <1>1, PlainApart
    <2>2. lines = [k \in {Reports!Only("bank"), Reports!Only("moves")} |-> IF k[1] = "bank" THEN bank ELSE moves]
      BY <1>3 DEF Reports!BankRequest
    <2> HIDE DEF bank, moves
    <2>3. QED
      BY <2>1, <2>2
  <1>4. QED
    BY <1>2, <1>3

LEMMA StoredApart ==
  ASSUME NEW lines, \A k \in DOMAIN lines : Apart(lines[k]), NEW rate, NEW rounding, rounding \notin TaxAccounts,
         NEW stored, stored = Reports!ConvertLines(lines, rate, rounding)
  PROVE  \A k \in DOMAIN stored : Apart(stored[k])
  <1>1. PICK converted : converted = Reports!Converted(lines, rate)
    OBVIOUS
  <1>2. DOMAIN converted = DOMAIN lines /\ \A k \in DOMAIN lines : Apart(converted[k])
    BY <1>1 DEF Reports!Converted, Reports!Stored, Apart
  <1>3. PICK difference : difference = Reports!RoundingDifference(lines, rate)
    OBVIOUS
  <1>4. CASE difference = 0
    BY <1>1, <1>2, <1>3, <1>4 DEF Reports!ConvertLines
  <1>5. CASE difference # 0
    <2> DEFINE line == Reports!Stored(Reports!Plain(rounding, 0), -difference)
               last == [line EXCEPT !.currency = 0]
               keys == DOMAIN lines \cup {Reports!Only("rounding")}
    <2>1. Apart(last)
      <3>1. DOMAIN line = {"account", "amount", "currency", "tax", "tag", "base"} /\ line.account = rounding /\ line.tag = Null
        BY DEF Reports!Stored, Reports!Plain
      <3> HIDE DEF line
      <3>2. last.account = rounding /\ last.tag = Null
        BY <3>1
      <3>3. QED
        BY <3>2 DEF Apart, Counts
    <2>2. stored = [k \in keys |-> IF k = Reports!Only("rounding") THEN last ELSE converted[k]]
      BY <1>1, <1>3, <1>5 DEF Reports!ConvertLines
    <2> HIDE DEF last
    <2>3. QED
      BY <1>2, <2>1, <2>2
  <1>6. QED
    BY <1>4, <1>5

LEMMA PostApart ==
  ASSUME Reports!ReportsAssumption, TaxesPlaced, TaxesApart, NEW source, NEW on, NEW currency, NEW journal,
         NEW lines, \A k \in DOMAIN lines : Apart(lines[k]),
         Reports!Post(source, on, currency, journal, lines)
  PROVE  TaxesApart'
  <1>1. PICK stored : stored = Reports!ConvertLines(lines, Reports!GetRate(currency, on), Defaults.rounding)
    OBVIOUS
  <1>2. Defaults.rounding \notin TaxAccounts
    BY DEF Reports!ReportsAssumption, Reports!DefaultNames, TaxesPlaced
  <1>3. \A k \in DOMAIN stored : Apart(stored[k])
    BY <1>1, <1>2, StoredApart
  <1>4. posted' = posted \cup {Reports!Dated(stored[i], source, i, on, journal) : i \in DOMAIN stored}
    BY <1>1 DEF Reports!Post
  <1>5. \A l \in posted' : Apart(l)
    BY <1>3, <1>4 DEF Reports!Dated, TaxesApart, Apart
  <1>6. QED
    BY <1>5 DEF TaxesApart, Apart

LEMMA CancelApart ==
  ASSUME Booked, TaxesApart, NEW e \in entries, Reports!Cancel(e)
  PROVE  TaxesApart'
  <1>1. PICK s : s = <<"reversal", e.source>>
    OBVIOUS
  <1>2. posted' = posted \cup {OppositeFor(s, l) : l \in LinesOf(e.source)}
    BY <1>1, SameOpposite DEF Reports!Cancel, Reports!LinesOf, LinesOf
  <1>3. \A l \in posted : Apart(l) /\ IsPosted(l)
    BY DEF TaxesApart, Apart, Booked
  <1>4. \A l \in LinesOf(e.source) : Apart(OppositeFor(s, l))
    BY <1>3, OppositeLine DEF IsOppositeOf, LinesOf, Apart
  <1>5. \A l \in posted' : Apart(l)
    BY <1>2, <1>3, <1>4
  <1>6. QED
    BY <1>5 DEF TaxesApart, Apart

LEMMA ApartKept ==
  ASSUME Reports!ReportsAssumption, TaxesPlaced, Books, TaxesApart, [Reports!Next]_(Reports!vars)
  PROVE  TaxesApart'
  <1>1. ASSUME NEW d \in Documents, Reports!Issue(d) PROVE TaxesApart'
    BY <1>1, DocumentApart, PostApart DEF Reports!Issue, RequestOf
  <1>2. ASSUME NEW p \in Payments, Reports!Pay(p) PROVE TaxesApart'
    BY <1>2, PaymentApart, PostApart DEF Reports!Pay
  <1>3. ASSUME NEW p \in Payments, NEW on \in BookDays, Reports!Reconcile(p, on) PROVE TaxesApart'
    BY <1>3, PaymentApart, PostApart DEF Reports!Reconcile
  <1>4. ASSUME NEW e \in entries, Reports!Cancel(e) PROVE TaxesApart'
    BY <1>4, CancelApart DEF Books
  <1>5. ASSUME UNCHANGED posted PROVE TaxesApart'
    BY <1>5 DEF TaxesApart
  <1>6. QED
    BY <1>1, <1>2, <1>3, <1>4, <1>5 DEF Reports!Next, Reports!SetRate, Reports!ImportRates, Reports!vars

(* What the return of a period says is due is what moved the accounts of   *)
(* the taxes in it, cancelled or not (vat_return.py), of taxes that have   *)
(* a tag and accounts of their own.                                        *)
THEOREM VatAlwaysAgrees ==
  ASSUME Reports!ReportsAssumption, TaxesPlaced
  PROVE  Reports!Spec => []VatAgrees
  <1>1. Reports!Init => TaxesApart
    BY DEF Reports!Init, TaxesApart
  <1>2. Books /\ TaxesApart /\ [Reports!Next]_(Reports!vars) => TaxesApart'
    BY ApartKept
  <1>3. Books /\ TaxesApart => VatAgrees
    BY VatDoesAgree DEF Books
  <1>4. QED
    BY <1>1, <1>2, <1>3, BooksAlways, PTL DEF Reports!Spec

-----------------------------------------------------------------------------
(* A draft at a rate: a rounded quotient is within half a unit.            *)
LEMMA DivFacts ==
  ASSUME NEW a \in Int, NEW b \in Nat \ {0}
  PROVE  /\ a \div b \in Int
         /\ b * (a \div b) <= a /\ a < b * (a \div b) + b
  OBVIOUS

LEMMA RoundedNear ==
  ASSUME NEW x \in Int, NEW per \in Nat \ {0}
  PROVE  /\ Rounded(x, per) \in Int
         /\ 2 * (per * Rounded(x, per)) <= 2 * x + per
         /\ 2 * x - per <= 2 * (per * Rounded(x, per))
         /\ x >= 0 => Rounded(x, per) >= 0
  <1>1. CASE x >= 0
    <2>1. PICK a, b : a = 2 * x + per /\ b = 2 * per
      OBVIOUS
    <2>2. a \in Nat /\ b \in Nat \ {0}
      BY <1>1, <2>1
    <2>3. PICK q \in Int : q = a \div b
      BY <2>2, DivFacts
    <2>4. b * q <= a /\ a < b * q + b
      BY <2>2, <2>3, DivFacts
    <2>5. q >= 0
      BY <2>2, <2>3
    <2>6. b * q = 2 * (per * q)
      BY <2>1
    <2>7. Rounded(x, per) = q
      BY <1>1, <2>1, <2>3 DEF Rounded
    <2>8. 2 * (per * q) <= 2 * x + per /\ 2 * x + per < 2 * (per * q) + 2 * per
      BY <2>1, <2>4, <2>6
    <2>9. per * q \in Int
      OBVIOUS
    <2>10. QED
      BY <2>5, <2>7, <2>8, <2>9
  <1>2. CASE x < 0
    <2>1. PICK a, b : a = per - 2 * x /\ b = 2 * per
      OBVIOUS
    <2>2. a \in Nat /\ b \in Nat \ {0}
      BY <1>2, <2>1
    <2>3. PICK q \in Int : q = a \div b
      BY <2>2, DivFacts
    <2>4. b * q <= a /\ a < b * q + b
      BY <2>2, <2>3, DivFacts
    <2>6. b * q = 2 * (per * q) /\ per * (-q) = -(per * q) /\ per * q \in Int
      BY <2>1
    <2>7. Rounded(x, per) = -q
      BY <1>2, <2>1, <2>3 DEF Rounded
    <2>8. 2 * (per * q) <= per - 2 * x /\ per - 2 * x < 2 * (per * q) + 2 * per
      BY <2>1, <2>4, <2>6
    <2>10. QED
      BY <1>2, <2>6, <2>7, <2>8
  <1>3. QED
    BY <1>1, <1>2

(* What conversion makes of an entry that balances.                        *)
AmountsOf(lines) == [k \in DOMAIN lines |-> lines[k].amount]

LEMMA ConversionBalances ==
  ASSUME NEW lines, IsFiniteSet(DOMAIN lines), IntOn(AmountsOf(lines), DOMAIN lines),
         SumFunctionOnSet(AmountsOf(lines), DOMAIN lines) = 0, Only("rounding") \notin DOMAIN lines,
         NEW rate, rate.of \in Int, rate.per \in Nat \ {0}, NEW rounding
  PROVE  /\ WithinRounding(lines, rate)
         /\ Total(ConvertLines(lines, rate, rounding), LAMBDA line : line.amount) = 0
         /\ Total(ConvertLines(lines, rate, rounding), LAMBDA line : line.currency) = 0
         /\ \A k \in DOMAIN lines :
              /\ k \in DOMAIN ConvertLines(lines, rate, rounding)
              /\ ConvertLines(lines, rate, rounding)[k] = Stored(lines[k], Rounded(lines[k].amount * rate.of, rate.per))
         /\ \A k \in DOMAIN ConvertLines(lines, rate, rounding) :
              k \notin DOMAIN lines => ConvertLines(lines, rate, rounding)[k].base = Null
  <1>1. PICK S : S = DOMAIN lines
    OBVIOUS
  <1>2. PICK of, per : of = rate.of /\ per = rate.per
    OBVIOUS
  <1>3. of \in Int /\ per \in Nat \ {0}
    BY <1>2
  <1>4. PICK a : a = AmountsOf(lines)
    OBVIOUS
  <1>5. IntOn(a, S) /\ SumFunctionOnSet(a, S) = 0 /\ IsFiniteSet(S) /\ \A k \in S : a[k] = lines[k].amount
    BY <1>1, <1>4 DEF AmountsOf
  <1>6. PICK r : r = [k \in S |-> Rounded(a[k] * of, per)]
    OBVIOUS
  <1>7. \A k \in S : /\ a[k] * of \in Int /\ r[k] \in Int
                     /\ 2 * (per * r[k]) <= 2 * (a[k] * of) + per
                     /\ 2 * (a[k] * of) - per <= 2 * (per * r[k])
    <2>1. TAKE k \in S
    <2>2. PICK x \in Int : x = a[k]
      BY <1>5 DEF IntOn
    <2>3. x * of \in Int
      BY <1>3
    <2>4. QED
      BY <1>3, <1>6, <2>2, <2>3, RoundedNear
  <1>8. PICK converted : converted = Converted(lines, rate)
    OBVIOUS
  <1>9. DOMAIN converted = S /\ \A k \in S : converted[k] = Stored(lines[k], r[k])
    BY <1>1, <1>2, <1>5, <1>6, <1>8 DEF Converted
  <1>10. PICK difference : difference = SumFunctionOnSet(r, S)
    OBVIOUS
  <1>11. RoundingDifference(lines, rate) = difference /\ difference \in Int
    <2>1. PICK f : f = [k \in DOMAIN converted |-> converted[k].amount]
      OBVIOUS
    <2>2. \A k \in S : f[k] = r[k]
      BY <1>9, <2>1 DEF Stored
    <2>3. RoundingDifference(lines, rate) = SumFunctionOnSet(f, S)
      BY <1>8, <1>9, <2>1 DEF RoundingDifference, Total
    <2>4. SumFunctionOnSet(f, S) = difference
      BY <1>5, <1>10, <2>2, SumSame
    <2>5. IntOn(r, S)
      BY <1>7 DEF IntOn
    <2>6. QED
      BY <1>5, <1>10, <2>3, <2>4, <2>5, SumInt
  <1>12. PICK n \in Nat : n = Cardinality(S)
    BY <1>5, FS_CardinalityType
  <1>13. 2 * (per * difference) <= per * n /\ -(per * n) <= 2 * (per * difference)
    <2>1. PICK f, g : f = [k \in S |-> (2 * per) * r[k]] /\ g = [k \in S |-> (2 * of) * a[k]]
      OBVIOUS
    <2>2. \A k \in S : /\ f[k] \in Int /\ g[k] \in Int /\ f[k] = (2 * per) * r[k] /\ g[k] = (2 * of) * a[k]
                       /\ f[k] <= g[k] + per /\ g[k] <= f[k] + per
      <3>1. TAKE k \in S
      <3>2. PICK x \in Int, y \in Int : x = a[k] /\ y = r[k]
        BY <1>5, <1>7 DEF IntOn
      <3>3. f[k] = 2 * (per * y) /\ g[k] = 2 * (x * of)
        BY <1>3, <2>1, <3>2
      <3>4. per * y \in Int /\ x * of \in Int
        BY <1>3
      <3>5. 2 * (per * y) <= 2 * (x * of) + per /\ 2 * (x * of) - per <= 2 * (per * y)
        BY <1>7, <3>2
      <3>6. QED
        BY <1>3, <2>1, <3>2, <3>3, <3>4, <3>5
    <2>3. IntOn(f, S) /\ IntOn(g, S) /\ IntOn(r, S)
      BY <1>7, <2>2 DEF IntOn
    <2>4. SumFunctionOnSet(f, S) = (2 * per) * difference
      <3>1. 2 * per \in Int
        BY <1>3
      <3>2. QED
        BY <1>5, <1>10, <2>2, <2>3, <3>1, SumScaled
    <2>5. SumFunctionOnSet(g, S) = 0
      <3>1. 2 * of \in Int /\ (2 * of) * 0 = 0
        BY <1>3
      <3>2. SumFunctionOnSet(g, S) = (2 * of) * SumFunctionOnSet(a, S)
        BY <1>5, <2>2, <3>1, SumScaled
      <3>3. QED
        BY <1>5, <3>1, <3>2
    <2>6. SumFunctionOnSet(f, S) <= SumFunctionOnSet(g, S) + per * Cardinality(S)
      BY <1>3, <1>5, <2>2, <2>3, SumNear
    <2>7. SumFunctionOnSet(g, S) <= SumFunctionOnSet(f, S) + per * Cardinality(S)
      BY <1>3, <1>5, <2>2, <2>3, SumNear
    <2>8. (2 * per) * difference = 2 * (per * difference) /\ per * difference \in Int /\ per * n \in Int
      BY <1>3, <1>11
    <2>9. QED
      BY <1>12, <2>4, <2>5, <2>6, <2>7, <2>8
  <1>14. 2 * difference <= n /\ -n <= 2 * difference
    <2>1. per * (2 * difference) <= per * n /\ per * (-n) <= per * (2 * difference)
      BY <1>3, <1>11, <1>13
    <2>2. QED
      BY <1>3, <1>11, <2>1
  <1>15. WithinRounding(lines, rate)
    BY <1>1, <1>11, <1>12, <1>14 DEF WithinRounding, Magnitude
  <1>16. PICK stored : stored = ConvertLines(lines, rate, rounding)
    OBVIOUS
  <1>17. CASE difference = 0
    <2>1. stored = converted
      BY <1>8, <1>11, <1>16, <1>17 DEF ConvertLines
    <2>2. PICK f, g : f = [k \in DOMAIN stored |-> stored[k].amount] /\ g = [k \in DOMAIN stored |-> stored[k].currency]
      OBVIOUS
    <2>3. \A k \in S : f[k] = r[k] /\ g[k] = a[k]
      BY <1>5, <1>9, <2>1, <2>2 DEF Stored
    <2>4. SumFunctionOnSet(f, S) = 0 /\ SumFunctionOnSet(g, S) = 0
      <3>1. SumFunctionOnSet(f, S) = SumFunctionOnSet(r, S)
        BY <1>5, <2>3, SumSame
      <3>2. SumFunctionOnSet(g, S) = SumFunctionOnSet(a, S)
        BY <1>5, <2>3, SumSame
      <3>3. QED
        BY <1>5, <1>10, <1>17, <3>1, <3>2
    <2>5. Total(stored, LAMBDA line : line.amount) = SumFunctionOnSet(f, S)
      BY <1>9, <2>1, <2>2 DEF Total
    <2>6. Total(stored, LAMBDA line : line.currency) = SumFunctionOnSet(g, S)
      BY <1>9, <2>1, <2>2 DEF Total
    <2>7. /\ \A k \in S : k \in DOMAIN stored /\ stored[k] = Stored(lines[k], r[k])
          /\ \A k \in DOMAIN stored : k \in S
      BY <1>9, <2>1
    <2>8. \A k \in S : r[k] = Rounded(lines[k].amount * rate.of, rate.per)
      BY <1>2, <1>5, <1>6
    <2>9. \A k \in DOMAIN stored : k \notin S => stored[k].base = Null
      BY <2>7
    <2>10. \A k \in S : k \in DOMAIN stored /\ stored[k] = Stored(lines[k], r[k])
      BY <2>7
    <2>11. Total(stored, LAMBDA line : line.amount) = 0 /\ Total(stored, LAMBDA line : line.currency) = 0
      BY <2>4, <2>5, <2>6
    <2>12. QED
      BY <1>1, <1>15, <1>16, <2>8, <2>9, <2>10, <2>11
  <1>18. CASE difference # 0
    <2> DEFINE line == Stored(Plain(rounding, 0), -difference)
               last == [line EXCEPT !.currency = 0]
    <2>1. last.amount = -difference /\ last.currency = 0 /\ last.base = Null
      <3>1. /\ DOMAIN line = {"account", "amount", "currency", "tax", "tag", "base"}
            /\ line.amount = -difference /\ line.base = Null
        BY DEF Stored, Plain
      <3> HIDE DEF line
      <3>2. QED
        BY <3>1
    <2>2. PICK e : e = Only("rounding")
      OBVIOUS
    <2>3. stored = [k \in S \cup {e} |-> IF k = e THEN last ELSE converted[k]]
      BY <1>1, <1>8, <1>11, <1>16, <1>18, <2>2 DEF ConvertLines
    <2> HIDE DEF last
    <2>4. DOMAIN stored = S \cup {e} /\ e \notin S /\ stored[e] = last /\ \A k \in S : stored[k] = converted[k]
      BY <1>1, <2>2, <2>3
    <2>5. PICK f, g : f = [k \in DOMAIN stored |-> stored[k].amount] /\ g = [k \in DOMAIN stored |-> stored[k].currency]
      OBVIOUS
    <2>6. (\A k \in S : f[k] = r[k] /\ g[k] = a[k]) /\ f[e] = -difference /\ g[e] = 0
      BY <1>5, <1>9, <2>1, <2>4, <2>5 DEF Stored
    <2>7. IntOn(r, S) /\ f[e] \in Int /\ g[e] \in Int
      BY <1>7, <1>11, <2>6 DEF IntOn
    <2>8. SumFunctionOnSet(f, S \cup {e}) = difference + f[e]
      BY <1>5, <1>10, <2>4, <2>6, <2>7, SumJoined
    <2>9. SumFunctionOnSet(g, S \cup {e}) = 0 + g[e]
      BY <1>5, <2>4, <2>6, <2>7, SumJoined
    <2>10. SumFunctionOnSet(f, S \cup {e}) = 0 /\ SumFunctionOnSet(g, S \cup {e}) = 0
      BY <1>11, <2>6, <2>8, <2>9
    <2>11. Total(stored, LAMBDA l : l.amount) = SumFunctionOnSet(f, S \cup {e})
      BY <2>4, <2>5 DEF Total
    <2>12. Total(stored, LAMBDA l : l.currency) = SumFunctionOnSet(g, S \cup {e})
      BY <2>4, <2>5 DEF Total
    <2>13. \A k \in S : k \in DOMAIN stored /\ stored[k] = Stored(lines[k], r[k])
      BY <1>9, <2>4
    <2>14. \A k \in S : r[k] = Rounded(lines[k].amount * rate.of, rate.per)
      BY <1>2, <1>5, <1>6
    <2>15. \A k \in DOMAIN stored : k \notin S => stored[k].base = Null
      BY <2>1, <2>4
    <2>16. QED
      BY <1>1, <1>15, <1>16, <2>10, <2>11, <2>12, <2>13, <2>14, <2>15
  <1>19. QED
    BY <1>17, <1>18

LEMMA SameRounded == \A n, d : Reports!Rounded(n, d) = Rounded(n, d)
  BY DEF Reports!Rounded, Rounded

LEMMA NetsNat ==
  ASSUME Reports!ReportsAssumption, NEW d \in Documents, NEW i \in DOMAIN d.lines
  PROVE  /\ NetOf(d, i) \in Nat
         /\ \A t \in d.lines[i].taxes : /\ t.rate \in Nat /\ TaxOf(d, t, i) \in Nat
                                        /\ TaxOf(d, t, i) = Rounded(NetOf(d, i) * t.rate, 100)
  <1>1. PICK line : line = d.lines[i]
    OBVIOUS
  <1>2. Reports!IsDraftLine(line)
    BY <1>1 DEF Reports!ReportsAssumption
  <1>3. PICK q \in Nat, p \in Nat, r \in Nat : q = line.quantity /\ p = line.price /\ r = 100 - line.discount
    <2>1. line.quantity \in Nat /\ line.price \in Nat /\ line.discount \in 0..100
      BY <1>2 DEF Reports!IsDraftLine
    <2>2. 100 - line.discount \in Nat
      BY <2>1
    <2>3. QED
      BY <2>1, <2>2
  <1>4. q * p * r \in Nat
    <2>1. q * p \in Nat
      OBVIOUS
    <2>2. QED
      BY <2>1
  <1>5. PICK combined : combined = IF d.inclusive THEN CombinedRate(line.taxes) ELSE 0
    OBVIOUS
  <1>6. combined \in Nat
    <2>1. PICK f : f = [t \in line.taxes |-> t.rate]
      OBVIOUS
    <2>2. IsFiniteSet(line.taxes) /\ \A t \in line.taxes : f[t] \in Nat
      BY <1>2, <2>1, SameFinite DEF Reports!IsDraftLine, Reports!IsTax
    <2>3. SumFunctionOnSet(f, line.taxes) \in Nat
      BY <2>2, SumNat
    <2>4. QED
      BY <1>5, <2>1, <2>3 DEF CombinedRate
  <1>7. PICK net : net = Rounded(q * p * r, 100 * (100 + combined))
    OBVIOUS
  <1>8. net \in Nat
    <2>1. PICK x \in Nat, y \in Nat \ {0} : x = q * p * r /\ y = 100 * (100 + combined)
      BY <1>4, <1>6
    <2>2. Rounded(x, y) \in Int /\ Rounded(x, y) >= 0
      BY RoundedNear
    <2>3. QED
      BY <1>7, <2>1, <2>2
  <1>9. LineAmounts(line, d.inclusive) = [net |-> net, tax |-> [t \in line.taxes |-> Rounded(net * t.rate, 100)]]
    BY <1>3, <1>5, <1>7 DEF LineAmounts
  <1>10. NetOf(d, i) = net /\ \A t \in line.taxes : TaxOf(d, t, i) = Rounded(net * t.rate, 100)
    BY <1>1, <1>9, SameAmounts DEF NetOf, TaxOf
  <1>11. ASSUME NEW t \in line.taxes PROVE t.rate \in Nat /\ Rounded(net * t.rate, 100) \in Nat
    <2>1. t.rate \in Nat
      BY <1>2 DEF Reports!IsDraftLine, Reports!IsTax
    <2>2. PICK x \in Nat : x = net * t.rate
      BY <1>8, <2>1
    <2>3. Rounded(x, 100) \in Int /\ Rounded(x, 100) >= 0
      BY RoundedNear
    <2>4. QED
      BY <2>1, <2>2, <2>3
  <1>12. QED
    BY <1>1, <1>8, <1>10, <1>11

(* A line of a document is on the side its open item is not.               *)
Side(d) == IF Reports!OpenItemIsDebit(d) THEN -1 ELSE 1

LEMMA SidedBy ==
  ASSUME NEW d, NEW a \in Int
  PROVE  /\ Reports!Sided(a, Reports!OpenItemIsDebit(d)) = -(Side(d) * a)
         /\ Reports!Sided(a, ~Reports!OpenItemIsDebit(d)) = Side(d) * a
         /\ Side(d) \in {-1, 1}
  <1>1. CASE Reports!OpenItemIsDebit(d)
    BY <1>1 DEF Reports!Sided, Side
  <1>2. CASE ~Reports!OpenItemIsDebit(d)
    BY <1>2 DEF Reports!Sided, Side
  <1>3. QED
    BY <1>1, <1>2

NetsOf(d) == SumFunctionOnSet([i \in DOMAIN d.lines |-> NetOf(d, i)], DOMAIN d.lines)
TaxesTotal(d) ==
  SumFunctionOnSet([t \in TaxesOf(d.lines) |-> TotalsOf(d).groups[t].amount], TaxesOf(d.lines))

LEMMA DocumentAmounts ==
  ASSUME Reports!ReportsAssumption, NEW d \in Documents
  PROVE  /\ IsFiniteSet(DOMAIN d.lines) /\ IsFiniteSet(TaxesOf(d.lines))
         /\ NetsOf(d) \in Int /\ TaxesTotal(d) \in Int
         /\ TotalsOf(d).total = NetsOf(d) + TaxesTotal(d)
         /\ \A t \in TaxesOf(d.lines) : TotalsOf(d).groups[t].amount \in Int /\ TotalsOf(d).groups[t].base \in Int
         /\ LineOf(d, <<"open", 0>>).amount = -(Side(d) * (NetsOf(d) + TaxesTotal(d)))
         /\ \A i \in DOMAIN d.lines : LineOf(d, <<"line", i>>).amount = Side(d) * NetOf(d, i)
         /\ \A t \in TaxesOf(d.lines) : LineOf(d, <<"tax", t>>).amount = Side(d) * TotalsOf(d).groups[t].amount
         /\ NetsOf(d) + TaxesTotal(d) > 0 => \E i \in DOMAIN d.lines : NetOf(d, i) # 0
  <1>1. IsDraft(d) /\ IsFiniteSet(DOMAIN d.lines) /\ IsFiniteSet(TaxesOf(d.lines))
    BY SameFinite, TaxesFinite DEF Reports!ReportsAssumption, IsDraft
  <1>2. /\ TotalsOf(d).total \in Int
        /\ \A t \in TaxesOf(d.lines) : TotalsOf(d).groups[t].amount \in Int /\ TotalsOf(d).groups[t].base \in Int
    BY <1>1, TotalsInt DEF TotalsOf
  <1>3. TotalsOf(d).total = NetsOf(d) + TaxesTotal(d)
    BY DocumentSums DEF NetsOf, TaxesTotal
  <1>4. PICK f, g : /\ f = [i \in DOMAIN d.lines |-> NetOf(d, i)]
                    /\ g = [t \in TaxesOf(d.lines) |-> TotalsOf(d).groups[t].amount]
    OBVIOUS
  <1>5. IntOn(f, DOMAIN d.lines) /\ IntOn(g, TaxesOf(d.lines))
    BY <1>2, <1>4, NetsNat DEF IntOn
  <1>6. NetsOf(d) = SumFunctionOnSet(f, DOMAIN d.lines) /\ TaxesTotal(d) = SumFunctionOnSet(g, TaxesOf(d.lines))
    BY <1>4 DEF NetsOf, TaxesTotal
  <1>7. NetsOf(d) \in Int /\ TaxesTotal(d) \in Int
    BY <1>1, <1>5, <1>6, SumInt
  <1>8. LineOf(d, <<"open", 0>>).amount = -(Side(d) * (NetsOf(d) + TaxesTotal(d)))
    <2>1. LineOf(d, <<"open", 0>>).amount = Reports!Sided(TotalsOf(d).total, Reports!OpenItemIsDebit(d))
      BY DEF LineOf, OpenLine, Reports!Plain
    <2>2. QED
      BY <1>2, <1>3, <2>1, SidedBy
  <1>9. ASSUME NEW i \in DOMAIN d.lines PROVE LineOf(d, <<"line", i>>).amount = Side(d) * NetOf(d, i)
    <2>1. LineOf(d, <<"line", i>>) = Reports!NetLine(d, d.lines[i])
      BY DEF LineOf
    <2>2. Reports!NetLine(d, d.lines[i]).amount = Reports!Sided(NetOf(d, i), ~Reports!OpenItemIsDebit(d))
      BY DEF Reports!NetLine, Reports!Plain, Reports!Taxed, NetOf
    <2>3. NetOf(d, i) \in Int
      BY NetsNat
    <2>4. QED
      BY <2>1, <2>2, <2>3, SidedBy
  <1>10. ASSUME NEW t \in TaxesOf(d.lines)
         PROVE  LineOf(d, <<"tax", t>>).amount = Side(d) * TotalsOf(d).groups[t].amount
    <2>1. LineOf(d, <<"tax", t>>) = TaxLineOf(d, t)
      BY DEF LineOf
    <2>2. TaxLineOf(d, t).amount = Reports!Sided(TotalsOf(d).groups[t].amount, ~Reports!OpenItemIsDebit(d))
      BY DEF TaxLineOf, Reports!Taxed
    <2>3. QED
      BY <1>2, <2>1, <2>2, SidedBy
  <1>11. NetsOf(d) + TaxesTotal(d) > 0 => \E i \in DOMAIN d.lines : NetOf(d, i) # 0
    <2>1. SUFFICES ASSUME \A i \in DOMAIN d.lines : NetOf(d, i) = 0 PROVE NetsOf(d) + TaxesTotal(d) = 0
      OBVIOUS
    <2>2. NetsOf(d) = 0
      <3>1. \A i \in DOMAIN d.lines : f[i] = 0
        BY <1>4, <2>1
      <3>2. QED
        BY <1>1, <1>6, <3>1, SumZero
    <2>3. \A t \in TaxesOf(d.lines) : g[t] = 0
      <3>1. TAKE t \in TaxesOf(d.lines)
      <3>2. PICK C : C = ChargedLines(d, t)
        OBVIOUS
      <3>3. PICK h : h = [i \in C |-> TaxOf(d, t, i)]
        OBVIOUS
      <3>4. C \in SUBSET DOMAIN d.lines /\ \A i \in C : t \in d.lines[i].taxes
        BY <3>2 DEF ChargedLines
      <3>5. IsFiniteSet(C)
        BY <1>1, <3>4, FS_Subset
      <3>6. ASSUME NEW i \in C PROVE h[i] = 0
        <4>1. NetOf(d, i) = 0 /\ t.rate \in Nat /\ TaxOf(d, t, i) = Rounded(NetOf(d, i) * t.rate, 100)
          BY <2>1, <3>4, NetsNat
        <4>2. NetOf(d, i) * t.rate = 0
          <5>1. 0 * t.rate = 0
            BY <4>1
          <5>2. QED
            BY <4>1, <5>1
        <4>3. Rounded(0, 100) = 0
          BY RoundedZero, SameRounded
        <4>4. QED
          BY <3>3, <4>1, <4>2, <4>3
      <3>7. SumFunctionOnSet(h, C) = 0
        BY <3>5, <3>6, SumZero
      <3>8. g[t] = SumFunctionOnSet(h, C)
        BY <1>4, <3>2, <3>3, DocumentSums
      <3>9. QED
        BY <3>7, <3>8
    <2>4. TaxesTotal(d) = 0
      BY <1>1, <1>6, <2>3, SumZero
    <2>5. QED
      BY <2>2, <2>4
  <1>12. QED
    BY <1>1, <1>2, <1>3, <1>7, <1>8, <1>9, <1>10, <1>11

LEMMA SumOfKeys ==
  ASSUME NEW S, IsFiniteSet(S), NEW g, NEW K, K = ImageOf(g, S), \A x, y \in S : x # y => g[x] # g[y],
         NEW v, NEW f, IntOn(f, S), NEW c \in Int, \A x \in S : v[g[x]] = c * f[x]
  PROVE  IsFiniteSet(K) /\ IntOn(v, K) /\ SumFunctionOnSet(v, K) = c * SumFunctionOnSet(f, S)
  <1>1. PICK h : h = [x \in S |-> v[g[x]]]
    OBVIOUS
  <1>2. \A x \in S : h[x] = c * f[x] /\ h[x] = v[g[x]]
    BY <1>1
  <1>3. \A x \in S : h[x] \in Int
    BY <1>2 DEF IntOn
  <1>4. SumFunctionOnSet(v, ImageOf(g, S)) = SumFunctionOnSet(h, S)
    BY <1>2, <1>3, SumImage
  <1>5. SumFunctionOnSet(h, S) = c * SumFunctionOnSet(f, S)
    BY <1>2, SumScaled
  <1>6. IsFiniteSet(ImageOf(g, S))
    BY ImageFinite
  <1>7. IntOn(v, ImageOf(g, S))
    BY <1>2, <1>3 DEF IntOn, ImageOf
  <1>8. QED
    BY <1>4, <1>5, <1>6, <1>7

(* The lines of a draft that comes to something balance, and it has two.   *)
LEMMA DocumentBalances ==
  ASSUME Reports!ReportsAssumption, NEW d \in Documents, TotalsOf(d).total > 0,
         NEW lines, lines = RequestOf(d)
  PROVE  /\ IsFiniteSet(DOMAIN lines) /\ IntOn(AmountsOf(lines), DOMAIN lines)
         /\ SumFunctionOnSet(AmountsOf(lines), DOMAIN lines) = 0
         /\ Cardinality(DOMAIN lines) >= 2 /\ \A k \in DOMAIN lines : lines[k].amount # 0
         /\ <<"open", 0>> \in DOMAIN lines /\ Only("rounding") \notin DOMAIN lines
         /\ lines[<<"open", 0>>].amount \in {TotalsOf(d).total, -TotalsOf(d).total}
  <1>1. PICK K, D : K = KeysOf(d) /\ D = DOMAIN lines
    OBVIOUS
  <1>2. PICK v : v = [k \in K |-> LineOf(d, k).amount]
    OBVIOUS
  <1>3. PICK LK, TK, o : LK = LineKeys(d) /\ TK = TaxKeys(d) /\ o = <<"open", 0>>
    OBVIOUS
  <1>4. K = ({o} \cup LK) \cup TK /\ o \in K
    BY <1>1, <1>3 DEF KeysOf
  <1>5. \A k \in D : k \in K /\ v[k] # 0 /\ lines[k].amount = v[k]
    BY <1>1, <1>2, DocumentLines
  <1>6. \A k \in K : v[k] # 0 => k \in D
    BY <1>1, <1>2, DocumentLines
  <1>7. PICK s : s = Side(d)
    OBVIOUS
  <1>8. s \in {-1, 1}
    BY <1>7 DEF Side
  <1>9. PICK N, T : N = NetsOf(d) /\ T = TaxesTotal(d)
    OBVIOUS
  <1>10. N \in Int /\ T \in Int /\ TotalsOf(d).total = N + T
    BY <1>9, DocumentAmounts
  <1>11. v[o] = -(s * (N + T))
    BY <1>2, <1>3, <1>4, <1>7, <1>9, DocumentAmounts
  <1>12. IsFiniteSet(LK) /\ IntOn(v, LK) /\ SumFunctionOnSet(v, LK) = s * N
    <2>1. PICK f : f = [i \in DOMAIN d.lines |-> NetOf(d, i)]
      OBVIOUS
    <2>2. IntOn(f, DOMAIN d.lines)
      BY <2>1, NetsNat DEF IntOn
    <2>3. \A i \in DOMAIN d.lines : v[<<"line", i>>] = s * f[i]
      <3>1. \A i \in DOMAIN d.lines : <<"line", i>> \in K
        BY <1>1 DEF KeysOf, LineKeys
      <3>2. QED
        BY <1>2, <1>7, <2>1, <3>1, DocumentAmounts
    <2>4. PICK g : g = [i \in DOMAIN d.lines |-> <<"line", i>>]
      OBVIOUS
    <2>8. LK = ImageOf(g, DOMAIN d.lines)
      BY <1>3, <2>4 DEF LineKeys, ImageOf
    <2>9. /\ \A i, j \in DOMAIN d.lines : i # j => g[i] # g[j]
          /\ \A i \in DOMAIN d.lines : v[g[i]] = s * f[i]
      BY <2>3, <2>4
    <2>5. IsFiniteSet(DOMAIN d.lines) /\ N = SumFunctionOnSet(f, DOMAIN d.lines)
      BY <1>9, <2>1, DocumentAmounts DEF NetsOf
    <2>6. s \in Int
      BY <1>8
    <2>7. QED
      BY <2>2, <2>8, <2>9, <2>5, <2>6, SumOfKeys
  <1>13. IsFiniteSet(TK) /\ IntOn(v, TK) /\ SumFunctionOnSet(v, TK) = s * T
    <2>1. PICK S : S = TaxesOf(d.lines)
      OBVIOUS
    <2>2. PICK f : f = [t \in S |-> TotalsOf(d).groups[t].amount]
      OBVIOUS
    <2>3. IntOn(f, S)
      BY <2>1, <2>2, DocumentAmounts DEF IntOn
    <2>4. \A t \in S : v[<<"tax", t>>] = s * f[t]
      <3>1. \A t \in S : <<"tax", t>> \in K
        BY <1>1, <2>1 DEF KeysOf, TaxKeys
      <3>2. QED
        BY <1>2, <1>7, <2>1, <2>2, <3>1, DocumentAmounts
    <2>5. PICK g : g = [t \in S |-> <<"tax", t>>]
      OBVIOUS
    <2>9. TK = ImageOf(g, S)
      BY <1>3, <2>1, <2>5 DEF TaxKeys, ImageOf
    <2>10. /\ \A t, u \in S : t # u => g[t] # g[u]
          /\ \A t \in S : v[g[t]] = s * f[t]
      BY <2>4, <2>5
    <2>6. IsFiniteSet(S) /\ T = SumFunctionOnSet(f, S)
      BY <1>9, <2>1, <2>2, DocumentAmounts DEF TaxesTotal
    <2>7. s \in Int
      BY <1>8
    <2>8. QED
      BY <2>3, <2>9, <2>10, <2>6, <2>7, SumOfKeys
  <1>14. o \notin LK /\ o \notin TK /\ LK \cap TK = {}
    BY <1>3 DEF LineKeys, TaxKeys
  <1>15. s * N \in Int /\ s * T \in Int /\ s * (N + T) = s * N + s * T
    BY <1>8, <1>10
  <1>16. IsFiniteSet(K) /\ IntOn(v, K) /\ SumFunctionOnSet(v, K) = 0
    <2>1. PICK A : A = LK \cup TK
      OBVIOUS
    <2>2. IntOn(v, A) /\ IntOn(v, K)
      BY <1>4, <1>8, <1>10, <1>11, <1>12, <1>13, <1>15, <2>1 DEF IntOn
    <2>3. SumFunctionOnSet(v, A) = s * N + s * T
      BY <1>12, <1>13, <1>14, <2>1, <2>2, SumSplit
    <2>4. IsFiniteSet(A)
      BY <1>12, <1>13, <2>1, FS_Union
    <2>5. K = A \cup {o} /\ o \notin A
      BY <1>4, <1>14, <2>1
    <2>6. SumFunctionOnSet(v, A \cup {o}) = v[o] + SumFunctionOnSet(v, A)
      BY <2>2, <2>4, <2>5, SumAdd
    <2>7. IsFiniteSet(K)
      BY <2>4, <2>5, FS_AddElement
    <2>8. SumFunctionOnSet(v, K) = 0
      BY <1>11, <1>15, <2>3, <2>5, <2>6
    <2>9. QED
      BY <2>2, <2>7, <2>8
  <1>17. IsFiniteSet(D) /\ SumFunctionOnSet(v, D) = 0
    <2>1. PICK E : E = K \ D
      OBVIOUS
    <2>2. D \in SUBSET K /\ D \cup E = K /\ D \cap E = {}
      BY <1>5, <2>1
    <2>3. IsFiniteSet(D) /\ IsFiniteSet(E)
      BY <1>16, <2>1, <2>2, FS_Subset
    <2>4. SumFunctionOnSet(v, E) = 0
      <3>1. \A k \in E : v[k] = 0
        BY <1>6, <2>1
      <3>2. QED
        BY <2>3, <3>1, SumZero
    <2>5. SumFunctionOnSet(v, K) = SumFunctionOnSet(v, D) + SumFunctionOnSet(v, E)
      BY <1>16, <2>2, <2>3, SumSplit
    <2>6. IntOn(v, D)
      BY <1>16, <2>2 DEF IntOn
    <2>7. SumFunctionOnSet(v, D) \in Int
      BY <2>3, <2>6, SumInt
    <2>8. QED
      BY <1>16, <2>3, <2>4, <2>5, <2>7
  <1>18. IntOn(AmountsOf(lines), D) /\ SumFunctionOnSet(AmountsOf(lines), D) = 0
    <2>1. PICK a : a = AmountsOf(lines)
      OBVIOUS
    <2>2. \A k \in D : a[k] = v[k] /\ v[k] \in Int
      BY <1>1, <1>5, <1>16, <2>1 DEF AmountsOf, IntOn
    <2>3. SumFunctionOnSet(a, D) = SumFunctionOnSet(v, D)
      BY <1>17, <2>2, SumSame
    <2>4. QED
      BY <1>17, <2>1, <2>2, <2>3 DEF IntOn
  <1>19. v[o] # 0 /\ v[o] \in {TotalsOf(d).total, -TotalsOf(d).total}
    BY <1>8, <1>10, <1>11
  <1>20. Cardinality(D) >= 2
    <2>1. PICK i \in DOMAIN d.lines : NetOf(d, i) # 0
      BY <1>9, <1>10, DocumentAmounts
    <2>2. PICK e : e = <<"line", i>>
      OBVIOUS
    <2>3. e \in K /\ e # o
      BY <1>1, <1>3, <2>2 DEF KeysOf, LineKeys
    <2>4. v[e] = s * NetOf(d, i)
      BY <1>2, <1>7, <2>2, <2>3, DocumentAmounts
    <2>5. v[e] # 0
      <3>1. NetOf(d, i) \in Int
        BY NetsNat
      <3>2. QED
        BY <1>8, <2>1, <2>4, <3>1
    <2>6. PICK P : P = {o}
      OBVIOUS
    <2>7. PICK R : R = P \cup {e}
      OBVIOUS
    <2>8. R \in SUBSET D /\ e \notin P
      BY <1>4, <1>6, <1>19, <2>3, <2>5, <2>6, <2>7
    <2>9. IsFiniteSet({o}) /\ Cardinality({o}) = 1
      BY FS_Singleton, Zenon
    <2>10. IsFiniteSet(P) /\ Cardinality(P) = 1
      BY <2>6, <2>9, Zenon
    <2>11. Cardinality(P \cup {e}) = IF e \in P THEN Cardinality(P) ELSE Cardinality(P) + 1
      BY <2>10, FS_AddElement, Zenon
    <2>12. Cardinality(R) = 2
      <3>1. Cardinality(R) = IF e \in P THEN Cardinality(P) ELSE Cardinality(P) + 1
        BY <2>7, <2>11, Zenon
      <3>2. QED
        BY <2>8, <2>10, <3>1
    <2>13. Cardinality(R) <= Cardinality(D) /\ Cardinality(D) \in Nat
      BY <1>17, <2>8, FS_Subset, FS_CardinalityType
    <2>14. QED
      BY <2>12, <2>13
  <1>21. Only("rounding") \notin D
    <2>1. Only("rounding") \notin K
      BY <1>1 DEF Only, KeysOf, LineKeys, TaxKeys
    <2>2. QED
      BY <1>5, <2>1
  <1>22. o \in D /\ lines[o].amount = v[o]
    BY <1>4, <1>5, <1>6, <1>19
  <1>23. QED
    BY <1>1, <1>3, <1>5, <1>17, <1>18, <1>19, <1>20, <1>21, <1>22

LEMMA SamePlain ==
  ASSUME NEW account, NEW amount, NEW tax, NEW base
  PROVE  /\ Reports!Plain(account, amount) = Plain(account, amount)
         /\ Reports!Taxed(account, amount, tax, base) = Taxed(account, amount, tax, base)
  <1>1. Reports!Plain(account, amount) = Plain(account, amount)
    BY DEF Reports!Plain, Plain
  <1>2. Reports!Taxed(account, amount, tax, base) = Taxed(account, amount, tax, base)
    BY DEF Reports!Taxed, Taxed
  <1>3. QED
    BY <1>1, <1>2

LEMMA SameTotals ==
  ASSUME NEW lines, NEW inclusive
  PROVE  Reports!DocumentTotals(lines, inclusive) = DocumentTotals(lines, inclusive)
  <1> DEFINE Charged(t) == {i \in DOMAIN lines : t \in lines[i].taxes}
             NetI(i) == Reports!LineAmounts(lines[i], inclusive).net
             TaxI(t, i) == Reports!LineAmounts(lines[i], inclusive).tax[t]
             netI == Reports!SumFunctionOnSet([i \in DOMAIN lines |-> NetI(i)], DOMAIN lines)
             BasisI(t) == Reports!SumFunctionOnSet([i \in Charged(t) |-> NetI(i)], Charged(t))
             ChargeI(t) == Reports!SumFunctionOnSet([i \in Charged(t) |-> TaxI(t, i)], Charged(t))
             groupsI == [t \in TaxesOf(lines) |-> [base |-> BasisI(t), amount |-> ChargeI(t)]]
             taxI == Reports!SumFunctionOnSet([t \in TaxesOf(lines) |-> groupsI[t].amount], TaxesOf(lines))
             Net(i) == LineAmounts(lines[i], inclusive).net
             Tax(t, i) == LineAmounts(lines[i], inclusive).tax[t]
             net == SumFunctionOnSet([i \in DOMAIN lines |-> Net(i)], DOMAIN lines)
             Basis(t) == SumFunctionOnSet([i \in Charged(t) |-> Net(i)], Charged(t))
             Charge(t) == SumFunctionOnSet([i \in Charged(t) |-> Tax(t, i)], Charged(t))
             groups == [t \in TaxesOf(lines) |-> [base |-> Basis(t), amount |-> Charge(t)]]
             tax == SumFunctionOnSet([t \in TaxesOf(lines) |-> groups[t].amount], TaxesOf(lines))
  <1>1. Reports!DocumentTotals(lines, inclusive) = [net |-> netI, groups |-> groupsI, tax |-> taxI, total |-> netI + taxI]
    BY DEF Reports!DocumentTotals, Reports!Total, Reports!Restrict, TaxesOf
  <1>2. DocumentTotals(lines, inclusive) = [net |-> net, groups |-> groups, tax |-> tax, total |-> net + tax]
    BY DEF DocumentTotals, Total, Restrict, TaxesOf
  <1>3. \A i, t : NetI(i) = Net(i) /\ TaxI(t, i) = Tax(t, i)
    BY SameAmounts
  <1> HIDE DEF NetI, TaxI, Net, Tax
  <1>4. netI = net
    BY <1>3, SameSum
  <1>5. \A t : BasisI(t) = Basis(t) /\ ChargeI(t) = Charge(t)
    BY <1>3, SameSum
  <1> HIDE DEF netI, net, BasisI, Basis, ChargeI, Charge
  <1>6. groupsI = groups
    BY <1>5
  <1> HIDE DEF groupsI, groups
  <1>7. taxI = tax
    BY <1>6, SameSum
  <1> HIDE DEF taxI, tax
  <1>8. QED
    BY <1>1, <1>2, <1>4, <1>6, <1>7

LEMMA SameNetLine == ASSUME NEW d, NEW line PROVE Reports!NetLine(d, line) = NetLine(d, line)
  <1>1. PICK net : net = LineAmounts(line, d.inclusive).net
    OBVIOUS
  <1>2. PICK untaxed : untaxed = Untaxed(line, d.inclusive)
    OBVIOUS
  <1>3. PICK side : side = Sided(net, ~OpenItemIsDebit(d))
    OBVIOUS
  <1>4. Reports!LineAmounts(line, d.inclusive).net = net /\ Reports!Untaxed(line, d.inclusive) = untaxed
    BY <1>1, <1>2, SameAmounts
  <1>5. Reports!Sided(net, ~Reports!OpenItemIsDebit(d)) = side
    BY <1>3 DEF Sided, Reports!Sided, OpenItemIsDebit, Reports!OpenItemIsDebit, Outgoing, Reports!Outgoing, Note, Reports!Note
  <1>6. NetLine(d, line) = IF untaxed = {} THEN Plain(line.account, side)
                           ELSE Taxed(line.account, side, CHOOSE t \in untaxed : TRUE, net)
    BY <1>1, <1>2, <1>3 DEF NetLine
  <1>7. Reports!NetLine(d, line) = IF untaxed = {} THEN Reports!Plain(line.account, side)
                           ELSE Reports!Taxed(line.account, side, CHOOSE t \in untaxed : TRUE, net)
    BY <1>4, <1>5 DEF Reports!NetLine
  <1>8. QED
    BY <1>6, <1>7, SamePlain

LEMMA SameRequest ==
  ASSUME NEW d
  PROVE  RequestOf(d) = DocumentRequest(d, Defaults)
  <1> DEFINE totals == Reports!DocumentTotals(d.lines, d.inclusive)
             debit == Reports!OpenItemIsDebit(d)
             open == Reports!Plain(Defaults[IF Reports!Outgoing(d) THEN "receivable" ELSE "payable"],
                                   Reports!Sided(totals.total, debit))
             TaxLine(t) == Reports!Taxed(t.account, Reports!Sided(totals.groups[t].amount, ~debit), t,
                                         totals.groups[t].base)
             keys == {Only("open")} \cup ({"line"} \X DOMAIN d.lines) \cup ({"tax"} \X DOMAIN totals.groups)
             request == [k \in keys |-> CASE k[1] = "open" -> open
                                          [] k[1] = "line" -> Reports!NetLine(d, d.lines[k[2]])
                                          [] k[1] = "tax"  -> TaxLine(k[2])]
             plainTotals == DocumentTotals(d.lines, d.inclusive)
             plainDebit == OpenItemIsDebit(d)
             plainOpen == Plain(Defaults[IF Outgoing(d) THEN "receivable" ELSE "payable"],
                                Sided(plainTotals.total, plainDebit))
             PlainTaxLine(t) == Taxed(t.account, Sided(plainTotals.groups[t].amount, ~plainDebit), t,
                                      plainTotals.groups[t].base)
             plainKeys == {Only("open")} \cup ({"line"} \X DOMAIN d.lines) \cup ({"tax"} \X DOMAIN plainTotals.groups)
             plainRequest == [k \in plainKeys |-> CASE k[1] = "open" -> plainOpen
                                          [] k[1] = "line" -> NetLine(d, d.lines[k[2]])
                                          [] k[1] = "tax"  -> PlainTaxLine(k[2])]
  <1>1. RequestOf(d) = [k \in {j \in keys : request[j].amount # 0} |-> request[k]]
    BY DEF RequestOf, Reports!DocumentRequest, Reports!NonZero, Reports!Restrict, Reports!Only, Only
  <1>2. DocumentRequest(d, Defaults) = [k \in {j \in plainKeys : plainRequest[j].amount # 0} |-> plainRequest[k]]
    BY DEF DocumentRequest, NonZero, Restrict
  <1>3. totals = plainTotals
    BY SameTotals
  <1>4. (debit <=> plainDebit) /\ (Reports!Outgoing(d) <=> Outgoing(d))
    BY DEF OpenItemIsDebit, Reports!OpenItemIsDebit, Outgoing, Reports!Outgoing, Note, Reports!Note
  <1> HIDE DEF totals, plainTotals
  <1>5. open = plainOpen
    BY <1>3, <1>4 DEF Plain, Reports!Plain, Sided, Reports!Sided
  <1>6. \A t : TaxLine(t) = PlainTaxLine(t)
    BY <1>3, <1>4 DEF Taxed, Reports!Taxed, Sided, Reports!Sided
  <1>7. keys = plainKeys
    BY <1>3
  <1> HIDE DEF open, plainOpen, TaxLine, PlainTaxLine, keys, plainKeys
  <1>8. request = plainRequest
    BY <1>5, <1>6, <1>7, SameNetLine
  <1> HIDE DEF request, plainRequest
  <1>9. QED
    BY <1>1, <1>2, <1>7, <1>8

LEMMA RoundedToSomething ==
  ASSUME NEW x \in Int, NEW per \in Nat \ {0}, per <= 2 * x \/ per <= -(2 * x)
  PROVE  Rounded(x, per) # 0
  <1>1. CASE x >= 0
    <2>1. PICK a \in Nat, b \in Nat \ {0} : a = 2 * x + per /\ b = 2 * per
      BY <1>1
    <2>2. PICK q \in Int : q = a \div b
      BY DivFacts
    <2>3. a < b * q + b
      BY <2>2, DivFacts
    <2>4. b <= a
      BY <1>1, <2>1
    <2>5. q # 0
      BY <2>3, <2>4
    <2>6. QED
      BY <1>1, <2>1, <2>2, <2>5 DEF Rounded
  <1>2. CASE x < 0
    <2>1. PICK a \in Nat, b \in Nat \ {0} : a = per - 2 * x /\ b = 2 * per
      BY <1>2
    <2>2. PICK q \in Int : q = a \div b
      BY DivFacts
    <2>3. a < b * q + b
      BY <2>2, DivFacts
    <2>4. b <= a
      BY <1>2, <2>1
    <2>5. q # 0
      BY <2>3, <2>4
    <2>6. QED
      BY <1>2, <2>1, <2>2, <2>5 DEF Rounded
  <1>3. QED
    BY <1>1, <1>2

(* Every tax has a tag, and so has every line with a basis.                *)
TaxesTagged == \A t \in Taxes : t.tag # Null

LEMMA DocumentBases ==
  ASSUME Reports!ReportsAssumption, TaxesTagged, NEW d \in Documents
  PROVE  \A k \in DOMAIN RequestOf(d) : RequestOf(d)[k].base # Null => RequestOf(d)[k].tag # Null
  <1>1. SUFFICES ASSUME NEW k \in KeysOf(d) PROVE LineOf(d, k).base # Null => LineOf(d, k).tag # Null
    <2>1. \A k \in DOMAIN RequestOf(d) :
            k \in KeysOf(d) /\ LineOf(d, k).amount # 0 /\ RequestOf(d)[k] = LineOf(d, k)
      BY DocumentLines
    <2>2. QED
      BY <2>1
  <1>2. CASE k = <<"open", 0>>
    <2>1. LineOf(d, k) = OpenLine(d)
      BY <1>2 DEF LineOf
    <2>2. QED
      BY <2>1 DEF OpenLine, Reports!Plain
  <1>3. CASE k \in LineKeys(d)
    <2>1. PICK i \in DOMAIN d.lines : k = <<"line", i>>
      BY <1>3 DEF LineKeys
    <2>2. PICK line : line = d.lines[i]
      OBVIOUS
    <2>3. LineOf(d, k) = Reports!NetLine(d, line)
      BY <2>1, <2>2 DEF LineOf
    <2>4. PICK untaxed : untaxed = Reports!Untaxed(line, d.inclusive)
      OBVIOUS
    <2>5. CASE untaxed = {}
      BY <2>3, <2>4, <2>5 DEF Reports!NetLine, Reports!Plain
    <2>6. CASE untaxed # {}
      <3>1. PICK t : t = CHOOSE u \in untaxed : TRUE
        OBVIOUS
      <3>2. t \in untaxed
        BY <2>6, <3>1
      <3>3. t \in line.taxes
        BY <2>4, <3>2 DEF Reports!Untaxed
      <3>4. t \in Taxes
        BY <2>2, <3>3, TaxesAre
      <3>5. LineOf(d, k).tag = t.tag
        BY <2>3, <2>4, <2>6, <3>1 DEF Reports!NetLine, Reports!Taxed
      <3>6. QED
        BY <3>4, <3>5 DEF TaxesTagged
    <2>7. QED
      BY <2>5, <2>6
  <1>4. CASE k \in TaxKeys(d)
    <2>1. PICK t \in TaxesOf(d.lines) : k = <<"tax", t>>
      BY <1>4 DEF TaxKeys
    <2>2. LineOf(d, k) = TaxLineOf(d, t)
      BY <2>1 DEF LineOf
    <2>3. LineOf(d, k).tag = t.tag
      BY <2>2 DEF TaxLineOf, Reports!Taxed
    <2>4. t \in Taxes
      BY TaxesAre DEF TaxesOf
    <2>5. QED
      BY <2>3, <2>4 DEF TaxesTagged
  <1>5. QED
    BY <1>2, <1>3, <1>4 DEF KeysOf

(* What a draft comes to, and that it comes to something at every rate of  *)
(* its currency that a user enters or a file has.                          *)
WorthOf(d) == DocumentTotals(d.lines, d.inclusive).total

WorthAt(q) ==
  q.of > 0 => \A d \in Documents : d.currency = q.currency => q.per <= 2 * (WorthOf(d) * q.of)

WorthPosting ==
  /\ \A d \in Documents : WorthOf(d) > 0
  /\ \A q \in Quotes : WorthAt(q)
  /\ \A f \in Files : \A i \in DOMAIN f : WorthAt(f[i])

QuotesKnown ==
  \A q \in quotes : Reports!Accepted(q) /\ (q \in Quotes \/ \E f \in Files : \E i \in DOMAIN f : q = f[i])

LEMMA QuotesStart == ASSUME Reports!Init PROVE QuotesKnown
  BY DEF Reports!Init, QuotesKnown

LEMMA QuotesStay ==
  ASSUME Reports!ReportsAssumption, QuotesKnown, [Reports!Next]_(Reports!vars)
  PROVE  QuotesKnown'
  <1>1. ASSUME NEW q \in Quotes, Reports!SetRate(q) PROVE QuotesKnown'
    <2>1. \A r \in quotes' : r \in quotes \/ r = q
      BY <1>1 DEF Reports!SetRate
    <2>2. Reports!Accepted(q)
      BY DEF Reports!ReportsAssumption
    <2>3. QED
      BY <2>1, <2>2 DEF QuotesKnown, Reports!Accepted
  <1>2. ASSUME NEW f \in Files, Reports!ImportRates(f) PROVE QuotesKnown'
    <2>1. \A r \in quotes' : r \in quotes \/ \E i \in DOMAIN f : r = f[i] /\ Reports!Accepted(f[i])
      BY <1>2 DEF Reports!ImportRates
    <2>2. QED
      BY <2>1 DEF QuotesKnown, Reports!Accepted
  <1>3. ASSUME UNCHANGED quotes PROVE QuotesKnown'
    BY <1>3 DEF QuotesKnown, Reports!Accepted
  <1>4. QED
    BY <1>1, <1>2, <1>3 DEF Reports!Next, Reports!vars, Reports!Issue, Reports!Pay, Reports!Reconcile, Reports!Post,
       Reports!Cancel

LEMMA FiguresServe ==
  ASSUME Reports!ReportsAssumption, TaxesTagged, WorthPosting, Reports!Quoted, QuotesKnown
  PROVE  FiguresNeverRefused
  <1>1. SUFFICES ASSUME NEW d \in Documents, HasRate(d.currency, d.date),
                        NEW lines, lines = DocumentRequest(d, Defaults),
                        NEW rate, rate = GetRate(d.currency, d.date)
                 PROVE  /\ ValidRequest(lines)
                        /\ WithinRounding(lines, rate)
                        /\ Storable(ConvertLines(lines, rate, Defaults.rounding))
    <2>1. ASSUME NEW d \in Documents, HasRate(d.currency, d.date)
          PROVE  /\ ValidRequest(DocumentRequest(d, Defaults))
                 /\ WithinRounding(DocumentRequest(d, Defaults), GetRate(d.currency, d.date))
                 /\ Storable(ConvertLines(DocumentRequest(d, Defaults), GetRate(d.currency, d.date), Defaults.rounding))
      BY <1>1, <2>1, Zenon
    <2>2. QED
      BY <2>1, Zenon DEF FiguresNeverRefused
  <1>2. lines = RequestOf(d)
    BY <1>1, SameRequest
  <1>3. PICK total : total = WorthOf(d)
    OBVIOUS
  <1>4. TotalsOf(d).total = total /\ total > 0 /\ total \in Int
    <2>1. TotalsOf(d).total = total
      BY <1>3, SameTotals DEF TotalsOf, WorthOf
    <2>2. NetsOf(d) + TaxesTotal(d) \in Int /\ TotalsOf(d).total = NetsOf(d) + TaxesTotal(d)
      BY DocumentAmounts
    <2>3. QED
      BY <1>3, <2>1, <2>2 DEF WorthPosting
  <1>5. PICK of, per : of = rate.of /\ per = rate.per
    OBVIOUS
  <1>6. of \in Int /\ of > 0 /\ per \in Nat \ {0} /\ per <= 2 * (total * of)
    <2>1. CASE d.currency = Base
      <3>1. of = 1 /\ per = 1
        BY <1>1, <1>5, <2>1 DEF GetRate
      <3>2. QED
        BY <1>4, <3>1
    <2>2. CASE d.currency # Base
      <3>1. PICK Q : Q = QuotesBy(d.currency, d.date)
        OBVIOUS
      <3>2. Q # {} /\ Q \subseteq quotes
        BY <1>1, <2>2, <3>1 DEF HasRate, QuotesBy
      <3>3. IsFiniteSet(Q)
        BY <3>2, SameFinite, FS_Subset DEF Reports!Quoted
      <3>4. \A q \in quotes : q.day \in CalendarDates /\ q.of \in Int /\ q.per \in Nat \ {0}
        BY SameDates DEF Reports!Quoted, Reports!IsQuote, BusinessDays
      <3>5. \E q \in Q : \A r \in Q : NotAfter(r.day, q.day)
        BY <3>2, <3>3, <3>4, LatestExists
      <3>6. rate \in Q
        BY <1>1, <2>2, <3>1, <3>5 DEF GetRate
      <3>7. rate \in quotes
        BY <3>2, <3>6
      <3>8. rate.of > 0 /\ WorthAt(rate)
        BY <3>7 DEF QuotesKnown, Reports!Accepted, WorthPosting
      <3>11. rate.currency = d.currency
        BY <3>1, <3>6 DEF QuotesBy
      <3>9. per <= 2 * (total * of)
        BY <1>3, <1>5, <3>8, <3>11 DEF WorthAt
      <3>10. QED
        BY <1>5, <3>4, <3>7, <3>8, <3>9
    <2>3. QED
      BY <2>1, <2>2
  <1>7. PICK o, D : o = <<"open", 0>> /\ D = DOMAIN lines
    OBVIOUS
  <1>8. /\ IsFiniteSet(D) /\ IntOn(AmountsOf(lines), D)
        /\ SumFunctionOnSet(AmountsOf(lines), D) = 0
        /\ Cardinality(D) >= 2 /\ \A k \in D : lines[k].amount # 0
        /\ o \in D /\ Only("rounding") \notin D
        /\ lines[o].amount \in {total, -total}
    BY <1>2, <1>4, <1>7, DocumentBalances
  <1>9. ValidRequest(lines)
    <2>1. Total(lines, LAMBDA line : line.amount) = SumFunctionOnSet(AmountsOf(lines), D)
      BY <1>7 DEF Total, AmountsOf
    <2>2. QED
      BY <1>7, <1>8, <2>1 DEF ValidRequest
  <1>10. PICK stored : stored = ConvertLines(lines, rate, Defaults.rounding)
    OBVIOUS
  <1>11. rate.of \in Int /\ rate.per \in Nat \ {0}
    BY <1>5, <1>6
  <1>12. /\ WithinRounding(lines, rate)
         /\ Total(stored, LAMBDA line : line.amount) = 0
         /\ Total(stored, LAMBDA line : line.currency) = 0
         /\ \A k \in D : k \in DOMAIN stored /\ stored[k] = Stored(lines[k], Rounded(lines[k].amount * rate.of, rate.per))
         /\ \A k \in DOMAIN stored : k \notin D => stored[k].base = Null
    BY <1>7, <1>8, <1>10, <1>11, ConversionBalances
  <1>17. \A k \in D : /\ stored[k].amount = Rounded(lines[k].amount * rate.of, rate.per)
                      /\ stored[k].base = lines[k].base /\ stored[k].tag = lines[k].tag
    <2>1. TAKE k \in D
    <2>2. stored[k] = Stored(lines[k], Rounded(lines[k].amount * rate.of, rate.per))
      BY <1>12, Zenon
    <2>3. PICK r : r = Rounded(lines[k].amount * rate.of, rate.per)
      OBVIOUS
    <2>4. stored[k] = Stored(lines[k], r)
      BY <2>2, <2>3, Zenon
    <2>5. QED
      BY <2>3, <2>4 DEF Stored
  <1>18. \A k \in DOMAIN stored : k \notin D => stored[k].base = Null
    BY <1>12, Zenon
  <1>13. \A k \in DOMAIN stored : stored[k].base # Null => stored[k].tag # Null
    <2>1. TAKE k \in DOMAIN stored
    <2>2. CASE k \in D
      <3>1. stored[k].base = lines[k].base /\ stored[k].tag = lines[k].tag
        BY <1>17, <2>2
      <3>2. lines[k].base # Null => lines[k].tag # Null
        BY <1>2, <1>7, <2>2, DocumentBases
      <3>3. QED
        BY <3>1, <3>2
    <2>3. QED
      BY <1>18, <2>2
  <1>14. stored[o].amount # 0
    <2>1. PICK a : a = lines[o].amount
      OBVIOUS
    <2>2. stored[o].amount = Rounded(a * of, per)
      BY <1>5, <1>8, <1>17, <2>1
    <2>3. PICK x \in Int : x = total * of
      BY <1>4, <1>6
    <2>4. a * of = x \/ a * of = -x
      <3>1. a = total \/ a = -total
        BY <1>8, <2>1
      <3>2. (-total) * of = -(total * of)
        BY <1>4, <1>6
      <3>3. QED
        BY <2>3, <3>1, <3>2
    <2>5. Rounded(x, per) # 0 /\ Rounded(-x, per) # 0
      <3>1. per <= 2 * x
        BY <1>6, <2>3
      <3>2. -x \in Int /\ per <= -(2 * (-x))
        BY <3>1
      <3>3. Rounded(x, per) # 0
        BY <1>6, <3>1, RoundedToSomething
      <3>4. Rounded(-x, per) # 0
        BY <1>6, <3>2, RoundedToSomething
      <3>5. QED
        BY <3>3, <3>4
    <2>6. QED
      BY <2>2, <2>4, <2>5
  <1>15. Storable(stored)
    BY <1>8, <1>12, <1>13, <1>14 DEF Storable
  <1>16. QED
    BY <1>9, <1>10, <1>12, <1>15

(* A draft is never refused for what its figures came to (posting.py       *)
(* validate_request, convert_lines, and the CHECK and trigger of           *)
(* 0001_core_ledger), whatever rates the company has on file.              *)
THEOREM FiguresAreNeverRefused ==
  ASSUME Reports!ReportsAssumption, TaxesTagged, WorthPosting
  PROVE  Reports!Spec => []FiguresNeverRefused
  <1>1. Reports!Init => QuotesKnown
    BY QuotesStart
  <1>2. QuotesKnown /\ [Reports!Next]_(Reports!vars) => QuotesKnown'
    BY QuotesStay
  <1>3. Books /\ QuotesKnown => FiguresNeverRefused
    BY FiguresServe DEF Books
  <1>4. QED
    BY <1>1, <1>2, <1>3, BooksAlways, PTL DEF Reports!Spec

-----------------------------------------------------------------------------
(* The tax of a document and its basis.                                    *)
TaxBound(d, t) ==
  Magnitude(100 * TotalsOf(d).groups[t].amount - t.rate * TotalsOf(d).groups[t].base)
    <= 50 * Cardinality(ChargedLines(d, t))

LEMMA ChargeNearBasis ==
  ASSUME Reports!ReportsAssumption, NEW d \in Documents, NEW t \in TaxesOf(d.lines)
  PROVE  TaxBound(d, t) /\ TotalsOf(d).groups[t].amount \in Nat
  <1>1. PICK C : C = ChargedLines(d, t)
    OBVIOUS
  <1>2. C \in SUBSET DOMAIN d.lines /\ \A i \in C : t \in d.lines[i].taxes
    BY <1>1 DEF ChargedLines
  <1>3. IsFiniteSet(C)
    BY <1>2, FS_Subset, DocumentAmounts
  <1>4. PICK f, g : f = [i \in C |-> TaxOf(d, t, i)] /\ g = [i \in C |-> NetOf(d, i)]
    OBVIOUS
  <1>5. PICK rate : rate = t.rate
    OBVIOUS
  <1>6. rate \in Nat
    <2>1. \E i \in DOMAIN d.lines : t \in d.lines[i].taxes
      BY DEF TaxesOf
    <2>2. QED
      BY <1>5, <2>1, NetsNat
  <1>7. \A i \in C : /\ f[i] \in Nat /\ g[i] \in Nat /\ f[i] = Rounded(g[i] * rate, 100)
    BY <1>2, <1>4, <1>5, NetsNat
  <1>8. PICK h, k : h = [i \in C |-> 100 * f[i]] /\ k = [i \in C |-> rate * g[i]]
    OBVIOUS
  <1>9. \A i \in C : /\ h[i] \in Int /\ k[i] \in Int /\ h[i] = 100 * f[i] /\ k[i] = rate * g[i]
                     /\ h[i] <= k[i] + 50 /\ k[i] <= h[i] + 50
    <2>1. TAKE i \in C
    <2>2. PICK x \in Int, y \in Int, z \in Int : x = f[i] /\ y = g[i] /\ z = y * rate
      BY <1>6, <1>7
    <2>3. x = Rounded(z, 100)
      BY <1>7, <2>2
    <2>4. 2 * (100 * x) <= 2 * z + 100 /\ 2 * z - 100 <= 2 * (100 * x)
      BY <2>3, RoundedNear
    <2>5. rate * y = z
      BY <1>6, <2>2
    <2>6. h[i] = 100 * x /\ k[i] = z
      BY <1>8, <2>2, <2>5
    <2>7. h[i] = 100 * f[i] /\ k[i] = rate * g[i]
      BY <1>8
    <2>8. QED
      BY <2>4, <2>6, <2>7
  <1>10. IntOn(f, C) /\ IntOn(g, C) /\ IntOn(h, C) /\ IntOn(k, C)
    BY <1>7, <1>9 DEF IntOn
  <1>11. PICK A, B : A = SumFunctionOnSet(f, C) /\ B = SumFunctionOnSet(g, C)
    OBVIOUS
  <1>12. A \in Nat /\ B \in Nat
    <2>1. A \in Nat
      BY <1>3, <1>7, <1>11, SumNat
    <2>2. B \in Nat
      BY <1>3, <1>7, <1>11, SumNat
    <2>3. QED
      BY <2>1, <2>2
  <1>13. SumFunctionOnSet(h, C) = 100 * A
    BY <1>3, <1>9, <1>10, <1>11, SumScaled
  <1>14. SumFunctionOnSet(k, C) = rate * B
    BY <1>3, <1>6, <1>9, <1>10, <1>11, SumScaled
  <1>15. PICK n \in Nat : n = Cardinality(C)
    BY <1>3, FS_CardinalityType
  <1>16. SumFunctionOnSet(h, C) <= SumFunctionOnSet(k, C) + 50 * Cardinality(C)
    BY <1>3, <1>9, <1>10, SumNear
  <1>17. SumFunctionOnSet(k, C) <= SumFunctionOnSet(h, C) + 50 * Cardinality(C)
    BY <1>3, <1>9, <1>10, SumNear
  <1>18. PICK z \in Int : z = rate * B
    BY <1>6, <1>12
  <1>19. 100 * A <= z + 50 * n /\ z <= 100 * A + 50 * n
    BY <1>13, <1>14, <1>15, <1>16, <1>17, <1>18
  <1>20. Magnitude(100 * A - z) <= 50 * n
    BY <1>12, <1>15, <1>19 DEF Magnitude
  <1>21. TotalsOf(d).groups[t].amount = A /\ TotalsOf(d).groups[t].base = B
    BY <1>1, <1>4, <1>11, DocumentSums
  <1>22. QED
    BY <1>1, <1>5, <1>12, <1>15, <1>18, <1>20, <1>21 DEF TaxBound

LEMMA SameTaxes == Reports!Taxes = Taxes
  BY DEF Reports!Taxes, Taxes, Reports!LineTaxes, LineTaxes, Reports!Withholdings, Withholdings

(* A tax is found by its name, a document by its id.                       *)
LEMMA FoundByName ==
  ASSUME Reports!ReportsAssumption, NEW d \in Documents, NEW t \in TaxesOf(d.lines), NEW source, source = <<"document", d.id>>
  PROVE  RateOf(t.name) = t.rate /\ ChargedOn(source, t.name) = Cardinality(ChargedLines(d, t))
  <1>1. \A i \in DOMAIN d.lines : \A u \in d.lines[i].taxes : u \in Taxes
    BY TaxesAre
  <1>2. t \in Taxes
    BY <1>1 DEF TaxesOf
  <1>3. \A u \in Taxes : u.name = t.name => u = t
    BY <1>2, SameTaxes DEF Reports!ReportsAssumption
  <1>4. (CHOOSE u \in Taxes : u.name = t.name) = t
    BY <1>2, <1>3
  <1>5. RateOf(t.name) = t.rate
    BY <1>4 DEF RateOf
  <1>6. \A e \in Documents : e.id = d.id => e = d
    BY DEF Reports!ReportsAssumption
  <1>7. (CHOOSE e \in Documents : e.id = d.id) = d
    BY <1>6
  <1>8. source[2] = d.id
    OBVIOUS
  <1>9. PICK N : N = {i \in DOMAIN d.lines : \E u \in d.lines[i].taxes : u.name = t.name}
    OBVIOUS
  <1>10. N = ChargedLines(d, t)
    BY <1>1, <1>3, <1>9 DEF ChargedLines
  <1>11. ChargedOn(source, t.name) = Cardinality(N)
    BY <1>7, <1>8, <1>9, Zenon DEF ChargedOn
  <1>12. QED
    BY <1>5, <1>10, <1>11

(* The lines a draft charges are not booked on the accounts of the taxes.  *)
AccountsKept == \A d \in Documents : \A i \in DOMAIN d.lines : d.lines[i].account \notin TaxAccounts

Follows(l) ==
  l.base # Null /\ l.account \in TaxAccounts =>
    Magnitude(100 * Magnitude(l.currency) - RateOf(l.tax) * l.base) <= 50 * ChargedOn(l.source, l.tax)

LEMMA StoredFrom ==
  ASSUME NEW lines, NEW rate, NEW rounding, NEW stored, stored = Reports!ConvertLines(lines, rate, rounding),
         NEW k \in DOMAIN stored, stored[k].base # Null
  PROVE  /\ k \in DOMAIN lines
         /\ stored[k].account = lines[k].account /\ stored[k].currency = lines[k].amount
         /\ stored[k].tax = lines[k].tax /\ stored[k].base = lines[k].base
  <1>1. PICK converted : converted = Reports!Converted(lines, rate)
    OBVIOUS
  <1>2. /\ DOMAIN converted = DOMAIN lines
        /\ \A j \in DOMAIN lines : /\ converted[j].account = lines[j].account /\ converted[j].currency = lines[j].amount
                                  /\ converted[j].tax = lines[j].tax /\ converted[j].base = lines[j].base
    BY <1>1 DEF Reports!Converted, Reports!Stored
  <1>3. PICK difference : difference = Reports!RoundingDifference(lines, rate)
    OBVIOUS
  <1>4. CASE difference = 0
    BY <1>1, <1>2, <1>3, <1>4 DEF Reports!ConvertLines
  <1>5. CASE difference # 0
    <2> DEFINE line == Reports!Stored(Reports!Plain(rounding, 0), -difference)
               last == [line EXCEPT !.currency = 0]
               keys == DOMAIN lines \cup {Reports!Only("rounding")}
    <2>1. last.base = Null
      <3>1. DOMAIN line = {"account", "amount", "currency", "tax", "tag", "base"} /\ line.base = Null
        BY DEF Reports!Stored, Reports!Plain
      <3> HIDE DEF line
      <3>2. QED
        BY <3>1
    <2>2. stored = [j \in keys |-> IF j = Reports!Only("rounding") THEN last ELSE converted[j]]
      BY <1>1, <1>3, <1>5 DEF Reports!ConvertLines
    <2> HIDE DEF last
    <2>3. QED
      BY <1>2, <2>1, <2>2
  <1>6. QED
    BY <1>4, <1>5

LEMMA DocumentFollows ==
  ASSUME Reports!ReportsAssumption, AccountsKept, NEW d \in Documents, NEW k \in DOMAIN RequestOf(d),
         NEW l, l.source = <<"document", d.id>>, l.account = RequestOf(d)[k].account,
         l.currency = RequestOf(d)[k].amount, l.tax = RequestOf(d)[k].tax, l.base = RequestOf(d)[k].base
  PROVE  Follows(l)
  <1>1. SUFFICES ASSUME l.base # Null, l.account \in TaxAccounts
                 PROVE  Magnitude(100 * Magnitude(l.currency) - RateOf(l.tax) * l.base)
                          <= 50 * ChargedOn(l.source, l.tax)
    BY DEF Follows
  <1>2. k \in KeysOf(d) /\ RequestOf(d)[k] = LineOf(d, k)
    BY DocumentLines
  <1>3. l.account = LineOf(d, k).account /\ l.base = LineOf(d, k).base
    BY <1>2
  <1>4. k # <<"open", 0>>
    <2>1. LineOf(d, <<"open", 0>>).base = Null
      BY DEF LineOf, OpenLine, Reports!Plain
    <2>2. QED
      BY <1>1, <1>3, <2>1
  <1>5. k \notin LineKeys(d)
    <2>1. ASSUME NEW i \in DOMAIN d.lines PROVE LineOf(d, <<"line", i>>).account = d.lines[i].account
      <3>1. LineOf(d, <<"line", i>>) = Reports!NetLine(d, d.lines[i])
        BY DEF LineOf
      <3>2. QED
        BY <3>1 DEF Reports!NetLine, Reports!Plain, Reports!Taxed
    <2>2. QED
      BY <1>1, <1>3, <2>1 DEF LineKeys, AccountsKept
  <1>6. PICK t \in TaxesOf(d.lines) : k = <<"tax", t>>
    BY <1>2, <1>4, <1>5 DEF KeysOf, TaxKeys
  <1>7. PICK A, B : A = TotalsOf(d).groups[t].amount /\ B = TotalsOf(d).groups[t].base
    OBVIOUS
  <1>8. A \in Nat /\ B \in Int
    BY <1>7, ChargeNearBasis, DocumentAmounts
  <1>9. LineOf(d, k).amount = Side(d) * A
    BY <1>6, <1>7, DocumentAmounts
  <1>10. LineOf(d, k).tax = t.name /\ LineOf(d, k).base = B
    <2>1. LineOf(d, k) = TaxLineOf(d, t)
      BY <1>6 DEF LineOf
    <2>2. QED
      BY <1>7, <2>1 DEF TaxLineOf, Reports!Taxed
  <1>11. Magnitude(l.currency) = A
    BY <1>2, <1>8, <1>9 DEF Magnitude, Side
  <1>12. l.tax = t.name /\ l.base = B
    BY <1>2, <1>10
  <1>13. RateOf(l.tax) = t.rate /\ ChargedOn(l.source, l.tax) = Cardinality(ChargedLines(d, t))
    BY <1>12, FoundByName
  <1>14. Magnitude(100 * A - t.rate * B) <= 50 * Cardinality(ChargedLines(d, t))
    BY <1>7, ChargeNearBasis DEF TaxBound
  <1>15. QED
    BY <1>11, <1>12, <1>13, <1>14

LEMMA IssueFollows ==
  ASSUME Reports!ReportsAssumption, AccountsKept, TaxFollowsNet, NEW d \in Documents, Reports!Issue(d)
  PROVE  TaxFollowsNet'
  <1>1. PICK source : source = <<"document", d.id>>
    OBVIOUS
  <1>2. PICK lines, stored : /\ lines = RequestOf(d)
                             /\ stored = Reports!ConvertLines(lines, Reports!GetRate(d.currency, d.date), Defaults.rounding)
    OBVIOUS
  <1>3. posted' = posted \cup {Reports!Dated(stored[k], source, k, d.date, d.type) : k \in DOMAIN stored}
    BY <1>1, <1>2 DEF Reports!Issue, Reports!Post, RequestOf
  <1>4. ASSUME NEW k \in DOMAIN stored PROVE Follows(Reports!Dated(stored[k], source, k, d.date, d.type))
    <2>1. PICK l : l = Reports!Dated(stored[k], source, k, d.date, d.type)
      OBVIOUS
    <2>2. /\ l.source = source /\ l.account = stored[k].account /\ l.currency = stored[k].currency
          /\ l.tax = stored[k].tax /\ l.base = stored[k].base
      BY <2>1 DEF Reports!Dated
    <2>3. CASE l.base = Null
      BY <2>1, <2>3 DEF Follows
    <2>4. CASE l.base # Null
      <3>1. /\ k \in DOMAIN lines
            /\ stored[k].account = lines[k].account /\ stored[k].currency = lines[k].amount
            /\ stored[k].tax = lines[k].tax /\ stored[k].base = lines[k].base
        BY <1>2, <2>2, <2>4, StoredFrom
      <3>2. Follows(l)
        BY <1>1, <1>2, <2>2, <3>1, DocumentFollows
      <3>3. QED
        BY <2>1, <3>2
    <2>5. QED
      BY <2>3, <2>4
  <1>5. \A l \in posted : l.source[1] = "document" => Follows(l)
    BY DEF TaxFollowsNet, Follows
  <1>6. \A l \in posted' : l.source[1] = "document" => Follows(l)
    BY <1>3, <1>4, <1>5
  <1>7. QED
    BY <1>6 DEF TaxFollowsNet, Follows

(* What is posted for anything else is not of a document.                  *)
LEMMA OthersFollow ==
  ASSUME TaxFollowsNet, \A l \in posted' : l \in posted \/ l.source[1] # "document"
  PROVE  TaxFollowsNet'
  <1>1. \A l \in posted : l.source[1] = "document" => Follows(l)
    BY DEF TaxFollowsNet, Follows
  <1>2. \A l \in posted' : l.source[1] = "document" => Follows(l)
    BY <1>1
  <1>3. QED
    BY <1>2 DEF TaxFollowsNet, Follows

LEMMA PostFollows ==
  ASSUME TaxFollowsNet, NEW source, source[1] # "document", NEW on, NEW currency, NEW journal, NEW lines,
         Reports!Post(source, on, currency, journal, lines)
  PROVE  TaxFollowsNet'
  <1>1. PICK stored : stored = Reports!ConvertLines(lines, Reports!GetRate(currency, on), Defaults.rounding)
    OBVIOUS
  <1>2. posted' = posted \cup {Reports!Dated(stored[i], source, i, on, journal) : i \in DOMAIN stored}
    BY <1>1 DEF Reports!Post
  <1>3. \A l \in posted' : l \in posted \/ l.source = source
    BY <1>2 DEF Reports!Dated
  <1>4. QED
    BY <1>3, OthersFollow

LEMMA CancelFollows ==
  ASSUME Booked, TaxFollowsNet, NEW e \in entries, Reports!Cancel(e)
  PROVE  TaxFollowsNet'
  <1>1. PICK s : s = <<"reversal", e.source>>
    OBVIOUS
  <1>2. posted' = posted \cup {OppositeFor(s, l) : l \in LinesOf(e.source)}
    BY <1>1, SameOpposite DEF Reports!Cancel, Reports!LinesOf, LinesOf
  <1>3. \A l \in LinesOf(e.source) : OppositeFor(s, l).source[1] # "document"
    <2>1. \A l \in LinesOf(e.source) : IsPosted(l)
      BY DEF Booked, LinesOf
    <2>2. QED
      BY <1>1, <2>1, OppositeLine DEF IsOppositeOf
  <1>4. QED
    BY <1>2, <1>3, OthersFollow

LEMMA FollowsKept ==
  ASSUME Reports!ReportsAssumption, AccountsKept, Books, TaxFollowsNet, [Reports!Next]_(Reports!vars)
  PROVE  TaxFollowsNet'
  <1>1. ASSUME NEW d \in Documents, Reports!Issue(d) PROVE TaxFollowsNet'
    BY <1>1, IssueFollows
  <1>2. ASSUME NEW p \in Payments, Reports!Pay(p) PROVE TaxFollowsNet'
    BY <1>2, PostFollows DEF Reports!Pay
  <1>3. ASSUME NEW p \in Payments, NEW on \in BookDays, Reports!Reconcile(p, on) PROVE TaxFollowsNet'
    BY <1>3, PostFollows DEF Reports!Reconcile
  <1>4. ASSUME NEW e \in entries, Reports!Cancel(e) PROVE TaxFollowsNet'
    BY <1>4, CancelFollows DEF Books
  <1>5. ASSUME UNCHANGED posted PROVE TaxFollowsNet'
    BY <1>5, OthersFollow
  <1>6. QED
    BY <1>1, <1>2, <1>3, <1>4, <1>5 DEF Reports!Next, Reports!SetRate, Reports!ImportRates, Reports!vars

(* The tax posted on a document follows from the basis it is reported      *)
(* with, to half a unit for every line it was charged on (taxes.py,        *)
(* documents.py build_posting_request), whatever the currency, the         *)
(* discounts and the rounding of each line.                                *)
THEOREM TaxAlwaysFollowsNet ==
  ASSUME Reports!ReportsAssumption, AccountsKept
  PROVE  Reports!Spec => []TaxFollowsNet
  <1>1. Reports!Init => TaxFollowsNet
    BY DEF Reports!Init, TaxFollowsNet
  <1>2. Books /\ TaxFollowsNet /\ [Reports!Next]_(Reports!vars) => TaxFollowsNet'
    BY FollowsKept
  <1>3. QED
    BY <1>1, <1>2, BooksAlways, PTL DEF Reports!Spec
=============================================================================
