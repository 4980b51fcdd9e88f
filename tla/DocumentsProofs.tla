-------------------------- MODULE DocumentsProofs --------------------------
(* What Documents guarantees for every set of sessions, invoices, notes    *)
(* and totals.                                                             *)
EXTENDS Documents, SumProofs, TLAPS

(* What a request is besides its locks.                                    *)
SameWork(t, u) ==
  /\ t.pc = u.pc /\ t.doc = u.doc /\ t.amount = u.amount
  /\ t.lines = u.lines /\ t.text = u.text
  /\ t.row = u.row /\ t.posts = u.posts /\ t.reverses = u.reverses

LEMMA IdleType == Idle \in Request
  BY DEF Idle, Request

LEMMA LockTypes ==
  ASSUME NEW d \in Ids
  PROVE  /\ \A m \in Modes : <<RowOf(d), m>> \in Locks
         /\ SourceLock(d) \in Locks /\ EntryLock(d) \in Locks /\ Counter \in Locks
  BY DEF Locks, RowOf, SourceLock, EntryLock, Counter, Modes

LEMMA OneLock ==
  ASSUME NEW l \in Locks
  PROVE  <<l>> \in Seq(Locks) /\ \E i \in DOMAIN <<l>> : <<l>>[i] = l
  <1>1. 1 \in DOMAIN <<l>> /\ <<l>>[1] = l
    OBVIOUS
  <1>2. QED
    BY <1>1

LEMMA TwoLocks ==
  ASSUME NEW l \in Locks, NEW k \in Locks
  PROVE  <<k, l>> \in Seq(Locks) /\ \E i \in DOMAIN <<k, l>> : <<k, l>>[i] = l
  <1>1. 2 \in DOMAIN <<k, l>> /\ <<k, l>>[2] = l
    OBVIOUS
  <1>2. QED
    BY <1>1

LEMMA NoLock == <<>> \in Seq(Locks) /\ DOMAIN <<>> = {}
  OBVIOUS

(* Of the locks on one row, an owner's keeps out a sharer's and an owner's. *)
LEMMA OwnersClash ==
  ASSUME NEW u, NEW m \in {"no_key_update", "update"}, NEW n \in {"share", "no_key_update", "update"}
  PROVE  Clash(<<u, m>>, <<u, n>>)
  <1>1. Strength(m) \in 3..4
    <2>1. Strength("no_key_update") = 3
      BY DEF Strength
    <2>2. Strength("update") = 4
      BY DEF Strength
    <2>3. QED
      BY <2>1, <2>2
  <1>2. Strength(n) \in 2..4
    <2>1. Strength("share") = 2
      BY DEF Strength
    <2>2. Strength("no_key_update") = 3
      BY DEF Strength
    <2>3. Strength("update") = 4
      BY DEF Strength
    <2>4. QED
      BY <2>1, <2>2, <2>3
  <1>3. Conflicting(m, n)
    BY <1>1, <1>2 DEF Conflicting
  <1>4. QED
    BY <1>3 DEF Clash

LEMMA OwnerExcludes ==
  ASSUME Inv, NEW s \in Sessions, NEW r \in Sessions, r # s, NEW d \in Ids, Owns(s, d)
  PROVE  ~Holds(r, <<RowOf(d), "share">>) /\ ~Owns(r, d)
  <1>1. PICK m \in {"no_key_update", "update"} : <<RowOf(d), m>> \in tx[s].held
    BY DEF Owns, Holds
  <1>2. ASSUME NEW n \in {"share", "no_key_update", "update"} PROVE <<RowOf(d), n>> \notin tx[r].held
    BY <1>1, OwnersClash DEF Inv, HeldApart
  <1>3. QED
    BY <1>2 DEF Owns, Holds

LEMMA KeysExclude ==
  ASSUME Inv, NEW s \in Sessions, NEW r \in Sessions, r # s, NEW d \in Ids
  PROVE  /\ ~(Holds(s, SourceLock(d)) /\ Holds(r, SourceLock(d)))
         /\ ~(Holds(s, EntryLock(d)) /\ Holds(r, EntryLock(d)))
  <1>1. Clash(SourceLock(d), SourceLock(d)) /\ Clash(EntryLock(d), EntryLock(d))
    BY OwnersClash DEF SourceLock, EntryLock
  <1>2. QED
    BY <1>1 DEF Inv, HeldApart, Holds

-----------------------------------------------------------------------------
(* Steps that write no table.                                              *)

(* A step that changes one request, and gives it no lock of another's,     *)
(* leaves what is known of the others.                                     *)
LEMMA StepOfOne ==
  ASSUME Inv, NEW s \in Sessions, NEW t \in Request,
         Start(s, t), UNCHANGED rows,
         \A r \in Sessions \ {s} : \A l \in t.held, k \in tx[r].held : ~Clash(l, k) /\ ~Clash(k, l),
         \A r \in Sessions \ {s} :
           t.doc # None /\ tx[r].doc = t.doc => document[t.doc].state # "none",
         Knows(s)', Written(s)'
  PROVE  Inv'
  <1>1. tx' = [tx EXCEPT ![s] = t] /\ tx \in [Sessions -> Request]
        /\ document' = document /\ entry' = entry /\ reversed' = reversed
    BY DEF Inv, Typed, Start, rows
  <1>2. Typed' /\ EntriesFollowState'
    BY <1>1 DEF Inv, Typed, EntriesFollowState
  <1>3. HeldApart'
    BY <1>1 DEF Inv, HeldApart
  <1>4. MadeAlone'
    BY <1>1 DEF Inv, MadeAlone
  <1>5. ASSUME NEW r \in Sessions PROVE (Knows(r) /\ Written(r))'
    <2>1. CASE r = s
      BY <2>1
    <2>2. CASE r # s
      <3>1. tx'[r] = tx[r]
        BY <1>1, <2>2
      <3>2. Knows(r) /\ Written(r)
        BY DEF Inv
      <3>3. /\ \A l : Holds(r, l)' <=> Holds(r, l)
            /\ \A l : Takes(r, l)' <=> Takes(r, l)
            /\ \A d : Owns(r, d)' <=> Owns(r, d)
        BY <3>1 DEF Holds, Takes, Owns
      <3>4. Knows(r)'
        BY <1>1, <3>1, <3>2, <3>3 DEF Knows
      <3>5. Written(r)'
        BY <1>1, <3>1, <3>2, <3>3 DEF Written, MakesNote, Edits, Annotates, Issues, Cancels
      <3>6. QED
        BY <3>4, <3>5
    <2>3. QED
      BY <2>1, <2>2
  <1>6. QED
    BY <1>2, <1>3, <1>4, <1>5 DEF Inv

(* A request that goes on with its locks and its document.                 *)
LEMMA GoOn ==
  ASSUME Inv, NEW s \in Sessions, NEW t \in Request, Start(s, t), UNCHANGED rows,
         t.held = tx[s].held, t.doc = tx[s].doc, Knows(s)', Written(s)'
  PROVE  Inv'
  <1>1. \A r \in Sessions \ {s} : \A l \in t.held, k \in tx[r].held : ~Clash(l, k) /\ ~Clash(k, l)
    BY DEF Inv, HeldApart
  <1>2. \A r \in Sessions \ {s} :
          t.doc # None /\ tx[r].doc = t.doc => document[t.doc].state # "none"
    BY DEF Inv, MadeAlone
  <1>3. QED
    BY <1>1, <1>2, StepOfOne

LEMMA AbortStep ==
  ASSUME Inv, NEW s \in Sessions, Abort(s)
  PROVE  Inv'
  <1>1. Start(s, Idle) /\ UNCHANGED rows /\ tx'[s] = Idle
    BY DEF Abort, Start, Inv, Typed
  <1>2. Knows(s)' /\ Written(s)'
    BY <1>1 DEF Knows, Written, Idle
  <1>3. Idle.held = {} /\ Idle.doc = None
    BY DEF Idle
  <1>4. QED
    BY <1>1, <1>2, <1>3, IdleType, StepOfOne

LEMMA WithLockType ==
  ASSUME NEW t \in Request, t.queue # <<>>
  PROVE  /\ WithLock(t) \in Request
         /\ \A i \in DOMAIN t.queue :
              t.queue[i] = Head(t.queue) \/ \E j \in DOMAIN Tail(t.queue) : Tail(t.queue)[j] = t.queue[i]
  <1> DEFINE queue == t.queue
  <1>1. t.queue \in Seq(Locks) /\ t.held \in SUBSET Locks
    BY DEF Request
  <1>2. queue \in Seq(Locks) /\ queue # <<>>
    BY <1>1
  <1> HIDE DEF queue
  <1>3. Head(queue) \in Locks /\ Tail(queue) \in Seq(Locks)
    BY <1>2
  <1>4. ASSUME NEW i \in DOMAIN queue
        PROVE  queue[i] = Head(queue) \/ \E j \in DOMAIN Tail(queue) : Tail(queue)[j] = queue[i]
    <2>1. CASE i = 1
      BY <2>1, <1>2
    <2>2. CASE i # 1
      <3>1. i - 1 \in DOMAIN Tail(queue) /\ Tail(queue)[i - 1] = queue[i]
        BY <2>2, <1>2
      <3>2. QED
        BY <3>1
    <2>3. QED
      BY <2>1, <2>2
  <1>5. WithLock(t) \in Request
    BY <1>1, <1>3 DEF WithLock, Request, queue
  <1>6. QED
    BY <1>4, <1>5 DEF queue

LEMMA AcquireStep ==
  ASSUME Inv, NEW s \in Sessions, Acquire(s)
  PROVE  Inv'
  <1> DEFINE t == WithLock(tx[s])
             head == Head(tx[s].queue)
  <1>1. /\ tx \in [Sessions -> Request]
        /\ tx[s] \in Request /\ tx[s].queue # <<>>
        /\ Start(s, t) /\ UNCHANGED rows /\ tx'[s] = t
    BY DEF Acquire, CanTakeLock, Start, Inv, Typed
  <1>2. /\ t \in Request
        /\ \A i \in DOMAIN tx[s].queue :
              tx[s].queue[i] = head \/ \E j \in DOMAIN Tail(tx[s].queue) : Tail(tx[s].queue)[j] = tx[s].queue[i]
    BY <1>1, WithLockType
  <1>3. t.held = tx[s].held \cup {head} /\ t.queue = Tail(tx[s].queue) /\ SameWork(t, tx[s])
    BY <1>1 DEF WithLock, Request, SameWork
  <1>4. ASSUME NEW r \in Sessions \ {s}, NEW l \in t.held, NEW k \in tx[r].held
        PROVE  ~Clash(l, k) /\ ~Clash(k, l)
    <2>1. CASE l \in tx[s].held
      BY <2>1 DEF Inv, HeldApart
    <2>2. CASE l = head
      <3>1. r \in DOMAIN tx
        BY <1>1
      <3>2. ~Clash(k, head)
        BY <1>1, <3>1 DEF Acquire, CanTakeLock, WaitsFor
      <3>3. k \in Locks /\ head \in Locks
        BY <1>1, <1>2, <1>3 DEF Request
      <3>4. Strength(k[2]) \in Int /\ Strength(head[2]) \in Int
        BY <3>3 DEF Locks, Modes, Strength
      <3>5. ~Clash(head, k)
        BY <3>2, <3>4 DEF Clash, Conflicting
      <3>6. QED
        BY <2>2, <3>2, <3>5
    <2>3. QED
      BY <1>3, <2>1, <2>2
  <1> HIDE DEF t, head
  <1>5. ASSUME NEW l
        PROVE  (Holds(s, l) => Holds(s, l)') /\ (Takes(s, l) => Takes(s, l)')
    BY <1>1, <1>2, <1>3 DEF Holds, Takes
  <1>6. Knows(s) /\ Written(s)
    BY DEF Inv
  <1>7. \A d : Owns(s, d) => Owns(s, d)'
    BY <1>5 DEF Owns
  <1>8. document' = document /\ entry' = entry
    BY <1>1 DEF rows
  <1>9. Knows(s)'
    BY <1>1, <1>3, <1>5, <1>6, <1>8 DEF Knows, SameWork
  <1>10. Written(s)'
    BY <1>1, <1>3, <1>6, <1>7, <1>8 DEF Written, MakesNote, Edits, Annotates, Issues, Cancels, SameWork
  <1>11. \A r \in Sessions \ {s} :
           t.doc # None /\ tx[r].doc = t.doc => document[t.doc].state # "none"
    BY <1>3 DEF Inv, MadeAlone, SameWork
  <1>12. QED
    BY <1>1, <1>2, <1>4, <1>9, <1>10, <1>11, StepOfOne

-----------------------------------------------------------------------------
(* Requests begin.                                                         *)

LEMMA RowTypes ==
  ASSUME Inv, NEW d \in Ids
  PROVE  /\ document[d] \in Rows /\ document[d] \in Document
         /\ document[d].amount \in Amounts \cup {None}
         /\ document[d].state \in {"draft", "posted", "cancelled"} => document[d].amount # None
         /\ document[d].origin \in Invoices \cup {None}
  BY DEF Inv, Typed, Rows, Document

LEMMA DocsAreIds == \A d \in Ids : d # None
  BY DocumentsAssumption DEF Ids

(* A request on a document that exists.                                    *)
LEMMA BeginStep ==
  ASSUME Inv, NEW s \in Sessions, NEW t \in Request, Start(s, t), UNCHANGED rows,
         t.held = {}, t.doc \in Ids, document[t.doc].state # "none", Knows(s)', Written(s)'
  PROVE  Inv'
  <1>1. QED
    BY StepOfOne

LEMMA BeginNoteStep ==
  ASSUME Inv, NEW s \in Sessions, NEW n \in Notes, NEW o \in Invoices, BeginNote(s, n, o)
  PROVE  Inv'
  <1> DEFINE row == Draft(document[o].amount, o)
             lock == <<RowOf(o), "key_share">>
             t == [Idle EXCEPT !.doc = n, !.row = row, !.pc = "commit", !.queue = <<lock>>]
  <1>1. /\ n \in Ids /\ o \in Ids /\ Start(s, t) /\ UNCHANGED rows
        /\ document[n].state = "none" /\ document[o].state = "posted"
        /\ \A r \in Sessions : tx[r].doc # n
    BY DEF BeginNote, Goto, Ids
  <1>2. row \in Rows /\ row \in Document /\ row.state = "draft"
    <2>1. document[o].amount \in Amounts /\ document[o].amount # None
      BY <1>1, RowTypes
    <2>2. QED
      BY <2>1, DocumentsAssumption DEF Draft, Rows, Document
  <1>3. lock \in Locks
    BY <1>1, LockTypes DEF Modes
  <1> HIDE DEF row, lock
  <1>4. /\ t.pc = "commit" /\ t.doc = n /\ t.row = row /\ t.posts = None /\ t.reverses = FALSE
        /\ t.held = {} /\ t.queue = <<lock>>
    BY DEF Idle
  <1>5. t \in Request
    BY <1>1, <1>2, <1>3, OneLock DEF Idle, Request
  <1> HIDE DEF t
  <1>6. tx'[s] = t /\ document' = document
    BY <1>1 DEF Start, Inv, Typed, rows
  <1>7. Knows(s)'
    BY <1>1, <1>4, <1>6, DocsAreIds DEF Knows
  <1>8. Written(s)'
    BY <1>1, <1>2, <1>4, <1>6 DEF Written, MakesNote
  <1>9. QED
    BY <1>1, <1>4, <1>5, <1>7, <1>8, StepOfOne

(* The row first, if its columns change, then its lines.                   *)
LEMMA BeginUpdateStep ==
  ASSUME Inv, NEW s \in Sessions, NEW d \in Ids, NEW a \in Amounts, NEW text \in Texts \cup {None},
         BeginUpdate(s, d, a, text)
  PROVE  Inv'
  <1> DEFINE first == <<RowOf(d), "no_key_update">>
             lock == <<RowOf(d), "share">>
             queue == IF text = None THEN <<lock>> ELSE <<first, lock>>
             t == [Idle EXCEPT !.doc = d, !.lines = a, !.text = text, !.pc = "lines", !.queue = queue]
  <1>1. Start(s, t) /\ UNCHANGED rows /\ document[d].state = "draft"
    BY DEF BeginUpdate, Goto
  <1>2. lock \in Locks /\ first \in Locks
    BY LockTypes DEF Modes
  <1> HIDE DEF lock, first
  <1>3. queue \in Seq(Locks) /\ \E i \in DOMAIN queue : queue[i] = lock
    <2>1. CASE text = None
      <3>1. queue = <<lock>>
        BY <2>1
      <3>2. QED
        BY <1>2, <3>1, OneLock
    <2>2. CASE text # None
      <3>1. queue = <<first, lock>>
        BY <1>2, <2>2
      <3>2. QED
        BY <1>2, <3>1, TwoLocks
    <2>3. QED
      BY <2>1, <2>2
  <1> HIDE DEF queue
  <1>4. /\ t.pc = "lines" /\ t.doc = d /\ t.posts = None /\ t.reverses = FALSE
        /\ t.held = {} /\ t.queue = queue
    BY DEF Idle
  <1>5. t \in Request
    BY <1>3 DEF Idle, Request
  <1> HIDE DEF t
  <1>6. tx'[s] = t /\ document' = document
    BY <1>1 DEF Start, Inv, Typed, rows
  <1>7. Takes(s, lock)'
    BY <1>3, <1>4, <1>6 DEF Takes
  <1>8. Knows(s)' /\ Written(s)'
    BY <1>1, <1>4, <1>6, <1>7, DocsAreIds DEF Knows, Written, lock
  <1>9. QED
    BY <1>1, <1>4, <1>5, <1>8, BeginStep

LEMMA BeginEditStep ==
  ASSUME Inv, NEW s \in Sessions, NEW d \in Ids,
         NEW a \in Amounts \cup {None}, NEW text \in Texts \cup {None},
         BeginEdit(s, d, a, text)
  PROVE  Inv'
  <1> DEFINE lock == <<RowOf(d), "no_key_update">>
             t == [Idle EXCEPT !.doc = d, !.amount = a, !.text = text, !.pc = "touch",
                               !.queue = <<lock>>]
  <1>1. Start(s, t) /\ UNCHANGED rows /\ document[d].state = "draft"
    BY DEF BeginEdit, Goto
  <1>2. lock \in Locks
    BY LockTypes DEF Modes
  <1> HIDE DEF lock
  <1>3. /\ t.pc = "touch" /\ t.doc = d /\ t.lines = None /\ t.posts = None /\ t.reverses = FALSE
        /\ t.held = {} /\ t.queue = <<lock>>
    BY DEF Idle
  <1>4. t \in Request
    BY <1>2, OneLock DEF Idle, Request
  <1> HIDE DEF t
  <1>5. tx'[s] = t /\ document' = document
    BY <1>1 DEF Start, Inv, Typed, rows
  <1>6. Takes(s, lock)'
    BY <1>2, <1>3, <1>5, OneLock DEF Takes
  <1>7. Knows(s)' /\ Written(s)'
    BY <1>1, <1>3, <1>5, <1>6, DocsAreIds DEF Knows, Written, lock
  <1>8. QED
    BY <1>1, <1>3, <1>4, <1>7, BeginStep

LEMMA BeginDeleteStep ==
  ASSUME Inv, NEW s \in Sessions, NEW d \in Ids, BeginDelete(s, d)
  PROVE  Inv'
  <1> DEFINE first == <<RowOf(d), "share">>
             lock == <<RowOf(d), "update">>
             t == [Idle EXCEPT !.doc = d, !.pc = "delete", !.queue = <<first, lock>>]
  <1>1. Start(s, t) /\ UNCHANGED rows /\ document[d].state = "draft"
    BY DEF BeginDelete, Goto
  <1>2. lock \in Locks /\ first \in Locks
    BY LockTypes DEF Modes
  <1> HIDE DEF lock, first
  <1>3. /\ t.pc = "delete" /\ t.doc = d /\ t.posts = None /\ t.reverses = FALSE
        /\ t.held = {} /\ t.queue = <<first, lock>>
    BY DEF Idle
  <1>4. t \in Request
    BY <1>2, TwoLocks DEF Idle, Request
  <1> HIDE DEF t
  <1>5. tx'[s] = t /\ document' = document
    BY <1>1 DEF Start, Inv, Typed, rows
  <1>6. Takes(s, lock)'
    BY <1>2, <1>3, <1>5, TwoLocks DEF Takes
  <1>7. Knows(s)' /\ Written(s)'
    BY <1>1, <1>3, <1>5, <1>6, DocsAreIds DEF Knows, Written, lock
  <1>8. QED
    BY <1>1, <1>3, <1>4, <1>7, BeginStep

LEMMA BeginPostStep ==
  ASSUME Inv, NEW s \in Sessions, NEW d \in Ids, BeginPost(s, d)
  PROVE  Inv'
  <1> DEFINE queue == OriginLock(d)
             a == document[d].amount
             t == [Idle EXCEPT !.doc = d, !.amount = a, !.pc = "limit", !.queue = queue]
  <1>1. Start(s, t) /\ UNCHANGED rows /\ document[d].state = "draft"
    BY DEF BeginPost, Goto
  <1>2. a \in Amounts \cup {None} /\ a # None
    BY <1>1, RowTypes
  <1>3. queue \in Seq(Locks)
    <2>1. CASE document[d].origin = None
      BY <2>1, NoLock DEF OriginLock
    <2>2. CASE document[d].origin # None
      <3>1. document[d].origin \in Ids
        BY <2>2, RowTypes DEF Ids
      <3>2. <<RowOf(document[d].origin), "update">> \in Locks
        BY <3>1, LockTypes DEF Modes
      <3>3. queue = <<<<RowOf(document[d].origin), "update">>>>
        BY <2>2 DEF OriginLock
      <3>4. QED
        BY <3>2, <3>3, OneLock
    <2>3. QED
      BY <2>1, <2>2
  <1> HIDE DEF queue, a
  <1>4. /\ t.pc = "limit" /\ t.doc = d /\ t.amount = a /\ t.posts = None /\ t.reverses = FALSE
        /\ t.held = {}
    BY DEF Idle
  <1>5. t \in Request
    BY <1>2, <1>3 DEF Idle, Request
  <1> HIDE DEF t
  <1>6. tx'[s] = t /\ document' = document
    BY <1>1 DEF Start, Inv, Typed, rows
  <1>7. Knows(s)' /\ Written(s)'
    BY <1>1, <1>2, <1>4, <1>6, DocsAreIds DEF Knows, Written
  <1>8. QED
    BY <1>1, <1>4, <1>5, <1>7, BeginStep

LEMMA BeginCancelStep ==
  ASSUME Inv, NEW s \in Sessions, NEW d \in Ids, BeginCancel(s, d)
  PROVE  Inv'
  <1> DEFINE lock == EntryLock(d)
             t == [Idle EXCEPT !.doc = d, !.pc = "reverse", !.queue = <<lock>>]
  <1>1. Start(s, t) /\ UNCHANGED rows /\ document[d].state = "posted"
    BY DEF BeginCancel, Goto, EntryLock
  <1>2. lock \in Locks
    BY LockTypes
  <1> HIDE DEF lock
  <1>3. /\ t.pc = "reverse" /\ t.doc = d /\ t.posts = None /\ t.reverses = FALSE
        /\ t.held = {} /\ t.queue = <<lock>>
    BY DEF Idle
  <1>4. t \in Request
    BY <1>2, OneLock DEF Idle, Request
  <1> HIDE DEF t
  <1>5. tx'[s] = t /\ document' = document
    BY <1>1 DEF Start, Inv, Typed, rows
  <1>6. Takes(s, lock)'
    BY <1>2, <1>3, <1>5, OneLock DEF Takes
  <1>7. Knows(s)' /\ Written(s)'
    BY <1>1, <1>3, <1>5, <1>6, DocsAreIds DEF Knows, Written, lock
  <1>8. QED
    BY <1>1, <1>3, <1>4, <1>7, BeginStep

-----------------------------------------------------------------------------
(* Requests go on.                                                         *)

(* A request that is not idle and waits for no lock.                       *)
LEMMA Here ==
  ASSUME Inv, NEW s \in Sessions, NEW here, At(s, here), here # "idle"
  PROVE  /\ tx[s] \in Request /\ tx[s].pc = here /\ tx[s].doc \in Ids
         /\ tx \in [Sessions -> Request]
         /\ \A l : Takes(s, l) => Holds(s, l)
         /\ Knows(s) /\ Written(s)
  <1>1. /\ tx[s] \in Request /\ tx[s].pc = here /\ tx[s].queue = <<>>
        /\ tx \in [Sessions -> Request] /\ Knows(s) /\ Written(s)
    BY DEF Inv, Typed, At
  <1>2. tx[s].doc \in Ids
    BY <1>1 DEF Knows, Request
  <1>3. \A l : Takes(s, l) => Holds(s, l)
    BY <1>1, NoLock DEF Takes
  <1>4. QED
    BY <1>1, <1>2, <1>3

LEMMA WriteLinesStep ==
  ASSUME Inv, NEW s \in Sessions, WriteLines(s)
  PROVE  Inv'
  <1>1. CASE ~Abort(s)
    <2> PICK d : d = tx[s].doc
      OBVIOUS
    <2> DEFINE lock == <<RowOf(d), "no_key_update">>
               t == [tx[s] EXCEPT !.pc = "touch", !.queue = <<lock>>]
    <2>1. Start(s, t) /\ UNCHANGED rows /\ At(s, "lines") /\ document[d].state = "draft"
      BY <1>1 DEF WriteLines, Goto, LineAllowed
    <2>2. /\ tx[s] \in Request /\ tx[s].pc = "lines" /\ d \in Ids /\ tx \in [Sessions -> Request]
          /\ Takes(s, <<RowOf(d), "share">>) => Holds(s, <<RowOf(d), "share">>)
          /\ Knows(s)
      BY <2>1, Here
    <2>3. lock \in Locks
      BY <2>2, LockTypes DEF Modes
    <2> HIDE DEF lock
    <2>4. /\ t.pc = "touch" /\ t.doc = d /\ t.lines = tx[s].lines /\ t.posts = tx[s].posts
          /\ t.reverses = tx[s].reverses /\ t.held = tx[s].held /\ t.queue = <<lock>>
          /\ t \in Request
      BY <2>2, <2>3, OneLock DEF Request
    <2> HIDE DEF t
    <2>5. tx'[s] = t /\ document' = document
      BY <2>1, <2>2 DEF Start, rows
    <2>6. Takes(s, lock)'
      BY <2>3, <2>4, <2>5, OneLock DEF Takes
    <2>7. Holds(s, <<RowOf(d), "share">>)'
      BY <2>2, <2>4, <2>5 DEF Holds, Knows
    <2>8. Knows(s)' /\ Written(s)'
      BY <2>1, <2>2, <2>4, <2>5, <2>6, <2>7, DocsAreIds DEF Knows, Written, lock
    <2>9. QED
      BY <2>1, <2>4, <2>8, GoOn
  <1>2. QED
    BY <1>1, AbortStep

LEMMA TouchStep ==
  ASSUME Inv, NEW s \in Sessions, Touch(s)
  PROVE  Inv'
  <1>1. CASE ~Abort(s)
    <2> PICK d : d = tx[s].doc
      OBVIOUS
    <2> DEFINE old == [document[d] EXCEPT !.amount = Or(tx[s].lines, @)]
               row == [old EXCEPT !.amount = Or(tx[s].amount, @), !.narration = Or(tx[s].text, @)]
               t == [tx[s] EXCEPT !.row = row, !.pc = "commit", !.queue = <<>>]
    <2>1. /\ Start(s, t) /\ UNCHANGED rows /\ At(s, "touch")
          /\ old.state # "deleted" /\ Allowed(old, row)
      BY <1>1 DEF Touch, Goto
    <2>2. /\ tx[s] \in Request /\ tx[s].pc = "touch" /\ d \in Ids /\ tx \in [Sessions -> Request]
          /\ Takes(s, <<RowOf(d), "no_key_update">>) => Holds(s, <<RowOf(d), "no_key_update">>)
          /\ Knows(s)
      BY <2>1, Here
    <2>3. /\ document[d].state # "none" /\ tx[s].posts = None /\ ~tx[s].reverses
          /\ <<RowOf(d), "no_key_update">> \in tx[s].held
          /\ tx[s].lines # None => document[d].state = "draft"
          /\ document[d] \in Rows /\ document[d] \in Document
      BY <2>2, RowTypes DEF Knows, Holds
    <2>4. /\ tx[s].lines \in Amounts \cup {None} /\ tx[s].amount \in Amounts \cup {None}
          /\ tx[s].text \in Texts \cup {None}
      BY <2>2 DEF Request
    <2>5. old.state = document[d].state
      BY <2>3 DEF Document
    <2>6. document[d].state \notin {"none", "deleted"}
      BY <2>1, <2>3, <2>5
    (* An issued document keeps every column but its narration. *)
    <2>7. /\ row.state = document[d].state /\ row \in Rows /\ row \in Document
          /\ document[d].state # "draft" => row = [document[d] EXCEPT !.narration = row.narration]
      <3> PICK cur : cur = document[d]
        OBVIOUS
      <3> PICK o : o = old
        OBVIOUS
      <3> PICK n : n = row
        OBVIOUS
      <3> PICK lines, a, text : lines = tx[s].lines /\ a = tx[s].amount /\ text = tx[s].text
        OBVIOUS
      <3>1. /\ o = [cur EXCEPT !.amount = Or(lines, @)]
            /\ n = [o EXCEPT !.amount = Or(a, @), !.narration = Or(text, @)]
        OBVIOUS
      <3> HIDE DEF row, old
      <3>2. /\ cur \in Rows /\ cur.state \notin {"none", "deleted"} /\ Allowed(o, n)
            /\ lines # None => cur.state = "draft"
            /\ lines \in Amounts \cup {None} /\ a \in Amounts \cup {None}
            /\ text \in Texts \cup {None}
        BY <2>1, <2>3, <2>4, <2>6
      <3>3. /\ n.state = cur.state /\ n \in Rows /\ n \in Document
            /\ cur.state # "draft" => n = [cur EXCEPT !.narration = n.narration]
        <4>1. cur \in Document /\ cur.amount \in Amounts /\ cur.narration \in Texts \cup {None}
          BY <3>2 DEF Rows, Document
        <4>2. Or(lines, cur.amount) \in Amounts /\ Or(a, Or(lines, cur.amount)) \in Amounts
          BY <3>2, <4>1 DEF Or
        <4>3. Or(text, cur.narration) \in Texts \cup {None}
          BY <3>2, <4>1 DEF Or
        <4>4. /\ o = [cur EXCEPT !.amount = Or(lines, cur.amount)]
              /\ n = [cur EXCEPT !.amount = Or(a, Or(lines, cur.amount)),
                           !.narration = Or(text, cur.narration)]
          BY <3>1, <4>1 DEF Document
        <4>5. /\ o.state = cur.state /\ n.state = cur.state /\ n.origin = cur.origin
              /\ o.amount = Or(lines, cur.amount) /\ n.amount = Or(a, Or(lines, cur.amount))
              /\ n \in Document
          BY <4>1, <4>2, <4>3, <4>4 DEF Document
        <4>6. n \in Rows
          BY <3>2, <4>2, <4>5, DocumentsAssumption DEF Rows
        <4>7. ASSUME cur.state # "draft"
              PROVE  n = [cur EXCEPT !.narration = n.narration]
          <5>1. lines = None /\ o.amount = cur.amount /\ n.amount = o.amount
            BY <3>2, <4>5, <4>7 DEF Allowed, Or
          <5>2. Or(a, Or(lines, cur.amount)) = cur.amount
            BY <4>5, <5>1
          <5>3. n = [cur EXCEPT !.narration = Or(text, cur.narration)]
            BY <4>1, <4>4, <5>2 DEF Document
          <5>4. n.narration = Or(text, cur.narration)
            BY <4>1, <5>3 DEF Document
          <5>5. QED
            BY <5>3, <5>4
        <4>8. QED
          BY <4>5, <4>6, <4>7
      <3>4. QED
        BY <3>3
    <2> HIDE DEF row, old
    <2>8. /\ t.pc = "commit" /\ t.doc = d /\ t.row = row /\ t.posts = tx[s].posts
          /\ t.reverses = tx[s].reverses /\ t.held = tx[s].held
          /\ t \in Request
      BY <2>2, <2>7, NoLock DEF Request
    <2> HIDE DEF t
    <2>9. tx'[s] = t /\ document' = document
      BY <2>1, <2>2 DEF Start, rows
    <2>10. Knows(s)'
      BY <2>2, <2>3, <2>8, <2>9, DocsAreIds DEF Knows
    <2>11. Owns(s, d)'
      BY <2>3, <2>8, <2>9 DEF Owns, Holds
    <2>12. (Edits(tx[s]) \/ Annotates(tx[s]))'
      <3>1. CASE document[d].state = "draft"
        BY <2>3, <2>7, <2>8, <2>9, <3>1 DEF Edits
      <3>2. CASE document[d].state # "draft"
        <4>1. document[d].state \in {"posted", "cancelled"}
          BY <2>3, <2>6, <3>2 DEF Document
        <4>2. QED
          BY <2>3, <2>7, <2>8, <2>9, <3>2, <4>1 DEF Annotates
      <3>3. QED
        BY <3>1, <3>2
    <2>13. Written(s)'
      BY <2>7, <2>8, <2>9, <2>11, <2>12 DEF Written, Edits, Annotates
    <2>14. QED
      BY <2>1, <2>8, <2>10, <2>13, GoOn
  <1>2. QED
    BY <1>1, AbortStep

LEMMA DeleteStep ==
  ASSUME Inv, NEW s \in Sessions, Delete(s)
  PROVE  Inv'
  <1>1. CASE ~Abort(s)
    <2> PICK d : d = tx[s].doc
      OBVIOUS
    <2> DEFINE row == Deleted
               t == [tx[s] EXCEPT !.row = row, !.pc = "commit", !.queue = <<>>]
    <2>1. Start(s, t) /\ UNCHANGED rows /\ At(s, "delete") /\ document[d].state = "draft"
      BY <1>1 DEF Delete, Goto, LineAllowed
    <2>2. /\ tx[s] \in Request /\ tx[s].pc = "delete" /\ d \in Ids /\ tx \in [Sessions -> Request]
          /\ Takes(s, <<RowOf(d), "update">>) => Holds(s, <<RowOf(d), "update">>)
          /\ Knows(s)
      BY <2>1, Here
    <2>3. tx[s].posts = None /\ ~tx[s].reverses /\ <<RowOf(d), "update">> \in tx[s].held
      BY <2>2 DEF Knows, Holds
    <2>4. row \in Rows /\ row \in Document /\ row.state = "deleted"
      BY DEF Deleted, NoDocument, Rows, Document
    <2> HIDE DEF row
    <2>5. /\ t.pc = "commit" /\ t.doc = d /\ t.row = row /\ t.posts = tx[s].posts
          /\ t.reverses = tx[s].reverses /\ t.held = tx[s].held
          /\ t \in Request
      BY <2>2, <2>4, NoLock DEF Request
    <2> HIDE DEF t
    <2>6. tx'[s] = t /\ document' = document
      BY <2>1, <2>2 DEF Start, rows
    <2>7. Knows(s)'
      BY <2>2, <2>3, <2>5, <2>6, DocsAreIds DEF Knows
    <2>8. Owns(s, d)'
      BY <2>3, <2>5, <2>6 DEF Owns, Holds
    <2>9. Written(s)'
      BY <2>1, <2>3, <2>4, <2>5, <2>6, <2>8 DEF Written, Edits
    <2>10. QED
      BY <2>1, <2>5, <2>7, <2>9, GoOn
  <1>2. QED
    BY <1>1, AbortStep

LEMMA CheckLimitStep ==
  ASSUME Inv, NEW s \in Sessions, CheckLimit(s)
  PROVE  Inv'
  <1>1. CASE ~Abort(s)
    <2> PICK d : d = tx[s].doc
      OBVIOUS
    <2> DEFINE lock == SourceLock(d)
               t == [tx[s] EXCEPT !.pc = "enter", !.queue = <<Counter, lock>>]
    <2>1. Start(s, t) /\ UNCHANGED rows /\ At(s, "limit")
      BY <1>1 DEF CheckLimit, Goto, LedgerLocks, SourceLock
    <2>2. /\ tx[s] \in Request /\ tx[s].pc = "limit" /\ d \in Ids /\ tx \in [Sessions -> Request]
          /\ Knows(s)
      BY <2>1, Here
    <2>3. lock \in Locks /\ Counter \in Locks
      BY <2>2, LockTypes
    <2> HIDE DEF lock
    <2>4. /\ t.pc = "enter" /\ t.doc = d /\ t.amount = tx[s].amount /\ t.posts = tx[s].posts
          /\ t.reverses = tx[s].reverses /\ t.held = tx[s].held /\ t.queue = <<Counter, lock>>
          /\ t \in Request
      BY <2>2, <2>3, TwoLocks DEF Request
    <2> HIDE DEF t
    <2>5. tx'[s] = t /\ document' = document
      BY <2>1, <2>2 DEF Start, rows
    <2>6. Takes(s, lock)'
      BY <2>3, <2>4, <2>5, TwoLocks DEF Takes
    <2>7. Knows(s)' /\ Written(s)'
      BY <2>2, <2>4, <2>5, <2>6, DocsAreIds DEF Knows, Written, lock
    <2>8. QED
      BY <2>1, <2>4, <2>7, GoOn
  <1>2. QED
    BY <1>1, AbortStep

LEMMA InsertEntryStep ==
  ASSUME Inv, NEW s \in Sessions, InsertEntry(s)
  PROVE  Inv'
  <1>1. CASE ~Abort(s)
    <2> PICK d : d = tx[s].doc
      OBVIOUS
    <2> DEFINE lock == <<RowOf(d), "no_key_update">>
               t == [tx[s] EXCEPT !.posts = tx[s].amount, !.pc = "stamp", !.queue = <<lock>>]
    <2>1. Start(s, t) /\ UNCHANGED rows /\ At(s, "enter") /\ entry[d] = None
      BY <1>1 DEF InsertEntry, Goto
    <2>2. /\ tx[s] \in Request /\ tx[s].pc = "enter" /\ d \in Ids /\ tx \in [Sessions -> Request]
          /\ Takes(s, SourceLock(d)) => Holds(s, SourceLock(d))
          /\ Knows(s)
      BY <2>1, Here
    <2>3. lock \in Locks
      BY <2>2, LockTypes DEF Modes
    <2> HIDE DEF lock
    <2>4. /\ t.pc = "stamp" /\ t.doc = d /\ t.amount = tx[s].amount /\ t.posts = tx[s].amount
          /\ t.reverses = tx[s].reverses /\ t.held = tx[s].held /\ t.queue = <<lock>>
          /\ t \in Request
      BY <2>2, <2>3, OneLock DEF Request
    <2> HIDE DEF t
    <2>5. tx'[s] = t /\ document' = document /\ entry' = entry
      BY <2>1, <2>2 DEF Start, rows
    <2>6. Takes(s, lock)'
      BY <2>3, <2>4, <2>5, OneLock DEF Takes
    <2>7. Holds(s, SourceLock(d))'
      BY <2>2, <2>4, <2>5 DEF Holds, Knows
    <2>8. Knows(s)' /\ Written(s)'
      BY <2>1, <2>2, <2>4, <2>5, <2>6, <2>7, DocsAreIds DEF Knows, Written, lock
    <2>9. QED
      BY <2>1, <2>4, <2>8, GoOn
  <1>2. QED
    BY <1>1, AbortStep

(* Nobody has entered the document, so it is neither issued nor cancelled: *)
(* it is still the draft that was read.                                    *)
LEMMA StampPostedStep ==
  ASSUME Inv, NEW s \in Sessions, StampPosted(s)
  PROVE  Inv'
  <1>1. CASE ~Abort(s)
    <2> PICK d : d = tx[s].doc
      OBVIOUS
    <2> DEFINE row == [document[d] EXCEPT !.state = "posted"]
               t == [tx[s] EXCEPT !.row = row, !.pc = "commit", !.queue = <<>>]
    <2>1. Start(s, t) /\ UNCHANGED rows /\ At(s, "stamp") /\ document[d].state # "deleted"
      BY <1>1 DEF StampPosted, Goto
    <2>2. /\ tx[s] \in Request /\ tx[s].pc = "stamp" /\ d \in Ids /\ tx \in [Sessions -> Request]
          /\ Takes(s, <<RowOf(d), "no_key_update">>) => Holds(s, <<RowOf(d), "no_key_update">>)
          /\ Knows(s)
      BY <2>1, Here
    <2>3. /\ tx[s].posts # None /\ ~tx[s].reverses /\ entry[d] = None /\ document[d].state # "none"
          /\ <<RowOf(d), "no_key_update">> \in tx[s].held /\ SourceLock(d) \in tx[s].held
      BY <2>2 DEF Knows, Holds
    <2>4. document[d].state = "draft"
      BY <2>1, <2>2, <2>3, RowTypes DEF Inv, EntriesFollowState, Document
    <2>5. row \in Rows /\ row \in Document
      BY <2>2, <2>4, RowTypes DEF Rows, Document
    <2>6. row = [document[d] EXCEPT !.state = "posted"]
      OBVIOUS
    <2> HIDE DEF row
    <2>7. /\ t.pc = "commit" /\ t.doc = d /\ t.row = row /\ t.posts = tx[s].posts
          /\ t.reverses = tx[s].reverses /\ t.held = tx[s].held
          /\ t \in Request
      BY <2>2, <2>5, NoLock DEF Request
    <2> HIDE DEF t
    <2>8. tx'[s] = t /\ document' = document
      BY <2>1, <2>2 DEF Start, rows
    <2>9. Knows(s)'
      BY <2>2, <2>7, <2>8, DocsAreIds DEF Knows
    <2>10. Owns(s, d)'
      BY <2>3, <2>7, <2>8 DEF Owns, Holds
    <2>11. Issues(tx[s])'
      BY <2>3, <2>4, <2>6, <2>7, <2>8 DEF Issues
    <2>12. Written(s)'
      BY <2>5, <2>7, <2>8, <2>10, <2>11 DEF Written, Issues
    <2>13. QED
      BY <2>1, <2>7, <2>9, <2>12, GoOn
  <1>2. QED
    BY <1>1, AbortStep

LEMMA ReverseEntryStep ==
  ASSUME Inv, NEW s \in Sessions, ReverseEntry(s)
  PROVE  Inv'
  <1>1. CASE ~Abort(s)
    <2> PICK d : d = tx[s].doc
      OBVIOUS
    <2> DEFINE lock == <<RowOf(d), "no_key_update">>
               t == [tx[s] EXCEPT !.reverses = TRUE, !.pc = "cancel", !.queue = <<Counter, lock>>]
    <2>1. Start(s, t) /\ UNCHANGED rows /\ At(s, "reverse") /\ d \notin reversed
      BY <1>1 DEF ReverseEntry, Goto
    <2>2. /\ tx[s] \in Request /\ tx[s].pc = "reverse" /\ d \in Ids /\ tx \in [Sessions -> Request]
          /\ Takes(s, EntryLock(d)) => Holds(s, EntryLock(d))
          /\ Knows(s)
      BY <2>1, Here
    <2>3. lock \in Locks /\ Counter \in Locks
      BY <2>2, LockTypes DEF Modes
    <2>4. document[d].state = "posted"
      BY <2>1, <2>2 DEF Knows, Inv, EntriesFollowState
    <2> HIDE DEF lock
    <2>5. /\ t.pc = "cancel" /\ t.doc = d /\ t.amount = tx[s].amount /\ t.posts = tx[s].posts
          /\ t.reverses = TRUE /\ t.held = tx[s].held /\ t.queue = <<Counter, lock>>
          /\ t \in Request
      BY <2>2, <2>3, TwoLocks DEF Request
    <2> HIDE DEF t
    <2>6. tx'[s] = t /\ document' = document
      BY <2>1, <2>2 DEF Start, rows
    <2>7. Takes(s, lock)'
      BY <2>3, <2>5, <2>6, TwoLocks DEF Takes
    <2>8. Holds(s, EntryLock(d))'
      BY <2>2, <2>5, <2>6 DEF Holds, Knows
    <2>9. Knows(s)' /\ Written(s)'
      BY <2>2, <2>4, <2>5, <2>6, <2>7, <2>8, DocsAreIds DEF Knows, Written, lock
    <2>10. QED
      BY <2>1, <2>5, <2>9, GoOn
  <1>2. QED
    BY <1>1, AbortStep

LEMMA StampCancelledStep ==
  ASSUME Inv, NEW s \in Sessions, StampCancelled(s)
  PROVE  Inv'
  <1> PICK d : d = tx[s].doc
    OBVIOUS
  <1> DEFINE row == [document[d] EXCEPT !.state = "cancelled"]
             t == [tx[s] EXCEPT !.row = row, !.pc = "commit", !.queue = <<>>]
  <1>1. Start(s, t) /\ UNCHANGED rows /\ At(s, "cancel")
    BY DEF StampCancelled, Goto
  <1>2. /\ tx[s] \in Request /\ tx[s].pc = "cancel" /\ d \in Ids /\ tx \in [Sessions -> Request]
        /\ Takes(s, <<RowOf(d), "no_key_update">>) => Holds(s, <<RowOf(d), "no_key_update">>)
        /\ Knows(s)
    BY <1>1, Here
  <1>3. /\ document[d].state = "posted" /\ tx[s].posts = None /\ tx[s].reverses
        /\ <<RowOf(d), "no_key_update">> \in tx[s].held /\ EntryLock(d) \in tx[s].held
    BY <1>2 DEF Knows, Holds
  <1>4. row \in Rows /\ row \in Document
    BY <1>2, <1>3, RowTypes DEF Rows, Document
  <1>5. row = [document[d] EXCEPT !.state = "cancelled"]
    OBVIOUS
  <1> HIDE DEF row
  <1>6. /\ t.pc = "commit" /\ t.doc = d /\ t.row = row /\ t.posts = tx[s].posts
        /\ t.reverses = tx[s].reverses /\ t.held = tx[s].held
        /\ t \in Request
    BY <1>2, <1>4, NoLock DEF Request
  <1> HIDE DEF t
  <1>7. tx'[s] = t /\ document' = document
    BY <1>1, <1>2 DEF Start, rows
  <1>8. Knows(s)'
    BY <1>2, <1>6, <1>7, DocsAreIds DEF Knows
  <1>9. Owns(s, d)'
    BY <1>3, <1>6, <1>7 DEF Owns, Holds
  <1>10. Cancels(tx[s])'
    BY <1>3, <1>5, <1>6, <1>7 DEF Cancels
  <1>11. Written(s)'
    BY <1>4, <1>6, <1>7, <1>9, <1>10 DEF Written, Cancels
  <1>12. QED
    BY <1>1, <1>6, <1>8, <1>11, GoOn

-----------------------------------------------------------------------------
(* Steps that write tables.                                                *)

(* What another request knows survives a step that changes one document    *)
(* which that request does not work on.                                    *)
LEMMA OthersElsewhere ==
  ASSUME Inv, NEW r \in Sessions, tx'[r] = tx[r],
         tx[r].doc # None => /\ document'[tx[r].doc] = document[tx[r].doc]
                             /\ entry'[tx[r].doc] = entry[tx[r].doc]
  PROVE  Knows(r)' /\ Written(r)'
  <1>1. Knows(r) /\ Written(r)
    BY DEF Inv
  <1>2. /\ \A l : Holds(r, l)' <=> Holds(r, l)
        /\ \A l : Takes(r, l)' <=> Takes(r, l)
        /\ \A d : Owns(r, d)' <=> Owns(r, d)
    BY DEF Holds, Takes, Owns
  <1>3. CASE tx[r].doc = None
    BY <1>1, <1>3 DEF Knows, Written
  <1>4. CASE tx[r].doc # None
    <2>1. document'[tx[r].doc] = document[tx[r].doc] /\ entry'[tx[r].doc] = entry[tx[r].doc]
      BY <1>4
    <2>2. Knows(r)'
      BY <1>1, <1>2, <2>1 DEF Knows
    <2>3. Written(r)'
      BY <1>1, <1>2, <2>1 DEF Written, MakesNote, Edits, Annotates, Issues, Cancels
    <2>4. QED
      BY <2>2, <2>3
  <1>5. QED
    BY <1>3, <1>4

LEMMA CreateStep ==
  ASSUME Inv, NEW d \in Invoices, NEW a \in Amounts, Create(d, a)
  PROVE  Inv'
  <1> DEFINE row == Draft(a, None)
  <1>1. /\ document' = [document EXCEPT ![d] = row] /\ document[d].state = "none" /\ d \in Ids
        /\ entry' = entry /\ reversed' = reversed /\ tx' = tx
        /\ document \in [Ids -> Rows]
    BY DEF Create, Ids, Inv, Typed
  <1>2. row \in Rows /\ row.state = "draft"
    BY DocumentsAssumption DEF Draft, Rows, Document
  <1> HIDE DEF row
  <1>3. Typed' /\ HeldApart'
    BY <1>1, <1>2 DEF Inv, Typed, HeldApart
  <1>4. MadeAlone'
    <2>1. ASSUME NEW s \in Sessions, NEW r \in Sessions, s # r,
                 tx[s].doc # None, tx[s].doc = tx[r].doc
          PROVE  document'[tx[s].doc].state # "none"
      <3>1. document[tx[s].doc].state # "none"
        BY <2>1 DEF Inv, MadeAlone
      <3>2. QED
        BY <1>1, <1>2, <3>1
    <2>2. QED
      BY <1>1, <2>1 DEF MadeAlone
  <1>5. ASSUME NEW r \in Sessions PROVE Knows(r)' /\ Written(r)'
    <2>1. tx[r].doc # d
      <3>1. Knows(r) /\ Written(r)
        BY DEF Inv
      <3>2. SUFFICES ASSUME tx[r].doc = d PROVE FALSE
        OBVIOUS
      <3>3. tx[r].pc = "commit"
        BY <1>1, <3>1, <3>2, DocsAreIds DEF Knows
      <3>4. d \in Notes
        BY <1>1, <3>1, <3>2, <3>3 DEF Written, MakesNote, Edits, Annotates, Issues, Cancels
      <3>5. QED
        BY <3>4, DocumentsAssumption
    <2>2. document'[tx[r].doc] = document[tx[r].doc] \/ tx[r].doc \notin Ids
      BY <1>1, <2>1
    <2>3. tx[r].doc \in Ids \cup {None}
      BY DEF Inv, Typed, Request
    <2>4. QED
      BY <1>1, <2>2, <2>3, OthersElsewhere
  <1>6. EntriesFollowState'
    BY <1>1, <1>2 DEF Inv, EntriesFollowState
  <1>7. QED
    BY <1>3, <1>4, <1>5, <1>6 DEF Inv

(* What a commit does to its document.                                     *)
LEMMA Commits ==
  ASSUME Inv, NEW s \in Sessions, Commit(s)
  PROVE  LET t == tx[s]
             d == tx[s].doc
         IN
         /\ d \in Ids /\ t \in Request /\ t.row \in Rows /\ tx' = [tx EXCEPT ![s] = Idle]
         /\ document' = [document EXCEPT ![d] = t.row]
         /\ document'[d] = t.row
         /\ \A u \in Ids : u # d => document'[u] = document[u]
         /\ entry' \in [Ids -> Amounts \cup {None}]
         /\ entry'[d] = IF t.posts = None THEN entry[d] ELSE t.posts
         /\ \A u \in Ids : u # d => entry'[u] = entry[u]
         /\ reversed' \in SUBSET Ids
         /\ d \in reversed' <=> d \in reversed \/ t.reverses
         /\ \A u \in Ids : u # d => (u \in reversed' <=> u \in reversed)
         /\ MakesNote(t) \/ (Owns(s, d) /\ (Edits(t) \/ Annotates(t) \/ Issues(t) \/ Cancels(t)))
  <1>1. /\ At(s, "commit") /\ tx' = [tx EXCEPT ![s] = Idle]
        /\ document' = [document EXCEPT ![tx[s].doc] = tx[s].row]
        /\ entry' = IF tx[s].posts = None THEN entry ELSE [entry EXCEPT ![tx[s].doc] = tx[s].posts]
        /\ reversed' = IF tx[s].reverses THEN reversed \cup {tx[s].doc} ELSE reversed
    BY DEF Commit, Start
  <1>2. /\ tx[s] \in Request /\ tx[s].pc = "commit" /\ tx[s].doc \in Ids
        /\ Written(s)
    BY <1>1, Here
  <1>3. /\ document \in [Ids -> Rows] /\ entry \in [Ids -> Amounts \cup {None}]
        /\ reversed \in SUBSET Ids /\ tx[s].posts \in Amounts \cup {None}
    BY <1>2 DEF Inv, Typed, Request
  <1>4. /\ tx[s].row \in Rows
        /\ \/ MakesNote(tx[s])
           \/ Owns(s, tx[s].doc) /\ (Edits(tx[s]) \/ Annotates(tx[s]) \/ Issues(tx[s]) \/ Cancels(tx[s]))
    BY <1>2 DEF Written
  <1>5. /\ entry' \in [Ids -> Amounts \cup {None}]
        /\ entry'[tx[s].doc] = IF tx[s].posts = None THEN entry[tx[s].doc] ELSE tx[s].posts
        /\ \A u \in Ids : u # tx[s].doc => entry'[u] = entry[u]
    BY <1>1, <1>2, <1>3
  <1>6. /\ reversed' \in SUBSET Ids
        /\ tx[s].doc \in reversed' <=> tx[s].doc \in reversed \/ tx[s].reverses
        /\ \A u \in Ids : u # tx[s].doc => (u \in reversed' <=> u \in reversed)
    BY <1>1, <1>2, <1>3
  <1>7. /\ document'[tx[s].doc] = tx[s].row
        /\ \A u \in Ids : u # tx[s].doc => document'[u] = document[u]
    BY <1>1, <1>2, <1>3
  <1>8. QED
    BY <1>1, <1>2, <1>4, <1>5, <1>6, <1>7

(* A commit and another request on the same document: the rows that the    *)
(* one has written and those the other relies on are locked apart.         *)
LEMMA CommitOfSameDocument ==
  ASSUME Inv, NEW s \in Sessions, Commit(s), NEW r \in Sessions, r # s,
         tx[r].doc = tx[s].doc
  PROVE  Knows(r)' /\ Written(r)'
  <1> DEFINE t == tx[r]
             u == tx[s]
  <1> PICK d : d = tx[s].doc
    OBVIOUS
  <1>1. /\ d \in Ids /\ u.row \in Rows /\ tx'[r] = t /\ document'[d] = u.row
        /\ entry'[d] = IF u.posts = None THEN entry[d] ELSE u.posts
        /\ MakesNote(u) \/ (Owns(s, d) /\ (Edits(u) \/ Annotates(u) \/ Issues(u) \/ Cancels(u)))
    BY Commits DEF Inv, Typed
  <1>2. document[d].state # "none" /\ d # None
    BY <1>1, DocsAreIds DEF Inv, MadeAlone
  <1>3. Owns(s, d) /\ (Edits(u) \/ Annotates(u) \/ Issues(u) \/ Cancels(u))
    BY <1>1, <1>2 DEF MakesNote
  <1>4. Knows(r) /\ Written(r)
    BY DEF Inv
  <1>5. ~Holds(r, <<RowOf(d), "share">>) /\ ~Owns(r, d)
    BY <1>1, <1>3, OwnerExcludes
  <1>6. t.pc \notin {"commit", "idle"} /\ (t.pc = "touch" => t.lines = None)
    BY <1>2, <1>4, <1>5 DEF Knows, Written, MakesNote
  <1>7. u.row.state # "none"
    BY <1>1, <1>3, RowTypes DEF Edits, Annotates, Issues, Cancels, Document
  <1>8. t.pc = "stamp" => u.posts = None
    <2>1. t.pc = "stamp" => Holds(r, SourceLock(d))
      BY <1>4 DEF Knows
    <2>2. u.posts # None => Holds(s, SourceLock(d))
      BY <1>3 DEF Edits, Annotates, Issues, Cancels, Holds
    <2>3. QED
      BY <1>1, <2>1, <2>2, KeysExclude
  <1>9. t.pc \in {"reverse", "cancel"} => Cancels(u) \/ Annotates(u)
    BY <1>3, <1>4 DEF Knows, Edits, Issues
  <1>10. Annotates(u) => u.row.state = document[d].state
    BY <1>1, RowTypes DEF Annotates, Document
  <1>11. t.pc = "cancel" => u.row.state = document[d].state
    <2>1. t.pc = "cancel" => Holds(r, EntryLock(d))
      BY <1>4 DEF Knows
    <2>2. Cancels(u) => Holds(s, EntryLock(d))
      BY DEF Cancels, Holds
    <2>3. QED
      BY <1>1, <1>9, <1>10, <2>1, <2>2, KeysExclude
  <1>12. t.pc = "reverse" => u.row.state \in {"posted", "cancelled"}
    <2>1. document[d] \in Document
      BY <1>1, RowTypes
    <2>2. Cancels(u) => u.row.state = "cancelled"
      BY <2>1 DEF Cancels, Document
    <2>3. Annotates(u) => document[d].state \in {"posted", "cancelled"}
      BY DEF Annotates
    <2>4. QED
      BY <1>9, <1>10, <2>2, <2>3
  <1>13. /\ \A l : Holds(r, l)' <=> Holds(r, l)
         /\ \A l : Takes(r, l)' <=> Takes(r, l)
    BY <1>1 DEF Holds, Takes
  <1> HIDE DEF u
  <1>14. Knows(r)'
    BY <1>1, <1>4, <1>6, <1>7, <1>8, <1>11, <1>12, <1>13 DEF Knows
  <1>15. Written(r)'
    BY <1>1, <1>6 DEF Written
  <1>16. QED
    BY <1>14, <1>15

LEMMA CommitStep ==
  ASSUME Inv, NEW s \in Sessions, Commit(s)
  PROVE  Inv'
  <1> DEFINE t == tx[s]
  <1> PICK d : d = tx[s].doc
    OBVIOUS
  <1>1. /\ d \in Ids /\ t \in Request /\ t.row \in Rows /\ tx' = [tx EXCEPT ![s] = Idle]
        /\ document' = [document EXCEPT ![d] = t.row]
        /\ document'[d] = t.row
        /\ \A u \in Ids : u # d => document'[u] = document[u]
        /\ entry' \in [Ids -> Amounts \cup {None}]
        /\ entry'[d] = IF t.posts = None THEN entry[d] ELSE t.posts
        /\ \A u \in Ids : u # d => entry'[u] = entry[u]
        /\ reversed' \in SUBSET Ids
        /\ d \in reversed' <=> d \in reversed \/ t.reverses
        /\ \A u \in Ids : u # d => (u \in reversed' <=> u \in reversed)
        /\ MakesNote(t) \/ Edits(t) \/ Annotates(t) \/ Issues(t) \/ Cancels(t)
    BY Commits
  <1>2. /\ document \in [Ids -> Rows] /\ tx \in [Sessions -> Request] /\ document[d] \in Document
        /\ tx'[s] = Idle /\ \A r \in Sessions : r # s => tx'[r] = tx[r]
    BY <1>1, RowTypes DEF Inv, Typed
  <1>3. Typed'
    BY <1>1, <1>2, IdleType DEF Typed
  <1>4. HeldApart'
    BY <1>2 DEF Inv, HeldApart, Idle
  <1>5. ASSUME NEW r \in Sessions PROVE Knows(r)' /\ Written(r)'
    <2>1. CASE r = s
      BY <1>2, <2>1 DEF Knows, Written, Idle
    <2>2. CASE r # s /\ tx[r].doc = d
      BY <2>2, CommitOfSameDocument
    <2>3. CASE r # s /\ tx[r].doc # d
      <3>1. tx[r].doc \in Ids \cup {None}
        BY <1>2 DEF Request
      <3>2. QED
        BY <1>1, <1>2, <2>3, <3>1, OthersElsewhere
    <2>4. QED
      BY <2>1, <2>2, <2>3
  <1>6. t.row.state # "none"
    BY <1>1, <1>2 DEF MakesNote, Edits, Annotates, Issues, Cancels, Document
  <1>7. MadeAlone'
    <2>1. ASSUME NEW q \in Sessions, NEW r \in Sessions, q # r,
                 tx'[q].doc # None, tx'[q].doc = tx'[r].doc
          PROVE  document'[tx'[q].doc].state # "none"
      <3>1. q # s /\ r # s
        BY <1>2, <2>1 DEF Idle
      <3>2. document[tx[q].doc].state # "none" /\ tx'[q] = tx[q] /\ tx[q].doc \in Ids
        BY <1>2, <2>1, <3>1 DEF Inv, MadeAlone, Request
      <3>3. QED
        BY <1>1, <1>6, <3>2
    <2>2. QED
      BY <2>1 DEF MadeAlone
  <1>8. EntriesFollowState'
    <2>1. ASSUME NEW u \in Ids
          PROVE  /\ entry'[u] # None <=> document'[u].state \in {"posted", "cancelled"}
                 /\ u \in reversed' <=> document'[u].state = "cancelled"
      <3>1. /\ entry[u] # None <=> document[u].state \in {"posted", "cancelled"}
            /\ u \in reversed <=> document[u].state = "cancelled"
        BY DEF Inv, EntriesFollowState
      <3>2. CASE u # d
        BY <1>1, <3>1, <3>2
      <3>3. CASE u = d /\ (MakesNote(t) \/ Edits(t))
        BY <1>1, <3>1, <3>3 DEF MakesNote, Edits
      <3>4. CASE u = d /\ Issues(t)
        <4>1. t.row.state = "posted" /\ t.posts # None /\ ~t.reverses /\ document[d].state = "draft"
          BY <1>2, <3>4 DEF Issues, Document
        <4>2. QED
          BY <1>1, <3>1, <3>4, <4>1
      <3>5. CASE u = d /\ Cancels(t)
        <4>1. t.row.state = "cancelled" /\ t.posts = None /\ t.reverses /\ document[d].state = "posted"
          BY <1>2, <3>5 DEF Cancels, Document
        <4>2. QED
          BY <1>1, <3>1, <3>5, <4>1
      <3>6. CASE u = d /\ Annotates(t)
        <4>1. t.row.state = document[d].state /\ t.posts = None /\ ~t.reverses
          BY <1>2, <3>6 DEF Annotates, Document
        <4>2. QED
          BY <1>1, <3>1, <3>6, <4>1
      <3>7. QED
        BY <1>1, <3>2, <3>3, <3>4, <3>5, <3>6
    <2>2. QED
      BY <2>1 DEF EntriesFollowState
  <1>9. QED
    BY <1>3, <1>4, <1>5, <1>7, <1>8 DEF Inv

-----------------------------------------------------------------------------
(* The theorems.                                                           *)

LEMMA InitInv == ASSUME Init PROVE Inv
  <1>1. /\ document = [d \in Ids |-> NoDocument]
        /\ entry = [d \in Ids |-> None] /\ reversed = {} /\ tx = [s \in Sessions |-> Idle]
    BY DEF Init
  <1>2. NoDocument \in Rows
    BY DEF NoDocument, Rows, Document
  <1>3. Typed
    BY <1>1, <1>2, IdleType DEF Typed
  <1>4. HeldApart /\ MadeAlone /\ \A s \in Sessions : Knows(s) /\ Written(s)
    BY <1>1 DEF HeldApart, MadeAlone, Knows, Written, Idle
  <1>5. EntriesFollowState
    BY <1>1 DEF EntriesFollowState, NoDocument
  <1>6. QED
    BY <1>3, <1>4, <1>5 DEF Inv

LEMMA StepInv == ASSUME Inv, [Next]_vars PROVE Inv'
  <1>1. CASE UNCHANGED vars
    <2>1. document' = document /\ entry' = entry /\ reversed' = reversed /\ tx' = tx
      BY <1>1 DEF vars, rows
    <2>2. (Typed /\ HeldApart /\ MadeAlone /\ EntriesFollowState)'
      BY <2>1 DEF Inv, Typed, HeldApart, MadeAlone, EntriesFollowState
    <2>3. ASSUME NEW s \in Sessions PROVE (Knows(s) /\ Written(s))'
      BY <2>1, OthersElsewhere
    <2>4. QED
      BY <2>2, <2>3 DEF Inv
  <1>2. ASSUME NEW d \in Invoices, NEW a \in Amounts, Create(d, a) PROVE Inv'
    BY <1>2, CreateStep
  <1>3. ASSUME NEW s \in Sessions, NEW n \in Notes, NEW o \in Invoices, BeginNote(s, n, o) PROVE Inv'
    BY <1>3, BeginNoteStep
  <1>4. ASSUME NEW s \in Sessions, NEW d \in Edited, NEW a \in Amounts, NEW text \in TextsOf(d),
               BeginUpdate(s, d, a, text)
        PROVE  Inv'
    BY <1>4, BeginUpdateStep, DocumentsAssumption DEF Ids, TextsOf
  <1>5. ASSUME NEW s \in Sessions, NEW d \in Edited, BeginDelete(s, d) PROVE Inv'
    BY <1>5, BeginDeleteStep, DocumentsAssumption DEF Ids
  <1>6. ASSUME NEW s \in Sessions, NEW d \in Ids, BeginPost(s, d) \/ BeginCancel(s, d) PROVE Inv'
    BY <1>6, BeginPostStep, BeginCancelStep
  <1>7. ASSUME NEW s \in Sessions, Acquire(s) \/ WriteLines(s) \/ Touch(s) \/ Delete(s) PROVE Inv'
    BY <1>7, AcquireStep, WriteLinesStep, TouchStep, DeleteStep
  <1>8. ASSUME NEW s \in Sessions, CheckLimit(s) \/ InsertEntry(s) \/ StampPosted(s) PROVE Inv'
    BY <1>8, CheckLimitStep, InsertEntryStep, StampPostedStep
  <1>9. ASSUME NEW s \in Sessions, ReverseEntry(s) \/ StampCancelled(s) PROVE Inv'
    BY <1>9, ReverseEntryStep, StampCancelledStep
  <1>10. ASSUME NEW s \in Sessions, Commit(s) \/ Rollback(s) \/ DeadlockVictim(s) PROVE Inv'
    BY <1>10, CommitStep, AbortStep DEF Rollback, DeadlockVictim
  <1>11. ASSUME NEW s \in Sessions, NEW d \in Narrated, NEW a \in Amounts \cup {None},
                NEW text \in Texts \cup {None}, BeginEdit(s, d, a, text)
         PROVE  Inv'
    BY <1>11, BeginEditStep, DocumentsAssumption DEF Ids
  <1>12. QED
    BY <1>1, <1>2, <1>3, <1>4, <1>5, <1>6, <1>7, <1>8, <1>9, <1>10, <1>11 DEF Next

(* What a request will write is made of a row it has locked and that has   *)
(* not changed since, although the state it acts on was read without a     *)
(* lock (post_document, cancel_document, update_document, document_guard). *)
THEOREM Invariance == Spec => []Inv
  <1>1. Init => Inv
    BY InitInv
  <1>2. Inv /\ [Next]_vars => Inv'
    BY StepInv
  <1>3. QED
    BY <1>1, <1>2, PTL DEF Spec

(* An issued document has one entry, a cancelled one its reversal too, and *)
(* no other has either, whatever requests race over it (post_document,     *)
(* cancel_document, delete_document).                                      *)
THEOREM EntriesAlwaysFollowState == Spec => []EntriesFollowState
  <1>1. Inv => EntriesFollowState
    BY DEF Inv
  <1>2. QED
    BY <1>1, Invariance, PTL

LEMMA EvidenceStep ==
  ASSUME Inv, [Next]_vars, NEW d \in Ids
  PROVE  /\ document[d].state \in {"posted", "cancelled"} =>
              document'[d] \in
                [state: {document[d].state, "cancelled"}, amount: {document[d].amount},
                 origin: {document[d].origin}, narration: Texts \cup {None}]
         /\ document[d].state = "deleted" => document'[d] = document[d]
  <1> DEFINE kept == [state: {document[d].state, "cancelled"}, amount: {document[d].amount},
                      origin: {document[d].origin}, narration: Texts \cup {None}]
  <1>1. document[d] \in Document /\ document[d] \in kept
    BY RowTypes DEF Document
  <1>2. CASE document' = document
    BY <1>1, <1>2
  <1>3. ASSUME NEW u \in Invoices, NEW a \in Amounts, Create(u, a)
        PROVE  document[d].state # "none" => document'[d] = document[d]
    BY <1>3 DEF Create, Inv, Typed
  <1>4. ASSUME NEW s \in Sessions, Commit(s), d = tx[s].doc
        PROVE  \/ document[d].state \in {"none", "draft"}
               \/ document[d].state \in {"posted", "cancelled"} /\ document'[d] \in kept
    <2> PICK t : t = tx[s]
      OBVIOUS
    <2>1. /\ document'[d] = t.row /\ t.row \in Document
          /\ MakesNote(t) \/ Edits(t) \/ Annotates(t) \/ Issues(t) \/ Cancels(t)
      BY <1>4, Commits DEF Rows
    <2>2. CASE Annotates(t)
      BY <1>1, <1>4, <2>1, <2>2 DEF Annotates, Document
    <2>3. CASE Cancels(t)
      BY <1>1, <1>4, <2>1, <2>3 DEF Cancels, Document
    <2>4. QED
      BY <1>4, <2>1, <2>2, <2>3 DEF MakesNote, Edits, Issues
  <1>5. ASSUME NEW s \in Sessions, Commit(s), d # tx[s].doc
        PROVE  document'[d] = document[d]
    BY <1>5, Commits
  <1>6. \/ document' = document
        \/ \E u \in Invoices, a \in Amounts : Create(u, a)
        \/ \E s \in Sessions : Commit(s)
    <2>1. ASSUME NEW s, NEW u, NEW a, NEW text, BeginUpdate(s, u, a, text) \/ BeginEdit(s, u, a, text)
          PROVE  document' = document
      BY <2>1 DEF BeginUpdate, BeginEdit, Goto, rows
    <2>2. QED
      BY <2>1 DEF Next, vars, rows, BeginNote, BeginDelete, BeginPost, BeginCancel, Acquire,
         WriteLines, Touch, Delete, CheckLimit, InsertEntry, StampPosted, ReverseEntry,
         StampCancelled, Rollback, DeadlockVictim, Abort, Goto
  <1> HIDE DEF kept
  <1>7. \/ document[d].state \in {"none", "draft"}
        \/ document'[d] = document[d]
        \/ document[d].state \in {"posted", "cancelled"} /\ document'[d] \in kept
    BY <1>2, <1>3, <1>4, <1>5, <1>6
  <1>8. QED
    BY <1>1, <1>7 DEF kept

(* The lines of an issued document, and the columns that document_guard    *)
(* compares, are only ever those it was issued with, whatever requests had *)
(* read it as a draft, and it is only cancelled, for good (migration 0004).*)
THEOREM IssuedIsAlwaysEvidence == Spec => IssuedIsEvidence
  <1>1. Inv /\ [Next]_vars =>
          [\A d \in Ids :
             LET old == document[d]
                 new == document'[d]
             IN
             /\ old.state \in {"posted", "cancelled"} =>
                  new \in [state: {old.state, "cancelled"}, amount: {old.amount}, origin: {old.origin},
                           narration: Texts \cup {None}]
             /\ old.state = "deleted" => new = old]_vars
    BY EvidenceStep
  <1>2. QED
    BY <1>1, Invariance, PTL DEF Spec, IssuedIsEvidence

-----------------------------------------------------------------------------
(* The notes of an invoice.                                                *)

(* Steps of one request: the tables stay, and so does what the others      *)
(* have checked.                                                           *)
LEMMA LimitOfOne ==
  ASSUME LimitInv, Inv', NEW s \in Sessions, NEW t \in Request, Start(s, t), UNCHANGED rows,
         Checked(s)'
  PROVE  LimitInv'
  <1>1. tx' = [tx EXCEPT ![s] = t] /\ tx \in [Sessions -> Request]
        /\ document' = document /\ entry' = entry
    BY DEF LimitInv, Inv, Typed, Start, rows
  <1>2. NotesHaveOrigins'
    BY <1>1 DEF LimitInv, NotesHaveOrigins
  <1>3. \A o \in Invoices : WithinLimit(o)'
    BY <1>1 DEF LimitInv, WithinLimit, AsEntered, NotesOf
  <1>4. ASSUME NEW r \in Sessions PROVE Checked(r)'
    <2>1. CASE r = s
      BY <2>1
    <2>2. CASE r # s
      <3>1. tx'[r] = tx[r] /\ Checked(r)
        BY <1>1, <2>2 DEF LimitInv
      <3>2. /\ \A l : Holds(r, l)' <=> Holds(r, l)
            /\ \A l : Takes(r, l)' <=> Takes(r, l)
        BY <3>1 DEF Holds, Takes
      <3>3. \A d, a : Fits(d, a)' <=> Fits(d, a)
        BY <1>1 DEF Fits, TotalOf, NotesOf
      <3>4. QED
        BY <1>1, <3>1, <3>2, <3>3 DEF Checked, OriginHeld
    <2>3. QED
      BY <2>1, <2>2
  <1>5. QED
    BY <1>2, <1>3, <1>4 DEF LimitInv

(* A request that has nothing to issue and nothing to write.               *)
LEMMA NothingChecked ==
  ASSUME LimitInv, Inv', NEW s \in Sessions, NEW t \in Request, Start(s, t), UNCHANGED rows,
         t.pc \notin {"limit", "enter", "stamp", "commit"},
         t.posts = None \/ t.posts = t.amount
  PROVE  LimitInv'
  <1>1. tx'[s] = t
    BY DEF LimitInv, Inv, Typed, Start
  <1>2. Checked(s)'
    BY <1>1 DEF Checked, Issuing
  <1>3. QED
    BY <1>2, LimitOfOne

LEMMA LimitAbort ==
  ASSUME LimitInv, Inv', NEW s \in Sessions, Abort(s)
  PROVE  LimitInv'
  <1>1. Start(s, Idle) /\ UNCHANGED rows
    BY DEF Abort
  <1>2. Idle.pc = "idle" /\ Idle.posts = None
    BY DEF Idle
  <1>3. QED
    BY <1>1, <1>2, IdleType, NothingChecked

LEMMA LimitBeginNote ==
  ASSUME LimitInv, Inv', NEW s \in Sessions, NEW n \in Notes, NEW o \in Invoices, BeginNote(s, n, o)
  PROVE  LimitInv'
  <1> DEFINE row == Draft(document[o].amount, o)
             queue == <<<<RowOf(o), "key_share">>>>
             t == [Idle EXCEPT !.doc = n, !.row = row, !.pc = "commit", !.queue = queue]
  <1>1. /\ Start(s, t) /\ UNCHANGED rows
        /\ document[n].state = "none" /\ document[o].state = "posted"
    BY DEF BeginNote, Goto
  <1>2. row.origin = o
    BY DEF Draft
  <1> HIDE DEF row, queue
  <1>3. t.pc = "commit" /\ t.doc = n /\ t.row = row /\ t.posts = None
    BY DEF Idle
  <1> HIDE DEF t
  <1>4. tx'[s] = t /\ document' = document /\ t \in Request
    <2>1. tx'[s] = t /\ document' = document /\ tx' \in [Sessions -> Request]
      BY <1>1 DEF Start, LimitInv, Inv, Typed, rows
    <2>2. QED
      BY <2>1
  <1>5. Checked(s)'
    BY <1>1, <1>2, <1>3, <1>4 DEF Checked, Issuing
  <1>6. QED
    BY <1>1, <1>4, <1>5, LimitOfOne

(* Where a request is after a step that keeps its document and its locks.  *)
LEMMA Went ==
  ASSUME LimitInv, Inv', NEW s \in Sessions, NEW t, Start(s, t), UNCHANGED rows
  PROVE  t \in Request /\ tx'[s] = t /\ document' = document /\ tx[s] \in Request
  <1>1. tx'[s] = t /\ document' = document /\ tx' \in [Sessions -> Request] /\ tx[s] \in Request
    BY DEF Start, LimitInv, Inv, Typed, rows
  <1>2. QED
    BY <1>1

LEMMA LimitBegin ==
  ASSUME LimitInv, Inv', NEW s \in Sessions, NEW d \in Ids,
         \/ \E a, text : BeginUpdate(s, d, a, text) \/ BeginEdit(s, d, a, text)
         \/ BeginDelete(s, d) \/ BeginCancel(s, d)
  PROVE  LimitInv'
  <1>1. ASSUME NEW a, NEW text, BeginUpdate(s, d, a, text) \/ BeginEdit(s, d, a, text)
        PROVE  LimitInv'
    <2>1. CASE BeginUpdate(s, d, a, text)
      <3> DEFINE queue == IF text = None THEN <<<<RowOf(d), "share">>>>
                          ELSE <<<<RowOf(d), "no_key_update">>, <<RowOf(d), "share">>>>
                 t == [Idle EXCEPT !.doc = d, !.lines = a, !.text = text, !.pc = "lines", !.queue = queue]
      <3>1. Start(s, t) /\ UNCHANGED rows
        BY <2>1 DEF BeginUpdate, Goto
      <3> HIDE DEF queue
      <3>2. t.pc = "lines" /\ t.posts = None
        BY DEF Idle
      <3> HIDE DEF t
      <3>3. QED
        BY <3>1, <3>2, Went, NothingChecked
    <2>2. CASE BeginEdit(s, d, a, text)
      <3> DEFINE queue == <<<<RowOf(d), "no_key_update">>>>
                 t == [Idle EXCEPT !.doc = d, !.amount = a, !.text = text, !.pc = "touch", !.queue = queue]
      <3>1. Start(s, t) /\ UNCHANGED rows
        BY <2>2 DEF BeginEdit, Goto
      <3> HIDE DEF queue
      <3>2. t.pc = "touch" /\ t.posts = None
        BY DEF Idle
      <3> HIDE DEF t
      <3>3. QED
        BY <3>1, <3>2, Went, NothingChecked
    <2>3. QED
      BY <1>1, <2>1, <2>2
  <1>2. CASE BeginDelete(s, d)
    <2> DEFINE queue == <<<<RowOf(d), "share">>, <<RowOf(d), "update">>>>
               t == [Idle EXCEPT !.doc = d, !.pc = "delete", !.queue = queue]
    <2>1. Start(s, t) /\ UNCHANGED rows
      BY <1>2 DEF BeginDelete, Goto
    <2> HIDE DEF queue
    <2>2. t.pc = "delete" /\ t.posts = None
      BY DEF Idle
    <2> HIDE DEF t
    <2>3. QED
      BY <2>1, <2>2, Went, NothingChecked
  <1>3. CASE BeginCancel(s, d)
    <2> DEFINE queue == <<<<<<"entry", d>>, "update">>>>
               t == [Idle EXCEPT !.doc = d, !.pc = "reverse", !.queue = queue]
    <2>1. Start(s, t) /\ UNCHANGED rows
      BY <1>3 DEF BeginCancel, Goto
    <2> HIDE DEF queue
    <2>2. t.pc = "reverse" /\ t.posts = None
      BY DEF Idle
    <2> HIDE DEF t
    <2>3. QED
      BY <2>1, <2>2, Went, NothingChecked
  <1>4. QED
    BY <1>1, <1>2, <1>3

LEMMA LimitBeginPost ==
  ASSUME LimitInv, Inv', NEW s \in Sessions, NEW d \in Ids, BeginPost(s, d)
  PROVE  LimitInv'
  <1> DEFINE queue == OriginLock(d)
             a == document[d].amount
             t == [Idle EXCEPT !.doc = d, !.amount = a, !.pc = "limit", !.queue = queue]
  <1>1. Start(s, t) /\ UNCHANGED rows
    BY DEF BeginPost, Goto
  <1>2. document[d].origin # None => queue = <<OriginHeld(d)>>
    BY DEF OriginLock, OriginHeld
  <1> HIDE DEF queue, a
  <1>3. t.pc = "limit" /\ t.doc = d /\ t.posts = None /\ t.queue = queue
    BY DEF Idle
  <1> HIDE DEF t
  <1>4. tx'[s] = t /\ document' = document /\ t \in Request
    BY <1>1, Went
  <1>5. document[d].origin # None => Takes(s, OriginHeld(d))'
    <2>1. SUFFICES ASSUME document[d].origin # None PROVE Takes(s, OriginHeld(d))'
      OBVIOUS
    <2>2. PICK l : l = OriginHeld(d) /\ l = OriginHeld(d)'
      BY <1>4 DEF OriginHeld
    <2>3. t.queue = <<l>> /\ 1 \in DOMAIN <<l>> /\ <<l>>[1] = l
      BY <1>2, <1>3, <2>1, <2>2
    <2>4. QED
      BY <1>4, <2>2, <2>3 DEF Takes
  <1>6. Checked(s)'
    BY <1>3, <1>4, <1>5 DEF Checked, Issuing
  <1>7. QED
    BY <1>1, <1>4, <1>6, LimitOfOne

LEMMA LimitAcquire ==
  ASSUME LimitInv, Inv', NEW s \in Sessions, Acquire(s)
  PROVE  LimitInv'
  <1> DEFINE t == WithLock(tx[s])
             head == Head(tx[s].queue)
  <1>1. Start(s, t) /\ UNCHANGED rows /\ tx[s].queue # <<>>
    BY DEF Acquire, CanTakeLock
  <1>2. tx[s] \in Request /\ tx'[s] = t /\ document' = document /\ t \in Request
    BY <1>1, Went
  <1>3. \A i \in DOMAIN tx[s].queue :
          tx[s].queue[i] = head \/ \E j \in DOMAIN Tail(tx[s].queue) : Tail(tx[s].queue)[j] = tx[s].queue[i]
    BY <1>1, <1>2, WithLockType
  <1>4. t.held = tx[s].held \cup {head} /\ t.queue = Tail(tx[s].queue) /\ SameWork(t, tx[s])
    BY <1>2 DEF WithLock, Request, SameWork
  <1> HIDE DEF t, head
  <1>5. ASSUME NEW l
        PROVE  (Holds(s, l) => Holds(s, l)') /\ (Takes(s, l) => Takes(s, l)')
    BY <1>2, <1>3, <1>4 DEF Holds, Takes
  <1>6. \A d, a : Fits(d, a)' <=> Fits(d, a)
    BY <1>1 DEF Fits, TotalOf, NotesOf, rows
  <1>7. Checked(s)
    BY DEF LimitInv
  <1>8. Checked(s)'
    BY <1>2, <1>4, <1>5, <1>6, <1>7 DEF Checked, Issuing, SameWork, OriginHeld
  <1>9. QED
    BY <1>1, <1>2, <1>8, LimitOfOne

LEMMA LimitWriteLines ==
  ASSUME LimitInv, Inv', NEW s \in Sessions, WriteLines(s) \/ ReverseEntry(s)
  PROVE  LimitInv'
  <1>1. Checked(s)
    BY DEF LimitInv
  <1>2. CASE Abort(s)
    BY <1>2, LimitAbort
  <1>3. CASE WriteLines(s) /\ ~Abort(s)
    <2> DEFINE queue == <<<<RowOf(tx[s].doc), "no_key_update">>>>
               t == [tx[s] EXCEPT !.pc = "touch", !.queue = queue]
    <2>1. Start(s, t) /\ UNCHANGED rows
      BY <1>3 DEF WriteLines, Goto
    <2> HIDE DEF queue
    <2>2. tx[s] \in Request /\ t \in Request
      BY <2>1, Went
    <2>3. t.pc = "touch" /\ t.posts = tx[s].posts /\ t.amount = tx[s].amount
      BY <2>2 DEF Request
    <2> HIDE DEF t
    <2>4. QED
      BY <1>1, <2>1, <2>2, <2>3, NothingChecked DEF Checked
  <1>4. CASE ReverseEntry(s) /\ ~Abort(s)
    <2> DEFINE queue == <<Counter, <<RowOf(tx[s].doc), "no_key_update">>>>
               t == [tx[s] EXCEPT !.reverses = TRUE, !.pc = "cancel", !.queue = queue]
    <2>1. Start(s, t) /\ UNCHANGED rows
      BY <1>4 DEF ReverseEntry, Goto
    <2> HIDE DEF queue
    <2>2. tx[s] \in Request /\ t \in Request
      BY <2>1, Went
    <2>3. t.pc = "cancel" /\ t.posts = tx[s].posts /\ t.amount = tx[s].amount
      BY <2>2 DEF Request
    <2> HIDE DEF t
    <2>4. QED
      BY <1>1, <2>1, <2>2, <2>3, NothingChecked DEF Checked
  <1>5. QED
    BY <1>2, <1>3, <1>4

(* What a request writes without issuing it: the row with other columns,   *)
(* that of a deleted document, or that of a cancelled one.                 *)
LEMMA LimitWrites ==
  ASSUME LimitInv, Inv', NEW s \in Sessions, Touch(s) \/ Delete(s) \/ StampCancelled(s)
  PROVE  LimitInv'
  <1> PICK d : d = tx[s].doc
    OBVIOUS
  <1>1. CASE Abort(s)
    BY <1>1, LimitAbort
  <1>2. CASE ~Abort(s)
    <2>1. /\ tx[s].posts = None /\ tx[s] \in Request /\ d \in Ids
          /\ document[d] \in Document
      <3>1. At(s, "touch") \/ At(s, "delete") \/ At(s, "cancel")
        BY DEF Touch, Delete, StampCancelled
      <3>2. Knows(s) /\ tx[s].pc \in {"touch", "delete", "cancel"} /\ tx[s] \in Request /\ d \in Ids
        BY <3>1, Here DEF LimitInv
      <3>3. QED
        BY <3>2, RowTypes DEF Knows, LimitInv
    <2>2. PICK t : /\ Start(s, t) /\ UNCHANGED rows
                   /\ t.pc = "commit" /\ t.posts = None /\ t.doc = d
                   /\ t.row.origin \in {None, document[d].origin}
      <3>1. CASE Touch(s)
        <4> DEFINE old == [document[d] EXCEPT !.amount = Or(tx[s].lines, @)]
                   row == [old EXCEPT !.amount = Or(tx[s].amount, @), !.narration = Or(tx[s].text, @)]
                   t == [tx[s] EXCEPT !.row = row, !.pc = "commit", !.queue = <<>>]
        <4>1. Start(s, t) /\ UNCHANGED rows
          BY <1>2, <3>1 DEF Touch, Goto
        <4>2. row.origin \in {None, document[d].origin}
          BY <2>1 DEF Document
        <4> HIDE DEF row
        <4>3. t.pc = "commit" /\ t.posts = None /\ t.doc = d /\ t.row = row
          BY <2>1 DEF Request
        <4> HIDE DEF t
        <4>4. QED
          BY <4>1, <4>2, <4>3
      <3>2. CASE Delete(s)
        <4> DEFINE row == Deleted
                   t == [tx[s] EXCEPT !.row = row, !.pc = "commit", !.queue = <<>>]
        <4>1. Start(s, t) /\ UNCHANGED rows
          BY <1>2, <3>2 DEF Delete, Goto
        <4>2. row.origin \in {None, document[d].origin}
          BY DEF Deleted, NoDocument
        <4> HIDE DEF row
        <4>3. t.pc = "commit" /\ t.posts = None /\ t.doc = d /\ t.row = row
          BY <2>1 DEF Request
        <4> HIDE DEF t
        <4>4. QED
          BY <4>1, <4>2, <4>3
      <3>3. CASE StampCancelled(s)
        <4> DEFINE row == [document[d] EXCEPT !.state = "cancelled"]
                   t == [tx[s] EXCEPT !.row = row, !.pc = "commit", !.queue = <<>>]
        <4>1. Start(s, t) /\ UNCHANGED rows
          BY <1>2, <3>3 DEF StampCancelled, Goto
        <4>2. row.origin \in {None, document[d].origin}
          BY <2>1 DEF Document
        <4> HIDE DEF row
        <4>3. t.pc = "commit" /\ t.posts = None /\ t.doc = d /\ t.row = row
          BY <2>1 DEF Request
        <4> HIDE DEF t
        <4>4. QED
          BY <4>1, <4>2, <4>3
      <3>4. QED
        BY <3>1, <3>2, <3>3
    <2>3. t \in Request /\ tx'[s] = t /\ document' = document
      BY <2>2, Went
    <2>4. Checked(s)'
      BY <2>2, <2>3 DEF Checked, Issuing
    <2>5. QED
      BY <2>2, <2>3, <2>4, LimitOfOne
  <1>3. QED
    BY <1>1, <1>2

(* Checking and issuing.                                                   *)
LEMMA LimitIssues ==
  ASSUME LimitInv, Inv', NEW s \in Sessions, CheckLimit(s) \/ InsertEntry(s) \/ StampPosted(s)
  PROVE  LimitInv'
  <1> PICK d : d = tx[s].doc
    OBVIOUS
  <1>1. CASE Abort(s)
    BY <1>1, LimitAbort
  <1>2. CASE ~Abort(s)
    <2>1. /\ tx[s] \in Request /\ d \in Ids /\ document[d] \in Document
          /\ \A l : Takes(s, l) => Holds(s, l)
          /\ Checked(s)
          /\ Knows(s)
          /\ CheckLimit(s) => tx[s].pc = "limit"
          /\ InsertEntry(s) => tx[s].pc = "enter"
          /\ StampPosted(s) => tx[s].pc = "stamp"
      <3>1. /\ CheckLimit(s) => At(s, "limit")
            /\ InsertEntry(s) => At(s, "enter")
            /\ StampPosted(s) => At(s, "stamp")
        BY DEF CheckLimit, InsertEntry, StampPosted
      <3>2. /\ tx[s] \in Request /\ d \in Ids /\ Knows(s)
            /\ \A l : Takes(s, l) => Holds(s, l)
            /\ CheckLimit(s) => tx[s].pc = "limit"
            /\ InsertEntry(s) => tx[s].pc = "enter"
            /\ StampPosted(s) => tx[s].pc = "stamp"
        BY <3>1, Here DEF LimitInv
      <3>3. QED
        BY <3>2, RowTypes DEF LimitInv
    <2>2. Fits(d, tx[s].amount) /\ (document[d].origin # None => Holds(s, OriginHeld(d)))
      BY <1>2, <2>1 DEF Checked, Issuing, CheckLimit
    <2>3. PICK t : /\ Start(s, t) /\ UNCHANGED rows
                   /\ t.amount = tx[s].amount /\ t.held = tx[s].held /\ t.doc = d
                   /\ t.pc \in {"enter", "stamp", "commit"}
                   /\ t.posts # None => t.posts = t.amount
                   /\ t.pc = "commit" => t.row.origin = document[d].origin
      <3>1. CASE CheckLimit(s)
        <4> DEFINE queue == LedgerLocks(d)
                   t == [tx[s] EXCEPT !.pc = "enter", !.queue = queue]
        <4>1. Start(s, t) /\ UNCHANGED rows
          BY <1>2, <3>1 DEF CheckLimit, Goto
        <4> HIDE DEF queue
        <4>2. /\ t.amount = tx[s].amount /\ t.held = tx[s].held /\ t.doc = d
              /\ t.pc = "enter" /\ t.posts = tx[s].posts
          BY <2>1 DEF Request
        <4> HIDE DEF t
        <4>3. QED
          BY <2>1, <4>1, <4>2 DEF Checked
      <3>2. CASE InsertEntry(s)
        <4> DEFINE queue == <<<<RowOf(d), "no_key_update">>>>
                   t == [tx[s] EXCEPT !.posts = tx[s].amount, !.pc = "stamp", !.queue = queue]
        <4>1. Start(s, t) /\ UNCHANGED rows
          BY <1>2, <3>2 DEF InsertEntry, Goto
        <4> HIDE DEF queue
        <4>2. /\ t.amount = tx[s].amount /\ t.held = tx[s].held /\ t.doc = d
              /\ t.pc = "stamp" /\ t.posts = tx[s].amount
          BY <2>1 DEF Request
        <4> HIDE DEF t
        <4>3. QED
          BY <4>1, <4>2
      <3>3. CASE StampPosted(s)
        <4> DEFINE row == [document[d] EXCEPT !.state = "posted"]
                   t == [tx[s] EXCEPT !.row = row, !.pc = "commit", !.queue = <<>>]
        <4>1. Start(s, t) /\ UNCHANGED rows
          BY <1>2, <3>3 DEF StampPosted, Goto
        <4>2. row.origin = document[d].origin
          BY <2>1 DEF Document
        <4> HIDE DEF row
        <4>3. /\ t.amount = tx[s].amount /\ t.held = tx[s].held /\ t.doc = d
              /\ t.pc = "commit" /\ t.posts = tx[s].posts /\ t.row = row
          BY <2>1 DEF Request
        <4> HIDE DEF t
        <4>4. QED
          BY <2>1, <4>1, <4>2, <4>3 DEF Checked
      <3>4. QED
        BY <3>1, <3>2, <3>3
    <2>4. t \in Request /\ tx'[s] = t /\ document' = document
      BY <2>3, Went
    <2>5. Fits(d, t.amount)'
      BY <2>2, <2>3, <2>4 DEF Fits, TotalOf, NotesOf
    <2>6. document[d].origin # None => Holds(s, OriginHeld(d))'
      BY <2>2, <2>3, <2>4 DEF Holds, OriginHeld
    <2>7. Checked(s)'
      BY <2>3, <2>4, <2>5, <2>6 DEF Checked
    <2>8. QED
      BY <2>3, <2>4, <2>7, LimitOfOne
  <1>3. QED
    BY <1>1, <1>2

LEMMA PostedNotes ==
  ASSUME Inv, NEW o
  PROVE  /\ IsFiniteSet(NotesOf(o, "posted")) /\ NotesOf(o, "posted") \subseteq Notes
         /\ \A n \in NotesOf(o, "posted") : document[n].amount \in Nat
  <1>1. NotesOf(o, "posted") \subseteq Notes
    BY DEF NotesOf
  <1>2. IsFiniteSet(NotesOf(o, "posted"))
    BY <1>1, FS_Subset, DocumentsAssumption
  <1>3. ASSUME NEW n \in NotesOf(o, "posted") PROVE document[n].amount \in Nat
    <2>1. document[n].amount \in Amounts
      BY RowTypes DEF NotesOf, Ids
    <2>2. QED
      BY <2>1, DocumentsAssumption
  <1>4. QED
    BY <1>1, <1>2, <1>3

LEMMA OriginTypes ==
  ASSUME LimitInv, NEW d \in Ids, document[d].origin # None
  PROVE  /\ document[d].origin \in Invoices /\ document[d].origin \in Ids /\ d \in Notes
         /\ document[document[d].origin].state \in {"posted", "cancelled"}
         /\ document[document[d].origin].amount \in Nat
  <1>1. document[d].origin \in Invoices /\ document[d].origin \in Ids
    BY RowTypes DEF LimitInv, Ids
  <1>2. d \in Notes /\ document[document[d].origin].state \in {"posted", "cancelled"}
    BY DEF LimitInv, NotesHaveOrigins
  <1>3. document[document[d].origin].amount \in Amounts
    BY <1>1, <1>2, RowTypes DEF LimitInv
  <1>4. QED
    BY <1>1, <1>2, <1>3, DocumentsAssumption

(* A note that fitted still does when no other was issued.                 *)
LEMMA FitsKept ==
  ASSUME LimitInv, NEW d \in Ids, NEW a \in Amounts, NEW o \in Invoices, document[d].origin = o,
         Fits(d, a),
         document'[d].origin = o, document'[o].amount = document[o].amount,
         NotesOf(o, "posted")' \ {d} \subseteq NotesOf(o, "posted"),
         \A n \in NotesOf(o, "posted")' \ {d} : document'[n].amount = document[n].amount
  PROVE  Fits(d, a)'
  <1> PICK f : f = [n \in Notes |-> document[n].amount]
    OBVIOUS
  <1> PICK g : g = [n \in Notes |-> document'[n].amount]
    OBVIOUS
  <1> PICK N : N = NotesOf(o, "posted") \ {d}
    OBVIOUS
  <1> PICK M : M = NotesOf(o, "posted")' \ {d}
    OBVIOUS
  <1>1. o # None
    BY DocumentsAssumption
  <1>2. SumFunctionOnSet(f, N) + a <= document[o].amount
    BY <1>1 DEF Fits, TotalOf
  <1>3. /\ IsFiniteSet(N) /\ N \subseteq Notes /\ M \subseteq N /\ IsFiniteSet(M)
        /\ \A n \in N : f[n] \in Nat
    BY PostedNotes, FS_Subset DEF LimitInv
  <1>4. \A n \in M : g[n] = f[n]
    BY <1>3
  <1>5. SumFunctionOnSet(g, M) = SumFunctionOnSet(f, M)
    BY <1>3, <1>4, SumSame
  <1>6. SumFunctionOnSet(f, M) <= SumFunctionOnSet(f, N)
    BY <1>3, SumSubset
  <1>7. SumFunctionOnSet(f, M) \in Nat /\ SumFunctionOnSet(f, N) \in Nat /\ a \in Nat
        /\ document[o].amount \in Nat
    BY <1>1, <1>3, SumNat, OriginTypes, DocumentsAssumption
  <1>8. SumFunctionOnSet(g, M) + a <= document'[o].amount
    BY <1>2, <1>5, <1>6, <1>7
  <1>9. QED
    BY <1>8 DEF Fits, TotalOf

LEMMA LimitCreate ==
  ASSUME LimitInv, Inv', NEW d \in Invoices, NEW a \in Amounts, Create(d, a)
  PROVE  LimitInv'
  <1>1. /\ document[d].state = "none" /\ d \in Ids /\ d \notin Notes
        /\ entry' = entry /\ tx' = tx
        /\ document'[d].origin = None
        /\ \A u \in Ids : u # d => document'[u] = document[u]
    <2>1. document \in [Ids -> Rows]
      BY DEF LimitInv, Inv, Typed
    <2>2. QED
      BY <2>1, DocumentsAssumption DEF Create, Draft, Ids
  <1>2. \A u \in Ids : document[u].state \in {"posted", "cancelled"} => document'[u] = document[u]
    BY <1>1
  <1>3. \A n \in Notes : document'[n] = document[n]
    BY <1>1 DEF Ids
  <1>4. \A o : NotesOf(o, "posted")' = NotesOf(o, "posted")
    BY <1>3 DEF NotesOf
  <1>5. \A N : TotalOf(N)' = TotalOf(N)
    BY <1>3 DEF TotalOf
  <1>6. NotesHaveOrigins'
    <2>1. ASSUME NEW u \in Ids, document'[u].origin # None
          PROVE  u \in Notes /\ document'[document'[u].origin].state \in {"posted", "cancelled"}
      <3>1. document'[u] = document[u]
        BY <1>1, <2>1
      <3>2. QED
        BY <1>2, <2>1, <3>1, OriginTypes
    <2>2. QED
      BY <2>1 DEF NotesHaveOrigins
  <1>7. ASSUME NEW o \in Invoices PROVE WithinLimit(o)'
    <2>1. AsEntered(o)' = AsEntered(o)
      <3>1. \A n \in NotesOf(o, "posted") : n \in Notes
        BY DEF NotesOf
      <3>2. QED
        BY <1>1, <1>3, <1>4, <3>1 DEF AsEntered
    <2>2. NotesOf(o, "posted") # {} => document'[o] = document[o]
      <3>1. ASSUME NEW n \in NotesOf(o, "posted") PROVE document'[o] = document[o]
        <4>1. n \in Ids /\ document[n].origin = o /\ o # None
          BY DocumentsAssumption DEF NotesOf, Ids
        <4>2. QED
          BY <1>2, <4>1, OriginTypes
      <3>2. QED
        BY <3>1
    <2>3. WithinLimit(o)
      BY DEF LimitInv
    <2>4. QED
      BY <1>1, <1>4, <2>1, <2>2, <2>3 DEF WithinLimit
  <1>8. ASSUME NEW r \in Sessions PROVE Checked(r)'
    <2> PICK e : e = tx[r].doc
      OBVIOUS
    <2>1. /\ Knows(r) /\ Written(r) /\ Checked(r) /\ tx[r] \in Request
      BY DEF LimitInv, Inv, Typed
    <2>2. e # d
      <3>1. SUFFICES ASSUME e = d PROVE FALSE
        OBVIOUS
      <3>2. tx[r].pc = "commit"
        BY <1>1, <2>1, <3>1, DocsAreIds DEF Knows
      <3>3. d \in Notes
        BY <1>1, <2>1, <3>1, <3>2 DEF Written, MakesNote, Edits, Annotates, Issues, Cancels
      <3>4. QED
        BY <1>1, <3>3
    <2>3. CASE e = None
      BY <1>1, <2>1, <2>3 DEF Knows, Checked, Issuing
    <2>4. CASE e # None
      <3>1. e \in Ids /\ document'[e] = document[e]
        BY <1>1, <2>1, <2>2, <2>4 DEF Request
      <3>2. document[e].origin # None => document'[document[e].origin] = document[document[e].origin]
        BY <1>2, <3>1, OriginTypes
      <3>3. \A x : Fits(e, x)' <=> Fits(e, x)
        BY <1>4, <1>5, <3>1, <3>2 DEF Fits
      <3>4. /\ \A l : Holds(r, l)' <=> Holds(r, l)
            /\ \A l : Takes(r, l)' <=> Takes(r, l)
        BY <1>1 DEF Holds, Takes
      <3>5. OriginHeld(e)' = OriginHeld(e)
        BY <3>1 DEF OriginHeld
      <3>6. ASSUME tx[r].pc = "commit", tx[r].row.origin # None,
                   document[tx[r].row.origin].state \in {"posted", "cancelled"}
            PROVE  document'[tx[r].row.origin].state \in {"posted", "cancelled"}
        <4>1. tx[r].row \in Rows
          BY <2>1, <3>6 DEF Written
        <4>2. tx[r].row.origin \in Ids
          BY <3>6, <4>1 DEF Rows, Document, Ids
        <4>3. QED
          BY <1>2, <3>6, <4>2
      <3>7. QED
        BY <1>1, <2>1, <3>1, <3>3, <3>4, <3>5, <3>6 DEF Checked
    <2>5. QED
      BY <2>3, <2>4
  <1>9. QED
    BY <1>6, <1>7, <1>8 DEF LimitInv

(* What a commit does to documents and their notes.                        *)
LEMMA CommitKeeps ==
  ASSUME LimitInv, NEW s \in Sessions, Commit(s), NEW d, d = tx[s].doc
  PROVE  /\ \A u \in Ids : document[u].state \in {"posted", "cancelled"} =>
              /\ document'[u].state \in {"posted", "cancelled"}
              /\ document'[u].amount = document[u].amount
              /\ document'[u].origin = document[u].origin
         /\ document[d].state # "none" => document'[d].origin \in {None, document[d].origin}
         /\ document'[d].origin # None =>
              d \in Notes /\ document[document'[d].origin].state \in {"posted", "cancelled"}
         /\ \A n \in Notes : document'[n].state = "posted" /\ document[n].state # "posted" =>
              /\ n = d /\ Issues(tx[s])
              /\ document'[d].amount = document[d].amount /\ document'[d].origin = document[d].origin
  <1> PICK t : t = tx[s]
    OBVIOUS
  <1>1. /\ d \in Ids /\ t \in Request /\ t.row \in Rows /\ t.pc = "commit"
        /\ document'[d] = t.row
        /\ \A u \in Ids : u # d => document'[u] = document[u]
        /\ MakesNote(t) \/ (Owns(s, d) /\ (Edits(t) \/ Annotates(t) \/ Issues(t) \/ Cancels(t)))
    BY Commits DEF LimitInv, Commit, At
  <1>2. document[d] \in Document /\ t.row \in Document
    BY <1>1, RowTypes DEF LimitInv, Rows
  <1>3. Checked(s)
    BY DEF LimitInv
  <1>4. /\ MakesNote(t) => document[d].state = "none" /\ t.row.state = "draft"
        /\ Edits(t) => document[d].state = "draft" /\ t.row.state \in {"draft", "deleted"}
        /\ Issues(t) => /\ document[d].state = "draft" /\ t.row.state = "posted"
                        /\ t.row.amount = document[d].amount /\ t.row.origin = document[d].origin
        /\ Annotates(t) => /\ document[d].state \in {"posted", "cancelled"}
                           /\ t.row.state = document[d].state
                           /\ t.row.amount = document[d].amount /\ t.row.origin = document[d].origin
        /\ Cancels(t) => /\ document[d].state = "posted" /\ t.row.state = "cancelled"
                         /\ t.row.amount = document[d].amount /\ t.row.origin = document[d].origin
    BY <1>2 DEF MakesNote, Edits, Annotates, Issues, Cancels, Document
  <1>5. ASSUME NEW u \in Ids, document[u].state \in {"posted", "cancelled"}
        PROVE  /\ document'[u].state \in {"posted", "cancelled"}
               /\ document'[u].amount = document[u].amount
               /\ document'[u].origin = document[u].origin
    BY <1>1, <1>4, <1>5
  <1>6. \/ t.row.origin \in {None, document[d].origin}
        \/ /\ document[d].state = "none" /\ d \in Notes
           /\ t.row.origin # None => document[t.row.origin].state \in {"posted", "cancelled"}
    BY <1>1, <1>3 DEF Checked
  <1>7. document'[d].origin # None =>
          d \in Notes /\ document[document'[d].origin].state \in {"posted", "cancelled"}
    BY <1>1, <1>6, OriginTypes
  <1>8. ASSUME NEW n \in Notes, document'[n].state = "posted", document[n].state # "posted"
        PROVE  /\ n = d /\ Issues(t)
               /\ document'[d].amount = document[d].amount /\ document'[d].origin = document[d].origin
    <2>1. n \in Ids
      BY DEF Ids
    <2>2. QED
      BY <1>1, <1>4, <1>8, <2>1
  <1>9. QED
    BY <1>1, <1>5, <1>6, <1>7, <1>8

(* The lock of the document a note corrects keeps out the other notes.     *)
LEMMA OriginExcludes ==
  ASSUME Inv, NEW s \in Sessions, NEW r \in Sessions, r # s, NEW o \in Ids
  PROVE  ~(Holds(s, <<RowOf(o), "update">>) /\ Holds(r, <<RowOf(o), "update">>))
  <1>1. Clash(<<RowOf(o), "update">>, <<RowOf(o), "update">>)
    BY OwnersClash
  <1>2. QED
    BY <1>1 DEF Inv, HeldApart, Holds

LEMMA CommitWithin ==
  ASSUME LimitInv, NEW s \in Sessions, Commit(s), NEW o \in Invoices
  PROVE  WithinLimit(o)'
  <1> PICK d : d = tx[s].doc
    OBVIOUS
  <1> PICK t : t = tx[s]
    OBVIOUS
  <1> PICK f : f = [n \in Notes |-> document[n].amount]
    OBVIOUS
  <1> PICK N : N = NotesOf(o, "posted")
    OBVIOUS
  <1> PICK A : A = AsEntered(o)'
    OBVIOUS
  <1> PICK E : E = entry'
    OBVIOUS
  <1>1. /\ d \in Ids /\ t \in Request /\ t.pc = "commit" /\ o \in Ids /\ o # None
        /\ \A u \in Ids : u # d => document'[u] = document[u] /\ entry'[u] = entry[u]
        /\ entry'[d] = IF t.posts = None THEN entry[d] ELSE t.posts
        /\ Checked(s)
    BY Commits, DocumentsAssumption DEF LimitInv, Commit, At, Ids
  <1>2. /\ IsFiniteSet(N) /\ N \subseteq Notes /\ \A n \in N : f[n] \in Nat
    BY PostedNotes DEF LimitInv
  <1>3. A \subseteq Notes /\ \A n \in A : /\ document'[n].state = "posted" /\ document'[n].origin = o
                                          /\ E[n] = document'[n].amount
    BY DEF AsEntered, NotesOf
  <1>4. \A n \in Notes : n \in Ids
    BY DEF Ids
  <1>5. ASSUME NEW n \in Notes, document'[n].state = "posted", document'[n].origin = o, n \notin N
        PROVE  n = d /\ Issues(t) /\ document[d].origin = o /\ document'[d].amount = document[d].amount
    <2>1. document[n].state = "posted" => document'[n].origin = document[n].origin
      BY <1>4, CommitKeeps
    <2>2. document[n].state # "posted"
      BY <1>5, <2>1 DEF NotesOf
    <2>3. QED
      BY <1>5, <2>2, CommitKeeps
  <1>6. ASSUME NEW n \in N, document'[n].state = "posted"
        PROVE  entry'[n] = entry[n] /\ document'[n].amount = document[n].amount
    <2>1. document[n].state = "posted" /\ n \in Ids
      BY <1>2, <1>4 DEF NotesOf
    <2>2. document'[n].amount = document[n].amount
      BY <2>1, CommitKeeps
    <2>3. n = d => t.posts = None
      <3>1. n = d => ~(MakesNote(t) \/ Edits(t) \/ Issues(t))
        BY <2>1 DEF MakesNote, Edits, Issues
      <3>2. MakesNote(t) \/ Edits(t) \/ Annotates(t) \/ Issues(t) \/ Cancels(t)
        BY Commits DEF LimitInv
      <3>3. QED
        BY <3>1, <3>2 DEF Annotates, Cancels
    <2>4. QED
      BY <1>1, <2>1, <2>2, <2>3
  <1>7. (\E n \in Notes : document[n].origin = o) =>
          /\ document'[o].amount = document[o].amount /\ document[o].amount \in Nat
    BY <1>1, <1>4, OriginTypes, CommitKeeps
  <1>8. CASE Issues(t) /\ document[d].origin = o
    <2> DEFINE h == [n \in Notes |-> IF n = d THEN t.amount ELSE document[n].amount]
               U == N \cup {d}
    <2>1. d \in Notes /\ d \notin N
      <3>1. d \in Notes
        BY <1>1, <1>8, OriginTypes
      <3>2. document[d].state = "draft"
        BY <1>8 DEF Issues
      <3>3. QED
        BY <3>1, <3>2 DEF NotesOf
    <2>2. t.posts # None /\ t.posts = t.amount /\ t.amount \in Nat /\ Fits(d, t.amount)
      <3>1. t.posts # None
        BY <1>8 DEF Issues
      <3>2. t.posts = t.amount /\ Fits(d, t.amount)
        BY <1>1, <3>1 DEF Checked, Issuing
      <3>3. t.amount \in Amounts
        BY <1>1, <3>1, <3>2 DEF Request
      <3>4. QED
        BY <3>1, <3>2, <3>3, DocumentsAssumption
    <2>3. SumFunctionOnSet(f, N) + t.amount <= document[o].amount
      <3>1. N \ {d} = N
        BY <2>1
      <3>2. QED
        BY <1>1, <1>8, <2>2, <3>1 DEF Fits, TotalOf
    <2>4. IsFiniteSet(U) /\ U \subseteq Notes /\ (\A n \in U : h[n] \in Nat) /\ h[d] = t.amount
          /\ \A n \in N : h[n] = f[n]
      BY <1>2, <2>1, <2>2, FS_AddElement
    <2>5. A \subseteq U /\ \A n \in A : E[n] = h[n]
      <3>1. ASSUME NEW n \in A, n # d PROVE n \in N /\ E[n] = h[n]
        <4>1. n \in N
          BY <1>3, <1>5, <3>1
        <4>2. QED
          BY <1>2, <1>3, <1>6, <3>1, <4>1
      <3>2. E[d] = h[d]
        BY <1>1, <2>1, <2>2
      <3>3. QED
        BY <3>1, <3>2
    <2> HIDE DEF h, U
    <2>6. IsFiniteSet(A)
      BY <2>4, <2>5, FS_Subset
    <2>7. SumFunctionOnSet(E, A) = SumFunctionOnSet(h, A)
      BY <2>5, <2>6, SumSame
    <2>8. SumFunctionOnSet(h, A) <= SumFunctionOnSet(h, U)
      BY <2>4, <2>5, SumSubset
    <2>9. SumFunctionOnSet(h, U) = h[d] + SumFunctionOnSet(h, N)
      <3>1. IntOn(h, N \cup {d}) /\ U = N \cup {d}
        BY <2>4 DEF IntOn, U
      <3>2. QED
        BY <1>2, <2>1, <3>1, SumAdd
    <2>10. SumFunctionOnSet(h, N) = SumFunctionOnSet(f, N)
      BY <1>2, <2>4, SumSame
    <2>11. /\ SumFunctionOnSet(h, A) \in Nat /\ SumFunctionOnSet(h, U) \in Nat
           /\ SumFunctionOnSet(f, N) \in Nat
      <3>1. \A n \in A : h[n] \in Nat
        BY <2>4, <2>5
      <3>2. QED
        BY <1>2, <2>4, <2>6, <3>1, SumNat
    <2>12. document'[o].amount = document[o].amount /\ document[o].amount \in Nat
      BY <1>7, <1>8, <2>1
    <2>13. SumFunctionOnSet(E, A) <= document'[o].amount
      BY <2>2, <2>3, <2>4, <2>7, <2>8, <2>9, <2>10, <2>11, <2>12
    <2>14. QED
      BY <2>13 DEF WithinLimit
  <1>9. CASE ~(Issues(t) /\ document[d].origin = o)
    <2>1. SUFFICES ASSUME NotesOf(o, "posted")' # {} PROVE SumFunctionOnSet(E, A) <= document'[o].amount
      BY DEF WithinLimit
    <2>2. NotesOf(o, "posted")' \subseteq N
      BY <1>5, <1>9 DEF NotesOf
    <2> PICK B : B = AsEntered(o)
      OBVIOUS
    <2>3. B \subseteq N /\ \A n \in B : entry[n] = document[n].amount
      BY DEF AsEntered
    <2>4. A \subseteq B /\ \A n \in A : E[n] = entry[n]
      <3>1. \A n \in A : n \in N
        BY <2>2 DEF AsEntered
      <3>2. \A n \in A : entry'[n] = entry[n] /\ document'[n].amount = document[n].amount
        BY <1>3, <1>6, <3>1
      <3>3. QED
        BY <1>3, <3>1, <3>2 DEF AsEntered
    <2>5. SumFunctionOnSet(entry, B) <= document[o].amount
      BY <2>1, <2>2 DEF LimitInv, WithinLimit
    <2> PICK e : e = entry
      OBVIOUS
    <2>6. IsFiniteSet(B) /\ (\A n \in B : e[n] \in Nat) /\ IsFiniteSet(A) /\ \A n \in A : e[n] \in Nat
      <3>1. IsFiniteSet(B) /\ IsFiniteSet(A)
        BY <1>2, <2>3, <2>4, FS_Subset
      <3>2. \A n \in B : e[n] \in Nat
        BY <1>2, <2>3
      <3>3. QED
        BY <2>4, <3>1, <3>2
    <2>7. SumFunctionOnSet(E, A) = SumFunctionOnSet(e, A)
      BY <2>4, <2>6, SumSame
    <2>8. SumFunctionOnSet(e, A) <= SumFunctionOnSet(e, B)
      BY <2>4, <2>6, SumSubset
    <2>9. SumFunctionOnSet(e, A) \in Nat /\ SumFunctionOnSet(e, B) \in Nat
      BY <2>6, SumNat
    <2>10. document'[o].amount = document[o].amount /\ document[o].amount \in Nat
      <3>1. \E n \in N : n \in Notes /\ document[n].origin = o
        BY <2>1, <2>2 DEF NotesOf
      <3>2. QED
        BY <1>7, <3>1
    <2>11. QED
      BY <2>5, <2>7, <2>8, <2>9, <2>10
  <1>10. QED
    BY <1>8, <1>9

LEMMA CommitChecked ==
  ASSUME LimitInv, Inv', NEW s \in Sessions, Commit(s), NEW r \in Sessions
  PROVE  Checked(r)'
  <1> PICK d : d = tx[s].doc
    OBVIOUS
  <1> PICK e : e = tx[r].doc
    OBVIOUS
  <1>1. /\ d \in Ids /\ tx[s] \in Request /\ tx[s].pc = "commit" /\ tx' = [tx EXCEPT ![s] = Idle]
        /\ tx \in [Sessions -> Request]
        /\ \A u \in Ids : u # d => document'[u] = document[u]
        /\ MakesNote(tx[s]) \/ (Owns(s, d) /\ (Edits(tx[s]) \/ Annotates(tx[s]) \/ Issues(tx[s]) \/ Cancels(tx[s])))
    BY Commits DEF LimitInv, Inv, Typed, Commit, At
  <1>2. CASE r = s
    BY <1>1, <1>2 DEF Checked, Issuing, Idle
  <1>3. CASE r # s
    <2> PICK t : t = tx[r]
      OBVIOUS
    <2>1. /\ tx'[r] = t /\ Knows(r) /\ Written(r) /\ Checked(r) /\ t \in Request
      BY <1>1, <1>3 DEF LimitInv, Inv
    <2>2. /\ \A l : Holds(r, l)' <=> Holds(r, l)
          /\ \A l : Takes(r, l)' <=> Takes(r, l)
      BY <2>1 DEF Holds, Takes
    <2>3. CASE e = None
      BY <2>1, <2>3 DEF Knows, Checked, Issuing
    <2>4. CASE e # None
      <3>1. e \in Ids
        BY <2>1, <2>4 DEF Request
      <3>2. e = d => document[d].state # "none" /\ t.pc # "commit"
        <4>1. e = d => document[d].state # "none"
          BY <1>3, <2>4 DEF LimitInv, Inv, MadeAlone
        <4>2. e = d => ~Owns(r, d)
          BY <1>1, <1>3, <4>1, OwnerExcludes DEF LimitInv, MakesNote
        <4>3. QED
          BY <2>1, <4>1, <4>2 DEF Written, MakesNote
      <3>3. document'[e].origin \in {None, document[e].origin}
        BY <1>1, <3>1, <3>2, CommitKeeps
      <3>4. document'[e].origin # None => OriginHeld(e)' = OriginHeld(e)
        BY <3>3 DEF OriginHeld
      <3>5. t.pc = "limit" /\ document'[e].origin # None => Takes(r, OriginHeld(e))'
        BY <2>1, <2>2, <3>3, <3>4 DEF Checked
      <3>6. ASSUME Issuing(t) PROVE Fits(e, t.amount)' /\ (document'[e].origin # None => Holds(r, OriginHeld(e))')
        <4>1. CASE document'[e].origin = None
          BY <4>1 DEF Fits
        <4>2. CASE document'[e].origin # None
          <5> PICK o : o = document[e].origin
            OBVIOUS
          <5>1. /\ o \in Invoices /\ o \in Ids /\ document'[e].origin = o /\ o # None
                /\ document[o].state \in {"posted", "cancelled"}
            BY <3>1, <3>3, <4>2, OriginTypes
          <5>2. Fits(e, t.amount) /\ Holds(r, <<RowOf(o), "update">>)
            BY <2>1, <3>6, <5>1 DEF Checked, OriginHeld
          <5>3. t.amount \in Amounts
            <6>1. t.amount # None
              BY <2>1, <3>6 DEF Knows, Checked, Issuing
            <6>2. QED
              BY <2>1, <6>1 DEF Request
          <5>4. ~(Issues(tx[s]) /\ document[d].origin = o)
            <6>1. SUFFICES ASSUME Issues(tx[s]), document[d].origin = o PROVE FALSE
              OBVIOUS
            <6>2. Holds(s, <<RowOf(o), "update">>)
              <7>1. Checked(s) /\ Issuing(tx[s])
                BY <1>1, <6>1 DEF LimitInv, Issues, Issuing
              <7>2. QED
                BY <5>1, <6>1, <7>1 DEF Checked, OriginHeld
            <6>3. QED
              BY <1>3, <5>1, <5>2, <6>2, OriginExcludes DEF LimitInv
          <5>5. ASSUME NEW n \in NotesOf(o, "posted")'
                PROVE  n \in NotesOf(o, "posted") /\ document'[n].amount = document[n].amount
            <6>1. n \in Notes /\ n \in Ids /\ document'[n].state = "posted" /\ document'[n].origin = o
              BY DEF NotesOf, Ids
            <6>2. document[n].state = "posted"
              BY <5>4, <6>1, CommitKeeps
            <6>3. QED
              BY <6>1, <6>2, CommitKeeps DEF NotesOf
          <5>6. document'[o].amount = document[o].amount
            BY <5>1, CommitKeeps
          <5>7. Fits(e, t.amount)'
            BY <3>1, <5>1, <5>2, <5>3, <5>5, <5>6, FitsKept
          <5>8. Holds(r, OriginHeld(e))'
            <6>1. OriginHeld(e)' = <<RowOf(o), "update">>
              BY <5>1 DEF OriginHeld
            <6>2. QED
              BY <2>2, <5>2, <6>1
          <5>9. QED
            BY <5>7, <5>8
        <4>3. QED
          BY <4>1, <4>2
      <3>7. ASSUME t.pc = "commit"
            PROVE  \/ t.row.origin \in {None, document'[e].origin}
                   \/ /\ document'[e].state = "none" /\ e \in Notes
                      /\ t.row.origin # None => document'[t.row.origin].state \in {"posted", "cancelled"}
        <4>1. document'[e] = document[e]
          BY <1>1, <3>1, <3>2, <3>7
        <4>2. t.row.origin \in Ids \cup {None}
          BY <2>1, <3>7 DEF Written, Rows, Document, Ids
        <4>3. QED
          BY <2>1, <3>7, <4>1, <4>2, CommitKeeps DEF Checked
      <3>8. QED
        BY <2>1, <3>5, <3>6, <3>7 DEF Checked
    <2>5. QED
      BY <2>3, <2>4
  <1>4. QED
    BY <1>2, <1>3

LEMMA LimitCommit ==
  ASSUME LimitInv, Inv', NEW s \in Sessions, Commit(s)
  PROVE  LimitInv'
  <1> PICK d : d = tx[s].doc
    OBVIOUS
  <1>1. NotesHaveOrigins'
    <2>1. ASSUME NEW u \in Ids, document'[u].origin # None
          PROVE  u \in Notes /\ document'[document'[u].origin].state \in {"posted", "cancelled"}
      <3>1. u # d => document'[u] = document[u]
        BY Commits DEF LimitInv
      <3>2. u \in Notes /\ document[document'[u].origin].state \in {"posted", "cancelled"}
        BY <2>1, <3>1, OriginTypes, CommitKeeps
      <3>3. document'[u].origin \in Ids
        BY <2>1 DEF LimitInv, Inv, Typed, Rows, Document, Ids
      <3>4. QED
        BY <3>2, <3>3, CommitKeeps
    <2>2. QED
      BY <2>1 DEF NotesHaveOrigins
  <1>2. QED
    BY <1>1, CommitWithin, CommitChecked DEF LimitInv

LEMMA InitLimit == ASSUME Init PROVE LimitInv
  <1>1. /\ document = [d \in Ids |-> NoDocument]
        /\ tx = [s \in Sessions |-> Idle]
    BY DEF Init
  <1>2. \A d \in Ids : document[d].state = "none" /\ document[d].origin = None
    BY <1>1 DEF NoDocument
  <1>3. NotesHaveOrigins
    BY <1>2 DEF NotesHaveOrigins
  <1>4. \A o \in Invoices : WithinLimit(o)
    BY <1>2 DEF WithinLimit, NotesOf, Ids
  <1>5. \A s \in Sessions : Checked(s)
    BY <1>1 DEF Checked, Issuing, Idle
  <1>6. QED
    BY <1>3, <1>4, <1>5, InitInv DEF LimitInv

LEMMA StepLimit == ASSUME LimitInv, [Next]_vars PROVE LimitInv'
  <1>1. Inv'
    BY StepInv DEF LimitInv
  <1>2. CASE UNCHANGED vars
    <2>1. document' = document /\ entry' = entry /\ tx' = tx
      BY <1>2 DEF vars, rows
    <2>2. NotesHaveOrigins' /\ \A o \in Invoices : WithinLimit(o)'
      BY <2>1 DEF LimitInv, NotesHaveOrigins, WithinLimit, AsEntered, NotesOf
    <2>3. ASSUME NEW r \in Sessions PROVE Checked(r)'
      <3>1. Checked(r)
        BY DEF LimitInv
      <3>2. QED
        BY <2>1, <3>1 DEF Checked, OriginHeld, Holds, Takes, Fits, TotalOf, NotesOf
    <2>4. QED
      BY <1>1, <2>2, <2>3 DEF LimitInv
  <1>3. ASSUME NEW d \in Invoices, NEW a \in Amounts, Create(d, a) PROVE LimitInv'
    BY <1>1, <1>3, LimitCreate
  <1>4. ASSUME NEW s \in Sessions, NEW n \in Notes, NEW o \in Invoices, BeginNote(s, n, o) PROVE LimitInv'
    BY <1>1, <1>4, LimitBeginNote
  <1>5. ASSUME NEW s \in Sessions, NEW d \in Edited, NEW a, NEW text,
               BeginUpdate(s, d, a, text) \/ BeginEdit(s, d, a, text)
        PROVE  LimitInv'
    BY <1>1, <1>5, LimitBegin, DocumentsAssumption DEF Ids
  <1>6. ASSUME NEW s \in Sessions, NEW d \in Edited, BeginDelete(s, d) PROVE LimitInv'
    BY <1>1, <1>6, LimitBegin, DocumentsAssumption DEF Ids
  <1>7. ASSUME NEW s \in Sessions, NEW d \in Ids, BeginPost(s, d) \/ BeginCancel(s, d) PROVE LimitInv'
    BY <1>1, <1>7, LimitBeginPost, LimitBegin
  <1>8. ASSUME NEW s \in Sessions, Acquire(s) \/ WriteLines(s) \/ Touch(s) \/ Delete(s) PROVE LimitInv'
    BY <1>1, <1>8, LimitAcquire, LimitWriteLines, LimitWrites
  <1>9. ASSUME NEW s \in Sessions, CheckLimit(s) \/ InsertEntry(s) \/ StampPosted(s) PROVE LimitInv'
    BY <1>1, <1>9, LimitIssues
  <1>10. ASSUME NEW s \in Sessions, ReverseEntry(s) \/ StampCancelled(s) PROVE LimitInv'
    BY <1>1, <1>10, LimitWriteLines, LimitWrites
  <1>11. ASSUME NEW s \in Sessions, Commit(s) \/ Rollback(s) \/ DeadlockVictim(s) PROVE LimitInv'
    BY <1>1, <1>11, LimitCommit, LimitAbort DEF Rollback, DeadlockVictim
  <1>12. QED
    BY <1>2, <1>3, <1>4, <1>5, <1>6, <1>7, <1>8, <1>9, <1>10, <1>11, DocumentsAssumption DEF Next

(* The credit notes issued for an invoice never come to more than it, for  *)
(* any number of them issued, cancelled and changed at once: the row of    *)
(* the invoice is locked from the check to the commit                      *)
(* (_check_credit_note_limit).                                             *)
THEOREM NotesAlwaysWithinOriginal == Spec => []NotesWithinOriginal
  <1>1. Init => LimitInv
    BY InitLimit
  <1>2. LimitInv /\ [Next]_vars => LimitInv'
    BY StepLimit
  <1>3. LimitInv => NotesWithinOriginal
    <2>1. SUFFICES ASSUME LimitInv, NEW o \in Invoices, NotesOf(o, "posted") # {},
                          \A d \in NotesOf(o, "posted") \cup {o} : entry[d] = document[d].amount
                   PROVE  SumFunctionOnSet(entry, NotesOf(o, "posted")) <= entry[o]
      BY DEF NotesWithinOriginal
    <2>2. AsEntered(o) = NotesOf(o, "posted")
      BY <2>1 DEF AsEntered
    <2>3. QED
      BY <2>1, <2>2 DEF LimitInv, WithinLimit
  <1>4. QED
    BY <1>1, <1>2, <1>3, PTL DEF Spec

=============================================================================
