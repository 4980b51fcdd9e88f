-------------------------- MODULE SettlementProofs --------------------------
(* What Settlement guarantees for every set of sessions, invoices,         *)
(* payments and amounts: that a payment's entries follow its state, that   *)
(* open amounts agree with the matches, that requests that match never     *)
(* wait for one another in a cycle, and that a commit is one step of the   *)
(* abstract account.                                                       *)
EXTENDS Settlement, SumProofs, SequenceTheorems, TLAPS

(* What a request is besides its locks.                                    *)
SameWork(t, u) ==
  /\ t.pc = u.pc /\ t.payment = u.payment /\ t.amount = u.amount /\ t.memo = u.memo
  /\ t.row = u.row /\ t.opens = u.opens /\ t.open = u.open

LEMMA TypesOf ==
  ASSUME Inv, NEW s \in Sessions
  PROVE  /\ IsRequest(tx[s]) /\ Knows(s) /\ Written(s)
         /\ \A t : Start(s, t) =>
              tx'[s] = t /\ tx' = [r \in Sessions |-> tx'[r]] /\ \A r \in Sessions \ {s} : tx'[r] = tx[r]
  BY DEF Inv, Typed, Start

LEMMA RowTypes ==
  ASSUME Inv, NEW p \in Payments
  PROVE  /\ payment[p] \in Rows
         /\ payment[p].state \in {"none", "draft", "posted", "cancelled", "deleted"}
         /\ payment[p].amount \in Amounts \cup {None}
         /\ payment[p].amount = None <=> payment[p].state \in {"none", "deleted"}
         /\ payment[p].memo \in Memos \cup {None}
         /\ payment[p] = [state |-> payment[p].state, amount |-> payment[p].amount, memo |-> payment[p].memo]
  BY DEF Inv, Typed, Rows

LEMMA Apart ==
  ASSUME Inv, NEW s \in Sessions, NEW r \in Sessions, r # s, NEW p
  PROVE  /\ ~(Holds(s, PaymentLock(p)) /\ Holds(r, PaymentLock(p)))
         /\ ~(Holds(s, SourceLock(p)) /\ Holds(r, SourceLock(p)))
         /\ ~(Holds(s, EntryLock(p)) /\ Holds(r, EntryLock(p)))
  <1>1. \A l : Holds(s, l) /\ Holds(r, l) => l[1] = "share"
    BY DEF Inv, HeldApart, Holds
  <1>2. PaymentLock(p)[1] = "payment" /\ SourceLock(p)[1] = "source" /\ EntryLock(p)[1] = "entry"
    BY DEF PaymentLock, SourceLock, EntryLock
  <1>3. QED
    BY <1>1, <1>2

(* A payment's line and its reversal's are lines, and no two are the same. *)
LEMMA LineIds ==
  /\ None \notin Lines
  /\ \A p \in Payments : p \in Lines /\ Reversal(p) \in Lines /\ p # None
  /\ \A p, q \in Payments : Reversal(p) # q /\ (Reversal(p) = Reversal(q) => p = q)
  <1>1. Span \in Nat /\ None \notin Nat /\ Invoices \cup Payments \subseteq 0..(Span - 1)
    BY SettlementAssumption
  <1>2. Invoices \subseteq Nat /\ Payments \subseteq Nat /\ \A p \in Payments : p < Span
    BY <1>1
  <1>3. \A p \in Payments : Reversal(p) = Span + p /\ Reversal(p) \in Nat
    BY <1>1, <1>2 DEF Reversal
  <1>4. \A p, q \in Payments : Reversal(p) # q /\ (Reversal(p) = Reversal(q) => p = q)
    BY <1>1, <1>2, <1>3
  <1>5. \A p \in Payments : p \in Lines /\ Reversal(p) \in Lines
    BY DEF Lines, Debits, Credits
  <1>6. Lines \subseteq Nat
    BY <1>2, <1>3 DEF Lines, Debits, Credits
  <1>7. QED
    BY <1>1, <1>2, <1>4, <1>5, <1>6

LEMMA AmountTypes == None \notin Amounts
  BY SettlementAssumption

LEMMA Queues ==
  ASSUME NEW l, NEW k
  PROVE  /\ <<l>> # <<>> /\ Head(<<l>>) = l /\ Tail(<<l>>) = <<>>
         /\ <<k, l>> # <<>> /\ Head(<<k, l>>) = k /\ Tail(<<k, l>>) = <<l>>
  OBVIOUS

-----------------------------------------------------------------------------
(* Steps that write no table.                                              *)

(* What another request knows survives a step that leaves it and its       *)
(* payment alone.                                                          *)
LEMMA OthersElsewhere ==
  ASSUME Inv, NEW r \in Sessions, tx'[r] = tx[r],
         tx[r].payment # None => /\ payment'[tx[r].payment] = payment[tx[r].payment]
                                 /\ amount'[tx[r].payment] = amount[tx[r].payment]
  PROVE  Knows(r)' /\ Written(r)'
  <1>1. Knows(r) /\ Written(r)
    BY TypesOf
  <1>2. /\ \A l : Holds(r, l)' <=> Holds(r, l)
        /\ \A l : Awaits(r, l)' <=> Awaits(r, l)
    BY DEF Holds, Awaits
  <1>3. CASE tx[r].payment = None
    BY <1>1, <1>2, <1>3 DEF Knows, Written, MatchesOnly
  <1>4. CASE tx[r].payment # None
    <2>1. /\ payment'[tx[r].payment] = payment[tx[r].payment]
          /\ amount'[tx[r].payment] = amount[tx[r].payment]
      BY <1>4
    <2>2. Knows(r)'
      BY <1>1, <1>2, <2>1 DEF Knows
    <2>3. Written(r)'
      BY <1>1, <1>2, <2>1 DEF Written, MatchesOnly, Edits, Posts, Cancels
    <2>4. QED
      BY <2>2, <2>3
  <1>5. QED
    BY <1>3, <1>4

(* A step that changes one request, and gives it no lock of another's.     *)
LEMMA StepOfOne ==
  ASSUME Inv, NEW s \in Sessions, NEW t, IsRequest(t), Start(s, t), UNCHANGED rows,
         \A r \in Sessions \ {s} : \A l \in t.held \cap tx[r].held : l[1] = "share",
         Knows(s)', Written(s)'
  PROVE  Inv'
  <1>1. /\ tx'[s] = t /\ tx' = [r \in Sessions |-> tx'[r]]
        /\ \A r \in Sessions \ {s} : tx'[r] = tx[r]
        /\ payment' = payment /\ amount' = amount
    BY TypesOf DEF rows
  <1>2. Typed' /\ EntriesFollowState'
    BY <1>1 DEF Inv, Typed, EntriesFollowState
  <1>3. HeldApart'
    BY <1>1 DEF Inv, HeldApart
  <1>4. ASSUME NEW r \in Sessions PROVE (Knows(r) /\ Written(r))'
    <2>1. CASE r = s
      BY <2>1
    <2>2. CASE r # s
      BY <1>1, <2>2, OthersElsewhere
    <2>3. QED
      BY <2>1, <2>2
  <1>5. QED
    BY <1>2, <1>3, <1>4 DEF Inv

(* A request that goes on with its locks.                                  *)
LEMMA GoOn ==
  ASSUME Inv, NEW s \in Sessions, NEW t, IsRequest(t), Start(s, t), UNCHANGED rows,
         t.held = tx[s].held, Knows(s)', Written(s)'
  PROVE  Inv'
  <1>1. \A r \in Sessions \ {s} : \A l \in t.held \cap tx[r].held : l[1] = "share"
    BY DEF Inv, HeldApart
  <1>2. QED
    BY <1>1, StepOfOne

(* A request that begins.                                                  *)
LEMMA BeginStep ==
  ASSUME Inv, NEW s \in Sessions, NEW t, IsRequest(t), Start(s, t), UNCHANGED rows,
         t.held = {}, Knows(s)', Written(s)'
  PROVE  Inv'
  BY StepOfOne

LEMMA AbortStep ==
  ASSUME Inv, NEW s \in Sessions, Abort(s)
  PROVE  Inv'
  <1>1. Start(s, Idle) /\ UNCHANGED rows /\ tx'[s] = Idle
    BY TypesOf DEF Abort
  <1>2. Knows(s)' /\ Written(s)'
    BY <1>1 DEF Knows, Written, Idle
  <1>3. Idle.held = {} /\ IsRequest(Idle)
    BY DEF Idle, IsRequest
  <1>4. QED
    BY <1>1, <1>2, <1>3, BeginStep

LEMMA AcquireStep ==
  ASSUME Inv, NEW s \in Sessions, Acquire(s)
  PROVE  Inv'
  <1> DEFINE head == Head(tx[s].queue)
             t == [tx[s] EXCEPT !.held = @ \cup {head}, !.queue = Tail(@)]
  <1>1. /\ Start(s, t) /\ UNCHANGED rows /\ tx'[s] = t /\ IsRequest(tx[s]) /\ Knows(s) /\ Written(s)
        /\ tx[s].queue # <<>> /\ payment' = payment /\ amount' = amount
    BY TypesOf DEF Acquire, rows
  <1>2. /\ t.held = tx[s].held \cup {head} /\ t.queue = Tail(tx[s].queue)
        /\ SameWork(t, tx[s]) /\ IsRequest(t)
    BY <1>1 DEF SameWork, IsRequest
  <1>3. ASSUME NEW r \in Sessions \ {s}, NEW l \in t.held \cap tx[r].held
        PROVE  l[1] = "share"
    <2>1. CASE l \in tx[s].held
      BY <2>1 DEF Inv, HeldApart
    <2>2. CASE l = head
      <3>1. ~Conflict(l, head)
        BY <1>3 DEF Acquire, Holders
      <3>2. QED
        BY <2>2, <3>1 DEF Conflict
    <2>3. QED
      BY <1>2, <2>1, <2>2
  <1> HIDE DEF t
  <1>4. ASSUME NEW l PROVE (Holds(s, l) => Holds(s, l)') /\ (Awaits(s, l) => Awaits(s, l)')
    <2>1. Holds(s, l) => Holds(s, l)'
      BY <1>1, <1>2 DEF Holds
    <2>2. CASE tx[s].queue = <<l>>
      BY <1>1, <1>2, <2>2, Queues DEF Holds, Awaits
    <2>3. CASE tx[s].queue = <<Counter, l>>
      BY <1>1, <1>2, <2>3, Queues DEF Holds, Awaits
    <2>4. QED
      BY <2>1, <2>2, <2>3 DEF Awaits
  <1>5. Knows(s)'
    BY <1>1, <1>2, <1>4 DEF Knows, SameWork
  <1>6. Written(s)'
    BY <1>1, <1>2, <1>4 DEF Written, MatchesOnly, Edits, Posts, Cancels, SameWork
  <1>7. QED
    BY <1>1, <1>2, <1>3, <1>5, <1>6, StepOfOne

-----------------------------------------------------------------------------
(* Requests begin.                                                         *)

LEMMA BeginUpdateStep ==
  ASSUME Inv, NEW s \in Sessions, NEW p \in Payments, NEW a \in Amounts \cup {None},
         NEW memo \in Memos \cup {None}, BeginUpdate(s, p, a, memo)
  PROVE  Inv'
  <1> DEFINE lock == PaymentLock(p)
             t == [Idle EXCEPT !.pc = "update", !.payment = p, !.amount = a, !.memo = memo, !.queue = <<lock>>]
  <1>1. Start(s, t) /\ UNCHANGED rows /\ payment[p].state = "draft"
    BY DEF BeginUpdate, PaymentLock
  <1> HIDE DEF lock
  <1>2. /\ t.pc = "update" /\ t.payment = p /\ t.amount = a /\ t.memo = memo /\ t.queue = <<lock>> /\ t.held = {}
        /\ t.row = None /\ t.opens = None /\ IsRequest(t)
    BY DEF Idle, IsRequest
  <1> HIDE DEF t
  <1>3. tx'[s] = t /\ payment' = payment
    BY <1>1, TypesOf DEF rows
  <1>4. Awaits(s, lock)'
    BY <1>2, <1>3 DEF Awaits
  <1>5. Knows(s)' /\ Written(s)'
    BY <1>1, <1>2, <1>3, <1>4, LineIds DEF Knows, Written, lock
  <1>6. QED
    BY <1>1, <1>2, <1>5, BeginStep

LEMMA BeginDeleteStep ==
  ASSUME Inv, NEW s \in Sessions, NEW p \in Payments, BeginDelete(s, p)
  PROVE  Inv'
  <1> DEFINE lock == PaymentLock(p)
             t == [Idle EXCEPT !.pc = "delete", !.payment = p, !.queue = <<lock>>]
  <1>1. Start(s, t) /\ UNCHANGED rows /\ payment[p].state = "draft"
    BY DEF BeginDelete, PaymentLock
  <1> HIDE DEF lock
  <1>2. /\ t.pc = "delete" /\ t.payment = p /\ t.queue = <<lock>> /\ t.held = {}
        /\ t.row = None /\ t.opens = None /\ IsRequest(t)
    BY DEF Idle, IsRequest
  <1> HIDE DEF t
  <1>3. tx'[s] = t /\ payment' = payment
    BY <1>1, TypesOf DEF rows
  <1>4. Awaits(s, lock)'
    BY <1>2, <1>3 DEF Awaits
  <1>5. Knows(s)' /\ Written(s)'
    BY <1>1, <1>2, <1>3, <1>4, LineIds DEF Knows, Written, lock
  <1>6. QED
    BY <1>1, <1>2, <1>5, BeginStep

LEMMA BeginPostStep ==
  ASSUME Inv, NEW s \in Sessions, NEW p \in Payments, BeginPost(s, p)
  PROVE  Inv'
  <1> DEFINE lock == SourceLock(p)
             a == payment[p].amount
             t == [Idle EXCEPT !.pc = "post", !.payment = p, !.amount = a, !.queue = <<Counter, lock>>]
  <1>1. Start(s, t) /\ UNCHANGED rows /\ payment[p].state = "draft"
    BY DEF BeginPost, SourceLock, Counter
  <1>2. a \in Amounts
    BY <1>1, RowTypes
  <1> HIDE DEF lock, a
  <1>3. /\ t.pc = "post" /\ t.payment = p /\ t.amount = a /\ t.queue = <<Counter, lock>> /\ t.held = {}
        /\ t.row = None /\ t.opens = None /\ IsRequest(t)
    BY DEF Idle, IsRequest
  <1> HIDE DEF t
  <1>4. tx'[s] = t /\ payment' = payment
    BY <1>1, TypesOf DEF rows
  <1>5. Awaits(s, lock)'
    BY <1>3, <1>4 DEF Awaits
  <1>6. Knows(s)' /\ Written(s)'
    BY <1>1, <1>2, <1>3, <1>4, <1>5, LineIds DEF Knows, Written, lock
  <1>7. QED
    BY <1>1, <1>3, <1>6, BeginStep

LEMMA BeginMatchStep ==
  ASSUME Inv, NEW s \in Sessions, NEW lines, NEW take, BeginMatch(s, lines, take)
  PROVE  Inv'
  <1> DEFINE queue == LinesOf(lines)
             t == [Idle EXCEPT !.pc = "match", !.lines = lines, !.amount = take, !.queue = queue]
  <1>1. Start(s, t) /\ UNCHANGED rows
    BY DEF BeginMatch
  <1> HIDE DEF queue
  <1>2. /\ t.pc = "match" /\ t.payment = None /\ t.held = {} /\ t.row = None /\ t.opens = None
        /\ IsRequest(t)
    BY DEF Idle, IsRequest
  <1> HIDE DEF t
  <1>3. tx'[s] = t
    BY <1>1, TypesOf
  <1>4. Knows(s)' /\ Written(s)'
    BY <1>2, <1>3 DEF Knows, Written
  <1>5. QED
    BY <1>1, <1>2, <1>4, BeginStep

LEMMA BeginUnmatchStep ==
  ASSUME Inv, NEW s \in Sessions, NEW m, BeginUnmatch(s, m)
  PROVE  Inv'
  <1> DEFINE t == [Idle EXCEPT !.pc = "undoing", !.todo = {m}, !.queue = <<<<"match", m.id>>>>]
  <1>1. Start(s, t) /\ UNCHANGED rows
    BY DEF BeginUnmatch
  <1>2. /\ t.pc = "undoing" /\ t.payment = None /\ t.held = {} /\ t.row = None /\ t.opens = None
        /\ IsRequest(t)
    BY DEF Idle, IsRequest
  <1> HIDE DEF t
  <1>3. tx'[s] = t
    BY <1>1, TypesOf
  <1>4. Knows(s)' /\ Written(s)'
    BY <1>2, <1>3 DEF Knows, Written
  <1>5. QED
    BY <1>1, <1>2, <1>4, BeginStep

LEMMA BeginCancelStep ==
  ASSUME Inv, NEW s \in Sessions, NEW p \in Payments, BeginCancel(s, p)
  PROVE  Inv'
  <1> PICK found : found = {m \in matches : p \in Sides(m)}
    OBVIOUS
  <1>1. PICK order : Start(s, [Idle EXCEPT !.pc = "undoing", !.payment = p, !.todo = found, !.queue = order])
    BY DEF BeginCancel
  <1> DEFINE t == [Idle EXCEPT !.pc = "undoing", !.payment = p, !.todo = found, !.queue = order]
  <1>2. Start(s, t) /\ UNCHANGED rows /\ payment[p].state = "posted"
    BY <1>1 DEF BeginCancel
  <1>3. /\ t.pc = "undoing" /\ t.payment = p /\ t.held = {} /\ t.row = None /\ t.opens = None
        /\ IsRequest(t)
    BY DEF Idle, IsRequest
  <1> HIDE DEF t
  <1>4. tx'[s] = t /\ payment' = payment
    BY <1>2, TypesOf DEF rows
  <1>5. Knows(s)' /\ Written(s)'
    BY <1>2, <1>3, <1>4 DEF Knows, Written
  <1>6. QED
    BY <1>2, <1>3, <1>5, BeginStep

-----------------------------------------------------------------------------
(* Requests that match go on.                                              *)

(* A request that waits for no lock.                                       *)
LEMMA Here ==
  ASSUME Inv, NEW s \in Sessions, NEW here, At(s, here)
  PROVE  /\ tx[s].pc = here /\ IsRequest(tx[s]) /\ Knows(s) /\ Written(s)
         /\ \A l : Awaits(s, l) => Holds(s, l)
  <1>1. tx[s].pc = here /\ tx[s].queue = <<>> /\ IsRequest(tx[s]) /\ Knows(s) /\ Written(s)
    BY TypesOf DEF At
  <1>2. \A l : Awaits(s, l) => Holds(s, l)
    BY <1>1, Queues DEF Awaits
  <1>3. QED
    BY <1>1, <1>2

LEMMA MatchStep ==
  ASSUME Inv, NEW s \in Sessions, Match(s)
  PROVE  Inv'
  <1>1. CASE ~Abort(s)
    <2>1. PICK d, c, take : Settle(s, tx[s], d, c, take) /\ UNCHANGED rows
      BY <1>1 DEF Match
    <2>2. At(s, "match") \/ At(s, "matched")
      BY DEF Match
    <2> DEFINE made == tx[s].made \cup {[id |-> NextId, debit |-> d, credit |-> c, amount |-> take]}
               open == Writes(tx[s], [l \in {d, c} |-> Open(tx[s], l) - take])
               done == [tx[s] EXCEPT !.made = made, !.open = open]
               pc == IF Pairs(done) = {} \/ tx[s].amount # None THEN "commit" ELSE "matched"
               queue == EntriesOf({d, c})
                          \o Difference([id |-> NextId, debit |-> d, credit |-> c, amount |-> take])
               t == [done EXCEPT !.pc = pc, !.queue = queue]
    <2>3. Start(s, t)
      BY <2>1 DEF Settle, Goto, Start
    <2>4. /\ tx[s].payment = None /\ tx[s].row = None /\ tx[s].opens = None
          /\ IsRequest(tx[s])
      BY <2>2, Here DEF Knows
    <2>5. pc \in {"commit", "matched"}
      OBVIOUS
    <2> HIDE DEF made, open, pc, queue
    <2>6. /\ t.pc = pc /\ t.payment = None /\ t.row = None /\ t.opens = None
          /\ t.held = tx[s].held /\ IsRequest(t)
      BY <2>4 DEF IsRequest
    <2> HIDE DEF t
    <2>7. tx'[s] = t
      BY <2>3, TypesOf
    <2>8. Knows(s)' /\ Written(s)'
      BY <2>5, <2>6, <2>7 DEF Knows, Written, MatchesOnly
    <2>9. QED
      BY <2>1, <2>3, <2>6, <2>8, GoOn
  <1>2. QED
    BY <1>1, AbortStep

LEMMA NextUndoStep ==
  ASSUME Inv, NEW s \in Sessions, NextUndo(s)
  PROVE  Inv'
  <1>1. CASE ~Abort(s)
    <2>1. /\ At(s, "undoing") /\ UNCHANGED rows
          /\ \/ \E m : Goto(s, [tx[s] EXCEPT !.todo = tx[s].todo \cap matches, !.match = m], "undo",
                            LinesOf(Sides(m)))
             \/ tx[s].payment # None /\ Goto(s, tx[s], "reverse", <<EntryLock(tx[s].payment)>>)
             \/ tx[s].payment = None /\ Goto(s, tx[s], "commit", <<>>)
      BY <1>1 DEF NextUndo, EntryLock
    <2>2. /\ tx[s].pc = "undoing" /\ IsRequest(tx[s]) /\ Knows(s)
          /\ tx[s].row = None /\ tx[s].opens = None
      <3>1. tx[s].pc = "undoing" /\ IsRequest(tx[s]) /\ Knows(s)
        BY <2>1, Here
      <3>2. QED
        BY <3>1 DEF Knows
    <2>3. payment' = payment
      BY <2>1 DEF rows
    <2>4. ASSUME NEW m,
                 Goto(s, [tx[s] EXCEPT !.todo = tx[s].todo \cap matches, !.match = m], "undo",
                      LinesOf(Sides(m)))
          PROVE  Inv'
      <3> DEFINE todo == tx[s].todo \cap matches
                 queue == LinesOf(Sides(m))
                 t == [[tx[s] EXCEPT !.todo = todo, !.match = m] EXCEPT !.pc = "undo", !.queue = queue]
      <3>1. Start(s, t)
        BY <2>4 DEF Goto, Start
      <3> HIDE DEF todo, queue
      <3>2. /\ t.pc = "undo" /\ t.payment = tx[s].payment /\ t.row = None /\ t.opens = None
            /\ t.held = tx[s].held /\ IsRequest(t)
        BY <2>2 DEF IsRequest
      <3> HIDE DEF t
      <3>3. tx'[s] = t
        BY <3>1, TypesOf
      <3>4. Knows(s)' /\ Written(s)'
        BY <2>2, <2>3, <3>2, <3>3 DEF Knows, Written
      <3>5. QED
        BY <2>1, <3>1, <3>2, <3>4, GoOn
    <2>5. ASSUME tx[s].payment # None, Goto(s, tx[s], "reverse", <<EntryLock(tx[s].payment)>>)
          PROVE  Inv'
      <3> PICK lock : lock = EntryLock(tx[s].payment)
        OBVIOUS
      <3> DEFINE t == [tx[s] EXCEPT !.pc = "reverse", !.queue = <<lock>>]
      <3>1. Start(s, t)
        BY <2>5 DEF Goto, Start
      <3>2. /\ t.pc = "reverse" /\ t.payment = tx[s].payment /\ t.row = None /\ t.opens = None
            /\ t.held = tx[s].held /\ t.queue = <<lock>> /\ IsRequest(t)
        BY <2>2 DEF IsRequest
      <3> HIDE DEF t
      <3>3. tx'[s] = t
        BY <3>1, TypesOf
      <3>4. Awaits(s, EntryLock(tx[s].payment))'
        BY <3>2, <3>3 DEF Awaits, EntryLock
      <3>5. Knows(s)' /\ Written(s)'
        BY <2>2, <2>3, <2>5, <3>2, <3>3, <3>4 DEF Knows, Written
      <3>6. QED
        BY <2>1, <3>1, <3>2, <3>5, GoOn
    <2>6. ASSUME tx[s].payment = None, Goto(s, tx[s], "commit", <<>>)
          PROVE  Inv'
      <3> DEFINE t == [tx[s] EXCEPT !.pc = "commit", !.queue = <<>>]
      <3>1. Start(s, t)
        BY <2>6 DEF Goto, Start
      <3>2. /\ t.pc = "commit" /\ t.payment = None /\ t.row = None /\ t.opens = None
            /\ t.held = tx[s].held /\ IsRequest(t)
        BY <2>2, <2>6 DEF IsRequest
      <3> HIDE DEF t
      <3>3. tx'[s] = t
        BY <3>1, TypesOf
      <3>4. Knows(s)' /\ Written(s)'
        BY <3>2, <3>3 DEF Knows, Written, MatchesOnly
      <3>5. QED
        BY <2>1, <3>1, <3>2, <3>4, GoOn
    <2>7. QED
      BY <2>1, <2>4, <2>5, <2>6
  <1>2. QED
    BY <1>1, AbortStep

LEMMA UndoStep ==
  ASSUME Inv, NEW s \in Sessions, Undo(s)
  PROVE  Inv'
  <1> PICK m : m = tx[s].match
    OBVIOUS
  <1> DEFINE todo == tx[s].todo \ {m}
             undone == tx[s].undone \cup {m}
             open == Writes(tx[s], [l \in Sides(m) |-> Open(tx[s], l) + m.amount])
             queue == Difference(m) \o EntriesOf(Sides(m))
             t == [[tx[s] EXCEPT !.todo = todo, !.match = None, !.undone = undone, !.open = open]
                     EXCEPT !.pc = "undoing", !.queue = queue]
  <1>1. Start(s, t) /\ UNCHANGED rows /\ At(s, "undo")
    BY DEF Undo, Goto, Start
  <1>2. tx[s].pc = "undo" /\ tx[s].row = None /\ tx[s].opens = None /\ Knows(s) /\ IsRequest(tx[s])
    BY <1>1, Here DEF Knows
  <1> HIDE DEF todo, undone, open, queue
  <1>3. /\ t.pc = "undoing" /\ t.payment = tx[s].payment /\ t.row = None /\ t.opens = None
        /\ t.held = tx[s].held /\ IsRequest(t)
    BY <1>2 DEF IsRequest
  <1> HIDE DEF t
  <1>4. tx'[s] = t /\ payment' = payment
    BY <1>1, TypesOf DEF rows
  <1>5. Knows(s)' /\ Written(s)'
    BY <1>2, <1>3, <1>4 DEF Knows, Written
  <1>6. QED
    BY <1>1, <1>3, <1>5, GoOn

-----------------------------------------------------------------------------
(* Requests that write a payment go on.                                    *)

LEMMA UpdateStep ==
  ASSUME Inv, NEW s \in Sessions, Update(s)
  PROVE  Inv'
  <1>1. CASE ~Abort(s)
    <2> PICK p : p = tx[s].payment
      OBVIOUS
    <2> DEFINE row == [payment[p] EXCEPT !.amount = Or(tx[s].amount, @), !.memo = Or(tx[s].memo, @)]
               t == [tx[s] EXCEPT !.row = row, !.pc = "commit", !.queue = <<>>]
    <2>1. /\ Start(s, t) /\ UNCHANGED rows /\ At(s, "update")
          /\ payment[p].state # "deleted" /\ Allows(payment[p], row)
      BY <1>1 DEF Update, Goto, Start
    <2>2. /\ tx[s].pc = "update" /\ IsRequest(tx[s]) /\ Knows(s)
          /\ Awaits(s, PaymentLock(p)) => Holds(s, PaymentLock(p))
      BY <2>1, Here
    <2>3. /\ p \in Payments /\ p # None /\ payment[p].state # "none"
          /\ tx[s].amount \in Amounts \cup {None} /\ tx[s].memo \in Memos \cup {None}
          /\ tx[s].opens = None /\ Holds(s, PaymentLock(p))
      BY <2>2 DEF Knows
    <2>4. PICK old : old = payment[p]
      OBVIOUS
    <2> DEFINE a == Or(tx[s].amount, old.amount)
               memo == Or(tx[s].memo, old.memo)
    <2>5. row = [state |-> old.state, amount |-> a, memo |-> memo]
      <3>1. old = [state |-> old.state, amount |-> old.amount, memo |-> old.memo]
        BY <2>3, <2>4, RowTypes
      <3>2. row = [old EXCEPT !.amount = a, !.memo = memo]
        BY <2>4, <3>1 DEF Or
      <3> HIDE DEF row, a, memo
      <3>3. QED
        BY <3>1, <3>2
    <2>6. a \in Amounts /\ memo \in Memos \cup {None}
      <3>1. /\ old.amount \in Amounts \cup {None} /\ old.memo \in Memos \cup {None}
            /\ old.amount # None
        BY <2>1, <2>3, <2>4, RowTypes
      <3>2. a \in Amounts
        BY <2>3, <3>1 DEF Or
      <3>3. memo \in Memos \cup {None}
        BY <2>3, <3>1 DEF Or
      <3>4. QED
        BY <3>2, <3>3
    <2> HIDE DEF a, memo
    <2>7. /\ row.state = old.state /\ row.amount = a /\ row.memo = memo
          /\ old.state # "draft" => a = old.amount
      <3>1. row.state = old.state /\ row.amount = a /\ row.memo = memo
        BY <2>5
      <3>2. old.state # "draft" => row.amount = old.amount
        BY <2>1, <2>4 DEF Allows
      <3>3. QED
        BY <3>1, <3>2
    <2>8. row \in Rows
      <3>1. old.state \in {"none", "draft", "posted", "cancelled", "deleted"}
            /\ old.state # "none" /\ old.state # "deleted"
        BY <2>1, <2>3, <2>4, RowTypes
      <3>2. QED
        BY <2>5, <2>6, <3>1, AmountTypes DEF Rows
    <2>9. \/ row = [old EXCEPT !.memo = row.memo]
          \/ old.state = "draft" /\ row.state = "draft"
      <3>1. old = [state |-> old.state, amount |-> old.amount, memo |-> old.memo]
        BY <2>3, <2>4, RowTypes
      <3>2. CASE old.state # "draft"
        <4>1. row = [state |-> old.state, amount |-> old.amount, memo |-> memo]
          BY <2>5, <2>7, <3>2
        <4>2. QED
          BY <2>7, <3>1, <4>1
      <3>3. QED
        BY <2>7, <3>2
    <2> HIDE DEF row
    <2>10. /\ t.pc = "commit" /\ t.payment = p /\ t.row = row /\ t.opens = None
           /\ t.held = tx[s].held /\ IsRequest(t)
      BY <2>2, <2>3 DEF IsRequest
    <2> HIDE DEF t
    <2>11. tx'[s] = t /\ payment' = payment
      BY <2>1, TypesOf DEF rows
    <2>12. Knows(s)'
      BY <2>3, <2>10, <2>11 DEF Knows
    <2>13. Written(s)'
      <3>1. tx'[s].row = row /\ tx'[s].payment = p /\ tx'[s].opens = None /\ payment'[p] = old
        BY <2>4, <2>10, <2>11
      <3>2. Edits(tx[s])'
        BY <2>1, <2>4, <2>9, <3>1 DEF Edits
      <3>3. QED
        BY <2>3, <2>8, <2>10, <2>11, <3>1, <3>2 DEF Written, Holds
    <2>14. QED
      BY <2>1, <2>10, <2>12, <2>13, GoOn
  <1>2. QED
    BY <1>1, AbortStep

LEMMA DeleteStep ==
  ASSUME Inv, NEW s \in Sessions, Delete(s)
  PROVE  Inv'
  <1>1. CASE ~Abort(s)
    <2> PICK p : p = tx[s].payment
      OBVIOUS
    <2> DEFINE row == Deleted
               t == [tx[s] EXCEPT !.row = row, !.pc = "commit", !.queue = <<>>]
    <2>1. /\ Start(s, t) /\ UNCHANGED rows /\ At(s, "delete") /\ payment[p].state = "draft"
      BY <1>1 DEF Delete, Goto, Start
    <2>2. /\ tx[s].pc = "delete" /\ IsRequest(tx[s]) /\ Knows(s)
          /\ Awaits(s, PaymentLock(p)) => Holds(s, PaymentLock(p))
      BY <2>1, Here
    <2>3. p \in Payments /\ p # None /\ tx[s].opens = None /\ Holds(s, PaymentLock(p))
      BY <2>2 DEF Knows
    <2>4. row \in Rows /\ row.state = "deleted"
      BY DEF Rows, Deleted, NoPayment
    <2> HIDE DEF row
    <2>5. /\ t.pc = "commit" /\ t.payment = p /\ t.row = row /\ t.opens = None
          /\ t.held = tx[s].held /\ IsRequest(t)
      BY <2>2, <2>3 DEF IsRequest
    <2> HIDE DEF t
    <2>6. tx'[s] = t /\ payment' = payment
      BY <2>1, TypesOf DEF rows
    <2>7. Knows(s)'
      BY <2>1, <2>3, <2>5, <2>6 DEF Knows
    <2>8. Written(s)'
      BY <2>1, <2>3, <2>4, <2>5, <2>6 DEF Written, Edits, Holds
    <2>9. QED
      BY <2>1, <2>5, <2>7, <2>8, GoOn
  <1>2. QED
    BY <1>1, AbortStep

LEMMA InsertEntryStep ==
  ASSUME Inv, NEW s \in Sessions, InsertEntry(s)
  PROVE  Inv'
  <1>1. CASE ~Abort(s)
    <2> PICK p : p = tx[s].payment
      OBVIOUS
    <2> DEFINE lock == PaymentLock(p)
               open == [l \in {p} |-> tx[s].amount]
               t == [[tx[s] EXCEPT !.opens = p, !.open = open] EXCEPT !.pc = "stamp", !.queue = <<lock>>]
    <2>1. Start(s, t) /\ UNCHANGED rows /\ At(s, "post") /\ amount[p] = None
      BY <1>1 DEF InsertEntry, Goto, Start, PaymentLock
    <2>2. /\ tx[s].pc = "post" /\ IsRequest(tx[s]) /\ Knows(s)
          /\ Awaits(s, SourceLock(p)) => Holds(s, SourceLock(p))
      BY <2>1, Here
    <2>3. /\ p \in Payments /\ p # None /\ payment[p].state # "none" /\ tx[s].amount \in Amounts
          /\ tx[s].row = None /\ Holds(s, SourceLock(p))
      BY <2>2 DEF Knows
    <2>4. open[p] = tx[s].amount
      OBVIOUS
    <2> HIDE DEF lock, open
    <2>5. /\ t.pc = "stamp" /\ t.payment = p /\ t.row = None /\ t.opens = p /\ t.open = open
          /\ t.held = tx[s].held /\ t.queue = <<lock>> /\ IsRequest(t)
      BY <2>2, <2>3 DEF IsRequest
    <2> HIDE DEF t
    <2>6. tx'[s] = t /\ payment' = payment /\ amount' = amount
      BY <2>1, TypesOf DEF rows
    <2>7. Awaits(s, lock)' /\ Holds(s, SourceLock(p))'
      BY <2>3, <2>5, <2>6 DEF Awaits, Holds
    <2>8. Knows(s)' /\ Written(s)'
      BY <2>1, <2>3, <2>4, <2>5, <2>6, <2>7 DEF Knows, Written, lock
    <2>9. QED
      BY <2>1, <2>5, <2>8, GoOn
  <1>2. QED
    BY <1>1, AbortStep

(* No entry was made of the payment, so it is neither posted nor           *)
(* cancelled: it is still the draft that was read.                         *)
LEMMA StampPostedStep ==
  ASSUME Inv, NEW s \in Sessions, StampPosted(s)
  PROVE  Inv'
  <1>1. CASE ~Abort(s)
    <2> PICK p : p = tx[s].payment
      OBVIOUS
    <2> DEFINE row == [payment[p] EXCEPT !.state = "posted"]
               t == [tx[s] EXCEPT !.row = row, !.pc = "commit", !.queue = <<>>]
    <2>1. Start(s, t) /\ UNCHANGED rows /\ At(s, "stamp") /\ payment[p].state # "deleted"
      BY <1>1 DEF StampPosted, Goto, Start
    <2>2. /\ tx[s].pc = "stamp" /\ IsRequest(tx[s]) /\ Knows(s)
          /\ Awaits(s, PaymentLock(p)) => Holds(s, PaymentLock(p))
      BY <2>1, Here
    <2>3. /\ p \in Payments /\ p # None /\ payment[p].state # "none" /\ amount[p] = None
          /\ tx[s].opens = p /\ tx[s].open[p] \in Amounts
          /\ Holds(s, PaymentLock(p)) /\ Holds(s, SourceLock(p))
      BY <2>2 DEF Knows
    <2>4. payment[p].state = "draft"
      BY <2>1, <2>3, RowTypes DEF Inv, EntriesFollowState
    <2>5. row \in Rows
      BY <2>3, <2>4, RowTypes DEF Rows
    <2>6. row = [payment[p] EXCEPT !.state = "posted"]
      OBVIOUS
    <2> HIDE DEF row
    <2>7. /\ t.pc = "commit" /\ t.payment = p /\ t.row = row /\ t.opens = p /\ t.open = tx[s].open
          /\ t.held = tx[s].held /\ IsRequest(t)
      BY <2>2, <2>3 DEF IsRequest
    <2> HIDE DEF t
    <2>8. tx'[s] = t /\ payment' = payment
      BY <2>1, TypesOf DEF rows
    <2>9. Knows(s)'
      BY <2>3, <2>7, <2>8 DEF Knows
    <2>10. Posts(tx[s])'
      BY <2>3, <2>4, <2>6, <2>7, <2>8 DEF Posts, Holds
    <2>11. Written(s)'
      BY <2>3, <2>5, <2>7, <2>8, <2>10 DEF Written, Holds
    <2>12. QED
      BY <2>1, <2>7, <2>9, <2>11, GoOn
  <1>2. QED
    BY <1>1, AbortStep

LEMMA ReverseEntryStep ==
  ASSUME Inv, NEW s \in Sessions, ReverseEntry(s)
  PROVE  Inv'
  <1>1. CASE ~Abort(s)
    <2> PICK p : p = tx[s].payment
      OBVIOUS
    <2> PICK r : r = Reversal(p)
      OBVIOUS
    <2> DEFINE lock == PaymentLock(p)
               open == Writes(tx[s], [l \in {r} |-> amount[p]])
               t == [[tx[s] EXCEPT !.opens = r, !.open = open]
                       EXCEPT !.pc = "cancel", !.queue = <<Counter, lock>>]
    <2>1. Start(s, t) /\ UNCHANGED rows /\ At(s, "reverse") /\ amount[r] = None
      BY <1>1 DEF ReverseEntry, Goto, Start, PaymentLock, Counter
    <2>2. /\ tx[s].pc = "reverse" /\ IsRequest(tx[s]) /\ Knows(s)
          /\ Awaits(s, EntryLock(p)) => Holds(s, EntryLock(p))
      BY <2>1, Here
    <2>3. /\ p \in Payments /\ p # None /\ payment[p].state \in {"posted", "cancelled"}
          /\ tx[s].row = None /\ Holds(s, EntryLock(p))
      BY <2>2 DEF Knows
    <2>4. payment[p].state = "posted"
      BY <2>1, <2>3 DEF Inv, EntriesFollowState
    <2>5. open[r] = amount[p]
      BY DEF Writes
    <2> HIDE DEF lock, open
    <2>6. /\ t.pc = "cancel" /\ t.payment = p /\ t.row = None /\ t.opens = r /\ t.open = open
          /\ t.held = tx[s].held /\ t.queue = <<Counter, lock>> /\ IsRequest(t)
      BY <2>2, <2>3 DEF IsRequest
    <2> HIDE DEF t
    <2>7. tx'[s] = t /\ payment' = payment /\ amount' = amount
      BY <2>1, TypesOf DEF rows
    <2>8. Awaits(s, lock)' /\ Holds(s, EntryLock(p))'
      BY <2>3, <2>6, <2>7 DEF Awaits, Holds
    <2>9. Knows(s)' /\ Written(s)'
      BY <2>3, <2>4, <2>5, <2>6, <2>7, <2>8 DEF Knows, Written, lock
    <2>10. QED
      BY <2>1, <2>6, <2>9, GoOn
  <1>2. QED
    BY <1>1, AbortStep

LEMMA StampCancelledStep ==
  ASSUME Inv, NEW s \in Sessions, StampCancelled(s)
  PROVE  Inv'
  <1> PICK p : p = tx[s].payment
    OBVIOUS
  <1> DEFINE row == [payment[p] EXCEPT !.state = "cancelled"]
             t == [tx[s] EXCEPT !.row = row, !.pc = "commit", !.queue = <<>>]
  <1>1. Start(s, t) /\ UNCHANGED rows /\ At(s, "cancel")
    BY DEF StampCancelled, Goto, Start
  <1>2. /\ tx[s].pc = "cancel" /\ IsRequest(tx[s]) /\ Knows(s)
        /\ Awaits(s, PaymentLock(p)) => Holds(s, PaymentLock(p))
    BY <1>1, Here
  <1>3. /\ p \in Payments /\ p # None /\ payment[p].state = "posted"
        /\ tx[s].opens = Reversal(p) /\ tx[s].open[tx[s].opens] = amount[p]
        /\ Holds(s, PaymentLock(p)) /\ Holds(s, EntryLock(p))
    BY <1>2 DEF Knows
  <1>4. row \in Rows
    BY <1>3, RowTypes DEF Rows
  <1>5. row = [payment[p] EXCEPT !.state = "cancelled"]
    OBVIOUS
  <1> HIDE DEF row
  <1>6. /\ t.pc = "commit" /\ t.payment = p /\ t.row = row /\ t.opens = tx[s].opens
        /\ t.open = tx[s].open /\ t.held = tx[s].held /\ IsRequest(t)
    BY <1>2 DEF IsRequest
  <1> HIDE DEF t
  <1>7. tx'[s] = t /\ payment' = payment /\ amount' = amount
    BY <1>1, TypesOf DEF rows
  <1>8. Knows(s)'
    BY <1>3, <1>6, <1>7 DEF Knows
  <1>9. Cancels(tx[s])'
    BY <1>3, <1>5, <1>6, <1>7 DEF Cancels, Holds
  <1>10. Written(s)'
    BY <1>3, <1>4, <1>6, <1>7, <1>9 DEF Written, Holds
  <1>11. QED
    BY <1>1, <1>6, <1>8, <1>10, GoOn

-----------------------------------------------------------------------------
(* Steps that write payments and lines.                                    *)

LEMMA CreateStep ==
  ASSUME Inv, NEW p \in Payments, NEW a \in Amounts, Create(p, a)
  PROVE  Inv'
  <1> DEFINE row == [NoPayment EXCEPT !.state = "draft", !.amount = a]
  <1>1. /\ payment[p].state = "none" /\ payment' = [payment EXCEPT ![p] = row]
        /\ amount' = amount /\ tx' = tx /\ payment \in [Payments -> Rows]
    BY DEF Create, Inv, Typed
  <1>2. row \in Rows /\ row.state = "draft"
    BY AmountTypes DEF Rows, NoPayment
  <1> HIDE DEF row
  <1>3. Typed' /\ HeldApart'
    BY <1>1, <1>2 DEF Inv, Typed, HeldApart
  <1>4. ASSUME NEW r \in Sessions PROVE Knows(r)' /\ Written(r)'
    <2>1. tx[r].payment # None => tx[r].payment \in Payments /\ tx[r].payment # p
      BY <1>1, TypesOf DEF Knows
    <2>2. QED
      BY <1>1, <2>1, OthersElsewhere
  <1>5. EntriesFollowState'
    BY <1>1, <1>2 DEF Inv, EntriesFollowState
  <1>6. QED
    BY <1>3, <1>4, <1>5 DEF Inv

(* What a commit does to its payment.                                      *)
LEMMA Commits ==
  ASSUME Inv, NEW s \in Sessions, Commit(s)
  PROVE  LET t == tx[s]
             p == tx[s].payment
         IN
         /\ Start(s, Idle)
         /\ \/ payment' = payment /\ amount' = amount
            \/ /\ p \in Payments /\ t.row \in Rows /\ Holds(s, PaymentLock(p))
               /\ payment' = [payment EXCEPT ![p] = t.row]
               /\ amount' = [l \in Lines |-> IF l = t.opens THEN t.open[l] ELSE amount[l]]
               /\ Edits(t) \/ Posts(t) \/ Cancels(t)
  <1>1. /\ At(s, "commit") /\ Start(s, Idle)
        /\ payment' = IF tx[s].row = None THEN payment ELSE [payment EXCEPT ![tx[s].payment] = tx[s].row]
        /\ amount' = [l \in Lines |-> IF l = tx[s].opens THEN tx[s].open[l] ELSE amount[l]]
    BY DEF Commit, AmountAfter
  <1>2. tx[s].pc = "commit" /\ Knows(s) /\ Written(s)
    BY <1>1, Here
  <1>3. amount = [l \in Lines |-> amount[l]]
    BY DEF Inv, Typed
  <1>4. CASE MatchesOnly(tx[s])
    BY <1>1, <1>3, <1>4, LineIds DEF MatchesOnly
  <1>5. CASE /\ tx[s].payment # None /\ tx[s].row \in Rows /\ Holds(s, PaymentLock(tx[s].payment))
             /\ Edits(tx[s]) \/ Posts(tx[s]) \/ Cancels(tx[s])
    <2>1. tx[s].payment \in Payments
      BY <1>2, <1>5 DEF Knows
    <2>2. tx[s].row # None
      BY <1>5, SettlementAssumption
    <2>3. QED
      BY <1>1, <1>5, <2>1, <2>2
  <1>6. QED
    BY <1>2, <1>4, <1>5 DEF Written

(* A commit and another request on the same payment: the rows that the one *)
(* has written and those the other relies on are locked apart.             *)
LEMMA CommitOfSamePayment ==
  ASSUME Inv, NEW s \in Sessions, Commit(s), NEW r \in Sessions, r # s,
         tx[r].payment = tx[s].payment
  PROVE  Knows(r)' /\ Written(r)'
  <1> DEFINE t == tx[r]
             u == tx[s]
  <1> PICK p : p = tx[s].payment
    OBVIOUS
  <1>1. tx'[r] = t /\ Knows(r) /\ Written(r)
    BY Commits, TypesOf
  <1>2. CASE payment' = payment /\ amount' = amount
    BY <1>1, <1>2, OthersElsewhere
  <1>3. CASE ~(payment' = payment /\ amount' = amount)
    <2>1. /\ p \in Payments /\ u.row \in Rows /\ Holds(s, PaymentLock(p))
          /\ payment' = [payment EXCEPT ![p] = u.row]
          /\ amount' = [l \in Lines |-> IF l = u.opens THEN u.open[l] ELSE amount[l]]
          /\ Edits(u) \/ Posts(u) \/ Cancels(u)
      BY <1>3, Commits
    <2>2. payment'[p] = u.row /\ p # None /\ payment[p].state # "none"
      BY <1>1, <2>1, LineIds DEF Knows, Inv, Typed
    <2>3. ~Holds(r, PaymentLock(p))
      BY <2>1, Apart
    <2>4. t.pc = "commit" => MatchesOnly(t)
      BY <1>1, <2>3 DEF Written
    <2>5. Written(r)'
      BY <1>1, <2>4 DEF Written, MatchesOnly
    <2>6. u.row.state # "none"
      BY <2>1, <2>2, RowTypes DEF Edits, Posts, Cancels
    <2>7. t.pc = "stamp" => amount'[p] = amount[p]
      <3>1. t.pc = "stamp" => ~Posts(u)
        <4>1. t.pc = "stamp" => Holds(r, SourceLock(p))
          BY <1>1 DEF Knows
        <4>2. Posts(u) => Holds(s, SourceLock(p))
          BY DEF Posts, Holds
        <4>3. QED
          BY <4>1, <4>2, Apart
      <3>2. Edits(u) \/ Cancels(u) => u.opens # p
        BY <2>1, LineIds DEF Edits, Cancels
      <3>3. QED
        BY <2>1, <3>1, <3>2, LineIds
    <2>8. t.pc \in {"undoing", "undo", "reverse"} => u.row.state \in {"posted", "cancelled"}
      <3>1. t.pc \in {"undoing", "undo", "reverse"} => payment[p].state \in {"posted", "cancelled"}
        BY <1>1, <2>2 DEF Knows
      <3>2. QED
        BY <2>1, <3>1, RowTypes DEF Edits, Posts, Cancels
    <2>9. t.pc = "cancel" => u.row.state = "posted" /\ amount'[p] = amount[p]
      <3>1. t.pc = "cancel" => payment[p].state = "posted" /\ ~Cancels(u)
        <4>1. t.pc = "cancel" => Holds(r, EntryLock(p)) /\ payment[p].state = "posted"
          BY <1>1 DEF Knows
        <4>2. Cancels(u) => Holds(s, EntryLock(p))
          BY DEF Cancels, Holds
        <4>3. QED
          BY <4>1, <4>2, Apart
      <3>2. t.pc = "cancel" => Edits(u) /\ u.row.state = payment[p].state
        BY <2>1, <3>1, RowTypes DEF Edits, Posts
      <3>3. Edits(u) => u.opens # p
        BY <2>1, LineIds DEF Edits
      <3>4. QED
        BY <2>1, <3>1, <3>2, <3>3, LineIds
    <2>10. /\ \A l : Holds(r, l)' <=> Holds(r, l)
           /\ \A l : Awaits(r, l)' <=> Awaits(r, l)
      BY <1>1 DEF Holds, Awaits
    <2> HIDE DEF u
    <2>11. Knows(r)'
      BY <1>1, <2>2, <2>6, <2>7, <2>8, <2>9, <2>10 DEF Knows
    <2>12. QED
      BY <2>5, <2>11
  <1>4. QED
    BY <1>2, <1>3

LEMMA CommitStep ==
  ASSUME Inv, NEW s \in Sessions, Commit(s)
  PROVE  Inv'
  <1> DEFINE t == tx[s]
  <1> PICK p : p = tx[s].payment
    OBVIOUS
  <1>1. Start(s, Idle) /\ tx'[s] = Idle /\ tx' = [r \in Sessions |-> tx'[r]]
        /\ \A r \in Sessions \ {s} : tx'[r] = tx[r] /\ IsRequest(tx[r])
    BY Commits, TypesOf
  <1>2. IsRequest(Idle) /\ Idle.held = {}
    BY DEF Idle, IsRequest
  <1>3. CASE payment' = payment /\ amount' = amount
    <2>1. Typed' /\ HeldApart' /\ EntriesFollowState'
      BY <1>1, <1>2, <1>3 DEF Inv, Typed, HeldApart, EntriesFollowState
    <2>2. ASSUME NEW r \in Sessions PROVE Knows(r)' /\ Written(r)'
      <3>1. CASE r = s
        BY <1>1, <3>1 DEF Knows, Written, Idle
      <3>2. CASE r # s
        BY <1>1, <1>3, <3>2, OthersElsewhere
      <3>3. QED
        BY <3>1, <3>2
    <2>3. QED
      BY <2>1, <2>2 DEF Inv
  <1>4. CASE ~(payment' = payment /\ amount' = amount)
    <2>1. /\ p \in Payments /\ t.row \in Rows
          /\ payment' = [payment EXCEPT ![p] = t.row]
          /\ amount' = [l \in Lines |-> IF l = t.opens THEN t.open[l] ELSE amount[l]]
          /\ Edits(t) \/ Posts(t) \/ Cancels(t)
      BY <1>4, Commits
    <2>2. payment'[p] = t.row /\ (\A q \in Payments \ {p} : payment'[q] = payment[q])
          /\ amount \in [Lines -> Amounts \cup {None}] /\ payment \in [Payments -> Rows]
      BY <2>1 DEF Inv, Typed
    <2>3. t.opens \in {None, p, Reversal(p)}
          /\ (t.opens \in {p, Reversal(p)} => t.open[t.opens] \in Amounts \cup {None})
      BY <2>1, <2>2, LineIds DEF Edits, Posts, Cancels
    <2>4. amount' \in [Lines -> Amounts \cup {None}] /\ payment' \in [Payments -> Rows]
      BY <2>1, <2>2, <2>3, LineIds
    <2>5. Typed' /\ HeldApart'
      BY <1>1, <1>2, <2>4 DEF Inv, Typed, HeldApart
    <2>6. ASSUME NEW q \in Payments \ {p}
          PROVE  amount'[q] = amount[q] /\ amount'[Reversal(q)] = amount[Reversal(q)]
      BY <2>1, <2>3, LineIds
    <2>7. ASSUME NEW r \in Sessions PROVE Knows(r)' /\ Written(r)'
      <3>1. CASE r = s
        BY <1>1, <3>1 DEF Knows, Written, Idle
      <3>2. CASE r # s /\ tx[r].payment = p
        BY <3>2, CommitOfSamePayment
      <3>3. CASE r # s /\ tx[r].payment # p
        <4>1. tx[r].payment # None => tx[r].payment \in Payments
          BY TypesOf DEF Knows
        <4>2. QED
          BY <1>1, <2>2, <2>6, <3>3, <4>1, OthersElsewhere
      <3>4. QED
        BY <3>1, <3>2, <3>3
    <2>8. ASSUME NEW q \in Payments
          PROVE  /\ amount'[q] # None <=> payment'[q].state \in {"posted", "cancelled"}
                 /\ amount'[Reversal(q)] # None <=> payment'[q].state = "cancelled"
                 /\ amount'[Reversal(q)] \in {amount'[q], None}
      <3>1. /\ amount[q] # None <=> payment[q].state \in {"posted", "cancelled"}
            /\ amount[Reversal(q)] # None <=> payment[q].state = "cancelled"
            /\ amount[Reversal(q)] \in {amount[q], None}
        BY DEF Inv, EntriesFollowState
      <3>2. CASE q # p
        BY <2>2, <2>6, <3>1, <3>2
      <3>3. CASE q = p /\ Edits(t)
        <4>1. amount'[q] = amount[q] /\ amount'[Reversal(q)] = amount[Reversal(q)]
          BY <2>1, <3>3, LineIds DEF Edits
        <4>2. \/ t.row.state = payment[q].state
              \/ payment[q].state = "draft" /\ t.row.state \in {"draft", "deleted"}
          BY <3>3, RowTypes DEF Edits
        <4>3. QED
          BY <2>2, <3>1, <3>3, <4>1, <4>2
      <3>4. CASE q = p /\ Posts(t)
        <4>1. amount'[q] \in Amounts /\ amount'[Reversal(q)] = amount[Reversal(q)]
          BY <2>1, <3>4, LineIds DEF Posts
        <4>2. payment[q].state = "draft" /\ t.row.state = "posted"
          BY <2>1, <3>4, RowTypes DEF Posts
        <4>3. QED
          BY <2>2, <3>1, <3>4, <4>1, <4>2, AmountTypes
      <3>5. CASE q = p /\ Cancels(t)
        <4>1. amount'[q] = amount[q] /\ amount'[Reversal(q)] = amount[q]
          BY <2>1, <3>5, LineIds DEF Cancels
        <4>2. payment[q].state = "posted" /\ t.row.state = "cancelled"
          BY <2>1, <3>5, RowTypes DEF Cancels
        <4>3. QED
          BY <2>2, <3>1, <3>5, <4>1, <4>2
      <3>6. QED
        BY <2>1, <3>2, <3>3, <3>4, <3>5
    <2>9. EntriesFollowState'
      BY <2>8 DEF EntriesFollowState, Reversal
    <2>10. QED
      BY <2>5, <2>7, <2>9 DEF Inv
  <1>5. QED
    BY <1>3, <1>4

-----------------------------------------------------------------------------
(* The theorems.                                                           *)

LEMMA InitInv == ASSUME Init PROVE Inv
  <1>1. PICK owed \in [Invoices -> Owed] :
          amount = [l \in Lines |-> IF l \in Invoices THEN owed[l] ELSE None]
    BY DEF Init
  <1>2. /\ payment = [p \in Payments |-> NoPayment]
        /\ tx = [s \in Sessions |-> Idle]
    BY DEF Init
  <1>3. NoPayment \in Rows /\ NoPayment.state = "none"
    BY DEF Rows, NoPayment
  <1>4. Typed
    BY <1>1, <1>2, <1>3, SettlementAssumption DEF Typed, Idle, IsRequest
  <1>5. HeldApart /\ \A s \in Sessions : Knows(s) /\ Written(s)
    BY <1>2 DEF HeldApart, Knows, Written, Idle
  <1>6. \A p \in Payments : p \notin Invoices /\ Reversal(p) \notin Invoices
    <2>1. Span \in Nat /\ Invoices \cup Payments \subseteq 0..(Span - 1) /\ Invoices \cap Payments = {}
      BY SettlementAssumption
    <2>2. QED
      BY <2>1 DEF Reversal
  <1>7. EntriesFollowState
    BY <1>1, <1>2, <1>3, <1>6, LineIds DEF EntriesFollowState
  <1>8. QED
    BY <1>4, <1>5, <1>7 DEF Inv

LEMMA StepInv == ASSUME Inv, [Next]_vars PROVE Inv'
  <1>1. CASE UNCHANGED vars
    <2>1. payment' = payment /\ amount' = amount /\ tx' = tx
      BY <1>1 DEF vars, rows
    <2>2. Typed' /\ HeldApart' /\ EntriesFollowState'
      BY <2>1 DEF Inv, Typed, HeldApart, EntriesFollowState
    <2>3. ASSUME NEW s \in Sessions PROVE Knows(s)' /\ Written(s)'
      BY <2>1, OthersElsewhere
    <2>4. QED
      BY <2>2, <2>3 DEF Inv
  <1>2. ASSUME NEW p \in Payments, NEW a \in Amounts, Create(p, a) PROVE Inv'
    BY <1>2, CreateStep
  <1>3. ASSUME NEW s \in Sessions, NEW p \in Payments, NEW c \in Changes, BeginUpdate(s, p, c[1], c[2])
        PROVE  Inv'
    <2>1. c[1] \in Amounts \cup {None} /\ c[2] \in Memos \cup {None}
      BY SettlementAssumption
    <2>2. QED
      BY <1>3, <2>1, BeginUpdateStep
  <1>4. ASSUME NEW s \in Sessions, NEW p \in Payments,
               BeginDelete(s, p) \/ BeginPost(s, p) \/ BeginCancel(s, p)
        PROVE  Inv'
    BY <1>4, BeginDeleteStep, BeginPostStep, BeginCancelStep
  <1>5. ASSUME NEW s \in Sessions, NEW lines \in SUBSET Lines, NEW take \in Takes \cup {None},
               BeginMatch(s, lines, take)
        PROVE  Inv'
    BY <1>5, BeginMatchStep
  <1>6. ASSUME NEW s \in Sessions, NEW m \in matches, BeginUnmatch(s, m) PROVE Inv'
    BY <1>6, BeginUnmatchStep
  <1>7. ASSUME NEW s \in Sessions,
               Acquire(s) \/ Update(s) \/ Delete(s) \/ InsertEntry(s) \/ StampPosted(s)
        PROVE  Inv'
    BY <1>7, AcquireStep, UpdateStep, DeleteStep, InsertEntryStep, StampPostedStep
  <1>8. ASSUME NEW s \in Sessions,
               Match(s) \/ NextUndo(s) \/ Undo(s) \/ ReverseEntry(s) \/ StampCancelled(s)
        PROVE  Inv'
    BY <1>8, MatchStep, NextUndoStep, UndoStep, ReverseEntryStep, StampCancelledStep
  <1>9. ASSUME NEW s \in Sessions, Commit(s) \/ Rollback(s) \/ DeadlockVictim(s) PROVE Inv'
    BY <1>9, CommitStep, AbortStep DEF Rollback, DeadlockVictim
  <1>10. QED
    BY <1>1, <1>2, <1>3, <1>4, <1>5, <1>6, <1>7, <1>8, <1>9 DEF Next

(* What a request will write of a payment is made of a row it has locked   *)
(* and that has not changed since, although the state it acts on was read  *)
(* without a lock (post_payment, cancel_payment, update_payment).          *)
THEOREM Invariance == Spec => []Inv
  <1>1. Init => Inv
    BY InitInv
  <1>2. Inv /\ [Next]_vars => Inv'
    BY StepInv
  <1>3. QED
    BY <1>1, <1>2, PTL DEF Spec

(* A posted payment has one entry, a cancelled one its reversal too, for   *)
(* the same amount, and no other has either, whatever requests race over   *)
(* it (post_payment, cancel_payment, delete_payment).                      *)
THEOREM EntriesAlwaysFollowState == Spec => []EntriesFollowState
  <1>1. Inv => EntriesFollowState
    BY DEF Inv
  <1>2. QED
    BY <1>1, Invariance, PTL

LEMMA EvidenceStep ==
  ASSUME Inv, [Next]_vars, NEW p \in Payments
  PROVE  LET old == payment[p]
             new == payment'[p]
         IN
         /\ old.state \in {"posted", "cancelled"} =>
              new \in [state: {old.state, "cancelled"}, amount: {old.amount}, memo: Memos \cup {None}]
         /\ old.state = "deleted" => new = old
  <1> DEFINE old == payment[p]
             new == payment'[p]
             Evidence(row) == row \in [state: {old.state, "cancelled"}, amount: {old.amount},
                                        memo: Memos \cup {None}]
  <1>1. /\ old.memo \in Memos \cup {None}
        /\ old = [state |-> old.state, amount |-> old.amount, memo |-> old.memo]
    BY RowTypes
  <1>2. Evidence(old)
    BY <1>1
  <1>3. ASSUME NEW q \in Payments, NEW a \in Amounts, Create(q, a)
        PROVE  old.state # "none" => new = old
    BY <1>3 DEF Create, Inv, Typed
  <1>4. ASSUME NEW s \in Sessions, Commit(s), payment' # payment
        PROVE  \/ new = old
               \/ old.state = "draft"
               \/ old.state # "deleted" /\ Evidence(new)
    <2>1. /\ payment' = [payment EXCEPT ![tx[s].payment] = tx[s].row]
          /\ tx[s].row \in Rows
          /\ Edits(tx[s]) \/ Posts(tx[s]) \/ Cancels(tx[s])
      BY <1>4, Commits
    <2>2. new = IF p = tx[s].payment THEN tx[s].row ELSE old
      BY <2>1 DEF Inv, Typed
    <2> PICK row : row = tx[s].row
      OBVIOUS
    <2>3. row.memo \in Memos \cup {None}
      BY <2>1 DEF Rows
    <2>4. CASE p = tx[s].payment /\ Edits(tx[s]) /\ old.state # "draft"
      <3>1. old.state # "deleted" /\ row = [old EXCEPT !.memo = row.memo]
        BY <2>4 DEF Edits
      <3>2. row = [state |-> old.state, amount |-> old.amount, memo |-> row.memo]
        BY <1>1, <3>1
      <3>3. Evidence(row)
        BY <2>3, <3>2
      <3>4. QED
        BY <2>2, <2>4, <3>1, <3>3
    <2>5. CASE p = tx[s].payment /\ Cancels(tx[s])
      <3>1. old.state = "posted" /\ row = [old EXCEPT !.state = "cancelled"]
        BY <2>5 DEF Cancels
      <3>2. row = [state |-> "cancelled", amount |-> old.amount, memo |-> old.memo]
        BY <1>1, <3>1
      <3>3. Evidence(row)
        BY <1>1, <3>2
      <3>4. QED
        BY <2>2, <2>5, <3>1, <3>3
    <2>6. CASE p = tx[s].payment /\ Posts(tx[s])
      BY <2>6 DEF Posts
    <2>7. QED
      BY <2>1, <2>2, <2>4, <2>5, <2>6
  <1>5. \/ payment' = payment
        \/ \E q \in Payments, a \in Amounts : Create(q, a)
        \/ \E s \in Sessions : Commit(s)
    BY DEF Next, vars, rows, BeginUpdate, BeginDelete, BeginPost, BeginMatch, BeginUnmatch,
       BeginCancel, Acquire, Update, Delete, InsertEntry, StampPosted, Match, NextUndo, Undo,
       ReverseEntry, StampCancelled, Rollback, DeadlockVictim, Abort
  <1>6. \/ new = old
        \/ old.state \in {"none", "draft"}
        \/ old.state # "deleted" /\ Evidence(new)
    BY <1>3, <1>4, <1>5
  <1>7. QED
    BY <1>2, <1>6

(* A posted payment keeps its amount, is only ever cancelled, and that is  *)
(* for good; of its memo it says nothing, as payment_guard of migration    *)
(* 0005 does.                                                              *)
THEOREM PostedIsAlwaysEvidence == Spec => PostedIsEvidence
  <1>1. Inv /\ [Next]_vars =>
          [\A p \in Payments :
             LET old == payment[p]
                 new == payment'[p]
             IN
             /\ old.state \in {"posted", "cancelled"} =>
                  new \in [state: {old.state, "cancelled"}, amount: {old.amount}, memo: Memos \cup {None}]
             /\ old.state = "deleted" => new = old]_vars
    BY EvidenceStep
  <1>2. QED
    BY <1>1, Invariance, PTL DEF Spec, PostedIsEvidence

-----------------------------------------------------------------------------
(* Lines, ranks and queues.                                                *)

LEMMA LinesAreIds ==
  /\ Lines \subseteq Nat /\ Lines = Debits \cup Credits /\ Debits \cap Credits = {}
  /\ \A ids \in SUBSET Lines : IsFiniteSet(ids)
  /\ Amounts \subseteq Nat \ {0} /\ None \notin Nat
  <1>1. /\ Span \in Nat /\ Invoices \cup Payments \subseteq 0..(Span - 1) /\ Invoices \cap Payments = {}
        /\ Amounts \subseteq Nat \ {0} /\ None \notin Nat
    BY SettlementAssumption
  <1>2. \A p \in Payments : Reversal(p) \in Span..(2 * Span)
    BY <1>1 DEF Reversal
  <1>3. Lines \subseteq 0..(2 * Span) /\ Debits \cap Credits = {}
    BY <1>1, <1>2, LineIds DEF Lines, Debits, Credits
  <1>4. IsFiniteSet(0..(2 * Span))
    BY <1>1, FS_Interval
  <1>5. \A ids \in SUBSET Lines : IsFiniteSet(ids)
    BY <1>3, <1>4, FS_Subset
  <1>6. QED
    BY <1>1, <1>3, <1>5 DEF Lines

(* Every id has a rank of its own.                                         *)
LEMMA RanksCover ==
  ASSUME NEW ids, IsFiniteSet(ids), ids \subseteq Nat, NEW l \in ids
  PROVE  \E i \in 1..Cardinality(ids) : Ranked(ids, i) = l
  <1> DEFINE below(k) == {j \in ids : j < k}
  <1>1. \A k \in ids : IsFiniteSet(below(k)) /\ Cardinality(below(k)) \in Nat
    BY FS_Subset, FS_CardinalityType
  <1>2. Cardinality(below(l)) < Cardinality(ids) /\ Cardinality(ids) \in Nat
    <2>1. below(l) \in SUBSET ids /\ below(l) # ids
      OBVIOUS
    <2> HIDE DEF below
    <2>2. Cardinality(below(l)) <= Cardinality(ids) /\ Cardinality(below(l)) # Cardinality(ids)
      BY <2>1, FS_Subset
    <2>3. QED
      BY <1>1, <2>2, FS_CardinalityType
  <1>3. ASSUME NEW k \in ids, Cardinality(below(k)) = Cardinality(below(l)) PROVE k = l
    <2>0. k \in Nat /\ l \in Nat /\ ids \subseteq Nat
      OBVIOUS
    <2>4. \A j \in ids : j \in Nat
      OBVIOUS
    <2>1. CASE k < l
      <3>0. \A j \in ids : j < k => j < l
        BY <2>0, <2>4, <2>1
      <3>1. below(k) \in SUBSET below(l) /\ k \in below(l) /\ k \notin below(k)
        <4>1. below(k) \in SUBSET below(l)
          BY <3>0
        <4>2. k \in below(l)
          BY <2>1
        <4>3. k \notin below(k)
          BY <2>0
        <4>4. QED
          BY <4>1, <4>2, <4>3
      <3> HIDE DEF below
      <3>2. QED
        BY <1>1, <1>3, <3>1, FS_Subset
    <2>2. CASE l < k
      <3>0. \A j \in ids : j < l => j < k
        BY <2>0, <2>4, <2>2
      <3>1. below(l) \in SUBSET below(k) /\ l \in below(k) /\ l \notin below(l)
        <4>1. below(l) \in SUBSET below(k)
          BY <3>0
        <4>2. l \in below(k)
          BY <2>2
        <4>3. l \notin below(l)
          BY <2>0
        <4>4. QED
          BY <4>1, <4>2, <4>3
      <3> HIDE DEF below
      <3>2. QED
        BY <1>1, <1>3, <3>1, FS_Subset
    <2>3. QED
      BY <2>0, <2>1, <2>2
  <1>4. PICK i : i = Cardinality(below(l)) + 1
    OBVIOUS
  <1>5. i \in 1..Cardinality(ids) /\ Cardinality(below(l)) = i - 1
    BY <1>1, <1>2, <1>4
  <1>6. Ranked(ids, i) \in ids /\ Cardinality(below(Ranked(ids, i))) = i - 1
    BY <1>5 DEF Ranked
  <1> HIDE DEF below
  <1>7. QED
    BY <1>3, <1>5, <1>6

IsQueue(q) == q \in Seq(Range(q))

LEMMA QueueOf ==
  ASSUME NEW n \in Nat, NEW q, q = [i \in 1..n |-> q[i]]
  PROVE  IsQueue(q)
  BY DEF IsQueue, Range

LEMMA QueueIn ==
  ASSUME NEW S, NEW q \in Seq(S)
  PROVE  IsQueue(q) /\ Len(q) \in Nat /\ DOMAIN q = 1..Len(q)
  <1>1. PICK n \in Nat : q \in [1..n -> S]
    BY SeqDef
  <1>2. q = [i \in 1..n |-> q[i]]
    BY <1>1
  <1>3. QED
    BY <1>2, QueueOf

LEMMA RowsInOrder ==
  ASSUME NEW kind, NEW ids, IsFiniteSet(ids), ids \subseteq Nat
  PROVE  IsQueue(Ascending(kind, ids)) /\ \A l \in ids : <<kind, l>> \in Range(Ascending(kind, ids))
  <1>1. Cardinality(ids) \in Nat
    BY FS_CardinalityType
  <1>2. IsQueue(Ascending(kind, ids))
    BY <1>1, QueueOf DEF Ascending
  <1>3. ASSUME NEW l \in ids PROVE <<kind, l>> \in Range(Ascending(kind, ids))
    <2>1. PICK i \in 1..Cardinality(ids) : Ranked(ids, i) = l
      BY RanksCover
    <2>2. QED
      BY <2>1 DEF Ascending, Range
  <1>4. QED
    BY <1>2, <1>3

LEMMA QueueTail ==
  ASSUME NEW q, IsQueue(q), q # <<>>
  PROVE  IsQueue(Tail(q)) /\ Range(q) = {Head(q)} \cup Range(Tail(q))
  <1>1. q \in Seq(Range(q)) /\ Len(q) \in Nat /\ Len(q) # 0 /\ DOMAIN q = 1..Len(q)
    BY DEF IsQueue
  <1>2. /\ Tail(q) \in Seq(Range(q)) /\ Len(Tail(q)) = Len(q) - 1
        /\ \A i \in 1..(Len(q) - 1) : Tail(q)[i] = q[i + 1]
    BY <1>1
  <1>4. IsQueue(Tail(q)) /\ DOMAIN Tail(q) = 1..(Len(q) - 1)
    BY <1>2, QueueIn
  <1>5. Range(Tail(q)) = {q[i] : i \in 2..Len(q)}
    <2>1. \A i \in 2..Len(q) : i - 1 \in 1..(Len(q) - 1) /\ Tail(q)[i - 1] = q[i]
      BY <1>1, <1>2
    <2>2. \A i \in 1..(Len(q) - 1) : i + 1 \in 2..Len(q) /\ Tail(q)[i] = q[i + 1]
      BY <1>1, <1>2
    <2>3. Range(Tail(q)) = {Tail(q)[i] : i \in 1..(Len(q) - 1)}
      BY <1>4 DEF Range
    <2>4. QED
      BY <2>1, <2>2, <2>3
  <1>6. Range(q) = {q[1]} \cup {q[i] : i \in 2..Len(q)}
    BY <1>1 DEF Range
  <1>7. Head(q) = q[1]
    BY <1>1
  <1>8. QED
    BY <1>4, <1>5, <1>6, <1>7

LEMMA QueueJoined ==
  ASSUME NEW q, NEW r, IsQueue(q), IsQueue(r)
  PROVE  IsQueue(q \o r)
  <1>1. q \in Seq(Range(q) \cup Range(r)) /\ r \in Seq(Range(q) \cup Range(r))
    BY DEF IsQueue
  <1>2. q \o r \in Seq(Range(q) \cup Range(r))
    BY <1>1
  <1>3. QED
    BY <1>2, QueueIn

LEMMA ShortQueues ==
  ASSUME NEW l, NEW k
  PROVE  /\ IsQueue(<<>>) /\ Range(<<>>) = {}
         /\ IsQueue(<<l>>) /\ Range(<<l>>) = {l}
         /\ IsQueue(<<k, l>>) /\ Range(<<k, l>>) = {k, l}
  BY DEF IsQueue, Range

(* Rows that are locked in whatever order are all locked.                  *)
LEMMA RowsInSomeOrder ==
  ASSUME NEW S, IsFiniteSet(S), NEW order \in SetToSeqs(S)
  PROVE  IsQueue(order) /\ Range(order) = S
  <1>1. Cardinality(S) \in Nat
    BY FS_CardinalityType
  <1>2. PICK n : n = Cardinality(S)
    OBVIOUS
  <1>3. order \in [1..n -> S] /\ \A i, j \in 1..n : i # j => order[i] # order[j]
    BY <1>2 DEF SetToSeqs
  <1>4. IsQueue(order)
    BY <1>1, <1>2, <1>3, QueueOf
  <1>5. order \in Injection(1..n, S)
    BY <1>3 DEF Injection, IsInjective
  <1>6. IsFiniteSet(1..n) /\ Cardinality(1..n) = n
    BY <1>1, <1>2, FS_Interval
  <1>7. order \in Surjection(1..n, S)
    BY <1>2, <1>5, <1>6, FS_Injection
  <1>8. QED
    BY <1>3, <1>4, <1>7 DEF Surjection, Range

-----------------------------------------------------------------------------
(* What is matched of a line.                                              *)

LEMMA MatchedSame ==
  ASSUME NEW ms, NEW ns, NEW l, Touching(ms, l) = Touching(ns, l)
  PROVE  Matched(ms, l) = Matched(ns, l)
  BY DEF Matched

LEMMA MatchedNone ==
  ASSUME NEW ms, NEW l, Touching(ms, l) = {}
  PROVE  Matched(ms, l) = 0
  BY SumEmpty DEF Matched

LEMMA MatchedNat ==
  ASSUME NEW ms, IsFiniteSet(ms), \A m \in ms : m.amount \in Nat, NEW l
  PROVE  /\ Matched(ms, l) \in Nat /\ IsFiniteSet(Touching(ms, l))
         /\ IntOn([m \in Touching(ms, l) |-> m.amount], Touching(ms, l))
  <1> PICK S : S = Touching(ms, l)
    OBVIOUS
  <1> PICK f : f = [m \in S |-> m.amount]
    OBVIOUS
  <1>1. S \in SUBSET ms /\ \A m \in S : f[m] \in Nat
    BY DEF Touching
  <1>2. IsFiniteSet(S)
    BY <1>1, FS_Subset
  <1>3. SumFunctionOnSet(f, S) \in Nat
    BY <1>1, <1>2, SumNat
  <1>4. IntOn(f, S)
    BY <1>1 DEF IntOn
  <1>5. QED
    BY <1>2, <1>3, <1>4 DEF Matched

LEMMA MatchedMore ==
  ASSUME NEW ms, IsFiniteSet(ms), \A k \in ms : k.amount \in Nat,
         NEW m, m \notin ms, m.amount \in Nat, NEW l \in Sides(m)
  PROVE  Matched(ms \cup {m}, l) = Matched(ms, l) + m.amount
  <1> PICK S : S = Touching(ms, l)
    OBVIOUS
  <1> PICK f : f = [k \in S |-> k.amount]
    OBVIOUS
  <1> PICK g : g = [k \in S \cup {m} |-> k.amount]
    OBVIOUS
  <1>1. Touching(ms \cup {m}, l) = S \cup {m} /\ m \notin S
    BY DEF Touching
  <1>2. IsFiniteSet(S) /\ IntOn(f, S)
    BY MatchedNat
  <1>3. g[m] = m.amount /\ m.amount \in Int /\ \A k \in S : g[k] = f[k]
    OBVIOUS
  <1>4. SumFunctionOnSet(g, S \cup {m}) = SumFunctionOnSet(f, S) + g[m]
    BY <1>1, <1>2, <1>3, SumJoined
  <1>5. QED
    BY <1>1, <1>3, <1>4 DEF Matched

LEMMA MatchedLess ==
  ASSUME NEW ms, IsFiniteSet(ms), \A k \in ms : k.amount \in Nat, NEW m \in ms, NEW l \in Sides(m)
  PROVE  Matched(ms \ {m}, l) = Matched(ms, l) - m.amount
  <1> PICK R : R = ms \ {m}
    OBVIOUS
  <1>1. IsFiniteSet(R) /\ m \notin R /\ R \cup {m} = ms /\ \A k \in R : k.amount \in Nat
    BY FS_Subset
  <1>2. Matched(R \cup {m}, l) = Matched(R, l) + m.amount
    BY <1>1, MatchedMore
  <1>3. Matched(R, l) \in Nat
    BY <1>1, MatchedNat
  <1>4. Matched(ms, l) = Matched(R, l) + m.amount /\ m.amount \in Nat
    BY <1>1, <1>2
  <1>5. QED
    BY <1>3, <1>4

(* Matches that a request makes or deletes are of lines it writes.         *)
LEMMA TouchedAlone ==
  ASSUME NEW t, \A m \in t.made \cup t.undone : Sides(m) \subseteq Touched(t), NEW l, l \notin Touched(t)
  PROVE  /\ Touching(MatchesAfter(t), l) = Touching(matches, l)
         /\ Matched(MatchesAfter(t), l) = Matched(matches, l)
  <1>1. \A m \in t.made \cup t.undone : l \notin Sides(m)
    OBVIOUS
  <1>2. Touching(MatchesAfter(t), l) = Touching(matches, l)
    BY <1>1 DEF Touching, MatchesAfter
  <1>3. QED
    BY <1>2, MatchedSame

LEMMA MatchRowFields ==
  ASSUME NEW m \in MatchRows
  PROVE  /\ m.debit \in Debits /\ m.credit \in Credits /\ m.amount \in Nat \ {0} /\ m.id \in MatchIds
         /\ Sides(m) \subseteq Lines
  BY DEF MatchRows, Sides, Lines

(* The rows as a request will leave them.                                  *)
LEMMA AfterRows ==
  ASSUME Balanced, NEW t, Tallies(t)
  PROVE  /\ IsFiniteSet(MatchesAfter(t)) /\ MatchesAfter(t) \subseteq MatchRows
         /\ \A m \in MatchesAfter(t) : m.amount \in Nat
         /\ \A l : Matched(MatchesAfter(t), l) \in Nat
  <1>1. IsFiniteSet(matches) /\ matches \subseteq MatchRows /\ IsFiniteSet(t.made) /\ t.made \subseteq MatchRows
    BY DEF Balanced, Tallies
  <1>2. IsFiniteSet(matches \ t.undone)
    BY <1>1, FS_Subset
  <1>3. IsFiniteSet(MatchesAfter(t)) /\ MatchesAfter(t) \subseteq MatchRows
    BY <1>1, <1>2, FS_Union DEF MatchesAfter
  <1>4. \A m \in MatchesAfter(t) : m.amount \in Nat
    BY <1>3, MatchRowFields
  <1>5. QED
    BY <1>3, <1>4, MatchedNat

(* What is open of a line that is there, as a request sees it.             *)
LEMMA OpenNow ==
  ASSUME Balanced, NEW t, Tallies(t), NEW l \in Posted, l # t.opens
  PROVE  Open(t, l) \in Nat /\ Open(t, l) = amount[l] - Matched(MatchesAfter(t), l)
  <1>1. CASE l \in DOMAIN t.open
    BY <1>1 DEF Tallies, Open, AmountAfter
  <1>2. CASE l \notin DOMAIN t.open
    <2>1. l \notin Touched(t)
      BY <1>2 DEF Touched
    <2>2. Matched(MatchesAfter(t), l) = Matched(matches, l)
      BY <2>1, TouchedAlone DEF Tallies
    <2>3. l \in Lines /\ residual[l] \in Nat /\ residual[l] = amount[l] - Matched(matches, l)
      BY DEF Balanced, Posted
    <2>4. QED
      BY <1>2, <2>2, <2>3 DEF Open
  <1>3. QED
    BY <1>1, <1>2

(* A match is of lines that are there.                                     *)
LEMMA SidesPosted ==
  ASSUME Balanced, NEW m \in matches
  PROVE  Sides(m) \subseteq Posted
  <1>1. m \in MatchRows /\ Sides(m) \subseteq Lines
    BY MatchRowFields DEF Balanced
  <1>2. \A l \in Sides(m) : Touching(matches, l) # {}
    BY DEF Touching
  <1>3. QED
    BY <1>1, <1>2 DEF Balanced

-----------------------------------------------------------------------------
(* Steps that write no table.                                              *)

LEMMA StepOfOneOpen ==
  ASSUME Inv, OpenInv, NEW s \in Sessions, NEW t, Start(s, t), UNCHANGED rows, Locked(t), Tallies(t),
         \A r \in Sessions \ {s} : t.made \cap tx[r].made = {}
  PROVE  OpenInv'
  <1>1. /\ tx'[s] = t /\ \A r \in Sessions \ {s} : tx'[r] = tx[r]
    BY TypesOf
  <1>2. amount' = amount /\ residual' = residual /\ matches' = matches
    BY DEF rows
  <1>3. Balanced'
    BY <1>2 DEF OpenInv, Balanced, Posted, Touching, Matched
  <1>4. MadeApart'
    BY <1>1 DEF OpenInv, MadeApart
  <1>5. ASSUME NEW u, Tallies(u) PROVE Tallies(u)'
    BY <1>2, <1>5 DEF Tallies, Posted, AmountAfter, MatchesAfter, Matched, Touching, Touched
  <1>6. ASSUME NEW r \in Sessions PROVE (Locked(tx[r]) /\ Tallies(tx[r]))'
    <2>1. PICK u : u = tx'[r]
      OBVIOUS
    <2>2. Locked(u) /\ Tallies(u)
      BY <1>1, <2>1 DEF OpenInv
    <2>3. Tallies(u)'
      BY <1>5, <2>2
    <2>4. Tallies(tx[r])'
      BY <2>1, <2>3
    <2>5. Locked(tx[r])'
      BY <2>1, <2>2
    <2>6. QED
      BY <2>4, <2>5
  <1>7. QED
    BY <1>3, <1>4, <1>6 DEF OpenInv

(* A request whose work is another's, but for its locks.                   *)
AllAlike(t, u) ==
  /\ SameWork(t, u)
  /\ t.lines = u.lines /\ t.todo = u.todo /\ t.match = u.match
  /\ t.made = u.made /\ t.undone = u.undone

LEMMA IdleOpen == Locked(Idle) /\ Tallies(Idle)
  <1>1. Locked(Idle)
    BY ShortQueues DEF Locked, Idle, IsQueue, Touched
  <1>2. Tallies(Idle)
    BY FS_EmptySet DEF Tallies, Idle, Touched
  <1>3. QED
    BY <1>1, <1>2

LEMMA AbortOpen ==
  ASSUME Inv, OpenInv, NEW s \in Sessions, Abort(s)
  PROVE  OpenInv'
  <1>1. Start(s, Idle) /\ UNCHANGED rows /\ Idle.made = {}
    BY DEF Abort, Idle
  <1>2. QED
    BY <1>1, IdleOpen, StepOfOneOpen

LEMMA AcquireOpen ==
  ASSUME Inv, OpenInv, NEW s \in Sessions, Acquire(s)
  PROVE  OpenInv'
  <1> DEFINE head == Head(tx[s].queue)
             t == [tx[s] EXCEPT !.held = @ \cup {head}, !.queue = Tail(@)]
  <1>1. /\ Start(s, t) /\ UNCHANGED rows /\ IsRequest(tx[s]) /\ tx[s].queue # <<>>
        /\ Locked(tx[s]) /\ Tallies(tx[s])
    BY TypesOf DEF Acquire, OpenInv
  <1>2. /\ t.held = tx[s].held \cup {head} /\ t.queue = Tail(tx[s].queue)
        /\ AllAlike(t, tx[s])
    BY <1>1 DEF AllAlike, SameWork, IsRequest
  <1>3. IsQueue(tx[s].queue)
    BY <1>1 DEF Locked, IsQueue
  <1>4. IsQueue(t.queue) /\ Range(tx[s].queue) = {head} \cup Range(t.queue)
    BY <1>1, <1>2, <1>3, QueueTail
  <1> HIDE DEF t
  <1>5. Asks(t) = Asks(tx[s]) /\ tx[s].held \subseteq t.held
    BY <1>2, <1>4 DEF Asks
  <1>6. Locked(t)
    BY <1>1, <1>2, <1>4, <1>5 DEF Locked, AllAlike, SameWork, IsQueue, Touched
  <1>7. Tallies(t)
    BY <1>1, <1>2 DEF Tallies, AllAlike, SameWork, Touched, AmountAfter, MatchesAfter
  <1>8. \A r \in Sessions \ {s} : t.made \cap tx[r].made = {}
    BY <1>2 DEF AllAlike, OpenInv, MadeApart
  <1>9. QED
    BY <1>1, <1>6, <1>7, <1>8, StepOfOneOpen

-----------------------------------------------------------------------------
(* Requests begin.                                                         *)

(* A request that has written nothing.                                     *)
Fresh(t) == t.open = <<>> /\ t.made = {} /\ t.undone = {} /\ t.opens = None /\ t.held = {}

LEMMA FreshOpen ==
  ASSUME Inv, OpenInv, NEW s \in Sessions, NEW t, Start(s, t), UNCHANGED rows,
         Fresh(t), IsQueue(t.queue), t.pc \in {"match", "update", "delete", "post", "undoing"},
         t.pc = "match" => t.lines \subseteq Posted /\ \A l \in t.lines : LineLock(l) \in Range(t.queue),
         t.pc = "undoing" => \A m \in t.todo : MatchLock(m) \in Range(t.queue)
  PROVE  OpenInv'
  <1>1. DOMAIN t.open = {} /\ Touched(t) = {}
    BY DEF Fresh, Touched
  <1>2. Locked(t)
    BY <1>1 DEF Locked, Fresh, IsQueue, Asks
  <1>3. IsFiniteSet({})
    BY FS_EmptySet
  <1>4. Tallies(t)
    BY <1>1, <1>3 DEF Tallies, Fresh
  <1>5. \A r \in Sessions \ {s} : t.made \cap tx[r].made = {}
    BY DEF Fresh
  <1>6. QED
    BY <1>2, <1>4, <1>5, StepOfOneOpen

LEMMA BeginPaymentOpen ==
  ASSUME Inv, OpenInv, NEW s \in Sessions, NEW p, NEW a, NEW memo,
         BeginUpdate(s, p, a, memo) \/ BeginDelete(s, p) \/ BeginPost(s, p)
  PROVE  OpenInv'
  <1>1. CASE BeginUpdate(s, p, a, memo)
    <2> DEFINE lock == PaymentLock(p)
               t == [Idle EXCEPT !.pc = "update", !.payment = p, !.amount = a, !.memo = memo, !.queue = <<lock>>]
    <2>1. Start(s, t) /\ UNCHANGED rows
      BY <1>1 DEF BeginUpdate, PaymentLock
    <2> HIDE DEF lock
    <2>2. Fresh(t) /\ t.queue = <<lock>> /\ t.pc = "update"
      BY DEF Fresh, Idle
    <2> HIDE DEF t
    <2>3. IsQueue(t.queue) /\ t.pc \notin {"match", "undoing"}
      BY <2>2, ShortQueues
    <2>4. QED
      BY <2>1, <2>2, <2>3, FreshOpen
  <1>2. CASE BeginDelete(s, p)
    <2> DEFINE lock == PaymentLock(p)
               t == [Idle EXCEPT !.pc = "delete", !.payment = p, !.queue = <<lock>>]
    <2>1. Start(s, t) /\ UNCHANGED rows
      BY <1>2 DEF BeginDelete, PaymentLock
    <2> HIDE DEF lock
    <2>2. Fresh(t) /\ t.queue = <<lock>> /\ t.pc = "delete"
      BY DEF Fresh, Idle
    <2> HIDE DEF t
    <2>3. IsQueue(t.queue) /\ t.pc \notin {"match", "undoing"}
      BY <2>2, ShortQueues
    <2>4. QED
      BY <2>1, <2>2, <2>3, FreshOpen
  <1>3. CASE BeginPost(s, p)
    <2> DEFINE lock == SourceLock(p)
               was == payment[p].amount
               t == [Idle EXCEPT !.pc = "post", !.payment = p, !.amount = was, !.queue = <<Counter, lock>>]
    <2>1. Start(s, t) /\ UNCHANGED rows
      BY <1>3 DEF BeginPost, Counter, SourceLock
    <2> HIDE DEF lock, was
    <2>2. Fresh(t) /\ t.queue = <<Counter, lock>> /\ t.pc = "post"
      BY DEF Fresh, Idle
    <2> HIDE DEF t
    <2>3. IsQueue(t.queue) /\ t.pc \notin {"match", "undoing"}
      <3>1. IsQueue(<<Counter, lock>>)
        BY ShortQueues
      <3>2. QED
        BY <2>2, <3>1
    <2>4. QED
      BY <2>1, <2>2, <2>3, FreshOpen
  <1>4. QED
    BY <1>1, <1>2, <1>3

LEMMA BeginMatchOpen ==
  ASSUME Inv, OpenInv, NEW s \in Sessions, NEW lines \in SUBSET Lines, NEW take,
         BeginMatch(s, lines, take)
  PROVE  OpenInv'
  <1> PICK queue : queue = LinesOf(lines)
    OBVIOUS
  <1> DEFINE t == [Idle EXCEPT !.pc = "match", !.lines = lines, !.amount = take, !.queue = queue]
  <1>1. Start(s, t) /\ UNCHANGED rows /\ lines \subseteq Posted
    BY DEF BeginMatch, Posted
  <1>2. IsFiniteSet(lines) /\ lines \subseteq Nat
    BY LinesAreIds
  <1>3. IsQueue(queue) /\ \A l \in lines : LineLock(l) \in Range(queue)
    BY <1>2, RowsInOrder DEF LinesOf, LineLock
  <1>4. Fresh(t) /\ t.queue = queue /\ t.pc = "match" /\ t.lines = lines
    BY DEF Fresh, Idle
  <1> HIDE DEF t
  <1>5. QED
    BY <1>1, <1>3, <1>4, FreshOpen

LEMMA BeginUnmatchOpen ==
  ASSUME Inv, OpenInv, NEW s \in Sessions, NEW m, BeginUnmatch(s, m)
  PROVE  OpenInv'
  <1> PICK lock : lock = MatchLock(m)
    OBVIOUS
  <1> DEFINE t == [Idle EXCEPT !.pc = "undoing", !.todo = {m}, !.queue = <<lock>>]
  <1>1. Start(s, t) /\ UNCHANGED rows
    BY DEF BeginUnmatch, MatchLock
  <1>2. Fresh(t) /\ t.queue = <<lock>> /\ t.pc = "undoing" /\ t.todo = {m}
    BY DEF Fresh, Idle
  <1> HIDE DEF t
  <1>3. QED
    BY <1>1, <1>2, ShortQueues, FreshOpen

LEMMA BeginCancelOpen ==
  ASSUME Inv, OpenInv, NEW s \in Sessions, NEW p, BeginCancel(s, p)
  PROVE  OpenInv'
  <1> PICK found : found = {m \in matches : p \in Sides(m)}
    OBVIOUS
  <1> PICK locks : locks = {MatchLock(m) : m \in found}
    OBVIOUS
  <1>1. PICK order \in SetToSeqs(locks) :
          Start(s, [Idle EXCEPT !.pc = "undoing", !.payment = p, !.todo = found, !.queue = order])
    BY DEF BeginCancel, MatchLock
  <1> DEFINE t == [Idle EXCEPT !.pc = "undoing", !.payment = p, !.todo = found, !.queue = order]
  <1>2. Start(s, t) /\ UNCHANGED rows
    BY <1>1 DEF BeginCancel
  <1>3. Fresh(t) /\ t.queue = order /\ t.pc = "undoing" /\ t.todo = found
    BY DEF Fresh, Idle
  <1> HIDE DEF t
  <1>4. IsFiniteSet(locks)
    <2>1. IsFiniteSet(found)
      BY FS_Subset DEF OpenInv, Balanced
    <2>2. PICK f : f = [m \in found |-> MatchLock(m)]
      OBVIOUS
    <2>3. f \in Surjection(found, locks)
      BY <2>2 DEF Surjection
    <2>4. QED
      BY <2>1, <2>3, FS_Surjection
  <1>5. IsQueue(order) /\ \A m \in found : MatchLock(m) \in Range(order)
    BY <1>4, RowsInSomeOrder
  <1>6. QED
    BY <1>2, <1>3, <1>5, FreshOpen

-----------------------------------------------------------------------------
(* Requests about payments go on.                                          *)

LEMMA HereOpen ==
  ASSUME Inv, OpenInv, NEW s \in Sessions, NEW here, At(s, here)
  PROVE  /\ tx[s].pc = here /\ IsRequest(tx[s]) /\ Knows(s)
         /\ Locked(tx[s]) /\ Tallies(tx[s]) /\ Asks(tx[s]) = tx[s].held
         /\ \A l : Awaits(s, l) => Holds(s, l)
         /\ \A r \in Sessions \ {s} : tx[s].made \cap tx[r].made = {}
  <1>1. tx[s].queue = <<>> /\ Range(<<>>) = {}
    BY ShortQueues DEF At
  <1>2. Asks(tx[s]) = tx[s].held
    BY <1>1 DEF Asks
  <1>3. QED
    BY <1>2, Here DEF OpenInv, MadeApart

(* A step that ends in what is committed next, or in a question for other  *)
(* locks, and leaves what was written.                                     *)
LEMMA GoOnOpen ==
  ASSUME Inv, OpenInv, NEW s \in Sessions, NEW here, At(s, here), NEW t, Start(s, t), UNCHANGED rows,
         IsQueue(t.queue), t.held = tx[s].held, t.opens = tx[s].opens, t.open = tx[s].open,
         t.made = tx[s].made, t.undone = tx[s].undone, t.todo = tx[s].todo,
         t.pc \in {"commit", "reverse"}, here \notin {"matched", "commit"}
  PROVE  OpenInv'
  <1>1. tx[s].pc = here /\ Locked(tx[s]) /\ Tallies(tx[s])
        /\ \A r \in Sessions \ {s} : tx[s].made \cap tx[r].made = {}
    BY HereOpen
  <1>2. Locked(t)
    BY <1>1 DEF Locked, IsQueue, Touched
  <1>3. Tallies(t)
    BY <1>1 DEF Tallies, Touched, AmountAfter, MatchesAfter
  <1>4. QED
    BY <1>1, <1>2, <1>3, StepOfOneOpen

LEMMA StampOpen ==
  ASSUME Inv, OpenInv, NEW s \in Sessions, Update(s) \/ Delete(s) \/ StampPosted(s) \/ StampCancelled(s)
  PROVE  OpenInv'
  <1>1. CASE ~Abort(s)
    <2>1. PICK row, here :
            /\ At(s, here) /\ here \notin {"matched", "commit"} /\ UNCHANGED rows
            /\ Start(s, [[tx[s] EXCEPT !.row = row] EXCEPT !.pc = "commit", !.queue = <<>>])
      <3>1. CASE Update(s)
        BY <1>1, <3>1 DEF Update, Goto, Start
      <3>2. CASE Delete(s)
        BY <1>1, <3>2 DEF Delete, Goto, Start
      <3>3. CASE StampPosted(s)
        BY <1>1, <3>3 DEF StampPosted, Goto, Start
      <3>4. CASE StampCancelled(s)
        BY <1>1, <3>4 DEF StampCancelled, Goto, Start
      <3>5. QED
        BY <3>1, <3>2, <3>3, <3>4
    <2> DEFINE t == [[tx[s] EXCEPT !.row = row] EXCEPT !.pc = "commit", !.queue = <<>>]
    <2>2. Start(s, t) /\ IsRequest(tx[s])
      BY <2>1, TypesOf
    <2>3. /\ t.queue = <<>> /\ t.held = tx[s].held /\ t.opens = tx[s].opens /\ t.open = tx[s].open
          /\ t.made = tx[s].made /\ t.undone = tx[s].undone /\ t.todo = tx[s].todo /\ t.pc = "commit"
      BY <2>2 DEF IsRequest
    <2> HIDE DEF t
    <2>4. IsQueue(t.queue)
      BY <2>3, ShortQueues
    <2>5. QED
      BY <2>1, <2>2, <2>3, <2>4, GoOnOpen
  <1>2. QED
    BY <1>1, AbortOpen

(* A request opens a line that is not there, of which nothing is matched.  *)
LEMMA OpensLine ==
  ASSUME Inv, OpenInv, NEW s \in Sessions, NEW here, At(s, here), NEW t, Start(s, t), UNCHANGED rows,
         IsQueue(t.queue), t.held = tx[s].held,
         NEW l \in Lines \ Posted, NEW a \in Amounts, tx[s].opens = None,
         t.opens = l, DOMAIN t.open = DOMAIN tx[s].open \cup {l}, t.open[l] = a,
         \A k \in DOMAIN tx[s].open \ {l} : t.open[k] = tx[s].open[k],
         t.made = tx[s].made, t.undone = tx[s].undone, t.todo = tx[s].todo,
         \E p \in Payments : \/ l = p /\ SourceLock(p) \in t.held
                             \/ l = Reversal(p) /\ EntryLock(p) \in t.held,
         t.pc \in {"stamp", "cancel"}, here \notin {"matched", "commit"}
  PROVE  OpenInv'
  <1> DEFINE u == tx[s]
  <1>1. u.pc = here /\ Locked(u) /\ Tallies(u) /\ \A r \in Sessions \ {s} : u.made \cap tx[r].made = {}
    BY HereOpen
  <1>2. l # None /\ a \in Nat
    BY LineIds, LinesAreIds
  <1> HIDE DEF u
  <1>3. /\ Touched(u) = DOMAIN u.open /\ DOMAIN u.open \subseteq Posted
    <2>1. u.opens = None /\ None \notin DOMAIN u.open
      BY <1>1, LineIds DEF Tallies, u
    <2>2. QED
      BY <1>1, <2>1 DEF Touched, Tallies
  <1>4. /\ DOMAIN t.open = DOMAIN u.open \cup {l} /\ t.open[l] = a
        /\ \A k \in DOMAIN u.open : t.open[k] = u.open[k]
    BY <1>3 DEF u
  <1>5. Touched(t) = Touched(u) /\ u.opens = None /\ MatchesAfter(t) = MatchesAfter(u)
    BY <1>3, <1>4 DEF Touched, MatchesAfter, u
  <1>6. u.held = t.held /\ t.made = u.made /\ t.undone = u.undone /\ t.todo = u.todo
    BY DEF u
  <1>7. Locked(t)
    BY <1>1, <1>5, <1>6 DEF Locked, IsQueue
  <1>8. Matched(MatchesAfter(t), l) = 0
    <2>1. Touching(matches, l) = {}
      BY DEF OpenInv, Balanced
    <2>2. l \notin Touched(t) /\ \A m \in t.made \cup t.undone : Sides(m) \subseteq Touched(t)
      BY <1>1, <1>3, <1>5, <1>6 DEF Tallies
    <2>3. QED
      BY <2>1, <2>2, TouchedAlone, MatchedNone
  <1>9. ASSUME NEW k \in DOMAIN t.open
        PROVE  t.open[k] \in Nat /\ t.open[k] = AmountAfter(t, k) - Matched(MatchesAfter(t), k)
    <2>1. CASE k = l
      BY <1>2, <1>4, <1>8, <2>1 DEF AmountAfter
    <2>2. CASE k # l
      <3>1. k \in DOMAIN u.open /\ k # u.opens
        BY <1>3, <1>4, <1>5, <2>2, LineIds DEF Posted
      <3>2. u.open[k] \in Nat /\ u.open[k] = AmountAfter(u, k) - Matched(MatchesAfter(u), k)
        BY <1>1, <3>1 DEF Tallies
      <3>3. AmountAfter(t, k) = AmountAfter(u, k)
        BY <2>2, <3>1 DEF AmountAfter
      <3>4. QED
        BY <1>4, <1>5, <3>1, <3>2, <3>3
    <2>3. QED
      BY <2>1, <2>2
  <1>10. Tallies(t)
    <2>1. Tallies(u) /\ u.pc \notin {"matched", "commit"}
      BY <1>1
    <2>2. DOMAIN t.open \subseteq Lines /\ t.opens \in DOMAIN t.open \ Posted
      BY <1>3, <1>4 DEF Posted
    <2>3. QED
      BY <1>3, <1>5, <1>6, <1>9, <2>1, <2>2 DEF Tallies
  <1>11. QED
    BY <1>1, <1>6, <1>7, <1>10, StepOfOneOpen

LEMMA InsertEntryOpen ==
  ASSUME Inv, OpenInv, NEW s \in Sessions, InsertEntry(s)
  PROVE  OpenInv'
  <1>1. CASE ~Abort(s)
    <2> PICK p : p = tx[s].payment
      OBVIOUS
    <2> DEFINE lock == PaymentLock(p)
               open == [l \in {p} |-> tx[s].amount]
               t == [[tx[s] EXCEPT !.opens = p, !.open = open] EXCEPT !.pc = "stamp", !.queue = <<lock>>]
    <2>1. Start(s, t) /\ UNCHANGED rows /\ At(s, "post") /\ amount[p] = None
      BY <1>1 DEF InsertEntry, Goto, Start, PaymentLock
    <2>2. /\ tx[s].pc = "post" /\ IsRequest(tx[s]) /\ Knows(s) /\ Tallies(tx[s])
          /\ Awaits(s, SourceLock(p)) => Holds(s, SourceLock(p))
      BY <2>1, HereOpen
    <2>3. /\ p \in Payments /\ tx[s].amount \in Amounts /\ tx[s].opens = None
          /\ Holds(s, SourceLock(p)) /\ DOMAIN tx[s].open = {}
      BY <2>2 DEF Knows, Tallies
    <2>4. DOMAIN open = DOMAIN tx[s].open \cup {p} /\ open[p] = tx[s].amount
      BY <2>3
    <2> HIDE DEF lock, open
    <2>5. /\ t.pc = "stamp" /\ t.opens = p /\ t.open = open /\ t.held = tx[s].held
          /\ t.queue = <<lock>> /\ t.made = tx[s].made /\ t.undone = tx[s].undone /\ t.todo = tx[s].todo
      BY <2>2 DEF IsRequest
    <2> HIDE DEF t
    <2>6. IsQueue(t.queue)
      <3>1. IsQueue(<<lock>>)
        BY ShortQueues
      <3>2. QED
        BY <2>5, <3>1
    <2>7. p \in Lines \ Posted
      BY <2>1, <2>3, LineIds DEF Posted
    <2>8. \E q \in Payments : \/ p = q /\ SourceLock(q) \in t.held
                              \/ p = Reversal(q) /\ EntryLock(q) \in t.held
      BY <2>3, <2>5 DEF Holds
    <2>9. /\ tx[s].amount \in Amounts /\ tx[s].opens = None /\ t.opens = p
          /\ DOMAIN t.open = DOMAIN tx[s].open \cup {p} /\ t.open[p] = tx[s].amount
          /\ t.pc \in {"stamp", "cancel"}
          /\ \A k \in DOMAIN tx[s].open \ {p} : t.open[k] = tx[s].open[k]
          /\ t.held = tx[s].held /\ t.made = tx[s].made /\ t.undone = tx[s].undone /\ t.todo = tx[s].todo
      BY <2>3, <2>4, <2>5
    <2> HIDE DEF lock, open, t
    <2>10. QED
      BY <2>1, <2>6, <2>7, <2>8, <2>9, OpensLine
  <1>2. QED
    BY <1>1, AbortOpen

LEMMA ReverseEntryOpen ==
  ASSUME Inv, OpenInv, NEW s \in Sessions, ReverseEntry(s)
  PROVE  OpenInv'
  <1>1. CASE ~Abort(s)
    <2> PICK p : p = tx[s].payment
      OBVIOUS
    <2> PICK r : r = Reversal(p)
      OBVIOUS
    <2> DEFINE lock == PaymentLock(p)
               open == Writes(tx[s], [l \in {r} |-> amount[p]])
               t == [[tx[s] EXCEPT !.opens = r, !.open = open]
                       EXCEPT !.pc = "cancel", !.queue = <<Counter, lock>>]
    <2>1. Start(s, t) /\ UNCHANGED rows /\ At(s, "reverse") /\ amount[r] = None
      BY <1>1 DEF ReverseEntry, Goto, Start, PaymentLock, Counter
    <2>2. /\ tx[s].pc = "reverse" /\ IsRequest(tx[s]) /\ Knows(s)
          /\ Awaits(s, EntryLock(p)) => Holds(s, EntryLock(p))
      BY <2>1, HereOpen
    <2>3. /\ p \in Payments /\ payment[p].state \in {"posted", "cancelled"}
          /\ tx[s].opens = None /\ Holds(s, EntryLock(p))
      BY <2>2 DEF Knows
    <2>4. amount[p] \in Amounts
      <3>1. amount[p] # None
        BY <2>3 DEF Inv, EntriesFollowState
      <3>2. QED
        BY <2>3, <3>1, LineIds DEF Inv, Typed
    <2>5. /\ DOMAIN open = DOMAIN tx[s].open \cup {r} /\ open[r] = amount[p]
          /\ \A k \in DOMAIN tx[s].open \ {r} : open[k] = tx[s].open[k]
      BY DEF Writes
    <2> HIDE DEF lock, open
    <2>6. /\ t.pc = "cancel" /\ t.opens = r /\ t.open = open /\ t.held = tx[s].held
          /\ t.queue = <<Counter, lock>> /\ t.made = tx[s].made /\ t.undone = tx[s].undone
          /\ t.todo = tx[s].todo
      BY <2>2 DEF IsRequest
    <2> HIDE DEF t
    <2>7. IsQueue(t.queue)
      <3>1. IsQueue(<<Counter, lock>>)
        BY ShortQueues
      <3>2. QED
        BY <2>6, <3>1
    <2>8. r \in Lines \ Posted
      BY <2>1, <2>3, LineIds DEF Posted
    <2>9. \E q \in Payments : \/ r = q /\ SourceLock(q) \in t.held
                              \/ r = Reversal(q) /\ EntryLock(q) \in t.held
      BY <2>3, <2>6 DEF Holds
    <2>10. /\ tx[s].opens = None /\ t.opens = r /\ t.pc \in {"stamp", "cancel"}
           /\ DOMAIN t.open = DOMAIN tx[s].open \cup {r} /\ t.open[r] = amount[p]
           /\ \A k \in DOMAIN tx[s].open \ {r} : t.open[k] = tx[s].open[k]
           /\ t.held = tx[s].held /\ t.made = tx[s].made /\ t.undone = tx[s].undone /\ t.todo = tx[s].todo
      BY <2>3, <2>5, <2>6
    <2>11. QED
      BY <2>1, <2>4, <2>7, <2>8, <2>9, <2>10, OpensLine
  <1>2. QED
    BY <1>1, AbortOpen

-----------------------------------------------------------------------------
(* Requests take matches back.                                             *)

LEMMA NextUndoOpen ==
  ASSUME Inv, OpenInv, NEW s \in Sessions, NextUndo(s)
  PROVE  OpenInv'
  <1>1. CASE ~Abort(s)
    <2>1. /\ At(s, "undoing") /\ UNCHANGED rows
          /\ \/ \E m \in tx[s].todo \cap matches :
                  Goto(s, [tx[s] EXCEPT !.todo = tx[s].todo \cap matches, !.match = m], "undo",
                       LinesOf(Sides(m)))
             \/ Goto(s, tx[s], "reverse", <<EntryLock(tx[s].payment)>>)
             \/ Goto(s, tx[s], "commit", <<>>)
      BY <1>1 DEF NextUndo, EntryLock
    <2>2. /\ tx[s].pc = "undoing" /\ IsRequest(tx[s]) /\ Knows(s) /\ Locked(tx[s]) /\ Tallies(tx[s])
          /\ Asks(tx[s]) = tx[s].held /\ \A r \in Sessions \ {s} : tx[s].made \cap tx[r].made = {}
      BY <2>1, HereOpen
    <2>3. ASSUME NEW m \in tx[s].todo \cap matches,
                 Goto(s, [tx[s] EXCEPT !.todo = tx[s].todo \cap matches, !.match = m], "undo",
                      LinesOf(Sides(m)))
          PROVE  OpenInv'
      <3> DEFINE todo == tx[s].todo \cap matches
                 queue == LinesOf(Sides(m))
                 t == [[tx[s] EXCEPT !.todo = todo, !.match = m] EXCEPT !.pc = "undo", !.queue = queue]
      <3>1. Start(s, t)
        BY <2>3 DEF Goto, Start
      <3>2. Sides(m) \subseteq Lines
        BY MatchRowFields DEF OpenInv, Balanced
      <3>3. IsFiniteSet(Sides(m)) /\ Sides(m) \subseteq Nat
        BY <3>2, LinesAreIds
      <3>4. IsQueue(queue) /\ \A l \in Sides(m) : LineLock(l) \in Range(queue)
        BY <3>3, RowsInOrder DEF LinesOf, LineLock
      <3>5. m \in todo /\ todo \subseteq tx[s].todo /\ todo \subseteq matches
        OBVIOUS
      <3> HIDE DEF todo, queue
      <3>6. /\ t.pc = "undo" /\ t.todo = todo /\ t.match = m /\ t.queue = queue /\ t.held = tx[s].held
            /\ t.opens = tx[s].opens /\ t.open = tx[s].open /\ t.made = tx[s].made
            /\ t.undone = tx[s].undone
        BY <2>2 DEF IsRequest
      <3> HIDE DEF t
      <3>7. Locked(t)
        BY <2>2, <3>4, <3>5, <3>6 DEF Locked, IsQueue, Asks, Touched
      <3>8. Tallies(t)
        BY <2>2, <3>5, <3>6 DEF Tallies, Touched, AmountAfter, MatchesAfter
      <3>9. QED
        BY <2>1, <2>2, <3>1, <3>6, <3>7, <3>8, StepOfOneOpen
    <2>4. ASSUME NEW pc \in {"reverse", "commit"}, NEW queue, IsQueue(queue), Goto(s, tx[s], pc, queue)
          PROVE  OpenInv'
      <3> DEFINE t == [tx[s] EXCEPT !.pc = pc, !.queue = queue]
      <3>1. Start(s, t)
        BY <2>4 DEF Goto, Start
      <3>2. /\ t.pc = pc /\ t.queue = queue /\ t.held = tx[s].held /\ t.opens = tx[s].opens
            /\ t.open = tx[s].open /\ t.made = tx[s].made /\ t.undone = tx[s].undone
            /\ t.todo = tx[s].todo
        BY <2>2 DEF IsRequest
      <3> HIDE DEF t
      <3>3. IsQueue(t.queue) /\ t.pc \in {"commit", "reverse"}
        BY <2>4, <3>2
      <3>4. At(s, "undoing") /\ UNCHANGED rows /\ "undoing" \notin {"matched", "commit"}
        BY <2>1
      <3>5. QED
        BY <3>1, <3>2, <3>3, <3>4, GoOnOpen
    <2>5. IsQueue(<<>>) /\ IsQueue(<<EntryLock(tx[s].payment)>>)
      BY ShortQueues
    <2>6. QED
      BY <2>1, <2>3, <2>4, <2>5
  <1>2. QED
    BY <1>1, AbortOpen

(* A request writes what is open of the two sides of a match that it makes *)
(* or takes back.                                                          *)
LEMMA SidesWritten ==
  ASSUME Inv, OpenInv, NEW u, Locked(u), Tallies(u), u.opens = None, NEW t, NEW m \in MatchRows, NEW x \in Int,
         Sides(m) \subseteq Posted, \A l \in Sides(m) : LineLock(l) \in u.held,
         t.opens = None, t.held = u.held,
         DOMAIN t.open = DOMAIN u.open \cup Sides(m),
         \A l \in Sides(m) : t.open[l] = Open(u, l) + x /\ Open(u, l) + x >= 0,
         \A l \in DOMAIN u.open \ Sides(m) : t.open[l] = u.open[l],
         \A l \in Sides(m) : Matched(MatchesAfter(t), l) = Matched(MatchesAfter(u), l) - x,
         \A l : l \notin Sides(m) => Touching(MatchesAfter(t), l) = Touching(MatchesAfter(u), l)
  PROVE  /\ Touched(t) = Touched(u) \cup Sides(m) /\ Touched(t) \subseteq Posted
         /\ DOMAIN t.open \subseteq Lines
         /\ \A l \in Touched(t) : LineLock(l) \in t.held
         /\ \A l \in DOMAIN t.open :
              t.open[l] \in Nat /\ t.open[l] = AmountAfter(t, l) - Matched(MatchesAfter(t), l)
  <1>1. None \notin Lines /\ DOMAIN u.open \subseteq Lines /\ Posted \subseteq Lines
    BY LineIds DEF Tallies, Posted
  <1>2. /\ Touched(t) = DOMAIN t.open /\ Touched(u) = DOMAIN u.open /\ DOMAIN t.open \subseteq Lines
    BY <1>1 DEF Touched
  <1>3. Touched(t) \subseteq Posted /\ \A l \in Touched(t) : LineLock(l) \in t.held
    BY <1>2 DEF Tallies, Locked
  <1>4. ASSUME NEW l \in DOMAIN t.open
        PROVE  t.open[l] \in Nat /\ t.open[l] = AmountAfter(t, l) - Matched(MatchesAfter(t), l)
    <2>1. AmountAfter(t, l) = amount[l] /\ AmountAfter(u, l) = amount[l] /\ l \in Posted
      BY <1>1, <1>2, <1>3 DEF AmountAfter
    <2>2. CASE l \in Sides(m)
      <3>1. Open(u, l) \in Nat /\ Open(u, l) = amount[l] - Matched(MatchesAfter(u), l)
        BY <1>1, <2>1, <2>2, OpenNow DEF OpenInv
      <3>2. Matched(MatchesAfter(u), l) \in Nat
        BY AfterRows DEF OpenInv
      <3>3. amount[l] \in Int
        BY <2>1, LinesAreIds DEF Inv, Typed, Posted
      <3>4. QED
        BY <2>1, <2>2, <3>1, <3>2, <3>3
    <2>3. CASE l \notin Sides(m)
      <3>1. l \in DOMAIN u.open /\ t.open[l] = u.open[l]
        BY <2>3
      <3>2. Matched(MatchesAfter(t), l) = Matched(MatchesAfter(u), l)
        BY <2>3, MatchedSame
      <3>3. QED
        BY <2>1, <3>1, <3>2 DEF Tallies
    <2>4. QED
      BY <2>2, <2>3
  <1>5. QED
    BY <1>2, <1>3, <1>4

(* What a request asks for after it has written both sides of a match.     *)
LEMMA FlushQueues ==
  ASSUME NEW m, NEW ids \in SUBSET Lines
  PROVE  IsQueue(Difference(m) \o EntriesOf(ids)) /\ IsQueue(EntriesOf(ids) \o Difference(m))
  <1>1. IsQueue(Difference(m))
    <2>1. IsQueue(<<>>) /\ IsQueue(<<<<"counter", 1>>>>)
      BY ShortQueues
    <2>2. QED
      BY <2>1 DEF Difference
  <1>2. IsQueue(EntriesOf(ids))
    BY LinesAreIds, RowsInOrder DEF EntriesOf
  <1>3. QED
    BY <1>1, <1>2, QueueJoined

LEMMA UndoOpen ==
  ASSUME Inv, OpenInv, NEW s \in Sessions, Undo(s)
  PROVE  OpenInv'
  <1> PICK u : u = tx[s]
    OBVIOUS
  <1> PICK m : m = u.match
    OBVIOUS
  <1> DEFINE todo == u.todo \ {m}
             undone == u.undone \cup {m}
             open == Writes(u, [l \in Sides(m) |-> Open(u, l) + m.amount])
             queue == Difference(m) \o EntriesOf(Sides(m))
             t == [[u EXCEPT !.todo = todo, !.match = None, !.undone = undone, !.open = open]
                     EXCEPT !.pc = "undoing", !.queue = queue]
  <1>1. Start(s, t) /\ UNCHANGED rows /\ At(s, "undo")
    BY DEF Undo, Goto, Start
  <1>2. /\ u.pc = "undo" /\ IsRequest(u) /\ Locked(u) /\ Tallies(u) /\ Asks(u) = u.held
        /\ Knows(s) /\ \A r \in Sessions \ {s} : u.made \cap tx[r].made = {}
    BY <1>1, HereOpen
  <1>3. /\ m \in matches /\ m \in u.todo /\ u.made = {} /\ u.opens = None
        /\ u.undone \subseteq matches \ u.todo
        /\ (\A k \in u.todo : MatchLock(k) \in u.held) /\ (\A l \in Sides(m) : LineLock(l) \in u.held)
    BY <1>2 DEF Locked, Tallies, Knows
  <1>4. m \in MatchRows /\ Sides(m) \subseteq Posted /\ Sides(m) \subseteq Lines
    BY <1>3, SidesPosted, MatchRowFields DEF OpenInv, Balanced
  <1>5. m.amount \in Nat
    BY <1>4, MatchRowFields
  <1>6. IsQueue(queue)
    BY <1>4, FlushQueues
  <1>7. /\ DOMAIN open = DOMAIN u.open \cup Sides(m)
        /\ \A l \in Sides(m) : open[l] = Open(u, l) + m.amount
        /\ \A l \in DOMAIN u.open \ Sides(m) : open[l] = u.open[l]
    BY DEF Writes
  <1> HIDE DEF open, queue
  <1>8. /\ t.pc = "undoing" /\ t.queue = queue /\ t.held = u.held /\ t.todo = todo /\ t.undone = undone
        /\ t.made = {} /\ t.opens = None /\ t.open = open
    BY <1>2, <1>3 DEF IsRequest
  <1> HIDE DEF t
  <1>9. MatchesAfter(t) = MatchesAfter(u) \ {m} /\ m \in MatchesAfter(u)
    BY <1>3, <1>8 DEF MatchesAfter
  <1>10. \A l \in Sides(m) : Matched(MatchesAfter(t), l) = Matched(MatchesAfter(u), l) - m.amount
    <2>1. IsFiniteSet(MatchesAfter(u)) /\ \A k \in MatchesAfter(u) : k.amount \in Nat
      BY <1>2, AfterRows DEF OpenInv
    <2>2. QED
      BY <1>9, <2>1, MatchedLess
  <1>11. \A l : l \notin Sides(m) => Touching(MatchesAfter(t), l) = Touching(MatchesAfter(u), l)
    BY <1>9 DEF Touching
  <1>12. \A l \in Sides(m) : Open(u, l) + m.amount >= 0
    <2>1. \A l \in Sides(m) : l # u.opens
      BY <1>3, <1>4, LineIds
    <2>2. \A l \in Sides(m) : Open(u, l) \in Nat
      BY <1>2, <1>4, <2>1, OpenNow DEF OpenInv
    <2>3. QED
      BY <1>5, <2>2
  <1>13. /\ Touched(t) = Touched(u) \cup Sides(m) /\ Touched(t) \subseteq Posted
         /\ DOMAIN t.open \subseteq Lines
         /\ \A l \in Touched(t) : LineLock(l) \in t.held
         /\ \A l \in DOMAIN t.open :
              t.open[l] \in Nat /\ t.open[l] = AmountAfter(t, l) - Matched(MatchesAfter(t), l)
    <2>1. m.amount \in Int
      BY <1>5
    <2>2. QED
      BY <1>2, <1>3, <1>4, <1>7, <1>8, <1>10, <1>11, <1>12, <2>1, SidesWritten
  <1>14. Locked(t)
    BY <1>2, <1>3, <1>6, <1>8, <1>13 DEF Locked, IsQueue, Asks
  <1>15. Tallies(t)
    <2>1. t.undone \subseteq matches \ t.todo
      BY <1>3, <1>8
    <2>2. \A k \in t.made \cup t.undone : Sides(k) \subseteq Touched(t)
      BY <1>2, <1>8, <1>13 DEF Tallies
    <2>3. IsFiniteSet({})
      BY FS_EmptySet
    <2>4. QED
      BY <1>8, <1>13, <2>1, <2>2, <2>3 DEF Tallies
  <1>16. QED
    BY <1>1, <1>8, <1>14, <1>15, StepOfOneOpen

-----------------------------------------------------------------------------
(* Requests make matches.                                                  *)

(* The id of a match that is made is nobody's.                             *)
LEMMA NewId ==
  ASSUME MatchIds \ UsedIds # {}, NEW m, m.id = NextId
  PROVE  m.id \in MatchIds /\ m \notin matches /\ \A r \in Sessions : m \notin tx[r].made
  <1>1. MatchIds \ UsedIds \in SUBSET Nat
    BY SettlementAssumption
  <1>2. \E i \in MatchIds \ UsedIds : \A k \in MatchIds \ UsedIds : i <= k
    BY <1>1, NatMin
  <1>3. NextId \in MatchIds \ UsedIds
    BY <1>2 DEF NextId
  <1>4. QED
    BY <1>3 DEF UsedIds

LEMMA MatchOpen ==
  ASSUME Inv, OpenInv, NEW s \in Sessions, Match(s)
  PROVE  OpenInv'
  <1>1. CASE ~Abort(s)
    <2> PICK u : u = tx[s]
      OBVIOUS
    <2>1. /\ At(s, "match") \/ At(s, "matched")
          /\ UNCHANGED rows
      BY <1>1 DEF Match
    <2>2. PICK d, c, take :
            /\ <<d, c>> \in NextPairs(u)
            /\ \/ u.amount = None /\ take = Smaller(Open(u, d), Open(u, c))
               \/ take \in 1..Smaller(Open(u, d), Open(u, c))
            /\ Settle(s, u, d, c, take)
      <3>1. PICK pair \in NextPairs(u) :
              \/ /\ u.amount = None
                 /\ Settle(s, u, pair[1], pair[2], Smaller(Open(u, pair[1]), Open(u, pair[2])))
              \/ /\ u.amount \in 1..Smaller(Open(u, pair[1]), Open(u, pair[2]))
                 /\ Settle(s, u, pair[1], pair[2], u.amount)
        BY <1>1 DEF Match
      <3>2. pair = <<pair[1], pair[2]>>
        BY DEF NextPairs, Pairs
      <3>3. QED
        BY <3>1, <3>2
    <2>3. /\ u.pc \in {"match", "matched"} /\ IsRequest(u) /\ Locked(u) /\ Tallies(u) /\ Asks(u) = u.held
          /\ Knows(s) /\ \A r \in Sessions \ {s} : u.made \cap tx[r].made = {}
      BY <2>1, HereOpen
    <2>4. /\ u.lines \subseteq Posted /\ u.undone = {} /\ u.opens = None
          /\ \A l \in u.lines : LineLock(l) \in u.held
      BY <2>3 DEF Locked, Tallies, Knows
    <2>5. /\ d \in u.lines /\ d \in Debits /\ c \in u.lines /\ c \in Credits
          /\ Open(u, d) > 0 /\ Open(u, c) > 0
      BY <2>2 DEF NextPairs, Pairs
    <2>6. Open(u, d) \in Nat /\ Open(u, c) \in Nat
      <3>1. d # u.opens /\ c # u.opens /\ d \in Posted /\ c \in Posted
        BY <2>4, <2>5, LineIds DEF Posted
      <3>2. QED
        BY <2>3, <3>1, OpenNow DEF OpenInv
    <2>7. take \in Nat \ {0} /\ take <= Open(u, d) /\ take <= Open(u, c)
      BY <2>2, <2>5, <2>6 DEF Smaller
    <2> DEFINE m == [id |-> NextId, debit |-> d, credit |-> c, amount |-> take]
               open == Writes(u, [l \in {d, c} |-> Open(u, l) - take])
               made == u.made \cup {m}
               done == [u EXCEPT !.made = made, !.open = open]
               pc == IF Pairs(done) = {} \/ u.amount # None THEN "commit" ELSE "matched"
               queue == EntriesOf({d, c}) \o Difference(m)
               t == [done EXCEPT !.pc = pc, !.queue = queue]
    <2>8. Start(s, t) /\ MatchIds \ UsedIds # {}
      BY <2>2 DEF Settle, Goto, Start
    <2>9. m.id = NextId /\ m.debit = d /\ m.credit = c /\ m.amount = take /\ Sides(m) = {d, c}
      BY DEF Sides
    <2>10. m.id \in MatchIds /\ m \notin matches /\ \A r \in Sessions : m \notin tx[r].made
      BY <2>8, <2>9, NewId
    <2>11. m \in MatchRows
      BY <2>5, <2>7, <2>9, <2>10 DEF MatchRows
    <2>12. /\ DOMAIN open = DOMAIN u.open \cup {d, c}
           /\ \A l \in {d, c} : open[l] = Open(u, l) - take
           /\ \A l \in DOMAIN u.open \ {d, c} : open[l] = u.open[l]
      BY DEF Writes
    <2>13. pc \in {"commit", "matched"}
      OBVIOUS
    <2>14. IsQueue(queue)
      BY <2>5, FlushQueues DEF Lines
    <2> HIDE DEF m, open, pc, queue
    <2>15. /\ t.pc = pc /\ t.queue = queue /\ t.held = u.held /\ t.lines = u.lines /\ t.todo = u.todo
           /\ t.undone = {} /\ t.made = u.made \cup {m} /\ t.opens = None /\ t.open = open
      BY <2>3, <2>4 DEF IsRequest
    <2> HIDE DEF t, made, done
    <2>16. MatchesAfter(t) = MatchesAfter(u) \cup {m} /\ m \notin MatchesAfter(u)
      BY <2>4, <2>10, <2>15 DEF MatchesAfter
    <2>17. \A l \in Sides(m) : Matched(MatchesAfter(t), l) = Matched(MatchesAfter(u), l) + take
      <3>1. IsFiniteSet(MatchesAfter(u)) /\ \A k \in MatchesAfter(u) : k.amount \in Nat
        BY <2>3, AfterRows DEF OpenInv
      <3>2. m.amount \in Nat
        BY <2>7, <2>9
      <3>3. QED
        BY <2>9, <2>16, <3>1, <3>2, MatchedMore
    <2>18. \A l : l \notin Sides(m) => Touching(MatchesAfter(t), l) = Touching(MatchesAfter(u), l)
      BY <2>16 DEF Touching
    <2>19. PICK x : x = 0 - take
      OBVIOUS
    <2>20. /\ x \in Int
           /\ \A l \in Sides(m) : t.open[l] = Open(u, l) + x /\ Open(u, l) + x >= 0
           /\ \A l \in Sides(m) : Matched(MatchesAfter(t), l) = Matched(MatchesAfter(u), l) - x
      <3>1. x \in Int /\ take \in Nat
        BY <2>7, <2>19
      <3>2. ASSUME NEW l \in Sides(m) PROVE t.open[l] = Open(u, l) + x /\ Open(u, l) + x >= 0
        BY <2>6, <2>7, <2>9, <2>12, <2>15, <2>19
      <3>3. ASSUME NEW l \in Sides(m)
            PROVE  Matched(MatchesAfter(t), l) = Matched(MatchesAfter(u), l) - x
        <4>1. Matched(MatchesAfter(u), l) \in Nat
          BY <2>3, AfterRows DEF OpenInv
        <4>2. QED
          BY <2>17, <2>19, <3>1, <4>1
      <3>4. QED
        BY <3>1, <3>2, <3>3
    <2>21. /\ Touched(t) = Touched(u) \cup Sides(m) /\ Touched(t) \subseteq Posted
           /\ DOMAIN t.open \subseteq Lines
           /\ \A l \in Touched(t) : LineLock(l) \in t.held
           /\ \A l \in DOMAIN t.open :
                t.open[l] \in Nat /\ t.open[l] = AmountAfter(t, l) - Matched(MatchesAfter(t), l)
      <3>1. Sides(m) \subseteq Posted /\ \A l \in Sides(m) : LineLock(l) \in u.held
        BY <2>4, <2>5, <2>9
      <3>2. DOMAIN t.open = DOMAIN u.open \cup Sides(m) /\ \A l \in DOMAIN u.open \ Sides(m) : t.open[l] = u.open[l]
        BY <2>9, <2>12, <2>15
      <3>3. QED
        BY <2>3, <2>4, <2>11, <2>15, <2>18, <2>20, <3>1, <3>2, SidesWritten
    <2>22. Locked(t)
      BY <2>4, <2>13, <2>14, <2>15, <2>21 DEF Locked, IsQueue
    <2>23. Tallies(t)
      <3>1. t.made \subseteq MatchRows \ matches /\ IsFiniteSet(t.made)
        BY <2>3, <2>10, <2>11, <2>15, FS_AddElement DEF Tallies
      <3>2. \A k \in t.made \cup t.undone : Sides(k) \subseteq Touched(t)
        BY <2>3, <2>15, <2>21 DEF Tallies
      <3>3. QED
        BY <2>4, <2>13, <2>15, <2>21, <3>1, <3>2 DEF Tallies
    <2>24. \A r \in Sessions \ {s} : t.made \cap tx[r].made = {}
      BY <2>3, <2>10, <2>15
    <2>25. QED
      BY <2>1, <2>8, <2>22, <2>23, <2>24, StepOfOneOpen
  <1>2. QED
    BY <1>1, AbortOpen

-----------------------------------------------------------------------------
(* Requests commit.                                                        *)

LEMMA LocksApart ==
  ASSUME Inv, NEW s \in Sessions, NEW r \in Sessions, r # s
  PROVE  /\ \A l : ~(LineLock(l) \in tx[s].held /\ LineLock(l) \in tx[r].held)
         /\ \A m : ~(MatchLock(m) \in tx[s].held /\ MatchLock(m) \in tx[r].held)
         /\ \A p : ~(SourceLock(p) \in tx[s].held /\ SourceLock(p) \in tx[r].held)
         /\ \A p : ~(EntryLock(p) \in tx[s].held /\ EntryLock(p) \in tx[r].held)
  <1>1. \A l : l \in tx[s].held /\ l \in tx[r].held => l[1] = "share"
    BY DEF Inv, HeldApart
  <1>2. /\ \A l : LineLock(l)[1] = "line"
        /\ \A m : MatchLock(m)[1] = "match"
        /\ \A p : SourceLock(p)[1] = "source" /\ EntryLock(p)[1] = "entry"
    BY DEF LineLock, MatchLock, SourceLock, EntryLock
  <1>3. QED
    BY <1>1, <1>2

(* No two requests write one line: those they change they have locked, and *)
(* one that is not there is opened under the lock of its entry or of its   *)
(* entry's source.                                                         *)
LEMMA OpensApart ==
  ASSUME Inv, OpenInv, NEW s \in Sessions, NEW r \in Sessions, r # s
  PROVE  DOMAIN tx[s].open \cap DOMAIN tx[r].open = {}
  <1> PICK u : u = tx[s]
    OBVIOUS
  <1> PICK v : v = tx[r]
    OBVIOUS
  <1>1. Locked(u) /\ Tallies(u) /\ Locked(v) /\ Tallies(v)
    BY DEF OpenInv
  <1>2. SUFFICES ASSUME NEW l \in DOMAIN u.open \cap DOMAIN v.open PROVE FALSE
    OBVIOUS
  <1>3. l \in Lines /\ l # None
    BY <1>1, LineIds DEF Tallies
  <1>4. /\ l # u.opens => LineLock(l) \in u.held /\ l \in Posted
        /\ l # v.opens => LineLock(l) \in v.held /\ l \in Posted
    BY <1>1 DEF Locked, Tallies, Touched
  <1>5. /\ l = u.opens => l \notin Posted
        /\ l = v.opens => l \notin Posted
    BY <1>1, <1>3 DEF Tallies
  <1>6. l = u.opens /\ l = v.opens
    BY <1>4, <1>5, LocksApart
  <1>7. PICK p \in Payments : \/ l = p /\ SourceLock(p) \in u.held
                              \/ l = Reversal(p) /\ EntryLock(p) \in u.held
    BY <1>1, <1>3, <1>6 DEF Locked
  <1>8. PICK q \in Payments : \/ l = q /\ SourceLock(q) \in v.held
                              \/ l = Reversal(q) /\ EntryLock(q) \in v.held
    BY <1>1, <1>3, <1>6 DEF Locked
  <1>9. p = q /\ \/ SourceLock(p) \in u.held /\ SourceLock(p) \in v.held
                 \/ EntryLock(p) \in u.held /\ EntryLock(p) \in v.held
    BY <1>7, <1>8, LineIds
  <1>10. QED
    BY <1>9, LocksApart

(* What a commit leaves.                                                   *)
LEMMA CommittedRows ==
  ASSUME Inv, OpenInv, NEW s \in Sessions, Commit(s), NEW u, u = tx[s]
  PROVE  /\ Locked(u) /\ Tallies(u) /\ matches' = MatchesAfter(u)
         /\ \A l \in Lines : amount'[l] = AmountAfter(u, l) /\ residual'[l] = Open(u, l)
         /\ Posted \subseteq Posted' /\ Posted' \subseteq Posted \cup {u.opens}
         /\ \A l \in DOMAIN u.open : l \in Posted'
         /\ \A l : l \notin DOMAIN u.open =>
              /\ Touching(matches', l) = Touching(matches, l)
              /\ l \in Lines => /\ amount'[l] = amount[l] /\ residual'[l] = residual[l]
                                /\ l \in Posted' <=> l \in Posted
  <1>1. /\ amount' = [l \in Lines |-> AmountAfter(u, l)] /\ residual' = [l \in Lines |-> Open(u, l)]
        /\ matches' = MatchesAfter(u)
    BY DEF Commit
  <1>2. Locked(u) /\ Tallies(u)
    BY DEF OpenInv
  <1>3. /\ DOMAIN u.open \subseteq Lines /\ (u.opens # None => u.opens \in DOMAIN u.open \ Posted)
        /\ Touched(u) \subseteq Posted /\ \A l \in DOMAIN u.open : u.open[l] \in Nat
    BY <1>2 DEF Tallies
  <1>4. \A l \in Lines : amount'[l] = AmountAfter(u, l) /\ residual'[l] = Open(u, l)
    BY <1>1
  <1>5. \A l \in Lines : l \in Posted' <=> AmountAfter(u, l) # None
    BY <1>4 DEF Posted
  <1>6. None \notin Lines /\ None \notin Nat
    BY LineIds, LinesAreIds
  <1>7. \A l \in Lines : l \in Posted' <=> l \in Posted \/ l = u.opens
    <2>1. SUFFICES ASSUME NEW l \in Lines PROVE l \in Posted' <=> l \in Posted \/ l = u.opens
      OBVIOUS
    <2>2. CASE l = u.opens
      BY <1>3, <1>5, <1>6, <2>2 DEF AmountAfter
    <2>3. CASE l # u.opens
      BY <1>5, <2>3 DEF AmountAfter, Posted
    <2>4. QED
      BY <2>2, <2>3
  <1>8. Posted \subseteq Lines /\ Posted' \subseteq Lines
    BY DEF Posted
  <1>9. \A l \in DOMAIN u.open : l \in Posted'
    BY <1>3, <1>7 DEF Touched
  <1>10. ASSUME NEW l, l \notin DOMAIN u.open
         PROVE  /\ Touching(matches', l) = Touching(matches, l)
                /\ l \in Lines => /\ amount'[l] = amount[l] /\ residual'[l] = residual[l]
                                  /\ l \in Posted' <=> l \in Posted
    <2>1. l \notin Touched(u)
      BY <1>10 DEF Touched
    <2>2. Touching(matches', l) = Touching(matches, l)
      BY <1>1, <1>2, <2>1, TouchedAlone DEF Tallies
    <2>3. l \in Lines => l # u.opens
      BY <1>3, <1>6, <1>10
    <2>4. QED
      BY <1>4, <1>7, <1>10, <2>2, <2>3 DEF AmountAfter, Open
  <1>11. QED
    BY <1>1, <1>2, <1>4, <1>7, <1>8, <1>9, <1>10

LEMMA CommitBalances ==
  ASSUME Inv, OpenInv, NEW s \in Sessions, Commit(s)
  PROVE  Balanced'
  <1> PICK u : u = tx[s]
    OBVIOUS
  <1>1. /\ Tallies(u) /\ matches' = MatchesAfter(u)
        /\ \A l \in Lines : amount'[l] = AmountAfter(u, l) /\ residual'[l] = Open(u, l)
        /\ \A l \in DOMAIN u.open : l \in Posted'
        /\ \A l : l \notin DOMAIN u.open =>
             /\ Touching(matches', l) = Touching(matches, l)
             /\ l \in Lines => /\ amount'[l] = amount[l] /\ residual'[l] = residual[l]
                               /\ l \in Posted' <=> l \in Posted
    BY CommittedRows
  <1>2. matches' \subseteq MatchRows /\ IsFiniteSet(matches')
    BY <1>1, AfterRows DEF OpenInv
  <1>3. ASSUME NEW l \in Lines
        PROVE  IF l \in Posted'
                 THEN residual'[l] \in Nat /\ residual'[l] = amount'[l] - Matched(matches', l)
                 ELSE Touching(matches', l) = {}
    <2>1. CASE l \in DOMAIN u.open
      BY <1>1, <2>1 DEF Tallies, Open
    <2>2. CASE l \notin DOMAIN u.open
      <3>1. Matched(matches', l) = Matched(matches, l)
        BY <1>1, <2>2, MatchedSame
      <3>2. QED
        BY <1>1, <2>2, <3>1 DEF OpenInv, Balanced
    <2>3. QED
      BY <2>1, <2>2
  <1>4. QED
    BY <1>2, <1>3 DEF Balanced, Matched, Touching, MatchRows

(* What another request has written agrees with what is committed.         *)
LEMMA CommitKeepsTallies ==
  ASSUME Inv, OpenInv, NEW s \in Sessions, Commit(s), NEW r \in Sessions, r # s, NEW v, v = tx[r]
  PROVE  Tallies(v)'
  <1> PICK u : u = tx[s]
    OBVIOUS
  <1>1. /\ Locked(u) /\ Tallies(u) /\ matches' = MatchesAfter(u)
        /\ Posted \subseteq Posted' /\ Posted' \subseteq Posted \cup {u.opens}
        /\ \A l \in DOMAIN u.open : l \in Posted'
        /\ \A l : l \notin DOMAIN u.open =>
             /\ Touching(matches', l) = Touching(matches, l)
             /\ l \in Lines => amount'[l] = amount[l]
    BY CommittedRows
  <1>2. Locked(v) /\ Tallies(v) /\ u.made \cap v.made = {}
    BY DEF OpenInv, MadeApart
  <1>3. DOMAIN u.open \cap DOMAIN v.open = {}
    BY OpensApart
  <1>4. ASSUME NEW m \in matches, MatchLock(m) \in v.held PROVE m \in matches'
    <2>1. m \notin u.undone
      BY <1>1, <1>4, LocksApart DEF Locked
    <2>2. QED
      BY <1>1, <2>1 DEF MatchesAfter
  <1>5. v.undone \subseteq matches' \ v.todo
    BY <1>2, <1>4 DEF Locked, Tallies
  <1>6. v.pc = "undo" => v.match \in matches' \cap v.todo
    BY <1>2, <1>4 DEF Locked, Tallies
  <1>7. v.made \subseteq MatchRows \ matches'
    BY <1>1, <1>2 DEF Tallies, MatchesAfter
  <1>8. v.opens # None => v.opens \in DOMAIN v.open \ Posted'
    <2>1. SUFFICES ASSUME v.opens # None PROVE v.opens \in DOMAIN v.open /\ v.opens \notin Posted'
      OBVIOUS
    <2>2. v.opens \in DOMAIN v.open \ Posted
      BY <1>2, <2>1 DEF Tallies
    <2>3. v.opens # u.opens
      BY <1>1, <1>3, <2>1, <2>2 DEF Tallies
    <2>4. QED
      BY <1>1, <2>2, <2>3
  <1>9. Touched(v) \subseteq Posted' /\ (v.pc \in {"match", "matched"} => v.lines \subseteq Posted')
    BY <1>1, <1>2 DEF Tallies
  <1>10. ASSUME NEW l \in DOMAIN v.open
         PROVE  /\ v.open[l] \in Nat
                /\ v.open[l] = AmountAfter(v, l)' - Matched((matches' \ v.undone) \cup v.made, l)
    <2>1. l \notin DOMAIN u.open /\ l \in Lines
      BY <1>2, <1>3 DEF Tallies
    <2>2. AmountAfter(v, l)' = AmountAfter(v, l)
      BY <1>1, <2>1 DEF AmountAfter
    <2>3. Touching((matches' \ v.undone) \cup v.made, l) = Touching(MatchesAfter(v), l)
      <3>1. Touching(matches', l) = Touching(matches, l)
        BY <1>1, <2>1
      <3>2. QED
        BY <3>1 DEF Touching, MatchesAfter
    <2>4. Matched((matches' \ v.undone) \cup v.made, l) = Matched(MatchesAfter(v), l)
      BY <2>3, MatchedSame
    <2>5. QED
      BY <1>2, <2>2, <2>4 DEF Tallies
  <1>11. MatchesAfter(v)' = (matches' \ v.undone) \cup v.made
    BY DEF MatchesAfter
  <1>12. ASSUME NEW l \in DOMAIN v.open
         PROVE  (v.open[l] \in Nat /\ v.open[l] = AmountAfter(v, l) - Matched(MatchesAfter(v), l))'
    BY <1>10, <1>11 DEF Matched, Touching
  <1>13. QED
    BY <1>2, <1>5, <1>6, <1>7, <1>8, <1>9, <1>12 DEF Tallies, Touched, MatchRows

(* No table that OpenInv is about changes, nor any request.                *)
LEMMA SameOpen ==
  ASSUME OpenInv, amount' = amount, residual' = residual, matches' = matches, tx' = tx
  PROVE  OpenInv'
  <1>1. Balanced' /\ MadeApart'
    BY DEF OpenInv, Balanced, Posted, Touching, Matched, MadeApart
  <1>2. ASSUME NEW u, Tallies(u) PROVE Tallies(u)'
    BY <1>2 DEF Tallies, Posted, AmountAfter, MatchesAfter, Matched, Touching, Touched
  <1>3. ASSUME NEW r \in Sessions PROVE (Locked(tx[r]) /\ Tallies(tx[r]))'
    <2> PICK u : u = tx'[r]
      OBVIOUS
    <2>1. Locked(u) /\ Tallies(u)
      BY DEF OpenInv
    <2>2. Tallies(u)'
      BY <1>2, <2>1
    <2>3. QED
      BY <2>1, <2>2
  <1>4. QED
    BY <1>1, <1>3 DEF OpenInv

LEMMA CommitOpen ==
  ASSUME Inv, OpenInv, NEW s \in Sessions, Commit(s)
  PROVE  OpenInv'
  <1>1. Start(s, Idle) /\ tx'[s] = Idle /\ \A r \in Sessions \ {s} : tx'[r] = tx[r]
    BY TypesOf DEF Commit
  <1>2. Balanced'
    BY CommitBalances
  <1>3. MadeApart'
    BY <1>1 DEF OpenInv, MadeApart, Idle
  <1>4. ASSUME NEW r \in Sessions PROVE (Locked(tx[r]) /\ Tallies(tx[r]))'
    <2> PICK v : v = tx'[r]
      OBVIOUS
    <2>1. CASE r = s
      <3>1. v = Idle
        BY <1>1, <2>1
      <3>2. Locked(v)
        BY <3>1, IdleOpen
      <3>3. Tallies(v)'
        BY <3>1, FS_EmptySet DEF Tallies, Idle, Touched
      <3>4. QED
        BY <3>2, <3>3
    <2>2. CASE r # s
      <3>1. v = tx[r]
        BY <1>1, <2>2
      <3>2. Tallies(v)'
        BY <2>2, <3>1, CommitKeepsTallies
      <3>3. Locked(v)
        BY <3>1 DEF OpenInv
      <3>4. QED
        BY <3>2, <3>3
    <2>3. QED
      BY <2>1, <2>2
  <1>5. QED
    BY <1>2, <1>3, <1>4 DEF OpenInv

-----------------------------------------------------------------------------

LEMMA InitOpen == ASSUME Init PROVE OpenInv
  <1>1. PICK owed \in [Invoices -> Owed] :
          amount = [l \in Lines |-> IF l \in Invoices THEN owed[l] ELSE None]
    BY DEF Init
  <1>2. residual = amount /\ matches = {} /\ tx = [s \in Sessions |-> Idle]
    BY DEF Init
  <1>3. \A l \in Posted : amount[l] \in Nat
    BY <1>1, SettlementAssumption DEF Posted
  <1>4. \A l : Touching(matches, l) = {} /\ Matched(matches, l) = 0
    BY <1>2, MatchedNone DEF Touching
  <1>5. Balanced
    <2>1. matches \subseteq MatchRows /\ IsFiniteSet(matches)
      BY <1>2, FS_EmptySet
    <2>2. QED
      BY <1>2, <1>3, <1>4, <2>1 DEF Balanced
  <1>6. MadeApart
    BY <1>2 DEF MadeApart, Idle
  <1>7. QED
    BY <1>2, <1>5, <1>6, IdleOpen DEF OpenInv

LEMMA StepOpen == ASSUME Inv, OpenInv, [Next]_vars PROVE OpenInv'
  <1>1. CASE UNCHANGED vars
    BY <1>1, SameOpen DEF vars, rows
  <1>2. ASSUME NEW p \in Payments, NEW a \in Amounts, Create(p, a) PROVE OpenInv'
    BY <1>2, SameOpen DEF Create
  <1>3. ASSUME NEW s \in Sessions, NEW p \in Payments, NEW c \in Changes, BeginUpdate(s, p, c[1], c[2])
        PROVE  OpenInv'
    BY <1>3, BeginPaymentOpen
  <1>4. ASSUME NEW s \in Sessions, NEW p \in Payments,
               BeginDelete(s, p) \/ BeginPost(s, p) \/ BeginCancel(s, p)
        PROVE  OpenInv'
    BY <1>4, BeginPaymentOpen, BeginCancelOpen
  <1>5. ASSUME NEW s \in Sessions, NEW lines \in SUBSET Lines, NEW take \in Takes \cup {None},
               BeginMatch(s, lines, take)
        PROVE  OpenInv'
    BY <1>5, BeginMatchOpen
  <1>6. ASSUME NEW s \in Sessions, NEW m \in matches, BeginUnmatch(s, m) PROVE OpenInv'
    BY <1>6, BeginUnmatchOpen
  <1>7. ASSUME NEW s \in Sessions,
               Acquire(s) \/ Update(s) \/ Delete(s) \/ InsertEntry(s) \/ StampPosted(s)
        PROVE  OpenInv'
    BY <1>7, AcquireOpen, StampOpen, InsertEntryOpen
  <1>8. ASSUME NEW s \in Sessions,
               Match(s) \/ NextUndo(s) \/ Undo(s) \/ ReverseEntry(s) \/ StampCancelled(s)
        PROVE  OpenInv'
    BY <1>8, MatchOpen, NextUndoOpen, UndoOpen, ReverseEntryOpen, StampOpen
  <1>9. ASSUME NEW s \in Sessions, Commit(s) \/ Rollback(s) \/ DeadlockVictim(s) PROVE OpenInv'
    BY <1>9, CommitOpen, AbortOpen DEF Rollback, DeadlockVictim
  <1>10. QED
    BY <1>1, <1>2, <1>3, <1>4, <1>5, <1>6, <1>7, <1>8, <1>9 DEF Next

(* What is open of a line is its amount less its matches, and what a       *)
(* request has written of lines agrees with it, as it holds those lines    *)
(* and the matches it took back.                                           *)
THEOREM OpenInvariance == Spec => []OpenInv
  <1>1. Init => OpenInv
    BY InitOpen
  <1>2. Inv /\ OpenInv /\ [Next]_vars => OpenInv'
    BY StepOpen
  <1>3. QED
    BY <1>1, <1>2, Invariance, PTL DEF Spec

(* Whatever requests race over a line, none reaches its commit with an     *)
(* open amount that the deferred trigger would refuse (check_line_residual *)
(* of migration 0005): match_amount, match_lines, unmatch and              *)
(* cancel_payment lock enough, for any requests, lines and amounts.        *)
THEOREM OpenAmountsAreNeverRefused == Spec => []OpenAmountsNeverRefused
  <1>1. OpenInv => OpenAmountsNeverRefused
    BY DEF OpenInv, Tallies, OpenAmountsNeverRefused, ResidualsCheck
  <1>2. QED
    BY <1>1, OpenInvariance, PTL

-----------------------------------------------------------------------------
(* Lines are locked by id ascending.                                       *)

(* Ranks ascend with the ids that have them.                               *)
LEMMA RanksAscend ==
  ASSUME NEW ids, IsFiniteSet(ids), ids \subseteq Nat, NEW i \in 1..Cardinality(ids)
  PROVE  /\ Ranked(ids, i) \in ids
         /\ \A j \in 1..(i - 1) : Ranked(ids, j) < Ranked(ids, i)
  <1> DEFINE below(k) == {j \in ids : j < k}
             place == [k \in ids |-> Cardinality(below(k)) + 1]
             n == Cardinality(ids)
  <1>1. \A k \in ids : IsFiniteSet(below(k)) /\ Cardinality(below(k)) \in Nat
    BY FS_Subset, FS_CardinalityType
  <1>2. ASSUME NEW k \in ids, NEW l \in ids, k < l
        PROVE  Cardinality(below(k)) < Cardinality(below(l))
    <2>1. \A j \in ids : j \in Nat
      OBVIOUS
    <2>2. \A j \in ids : j < k => j < l
      BY <1>2, <2>1
    <2>3. below(k) \in SUBSET below(l)
      BY <2>2
    <2>4. k \in below(l) /\ k \notin below(k)
      BY <1>2, <2>1
    <2> HIDE DEF below
    <2>5. QED
      BY <1>1, <2>3, <2>4, FS_Subset
  <1>3. \A k \in ids : Cardinality(below(k)) < n /\ n \in Nat
    <2>1. SUFFICES ASSUME NEW k \in ids PROVE Cardinality(below(k)) < n /\ n \in Nat
      OBVIOUS
    <2>2. below(k) \in SUBSET ids /\ below(k) # ids
      OBVIOUS
    <2> HIDE DEF below
    <2>3. QED
      BY <1>1, <2>1, <2>2, FS_Subset, FS_CardinalityType
  <1> HIDE DEF below
  <1>4. place \in Injection(ids, 1..n)
    <2>1. place \in [ids -> 1..n]
      BY <1>1, <1>3
    <2>2. \A k, l \in ids : place[k] = place[l] => k = l
      <3>1. SUFFICES ASSUME NEW k \in ids, NEW l \in ids, place[k] = place[l] PROVE k = l
        OBVIOUS
      <3>2. Cardinality(below(k)) = Cardinality(below(l)) /\ k \in Nat /\ l \in Nat
        BY <1>1, <3>1
      <3>3. ~(k < l) /\ ~(l < k)
        BY <1>1, <1>2, <3>2
      <3>4. QED
        BY <3>2, <3>3
    <2> HIDE DEF place, n
    <2>3. QED
      BY <2>1, <2>2 DEF Injection, IsInjective
  <1>5. IsFiniteSet(1..n) /\ Cardinality(1..n) = n
    BY FS_CardinalityType, FS_Interval
  <1>6. place \in Surjection(ids, 1..n)
    <2> HIDE DEF place
    <2>1. QED
      BY <1>4, <1>5, FS_Injection
  <1>7. ASSUME NEW j \in 1..n
        PROVE  Ranked(ids, j) \in ids /\ Cardinality(below(Ranked(ids, j))) = j - 1
    <2>1. PICK k \in ids : place[k] = j
      <3> HIDE DEF place
      <3>1. QED
        BY <1>6 DEF Surjection
    <2>2. Cardinality(below(k)) = j - 1
      BY <1>1, <2>1
    <2>3. QED
      BY <2>2 DEF Ranked, below
  <1>8. ASSUME NEW j \in 1..(i - 1) PROVE Ranked(ids, j) < Ranked(ids, i)
    <2>1. j \in 1..n /\ j < i
      BY <1>3, FS_CardinalityType
    <2>2. PICK k : k = Ranked(ids, j)
      OBVIOUS
    <2>3. PICK l : l = Ranked(ids, i)
      OBVIOUS
    <2>4. /\ k \in ids /\ l \in ids /\ k \in Nat /\ l \in Nat
          /\ Cardinality(below(k)) = j - 1 /\ Cardinality(below(l)) = i - 1
      BY <1>7, <2>1, <2>2, <2>3
    <2>5. k # l /\ ~(l < k)
      BY <1>2, <2>1, <2>4
    <2>6. QED
      BY <2>2, <2>3, <2>4, <2>5
  <1>9. QED
    BY <1>7, <1>8

LEMMA LinesInOrder ==
  ASSUME NEW ids \in SUBSET Lines, NEW queue, queue = LinesOf(ids)
  PROVE  /\ \A l \in Range(queue) : \E k \in Lines : l = LineLock(k)
         /\ \A i \in DOMAIN queue : \A j \in 1..(i - 1) : LockRank(queue[j]) < LockRank(queue[i])
  <1>1. IsFiniteSet(ids) /\ ids \subseteq Nat /\ Cardinality(ids) \in Nat
    BY LinesAreIds, FS_CardinalityType
  <1>2. DOMAIN queue = 1..Cardinality(ids) /\ \A i \in DOMAIN queue : queue[i] = LineLock(Ranked(ids, i))
    BY DEF LinesOf, Ascending, LineLock
  <1>3. ASSUME NEW i \in DOMAIN queue
        PROVE  /\ Ranked(ids, i) \in ids
               /\ \A j \in 1..(i - 1) : j \in DOMAIN queue /\ Ranked(ids, j) \in ids /\ Ranked(ids, j) < Ranked(ids, i)
    <2>1. Ranked(ids, i) \in ids /\ \A j \in 1..(i - 1) : Ranked(ids, j) < Ranked(ids, i)
      BY <1>1, <1>2, RanksAscend
    <2>2. \A j \in 1..(i - 1) : j \in 1..Cardinality(ids)
      BY <1>1, <1>2
    <2>3. \A j \in 1..Cardinality(ids) : Ranked(ids, j) \in ids
      BY <1>1, RanksAscend
    <2>4. QED
      BY <1>2, <2>1, <2>2, <2>3
  <1>4. \A k \in Nat : LockRank(LineLock(k)) = 1 + k
    BY DEF LockRank, LineLock
  <1>5. \A i \in DOMAIN queue : \A j \in 1..(i - 1) : LockRank(queue[j]) < LockRank(queue[i])
    <2>1. SUFFICES ASSUME NEW i \in DOMAIN queue, NEW j \in 1..(i - 1)
                   PROVE  LockRank(queue[j]) < LockRank(queue[i])
      OBVIOUS
    <2>2. PICK k \in Nat : k = Ranked(ids, i)
      BY <1>1, <1>3
    <2>3. PICK l \in Nat : l = Ranked(ids, j)
      BY <1>1, <1>3
    <2>4. l < k /\ queue[i] = LineLock(k) /\ queue[j] = LineLock(l)
      BY <1>2, <1>3, <2>2, <2>3
    <2>5. QED
      BY <1>4, <2>4
  <1>6. \A l \in Range(queue) : \E k \in Lines : l = LineLock(k)
    BY <1>2, <1>3 DEF Range
  <1>7. QED
    BY <1>5, <1>6

LEMMA RanksOfLocks ==
  /\ \A m : LockRank(MatchLock(m)) = 0
  /\ \A k \in Lines : LockRank(LineLock(k)) \in 1..(2 * Span)
  /\ \A l : l[1] = "match" => LockRank(l) = 0
  /\ \A l : l[1] \in {"share", "counter"} => LockRank(l) = 2 * Span + 1
  /\ \A l : MatchingLock(l) => LockRank(l) \in 0..(2 * Span + 1)
  <1>1. Span \in Nat /\ Invoices \cup Payments \subseteq 0..(Span - 1)
    BY SettlementAssumption
  <1>2. \A k \in Lines : k \in 0..(2 * Span - 1)
    BY <1>1 DEF Lines, Debits, Credits, Reversal
  <1>3. \A k : LineLock(k)[1] = "line" /\ LineLock(k)[2] = k
    BY DEF LineLock
  <1>4. \A k \in Lines : LockRank(LineLock(k)) \in 1..(2 * Span)
    BY <1>1, <1>2, <1>3 DEF LockRank
  <1>5. \A m : LockRank(MatchLock(m)) = 0
    BY DEF MatchLock, LockRank
  <1>6. /\ \A l : l[1] = "match" => LockRank(l) = 0
        /\ \A l : l[1] \in {"share", "counter"} => LockRank(l) = 2 * Span + 1
    BY DEF LockRank
  <1>7. ASSUME NEW l, MatchingLock(l) PROVE LockRank(l) \in 0..(2 * Span + 1)
    <2>1. <<"counter", 1>>[1] = "counter"
      OBVIOUS
    <2>2. QED
      BY <1>1, <1>4, <1>6, <1>7, <2>1 DEF MatchingLock
  <1>8. QED
    BY <1>4, <1>5, <1>6, <1>7

-----------------------------------------------------------------------------
(* Requests that match ask for rows in that order.                         *)

LEMMA QueuePlaces ==
  ASSUME NEW q, IsQueue(q), q # <<>>
  PROVE  /\ Head(q) = q[1] /\ Len(q) \in Nat \ {0} /\ DOMAIN q = 1..Len(q)
         /\ DOMAIN Tail(q) = 1..(Len(q) - 1)
         /\ \A i \in DOMAIN Tail(q) : Tail(q)[i] = q[i + 1]
  <1>1. q \in Seq(Range(q)) /\ Len(q) \in Nat /\ Len(q) # 0 /\ DOMAIN q = 1..Len(q)
    BY DEF IsQueue
  <1>2. /\ Tail(q) \in Seq(Range(q)) /\ Len(Tail(q)) = Len(q) - 1
        /\ \A i \in 1..(Len(q) - 1) : Tail(q)[i] = q[i + 1]
    BY <1>1
  <1>3. DOMAIN Tail(q) = 1..(Len(q) - 1)
    BY <1>2, QueueIn
  <1>4. Head(q) = q[1]
    BY <1>1
  <1>5. QED
    BY <1>1, <1>2, <1>3, <1>4

LEMMA StepInOrder ==
  ASSUME Inv, OrderInv, NEW s \in Sessions, NEW t, Start(s, t), InOrder(t)
  PROVE  OrderInv'
  <1>1. tx'[s] = t /\ \A r \in Sessions \ {s} : tx'[r] = tx[r]
    BY TypesOf
  <1>2. ASSUME NEW r \in Sessions PROVE InOrder(tx[r])'
    <2> PICK u : u = tx'[r]
      OBVIOUS
    <2>1. InOrder(u)
      BY <1>1 DEF OrderInv
    <2>2. QED
      BY <2>1
  <1>3. QED
    BY <1>2 DEF OrderInv

LEMMA ElsewhereInOrder ==
  ASSUME NEW t, t.payment # None, t.pc = "commit" => t.queue = <<>>
  PROVE  InOrder(t)
  BY DEF InOrder

LEMMA IdleInOrder == InOrder(Idle)
  <1>1. Idle.queue = <<>> /\ Idle.held = {} /\ Idle.pc = "idle"
    BY DEF Idle
  <1>2. Asks(Idle) = {} /\ DOMAIN Idle.queue = {}
    <2>1. Range(<<>>) = {}
      BY ShortQueues
    <2>2. Asks(Idle) = {}
      BY <1>1, <2>1 DEF Asks
    <2>3. DOMAIN Idle.queue = {}
      BY <1>1
    <2>4. QED
      BY <2>2, <2>3
  <1> PICK t : t = Idle
    OBVIOUS
  <1>3. /\ t.pc = "commit" /\ t.payment # None => t.queue = <<>>
        /\ \A l \in Asks(t) : MatchingLock(l)
        /\ t.pc # "undo" /\ t.pc # "undoing"
    BY <1>1, <1>2
  <1>4. \A i \in DOMAIN t.queue : FALSE
    BY <1>2
  <1>5. InOrder(t)
    BY <1>3, <1>4 DEF InOrder
  <1>6. QED
    BY <1>5

LEMMA AbortInOrder ==
  ASSUME Inv, OrderInv, NEW s \in Sessions, Abort(s)
  PROVE  OrderInv'
  BY IdleInOrder, StepInOrder DEF Abort

LEMMA AcquireInOrder ==
  ASSUME Inv, OpenInv, OrderInv, NEW s \in Sessions, Acquire(s)
  PROVE  OrderInv'
  <1> DEFINE head == Head(tx[s].queue)
             u == tx[s]
             t == [tx[s] EXCEPT !.held = @ \cup {head}, !.queue = Tail(@)]
  <1>1. /\ Start(s, t) /\ IsRequest(u) /\ u.queue # <<>> /\ Locked(u) /\ InOrder(u)
    BY TypesOf DEF Acquire, OpenInv, OrderInv
  <1>2. /\ t.held = u.held \cup {head} /\ t.queue = Tail(u.queue)
        /\ AllAlike(t, u)
    BY <1>1 DEF AllAlike, SameWork, IsRequest
  <1>3. IsQueue(u.queue)
    BY <1>1 DEF Locked, IsQueue
  <1>4. Range(u.queue) = {head} \cup Range(t.queue)
    BY <1>1, <1>2, <1>3, QueueTail
  <1>5. /\ head = u.queue[1] /\ Len(u.queue) \in Nat \ {0} /\ DOMAIN u.queue = 1..Len(u.queue)
        /\ DOMAIN t.queue = 1..(Len(u.queue) - 1)
        /\ \A i \in DOMAIN t.queue : t.queue[i] = u.queue[i + 1]
    <2> HIDE DEF t, u, head
    <2>1. PICK q : q = u.queue
      OBVIOUS
    <2>2. /\ Head(q) = q[1] /\ Len(q) \in Nat \ {0} /\ DOMAIN q = 1..Len(q)
          /\ DOMAIN Tail(q) = 1..(Len(q) - 1)
          /\ \A i \in DOMAIN Tail(q) : Tail(q)[i] = q[i + 1]
      BY <1>1, <1>3, <2>1, QueuePlaces
    <2>3. QED
      BY <1>2, <2>1, <2>2 DEF head, u
  <1> HIDE DEF t, u, head
  <1>6. Asks(t) = Asks(u)
    BY <1>2, <1>4 DEF Asks
  <1>7. CASE u.payment # None
    <2>1. u.pc # "commit"
      BY <1>1, <1>7 DEF InOrder
    <2>2. QED
      BY <1>1, <1>2, <1>7, <2>1, ElsewhereInOrder, StepInOrder DEF AllAlike, SameWork
  <1>8. CASE u.payment = None
    <2>1. ASSUME NEW i \in DOMAIN t.queue, t.queue[i][1] \in {"match", "line"}
          PROVE  /\ \A l \in t.held : LockRank(l) < LockRank(t.queue[i])
                 /\ \A j \in 1..(i - 1) : LockRank(t.queue[j]) < LockRank(t.queue[i])
      <3>1. i \in Nat \ {0} /\ i + 1 \in DOMAIN u.queue /\ t.queue[i] = u.queue[i + 1]
        BY <1>5
      <3>2. /\ \A l \in u.held : LockRank(l) < LockRank(u.queue[i + 1])
            /\ \A j \in 1..i : LockRank(u.queue[j]) < LockRank(u.queue[i + 1])
        BY <1>1, <1>8, <2>1, <3>1 DEF InOrder
      <3>3. LockRank(head) < LockRank(t.queue[i])
        BY <1>5, <3>1, <3>2
      <3>4. ASSUME NEW j \in 1..(i - 1) PROVE LockRank(t.queue[j]) < LockRank(t.queue[i])
        <4>1. j + 1 \in 1..i /\ j \in DOMAIN t.queue
          BY <1>5, <3>1
        <4>2. QED
          BY <1>5, <3>1, <3>2, <4>1
      <3>5. QED
        BY <1>2, <3>1, <3>2, <3>3, <3>4
    <2>2. InOrder(t)
      BY <1>1, <1>2, <1>6, <1>8, <2>1 DEF InOrder, AllAlike, SameWork
    <2>3. QED
      BY <1>1, <2>2, StepInOrder
  <1>9. QED
    BY <1>7, <1>8

(* Requests about a payment, while they are not at their end.              *)
LEMMA PaymentInOrder ==
  ASSUME Inv, OrderInv, NEW s \in Sessions, NEW p \in Payments, NEW a, NEW memo,
         BeginUpdate(s, p, a, memo) \/ BeginDelete(s, p) \/ BeginPost(s, p) \/ BeginCancel(s, p)
  PROVE  OrderInv'
  <1>1. p # None
    BY LineIds
  <1>2. CASE BeginUpdate(s, p, a, memo)
    <2> DEFINE queue == <<<<"payment", p>>>>
               t == [Idle EXCEPT !.pc = "update", !.payment = p, !.amount = a, !.memo = memo, !.queue = queue]
    <2>1. Start(s, t)
      BY <1>2 DEF BeginUpdate
    <2> HIDE DEF queue
    <2>2. t.pc = "update" /\ t.payment = p
      BY DEF Idle
    <2> HIDE DEF t
    <2>3. QED
      BY <1>1, <2>1, <2>2, ElsewhereInOrder, StepInOrder
  <1>3. CASE BeginDelete(s, p)
    <2> DEFINE queue == <<<<"payment", p>>>>
               t == [Idle EXCEPT !.pc = "delete", !.payment = p, !.queue = queue]
    <2>1. Start(s, t)
      BY <1>3 DEF BeginDelete
    <2> HIDE DEF queue
    <2>2. t.pc = "delete" /\ t.payment = p
      BY DEF Idle
    <2> HIDE DEF t
    <2>3. QED
      BY <1>1, <2>1, <2>2, ElsewhereInOrder, StepInOrder
  <1>4. CASE BeginPost(s, p)
    <2> DEFINE queue == <<<<"counter", 0>>, <<"source", p>>>>
               was == payment[p].amount
               t == [Idle EXCEPT !.pc = "post", !.payment = p, !.amount = was, !.queue = queue]
    <2>1. Start(s, t)
      BY <1>4 DEF BeginPost
    <2> HIDE DEF queue, was
    <2>2. t.pc = "post" /\ t.payment = p
      BY DEF Idle
    <2> HIDE DEF t
    <2>3. QED
      BY <1>1, <2>1, <2>2, ElsewhereInOrder, StepInOrder
  <1>5. CASE BeginCancel(s, p)
    <2> PICK found : found = {m \in matches : p \in Sides(m)}
      OBVIOUS
    <2>1. PICK order : Start(s, [Idle EXCEPT !.pc = "undoing", !.payment = p, !.todo = found, !.queue = order])
      BY <1>5 DEF BeginCancel
    <2> DEFINE t == [Idle EXCEPT !.pc = "undoing", !.payment = p, !.todo = found, !.queue = order]
    <2>2. t.pc = "undoing" /\ t.payment = p
      BY DEF Idle
    <2>3. Start(s, t)
      BY <2>1
    <2> HIDE DEF t
    <2>4. QED
      BY <1>1, <2>2, <2>3, ElsewhereInOrder, StepInOrder
  <1>6. QED
    BY <1>2, <1>3, <1>4, <1>5

LEMMA WritePaymentInOrder ==
  ASSUME Inv, OrderInv, NEW s \in Sessions,
         \/ Update(s) \/ Delete(s) \/ StampPosted(s) \/ StampCancelled(s)
         \/ InsertEntry(s) \/ ReverseEntry(s)
  PROVE  OrderInv'
  <1>1. CASE ~Abort(s)
    <2>1. PICK here \in {"update", "delete", "post", "stamp", "reverse", "cancel"} : At(s, here)
      BY DEF Update, Delete, StampPosted, StampCancelled, InsertEntry, ReverseEntry
    <2>2. IsRequest(tx[s]) /\ tx[s].payment # None
      BY <2>1, Here DEF Knows
    <2>3. CASE Update(s) \/ Delete(s) \/ StampPosted(s) \/ StampCancelled(s)
      <3>1. PICK row : Start(s, [[tx[s] EXCEPT !.row = row] EXCEPT !.pc = "commit", !.queue = <<>>])
        BY <1>1, <2>3 DEF Update, Delete, StampPosted, StampCancelled, Goto, Start
      <3> DEFINE t == [[tx[s] EXCEPT !.row = row] EXCEPT !.pc = "commit", !.queue = <<>>]
      <3>2. t.payment # None /\ t.queue = <<>>
        BY <2>2 DEF IsRequest
      <3>3. Start(s, t)
        BY <3>1
      <3> HIDE DEF t
      <3>4. QED
        BY <3>2, <3>3, ElsewhereInOrder, StepInOrder
    <2>4. CASE InsertEntry(s)
      <3> DEFINE p == tx[s].payment
                 open == [l \in {p} |-> tx[s].amount]
                 queue == <<<<"payment", p>>>>
                 t == [[tx[s] EXCEPT !.opens = p, !.open = open] EXCEPT !.pc = "stamp", !.queue = queue]
      <3>1. Start(s, t)
        BY <1>1, <2>4 DEF InsertEntry, Goto, Start
      <3> HIDE DEF open, queue
      <3>2. t.payment # None /\ t.pc = "stamp"
        BY <2>2 DEF IsRequest
      <3> HIDE DEF t
      <3>3. QED
        BY <3>1, <3>2, ElsewhereInOrder, StepInOrder
    <2>5. CASE ReverseEntry(s)
      <3> DEFINE p == tx[s].payment
                 r == Reversal(p)
                 open == Writes(tx[s], [l \in {r} |-> amount[p]])
                 queue == <<<<"counter", 0>>, <<"payment", p>>>>
                 t == [[tx[s] EXCEPT !.opens = r, !.open = open] EXCEPT !.pc = "cancel", !.queue = queue]
      <3>1. Start(s, t)
        BY <1>1, <2>5 DEF ReverseEntry, Goto, Start
      <3> HIDE DEF open, queue, r
      <3>2. t.payment # None /\ t.pc = "cancel"
        BY <2>2 DEF IsRequest
      <3> HIDE DEF t
      <3>3. QED
        BY <3>1, <3>2, ElsewhereInOrder, StepInOrder
    <2>6. QED
      BY <2>3, <2>4, <2>5
  <1>2. QED
    BY <1>1, AbortInOrder

LEMMA BeginMatchInOrder ==
  ASSUME Inv, OrderInv, NEW s \in Sessions, NEW lines \in SUBSET Lines, NEW take,
         BeginMatch(s, lines, take)
  PROVE  OrderInv'
  <1> PICK queue : queue = LinesOf(lines)
    OBVIOUS
  <1> DEFINE t == [Idle EXCEPT !.pc = "match", !.lines = lines, !.amount = take, !.queue = queue]
  <1>1. Start(s, t)
    BY DEF BeginMatch
  <1>2. t.pc = "match" /\ t.queue = queue /\ t.held = {}
    BY DEF Idle
  <1> HIDE DEF t
  <1>3. /\ \A l \in Range(queue) : \E k \in Lines : l = LineLock(k)
        /\ \A i \in DOMAIN queue : \A j \in 1..(i - 1) : LockRank(queue[j]) < LockRank(queue[i])
    BY LinesInOrder
  <1>4. InOrder(t)
    BY <1>2, <1>3 DEF InOrder, Asks, MatchingLock
  <1>5. QED
    BY <1>1, <1>4, StepInOrder

LEMMA BeginUnmatchInOrder ==
  ASSUME Inv, OrderInv, NEW s \in Sessions, NEW m, BeginUnmatch(s, m)
  PROVE  OrderInv'
  <1> PICK lock : lock = MatchLock(m)
    OBVIOUS
  <1> DEFINE t == [Idle EXCEPT !.pc = "undoing", !.todo = {m}, !.queue = <<lock>>]
  <1>1. Start(s, t)
    BY DEF BeginUnmatch, MatchLock
  <1>2. t.pc = "undoing" /\ t.queue = <<lock>> /\ t.held = {} /\ t.todo = {m}
    BY DEF Idle
  <1> HIDE DEF t
  <1>3. lock[1] = "match" /\ DOMAIN t.queue = {1} /\ Asks(t) = {lock}
    <2>1. Range(<<lock>>) = {lock}
      BY ShortQueues
    <2>2. DOMAIN t.queue = {1}
      BY <1>2
    <2>3. Asks(t) = {lock}
      BY <1>2, <2>1 DEF Asks
    <2>4. lock[1] = "match"
      BY DEF MatchLock
    <2>5. QED
      BY <2>2, <2>3, <2>4
  <1>4. \A j \in 1..(1 - 1) : FALSE
    OBVIOUS
  <1>5. InOrder(t)
    BY <1>2, <1>3, <1>4 DEF InOrder, MatchingLock
  <1>6. QED
    BY <1>1, <1>5, StepInOrder

(* What a request asks for after it has written both sides of a match      *)
(* comes last.                                                             *)
LEMMA FlushInOrder ==
  ASSUME NEW m, NEW ids, IsFiniteSet(ids), ids \subseteq Nat,
         NEW queue, queue = Difference(m) \o EntriesOf(ids) \/ queue = EntriesOf(ids) \o Difference(m)
  PROVE  \A i \in DOMAIN queue : /\ queue[i][1] = "share" \/ queue[i] = <<"counter", 1>>
                                 /\ queue[i][1] \notin {"match", "line"}
  <1> DEFINE Late == {l \in Range(EntriesOf(ids)) \cup {<<"counter", 1>>} :
                        (l[1] = "share" \/ l = <<"counter", 1>>) /\ l[1] \notin {"match", "line"}}
  <1>1. <<"counter", 1>> \in Late
    OBVIOUS
  <1>2. EntriesOf(ids) \in Seq(Late)
    <2>1. Cardinality(ids) \in Nat
      BY FS_CardinalityType
    <2>2. \A i \in 1..Cardinality(ids) : EntriesOf(ids)[i] \in Late
      BY DEF EntriesOf, Ascending, Range
    <2> HIDE DEF Late
    <2>3. EntriesOf(ids) = [i \in 1..Cardinality(ids) |-> EntriesOf(ids)[i]]
      BY DEF EntriesOf, Ascending
    <2>4. EntriesOf(ids) \in [1..Cardinality(ids) -> Late]
      BY <2>2, <2>3
    <2>5. QED
      BY <2>1, <2>4, SeqDef
  <1> HIDE DEF Late
  <1>3. Difference(m) \in Seq(Late)
    BY <1>1 DEF Difference
  <1>4. queue \in Seq(Late)
    <2>1. Difference(m) \o EntriesOf(ids) \in Seq(Late) /\ EntriesOf(ids) \o Difference(m) \in Seq(Late)
      BY <1>2, <1>3
    <2>2. QED
      BY <2>1
  <1>5. \A i \in DOMAIN queue : queue[i] \in Late
    <2>1. PICK n \in Nat : queue \in [1..n -> Late]
      BY <1>4, SeqDef
    <2>2. QED
      BY <2>1
  <1>6. QED
    BY <1>5 DEF Late

LEMMA MatchInOrder ==
  ASSUME Inv, OpenInv, OrderInv, NEW s \in Sessions, Match(s)
  PROVE  OrderInv'
  <1>1. CASE ~Abort(s)
    <2> PICK u : u = tx[s]
      OBVIOUS
    <2>1. At(s, "match") \/ At(s, "matched")
      BY DEF Match
    <2>2. PICK d, c, take : Settle(s, u, d, c, take) /\ d \in Lines /\ c \in Lines
      <3>1. PICK pair, take : pair \in NextPairs(u) /\ Settle(s, u, pair[1], pair[2], take)
        BY <1>1 DEF Match
      <3>2. pair[1] \in Debits /\ pair[2] \in Credits
        BY <3>1 DEF NextPairs, Pairs
      <3>3. QED
        BY <3>1, <3>2 DEF Lines
    <2>3. u.pc \in {"match", "matched"} /\ IsRequest(u) /\ Knows(s) /\ InOrder(u) /\ Asks(u) = u.held
      BY <2>1, HereOpen DEF OrderInv
    <2>4. u.payment = None
      BY <2>3 DEF Knows
    <2> DEFINE m == [id |-> NextId, debit |-> d, credit |-> c, amount |-> take]
               open == Writes(u, [l \in {d, c} |-> Open(u, l) - take])
               made == u.made \cup {m}
               done == [u EXCEPT !.made = made, !.open = open]
               pc == IF Pairs(done) = {} \/ u.amount # None THEN "commit" ELSE "matched"
               queue == EntriesOf({d, c}) \o Difference(m)
               t == [done EXCEPT !.pc = pc, !.queue = queue]
    <2>5. Start(s, t)
      BY <2>2 DEF Settle, Goto, Start
    <2>6. pc \in {"commit", "matched"}
      OBVIOUS
    <2>7. \A i \in DOMAIN queue : /\ queue[i][1] = "share" \/ queue[i] = <<"counter", 1>>
                                  /\ queue[i][1] \notin {"match", "line"}
      <3>1. IsFiniteSet({d, c}) /\ {d, c} \subseteq Nat
        BY <2>2, LinesAreIds
      <3> HIDE DEF m
      <3>2. QED
        BY <3>1, FlushInOrder
    <2> HIDE DEF m, open, pc, queue
    <2>8. t.pc = pc /\ t.queue = queue /\ t.held = u.held /\ t.payment = None
      BY <2>3, <2>4 DEF IsRequest
    <2> HIDE DEF t, made, done
    <2>9. \A l \in Asks(t) : MatchingLock(l)
      BY <2>3, <2>4, <2>7, <2>8 DEF InOrder, MatchingLock, Asks, Range
    <2>10. InOrder(t)
      BY <2>6, <2>7, <2>8, <2>9 DEF InOrder
    <2>11. QED
      BY <2>5, <2>10, StepInOrder
  <1>2. QED
    BY <1>1, AbortInOrder

LEMMA NextUndoInOrder ==
  ASSUME Inv, OpenInv, OrderInv, NEW s \in Sessions, NextUndo(s)
  PROVE  OrderInv'
  <1>1. CASE ~Abort(s)
    <2> PICK u : u = tx[s]
      OBVIOUS
    <2>1. /\ At(s, "undoing")
          /\ \/ \E m \in u.todo \cap matches :
                  Goto(s, [u EXCEPT !.todo = u.todo \cap matches, !.match = m], "undo", LinesOf(Sides(m)))
             \/ u.payment # None /\ Goto(s, u, "reverse", <<EntryLock(u.payment)>>)
             \/ Goto(s, u, "commit", <<>>)
      BY <1>1 DEF NextUndo, EntryLock
    <2>2. u.pc = "undoing" /\ IsRequest(u) /\ InOrder(u) /\ Asks(u) = u.held
      BY <2>1, HereOpen DEF OrderInv
    <2>3. ASSUME NEW m \in u.todo \cap matches,
                 Goto(s, [u EXCEPT !.todo = u.todo \cap matches, !.match = m], "undo", LinesOf(Sides(m)))
          PROVE  OrderInv'
      <3> DEFINE todo == u.todo \cap matches
                 queue == LinesOf(Sides(m))
                 t == [[u EXCEPT !.todo = todo, !.match = m] EXCEPT !.pc = "undo", !.queue = queue]
      <3>1. Start(s, t)
        BY <2>3 DEF Goto, Start
      <3>2. Sides(m) \subseteq Lines
        BY MatchRowFields DEF OpenInv, Balanced
      <3>3. /\ \A l \in Range(queue) : \E k \in Lines : l = LineLock(k)
            /\ \A i \in DOMAIN queue : \A j \in 1..(i - 1) : LockRank(queue[j]) < LockRank(queue[i])
        BY <3>2, LinesInOrder
      <3>4. u.payment = None => todo = {m}
        BY <2>2 DEF InOrder
      <3> HIDE DEF todo, queue
      <3>5. /\ t.pc = "undo" /\ t.todo = todo /\ t.match = m /\ t.queue = queue /\ t.held = u.held
            /\ t.payment = u.payment
        BY <2>2 DEF IsRequest
      <3> HIDE DEF t
      <3>6. CASE u.payment # None
        BY <3>1, <3>5, <3>6, ElsewhereInOrder, StepInOrder
      <3>7. CASE u.payment = None
        <4>1. \A l \in u.held : LockRank(l) = 0
          BY <2>2, <2>3, <3>7, RanksOfLocks DEF InOrder
        <4>2. \A i \in DOMAIN queue : LockRank(queue[i]) \in Nat /\ LockRank(queue[i]) > 0
          <5>1. \A i \in DOMAIN queue : \E k \in Lines : queue[i] = LineLock(k)
            BY <3>3 DEF Range
          <5>2. Span \in Nat
            BY SettlementAssumption
          <5>3. QED
            BY <5>1, <5>2, RanksOfLocks
        <4>3. \A l \in Asks(t) : MatchingLock(l)
          BY <2>2, <3>3, <3>5, <3>7 DEF InOrder, MatchingLock, Asks
        <4>4. InOrder(t)
          BY <3>3, <3>4, <3>5, <3>7, <4>1, <4>2, <4>3 DEF InOrder
        <4>5. QED
          BY <3>1, <4>4, StepInOrder
      <3>8. QED
        BY <3>6, <3>7
    <2>4. ASSUME u.payment # None, Goto(s, u, "reverse", <<EntryLock(u.payment)>>)
          PROVE  OrderInv'
      <3> DEFINE queue == <<EntryLock(u.payment)>>
                 t == [u EXCEPT !.pc = "reverse", !.queue = queue]
      <3>1. Start(s, t)
        BY <2>4 DEF Goto, Start
      <3> HIDE DEF queue
      <3>2. t.pc = "reverse" /\ t.payment = u.payment
        BY <2>2 DEF IsRequest
      <3> HIDE DEF t
      <3>3. QED
        BY <2>4, <3>1, <3>2, ElsewhereInOrder, StepInOrder
    <2>5. ASSUME Goto(s, u, "commit", <<>>)
          PROVE  OrderInv'
      <3> DEFINE t == [u EXCEPT !.pc = "commit", !.queue = <<>>]
      <3>1. Start(s, t)
        BY <2>5 DEF Goto, Start
      <3>2. t.pc = "commit" /\ t.queue = <<>> /\ t.payment = u.payment /\ t.held = u.held
        BY <2>2 DEF IsRequest
      <3> HIDE DEF t
      <3>3. DOMAIN t.queue = {}
        BY <3>2
      <3>4. Asks(t) = u.held
        <4>1. Range(<<>>) = {}
          BY ShortQueues
        <4>2. QED
          BY <3>2, <4>1 DEF Asks
      <3>5. InOrder(t)
        BY <2>2, <3>2, <3>3, <3>4 DEF InOrder
      <3>6. QED
        BY <3>1, <3>5, StepInOrder
    <2>6. QED
      BY <2>1, <2>3, <2>4, <2>5
  <1>2. QED
    BY <1>1, AbortInOrder

LEMMA UndoInOrder ==
  ASSUME Inv, OpenInv, OrderInv, NEW s \in Sessions, Undo(s)
  PROVE  OrderInv'
  <1> PICK u : u = tx[s]
    OBVIOUS
  <1> PICK m : m = u.match
    OBVIOUS
  <1> DEFINE todo == u.todo \ {m}
             undone == u.undone \cup {m}
             open == Writes(u, [l \in Sides(m) |-> Open(u, l) + m.amount])
             queue == Difference(m) \o EntriesOf(Sides(m))
             t == [[u EXCEPT !.todo = todo, !.match = None, !.undone = undone, !.open = open]
                     EXCEPT !.pc = "undoing", !.queue = queue]
  <1>1. Start(s, t) /\ At(s, "undo")
    BY DEF Undo, Goto, Start
  <1>2. u.pc = "undo" /\ IsRequest(u) /\ InOrder(u) /\ Tallies(u) /\ Asks(u) = u.held
    BY <1>1, HereOpen DEF OrderInv
  <1>3. Sides(m) \subseteq Lines
    BY <1>2, MatchRowFields DEF OpenInv, Balanced, Tallies
  <1>4. \A i \in DOMAIN queue : /\ queue[i][1] = "share" \/ queue[i] = <<"counter", 1>>
                                /\ queue[i][1] \notin {"match", "line"}
    BY <1>3, LinesAreIds, FlushInOrder
  <1>5. u.payment = None => todo = {}
    BY <1>2 DEF InOrder
  <1> HIDE DEF todo, undone, open, queue
  <1>6. t.pc = "undoing" /\ t.queue = queue /\ t.held = u.held /\ t.payment = u.payment /\ t.todo = todo
    BY <1>2 DEF IsRequest
  <1> HIDE DEF t
  <1>7. CASE u.payment # None
    BY <1>1, <1>6, <1>7, ElsewhereInOrder, StepInOrder
  <1>8. CASE u.payment = None
    <2>1. \A l \in Asks(t) : MatchingLock(l)
      BY <1>2, <1>4, <1>6, <1>8 DEF InOrder, MatchingLock, Asks, Range
    <2>2. InOrder(t)
      BY <1>4, <1>5, <1>6, <1>8, <2>1 DEF InOrder
    <2>3. QED
      BY <1>1, <2>2, StepInOrder
  <1>9. QED
    BY <1>7, <1>8

LEMMA InitInOrder == ASSUME Init PROVE OrderInv
  BY IdleInOrder DEF Init, OrderInv

LEMMA StepOrder == ASSUME Inv, OpenInv, OrderInv, [Next]_vars PROVE OrderInv'
  <1>1. ASSUME UNCHANGED tx PROVE OrderInv'
    <2>1. ASSUME NEW s \in Sessions PROVE InOrder(tx[s])'
      <3> PICK t : t = tx'[s]
        OBVIOUS
      <3>1. InOrder(t)
        BY <1>1 DEF OrderInv
      <3>2. QED
        BY <3>1
    <2>2. QED
      BY <2>1 DEF OrderInv
  <1>2. ASSUME NEW p \in Payments, NEW a \in Amounts, Create(p, a) PROVE OrderInv'
    BY <1>1, <1>2 DEF Create
  <1>3. ASSUME NEW s \in Sessions, NEW p \in Payments, NEW c \in Changes, BeginUpdate(s, p, c[1], c[2])
        PROVE  OrderInv'
    BY <1>3, PaymentInOrder
  <1>4. ASSUME NEW s \in Sessions, NEW p \in Payments,
               BeginDelete(s, p) \/ BeginPost(s, p) \/ BeginCancel(s, p)
        PROVE  OrderInv'
    BY <1>4, PaymentInOrder
  <1>5. ASSUME NEW s \in Sessions, NEW lines \in SUBSET Lines, NEW take \in Takes \cup {None},
               BeginMatch(s, lines, take)
        PROVE  OrderInv'
    BY <1>5, BeginMatchInOrder
  <1>6. ASSUME NEW s \in Sessions, NEW m \in matches, BeginUnmatch(s, m) PROVE OrderInv'
    BY <1>6, BeginUnmatchInOrder
  <1>7. ASSUME NEW s \in Sessions,
               \/ Update(s) \/ Delete(s) \/ StampPosted(s) \/ StampCancelled(s)
               \/ InsertEntry(s) \/ ReverseEntry(s)
        PROVE  OrderInv'
    BY <1>7, WritePaymentInOrder
  <1>8. ASSUME NEW s \in Sessions, Acquire(s) \/ Match(s) \/ NextUndo(s) \/ Undo(s) PROVE OrderInv'
    BY <1>8, AcquireInOrder, MatchInOrder, NextUndoInOrder, UndoInOrder
  <1>9. ASSUME NEW s \in Sessions, Commit(s) \/ Rollback(s) \/ DeadlockVictim(s) PROVE OrderInv'
    BY <1>9, AbortInOrder, IdleInOrder, StepInOrder DEF Commit, Rollback, DeadlockVictim
  <1>10. QED
    BY <1>1, <1>2, <1>3, <1>4, <1>5, <1>6, <1>7, <1>8, <1>9 DEF Next, vars

-----------------------------------------------------------------------------
(* Where requests that match wait for one another, the row that one waits  *)
(* for comes before the row that its holder waits for.                     *)
LEMMA HeadsAscend ==
  ASSUME Inv, OpenInv, OrderInv, NEW S \in SUBSET {s \in Sessions : Matching(s)}, Stuck(S), NEW s \in S
  PROVE  /\ LockRank(Head(tx[s].queue)) \in 0..(2 * Span + 1)
         /\ \E r \in S : LockRank(Head(tx[s].queue)) < LockRank(Head(tx[r].queue))
  <1> DEFINE head(z) == Head(tx[z].queue)
  <1>1. ASSUME NEW z \in S
        PROVE  /\ z \in Sessions /\ tx[z].queue # <<>> /\ head(z) = tx[z].queue[1] /\ 1 \in DOMAIN tx[z].queue
               /\ InOrder(tx[z]) /\ tx[z].payment = None
               /\ MatchingLock(head(z)) /\ \A l \in tx[z].held : MatchingLock(l)
               /\ \E r \in S \ {z} : \E q \in tx[r].held : Conflict(q, head(z))
    <2>1. z \in Sessions /\ Matching(z) /\ InOrder(tx[z]) /\ Knows(z) /\ Locked(tx[z])
      BY TypesOf DEF OrderInv, OpenInv
    <2>2. tx[z].queue # <<>> /\ Holders(z) \cap S # {}
      BY DEF Stuck, WaitsFor
    <2>3. tx[z].payment = None
      BY <2>1, <2>2 DEF Matching, InOrder, Knows
    <2> PICK q : q = tx[z].queue
      OBVIOUS
    <2>4. IsQueue(q) /\ q # <<>>
      BY <2>1, <2>2 DEF Locked, IsQueue
    <2>5. Head(q) = q[1] /\ 1 \in DOMAIN q
      BY <2>4, QueuePlaces
    <2>6. head(z) \in Asks(tx[z]) /\ tx[z].held \subseteq Asks(tx[z])
      BY <2>5 DEF Asks, Range
    <2>7. MatchingLock(head(z)) /\ \A l \in tx[z].held : MatchingLock(l)
      <3> HIDE DEF head
      <3>1. QED
        BY <2>1, <2>3, <2>6 DEF InOrder
    <2>8. \E r \in S \ {z} : \E l \in tx[r].held : Conflict(l, head(z))
      BY <2>2 DEF Holders
    <2>9. QED
      BY <2>1, <2>2, <2>3, <2>5, <2>7, <2>8
  <1>2. ASSUME NEW z \in S
        PROVE  head(z)[1] # "share" /\ \E r \in S \ {z} : head(z) \in tx[r].held
    <2>1. PICK r \in S \ {z} : \E q \in tx[r].held : Conflict(q, head(z))
      BY <1>1
    <2> PICK q \in tx[r].held : Conflict(q, head(z))
      BY <2>1
    <2>2. MatchingLock(q) /\ MatchingLock(head(z))
      BY <1>1
    <2> HIDE DEF head
    <2>3. q[1] # "entry" /\ head(z)[1] # "entry"
      BY <2>2 DEF MatchingLock, LineLock
    <2>4. QED
      BY <2>3 DEF Conflict
  <1>3. PICK r \in S \ {s} : head(s) \in tx[r].held
    BY <1>2
  <1>4. head(r) \notin tx[r].held
    <2>1. PICK z \in S \ {r} : head(r) \in tx[z].held
      BY <1>2
    <2>2. \A l \in tx[r].held \cap tx[z].held : l[1] = "share"
      BY <1>1, <2>1 DEF Inv, HeldApart
    <2>3. QED
      BY <1>2, <2>1, <2>2
  <1> PICK q : q = head(s)
    OBVIOUS
  <1> PICK h : h = head(r)
    OBVIOUS
  <1>5. q # h /\ q[1] # "share" /\ h[1] # "share" /\ MatchingLock(q) /\ MatchingLock(h)
    BY <1>1, <1>2, <1>3, <1>4
  <1>6. h[1] \in {"match", "line"} => LockRank(q) < LockRank(h)
    <2>1. h = tx[r].queue[1] /\ 1 \in DOMAIN tx[r].queue /\ q \in tx[r].held
      BY <1>1, <1>3
    <2>2. InOrder(tx[r]) /\ tx[r].payment = None
      BY <1>1
    <2> HIDE DEF head
    <2>3. QED
      BY <2>1, <2>2 DEF InOrder
  <1> HIDE DEF head
  <1>7. h[1] \notin {"match", "line"} => LockRank(q) < LockRank(h)
    <2>1. SUFFICES ASSUME h[1] \notin {"match", "line"} PROVE LockRank(q) < LockRank(h)
      OBVIOUS
    <2>2. \A k : LineLock(k)[1] = "line"
      BY DEF LineLock
    <2>3. h = <<"counter", 1>>
      BY <1>5, <2>1, <2>2 DEF MatchingLock
    <2>4. q[1] = "match" \/ \E k \in Lines : q = LineLock(k)
      BY <1>5, <2>3 DEF MatchingLock
    <2>5. LockRank(h) = 2 * Span + 1 /\ Span \in Nat
      BY <2>3, SettlementAssumption DEF LockRank
    <2>6. LockRank(q) \in 0..(2 * Span)
      BY <2>4, <2>5, RanksOfLocks
    <2>7. QED
      BY <2>5, <2>6
  <1>8. LockRank(q) \in 0..(2 * Span + 1)
    BY <1>5, RanksOfLocks
  <1>9. QED
    BY <1>6, <1>7, <1>8 DEF head

LEMMA NeverStuck ==
  ASSUME Inv, OpenInv, OrderInv
  PROVE  MatchesQueue
  <1>1. SUFFICES ASSUME NEW S \in SUBSET {s \in Sessions : Matching(s)}, Stuck(S) PROVE FALSE
    BY DEF MatchesQueue
  <1> DEFINE rank(s) == LockRank(Head(tx[s].queue))
             top == 2 * Span + 1
             left == {top - rank(s) : s \in S}
  <1>2. \A s \in S : rank(s) \in 0..top /\ \E r \in S : rank(s) < rank(r)
    BY <1>1, HeadsAscend
  <1>3. top \in Nat
    BY SettlementAssumption
  <1> HIDE DEF rank, top
  <1>4. left \in SUBSET Nat /\ left # {}
    BY <1>1, <1>2, <1>3 DEF Stuck
  <1>5. PICK n \in left : \A m \in left : n <= m
    <2> HIDE DEF left
    <2>1. QED
      BY <1>4, NatMin
  <1>6. PICK s \in S : n = top - rank(s)
    OBVIOUS
  <1>7. PICK r \in S : rank(s) < rank(r)
    BY <1>2
  <1>8. n <= top - rank(r) /\ rank(r) \in 0..top /\ rank(s) \in 0..top
    BY <1>2, <1>5
  <1>9. QED
    BY <1>3, <1>6, <1>7, <1>8

(* Requests that match or take back matches lock their rows in one order.  *)
THEOREM OrderInvariance == Spec => []OrderInv
  <1>1. Init => OrderInv
    BY InitInOrder
  <1>2. Inv /\ OpenInv /\ OrderInv /\ [Next]_vars => OrderInv'
    BY StepOrder
  <1>3. QED
    BY <1>1, <1>2, Invariance, OpenInvariance, PTL DEF Spec

(* Requests that match or take back one match never wait for one another   *)
(* in a cycle, however many there are and whatever lines they name: they   *)
(* queue (_lock of matching.py, "ORDER BY id" and FOR UPDATE).             *)
THEOREM MatchRequestsQueue == Spec => []MatchesQueue
  <1>1. Inv /\ OpenInv /\ OrderInv => MatchesQueue
    BY NeverStuck
  <1>2. QED
    BY <1>1, Invariance, OpenInvariance, OrderInvariance, PTL

-----------------------------------------------------------------------------
(* What one request commits is one deed.                                   *)

LEMMA StepOfDeed ==
  ASSUME Inv, DeedInv, NEW s \in Sessions, NEW t, Start(s, t), Deed(t)
  PROVE  DeedInv'
  <1>1. tx'[s] = t /\ \A r \in Sessions \ {s} : tx'[r] = tx[r]
    BY TypesOf
  <1>2. ASSUME NEW r \in Sessions PROVE Deed(tx[r])'
    <2> PICK u : u = tx'[r]
      OBVIOUS
    <2>1. Deed(u)
      BY <1>1 DEF DeedInv
    <2>2. QED
      BY <2>1
  <1>3. QED
    BY <1>2 DEF DeedInv

(* A request that has taken back nothing and is not going to.              *)
LEMMA NoDeed ==
  ASSUME NEW t, t.made = {}, t.todo = {}, t.undone = {}
  PROVE  Deed(t)
  BY DEF Deed

LEMMA AbortDeed ==
  ASSUME Inv, DeedInv, NEW s \in Sessions, Abort(s)
  PROVE  DeedInv'
  <1>1. Deed(Idle)
    BY NoDeed DEF Idle
  <1>2. QED
    BY <1>1, StepOfDeed DEF Abort

(* A request begins with nothing made and nothing taken back.              *)
LEMMA BeginDeed ==
  ASSUME Inv, DeedInv, NEW s \in Sessions,
         \/ \E p \in Payments, c \in Changes : BeginUpdate(s, p, c[1], c[2])
         \/ \E p \in Payments : BeginDelete(s, p) \/ BeginPost(s, p) \/ BeginCancel(s, p)
         \/ \E lines \in SUBSET Lines, take \in Takes \cup {None} : BeginMatch(s, lines, take)
         \/ \E m \in matches : BeginUnmatch(s, m)
  PROVE  DeedInv'
  <1>1. PICK t : Start(s, t) /\ t.made = {} /\ t.undone = {}
                 /\ \/ t.todo = {}
                    \/ t.payment = None /\ \E m : t.todo = {m}
                    \/ t.payment # None /\ \A m \in t.todo : t.payment \in Sides(m)
    <2>1. ASSUME NEW p \in Payments, NEW a, NEW memo, BeginUpdate(s, p, a, memo)
          PROVE  \E t : Start(s, t) /\ t.made = {} /\ t.undone = {} /\ t.todo = {}
      <3> DEFINE t == [Idle EXCEPT !.pc = "update", !.payment = p, !.amount = a, !.memo = memo,
                                   !.queue = <<<<"payment", p>>>>]
      <3>1. Start(s, t)
        BY <2>1 DEF BeginUpdate
      <3>2. t.made = {} /\ t.undone = {} /\ t.todo = {}
        BY DEF Idle
      <3> HIDE DEF t
      <3>3. QED
        BY <3>1, <3>2
    <2>2. ASSUME NEW p \in Payments, BeginDelete(s, p)
          PROVE  \E t : Start(s, t) /\ t.made = {} /\ t.undone = {} /\ t.todo = {}
      <3> DEFINE t == [Idle EXCEPT !.pc = "delete", !.payment = p, !.queue = <<<<"payment", p>>>>]
      <3>1. Start(s, t)
        BY <2>2 DEF BeginDelete
      <3>2. t.made = {} /\ t.undone = {} /\ t.todo = {}
        BY DEF Idle
      <3> HIDE DEF t
      <3>3. QED
        BY <3>1, <3>2
    <2>3. ASSUME NEW p \in Payments, BeginPost(s, p)
          PROVE  \E t : Start(s, t) /\ t.made = {} /\ t.undone = {} /\ t.todo = {}
      <3> DEFINE was == payment[p].amount
                 t == [Idle EXCEPT !.pc = "post", !.payment = p, !.amount = was,
                                   !.queue = <<<<"counter", 0>>, <<"source", p>>>>]
      <3>1. Start(s, t)
        BY <2>3 DEF BeginPost
      <3> HIDE DEF was
      <3>2. t.made = {} /\ t.undone = {} /\ t.todo = {}
        BY DEF Idle
      <3> HIDE DEF t
      <3>3. QED
        BY <3>1, <3>2
    <2>4. ASSUME NEW p \in Payments, BeginCancel(s, p)
          PROVE  \E t : /\ Start(s, t) /\ t.made = {} /\ t.undone = {}
                        /\ t.payment # None /\ \A m \in t.todo : t.payment \in Sides(m)
      <3> PICK found : found = {m \in matches : p \in Sides(m)}
        OBVIOUS
      <3>1. PICK order : Start(s, [Idle EXCEPT !.pc = "undoing", !.payment = p, !.todo = found, !.queue = order])
        BY <2>4 DEF BeginCancel
      <3> DEFINE t == [Idle EXCEPT !.pc = "undoing", !.payment = p, !.todo = found, !.queue = order]
      <3>2. t.made = {} /\ t.undone = {} /\ t.todo = found /\ t.payment = p
        BY DEF Idle
      <3>3. Start(s, t)
        BY <3>1
      <3> HIDE DEF t
      <3>4. p # None
        BY LineIds
      <3>5. QED
        BY <3>2, <3>3, <3>4
    <2>5. ASSUME NEW lines \in SUBSET Lines, NEW take, BeginMatch(s, lines, take)
          PROVE  \E t : Start(s, t) /\ t.made = {} /\ t.undone = {} /\ t.todo = {}
      <3> PICK queue : queue = LinesOf(lines)
        OBVIOUS
      <3> DEFINE t == [Idle EXCEPT !.pc = "match", !.lines = lines, !.amount = take, !.queue = queue]
      <3>1. Start(s, t)
        BY <2>5 DEF BeginMatch
      <3>2. t.made = {} /\ t.undone = {} /\ t.todo = {}
        BY DEF Idle
      <3> HIDE DEF t
      <3>3. QED
        BY <3>1, <3>2
    <2>6. ASSUME NEW m \in matches, BeginUnmatch(s, m)
          PROVE  \E t : /\ Start(s, t) /\ t.made = {} /\ t.undone = {}
                        /\ t.payment = None /\ t.todo = {m}
      <3> DEFINE t == [Idle EXCEPT !.pc = "undoing", !.todo = {m}, !.queue = <<<<"match", m.id>>>>]
      <3>1. Start(s, t)
        BY <2>6 DEF BeginUnmatch
      <3>2. t.made = {} /\ t.undone = {} /\ t.todo = {m} /\ t.payment = None
        BY DEF Idle
      <3> HIDE DEF t
      <3>3. QED
        BY <3>1, <3>2
    <2>7. QED
      BY <2>1, <2>2, <2>3, <2>4, <2>5, <2>6
  <1>2. Deed(t)
    BY <1>1 DEF Deed
  <1>3. QED
    BY <1>1, <1>2, StepOfDeed

(* A request that goes on and makes or takes back nothing more.            *)
LEMMA GoOnDeed ==
  ASSUME Inv, DeedInv, NEW s \in Sessions, NEW t, Start(s, t),
         t.payment = tx[s].payment, t.made = tx[s].made, t.undone = tx[s].undone,
         t.todo \subseteq tx[s].todo,
         \/ t.payment = None
         \/ tx[s].undone = {}
         \/ t.opens = Reversal(t.payment)
         \/ t.pc \in {"undoing", "undo", "reverse"}
  PROVE  DeedInv'
  <1>1. Deed(tx[s])
    BY DEF DeedInv
  <1>2. Deed(t)
    BY <1>1 DEF Deed
  <1>3. QED
    BY <1>2, StepOfDeed

LEMMA AcquireDeed ==
  ASSUME Inv, DeedInv, NEW s \in Sessions, Acquire(s)
  PROVE  DeedInv'
  <1> DEFINE u == tx[s]
             t == [tx[s] EXCEPT !.held = @ \cup {Head(tx[s].queue)}, !.queue = Tail(@)]
  <1>1. Start(s, t) /\ IsRequest(u) /\ Deed(u)
    BY TypesOf DEF Acquire, DeedInv
  <1>2. /\ t.payment = u.payment /\ t.made = u.made /\ t.undone = u.undone /\ t.todo = u.todo
        /\ t.pc = u.pc /\ t.opens = u.opens
    BY <1>1 DEF IsRequest
  <1> HIDE DEF t, u
  <1>3. Deed(t)
    BY <1>1, <1>2 DEF Deed
  <1>4. QED
    BY <1>1, <1>3, StepOfDeed

(* Requests about a payment's row and entry.                               *)
LEMMA PaymentDeed ==
  ASSUME Inv, OpenInv, DeedInv, NEW s \in Sessions,
         \/ Update(s) \/ Delete(s) \/ StampPosted(s) \/ StampCancelled(s)
         \/ InsertEntry(s) \/ ReverseEntry(s)
  PROVE  DeedInv'
  <1>1. CASE ~Abort(s)
    <2> PICK u : u = tx[s]
      OBVIOUS
    <2>1. PICK here \in {"update", "delete", "post", "stamp", "reverse", "cancel"} :
            /\ At(s, here)
            /\ Update(s) => here = "update"
            /\ Delete(s) => here = "delete"
            /\ InsertEntry(s) => here = "post"
            /\ StampPosted(s) => here = "stamp"
            /\ ReverseEntry(s) => here = "reverse"
            /\ StampCancelled(s) => here = "cancel"
      BY DEF Update, Delete, StampPosted, StampCancelled, InsertEntry, ReverseEntry, At
    <2>2. u.pc = here /\ IsRequest(u) /\ Knows(s) /\ Tallies(u) /\ Deed(u)
      BY <2>1, HereOpen DEF DeedInv
    <2>3. u.payment # None /\ u.payment \in Payments /\ Reversal(u.payment) # u.payment
      BY <2>2, LineIds DEF Knows
    <2>4. /\ here \in {"update", "delete", "post", "stamp"} => u.undone = {}
          /\ here = "cancel" => u.opens = Reversal(u.payment)
      BY <2>2, <2>3 DEF Knows, Tallies, Deed
    <2>5. CASE Update(s) \/ Delete(s) \/ StampPosted(s) \/ StampCancelled(s)
      <3>1. PICK row : Start(s, [[u EXCEPT !.row = row] EXCEPT !.pc = "commit", !.queue = <<>>])
        BY <1>1, <2>5 DEF Update, Delete, StampPosted, StampCancelled, Goto, Start
      <3> DEFINE t == [[u EXCEPT !.row = row] EXCEPT !.pc = "commit", !.queue = <<>>]
      <3>2. /\ t.payment = u.payment /\ t.made = u.made /\ t.undone = u.undone /\ t.todo = u.todo
            /\ t.opens = u.opens
        BY <2>2 DEF IsRequest
      <3>3. Start(s, t)
        BY <3>1
      <3> HIDE DEF t
      <3>4. u.undone = {} \/ t.opens = Reversal(t.payment)
        BY <2>1, <2>4, <2>5, <3>2
      <3>5. QED
        BY <3>2, <3>3, <3>4, GoOnDeed
    <2>6. CASE InsertEntry(s)
      <3> DEFINE p == u.payment
                 open == [l \in {p} |-> u.amount]
                 queue == <<<<"payment", p>>>>
                 t == [[u EXCEPT !.opens = p, !.open = open] EXCEPT !.pc = "stamp", !.queue = queue]
      <3>1. Start(s, t)
        BY <1>1, <2>6 DEF InsertEntry, Goto, Start
      <3> HIDE DEF open, queue
      <3>2. t.payment = u.payment /\ t.made = u.made /\ t.undone = u.undone /\ t.todo = u.todo
        BY <2>2 DEF IsRequest
      <3> HIDE DEF t
      <3>3. u.undone = {}
        BY <2>1, <2>4, <2>6
      <3>4. QED
        BY <3>1, <3>2, <3>3, GoOnDeed
    <2>7. CASE ReverseEntry(s)
      <3> DEFINE p == u.payment
                 r == Reversal(p)
                 open == Writes(u, [l \in {r} |-> amount[p]])
                 queue == <<<<"counter", 0>>, <<"payment", p>>>>
                 t == [[u EXCEPT !.opens = r, !.open = open] EXCEPT !.pc = "cancel", !.queue = queue]
      <3>1. Start(s, t)
        BY <1>1, <2>7 DEF ReverseEntry, Goto, Start
      <3> HIDE DEF open, queue
      <3>2. /\ t.payment = u.payment /\ t.made = u.made /\ t.undone = u.undone /\ t.todo = u.todo
            /\ t.opens = Reversal(t.payment)
        BY <2>2 DEF IsRequest
      <3> HIDE DEF t
      <3>3. QED
        BY <3>1, <3>2, GoOnDeed
    <2>8. QED
      BY <2>5, <2>6, <2>7
  <1>2. QED
    BY <1>1, AbortDeed

LEMMA MatchDeed ==
  ASSUME Inv, OpenInv, DeedInv, NEW s \in Sessions, Match(s)
  PROVE  DeedInv'
  <1>1. CASE ~Abort(s)
    <2> PICK u : u = tx[s]
      OBVIOUS
    <2>1. At(s, "match") \/ At(s, "matched")
      BY DEF Match
    <2>2. u.pc \in {"match", "matched"} /\ IsRequest(u) /\ Knows(s) /\ Tallies(u) /\ Deed(u)
      BY <2>1, HereOpen DEF DeedInv
    <2>3. u.payment = None /\ u.undone = {}
      BY <2>2 DEF Knows, Tallies
    <2>4. PICK d, c, take : Settle(s, u, d, c, take)
      BY <1>1 DEF Match
    <2> DEFINE m == [id |-> NextId, debit |-> d, credit |-> c, amount |-> take]
               open == Writes(u, [l \in {d, c} |-> Open(u, l) - take])
               made == u.made \cup {m}
               done == [u EXCEPT !.made = made, !.open = open]
               pc == IF Pairs(done) = {} \/ u.amount # None THEN "commit" ELSE "matched"
               queue == EntriesOf({d, c}) \o Difference(m)
               t == [done EXCEPT !.pc = pc, !.queue = queue]
    <2>5. Start(s, t)
      BY <2>4 DEF Settle, Goto, Start
    <2> HIDE DEF m, open, pc, queue, made
    <2>6. t.payment = None /\ t.undone = {} /\ t.todo = u.todo
      BY <2>2, <2>3 DEF IsRequest
    <2> HIDE DEF t, done
    <2>7. Deed(t)
      BY <2>2, <2>3, <2>6 DEF Deed
    <2>8. QED
      BY <2>5, <2>7, StepOfDeed
  <1>2. QED
    BY <1>1, AbortDeed

LEMMA NextUndoDeed ==
  ASSUME Inv, OpenInv, DeedInv, NEW s \in Sessions, NextUndo(s)
  PROVE  DeedInv'
  <1>1. CASE ~Abort(s)
    <2> PICK u : u = tx[s]
      OBVIOUS
    <2>1. /\ At(s, "undoing")
          /\ \/ \E m \in u.todo \cap matches :
                  Goto(s, [u EXCEPT !.todo = u.todo \cap matches, !.match = m], "undo", LinesOf(Sides(m)))
             \/ Goto(s, u, "reverse", <<EntryLock(u.payment)>>)
             \/ u.payment = None /\ Goto(s, u, "commit", <<>>)
      BY <1>1 DEF NextUndo, EntryLock
    <2>2. u.pc = "undoing" /\ IsRequest(u)
      BY <2>1, HereOpen
    <2>3. ASSUME NEW m \in u.todo \cap matches,
                 Goto(s, [u EXCEPT !.todo = u.todo \cap matches, !.match = m], "undo", LinesOf(Sides(m)))
          PROVE  DeedInv'
      <3> DEFINE todo == u.todo \cap matches
                 queue == LinesOf(Sides(m))
                 t == [[u EXCEPT !.todo = todo, !.match = m] EXCEPT !.pc = "undo", !.queue = queue]
      <3>1. Start(s, t)
        BY <2>3 DEF Goto, Start
      <3> HIDE DEF queue
      <3>2. /\ t.payment = u.payment /\ t.made = u.made /\ t.undone = u.undone
            /\ t.todo \subseteq u.todo /\ t.pc = "undo"
        BY <2>2 DEF IsRequest
      <3> HIDE DEF t
      <3>3. QED
        BY <3>1, <3>2, GoOnDeed
    <2>4. ASSUME NEW pc, NEW queue, Goto(s, u, pc, queue), pc = "reverse" \/ u.payment = None
          PROVE  DeedInv'
      <3> DEFINE t == [u EXCEPT !.pc = pc, !.queue = queue]
      <3>1. Start(s, t)
        BY <2>4 DEF Goto, Start
      <3>2. /\ t.payment = u.payment /\ t.made = u.made /\ t.undone = u.undone
            /\ t.todo = u.todo /\ t.pc = pc
        BY <2>2 DEF IsRequest
      <3> HIDE DEF t
      <3>3. QED
        BY <2>4, <3>1, <3>2, GoOnDeed
    <2>5. QED
      BY <2>1, <2>3, <2>4
  <1>2. QED
    BY <1>1, AbortDeed

LEMMA UndoDeed ==
  ASSUME Inv, OpenInv, DeedInv, NEW s \in Sessions, Undo(s)
  PROVE  DeedInv'
  <1> PICK u : u = tx[s]
    OBVIOUS
  <1> PICK m : m = u.match
    OBVIOUS
  <1> DEFINE todo == u.todo \ {m}
             undone == u.undone \cup {m}
             open == Writes(u, [l \in Sides(m) |-> Open(u, l) + m.amount])
             queue == Difference(m) \o EntriesOf(Sides(m))
             t == [[u EXCEPT !.todo = todo, !.match = None, !.undone = undone, !.open = open]
                     EXCEPT !.pc = "undoing", !.queue = queue]
  <1>1. Start(s, t) /\ At(s, "undo")
    BY DEF Undo, Goto, Start
  <1>2. u.pc = "undo" /\ IsRequest(u) /\ Tallies(u) /\ Deed(u)
    BY <1>1, HereOpen DEF DeedInv
  <1>3. todo \cup undone \subseteq u.todo \cup u.undone /\ u.made = {}
    BY <1>2 DEF Tallies
  <1> HIDE DEF todo, undone, open, queue
  <1>4. /\ t.payment = u.payment /\ t.made = {} /\ t.undone = undone /\ t.todo = todo /\ t.pc = "undoing"
    BY <1>2, <1>3 DEF IsRequest
  <1> HIDE DEF t
  <1>5. Deed(t)
    BY <1>2, <1>3, <1>4 DEF Deed
  <1>6. QED
    BY <1>1, <1>5, StepOfDeed

LEMMA StepDeed == ASSUME Inv, OpenInv, DeedInv, [Next]_vars PROVE DeedInv'
  <1>1. ASSUME UNCHANGED tx PROVE DeedInv'
    <2>1. ASSUME NEW s \in Sessions PROVE Deed(tx[s])'
      <3> PICK t : t = tx'[s]
        OBVIOUS
      <3>1. Deed(t)
        BY <1>1 DEF DeedInv
      <3>2. QED
        BY <3>1
    <2>2. QED
      BY <2>1 DEF DeedInv
  <1>2. ASSUME NEW p \in Payments, NEW a \in Amounts, Create(p, a) PROVE DeedInv'
    BY <1>1, <1>2 DEF Create
  <1>3. ASSUME NEW s \in Sessions,
               \/ \E p \in Payments, c \in Changes : BeginUpdate(s, p, c[1], c[2])
               \/ \E p \in Payments : BeginDelete(s, p) \/ BeginPost(s, p) \/ BeginCancel(s, p)
               \/ \E lines \in SUBSET Lines, take \in Takes \cup {None} : BeginMatch(s, lines, take)
               \/ \E m \in matches : BeginUnmatch(s, m)
        PROVE  DeedInv'
    BY <1>3, BeginDeed
  <1>4. ASSUME NEW s \in Sessions,
               \/ Update(s) \/ Delete(s) \/ StampPosted(s) \/ StampCancelled(s)
               \/ InsertEntry(s) \/ ReverseEntry(s)
        PROVE  DeedInv'
    BY <1>4, PaymentDeed
  <1>5. ASSUME NEW s \in Sessions, Acquire(s) \/ Match(s) \/ NextUndo(s) \/ Undo(s) PROVE DeedInv'
    BY <1>5, AcquireDeed, MatchDeed, NextUndoDeed, UndoDeed
  <1>6. ASSUME NEW s \in Sessions, Commit(s) \/ Rollback(s) \/ DeadlockVictim(s) PROVE DeedInv'
    <2>1. Deed(Idle)
      BY NoDeed DEF Idle
    <2>2. QED
      BY <1>6, <2>1, AbortDeed, StepOfDeed DEF Commit, Rollback, DeadlockVictim
  <1>7. QED
    BY <1>1, <1>2, <1>3, <1>4, <1>5, <1>6 DEF Next, vars

-----------------------------------------------------------------------------
(* A commit is a step of the abstract account.                             *)

LEMMA MatchedTogether ==
  ASSUME NEW ms, NEW ns, IsFiniteSet(ms), IsFiniteSet(ns), ms \cap ns = {},
         \A m \in ms \cup ns : m.amount \in Nat, NEW l
  PROVE  Matched(ms \cup ns, l) = Matched(ms, l) + Matched(ns, l)
  <1> PICK S : S = Touching(ms, l)
    OBVIOUS
  <1> PICK R : R = Touching(ns, l)
    OBVIOUS
  <1> PICK f : f = [m \in S \cup R |-> m.amount]
    OBVIOUS
  <1>1. Touching(ms \cup ns, l) = S \cup R /\ S \cap R = {}
    BY DEF Touching
  <1>2. IsFiniteSet(S) /\ IsFiniteSet(R) /\ IntOn(f, S \cup R)
    <2>1. IsFiniteSet(S) /\ IsFiniteSet(R)
      BY MatchedNat
    <2>2. \A m \in S \cup R : f[m] \in Int
      BY DEF Touching
    <2>3. QED
      BY <2>1, <2>2 DEF IntOn
  <1>3. SumFunctionOnSet(f, S \cup R) = SumFunctionOnSet(f, S) + SumFunctionOnSet(f, R)
    BY <1>1, <1>2, SumSplit
  <1>4. SumFunctionOnSet(f, S) = Matched(ms, l)
    <2> PICK g : g = [m \in S |-> m.amount]
      OBVIOUS
    <2>1. \A m \in S : f[m] = g[m]
      OBVIOUS
    <2>2. QED
      BY <1>2, <2>1, SumSame DEF Matched
  <1>5. SumFunctionOnSet(f, R) = Matched(ns, l)
    <2> PICK g : g = [m \in R |-> m.amount]
      OBVIOUS
    <2>1. \A m \in R : f[m] = g[m]
      OBVIOUS
    <2>2. QED
      BY <1>2, <2>1, SumSame DEF Matched
  <1>6. Matched(ms \cup ns, l) = SumFunctionOnSet(f, S \cup R)
    BY <1>1 DEF Matched
  <1>7. QED
    BY <1>3, <1>4, <1>5, <1>6

(* What is open of a line that was there changes by the matches made and   *)
(* taken back.                                                             *)
LEMMA CommitKeeps ==
  ASSUME Inv, OpenInv, NEW s \in Sessions, Commit(s), NEW u, u = tx[s]
  PROVE  /\ matches' \ matches = u.made /\ matches \ matches' = u.undone
         /\ Posted \subseteq Posted' /\ Posted' \subseteq Posted \cup {u.opens}
         /\ \A l \in Posted :
              /\ amount'[l] = amount[l]
              /\ residual'[l] = residual[l] + Matched(u.undone, l) - Matched(u.made, l)
              /\ residual'[l] >= 0
         /\ \A l : Matched({}, l) = 0
  <1>1. /\ Tallies(u) /\ matches' = MatchesAfter(u)
        /\ \A l \in Lines : amount'[l] = AmountAfter(u, l)
        /\ Posted \subseteq Posted' /\ Posted' \subseteq Posted \cup {u.opens}
    BY CommittedRows
  <1>2. Balanced /\ Balanced'
    BY CommitBalances DEF OpenInv
  <1> PICK rest : rest = matches \ u.undone
    OBVIOUS
  <1>3. /\ matches = rest \cup u.undone /\ matches' = rest \cup u.made
        /\ rest \cap u.undone = {} /\ rest \cap u.made = {} /\ u.made \cap matches = {}
    BY <1>1 DEF Tallies, MatchesAfter
  <1>4. IsFiniteSet(rest) /\ IsFiniteSet(u.undone) /\ IsFiniteSet(u.made)
    BY <1>1, <1>2, <1>3, FS_Subset DEF Balanced, Tallies
  <1>5. \A m \in matches \cup u.made : m.amount \in Nat \ {0}
    BY <1>1, <1>2 DEF Balanced, Tallies, MatchRows
  <1>6. ASSUME NEW l \in Posted
        PROVE  /\ amount'[l] = amount[l]
               /\ residual'[l] = residual[l] + Matched(u.undone, l) - Matched(u.made, l)
               /\ residual'[l] >= 0
    <2>1. l \in Lines /\ l \in Posted' /\ l # u.opens
      BY <1>1, LineIds DEF Posted, Tallies
    <2>2. amount'[l] = amount[l]
      BY <1>1, <2>1 DEF AmountAfter
    <2>3. /\ residual[l] \in Nat /\ residual[l] = amount[l] - Matched(matches, l)
          /\ residual'[l] \in Nat /\ residual'[l] = amount'[l] - Matched(matches', l)
      BY <1>2, <2>1 DEF Balanced
    <2>4. Matched(matches, l) = Matched(rest, l) + Matched(u.undone, l)
      BY <1>3, <1>4, <1>5, MatchedTogether
    <2>5. Matched(matches', l) = Matched(rest, l) + Matched(u.made, l)
      BY <1>3, <1>4, <1>5, MatchedTogether
    <2>6. Matched(rest, l) \in Nat /\ Matched(u.undone, l) \in Nat /\ Matched(u.made, l) \in Nat
      BY <1>3, <1>4, <1>5, MatchedNat
    <2>7. amount[l] \in Nat
      BY LinesAreIds DEF Posted, Inv, Typed
    <2>8. QED
      BY <2>2, <2>3, <2>4, <2>5, <2>6, <2>7
  <1>7. \A l : Matched({}, l) = 0
    BY MatchedNone DEF Touching
  <1>8. QED
    BY <1>1, <1>3, <1>6, <1>7 DEF Tallies

LEMMA CommitKeepsAccount ==
  ASSUME Inv, OpenInv, NEW s \in Sessions, Commit(s)
  PROVE  AbstractAccount!Keeps
  <1>1. /\ matches' \ matches = tx[s].made /\ matches \ matches' = tx[s].undone
        /\ Posted \subseteq Posted'
        /\ \A l \in Posted :
              /\ amount'[l] = amount[l]
              /\ residual'[l] = residual[l] + Matched(tx[s].undone, l) - Matched(tx[s].made, l)
              /\ residual'[l] >= 0
    BY CommitKeeps
  <1>2. QED
    BY <1>1 DEF AbstractAccount!Keeps, AbstractAccount!Lines, AbstractAccount!New, AbstractAccount!Gone

(* What other steps leave alone.                                           *)
LEMMA AccountStays ==
  ASSUME UNCHANGED <<amount, residual, matches>>
  PROVE  UNCHANGED AbstractAccount!vars
  BY DEF AbstractAccount!vars, Posted, Reversals

(* Which payments are reversed after a commit.                             *)
LEMMA CommitReverses ==
  ASSUME Inv, OpenInv, NEW s \in Sessions, Commit(s)
  PROVE  \A p \in Payments :
           amount'[Reversal(p)] # None <=> amount[Reversal(p)] # None \/ tx[s].opens = Reversal(p)
  <1> PICK u : u = tx[s]
    OBVIOUS
  <1>1. /\ Tallies(u) /\ \A l \in DOMAIN u.open : l \in Posted'
        /\ Posted \subseteq Posted' /\ Posted' \subseteq Posted \cup {u.opens}
    BY CommittedRows
  <1>2. \A p \in Payments : Reversal(p) \in Lines /\ Reversal(p) # None
    BY LineIds
  <1>3. u.opens # None => u.opens \in Posted'
    BY <1>1 DEF Tallies
  <1>4. QED
    BY <1>1, <1>2, <1>3 DEF Posted

LEMMA CommitOfAccount ==
  ASSUME Inv, OpenInv, DeedInv, NEW s \in Sessions, Commit(s)
  PROVE  [AbstractAccount!Next]_(AbstractAccount!vars)
  <1> PICK u : u = tx[s]
    OBVIOUS
  <1> PICK p : p = u.payment
    OBVIOUS
  <1>1. /\ Tallies(u) /\ Deed(u) /\ u.pc = "commit" /\ Knows(s) /\ Written(s)
        /\ matches' \ matches = u.made /\ matches \ matches' = u.undone
        /\ Posted \subseteq Posted' /\ Posted' \subseteq Posted \cup {u.opens}
        /\ \A l \in Posted :
              /\ amount'[l] = amount[l]
              /\ residual'[l] = residual[l] + Matched(u.undone, l) - Matched(u.made, l)
        /\ \A l : Matched({}, l) = 0
    <2>1. Tallies(u) /\ Deed(u) /\ Knows(s) /\ Written(s)
      BY DEF Inv, OpenInv, DeedInv
    <2>2. u.pc = "commit"
      BY DEF Commit, At
    <2>3. QED
      BY <2>1, <2>2, CommitKeeps
  <1>2. /\ \A l \in Lines : amount'[l] = AmountAfter(u, l) /\ residual'[l] = Open(u, l)
        /\ \A l \in DOMAIN u.open : l \in Posted'
    BY CommittedRows
  <1>3. AbstractAccount!Keeps
    BY CommitKeepsAccount
  <1>4. /\ \A l \in Posted : residual[l] \in Nat
        /\ \A m \in matches \cup u.made : m \in MatchRows
    <2>1. Balanced
      BY DEF OpenInv
    <2>2. u.made \subseteq MatchRows
      BY <1>1 DEF Tallies
    <2>3. Posted \subseteq Lines
      BY DEF Posted
    <2>4. QED
      BY <2>1, <2>2, <2>3 DEF Balanced
  <1>5. \A q \in Payments :
          amount'[Reversal(q)] # None <=> amount[Reversal(q)] # None \/ u.opens = Reversal(q)
    BY CommitReverses
  <1>6. /\ \A q \in Payments : q \in Lines /\ Reversal(q) \in Lines /\ q # None /\ Reversal(q) # None
        /\ \A q, r \in Payments : Reversal(q) # r /\ (Reversal(q) = Reversal(r) => q = r)
    BY LineIds
  <1>7. CASE u.opens = None
    <2>1. Posted' = Posted
      BY <1>1, <1>7, LineIds DEF Posted
    <2>2. [l \in Posted |-> amount[l]]' = [l \in Posted |-> amount[l]]
      BY <1>1, <2>1
    <2>3. Reversals' = Reversals
      BY <1>5, <1>6, <1>7 DEF Reversals
    <2>4. CASE u.made # {}
      <3>1. u.undone = {}
        BY <1>1, <2>4 DEF Deed
      <3>2. ASSUME NEW m \in u.made
            PROVE  Sides(m) \subseteq Posted /\ \A l \in Sides(m) : Matched({m}, l) > 0
        <4>1. Sides(m) \subseteq Posted
          BY <1>1 DEF Tallies
        <4>2. m.amount \in Nat \ {0}
          BY <1>4 DEF MatchRows
        <4>3. ASSUME NEW l \in Sides(m) PROVE Matched({m}, l) > 0
          <5>1. Matched({} \cup {m}, l) = Matched({}, l) + m.amount
            BY <4>2, MatchedMore, FS_EmptySet
          <5>2. {} \cup {m} = {m}
            OBVIOUS
          <5>3. Matched({m}, l) = Matched({}, l) + m.amount
            BY <5>1, <5>2
          <5>4. Matched({}, l) = 0
            BY <1>1
          <5>5. QED
            BY <4>2, <5>3, <5>4
        <4>4. QED
          BY <4>1, <4>3
      <3>3. AbstractAccount!Settle
        BY <1>1, <1>3, <2>2, <2>3, <3>1, <3>2
           DEF AbstractAccount!Settle, AbstractAccount!Lines, AbstractAccount!New, AbstractAccount!Gone
      <3>4. QED
        BY <3>3 DEF AbstractAccount!Next
    <2>5. CASE u.made = {} /\ u.undone # {}
      <3>1. p = None
        BY <1>1, <1>6, <1>7, <2>5 DEF Deed, Knows
      <3>2. PICK m \in u.undone : u.undone = {m}
        BY <1>1, <2>5, <3>1 DEF Deed
      <3>3. m \in matches
        BY <1>1 DEF Tallies
      <3>4. AbstractAccount!TakeBack
        BY <1>1, <1>3, <2>2, <2>3, <2>5, <3>2, <3>3
           DEF AbstractAccount!TakeBack, AbstractAccount!New, AbstractAccount!Gone
      <3>5. QED
        BY <3>4 DEF AbstractAccount!Next
    <2>6. CASE u.made = {} /\ u.undone = {}
      <3>1. matches' = matches
        BY <1>1, <2>6
      <3>2. [l \in Posted |-> residual[l]]' = [l \in Posted |-> residual[l]]
        BY <1>1, <1>4, <2>1, <2>6
      <3>3. QED
        BY <2>2, <2>3, <3>1, <3>2 DEF AbstractAccount!vars
    <2>7. QED
      BY <2>4, <2>5, <2>6
  <1>8. CASE u.opens # None
    <2>1. /\ p \in Payments
          /\ Posts(u) \/ Cancels(u)
          /\ u.opens \in DOMAIN u.open /\ u.opens \notin Posted /\ u.opens \in Lines
      BY <1>1, <1>8 DEF Written, MatchesOnly, Edits, Knows, Tallies
    <2>2. /\ Posted' = Posted \cup {u.opens}
          /\ amount'[u.opens] = u.open[u.opens] /\ residual'[u.opens] = u.open[u.opens]
      BY <1>1, <1>2, <2>1 DEF AmountAfter, Open
    <2>3. u.made = {}
      BY <1>1, <1>6, <2>1 DEF Deed
    <2>4. CASE Posts(u)
      <3>1. u.opens = p /\ u.open[p] \in Amounts
        BY <2>4 DEF Posts
      <3>2. u.undone = {}
        BY <1>1, <1>6, <2>1, <3>1 DEF Deed
      <3>3. matches' = matches
        BY <1>1, <2>3, <3>2
      <3>4. Reversals' = Reversals
        <4>1. \A q \in Payments : Reversal(q) # u.opens
          BY <1>6, <2>1, <3>1
        <4>2. QED
          BY <1>5, <4>1 DEF Reversals
      <3>5. u.open[p] > 0
        <4>1. u.open[p] \in Nat \ {0}
          BY <3>1, LinesAreIds
        <4>2. QED
          BY <4>1
      <3>6. AbstractAccount!Post
        BY <1>3, <2>1, <2>2, <3>1, <3>3, <3>4, <3>5
           DEF AbstractAccount!Post, AbstractAccount!Opens, AbstractAccount!Lines
      <3>7. QED
        BY <3>6 DEF AbstractAccount!Next
    <2>5. CASE Cancels(u)
      <3>1. u.opens = Reversal(p) /\ u.open[Reversal(p)] = amount[p] /\ payment[p].state = "posted"
        BY <2>5 DEF Cancels
      <3>2. p \in Posted
        BY <1>6, <2>1, <3>1 DEF Inv, EntriesFollowState, Posted
      <3>3. \A m \in u.undone : p \in Sides(m)
        BY <1>1, <1>6, <2>1 DEF Deed
      <3>4. Reversals' = Reversals \cup {<<p, Reversal(p)>>}
        <4>1. \A q \in Payments : amount'[Reversal(q)] # None <=> (amount[Reversal(q)] # None \/ q = p)
          BY <1>5, <1>6, <2>1, <3>1
        <4>2. QED
          BY <2>1, <4>1 DEF Reversals
      <3>5. \A x \in Reversals : x[1] # p
        BY <1>6, <2>1, <3>1 DEF Posted, Reversals
      <3>6. AbstractAccount!Opens(Reversal(p), amount[p])
        BY <2>1, <2>2, <3>1 DEF AbstractAccount!Opens, AbstractAccount!Lines
      <3>7. AbstractAccount!Reverse
        <4> PICK was : was = [l \in Posted |-> amount[l]]
          OBVIOUS
        <4>1. was[p] = amount[p] /\ p \in DOMAIN was /\ Reversal(p) \in Posted'
          BY <2>2, <3>1, <3>2
        <4>2. /\ Reversal(p) \in DOMAIN [l \in Posted |-> amount[l]]'
              /\ AbstractAccount!Opens(Reversal(p), was[p])
          BY <3>6, <4>1 DEF AbstractAccount!Opens
        <4>3. AbstractAccount!New = {} /\ \A m \in AbstractAccount!Gone : p \in Sides(m)
          BY <1>1, <2>3, <3>3 DEF AbstractAccount!New, AbstractAccount!Gone
        <4>4. QED
          BY <1>3, <3>4, <3>5, <4>1, <4>2, <4>3
             DEF AbstractAccount!Reverse, AbstractAccount!Lines, AbstractAccount!Opens
      <3>8. QED
        BY <3>7 DEF AbstractAccount!Next
    <2>6. QED
      BY <2>1, <2>4, <2>5
  <1>9. QED
    BY <1>7, <1>8

LEMMA WritesNothing ==
  ASSUME [Next]_vars, ~\E s \in Sessions : Commit(s)
  PROVE  UNCHANGED <<amount, residual, matches>>
  <1>1. ASSUME NEW s \in Sessions,
               Abort(s) \/ Update(s) \/ Delete(s) \/ InsertEntry(s) \/ StampPosted(s)
        PROVE  UNCHANGED rows
    BY <1>1 DEF Update, Delete, InsertEntry, StampPosted, Abort
  <1>2. ASSUME NEW s \in Sessions,
               Match(s) \/ NextUndo(s) \/ Undo(s) \/ ReverseEntry(s) \/ StampCancelled(s)
        PROVE  UNCHANGED rows
    BY <1>2 DEF Match, NextUndo, Undo, ReverseEntry, StampCancelled, Abort
  <1>3. QED
    BY <1>1, <1>2 DEF Next, vars, rows, Create, BeginUpdate, BeginDelete, BeginPost, BeginCancel,
                      BeginMatch, BeginUnmatch, Acquire, Rollback, DeadlockVictim

LEMMA InitOfAccount == ASSUME Init PROVE AbstractAccount!Init /\ DeedInv
  <1>1. DeedInv
    BY NoDeed DEF Init, DeedInv, Idle
  <1>2. \A p \in Payments : amount[Reversal(p)] = None
    <2>1. \A p \in Payments : Reversal(p) \in Lines /\ Reversal(p) \notin Invoices
      <3>1. Span \in Nat /\ Invoices \cup Payments \subseteq 0..(Span - 1)
        BY SettlementAssumption
      <3>2. QED
        BY <3>1, LineIds DEF Reversal
    <2>2. QED
      BY <2>1 DEF Init
  <1>3. residual = amount /\ matches = {}
    BY DEF Init
  <1>4. QED
    BY <1>1, <1>2, <1>3 DEF AbstractAccount!Init, Reversals

(* Each request commits one deed. *)
THEOREM DeedInvariance == Spec => []DeedInv
  <1>1. Init => DeedInv
    BY InitOfAccount
  <1>2. Inv /\ OpenInv /\ DeedInv /\ [Next]_vars => DeedInv'
    BY StepDeed
  <1>3. QED
    BY <1>1, <1>2, Invariance, OpenInvariance, PTL DEF Spec

(* Whatever requests race over lines and matches, the account they settle  *)
(* is the abstract one: every commit of matching.py and payments.py is one *)
(* of its steps, made of what is committed at that moment.                 *)
THEOREM ImplementsAccount == Spec => RefinesAccount
  <1>1. Init => AbstractAccount!Init
    BY InitOfAccount
  <1>2. Inv /\ OpenInv /\ DeedInv /\ [Next]_vars => [AbstractAccount!Next]_(AbstractAccount!vars)
    <2> SUFFICES ASSUME Inv, OpenInv, DeedInv, [Next]_vars
                 PROVE  [AbstractAccount!Next]_(AbstractAccount!vars)
      OBVIOUS
    <2>1. CASE \E s \in Sessions : Commit(s)
      BY <2>1, CommitOfAccount
    <2>2. CASE ~\E s \in Sessions : Commit(s)
      BY <2>2, WritesNothing, AccountStays
    <2>3. QED
      BY <2>1, <2>2
  <1>3. QED
    BY <1>1, <1>2, Invariance, OpenInvariance, DeedInvariance, PTL
       DEF Spec, RefinesAccount, AbstractAccount!Spec
=============================================================================
