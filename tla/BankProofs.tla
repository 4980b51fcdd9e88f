---------------------------- MODULE BankProofs ----------------------------
(* What BankReconciliation guarantees for every set of sessions, statement *)
(* lines, payments and entries, whichever series they are numbered in;     *)
(* then what Users and StatementImport do, of rows that Identity and       *)
(* ImportedRows declare.                                                   *)
EXTENDS BankReconciliation, Identity, ImportedRows, SumProofs, FiniteSetTheorems, TLAPS

LEMMA LockClash == ASSUME NEW u PROVE Clash(<<u, "update">>, <<u, "update">>)
  <1>1. Strength("update") = 4
    BY DEF Strength
  <1>2. Conflicting("update", "update")
    BY <1>1 DEF Conflicting
  <1>3. QED
    BY <1>2 DEF Clash

LEMMA TypesOf ==
  ASSUME Inv, NEW s \in Sessions
  PROVE  /\ IsRequest(tx[s]) /\ Knows(s)
         /\ \A t : Start(s, t) =>
              tx'[s] = t /\ tx' = [r \in Sessions |-> tx'[r]] /\ \A r \in Sessions \ {s} : tx'[r] = tx[r]
  BY DEF Inv, Typed, Start

LEMMA OneQueue == ASSUME NEW l PROVE <<l>> # <<>> /\ Head(<<l>>) = l /\ Tail(<<l>>) = <<>>
  OBVIOUS

-----------------------------------------------------------------------------
(* Steps that write no table.                                              *)

LEMMA StepOfOne ==
  ASSUME Inv, NEW s \in Sessions, NEW t, IsRequest(t), Start(s, t), UNCHANGED books,
         \A r \in Sessions \ {s} : \A l \in StatementLines :
           Lock("statement_line", l, "update") \in t.held => ~Owns(r, l),
         \A r \in Sessions \ {s} : t.entry # None => tx[r].entry # t.entry,
         Knows(s)'
  PROVE  Inv'
  <1>1. /\ tx'[s] = t /\ tx' = [r \in Sessions |-> tx'[r]]
        /\ \A r \in Sessions \ {s} : tx'[r] = tx[r]
        /\ line' = line /\ entry' = entry /\ matches' = matches /\ closed' = closed
    BY TypesOf DEF books
  <1>2. Typed' /\ BankMovesOnce' /\ LeavesOnce'
    BY <1>1 DEF Inv, Typed, BankMovesOnce, LeavesOnce, MatchesOf
  <1>3. LinesApart'
    BY <1>1 DEF Inv, LinesApart, Owns
  <1>4. EntriesApart'
    BY <1>1 DEF Inv, EntriesApart
  <1>5. ASSUME NEW r \in Sessions PROVE Knows(r)'
    <2>1. CASE r = s
      BY <2>1
    <2>2. CASE r # s
      <3>1. tx'[r] = tx[r] /\ Knows(r)
        BY <1>1, <2>2 DEF Inv
      <3>2. /\ \A l : Owns(r, l)' <=> Owns(r, l)
            /\ Locking(r)' <=> Locking(r)
        BY <3>1 DEF Owns, Locking
      <3>3. QED
        BY <1>1, <3>1, <3>2 DEF Knows
    <2>3. QED
      BY <2>1, <2>2
  <1>6. QED
    BY <1>2, <1>3, <1>4, <1>5 DEF Inv

(* A request that goes on with its locks and its bank entry, if any.       *)
LEMMA GoOn ==
  ASSUME Inv, NEW s \in Sessions, NEW t, IsRequest(t), Start(s, t), UNCHANGED books,
         t.held = tx[s].held, t.entry = tx[s].entry, Knows(s)'
  PROVE  Inv'
  <1>1. \A r \in Sessions \ {s} : \A l \in StatementLines :
          Lock("statement_line", l, "update") \in t.held => ~Owns(r, l)
    BY DEF Inv, LinesApart, Owns
  <1>2. \A r \in Sessions \ {s} : t.entry # None => tx[r].entry # t.entry
    BY DEF Inv, EntriesApart
  <1>3. QED
    BY <1>1, <1>2, StepOfOne

LEMMA IdleRequest == IsRequest(Idle) /\ Idle.held = {} /\ Idle.entry = None /\ Idle.pc = "idle"
  BY DEF IsRequest, Idle

LEMMA AbortStep ==
  ASSUME Inv, NEW s \in Sessions, Abort(s)
  PROVE  Inv'
  <1>1. Start(s, Idle) /\ UNCHANGED books /\ tx'[s] = Idle
    BY TypesOf DEF Abort
  <1>2. Knows(s)'
    BY <1>1 DEF Knows, Idle, Reconciling, Undoing, Cancelling
  <1>3. Idle.held = {} /\ Idle.entry = None
    BY DEF Idle
  <1>4. QED
    BY <1>1, <1>2, <1>3, IdleRequest, StepOfOne

LEMMA AcquireStep ==
  ASSUME Inv, NEW s \in Sessions, Acquire(s)
  PROVE  Inv'
  <1> DEFINE t == WithLock(tx[s])
             head == Head(tx[s].queue)
  <1>1. /\ Start(s, t) /\ UNCHANGED books /\ tx'[s] = t /\ IsRequest(tx[s]) /\ Knows(s)
        /\ tx[s].queue # <<>> /\ DOMAIN tx = Sessions /\ line' = line /\ entry' = entry
    BY TypesOf DEF Acquire, CanTakeLock, Inv, Typed, books
  <1>2. /\ t.held = tx[s].held \cup {head} /\ t.queue = Tail(tx[s].queue)
        /\ t.pc = tx[s].pc /\ t.line = tx[s].line /\ t.payment = tx[s].payment
        /\ t.entry = tx[s].entry /\ t.undone = tx[s].undone /\ t.matched = tx[s].matched
        /\ IsRequest(t)
    BY <1>1 DEF WithLock, IsRequest
  <1>3. ASSUME NEW r \in Sessions \ {s}, NEW l \in StatementLines,
               Lock("statement_line", l, "update") \in t.held
        PROVE  ~Owns(r, l)
    <2>1. CASE Owns(s, l)
      BY <2>1 DEF Inv, LinesApart
    <2>2. CASE head = Lock("statement_line", l, "update")
      <3>1. \A k \in tx[r].held : ~Clash(k, head)
        BY <1>1 DEF Acquire, CanTakeLock, WaitsFor
      <3>2. QED
        BY <2>2, <3>1, LockClash DEF Owns, Lock
    <2>3. QED
      BY <1>2, <1>3, <2>1, <2>2 DEF Owns
  <1> HIDE DEF t
  <1>4. \A l : Owns(s, l) => Owns(s, l)'
    BY <1>1, <1>2 DEF Owns
  <1>5. Locking(s) => Locking(s)'
    <2>1. SUFFICES ASSUME tx[s].queue = LineLock(tx[s].line) PROVE Locking(s)'
      BY <1>1 DEF Locking
    <2>2. head = Lock("statement_line", tx[s].line, "update") /\ t.queue = <<>>
      BY <1>2, <2>1, OneQueue DEF LineLock
    <2>3. QED
      BY <1>1, <1>2, <2>2 DEF Locking, Owns
  <1>6. Knows(s)'
    BY <1>1, <1>2, <1>4, <1>5 DEF Knows
  <1>7. \A r \in Sessions \ {s} : t.entry # None => tx[r].entry # t.entry
    BY <1>2 DEF Inv, EntriesApart
  <1>8. QED
    BY <1>1, <1>2, <1>3, <1>6, <1>7, StepOfOne

LEMMA BeginReconcileStep ==
  ASSUME Inv, NEW s \in Sessions, NEW l \in StatementLines, NEW p \in Payments,
         BeginReconcile(s, l, p)
  PROVE  Inv'
  <1>1. PICK e \in Entries :
          /\ entry[e] = None /\ \A r \in Sessions : tx[r].entry # e
          /\ Goto(s, [Idle EXCEPT !.line = l, !.payment = p, !.entry = e], "reconcile", LineLock(l))
    BY DEF BeginReconcile
  <1> DEFINE t == [Idle EXCEPT !.line = l, !.payment = p, !.entry = e, !.pc = "reconcile",
                               !.queue = LineLock(l)]
  <1>2. Start(s, t) /\ UNCHANGED books
    BY <1>1 DEF Goto
  <1>3. /\ t.pc = "reconcile" /\ t.line = l /\ t.payment = p /\ t.entry = e
        /\ t.queue = LineLock(l) /\ t.held = {} /\ t.matched = FALSE /\ IsRequest(t)
    BY DEF Idle, IsRequest
  <1> HIDE DEF t
  <1>4. tx'[s] = t /\ entry' = entry
    BY <1>2, TypesOf DEF books
  <1>5. Knows(s)'
    BY <1>1, <1>3, <1>4 DEF Knows, Locking, Reconciling, Undoing, Cancelling
  <1>6. QED
    BY <1>1, <1>2, <1>3, <1>5, StepOfOne

LEMMA BeginUndoStep ==
  ASSUME Inv, NEW s \in Sessions, NEW l \in StatementLines, BeginUndo(s, l)
  PROVE  Inv'
  <1> DEFINE t == [Idle EXCEPT !.line = l, !.pc = "undo", !.queue = LineLock(l)]
  <1>1. Start(s, t) /\ UNCHANGED books
    BY DEF BeginUndo, Goto
  <1>2. t.pc = "undo" /\ t.line = l /\ t.entry = None /\ t.queue = LineLock(l) /\ t.held = {} /\ IsRequest(t)
    BY DEF Idle, IsRequest
  <1> HIDE DEF t
  <1>3. tx'[s] = t
    BY <1>1, TypesOf
  <1>4. Knows(s)'
    BY <1>2, <1>3 DEF Knows, Locking, Reconciling, Undoing, Cancelling
  <1>5. QED
    BY <1>1, <1>2, <1>4, StepOfOne

LEMMA BeginCancelStep ==
  ASSUME Inv, NEW s \in Sessions, NEW p \in Payments, BeginCancel(s, p)
  PROVE  Inv'
  <1> DEFINE queue == SetToSeq({MatchLock(m) : m \in MatchesOf(p)})
  <1> HIDE DEF queue
  <1> DEFINE t == [Idle EXCEPT !.payment = p, !.pc = "unmatch", !.queue = queue]
  <1>1. Start(s, t) /\ UNCHANGED books
    BY DEF BeginCancel, Goto, queue
  <1>2. t.pc = "unmatch" /\ t.payment = p /\ t.entry = None /\ t.held = {} /\ IsRequest(t)
    BY DEF Idle, IsRequest
  <1> HIDE DEF t
  <1>3. tx'[s] = t
    BY <1>1, TypesOf
  <1>4. Knows(s)'
    BY <1>2, <1>3 DEF Knows, Reconciling, Undoing, Cancelling
  <1>5. QED
    BY <1>1, <1>2, <1>4, StepOfOne

(* What At tells of a request that goes on.                                *)
LEMMA Here ==
  ASSUME Inv, NEW s \in Sessions, NEW here, At(s, here)
  PROVE  /\ tx[s].pc = here /\ tx[s].queue = <<>> /\ IsRequest(tx[s]) /\ Knows(s)
         /\ Locking(s) => Owns(s, tx[s].line)
  <1>1. tx[s].pc = here /\ tx[s].queue = <<>> /\ IsRequest(tx[s]) /\ Knows(s)
    BY TypesOf DEF At
  <1>2. Locking(s) => Owns(s, tx[s].line)
    BY <1>1, OneQueue DEF Locking, LineLock
  <1>3. QED
    BY <1>1, <1>2

-----------------------------------------------------------------------------
(* Requests go on.                                                         *)

LEMMA CheckLineStep ==
  ASSUME Inv, NEW s \in Sessions, CheckLine(s)
  PROVE  Inv'
  <1>1. CASE ~Abort(s)
    <2> DEFINE t == [tx[s] EXCEPT !.pc = "post", !.queue = <<Counter(tx[s].line)>>]
    <2>1. Start(s, t) /\ UNCHANGED books /\ At(s, "reconcile") /\ line[tx[s].line] = Unreconciled
      BY <1>1 DEF CheckLine, Goto
    <2>2. /\ tx[s].pc = "reconcile" /\ IsRequest(tx[s]) /\ Knows(s)
          /\ Locking(s) => Owns(s, tx[s].line)
      BY <2>1, Here
    <2>3. /\ t.pc = "post" /\ t.line = tx[s].line /\ t.payment = tx[s].payment
          /\ t.entry = tx[s].entry /\ t.undone = tx[s].undone /\ t.held = tx[s].held
          /\ t.matched = tx[s].matched /\ IsRequest(t)
      BY <2>2 DEF IsRequest
    <2> HIDE DEF t
    <2>4. tx'[s] = t /\ line' = line /\ entry' = entry
      BY <2>1, TypesOf DEF books
    <2>5. \A l : Owns(s, l)' <=> Owns(s, l)
      BY <2>3, <2>4 DEF Owns
    <2>6. Knows(s)'
      BY <2>1, <2>2, <2>3, <2>4, <2>5 DEF Knows, Reconciling, Undoing, Cancelling
    <2>7. QED
      BY <2>1, <2>3, <2>6, GoOn
  <1>2. QED
    BY <1>1, AbortStep

LEMMA PostStep ==
  ASSUME Inv, NEW s \in Sessions, Post(s)
  PROVE  Inv'
  <1>1. PICK matched, queue :
          /\ matched \in BOOLEAN /\ At(s, "post") /\ UNCHANGED books
          /\ Start(s, [tx[s] EXCEPT !.matched = matched, !.pc = "finish", !.queue = queue])
    <2>1. CASE KeepsOpenItems /\ <<"payment", tx[s].payment>> \notin closed
      BY <2>1 DEF Post, Goto
    <2>2. CASE ~(KeepsOpenItems /\ <<"payment", tx[s].payment>> \notin closed)
      <3>1. At(s, "post") /\ Goto(s, tx[s], "finish", <<>>)
        BY <2>2 DEF Post
      <3>2. tx[s].matched \in BOOLEAN
        BY <3>1, Here DEF Knows, Reconciling
      <3>3. [tx[s] EXCEPT !.matched = tx[s].matched, !.pc = "finish", !.queue = <<>>]
              = [tx[s] EXCEPT !.pc = "finish", !.queue = <<>>]
        BY <3>1, Here DEF IsRequest
      <3>4. QED
        BY <3>1, <3>2, <3>3 DEF Goto
    <2>3. QED
      BY <2>1, <2>2
  <1> DEFINE t == [tx[s] EXCEPT !.matched = matched, !.pc = "finish", !.queue = queue]
  <1>2. Start(s, t) /\ UNCHANGED books /\ At(s, "post")
    BY <1>1
  <1>3. /\ tx[s].pc = "post" /\ IsRequest(tx[s]) /\ Knows(s)
        /\ Locking(s) => Owns(s, tx[s].line)
    BY <1>2, Here
  <1>4. /\ t.pc = "finish" /\ t.line = tx[s].line /\ t.payment = tx[s].payment
        /\ t.entry = tx[s].entry /\ t.undone = tx[s].undone /\ t.held = tx[s].held
        /\ t.matched = matched /\ IsRequest(t)
    BY <1>3 DEF IsRequest
  <1> HIDE DEF t
  <1>5. tx'[s] = t /\ line' = line /\ entry' = entry
    BY <1>2, TypesOf DEF books
  <1>6. \A l : Owns(s, l)' <=> Owns(s, l)
    BY <1>4, <1>5 DEF Owns
  <1>7. Knows(s)'
    BY <1>1, <1>2, <1>3, <1>4, <1>5, <1>6 DEF Knows, Reconciling, Undoing, Cancelling
  <1>8. QED
    BY <1>2, <1>4, <1>7, GoOn

LEMMA CheckReconciledStep ==
  ASSUME Inv, NEW s \in Sessions, CheckReconciled(s)
  PROVE  Inv'
  <1>1. CASE ~Abort(s)
    <2> DEFINE t == [tx[s] EXCEPT !.undone = {line[tx[s].line].entry}, !.pc = "reverse",
                          !.queue = <<Lock("bank_entry", line[tx[s].line].entry, "update")>>]
    <2>1. Start(s, t) /\ UNCHANGED books /\ At(s, "undo") /\ line[tx[s].line].entry # None
      BY <1>1 DEF CheckReconciled, Goto
    <2>2. /\ tx[s].pc = "undo" /\ IsRequest(tx[s]) /\ Knows(s)
          /\ Locking(s) => Owns(s, tx[s].line)
      BY <2>1, Here
    <2>3. /\ t.pc = "reverse" /\ t.line = tx[s].line /\ t.payment = tx[s].payment
          /\ t.entry = tx[s].entry /\ t.undone = {line[tx[s].line].entry} /\ t.held = tx[s].held
          /\ IsRequest(t)
      BY <2>2 DEF IsRequest
    <2> HIDE DEF t
    <2>4. tx'[s] = t /\ line' = line /\ entry' = entry
      BY <2>1, TypesOf DEF books
    <2>5. \A l : Owns(s, l)' <=> Owns(s, l)
      BY <2>3, <2>4 DEF Owns
    <2>6. Knows(s)'
      BY <2>1, <2>2, <2>3, <2>4, <2>5 DEF Knows, Reconciling, Undoing, Cancelling
    <2>7. QED
      BY <2>1, <2>3, <2>6, GoOn
  <1>2. QED
    BY <1>1, AbortStep

LEMMA ReverseBankStep ==
  ASSUME Inv, NEW s \in Sessions, ReverseBank(s)
  PROVE  Inv'
  <1>1. CASE ~Abort(s)
    <2> DEFINE t == [tx[s] EXCEPT !.pc = "end_of_undo", !.queue = <<Counter(tx[s].line)>>]
    <2>1. Start(s, t) /\ UNCHANGED books /\ At(s, "reverse")
      <3>1. At(s, "reverse") /\ tx[s].undone # {}
        BY Here DEF ReverseBank, Knows
      <3>2. QED
        BY <1>1, <3>1 DEF ReverseBank, Goto
    <2>2. /\ tx[s].pc = "reverse" /\ IsRequest(tx[s]) /\ Knows(s)
          /\ Locking(s) => Owns(s, tx[s].line)
      BY <2>1, Here
    <2>3. /\ t.pc = "end_of_undo" /\ t.line = tx[s].line /\ t.payment = tx[s].payment
          /\ t.entry = tx[s].entry /\ t.undone = tx[s].undone /\ t.held = tx[s].held
          /\ IsRequest(t)
      BY <2>2 DEF IsRequest
    <2> HIDE DEF t
    <2>4. tx'[s] = t /\ line' = line /\ entry' = entry
      BY <2>1, TypesOf DEF books
    <2>5. \A l : Owns(s, l)' <=> Owns(s, l)
      BY <2>3, <2>4 DEF Owns
    <2>6. Knows(s)'
      BY <2>1, <2>2, <2>3, <2>4, <2>5 DEF Knows, Reconciling, Undoing, Cancelling
    <2>7. QED
      BY <2>1, <2>3, <2>6, GoOn
  <1>2. QED
    BY <1>1, AbortStep

LEMMA ReopenStep ==
  ASSUME Inv, NEW s \in Sessions, Reopen(s)
  PROVE  Inv'
  <1> DEFINE t == [tx[s] EXCEPT !.pc = "cancel",
                          !.queue = <<Lock("payment_entry", tx[s].payment, "update")>>]
  <1>1. Start(s, t) /\ UNCHANGED books /\ At(s, "reopen")
    BY DEF Reopen, Goto
  <1>2. /\ tx[s].pc = "reopen" /\ IsRequest(tx[s]) /\ Knows(s)
        /\ Locking(s) => Owns(s, tx[s].line)
    BY <1>1, Here
  <1>3. /\ t.pc = "cancel" /\ t.line = tx[s].line /\ t.payment = tx[s].payment
        /\ t.entry = tx[s].entry /\ t.undone = tx[s].undone /\ t.held = tx[s].held
        /\ IsRequest(t)
    BY <1>2 DEF IsRequest
  <1> HIDE DEF t
  <1>4. tx'[s] = t /\ line' = line /\ entry' = entry
    BY <1>1, TypesOf DEF books
  <1>5. \A l : Owns(s, l)' <=> Owns(s, l)
    BY <1>3, <1>4 DEF Owns
  <1>6. Knows(s)'
    BY <1>1, <1>2, <1>3, <1>4, <1>5 DEF Knows, Reconciling, Undoing, Cancelling
  <1>7. QED
    BY <1>1, <1>3, <1>6, GoOn

LEMMA ReversePaymentStep ==
  ASSUME Inv, NEW s \in Sessions, ReversePayment(s)
  PROVE  Inv'
  <1>1. CASE ~Abort(s)
    <2> DEFINE t == [tx[s] EXCEPT !.pc = "end_of_cancel",
                          !.queue = <<Counter(tx[s].payment), Lock("payment", tx[s].payment, "no_key_update")>>]
    <2>1. Start(s, t) /\ UNCHANGED books /\ At(s, "cancel")
      BY <1>1 DEF ReversePayment, Goto
    <2>2. /\ tx[s].pc = "cancel" /\ IsRequest(tx[s]) /\ Knows(s)
          /\ Locking(s) => Owns(s, tx[s].line)
      BY <2>1, Here
    <2>3. /\ t.pc = "end_of_cancel" /\ t.line = tx[s].line /\ t.payment = tx[s].payment
          /\ t.entry = tx[s].entry /\ t.undone = tx[s].undone /\ t.held = tx[s].held
          /\ IsRequest(t)
      BY <2>2 DEF IsRequest
    <2> HIDE DEF t
    <2>4. tx'[s] = t /\ line' = line /\ entry' = entry
      BY <2>1, TypesOf DEF books
    <2>5. \A l : Owns(s, l)' <=> Owns(s, l)
      BY <2>3, <2>4 DEF Owns
    <2>6. Knows(s)'
      BY <2>1, <2>2, <2>3, <2>4, <2>5 DEF Knows, Reconciling, Undoing, Cancelling
    <2>7. QED
      BY <2>1, <2>3, <2>6, GoOn
  <1>2. QED
    BY <1>1, AbortStep

LEMMA UnmatchPaymentStep ==
  ASSUME Inv, NEW s \in Sessions, UnmatchPayment(s)
  PROVE  Inv'
  <1>1. PICK mine, queue :
          /\ At(s, "unmatch") /\ UNCHANGED books /\ \A m \in mine : m[1] = tx[s].payment
          /\ Start(s, [tx[s] EXCEPT !.undone = mine, !.pc = "reopen", !.queue = queue])
    BY DEF UnmatchPayment, Goto, MatchesOf
  <1> DEFINE t == [tx[s] EXCEPT !.undone = mine, !.pc = "reopen", !.queue = queue]
  <1>2. Start(s, t) /\ UNCHANGED books /\ At(s, "unmatch")
    BY <1>1
  <1>3. /\ tx[s].pc = "unmatch" /\ IsRequest(tx[s]) /\ Knows(s)
        /\ Locking(s) => Owns(s, tx[s].line)
    BY <1>2, Here
  <1>4. /\ t.pc = "reopen" /\ t.line = tx[s].line /\ t.payment = tx[s].payment
        /\ t.entry = tx[s].entry /\ t.undone = mine /\ t.held = tx[s].held
        /\ IsRequest(t)
    BY <1>3 DEF IsRequest
  <1> HIDE DEF t
  <1>5. tx'[s] = t /\ line' = line /\ entry' = entry
    BY <1>2, TypesOf DEF books
  <1>6. \A l : Owns(s, l)' <=> Owns(s, l)
    BY <1>4, <1>5 DEF Owns
  <1>7. Knows(s)'
    BY <1>2, <1>3, <1>4, <1>5, <1>6, <1>1 DEF Knows, Reconciling, Undoing, Cancelling
  <1>8. QED
    BY <1>2, <1>4, <1>7, GoOn

-----------------------------------------------------------------------------
(* Ends.                                                                   *)

(* What the end of one request leaves of another, whose line and bank      *)
(* entry it does not touch.                                                *)
LEMMA EndOfOthers ==
  ASSUME Inv, NEW s \in Sessions, Start(s, Idle), NEW r \in Sessions, r # s,
         tx[r].pc \in {"post", "finish", "reverse", "end_of_undo"} => line'[tx[r].line] = line[tx[r].line],
         tx[r].pc \in Reconciling => entry'[tx[r].entry] = None
  PROVE  Knows(r)'
  <1>1. tx'[r] = tx[r] /\ Knows(r)
    BY TypesOf
  <1>2. (\A l : Owns(r, l)' <=> Owns(r, l)) /\ (Locking(r)' <=> Locking(r))
    BY <1>1 DEF Owns, Locking
  <1>3. QED
    BY <1>1, <1>2 DEF Knows, Reconciling

(* What the end of a request leaves that is of all requests.               *)
LEMMA EndOfOne ==
  ASSUME Inv, NEW s \in Sessions, Start(s, Idle)
  PROVE  /\ Knows(s)' /\ LinesApart' /\ EntriesApart'
         /\ tx' = [r \in Sessions |-> tx'[r]] /\ \A r \in Sessions : IsRequest(tx'[r])
  <1>1. /\ tx'[s] = Idle /\ \A r \in Sessions \ {s} : tx'[r] = tx[r]
        /\ tx' = [r \in Sessions |-> tx'[r]]
        /\ \A r \in Sessions : IsRequest(tx[r])
    BY TypesOf
  <1>2. Idle.held = {} /\ Idle.entry = None /\ Idle.pc = "idle"
    BY IdleRequest
  <1>3. Knows(s)'
    BY <1>1, <1>2 DEF Knows, Reconciling, Undoing, Cancelling
  <1>4. LinesApart'
    BY <1>1, <1>2 DEF Inv, LinesApart, Owns
  <1>5. EntriesApart'
    BY <1>1, <1>2 DEF Inv, EntriesApart
  <1>6. \A r \in Sessions : IsRequest(tx'[r])
    BY <1>1, IdleRequest
  <1>7. QED
    BY <1>1, <1>3, <1>4, <1>5, <1>6

(* Requests that have their statement lines have different ones.           *)
LEMMA OtherLines ==
  ASSUME Inv, NEW s \in Sessions, NEW r \in Sessions, r # s,
         tx[s].pc \in {"post", "finish", "reverse", "end_of_undo"},
         tx[r].pc \in {"post", "finish", "reverse", "end_of_undo"}
  PROVE  tx[r].line # tx[s].line
  <1>1. /\ Owns(s, tx[s].line) /\ Owns(r, tx[r].line)
        /\ tx[s].line \in StatementLines
    BY TypesOf DEF Knows, Reconciling, Undoing
  <1>2. QED
    BY <1>1 DEF Inv, LinesApart

(* The check at commit is what keeps a payment from leaving twice.         *)
LEMMA ChecksLeave ==
  ASSUME NEW ms, NEW shut, NEW p, IsFiniteSet(ms), ResidualsAgree(ms, shut, p)
  PROVE  LET mine == {m \in ms : m[1] = p}
         IN  Cardinality(mine) <= 1 /\ (mine # {} <=> <<"payment", p>> \in shut)
  <1> DEFINE mine == {m \in ms : m[1] = p}
  <1>1. IsFiniteSet(mine)
    BY FS_Subset
  <1>2. Cardinality(mine) \in Nat /\ (Cardinality(mine) = 0 <=> mine = {})
    BY <1>1, FS_CardinalityType, FS_EmptySet
  <1>3. Cardinality(mine) <= 1 /\ (Cardinality(mine) = 1 <=> <<"payment", p>> \in shut)
    BY DEF ResidualsAgree
  <1> HIDE DEF mine
  <1>4. Cardinality(mine) <= 1 /\ (mine # {} <=> <<"payment", p>> \in shut)
    BY <1>2, <1>3
  <1>5. QED
    BY <1>4 DEF mine

LEMMA FinishReconcileStep ==
  ASSUME Inv, NEW s \in Sessions, FinishReconcile(s)
  PROVE  Inv'
  <1>1. CASE ~Abort(s)
    <2> DEFINE t == tx[s]
               pair == IF t.matched THEN {<<t.payment, t.entry>>} ELSE {}
               shut == IF t.matched THEN closed \cup {<<"payment", t.payment>>, <<"bank", t.entry>>}
                                    ELSE closed
               new == [line |-> t.line, payment |-> t.payment, state |-> "posted"]
    <2>1. /\ At(s, "finish") /\ Start(s, Idle)
          /\ ResidualsAgree(matches \cup pair, shut, t.payment)
          /\ line' = [line EXCEPT ![t.line] = [payment |-> t.payment, entry |-> t.entry]]
          /\ entry' = [entry EXCEPT ![t.entry] = new]
          /\ matches' = matches \cup pair /\ closed' = shut
      BY <1>1 DEF FinishReconcile
    <2>2. /\ t.pc = "finish" /\ t.line \in StatementLines /\ t.payment \in Payments
          /\ t.entry \in Entries /\ entry[t.entry] = None /\ line[t.line] = Unreconciled
      BY <2>1, Here DEF Knows, Reconciling
    <2>3. /\ line \in [StatementLines -> Line] /\ entry \in [Entries -> Entry \cup {None}]
          /\ matches \subseteq Payments \X Entries /\ IsFiniteSet(matches)
      BY DEF Inv, Typed
    <2>4. new \in Entry /\ new.line = t.line /\ new.state = "posted" /\ new # None
      BY <2>2, BankReconciliationAssumption DEF Entry
    <2>5. line[t.line].entry = None
      BY <2>2 DEF Unreconciled
    <2> HIDE DEF new
    <2>6. pair \subseteq Payments \X Entries /\ IsFiniteSet(pair)
      <3>1. <<t.payment, t.entry>> \in Payments \X Entries
        BY <2>2
      <3>2. IsFiniteSet({<<t.payment, t.entry>>}) /\ IsFiniteSet({})
        BY FS_EmptySet, FS_Singleton
      <3>3. QED
        BY <3>1, <3>2
    <2>7. Typed'
      <3>1. IsFiniteSet(matches \cup pair)
        BY <2>3, <2>6, FS_Union
      <3>2. line' \in [StatementLines -> Line]
        BY <2>1, <2>2, <2>3 DEF Line
      <3>3. entry' \in [Entries -> Entry \cup {None}]
        BY <2>1, <2>3, <2>4
      <3>4. matches' \subseteq Payments \X Entries
        BY <2>1, <2>3, <2>6
      <3>5. QED
        BY <2>1, <3>1, <3>2, <3>3, <3>4, EndOfOne DEF Typed
    <2>8. ASSUME NEW r \in Sessions PROVE Knows(r)'
      <3>1. CASE r = s
        BY <2>1, <3>1, EndOfOne
      <3>2. CASE r # s
        <4>1. tx[r].pc \in Reconciling => entry[tx[r].entry] = None /\ tx[r].entry # t.entry
                                          /\ tx[r].entry \in Entries
          BY <2>2, <3>2, TypesOf, BankReconciliationAssumption DEF Inv, EntriesApart, Knows
        <4>2. tx[r].pc \in {"post", "finish", "reverse", "end_of_undo"} => tx[r].line # t.line
          BY <2>2, <3>2, OtherLines
        <4>3. tx[r].pc \in {"post", "finish", "reverse", "end_of_undo"} =>
                line'[tx[r].line] = line[tx[r].line]
          BY <2>1, <2>3, <4>2
        <4>4. QED
          BY <2>1, <2>3, <3>2, <4>1, <4>3, EndOfOthers
      <3>3. QED
        BY <3>1, <3>2
    <2>9. BankMovesOnce'
      <3>1. ASSUME NEW l \in StatementLines
            PROVE  {e \in Entries : entry'[e] # None /\ entry'[e].line = l /\ entry'[e].state = "posted"}
                     = IF line'[l].entry = None THEN {} ELSE {line'[l].entry}
        <4> DEFINE before == {e \in Entries : entry[e] # None /\ entry[e].line = l /\ entry[e].state = "posted"}
                   after == {e \in Entries : entry'[e] # None /\ entry'[e].line = l /\ entry'[e].state = "posted"}
        <4>1. before = IF line[l].entry = None THEN {} ELSE {line[l].entry}
          BY DEF Inv, BankMovesOnce
        <4>2. CASE l = t.line
          <5>1. before = {}
            BY <2>5, <4>1, <4>2
          <5>2. after = {t.entry}
            BY <2>1, <2>2, <2>3, <2>4, <4>2, <5>1
          <5>3. line'[l].entry = t.entry /\ t.entry # None
            BY <2>1, <2>2, <2>3, <4>2, BankReconciliationAssumption
          <5>4. QED
            BY <5>2, <5>3
        <4>3. CASE l # t.line
          <5>1. after = before
            BY <2>1, <2>2, <2>3, <2>4, <4>3
          <5>2. line'[l] = line[l]
            BY <2>1, <2>3, <4>3
          <5>3. QED
            BY <4>1, <5>1, <5>2
        <4>4. QED
          BY <4>2, <4>3
      <3>2. QED
        BY <3>1 DEF BankMovesOnce
    <2>10. LeavesOnce'
      <3>1. ASSUME NEW p \in Payments
            PROVE  /\ Cardinality({m \in matches' : m[1] = p}) <= 1
                   /\ {m \in matches' : m[1] = p} # {} <=> <<"payment", p>> \in closed'
        <4>1. CASE p = t.payment
          <5>1. IsFiniteSet(matches \cup pair)
            BY <2>3, <2>6, FS_Union
          <5> HIDE DEF pair, shut
          <5>2. QED
            BY <2>1, <4>1, <5>1, ChecksLeave
        <4>2. CASE p # t.payment
          <5>1. {m \in matches' : m[1] = p} = MatchesOf(p)
            BY <2>1, <4>2 DEF MatchesOf
          <5>2. <<"payment", p>> \in closed' <=> <<"payment", p>> \in closed
            BY <2>1, <4>2
          <5>3. QED
            BY <5>1, <5>2 DEF Inv, LeavesOnce
        <4>3. QED
          BY <4>1, <4>2
      <3>2. QED
        BY <3>1 DEF LeavesOnce, MatchesOf
    <2>11. QED
      BY <2>1, <2>7, <2>8, <2>9, <2>10, EndOfOne DEF Inv
  <1>2. QED
    BY <1>1, AbortStep

LEMMA FinishUndoStep ==
  ASSUME Inv, NEW s \in Sessions, FinishUndo(s)
  PROVE  Inv'
  <1> DEFINE t == tx[s]
             x == line[t.line].entry
  <1>1. /\ At(s, "end_of_undo") /\ Start(s, Idle)
        /\ line' = [line EXCEPT ![t.line] = Unreconciled]
        /\ entry' = [e \in Entries |->
                       IF e \in t.undone THEN [entry[e] EXCEPT !.state = "reversed"] ELSE entry[e]]
        /\ matches' = matches /\ closed' = closed
    BY DEF FinishUndo
  <1>2. /\ t.pc = "end_of_undo" /\ t.line \in StatementLines /\ x # None /\ t.undone = {x}
    BY <1>1, Here DEF Knows, Undoing
  <1>3. /\ line \in [StatementLines -> Line] /\ entry \in [Entries -> Entry \cup {None}]
        /\ matches \subseteq Payments \X Entries /\ IsFiniteSet(matches)
    BY DEF Inv, Typed
  <1>4. {e \in Entries : entry[e] # None /\ entry[e].line = t.line /\ entry[e].state = "posted"} = {x}
    BY <1>2 DEF Inv, BankMovesOnce
  <1>5. /\ x \in Entries /\ entry[x] # None /\ entry[x].line = t.line /\ entry[x] \in Entry
    BY <1>3, <1>4
  <1> HIDE DEF x
  <1>6. /\ entry'[x] \in Entry /\ entry'[x].state = "reversed" /\ entry'[x].line = t.line
        /\ \A e \in Entries : e # x => entry'[e] = entry[e]
        /\ entry' \in [Entries -> Entry \cup {None}]
    <2>1. [entry[x] EXCEPT !.state = "reversed"] \in Entry
          /\ [entry[x] EXCEPT !.state = "reversed"].state = "reversed"
          /\ [entry[x] EXCEPT !.state = "reversed"].line = t.line
      BY <1>5 DEF Entry
    <2>2. entry'[x] = [entry[x] EXCEPT !.state = "reversed"]
      BY <1>1, <1>2, <1>5
    <2>3. \A e \in Entries : e # x => entry'[e] = entry[e]
      BY <1>1, <1>2
    <2>4. entry' \in [Entries -> Entry \cup {None}]
      BY <1>1, <1>2, <1>3, <2>1
    <2>5. QED
      BY <2>1, <2>2, <2>3, <2>4
  <1>7. Typed'
    <2>1. line' \in [StatementLines -> Line]
      BY <1>1, <1>3 DEF Line, Unreconciled
    <2>2. QED
      BY <1>1, <1>3, <1>6, <2>1, EndOfOne DEF Typed
  <1>8. ASSUME NEW r \in Sessions PROVE Knows(r)'
    <2>1. CASE r = s
      BY <1>1, <2>1, EndOfOne
    <2>2. CASE r # s
      <3>1. tx[r].pc \in Reconciling => entry[tx[r].entry] = None /\ tx[r].entry \in Entries
        BY TypesOf DEF Knows
      <3>2. tx[r].pc \in Reconciling => entry'[tx[r].entry] = None
        BY <1>5, <1>6, <3>1
      <3>3. tx[r].pc \in {"post", "finish", "reverse", "end_of_undo"} => tx[r].line # t.line
        BY <1>2, <2>2, OtherLines
      <3>4. tx[r].pc \in {"post", "finish", "reverse", "end_of_undo"} =>
              line'[tx[r].line] = line[tx[r].line]
        BY <1>1, <1>3, <3>3
      <3>5. QED
        BY <1>1, <2>2, <3>2, <3>4, EndOfOthers
    <2>3. QED
      BY <2>1, <2>2
  <1>9. BankMovesOnce'
    <2>1. ASSUME NEW l \in StatementLines
          PROVE  {e \in Entries : entry'[e] # None /\ entry'[e].line = l /\ entry'[e].state = "posted"}
                   = IF line'[l].entry = None THEN {} ELSE {line'[l].entry}
      <3> DEFINE before == {e \in Entries : entry[e] # None /\ entry[e].line = l /\ entry[e].state = "posted"}
                 after == {e \in Entries : entry'[e] # None /\ entry'[e].line = l /\ entry'[e].state = "posted"}
      <3>1. before = IF line[l].entry = None THEN {} ELSE {line[l].entry}
        BY DEF Inv, BankMovesOnce
      <3>2. CASE l = t.line
        <4>1. before = {x}
          BY <1>4, <3>2
        <4>2. \A e \in Entries : e \notin after
          BY <1>6, <4>1
        <4>3. line'[l].entry = None
          BY <1>1, <1>2, <1>3, <3>2 DEF Unreconciled
        <4>4. QED
          BY <4>2, <4>3
      <3>3. CASE l # t.line
        <4>1. after = before
          BY <1>5, <1>6, <3>3
        <4>2. line'[l] = line[l]
          BY <1>1, <1>3, <3>3
        <4>3. QED
          BY <3>1, <4>1, <4>2
      <3>4. QED
        BY <3>2, <3>3
    <2>2. QED
      BY <2>1 DEF BankMovesOnce
  <1>10. LeavesOnce'
    BY <1>1 DEF Inv, LeavesOnce, MatchesOf
  <1>11. QED
    BY <1>1, <1>7, <1>8, <1>9, <1>10, EndOfOne DEF Inv

LEMMA FinishCancelStep ==
  ASSUME Inv, NEW s \in Sessions, FinishCancel(s)
  PROVE  Inv'
  <1>1. CASE ~Abort(s)
    <2> DEFINE t == tx[s]
               rest == matches \ t.undone
               opened == UNION {{<<"payment", m[1]>>, <<"bank", m[2]>>} : m \in t.undone}
    <2>1. /\ At(s, "end_of_cancel") /\ Start(s, Idle)
          /\ t.undone # {} => ResidualsAgree(rest, closed \ opened, t.payment)
          /\ matches' = rest /\ closed' = closed \ opened /\ line' = line /\ entry' = entry
      BY <1>1 DEF FinishCancel
    <2>2. \A m \in t.undone : m[1] = t.payment
      BY <2>1, Here DEF Knows, Cancelling
    <2>3. /\ line \in [StatementLines -> Line] /\ entry \in [Entries -> Entry \cup {None}]
          /\ matches \subseteq Payments \X Entries /\ IsFiniteSet(matches)
      BY DEF Inv, Typed
    <2>4. IsFiniteSet(rest)
      BY <2>3, FS_Subset
    <2>5. Typed'
      BY <2>1, <2>3, <2>4, EndOfOne DEF Typed
    <2>6. ASSUME NEW r \in Sessions PROVE Knows(r)'
      <3>1. CASE r = s
        BY <2>1, <3>1, EndOfOne
      <3>2. CASE r # s
        BY <2>1, <3>2, EndOfOthers, TypesOf DEF Knows
      <3>3. QED
        BY <3>1, <3>2
    <2>7. BankMovesOnce'
      BY <2>1 DEF Inv, BankMovesOnce
    <2>8. \A p \in Payments : p # t.payment => <<"payment", p>> \notin opened
      BY <2>2
    <2>9. t.undone = {} => opened = {}
      OBVIOUS
    <2>10. LeavesOnce'
      <3>1. ASSUME NEW p \in Payments
            PROVE  /\ Cardinality({m \in matches' : m[1] = p}) <= 1
                   /\ {m \in matches' : m[1] = p} # {} <=> <<"payment", p>> \in closed'
        <4>1. CASE p = t.payment /\ t.undone # {}
          <5> HIDE DEF rest, opened
          <5>1. QED
            BY <2>1, <2>4, <4>1, ChecksLeave
        <4>2. CASE p # t.payment \/ t.undone = {}
          <5>1. {m \in matches' : m[1] = p} = MatchesOf(p)
            BY <2>1, <2>2, <4>2 DEF MatchesOf
          <5> HIDE DEF opened
          <5>2. <<"payment", p>> \in closed' <=> <<"payment", p>> \in closed
            BY <2>1, <2>8, <2>9, <4>2
          <5>3. QED
            BY <5>1, <5>2 DEF Inv, LeavesOnce
        <4>3. QED
          BY <4>1, <4>2
      <3>2. QED
        BY <3>1 DEF LeavesOnce, MatchesOf
    <2>11. QED
      BY <2>1, <2>5, <2>6, <2>7, <2>10, EndOfOne DEF Inv
  <1>2. QED
    BY <1>1, AbortStep

-----------------------------------------------------------------------------
(* The theorems.                                                           *)

LEMMA InitInv == ASSUME Init PROVE Inv
  <1>1. /\ line = [l \in StatementLines |-> Unreconciled] /\ entry = [e \in Entries |-> None]
        /\ matches = {} /\ closed = {} /\ tx = [s \in Sessions |-> Idle]
    BY DEF Init
  <1>2. /\ Idle.held = {} /\ Idle.entry = None /\ Idle.pc = "idle" /\ IsRequest(Idle)
        /\ \A s \in Sessions : tx[s] = Idle
    BY <1>1, IdleRequest
  <1>3. Typed
    <2>1. tx = [s \in Sessions |-> tx[s]]
      BY <1>1
    <2>2. IsFiniteSet(matches)
      BY <1>1, FS_EmptySet
    <2>3. line \in [StatementLines -> Line]
      BY <1>1 DEF Line, Unreconciled
    <2>4. QED
      BY <1>1, <1>2, <2>1, <2>2, <2>3 DEF Typed
  <1>4. LinesApart /\ EntriesApart
    BY <1>2 DEF LinesApart, EntriesApart, Owns
  <1>5. \A s \in Sessions : Knows(s)
    BY <1>2 DEF Knows, Reconciling, Undoing, Cancelling
  <1>6. BankMovesOnce
    BY <1>1 DEF BankMovesOnce, Unreconciled
  <1>7. LeavesOnce
    <2>1. \A p \in Payments : MatchesOf(p) = {}
      BY <1>1 DEF MatchesOf
    <2>2. Cardinality({}) = 0
      BY FS_EmptySet
    <2>3. QED
      BY <1>1, <2>1, <2>2 DEF LeavesOnce
  <1>8. QED
    BY <1>3, <1>4, <1>5, <1>6, <1>7 DEF Inv

LEMMA StepInv == ASSUME Inv, [Next]_vars PROVE Inv'
  <1>1. CASE UNCHANGED vars
    <2>1. /\ line' = line /\ entry' = entry /\ matches' = matches /\ closed' = closed /\ tx' = tx
      BY <1>1 DEF vars, books
    <2>2. (Typed /\ LinesApart /\ EntriesApart /\ BankMovesOnce /\ LeavesOnce)'
      BY <2>1 DEF Inv, Typed, LinesApart, EntriesApart, Owns, BankMovesOnce, LeavesOnce, MatchesOf
    <2>3. ASSUME NEW s \in Sessions PROVE Knows(s)'
      BY <2>1 DEF Inv, Knows, Owns, Locking
    <2>4. QED
      BY <2>2, <2>3 DEF Inv
  <1>2. ASSUME NEW s \in Sessions,
               \/ \E l \in StatementLines, p \in Payments : BeginReconcile(s, l, p)
               \/ \E l \in StatementLines : BeginUndo(s, l)
               \/ \E p \in Payments : BeginCancel(s, p)
        PROVE  Inv'
    BY <1>2, BeginReconcileStep, BeginUndoStep, BeginCancelStep
  <1>3. ASSUME NEW s \in Sessions, Acquire(s) \/ CheckLine(s) \/ Post(s) \/ FinishReconcile(s) PROVE Inv'
    BY <1>3, AcquireStep, CheckLineStep, PostStep, FinishReconcileStep
  <1>4. ASSUME NEW s \in Sessions, CheckReconciled(s) \/ ReverseBank(s) \/ FinishUndo(s) PROVE Inv'
    BY <1>4, CheckReconciledStep, ReverseBankStep, FinishUndoStep
  <1>5. ASSUME NEW s \in Sessions,
               UnmatchPayment(s) \/ Reopen(s) \/ ReversePayment(s) \/ FinishCancel(s)
        PROVE  Inv'
    BY <1>5, UnmatchPaymentStep, ReopenStep, ReversePaymentStep, FinishCancelStep
  <1>6. ASSUME NEW s \in Sessions, Rollback(s) \/ DeadlockVictim(s) PROVE Inv'
    BY <1>6, AbortStep DEF Rollback, DeadlockVictim
  <1>7. QED
    BY <1>1, <1>2, <1>3, <1>4, <1>5, <1>6 DEF Next

(* A request acts on a statement line that it has locked and that is still *)
(* as it found it (reconcile_line, undo_reconcile).                        *)
THEOREM Invariance == Spec => []Inv
  <1>1. Init => Inv
    BY InitInv
  <1>2. Inv /\ [Next]_vars => Inv'
    BY StepInv
  <1>3. QED
    BY <1>1, <1>2, PTL DEF Spec

(* A reconciled statement line has one bank entry that stands, its own,    *)
(* whatever requests race over it (reconcile_line, undo_reconcile).        *)
THEOREM BankAlwaysMovesOnce == Spec => []BankMovesOnce
  <1>1. Inv => BankMovesOnce
    BY DEF Inv
  <1>2. QED
    BY <1>1, Invariance, PTL

(* A payment leaves the outstanding account at most once, by the check at  *)
(* commit alone (_clear_outstanding, check_line_residual).                 *)
THEOREM AlwaysLeavesOnce == Spec => []LeavesOnce
  <1>1. Inv => LeavesOnce
    BY DEF Inv
  <1>2. QED
    BY <1>1, Invariance, PTL

-----------------------------------------------------------------------------
(***************************************************************************)
(* The requests of Users, theorems about an instance of that module whose  *)
(* variable for the requests is `served` here.  They share nothing with    *)
(* the bank but the end of a request: rows locked, written and committed.  *)
(***************************************************************************)
CONSTANTS Workers, Scopes
VARIABLE served

Users == INSTANCE Users WITH tx <- served

(* FiniteSets as Users has it says what FiniteSets says.                   *)
LEMMA SameSizes ==
  /\ \A S : Users!IsFiniteSet(S) <=> IsFiniteSet(S)
  /\ \A S : Users!Cardinality(S) = Cardinality(S)
  <1>1. \A S : Users!IsFiniteSet(S) <=> IsFiniteSet(S)
    BY DEF Users!IsFiniteSet, IsFiniteSet
  <1>2. \A S : Users!Cardinality(S) = Cardinality(S)
    BY Zenon DEF Users!Cardinality, Cardinality
  <1>3. QED
    BY <1>1, <1>2

(* What a request may become without anybody else noticing.                *)
Fits(w, t) ==
  /\ Users!Request(t)
  /\ served[w].pc = "idle" => t.pc = "idle"
  /\ \A i \in DOMAIN t.invitations : \A v \in Workers \ {w} :
       Users!Exists(i) \/ i \notin DOMAIN served[v].invitations
  /\ Users!Single => Users!Knows(t)

LEMMA OnlyServed ==
  ASSUME Users!Inv, NEW w \in Workers, NEW t, Users!Start(w, t)
  PROVE  /\ served' = [v \in Workers |-> served'[v]] /\ served'[w] = t
         /\ \A v \in Workers \ {w} : served'[v] = served[v]
         /\ user' = user /\ invitation' = invitation /\ open' = open /\ grants' = grants /\ scope' = scope
  BY DEF Users!Inv, Users!Typed, Users!Start, Users!rows

LEMMA SameRows ==
  ASSUME user' = user, invitation' = invitation, open' = open, grants' = grants, scope' = scope, NEW t
  PROVE  /\ (Users!Request(t))' <=> Users!Request(t)
         /\ (Users!Knows(t))' <=> Users!Knows(t)
         /\ Users!Single' <=> Users!Single
         /\ Users!OneOpenInvitation' <=> Users!OneOpenInvitation
         /\ Users!Outcomes' <=> Users!Outcomes
         /\ Users!Administered' <=> Users!Administered
         /\ Users!SignedOut' <=> Users!SignedOut
         /\ \A i : Users!Exists(i)' <=> Users!Exists(i)
  <1>1. \A i : (Users!Exists(i)' <=> Users!Exists(i)) /\ (Users!Pending(i)' <=> Users!Pending(i))
    BY DEF Users!Exists, Users!Pending
  <1>2. (Users!Request(t))' <=> Users!Request(t)
    BY <1>1 DEF Users!Request, Users!IsRequest, Users!Asks, Users!Blank, Users!Writes
  <1>3. \A i : (Users!Merged(t, i))' = Users!Merged(t, i)
    BY <1>1 DEF Users!Merged
  <1>4. /\ (Users!UsersAfter(t))' = Users!UsersAfter(t) /\ (Users!OpenAfter(t))' = Users!OpenAfter(t)
        /\ (Users!GrantsAfter(t))' = Users!GrantsAfter(t)
    BY DEF Users!UsersAfter, Users!OpenAfter, Users!GrantsAfter
  <1>5. (Users!Knows(t))' <=> Users!Knows(t)
    BY <1>3, <1>4 DEF Users!Knows, Users!LeavesSound, Users!OnlyUser, Users!EndsOthers
  <1>6. QED
    BY <1>1, <1>2, <1>5 DEF Users!Single, Users!OneOpenInvitation, Users!Outcomes, Users!Administered,
       Users!SignedOut, Users!SessionsOf

LEMMA Finiteness ==
  ASSUME NEW S, NEW T, IsFiniteSet(S), NEW e, T \subseteq S \cup {e}
  PROVE  IsFiniteSet(T)
  BY FS_AddElement, FS_Subset

(* Another does not notice.                                                *)
LEMMA Unnoticed ==
  ASSUME Users!Inv, NEW w \in Workers, NEW t, Users!Start(w, t), Users!Request(t),
         \A i \in DOMAIN t.invitations : \A v \in Workers \ {w} :
           Users!Exists(i) \/ i \notin DOMAIN served[v].invitations
  PROVE  Users!Typed' /\ Users!SentApart' /\ Users!OneOpenInvitation'
  <1>1. /\ served' = [v \in Workers |-> served'[v]] /\ served'[w] = t
        /\ \A v \in Workers \ {w} : served'[v] = served[v]
        /\ user' = user /\ invitation' = invitation /\ open' = open /\ grants' = grants /\ scope' = scope
    BY OnlyServed
  <1>2. \A v \in Workers : (Users!Request(served[v]))'
    <2>1. \A v \in Workers : Users!Request(served'[v])
      BY <1>1 DEF Users!Inv, Users!Typed
    <2>2. QED
      BY <1>1, <2>1 DEF Users!Request, Users!IsRequest, Users!Asks, Users!Blank, Users!Writes, Users!Exists
  <1>3. Users!Typed'
    BY <1>1, <1>2 DEF Users!Inv, Users!Typed, Users!Exists
  <1>4. Users!SentApart'
    BY <1>1 DEF Users!Inv, Users!SentApart, Users!Exists
  <1>5. QED
    BY <1>1, <1>3, <1>4, SameRows DEF Users!Inv

LEMMA Fitting ==
  ASSUME Users!Inv, NEW w \in Workers, NEW t, Users!Start(w, t), Fits(w, t)
  PROVE  Users!Inv'
  <1>1. /\ served' = [v \in Workers |-> served'[v]] /\ served'[w] = t
        /\ \A v \in Workers \ {w} : served'[v] = served[v]
        /\ user' = user /\ invitation' = invitation /\ open' = open /\ grants' = grants /\ scope' = scope
    BY OnlyServed
  <1>2. Users!Typed' /\ Users!SentApart' /\ Users!OneOpenInvitation'
    BY Unnoticed DEF Fits
  <1>3. Users!Busy' \subseteq Users!Busy
    BY <1>1 DEF Fits, Users!Busy
  <1>4. Users!Alone'
    <2>1. IsFiniteSet(Users!Busy')
      BY <1>3, FS_Subset, SameSizes DEF Users!Inv, Users!Alone
    <2>2. Users!Single' <=> Users!Single
      BY <1>1 DEF Users!Single
    <2>3. QED
      BY <1>3, <2>1, <2>2, SameSizes DEF Users!Inv, Users!Alone
  <1>5. ASSUME Users!Single, NEW v \in Workers PROVE (Users!Knows(served[v]))'
    <2>1. Users!Knows(served'[v])
      BY <1>1, <1>5 DEF Fits, Users!Inv
    <2>2. QED
      BY <1>1, <2>1 DEF Users!Knows, Users!LeavesSound, Users!OnlyUser, Users!EndsOthers, Users!Merged,
         Users!Exists, Users!UsersAfter, Users!OpenAfter, Users!GrantsAfter
  <1>6. QED
    BY <1>1, <1>2, <1>4, <1>5, SameRows DEF Users!Inv

LEMMA OfServed ==
  ASSUME Users!Inv, NEW w \in Workers
  PROVE  /\ Users!Request(served[w])
         /\ served[w].pc = "handle" => Users!Asks(served[w]) /\ Users!Blank(served[w])
         /\ Users!Single => Users!Outcomes /\ Users!Administered /\ Users!SignedOut /\ Users!Knows(served[w])
  BY DEF Users!Inv, Users!Typed, Users!Request

LEMMA NothingWritten == DOMAIN <<>> = {} /\ IsFiniteSet({})
  BY FS_EmptySet

LEMMA IdleFits ==
  ASSUME NEW w \in Workers
  PROVE  Fits(w, Users!Idle)
  <1>1. Users!Request(Users!Idle)
    BY NothingWritten, SameSizes DEF Users!Request, Users!IsRequest, Users!Writes, Users!Blank, Users!Idle
  <1>2. Users!Knows(Users!Idle) /\ DOMAIN Users!Idle.invitations = {} /\ Users!Idle.pc = "idle"
    BY NothingWritten DEF Users!Knows, Users!EndsOthers, Users!Idle
  <1>3. QED
    BY <1>1, <1>2 DEF Fits

LEMMA Aborted ==
  ASSUME Users!Inv, NEW w \in Workers, Users!Abort(w)
  PROVE  Users!Inv'
  BY IdleFits, Fitting DEF Users!Abort

(* A request that has been handled.                                        *)
Kept(w, t) ==
  /\ Users!IsRequest(t)
  /\ t.pc \in {"write", "ending"} /\ t.kind = served[w].kind /\ t.by = served[w].by /\ t.of = served[w].of

LEMMA KeptFits ==
  ASSUME Users!Inv, NEW w \in Workers, served[w].pc # "idle", NEW t, Kept(w, t), Users!Writes(t),
         \A j \in DOMAIN t.invitations : \A v \in Workers \ {w} :
           Users!Exists(j) \/ j \notin DOMAIN served[v].invitations,
         Users!Single => Users!Knows(t)
  PROVE  Fits(w, t)
  <1>1. Users!Asks(t)
    BY OfServed DEF Kept, Users!Asks, Users!Request
  <1>2. QED
    BY <1>1 DEF Fits, Kept, Users!Request

LEMMA KeptWithout ==
  ASSUME Users!Inv, NEW w \in Workers, served[w].pc # "idle", NEW t, Kept(w, t), t.invitations = <<>>,
         \A p \in DOMAIN t.users : t.users[p] \in Users!UserStates,
         Users!Single => Users!Knows(t)
  PROVE  Fits(w, t)
  <1>1. Users!Writes(t)
    BY NothingWritten, SameSizes DEF Users!Writes
  <1>2. QED
    BY <1>1, NothingWritten, KeptFits

(* What is left of the rows it does not write.                             *)
LEMMA WithoutInvitations ==
  ASSUME Users!Inv, NEW t, t.invitations = <<>>, Users!GrantsAfter(t) # {},
         \A p \in People : Users!UsersAfter(t)[p] = "deactivated" => \A k \in Users!OpenAfter(t) : k[1] # p
  PROVE  Users!LeavesSound(t)
  BY NothingWritten DEF Users!LeavesSound

-----------------------------------------------------------------------------
LEMMA Bootstraps ==
  ASSUME Users!UsersAssumption, Users!Inv, NEW w \in Workers, Users!Bootstrap(w)
  PROVE  Users!Inv'
  <1>1. PICK companies \in SUBSET Companies :
          /\ Companies # {} => companies # {}
          /\ LET t == served[w] IN
             Users!Handle(w, None, \A p \in People : user[p] = Absent,
                          [t EXCEPT !.users = Users!Written(t.of, "active"), !.granted = {t.of} \X companies,
                                    !.queue = <<Users!New(<<"email", t.of>>)>>])
    BY DEF Users!Bootstrap
  <1> DEFINE t == served[w]
             q == <<Users!New(<<"email", t.of>>)>>
             u == Users!Written(t.of, "active")
             y == [t EXCEPT !.users = u, !.granted = {t.of} \X companies, !.queue = q]
             x == [y EXCEPT !.pc = "write"]
  <1>2. t.pc = "handle" /\ t.kind = "bootstrap"
    BY DEF Users!Bootstrap, Users!Serves, Users!At
  <1>3. t.of \in People /\ Users!IsRequest(t) /\ Users!Blank(t)
    BY <1>2, OfServed DEF Users!Asks, Users!Subjects, Users!Request
  <1>4. /\ Kept(w, x) /\ x.users = u /\ x.invitations = <<>> /\ x.granted = {t.of} \X companies
        /\ x.revoked = {} /\ x.pc = "write"
    <2> HIDE DEF u, q
    <2>1. {t.of} \X companies \in SUBSET (People \X Companies)
      BY <1>3
    <2>2. QED
      BY <1>2, <1>3, <2>1 DEF Kept, Users!IsRequest, Users!Blank
  <1> HIDE DEF x, y
  <1>5. Users!Abort(w) \/ ((\A p \in People : user[p] = Absent) /\ Users!Start(w, x))
    BY <1>1 DEF Users!Handle, x, y
  <1>6. DOMAIN u = {t.of} /\ u[t.of] = "active" /\ "active" \in Users!UserStates
    BY DEF Users!Written, Users!UserStates
  <1>7. CASE (\A p \in People : user[p] = Absent) /\ Users!Start(w, x)
    <2> HIDE DEF u
    <2>1. ASSUME Users!Single PROVE Users!Knows(x)
      <3>1. PICK c : c \in companies
        BY <1>1, <2>1 DEF Users!Single
      <3>2. <<t.of, c>> \in x.granted /\ <<t.of, c>> \notin x.revoked
        BY <1>4, <3>1
      <3>3. Users!GrantsAfter(x) # {}
        BY <3>2 DEF Users!GrantsAfter
      <3>4. \A p \in People : Users!UsersAfter(x)[p] # "deactivated"
        BY <1>4, <1>6, <1>7 DEF Users!UsersAfter, Users!UsersAssumption, Users!UserStates
      <3>5. QED
        BY <1>2, <1>4, <3>3, <3>4, WithoutInvitations DEF Users!Knows, Users!EndsOthers, Kept
    <2>2. Fits(w, x)
      BY <1>2, <1>4, <1>6, <2>1, KeptWithout
    <2>3. QED
      BY <1>7, <2>2, Fitting
  <1>8. QED
    BY <1>5, <1>7, Aborted

LEMMA AlreadyAdministered ==
  ASSUME Users!Inv, Users!Single, NEW w \in Workers, served[w].pc # "idle",
         served[w].kind \notin {"bootstrap", "login"}
  PROVE  grants # {}
  <1>1. Users!Asks(served[w]) /\ Users!Administered
    BY OfServed DEF Users!Request
  <1>2. CASE served[w].kind = "accept"
    BY <1>1, <1>2 DEF Users!Asks, Users!Subjects, Users!Administered
  <1>3. CASE served[w].kind # "accept"
    <2>1. served[w].by \in People \X Nat /\ user[served[w].by[1]] # Absent
      BY <1>1, <1>3 DEF Users!Asks, Users!Public
    <2>2. served[w].by[1] \in People
      BY <2>1
    <2>3. QED
      BY <1>1, <2>1, <2>2 DEF Users!Administered
  <1>4. QED
    BY <1>2, <1>3

(* Nobody who is deactivated has a session if the sessions started are of  *)
(* the active.                                                             *)
LEMMA SignedAfter ==
  ASSUME Users!Inv, Users!Single, NEW t, \A p \in DOMAIN t.users : t.users[p] # "deactivated",
         \A k \in t.starts : k[1] \in DOMAIN t.users \/ user[k[1]] = "active"
  PROVE  \A p \in People : Users!UsersAfter(t)[p] = "deactivated" => \A k \in Users!OpenAfter(t) : k[1] # p
  <1> SUFFICES ASSUME NEW p \in People, Users!UsersAfter(t)[p] = "deactivated", NEW k \in Users!OpenAfter(t)
               PROVE  k[1] # p
    OBVIOUS
  <1>1. p \notin DOMAIN t.users /\ user[p] = "deactivated"
    BY DEF Users!UsersAfter
  <1>2. CASE k \in open
    BY <1>1, <1>2 DEF Users!Inv, Users!SignedOut, Users!SessionsOf
  <1>3. CASE k \in t.starts
    BY <1>1, <1>3
  <1>4. QED
    BY <1>2, <1>3 DEF Users!OpenAfter

(* A request that changes neither users nor invitations.                   *)
LEMMA WithoutUsers ==
  ASSUME Users!Inv, NEW w \in Workers, served[w].pc # "idle", NEW t, Kept(w, t),
         t.users = <<>>, t.invitations = <<>>, ~Users!EndsOthers(t),
         \A k \in t.starts : user[k[1]] = "active",
         Users!Single => Users!GrantsAfter(t) # {}
  PROVE  Fits(w, t)
  <1>1. ASSUME Users!Single PROVE Users!Knows(t)
    BY <1>1, NothingWritten, SignedAfter, WithoutInvitations DEF Users!Knows
  <1>2. QED
    BY <1>1, NothingWritten, KeptWithout

LEMMA GrantsKept ==
  ASSUME NEW t, grants # {}, t.revoked = {}
  PROVE  Users!GrantsAfter(t) # {}
  BY DEF Users!GrantsAfter

-----------------------------------------------------------------------------
LEMMA LogsIn ==
  ASSUME Users!UsersAssumption, Users!Inv, NEW w \in Workers, Users!Login(w)
  PROVE  Users!Inv'
  <1> DEFINE t == served[w]
  <1>1. t.pc = "handle" /\ t.kind = "login"
    BY DEF Users!Login, Users!Serves, Users!At
  <1>2. t.of \in People /\ Users!IsRequest(t) /\ Users!Blank(t)
    BY <1>1, OfServed DEF Users!Asks, Users!Subjects, Users!Request
  <1>3. PICK k \in Users!FreshSessions(t.of) :
          Users!Handle(w, None, user[t.of] = "active", [t EXCEPT !.starts = {k}])
    BY DEF Users!Login
  <1> DEFINE x == [[t EXCEPT !.starts = {k}] EXCEPT !.pc = "write"]
  <1>4. k \in People \X Nat /\ k[1] = t.of
    <2>1. scope.sessions \in Nat
      BY DEF Users!UsersAssumption, Users!Inv, Users!Typed
    <2>2. k \in {t.of} \X (1..scope.sessions) /\ 1..scope.sessions \subseteq Nat
      BY <2>1 DEF Users!FreshSessions
    <2>3. QED
      BY <1>2, <2>2
  <1>5. /\ Kept(w, x) /\ x.users = <<>> /\ x.invitations = <<>> /\ x.starts = {k} /\ x.revoked = {}
        /\ ~Users!EndsOthers(x)
    BY <1>1, <1>2, <1>4 DEF Kept, Users!IsRequest, Users!Blank, Users!EndsOthers
  <1> HIDE DEF x
  <1>6. Users!Abort(w) \/ (user[t.of] = "active" /\ Users!Start(w, x))
    BY <1>3 DEF Users!Handle, x
  <1>7. CASE user[t.of] = "active" /\ Users!Start(w, x)
    <2>1. ASSUME Users!Single PROVE Users!GrantsAfter(x) # {}
      <3>1. grants # {}
        BY <1>2, <1>7, <2>1, OfServed DEF Users!Administered, Users!UsersAssumption, Users!UserStates
      <3>2. QED
        BY <1>5, <3>1, GrantsKept
    <2>2. Fits(w, x)
      BY <1>1, <1>4, <1>5, <1>7, <2>1, WithoutUsers
    <2>3. QED
      BY <1>7, <2>2, Fitting
  <1>8. QED
    BY <1>6, <1>7, Aborted

LEMMA LogsOut ==
  ASSUME Users!UsersAssumption, Users!Inv, NEW w \in Workers, Users!Logout(w)
  PROVE  Users!Inv'
  <1> DEFINE t == served[w]
             x == [[t EXCEPT !.ends = {t.by}] EXCEPT !.pc = "write"]
  <1>1. t.pc = "handle" /\ t.kind = "logout"
    BY DEF Users!Logout, Users!Serves, Users!At
  <1>2. Users!IsRequest(t) /\ Users!Blank(t)
    BY <1>1, OfServed DEF Users!Request
  <1>3. /\ Kept(w, x) /\ x.users = <<>> /\ x.invitations = <<>> /\ x.starts = {} /\ x.revoked = {}
        /\ ~Users!EndsOthers(x)
    BY <1>1, <1>2 DEF Kept, Users!IsRequest, Users!Blank, Users!EndsOthers
  <1>4. Users!Abort(w) \/ Users!Start(w, x)
    BY DEF Users!Logout, Users!Handle
  <1> HIDE DEF x
  <1>5. Users!Single => Users!GrantsAfter(x) # {}
    BY <1>1, <1>3, AlreadyAdministered, GrantsKept
  <1>6. QED
    BY <1>1, <1>3, <1>4, <1>5, WithoutUsers, Fitting, Aborted

LEMMA EndsSessions ==
  ASSUME Users!UsersAssumption, Users!Inv, NEW w \in Workers, Users!EndSessions(w)
  PROVE  Users!Inv'
  <1> DEFINE t == served[w]
  <1>1. t.pc = "handle" /\ t.kind = "end sessions"
    BY DEF Users!EndSessions, Users!Serves, Users!At
  <1>2. Users!IsRequest(t) /\ Users!Blank(t)
    BY <1>1, OfServed DEF Users!Request
  <1>3. PICK q : Users!Ending(t, Users!SessionsOf(t.of)) = [t EXCEPT !.ends = Users!SessionsOf(t.of), !.queue = q]
    BY DEF Users!Ending
  <1> DEFINE x == [[t EXCEPT !.ends = Users!SessionsOf(t.of), !.queue = q] EXCEPT !.pc = "write"]
  <1>4. /\ Kept(w, x) /\ x.users = <<>> /\ x.invitations = <<>> /\ x.starts = {} /\ x.revoked = {}
        /\ ~Users!EndsOthers(x)
    BY <1>1, <1>2 DEF Kept, Users!IsRequest, Users!Blank, Users!EndsOthers
  <1>5. Users!Abort(w) \/ Users!Start(w, x)
    BY <1>3 DEF Users!EndSessions, Users!Handle
  <1> HIDE DEF x
  <1>6. Users!Single => Users!GrantsAfter(x) # {}
    BY <1>1, <1>4, AlreadyAdministered, GrantsKept
  <1>7. QED
    BY <1>1, <1>4, <1>5, <1>6, WithoutUsers, Fitting, Aborted

LEMMA Grants ==
  ASSUME Users!UsersAssumption, Users!Inv, NEW w \in Workers, Users!Grant(w)
  PROVE  Users!Inv'
  <1> DEFINE t == served[w]
             q == <<Users!New(<<"grant", t.of>>)>>
             x == [[t EXCEPT !.granted = {t.of}, !.queue = q] EXCEPT !.pc = "write"]
  <1>1. t.pc = "handle" /\ t.kind = "grant"
    BY DEF Users!Grant, Users!Serves, Users!At
  <1>2. Users!IsRequest(t) /\ Users!Blank(t) /\ t.of \in People \X Companies
    BY <1>1, OfServed DEF Users!Request, Users!Asks, Users!Subjects
  <1>3. /\ Kept(w, x) /\ x.users = <<>> /\ x.invitations = <<>> /\ x.starts = {} /\ x.revoked = {}
        /\ ~Users!EndsOthers(x)
    BY <1>1, <1>2 DEF Kept, Users!IsRequest, Users!Blank, Users!EndsOthers
  <1>4. Users!Abort(w) \/ Users!Start(w, x)
    BY DEF Users!Grant, Users!Handle
  <1> HIDE DEF x
  <1>5. Users!Single => Users!GrantsAfter(x) # {}
    BY <1>1, <1>3, AlreadyAdministered, GrantsKept
  <1>6. QED
    BY <1>1, <1>3, <1>4, <1>5, WithoutUsers, Fitting, Aborted

(* The last grant is not revoked.                                          *)
LEMMA SpareIsLeft ==
  ASSUME Users!Spare, NEW g
  PROVE  grants \ {g} # {}
  <1>1. Cardinality(grants) > 1
    BY SameSizes DEF Users!Spare
  <1>2. Cardinality({}) = 0 /\ Cardinality({g}) = 1
    BY FS_EmptySet, FS_Singleton
  <1>3. SUFFICES ASSUME grants \ {g} = {} PROVE FALSE
    OBVIOUS
  <1>4. grants = {} \/ grants = {g}
    BY <1>3
  <1>5. QED
    BY <1>1, <1>2, <1>4

LEMMA Revokes ==
  ASSUME Users!UsersAssumption, Users!Inv, NEW w \in Workers, Users!Revoke(w)
  PROVE  Users!Inv'
  <1> DEFINE t == served[w]
             q == <<Users!New(<<"grant", t.of>>)>>
             x == [[t EXCEPT !.revoked = {t.of}, !.queue = q] EXCEPT !.pc = "write"]
  <1>1. t.pc = "handle" /\ t.kind = "revoke"
    BY DEF Users!Revoke, Users!Serves, Users!At
  <1>2. Users!IsRequest(t) /\ Users!Blank(t)
    BY <1>1, OfServed DEF Users!Request
  <1>3. /\ Kept(w, x) /\ x.users = <<>> /\ x.invitations = <<>> /\ x.starts = {} /\ x.revoked = {t.of}
        /\ x.granted = {} /\ ~Users!EndsOthers(x)
    BY <1>1, <1>2 DEF Kept, Users!IsRequest, Users!Blank, Users!EndsOthers
  <1>4. Users!Abort(w) \/ (Users!Spare /\ Users!Start(w, x))
    BY DEF Users!Revoke, Users!Handle
  <1> HIDE DEF x
  <1>5. Users!Spare => Users!GrantsAfter(x) # {}
    BY <1>3, SpareIsLeft DEF Users!GrantsAfter
  <1>6. QED
    BY <1>1, <1>3, <1>4, <1>5, WithoutUsers, Fitting, Aborted

LEMMA ChangesPassword ==
  ASSUME Users!UsersAssumption, Users!Inv, NEW w \in Workers, Users!Password(w)
  PROVE  Users!Inv'
  <1> DEFINE t == served[w]
             q == <<Users!Update(t.by[1])>>
             x == [[t EXCEPT !.queue = q] EXCEPT !.pc = "write"]
  <1>1. t.pc = "handle" /\ t.kind = "password"
    BY DEF Users!Password, Users!Serves, Users!At
  <1>2. Users!IsRequest(t) /\ Users!Blank(t)
    BY <1>1, OfServed DEF Users!Request
  <1>3. /\ Kept(w, x) /\ x.users = <<>> /\ x.invitations = <<>> /\ x.starts = {} /\ x.revoked = {}
        /\ Users!EndsOthers(x)
    BY <1>1, <1>2 DEF Kept, Users!IsRequest, Users!Blank, Users!EndsOthers
  <1>4. Users!Abort(w) \/ Users!Start(w, x)
    BY DEF Users!Password, Users!Handle
  <1> HIDE DEF x
  <1>5. Users!Single => Users!Knows(x)
    BY <1>1, <1>3, AlreadyAdministered, NothingWritten DEF Users!Knows, Users!OnlyUser
  <1>6. QED
    BY <1>1, <1>3, <1>4, <1>5, NothingWritten, KeptWithout, Fitting, Aborted

LEMMA Deactivates ==
  ASSUME Users!UsersAssumption, Users!Inv, NEW w \in Workers, Users!Deactivate(w)
  PROVE  Users!Inv'
  <1> DEFINE t == served[w]
             q == <<Users!Update(t.of)>>
             u == Users!Written(t.of, "deactivated")
             x == [[t EXCEPT !.users = u, !.queue = q] EXCEPT !.pc = "write"]
  <1>1. t.pc = "handle" /\ t.kind = "deactivate"
    BY DEF Users!Deactivate, Users!Serves, Users!At
  <1>2. Users!IsRequest(t) /\ Users!Blank(t)
    BY <1>1, OfServed DEF Users!Request
  <1>3. DOMAIN u = {t.of} /\ u[t.of] = "deactivated" /\ "deactivated" \in Users!UserStates
    BY DEF Users!Written, Users!UserStates
  <1>4. Users!Abort(w) \/ Users!Start(w, x)
    BY DEF Users!Deactivate, Users!Handle
  <1> HIDE DEF u, q
  <1>5. /\ Kept(w, x) /\ x.users = u /\ x.invitations = <<>> /\ x.starts = {} /\ x.revoked = {}
        /\ Users!EndsOthers(x)
    BY <1>1, <1>2 DEF Kept, Users!IsRequest, Users!Blank, Users!EndsOthers
  <1> HIDE DEF x
  <1>6. Users!Single => Users!Knows(x)
    BY <1>1, <1>3, <1>5, AlreadyAdministered DEF Users!Knows, Users!OnlyUser, Kept
  <1>7. QED
    BY <1>1, <1>3, <1>4, <1>5, <1>6, KeptWithout, Fitting, Aborted

LEMMA EndsTheOthers ==
  ASSUME Users!UsersAssumption, Users!Inv, NEW w \in Workers, Users!EndOthers(w)
  PROVE  Users!Inv'
  <1> DEFINE t == served[w]
  <1>1. t.pc = "write" /\ t.kind \in {"password", "deactivate"} /\ t.pc # "idle" /\ Users!EndsOthers(t)
    BY DEF Users!EndOthers, Users!At, Users!EndsOthers
  <1>2. Users!Request(t) /\ Users!IsRequest(t) /\ Users!Writes(t)
    BY OfServed DEF Users!Request
  <1>3. PICK q : Users!Ending(t, Users!Others(t)) = [t EXCEPT !.ends = Users!Others(t), !.queue = q]
    BY DEF Users!Ending
  <1> DEFINE x == [[t EXCEPT !.ends = Users!Others(t), !.queue = q] EXCEPT !.pc = "ending"]
  <1>4. Users!Start(w, x)
    BY <1>3 DEF Users!EndOthers
  <1>5. /\ Kept(w, x) /\ x.users = t.users /\ x.invitations = t.invitations
        /\ x.starts = t.starts /\ x.revoked = t.revoked
        /\ ~Users!EndsOthers(x) /\ x.ends = Users!Others(t)
    BY <1>1, <1>2 DEF Kept, Users!IsRequest, Users!EndsOthers
  <1> HIDE DEF x
  <1>6. ASSUME Users!Single PROVE Users!Knows(x)
    <2>1. Users!OnlyUser(t)
      BY <1>1, <1>6, OfServed DEF Users!Knows
    <2>2. Users!GrantsAfter(x) # {}
      BY <1>5, <2>1, GrantsKept DEF Users!OnlyUser
    <2>3. ASSUME NEW p \in People, Users!UsersAfter(x)[p] = "deactivated", NEW k \in Users!OpenAfter(x)
          PROVE  k[1] # p
      <3>1. k \in open /\ k \notin Users!Others(t)
        BY <1>5, <2>1 DEF Users!OpenAfter, Users!OnlyUser
      <3>2. CASE p \in DOMAIN t.users
        <4>1. t.kind = "deactivate" /\ p = t.of
          BY <2>1, <3>2 DEF Users!OnlyUser
        <4>2. QED
          BY <3>1, <4>1 DEF Users!Others, Users!SessionsOf
      <3>3. CASE p \notin DOMAIN t.users
        <4>1. user[p] = "deactivated"
          BY <1>5, <2>3, <3>3 DEF Users!UsersAfter
        <4>2. QED
          BY <1>6, <3>1, <4>1, OfServed DEF Users!SignedOut, Users!SessionsOf
      <3>4. QED
        BY <3>2, <3>3
    <2>4. x.invitations = <<>>
      BY <1>5, <2>1 DEF Users!OnlyUser
    <2>5. Users!LeavesSound(x)
      BY <2>2, <2>3, <2>4, WithoutInvitations
    <2>6. QED
      BY <1>5, <2>5 DEF Users!Knows
  <1>7. Users!Writes(x)
    BY <1>2, <1>5 DEF Users!Writes
  <1>8. \A j \in DOMAIN x.invitations : \A v \in Workers \ {w} :
          Users!Exists(j) \/ j \notin DOMAIN served[v].invitations
    BY <1>5 DEF Users!Inv, Users!SentApart
  <1>9. QED
    BY <1>1, <1>4, <1>5, <1>6, <1>7, <1>8, KeptFits, Fitting

LEMMA Acquires ==
  ASSUME Users!Inv, NEW w \in Workers, Users!Acquire(w)
  PROVE  Users!Inv'
  <1> DEFINE t == served[w]
             x == Users!WithLock(t)
  <1>1. Users!Request(t) /\ Users!IsRequest(t) /\ Users!Writes(t) /\ Users!Start(w, x)
    BY OfServed DEF Users!Request, Users!Acquire
  <1>2. /\ Users!IsRequest(x) /\ x.pc = t.pc /\ x.kind = t.kind /\ x.by = t.by /\ x.of = t.of
        /\ x.users = t.users /\ x.invitations = t.invitations /\ x.starts = t.starts
        /\ x.ends = t.ends /\ x.granted = t.granted /\ x.revoked = t.revoked
    BY <1>1 DEF Users!IsRequest, Users!WithLock
  <1> HIDE DEF x
  <1>3. Users!Request(x)
    BY <1>1, <1>2 DEF Users!Request, Users!Asks, Users!Blank, Users!Writes
  <1>4. \A i : Users!Merged(x, i) = Users!Merged(t, i)
    BY <1>2 DEF Users!Merged
  <1>5. Users!Knows(t) => Users!Knows(x)
    BY <1>2, <1>4 DEF Users!Knows, Users!LeavesSound, Users!OnlyUser, Users!EndsOthers,
       Users!UsersAfter, Users!OpenAfter, Users!GrantsAfter
  <1>6. Fits(w, x)
    BY <1>2, <1>3, <1>5, OfServed DEF Fits, Users!Inv, Users!SentApart
  <1>7. QED
    BY <1>1, <1>6, Fitting

LEMMA Begins ==
  ASSUME Users!UsersAssumption, Users!Inv, NEW w \in Workers, NEW kind, NEW by, NEW of \in Users!Subjects(kind),
         of \in Invitations => Users!Exists(of), Users!Begin(w, kind, by, of)
  PROVE  Users!Inv'
  <1> DEFINE q == IF by = None THEN <<>> ELSE <<Users!Update(by)>>
             x == [Users!Idle EXCEPT !.pc = "handle", !.kind = kind, !.by = by, !.of = of, !.queue = q]
  <1>1. /\ served[w].pc = "idle" /\ Users!Start(w, x)
        /\ Cardinality(Users!Busy) < scope.requests
        /\ kind \notin Users!Public => by \in open /\ Users!Usable(by)
    BY SameSizes DEF Users!Begin, Users!Busy
  <1>2. Users!IsRequest(x) /\ Users!Blank(x) /\ x.pc = "handle" /\ x.kind = kind /\ x.by = by /\ x.of = of
    BY DEF Users!Idle, Users!IsRequest, Users!Blank
  <1> HIDE DEF x
  <1>3. Users!Asks(x)
    <2>1. kind \in {"accept", "resend", "withdraw"} => Users!Exists(of)
      BY DEF Users!Subjects
    <2>2. kind \notin Users!Public => by \in People \X Nat /\ user[by[1]] # Absent
      BY <1>1 DEF Users!Usable, Users!Inv, Users!Typed, Users!UsersAssumption, Users!UserStates
    <2>3. QED
      BY <1>2, <2>1, <2>2 DEF Users!Asks
  <1>4. Users!Request(x)
    BY <1>2, <1>3, NothingWritten, SameSizes DEF Users!Request, Users!Blank, Users!Writes
  <1>5. /\ served' = [v \in Workers |-> served'[v]] /\ served'[w] = x
        /\ \A v \in Workers \ {w} : served'[v] = served[v]
        /\ user' = user /\ invitation' = invitation /\ open' = open /\ grants' = grants /\ scope' = scope
    BY <1>1, OnlyServed
  <1>6. Users!Typed' /\ Users!SentApart' /\ Users!OneOpenInvitation'
    BY <1>1, <1>2, <1>4, NothingWritten, Unnoticed DEF Users!Blank
  <1>7. IsFiniteSet(Users!Busy) /\ IsFiniteSet(Users!Busy') /\ Users!Busy' \subseteq Users!Busy \cup {w}
    <2>1. IsFiniteSet(Users!Busy)
      BY SameSizes DEF Users!Inv, Users!Alone
    <2>2. Users!Busy' \subseteq Users!Busy \cup {w}
      BY <1>5 DEF Users!Busy
    <2>3. QED
      BY <2>1, <2>2, Finiteness
  <1>8. Users!Single => Users!Busy = {}
    BY <1>1, <1>7, FS_CardinalityType, FS_EmptySet DEF Users!Single
  <1>9. Users!Single' <=> Users!Single
    BY <1>5 DEF Users!Single
  <1>10. Users!Alone'
    BY <1>7, <1>8, <1>9, SameSizes DEF Users!Alone
  <1>11. ASSUME Users!Single, NEW v \in Workers PROVE (Users!Knows(served[v]))'
    <2>1. Users!Knows(served'[v])
      BY <1>2, <1>5, <1>11 DEF Users!Inv, Users!Knows, Users!EndsOthers
    <2>2. QED
      BY <1>5, <2>1 DEF Users!Knows, Users!LeavesSound, Users!OnlyUser, Users!EndsOthers, Users!Merged,
         Users!Exists, Users!UsersAfter, Users!OpenAfter, Users!GrantsAfter
  <1>12. QED
    BY <1>5, <1>6, <1>10, <1>11, SameRows DEF Users!Inv

LEMMA FreshOnes ==
  ASSUME Users!UsersAssumption, Users!Inv, NEW i \in Users!FreshInvitations
  PROVE  /\ i \in Invitations /\ ~Users!Exists(i)
         /\ \A v \in Workers : i \notin DOMAIN served[v].invitations
  BY DEF Users!UsersAssumption, Users!Inv, Users!Typed, Users!FreshInvitations

LEMMA InvitedType ==
  ASSUME NEW p \in People
  PROVE  /\ Users!Invited(p) \in Users!Invitation
         /\ ~Users!Invited(p).accepted /\ Users!Invited(p).user = p
  BY DEF Users!Invited, Users!Invitation

LEMMA RowOf ==
  ASSUME Users!Inv, NEW i \in Invitations, Users!Exists(i)
  PROVE  invitation[i] \in Users!Invitation /\ invitation[i].user \in People
  BY DEF Users!Inv, Users!Typed, Users!Exists, Users!Invitation

LEMMA Invites ==
  ASSUME Users!UsersAssumption, Users!Inv, NEW w \in Workers, Users!Invite(w)
  PROVE  Users!Inv'
  <1> DEFINE t == served[w]
             q == <<Users!New(<<"email", t.of>>), Users!New(<<"open", t.of>>)>>
             u == Users!Written(t.of, "invited")
             row == Users!Invited(t.of)
  <1>1. t.pc = "handle" /\ t.kind = "invite"
    BY DEF Users!Invite, Users!Serves, Users!At
  <1>2. t.of \in People /\ Users!IsRequest(t) /\ Users!Blank(t)
    BY <1>1, OfServed DEF Users!Asks, Users!Subjects, Users!Request
  <1>3. PICK i \in Users!FreshInvitations :
          Users!Handle(w, None, user[t.of] = Absent,
            [t EXCEPT !.users = u, !.invitations = Users!Written(i, row), !.queue = q])
    BY DEF Users!Invite
  <1> DEFINE j == Users!Written(i, row)
             x == [[t EXCEPT !.users = u, !.invitations = j, !.queue = q] EXCEPT !.pc = "write"]
  <1>4. Users!Abort(w) \/ Users!Start(w, x)
    BY <1>3 DEF Users!Handle
  <1>5. /\ DOMAIN u = {t.of} /\ u[t.of] = "invited" /\ "invited" \in Users!UserStates
        /\ DOMAIN j = {i} /\ j[i] = row
    BY DEF Users!Written, Users!UserStates
  <1> HIDE DEF u, q, j
  <1>6. /\ Kept(w, x) /\ x.users = u /\ x.invitations = j /\ x.starts = {} /\ x.revoked = {}
        /\ ~Users!EndsOthers(x)
    BY <1>1, <1>2 DEF Kept, Users!IsRequest, Users!Blank, Users!EndsOthers
  <1> HIDE DEF x
  <1>7. row \in Users!Invitation /\ ~row.accepted /\ IsFiniteSet({i})
    BY <1>2, InvitedType, FS_Singleton
  <1>8. Users!Writes(x)
    BY <1>5, <1>6, <1>7, FreshOnes, SameSizes DEF Users!Writes
  <1>9. ASSUME Users!Single PROVE Users!Knows(x)
    <2>1. ~Users!Merged(x, i).accepted
      BY <1>5, <1>6, <1>7, FreshOnes DEF Users!Merged
    <2>2. Users!GrantsAfter(x) # {}
      BY <1>1, <1>6, <1>9, AlreadyAdministered, GrantsKept
    <2>3. \A p \in People : Users!UsersAfter(x)[p] = "deactivated" => \A k \in Users!OpenAfter(x) : k[1] # p
      BY <1>5, <1>6, <1>9, SignedAfter
    <2>4. QED
      BY <1>5, <1>6, <2>1, <2>2, <2>3 DEF Users!Knows, Users!LeavesSound
  <1>10. Fits(w, x)
    BY <1>1, <1>5, <1>6, <1>8, <1>9, FreshOnes, KeptFits
  <1>11. QED
    BY <1>4, <1>10, Fitting, Aborted

(* A request that changes an invitation as it is.                          *)
LEMMA AsksAbout ==
  ASSUME Users!Inv, NEW w \in Workers, served[w].pc = "handle",
         served[w].kind \in {"accept", "resend", "withdraw"}
  PROVE  /\ served[w].of \in Invitations /\ Users!Exists(served[w].of)
         /\ invitation[served[w].of] \in Users!Invitation /\ invitation[served[w].of].user \in People
         /\ Users!IsRequest(served[w]) /\ Users!Blank(served[w])
  <1>1. served[w].of \in Invitations /\ Users!Exists(served[w].of)
    BY OfServed DEF Users!Asks, Users!Subjects
  <1>2. QED
    BY <1>1, OfServed, RowOf DEF Users!Request

LEMMA Resends ==
  ASSUME Users!UsersAssumption, Users!Inv, NEW w \in Workers, Users!Resend(w)
  PROVE  Users!Inv'
  <1> DEFINE t == served[w]
             person == invitation[t.of].user
             old == [invitation[t.of] EXCEPT !.superseded = TRUE]
             q == SelectSeq(Users!Rewrite(t.of), LAMBDA l : l[1] = t.of) \o <<Users!New(<<"open", person>>)>>
  <1>1. t.pc = "handle" /\ t.kind = "resend"
    BY DEF Users!Resend, Users!Serves, Users!At
  <1>2. /\ t.of \in Invitations /\ Users!Exists(t.of) /\ invitation[t.of] \in Users!Invitation
        /\ person \in People /\ Users!IsRequest(t) /\ Users!Blank(t)
    BY <1>1, AsksAbout
  <1>3. PICK i, r :
          /\ i \in Users!FreshInvitations
          /\ Users!Handle(w, None, ~invitation[t.of].accepted,
               [t EXCEPT !.invitations = [j \in {t.of, i} |->
                            IF j = i THEN Users!Invited(person) ELSE [invitation[j] EXCEPT !.superseded = TRUE]],
                         !.queue = r])
    BY DEF Users!Resend
  <1> DEFINE m == [j \in {t.of, i} |->
                    IF j = i THEN Users!Invited(person) ELSE [invitation[j] EXCEPT !.superseded = TRUE]]
             x == [[t EXCEPT !.invitations = m, !.queue = r] EXCEPT !.pc = "write"]
  <1>4. Users!Abort(w) \/ (~invitation[t.of].accepted /\ Users!Start(w, x))
    BY <1>3 DEF Users!Handle
  <1>5. i \in Invitations /\ ~Users!Exists(i) /\ i # t.of
    BY <1>2, <1>3, FreshOnes
  <1>6. DOMAIN m = {t.of, i} /\ m[i] = Users!Invited(person) /\ m[t.of] = old
    BY <1>5
  <1>7. old \in Users!Invitation /\ old.user = person /\ old.accepted = invitation[t.of].accepted
    BY <1>2 DEF Users!Invitation
  <1> HIDE DEF m
  <1>8. /\ Kept(w, x) /\ x.users = <<>> /\ x.invitations = m /\ x.starts = {} /\ x.revoked = {}
        /\ ~Users!EndsOthers(x)
    BY <1>1, <1>2 DEF Kept, Users!IsRequest, Users!Blank, Users!EndsOthers
  <1> HIDE DEF x, old
  <1>9. Users!Writes(x)
    <2>1. IsFiniteSet({t.of, i})
      <3>1. IsFiniteSet({t.of}) /\ {t.of, i} = {t.of} \cup {i}
        BY FS_Singleton
      <3>2. QED
        BY <3>1, FS_AddElement
    <2>2. QED
      BY <1>2, <1>5, <1>6, <1>7, <1>8, <2>1, InvitedType, NothingWritten, SameSizes DEF Users!Writes
  <1>10. CASE ~invitation[t.of].accepted /\ Users!Start(w, x)
    <2>1. ASSUME Users!Single PROVE Users!Knows(x)
      <3>1. ~Users!Merged(x, i).accepted
        BY <1>2, <1>5, <1>6, <1>8, InvitedType DEF Users!Merged
      <3>2. ~Users!Merged(x, t.of).accepted
        BY <1>2, <1>6, <1>7, <1>8, <1>10 DEF Users!Merged, Users!Invitation
      <3>3. Users!GrantsAfter(x) # {}
        BY <1>1, <1>8, <2>1, AlreadyAdministered, GrantsKept
      <3>4. \A p \in People : Users!UsersAfter(x)[p] = "deactivated" => \A k \in Users!OpenAfter(x) : k[1] # p
        BY <1>8, <2>1, NothingWritten, SignedAfter
      <3>5. QED
        BY <1>6, <1>8, <3>1, <3>2, <3>3, <3>4 DEF Users!Knows, Users!LeavesSound
    <2>2. Fits(w, x)
      BY <1>1, <1>2, <1>3, <1>6, <1>8, <1>9, <2>1, FreshOnes, KeptFits
    <2>3. QED
      BY <1>10, <2>2, Fitting
  <1>11. QED
    BY <1>4, <1>10, Aborted

LEMMA Withdraws ==
  ASSUME Users!UsersAssumption, Users!Inv, NEW w \in Workers, Users!Withdraw(w)
  PROVE  Users!Inv'
  <1> DEFINE t == served[w]
             row == [invitation[t.of] EXCEPT !.revoked = TRUE]
             m == Users!Written(t.of, row)
             q == Users!Rewrite(t.of)
             x == [[t EXCEPT !.invitations = m, !.queue = q] EXCEPT !.pc = "write"]
  <1>1. t.pc = "handle" /\ t.kind = "withdraw"
    BY DEF Users!Withdraw, Users!Serves, Users!At
  <1>2. /\ t.of \in Invitations /\ Users!Exists(t.of) /\ invitation[t.of] \in Users!Invitation
        /\ Users!IsRequest(t) /\ Users!Blank(t)
    BY <1>1, AsksAbout
  <1>3. Users!Abort(w) \/ (~invitation[t.of].accepted /\ Users!Start(w, x))
    BY DEF Users!Withdraw, Users!Handle
  <1>4. DOMAIN m = {t.of} /\ m[t.of] = row
    BY DEF Users!Written
  <1>5. row \in Users!Invitation /\ row.user = invitation[t.of].user /\ row.accepted = invitation[t.of].accepted
    BY <1>2 DEF Users!Invitation
  <1> HIDE DEF m, q
  <1>6. /\ Kept(w, x) /\ x.users = <<>> /\ x.invitations = m /\ x.starts = {} /\ x.revoked = {}
        /\ ~Users!EndsOthers(x)
    BY <1>1, <1>2 DEF Kept, Users!IsRequest, Users!Blank, Users!EndsOthers
  <1> HIDE DEF x, row
  <1>7. Users!Writes(x)
    <2>1. Users!IsFiniteSet({t.of})
      BY FS_Singleton, SameSizes
    <2>2. QED
      BY <1>2, <1>4, <1>5, <1>6, <2>1, NothingWritten DEF Users!Writes
  <1>8. CASE ~invitation[t.of].accepted /\ Users!Start(w, x)
    <2>1. ASSUME Users!Single PROVE Users!Knows(x)
      <3>1. ~Users!Merged(x, t.of).accepted
        BY <1>2, <1>4, <1>5, <1>6, <1>8 DEF Users!Merged, Users!Invitation
      <3>2. Users!GrantsAfter(x) # {}
        BY <1>1, <1>6, <2>1, AlreadyAdministered, GrantsKept
      <3>3. \A p \in People : Users!UsersAfter(x)[p] = "deactivated" => \A k \in Users!OpenAfter(x) : k[1] # p
        BY <1>6, <2>1, NothingWritten, SignedAfter
      <3>4. QED
        BY <1>4, <1>6, <3>1, <3>2, <3>3 DEF Users!Knows, Users!LeavesSound
    <2>2. Fits(w, x)
      BY <1>1, <1>2, <1>4, <1>6, <1>7, <2>1, KeptFits
    <2>3. QED
      BY <1>8, <2>2, Fitting
  <1>9. QED
    BY <1>3, <1>8, Aborted

LEMMA Accepts ==
  ASSUME Users!UsersAssumption, Users!Inv, NEW w \in Workers, Users!Accept(w)
  PROVE  Users!Inv'
  <1> DEFINE t == served[w]
             person == invitation[t.of].user
             row == [invitation[t.of] EXCEPT !.accepted = TRUE]
             m == Users!Written(t.of, row)
             u == Users!Written(person, "active")
  <1>1. t.pc = "handle" /\ t.kind = "accept"
    BY DEF Users!Accept, Users!Serves, Users!At
  <1>2. /\ t.of \in Invitations /\ Users!Exists(t.of) /\ invitation[t.of] \in Users!Invitation
        /\ person \in People /\ Users!IsRequest(t) /\ Users!Blank(t)
    BY <1>1, AsksAbout
  <1>3. PICK k, q :
          /\ k \in Users!FreshSessions(person)
          /\ Users!Handle(w, None, Users!Pending(t.of) /\ ~invitation[t.of].expired,
               [t EXCEPT !.users = u, !.starts = {k}, !.invitations = m, !.queue = q])
    BY DEF Users!Accept
  <1> DEFINE x == [[t EXCEPT !.users = u, !.starts = {k}, !.invitations = m, !.queue = q] EXCEPT !.pc = "write"]
  <1>4. Users!Abort(w) \/ (Users!Pending(t.of) /\ Users!Start(w, x))
    BY <1>3 DEF Users!Handle
  <1>5. k \in People \X Nat /\ k[1] = person
    <2>1. scope.sessions \in Nat
      BY DEF Users!UsersAssumption, Users!Inv, Users!Typed
    <2>2. k \in {person} \X (1..scope.sessions) /\ 1..scope.sessions \subseteq Nat
      BY <1>3, <2>1 DEF Users!FreshSessions
    <2>3. QED
      BY <1>2, <2>2
  <1>6. /\ DOMAIN m = {t.of} /\ m[t.of] = row
        /\ DOMAIN u = {person} /\ u[person] = "active" /\ "active" \in Users!UserStates
    BY DEF Users!Written, Users!UserStates
  <1>7. row \in Users!Invitation /\ row.user = person /\ row.revoked = invitation[t.of].revoked
        /\ row.superseded = invitation[t.of].superseded
    BY <1>2 DEF Users!Invitation
  <1> HIDE DEF m, u, person
  <1>8. /\ Kept(w, x) /\ x.users = u /\ x.invitations = m /\ x.starts = {k} /\ x.revoked = {}
        /\ ~Users!EndsOthers(x)
    BY <1>1, <1>2, <1>5 DEF Kept, Users!IsRequest, Users!Blank, Users!EndsOthers
  <1> HIDE DEF x, row
  <1>9. Users!Writes(x)
    <2>1. Users!IsFiniteSet({t.of})
      BY FS_Singleton, SameSizes
    <2>2. QED
      BY <1>2, <1>6, <1>7, <1>8, <2>1 DEF Users!Writes, person
  <1>10. CASE Users!Pending(t.of) /\ Users!Start(w, x)
    <2>1. ASSUME Users!Single PROVE Users!Knows(x)
      <3>1. ~Users!Merged(x, t.of).revoked /\ ~Users!Merged(x, t.of).superseded
        BY <1>2, <1>6, <1>7, <1>8, <1>10 DEF Users!Merged, Users!Invitation, Users!Pending
      <3>2. Users!GrantsAfter(x) # {}
        BY <1>1, <1>8, <2>1, AlreadyAdministered, GrantsKept
      <3>3. \A p \in People : Users!UsersAfter(x)[p] = "deactivated" => \A l \in Users!OpenAfter(x) : l[1] # p
        BY <1>5, <1>6, <1>8, <2>1, SignedAfter
      <3>4. QED
        BY <1>6, <1>8, <3>1, <3>2, <3>3 DEF Users!Knows, Users!LeavesSound
    <2>2. Fits(w, x)
      BY <1>1, <1>2, <1>6, <1>8, <1>9, <2>1, KeptFits
    <2>3. QED
      BY <1>10, <2>2, Fitting
  <1>11. QED
    BY <1>4, <1>10, Aborted

(* What a commit leaves of an invitation.                                  *)
LEMMA MergedRow ==
  ASSUME Users!Inv, NEW t, Users!Writes(t), NEW i \in DOMAIN t.invitations
  PROVE  /\ Users!Merged(t, i) \in Users!Invitation /\ Users!Merged(t, i).user = t.invitations[i].user
         /\ Users!Exists(i) => /\ Users!Merged(t, i).user = invitation[i].user
                               /\ t.invitations[i].accepted => Users!Merged(t, i).accepted
                               /\ t.invitations[i].revoked => Users!Merged(t, i).revoked
                               /\ t.invitations[i].superseded => Users!Merged(t, i).superseded
         /\ ~Users!Exists(i) => Users!Merged(t, i) = t.invitations[i]
  <1>1. t.invitations[i] \in Users!Invitation /\ i \in Invitations
        /\ (Users!Exists(i) => invitation[i].user = t.invitations[i].user)
    BY DEF Users!Writes
  <1>2. CASE Users!Exists(i)
    <2>1. invitation[i] \in Users!Invitation
      BY <1>1, <1>2, RowOf
    <2>2. QED
      BY <1>1, <1>2, <2>1 DEF Users!Merged, Users!Invitation
  <1>3. CASE ~Users!Exists(i)
    BY <1>1, <1>3 DEF Users!Merged
  <1>4. QED
    BY <1>2, <1>3

LEMMA Committed ==
  ASSUME Users!UsersAssumption, Users!Inv, NEW w \in Workers, Users!Commit(w)
  PROVE  /\ invitation' \in [Invitations -> Users!Invitation \cup {Absent}]
         /\ \A i \in DOMAIN served[w].invitations : invitation'[i] = Users!Merged(served[w], i)
         /\ \A i \in Invitations \ DOMAIN served[w].invitations : invitation'[i] = invitation[i]
         /\ \A i \in Invitations : /\ Users!Exists(i) => Users!Exists(i)' /\ invitation'[i].user = invitation[i].user
                                   /\ Users!Exists(i)' => Users!Exists(i) \/ i \in DOMAIN served[w].invitations
         /\ user' \in [People -> Users!UserStates \cup {Absent}]
         /\ \A p \in People : user[p] # Absent => user'[p] # Absent
         /\ scope' = scope /\ served' = [v \in Workers |-> served'[v]] /\ served'[w] = Users!Idle
         /\ \A v \in Workers \ {w} : served'[v] = served[v]
  <1> DEFINE t == served[w]
  <1>1. Users!Writes(t) /\ DOMAIN t.invitations \subseteq Invitations
    BY OfServed DEF Users!Request, Users!Writes
  <1>2. /\ \A i \in DOMAIN t.invitations : invitation'[i] = Users!Merged(t, i)
        /\ \A i \in Invitations \ DOMAIN t.invitations : invitation'[i] = invitation[i]
        /\ invitation' = [i \in Invitations |-> invitation'[i]]
    BY <1>1 DEF Users!Commit
  <1>3. \A i \in Invitations : invitation'[i] \in Users!Invitation \cup {Absent}
    BY <1>1, <1>2, MergedRow DEF Users!Inv, Users!Typed
  <1>4. \A i \in DOMAIN t.invitations : Users!Exists(i)'
    BY <1>1, <1>2, MergedRow DEF Users!Exists, Users!UsersAssumption
  <1>5. \A i \in Invitations : /\ Users!Exists(i) => Users!Exists(i)' /\ invitation'[i].user = invitation[i].user
                               /\ Users!Exists(i)' => Users!Exists(i) \/ i \in DOMAIN t.invitations
    <2>1. \A i \in Invitations \ DOMAIN t.invitations : Users!Exists(i)' <=> Users!Exists(i)
      BY <1>2 DEF Users!Exists
    <2>2. QED
      BY <1>1, <1>2, <1>4, <2>1, MergedRow
  <1>6. user' \in [People -> Users!UserStates \cup {Absent}] /\ \A p \in People : user[p] # Absent => user'[p] # Absent
    <2>1. user' = [p \in People |-> IF p \in DOMAIN t.users THEN t.users[p] ELSE user[p]]
      BY DEF Users!Commit, Users!UsersAfter
    <2>2. \A p \in DOMAIN t.users : t.users[p] \in Users!UserStates /\ t.users[p] # Absent
      BY <1>1 DEF Users!Writes, Users!UsersAssumption
    <2>3. user \in [People -> Users!UserStates \cup {Absent}]
      BY DEF Users!Inv, Users!Typed
    <2> HIDE DEF t
    <2>4. QED
      BY <2>1, <2>2, <2>3
  <1>7. /\ scope' = scope /\ served' = [v \in Workers |-> served'[v]] /\ served'[w] = Users!Idle
        /\ \A v \in Workers \ {w} : served'[v] = served[v]
    BY DEF Users!Commit, Users!Inv, Users!Typed
  <1>8. invitation' \in [Invitations -> Users!Invitation \cup {Absent}]
    BY <1>2, <1>3
  <1>9. QED
    BY <1>2, <1>5, <1>6, <1>7, <1>8

(* Others go on asking for what there is.                                  *)
LEMMA OthersAsk ==
  ASSUME Users!UsersAssumption, Users!Inv, NEW w \in Workers, Users!Commit(w), NEW v \in Workers \ {w}
  PROVE  (Users!Request(served[v]))'
  <1> DEFINE t == served[v]
  <1>1. served'[v] = t /\ Users!Request(t)
    BY Committed, OfServed
  <1>2. t.pc # "idle" => (Users!Asks(t))'
    <2>1. SUFFICES ASSUME t.pc # "idle" PROVE (Users!Asks(t))'
      OBVIOUS
    <2>2. Users!Asks(t)
      BY <1>1, <2>1 DEF Users!Request
    <2>3. t.kind \in {"accept", "resend", "withdraw"} => Users!Exists(t.of)'
      <3>1. SUFFICES ASSUME t.kind \in {"accept", "resend", "withdraw"} PROVE Users!Exists(t.of)'
        OBVIOUS
      <3>2. t.of \in Invitations /\ Users!Exists(t.of)
        BY <2>2, <3>1 DEF Users!Asks, Users!Subjects
      <3>3. QED
        BY <3>2, Committed
    <2>4. t.kind \notin Users!Public => t.by \in People \X Nat /\ user'[t.by[1]] # Absent
      <3>1. SUFFICES ASSUME t.kind \notin Users!Public PROVE t.by \in People \X Nat /\ user'[t.by[1]] # Absent
        OBVIOUS
      <3>2. t.by \in People \X Nat /\ user[t.by[1]] # Absent
        BY <2>2, <3>1 DEF Users!Asks
      <3>3. t.by[1] \in People
        BY <3>2
      <3>4. QED
        BY <3>2, <3>3, Committed
    <2>5. QED
      BY <1>1, <2>2, <2>3, <2>4 DEF Users!Asks
  <1>3. (Users!Writes(t))'
    <2>1. \A i \in DOMAIN t.invitations : Users!Exists(i)' => Users!Exists(i)
      BY Committed, OfServed DEF Users!Inv, Users!SentApart, Users!Request, Users!Writes
    <2>2. \A i \in DOMAIN t.invitations : Users!Exists(i)' => invitation'[i].user = t.invitations[i].user
      BY <1>1, <2>1, Committed DEF Users!Request, Users!Writes
    <2>3. QED
      BY <1>1, <2>2 DEF Users!Request, Users!Writes
  <1>4. QED
    BY <1>1, <1>2, <1>3 DEF Users!Request, Users!IsRequest, Users!Blank

LEMMA OnePendingIsOpen ==
  ASSUME Users!UsersAssumption, Users!Inv, NEW w \in Workers, Users!Commit(w)
  PROVE  Users!OneOpenInvitation'
  <1> DEFINE t == served[w]
  <1>1. Users!Writes(t) /\ IsFiniteSet({i \in Invitations : Users!Exists(i)}) /\ IsFiniteSet(DOMAIN t.invitations)
    BY OfServed, SameSizes DEF Users!Request, Users!Writes, Users!Inv, Users!Typed
  <1> SUFFICES ASSUME NEW p \in People
               PROVE  Cardinality({i \in Invitations : Users!Pending(i)' /\ invitation'[i].user = p}) <= 1
    BY SameSizes DEF Users!OneOpenInvitation
  <1> DEFINE S == {i \in Invitations : Users!Pending(i)' /\ invitation'[i].user = p}
             P == Users!PendingAfter(t, p)
  <1>2. Cardinality(P) <= 1
    BY SameSizes DEF Users!Commit, Users!Unique, Users!OnePending
  <1>3. IsFiniteSet(P)
    <2>1. P \subseteq {i \in Invitations : Users!Exists(i)} \cup DOMAIN t.invitations
      BY DEF Users!PendingAfter, Users!After, Users!Exists
    <2>2. QED
      BY <1>1, <2>1, FS_Union, FS_Subset
  <1>4. ASSUME NEW i \in S PROVE i \in P
    <2>1. i \in Invitations /\ Users!Pending(i)' /\ invitation'[i].user = p
      OBVIOUS
    <2>2. CASE i \in DOMAIN t.invitations
      <3>1. /\ invitation'[i] = Users!Merged(t, i) /\ t.invitations[i] \in Users!Invitation
            /\ Users!Merged(t, i).user = t.invitations[i].user
        BY <1>1, <2>2, Committed, MergedRow DEF Users!Writes
      <3>2. ~t.invitations[i].accepted /\ ~t.invitations[i].revoked /\ ~t.invitations[i].superseded
        BY <1>1, <2>1, <2>2, <3>1, MergedRow DEF Users!Pending
      <3>3. t.invitations[i] # Absent
        BY <3>1 DEF Users!UsersAssumption
      <3>4. QED
        BY <2>1, <2>2, <3>1, <3>2, <3>3 DEF Users!PendingAfter, Users!After
    <2>3. CASE i \notin DOMAIN t.invitations
      <3>1. invitation'[i] = invitation[i]
        BY <2>1, <2>3, Committed
      <3>2. QED
        BY <2>1, <2>3, <3>1 DEF Users!PendingAfter, Users!After, Users!Pending, Users!Exists
    <2>4. QED
      BY <2>2, <2>3
  <1> HIDE DEF S, P
  <1>5. S \subseteq P
    BY <1>4
  <1>6. Cardinality(S) <= Cardinality(P) /\ Cardinality(S) \in Nat /\ Cardinality(P) \in Nat
    BY <1>3, <1>5, FS_Subset, FS_CardinalityType
  <1>7. QED
    BY <1>2, <1>6 DEF S

LEMMA Commits ==
  ASSUME Users!UsersAssumption, Users!Inv, NEW w \in Workers, Users!Commit(w)
  PROVE  Users!Inv'
  <1> DEFINE t == served[w]
  <1>1. Users!IsRequest(t) /\ Users!Writes(t) /\ t.pc # "idle" /\ (Users!Single => Users!LeavesSound(t))
    BY OfServed DEF Users!Request, Users!Commit, Users!Finished, Users!Knows, Users!EndsOthers
  <1>2. \A v \in Workers : (Users!Request(served[v]))'
    <2>1. (Users!Request(served[w]))'
      BY Committed, NothingWritten, SameSizes
         DEF Users!Request, Users!IsRequest, Users!Writes, Users!Blank, Users!Idle
    <2>2. QED
      BY <2>1, OthersAsk
  <1>3. Users!Typed'
    <2>1. IsFiniteSet({i \in Invitations : Users!Exists(i)'})
      <3>1. IsFiniteSet({i \in Invitations : Users!Exists(i)}) /\ IsFiniteSet(DOMAIN t.invitations)
        BY <1>1, SameSizes DEF Users!Writes, Users!Inv, Users!Typed
      <3>2. {i \in Invitations : Users!Exists(i)'} \subseteq {i \in Invitations : Users!Exists(i)} \cup DOMAIN t.invitations
        BY Committed
      <3>3. QED
        BY <3>1, <3>2, FS_Union, FS_Subset
    <2>2. open' \subseteq People \X Nat /\ grants' \subseteq People \X Companies
      <3>1. t.starts \subseteq People \X Nat /\ t.granted \subseteq People \X Companies
        BY <1>1 DEF Users!IsRequest
      <3>2. open' = (open \cup t.starts) \ t.ends /\ grants' = (grants \cup t.granted) \ t.revoked
        BY DEF Users!Commit, Users!OpenAfter, Users!GrantsAfter
      <3>3. QED
        BY <3>1, <3>2 DEF Users!Inv, Users!Typed
    <2>3. QED
      BY <1>2, <2>1, <2>2, Committed, SameSizes DEF Users!Typed, Users!Inv
  <1>4. Users!SentApart'
    <2>1. ASSUME NEW v \in Workers, NEW u \in Workers, v # u,
                 NEW i \in DOMAIN served'[v].invitations \cap DOMAIN served'[u].invitations
          PROVE  Users!Exists(i)'
      <3>1. v # w /\ u # w
        BY <2>1, Committed, NothingWritten DEF Users!Idle
      <3>2. Users!Exists(i) /\ i \in Invitations
        BY <2>1, <3>1, Committed, OfServed DEF Users!Inv, Users!SentApart, Users!Request, Users!Writes
      <3>3. QED
        BY <3>2, Committed
    <2>2. QED
      BY <2>1 DEF Users!SentApart
  <1>5. Users!Busy' \subseteq Users!Busy /\ w \notin Users!Busy' /\ w \in Users!Busy
    BY <1>1, Committed DEF Users!Busy, Users!Idle
  <1>6. Users!Single' <=> Users!Single
    BY Committed DEF Users!Single
  <1>7. Users!Alone'
    BY <1>5, <1>6, FS_Subset, SameSizes DEF Users!Inv, Users!Alone
  <1>8. ASSUME Users!Single
        PROVE  Users!Outcomes' /\ Users!Administered' /\ Users!SignedOut' /\ \A v \in Workers : (Users!Knows(served[v]))'
    <2>1. Users!LeavesSound(t) /\ Users!Outcomes
      BY <1>1, <1>8, OfServed
    <2>2. Users!Outcomes'
      <3>1. ASSUME NEW i \in Invitations, Users!Exists(i)', invitation'[i].accepted
            PROVE  ~invitation'[i].revoked /\ ~invitation'[i].superseded
        <4>1. CASE i \in DOMAIN t.invitations
          BY <2>1, <3>1, <4>1, Committed DEF Users!LeavesSound
        <4>2. CASE i \notin DOMAIN t.invitations
          BY <2>1, <3>1, <4>2, Committed DEF Users!Outcomes
        <4>3. QED
          BY <4>1, <4>2
      <3>2. QED
        BY <3>1 DEF Users!Outcomes
    <2>3. Users!Administered'
      BY <2>1 DEF Users!LeavesSound, Users!Administered, Users!Commit
    <2>4. Users!SignedOut'
      BY <2>1 DEF Users!LeavesSound, Users!SignedOut, Users!SessionsOf, Users!Commit
    <2>5. ASSUME NEW v \in Workers PROVE (Users!Knows(served[v]))'
      <3>1. served'[v].pc = "idle"
        BY <1>5, <1>8 DEF Users!Inv, Users!Alone, Users!Busy
      <3>2. QED
        BY <3>1 DEF Users!Knows, Users!EndsOthers
    <2>6. QED
      BY <2>2, <2>3, <2>4, <2>5
  <1>9. QED
    BY <1>3, <1>4, <1>6, <1>7, <1>8, OnePendingIsOpen DEF Users!Inv

LEMMA Expires ==
  ASSUME Users!UsersAssumption, Users!Inv, NEW i \in Invitations, Users!Expire(i)
  PROVE  Users!Inv'
  <1>1. /\ invitation' = [invitation EXCEPT ![i].expired = TRUE] /\ Users!Exists(i)
        /\ user' = user /\ open' = open /\ grants' = grants /\ scope' = scope /\ served' = served
    BY DEF Users!Expire, Users!Pending
  <1>2. invitation[i] \in Users!Invitation
    BY <1>1, RowOf
  <1>3. /\ invitation' \in [Invitations -> Users!Invitation \cup {Absent}]
        /\ \A j \in Invitations : Users!Exists(j)' <=> Users!Exists(j)
        /\ \A j \in Invitations : Users!Exists(j) =>
             /\ invitation'[j].user = invitation[j].user /\ invitation'[j].accepted = invitation[j].accepted
             /\ invitation'[j].revoked = invitation[j].revoked
             /\ invitation'[j].superseded = invitation[j].superseded
    <2>1. invitation \in [Invitations -> Users!Invitation \cup {Absent}]
      BY DEF Users!Inv, Users!Typed
    <2>2. /\ invitation'[i] = [invitation[i] EXCEPT !.expired = TRUE] /\ invitation'[i] \in Users!Invitation
          /\ \A j \in Invitations \ {i} : invitation'[j] = invitation[j]
          /\ invitation' = [j \in Invitations |-> invitation'[j]]
      BY <1>1, <1>2, <2>1 DEF Users!Invitation
    <2>3. invitation'[i] # Absent
      BY <2>2 DEF Users!UsersAssumption
    <2>4. /\ invitation'[i].user = invitation[i].user /\ invitation'[i].accepted = invitation[i].accepted
          /\ invitation'[i].revoked = invitation[i].revoked
          /\ invitation'[i].superseded = invitation[i].superseded
      BY <1>2, <2>2 DEF Users!Invitation
    <2>5. QED
      BY <1>1, <2>1, <2>2, <2>3, <2>4 DEF Users!Exists
  <1>4. \A j \in Invitations : Users!Pending(j)' <=> Users!Pending(j)
    BY <1>3 DEF Users!Pending
  <1>5. ASSUME NEW v \in Workers PROVE (Users!Request(served[v]))'
    <2>1. Users!Request(served[v]) /\ served'[v] = served[v]
      BY <1>1, OfServed
    <2>2. Users!Asks(served[v]) => (Users!Asks(served[v]))'
      <3>1. SUFFICES ASSUME Users!Asks(served[v]) PROVE (Users!Asks(served[v]))'
        OBVIOUS
      <3>2. served[v].kind \in {"accept", "resend", "withdraw"} => Users!Exists(served[v].of)'
        <4>1. SUFFICES ASSUME served[v].kind \in {"accept", "resend", "withdraw"} PROVE Users!Exists(served[v].of)'
          OBVIOUS
        <4>2. served[v].of \in Invitations /\ Users!Exists(served[v].of)
          BY <3>1, <4>1 DEF Users!Asks, Users!Subjects
        <4>3. QED
          BY <1>1, <1>3, <4>2
      <3>3. QED
        BY <1>1, <3>1, <3>2 DEF Users!Asks
    <2>3. (Users!Writes(served[v]))'
      BY <1>3, <2>1 DEF Users!Request, Users!Writes
    <2>4. QED
      BY <2>1, <2>2, <2>3 DEF Users!Request, Users!IsRequest, Users!Blank
  <1>6. Users!Typed'
    <2>1. {j \in Invitations : Users!Exists(j)'} = {j \in Invitations : Users!Exists(j)}
      BY <1>3
    <2>2. QED
      BY <1>1, <1>3, <1>5, <2>1 DEF Users!Typed, Users!Inv
  <1>7. Users!SentApart'
    <2>1. \A v \in Workers : DOMAIN served[v].invitations \subseteq Invitations
      BY OfServed DEF Users!Request, Users!Writes
    <2>2. QED
      BY <1>1, <1>3, <2>1 DEF Users!Inv, Users!SentApart
  <1>8. Users!OneOpenInvitation'
    <2>1. ASSUME NEW p \in People
          PROVE  {j \in Invitations : Users!Pending(j)' /\ invitation'[j].user = p} =
                 {j \in Invitations : Users!Pending(j) /\ invitation[j].user = p}
      BY <1>3, <1>4 DEF Users!Pending
    <2>2. QED
      BY <2>1 DEF Users!Inv, Users!OneOpenInvitation
  <1>9. Users!Alone' /\ (Users!Single' <=> Users!Single)
    BY <1>1 DEF Users!Inv, Users!Alone, Users!Busy, Users!Single
  <1>10. ASSUME Users!Single
         PROVE  Users!Outcomes' /\ Users!Administered' /\ Users!SignedOut' /\ \A v \in Workers : (Users!Knows(served[v]))'
    <2>1. Users!Outcomes /\ Users!Administered /\ Users!SignedOut
      BY <1>10 DEF Users!Inv
    <2>2. Users!Outcomes'
      BY <1>3, <2>1 DEF Users!Outcomes
    <2>3. Users!Administered' /\ Users!SignedOut'
      BY <1>1, <1>3, <2>1 DEF Users!Administered, Users!SignedOut, Users!SessionsOf
    <2>4. ASSUME NEW v \in Workers PROVE (Users!Knows(served[v]))'
      <3> DEFINE t == served[v]
      <3>1. Users!Knows(t) /\ t = served'[v] /\ Users!Writes(t)
        BY <1>1, <1>10, OfServed DEF Users!Request
      <3>2. ASSUME NEW j \in DOMAIN t.invitations,
                   Users!Merged(t, j).accepted => ~Users!Merged(t, j).revoked /\ ~Users!Merged(t, j).superseded
            PROVE  (Users!Merged(t, j).accepted => ~Users!Merged(t, j).revoked /\ ~Users!Merged(t, j).superseded)'
        <4>1. j \in Invitations /\ t.invitations[j] \in Users!Invitation
          BY <3>1 DEF Users!Writes
        <4>2. CASE Users!Exists(j)
          <5>1. invitation[j] \in Users!Invitation /\ invitation'[j] \in Users!Invitation
            BY <1>3, <4>1, <4>2, RowOf DEF Users!Exists
          <5>2. /\ (Users!Merged(t, j)).accepted = (invitation[j].accepted \/ t.invitations[j].accepted)
                /\ (Users!Merged(t, j)).revoked = (invitation[j].revoked \/ t.invitations[j].revoked)
                /\ (Users!Merged(t, j)).superseded = (invitation[j].superseded \/ t.invitations[j].superseded)
            BY <4>2, <5>1 DEF Users!Merged, Users!Invitation
          <5>3. Users!Exists(j)'
            BY <1>3, <4>1, <4>2
          <5>4. /\ (Users!Merged(t, j)').accepted = (invitation'[j].accepted \/ t.invitations[j].accepted)
                /\ (Users!Merged(t, j)').revoked = (invitation'[j].revoked \/ t.invitations[j].revoked)
                /\ (Users!Merged(t, j)').superseded = (invitation'[j].superseded \/ t.invitations[j].superseded)
            BY <3>1, <5>1, <5>3 DEF Users!Merged, Users!Invitation
          <5>5. QED
            BY <1>3, <3>2, <4>1, <4>2, <5>2, <5>4
        <4>3. CASE ~Users!Exists(j)
          <5>1. ~Users!Exists(j)'
            BY <1>3, <4>1, <4>3
          <5>2. QED
            BY <3>1, <3>2, <4>3, <5>1 DEF Users!Merged
        <4>4. QED
          BY <4>2, <4>3
      <3>3. Users!LeavesSound(t) => (Users!LeavesSound(t))'
        BY <1>1, <3>1, <3>2 DEF Users!LeavesSound, Users!UsersAfter, Users!OpenAfter, Users!GrantsAfter
      <3>4. QED
        BY <1>1, <3>1, <3>3 DEF Users!Knows, Users!OnlyUser, Users!EndsOthers
    <2>5. QED
      BY <2>2, <2>3, <2>4
  <1>11. QED
    BY <1>6, <1>7, <1>8, <1>9, <1>10 DEF Users!Inv

LEMMA UsersStart ==
  ASSUME Users!UsersAssumption, Users!Init
  PROVE  Users!Inv
  <1>1. \A i \in Invitations : ~Users!Exists(i)
    BY DEF Users!Init, Users!Exists
  <1>2. ASSUME NEW w \in Workers PROVE served[w] = Users!Idle /\ Users!Request(served[w]) /\ Users!Knows(served[w])
    BY IdleFits DEF Users!Init, Fits, Users!Request, Users!Knows, Users!Idle, Users!EndsOthers
  <1>3. Users!Typed
    <2>1. {i \in Invitations : Users!Exists(i)} = {}
      BY <1>1
    <2>2. QED
      BY <1>2, <2>1, FS_EmptySet, SameSizes DEF Users!Init, Users!Typed
  <1>4. Users!SentApart
    BY <1>2, NothingWritten DEF Users!SentApart, Users!Idle
  <1>5. Users!OneOpenInvitation
    <2>1. \A p : {i \in Invitations : Users!Pending(i) /\ invitation[i].user = p} = {}
      BY <1>1 DEF Users!Pending
    <2>2. ASSUME NEW p \in People
          PROVE  Users!Cardinality({i \in Invitations : Users!Pending(i) /\ invitation[i].user = p}) <= 1
      <3>1. {i \in Invitations : Users!Pending(i) /\ invitation[i].user = p} = {}
        BY <2>1
      <3>2. Cardinality({i \in Invitations : Users!Pending(i) /\ invitation[i].user = p}) = 0
        BY <3>1, FS_EmptySet
      <3>3. QED
        BY <3>2, SameSizes
    <2>3. QED
      BY <2>2 DEF Users!OneOpenInvitation
  <1>6. Users!Busy = {}
    BY <1>2 DEF Users!Busy, Users!Idle
  <1>7. Users!Alone
    BY <1>6, FS_EmptySet, SameSizes DEF Users!Alone
  <1>8. Users!Outcomes /\ Users!Administered /\ Users!SignedOut
    <2>1. \A p \in People : user[p] = Absent
      BY DEF Users!Init
    <2>2. QED
      BY <1>1, <2>1 DEF Users!Outcomes, Users!Administered, Users!SignedOut, Users!UsersAssumption, Users!UserStates
  <1>9. QED
    BY <1>2, <1>3, <1>4, <1>5, <1>7, <1>8 DEF Users!Inv

LEMMA UsersStep ==
  ASSUME Users!UsersAssumption, Users!Inv, Users!Next
  PROVE  Users!Inv'
  <1>1. CASE \E i \in Invitations : Users!Expire(i)
    BY <1>1, Expires
  <1>2. ASSUME NEW w \in Workers, Users!Act(w) PROVE Users!Inv'
    <2>1. CASE Users!OutOfIds(w) \/ Users!Refuse(w)
      BY <2>1, Aborted DEF Users!OutOfIds, Users!Refuse
    <2>2. QED
      BY <1>2, <2>1, Bootstraps, Invites, Resends, Withdraws, Accepts, LogsIn, LogsOut, EndsSessions,
         ChangesPassword, Deactivates, EndsTheOthers, Grants, Revokes, Commits DEF Users!Act
  <1>3. ASSUME NEW w \in Workers, NEW kind, NEW of \in Users!Subjects(kind), NEW by,
               of \in Invitations => Users!Exists(of), Users!Begin(w, kind, by, of)
        PROVE  Users!Inv'
    BY <1>3, Begins
  <1>4. ASSUME NEW w \in Workers, Users!Acquire(w) \/ Users!Rollback(w) \/ Users!DeadlockVictim(w)
        PROVE  Users!Inv'
    BY <1>4, Acquires, Aborted DEF Users!Rollback, Users!DeadlockVictim
  <1>5. QED
    BY <1>1, <1>2, <1>3, <1>4 DEF Users!Next

LEMMA UsersInvariance ==
  ASSUME Users!UsersAssumption
  PROVE  Users!Spec => []Users!Inv
  <1>1. Users!Init => Users!Inv
    BY UsersStart
  <1>2. ASSUME Users!Inv, [Users!Next]_(Users!vars) PROVE Users!Inv'
    <2>1. CASE UNCHANGED Users!vars
      BY <1>2, <2>1 DEF Users!vars, Users!rows, Users!Inv, Users!Typed, Users!SentApart,
         Users!OneOpenInvitation, Users!Pending, Users!Exists, Users!Alone, Users!Single, Users!Busy, Users!Outcomes,
         Users!Administered, Users!SignedOut, Users!SessionsOf, Users!Knows, Users!LeavesSound, Users!OnlyUser,
         Users!EndsOthers, Users!Merged, Users!UsersAfter, Users!OpenAfter, Users!GrantsAfter,
         Users!Request, Users!IsRequest, Users!Asks, Users!Blank, Users!Writes
    <2>2. CASE Users!Next
      BY <1>2, <2>2, UsersStep
    <2>3. QED
      BY <1>2, <2>1, <2>2
  <1>3. QED
    BY <1>1, <1>2, PTL DEF Users!Spec

(* A user never has two links that work, however many requests are served  *)
(* at once: the unique index on open invitations (0002:90) keeps it,       *)
(* although a request writes only the columns it changed over rows that    *)
(* others have changed since it read them.                                 *)
THEOREM OneInvitationIsOpen ==
  ASSUME Users!UsersAssumption
  PROVE  Users!Spec => []OneOpenInvitation
  <1>1. ASSUME Users!OneOpenInvitation PROVE OneOpenInvitation
    <2>1. \A i \in Invitations : Users!Pending(i) <=> Pending(i)
      BY DEF Users!Pending, Users!Exists, Pending, Exists
    <2>2. ASSUME NEW p \in People
          PROVE  Cardinality({i \in Invitations : Pending(i) /\ invitation[i].user = p}) <= 1
      <3>1. {i \in Invitations : Pending(i) /\ invitation[i].user = p} =
            {i \in Invitations : Users!Pending(i) /\ invitation[i].user = p}
        BY <2>1
      <3>2. Users!Cardinality({i \in Invitations : Users!Pending(i) /\ invitation[i].user = p}) <= 1
        BY <1>1 DEF Users!OneOpenInvitation
      <3>3. QED
        BY <3>1, <3>2, SameSizes
    <2>3. QED
      BY <2>2 DEF OneOpenInvitation
  <1>2. Users!Inv => OneOpenInvitation
    BY <1>1 DEF Users!Inv
  <1>3. QED
    BY <1>2, UsersInvariance, PTL

(* Requests served one at a time, in any order, leave invitations that     *)
(* ended in one way, somebody with the role, and the deactivated signed    *)
(* out, wherever there is a company to administer.                         *)
THEOREM SoundServedAlone ==
  ASSUME Users!UsersAssumption, Companies # {}
  PROVE  Users!Spec => []SoundAlone
  <1>1. Users!Inv => SoundAlone
    BY DEF Users!Inv, Users!Single, Users!Outcomes, Users!Administered, Users!SignedOut, Users!Exists,
       Users!SessionsOf, SoundAlone, Outcomes, SomeAdministrator, SignedOut, Exists, SessionsOf
  <1>2. QED
    BY <1>1, UsersInvariance, PTL

-----------------------------------------------------------------------------
(***************************************************************************)
(* The imports of StatementImport, theorems about an instance of that      *)
(* module whose variable for the requests is `imports` here.               *)
(***************************************************************************)
CONSTANTS Formats, MidDay
VARIABLE imports

Import == INSTANCE StatementImport WITH tx <- imports

-----------------------------------------------------------------------------
(* Where rows are left out unread, the balance added up is not the bank's. *)
AllRead == \A i \in DOMAIN History : History[i].readable

(* No balance comes back at a transaction that looks the same.             *)
BalancesTellApart ==
  \A i, j \in DOMAIN History : Look(i) = Look(j) /\ AmountOf(1..i) = AmountOf(1..j) => i = j

(* The hash of a transaction, whichever file tells it.                     *)
HashOf(i) == <<Look(i), IF format = "mt940" THEN AmountOf(1..i) ELSE Null>>

Alike(I, hash) == {i \in I : HashOf(i) = hash}

(* Which of I this one is.                                                 *)
Rank(I, i) == Cardinality({j \in I : j <= i})

Numbered(hash, n) == [hash |-> hash, occurrence |-> n]

(* Lines are numbered from one, none further than transactions were told.  *)
LinesNumbered ==
  /\ IsFiniteSet(lines)
  /\ \A l \in lines :
       /\ l.occurrence \in 1..Cardinality(Alike(told, l.hash))
       /\ l = Numbered(l.hash, l.occurrence)
       /\ \A n \in 1..l.occurrence : Numbered(l.hash, n) \in lines

(* Of transactions alike, those told are the first, and each has a line.   *)
ToldInOrder ==
  \A i \in told : \A j \in DOMAIN History :
    j <= i /\ HashOf(j) = HashOf(i) /\ History[j].readable => j \in told

ToldHaveLines ==
  \A i \in told : \A n \in 1..Cardinality(Alike(told, HashOf(i))) : Numbered(HashOf(i), n) \in lines

(* What a file's rows will add to the lines.                               *)
Adds(new, rows) ==
  /\ IsFiniteSet(new)
  /\ \A l \in new : /\ l.occurrence \in 1..Cardinality(Alike(rows, l.hash))
                    /\ l = Numbered(l.hash, l.occurrence)
  /\ \A i \in rows : \A n \in 1..Cardinality(Alike(rows, HashOf(i))) :
       Numbered(HashOf(i), n) \in lines \cup new

(* The operators the instance has of its own say what those here say.      *)
LEMMA SameCounts == \A S : Import!Cardinality(S) = Cardinality(S)
  BY Zenon DEF Import!Cardinality, Cardinality

LEMMA SameLooks == \A i : Import!Look(i) = Look(i)
  BY DEF Import!Look, Look

LEMMA SameAmounts == \A I : Import!AmountOf(I) = AmountOf(I)
  <1>1. \A f, S : Import!SumFunctionOnSet(f, S) = SumFunctionOnSet(f, S)
    BY DEF Import!SumFunctionOnSet, Import!FoldFunctionOnSet, Import!MapThenFoldSet,
       SumFunctionOnSet, FoldFunctionOnSet, MapThenFoldSet
  <1>2. QED
    BY <1>1 DEF Import!AmountOf, AmountOf

-----------------------------------------------------------------------------
(* Ranks in a set of numbers.                                              *)
LEMMA RankIs ==
  ASSUME NEW I \in SUBSET Int, IsFiniteSet(I), NEW i
  PROVE  /\ {j \in I : j <= i} \in SUBSET I /\ IsFiniteSet({j \in I : j <= i})
         /\ Rank(I, i) = Cardinality({j \in I : j <= i}) /\ Rank(I, i) \in Nat /\ Rank(I, i) <= Cardinality(I)
  <1>1. {j \in I : j <= i} \in SUBSET I
    OBVIOUS
  <1>2. QED
    BY <1>1, FS_Subset, FS_CardinalityType DEF Rank

LEMMA RanksApart ==
  ASSUME NEW I \in SUBSET Int, IsFiniteSet(I), NEW a \in I, NEW b \in I, a < b
  PROVE  Rank(I, a) # Rank(I, b)
  <1> PICK A, B : A = {k \in I : k <= a} /\ B = {k \in I : k <= b}
    OBVIOUS
  <1>1. a \in Int /\ b \in Int /\ \A k \in I : k \in Int
    OBVIOUS
  <1>2. A \in SUBSET B
    <2>1. SUFFICES ASSUME NEW k \in A PROVE k \in B
      OBVIOUS
    <2>2. k \in I /\ k \in Int /\ k <= a
      BY <1>1
    <2>3. k <= b
      BY <1>1, <2>2
    <2>4. QED
      BY <2>2, <2>3
  <1>3. b \in B /\ b \notin A
    BY <1>1
  <1>4. IsFiniteSet(B)
    BY RankIs
  <1>5. Cardinality(A) # Cardinality(B)
    BY <1>2, <1>3, <1>4, FS_Subset
  <1>6. QED
    BY <1>5 DEF Rank

LEMMA RankPositive ==
  ASSUME NEW I \in SUBSET Int, IsFiniteSet(I), NEW i \in I
  PROVE  Rank(I, i) \in 1..Cardinality(I)
  <1> PICK S : S = {j \in I : j <= i}
    OBVIOUS
  <1>1. i \in S
    OBVIOUS
  <1>2. Rank(I, i) # 0
    <2>1. IsFiniteSet(S) /\ Rank(I, i) = Cardinality(S)
      BY RankIs
    <2>2. QED
      BY <1>1, <2>1, FS_EmptySet
  <1> PICK r, c : r = Rank(I, i) /\ c = Cardinality(I)
    OBVIOUS
  <1>3. r \in Nat /\ c \in Nat /\ r <= c /\ r # 0
    BY <1>2, RankIs, FS_CardinalityType
  <1>4. r \in 1..c
    BY <1>3
  <1>5. QED
    BY <1>4

LEMMA RanksOnto ==
  ASSUME NEW I \in SUBSET Int, IsFiniteSet(I), NEW n \in 1..Cardinality(I)
  PROVE  \E i \in I : Rank(I, i) = n
  <1> PICK c \in Nat : c = Cardinality(I)
    BY FS_CardinalityType, Zenon
  <1> PICK g : g = [i \in I |-> Rank(I, i)]
    OBVIOUS
  <1>1. g \in [I -> 1..c]
    BY RankPositive
  <1>2. \A i, j \in I : g[i] = g[j] => i = j
    <2>1. SUFFICES ASSUME NEW i \in I, NEW j \in I, g[i] = g[j], i # j PROVE FALSE
      OBVIOUS
    <2>2. i < j \/ j < i
      BY <2>1
    <2>3. QED
      BY <2>1, <2>2, RanksApart
  <1>3. g \in Injection(I, 1..c)
    BY <1>1, <1>2 DEF Injection, IsInjective
  <1>4. IsFiniteSet(1..c) /\ Cardinality(1..c) = c
    <2>1. 1 \in Int /\ c \in Int
      OBVIOUS
    <2>2. QED
      BY <2>1, FS_Interval
  <1>5. g \in Surjection(I, 1..c)
    BY <1>3, <1>4, FS_Injection
  <1>6. QED
    BY <1>5 DEF Surjection

-----------------------------------------------------------------------------
(* Hashes and files.                                                       *)
Told(f) == Import!Parsed(f)

LEMMA ToldBy ==
  ASSUME NEW f \in Import!Files
  PROVE  /\ f.from \in Nat \ {0} /\ f.to \in Nat /\ f.from <= f.to /\ f.to <= Len(History)
         /\ Told(f) = {i \in f.from..f.to : History[i].readable}
         /\ Told(f) \in SUBSET DOMAIN History /\ Told(f) \in SUBSET Int /\ IsFiniteSet(Told(f))
         /\ IsFiniteSet(DOMAIN History)
  <1>1. /\ f.from \in 1..Len(History) /\ f.to \in 1..Len(History) /\ f.from <= f.to /\ Len(History) \in Nat
        /\ DOMAIN History = 1..Len(History)
    BY HistoryAssumption DEF HistoryAssumption, Import!Files
  <1>2. Told(f) = {i \in f.from..f.to : History[i].readable}
    BY DEF Told, Import!Parsed
  <1>3. Told(f) \in SUBSET DOMAIN History /\ Told(f) \in SUBSET Int
    BY <1>1, <1>2
  <1>4. IsFiniteSet(DOMAIN History)
    <2>1. 1 \in Int /\ Len(History) \in Int
      BY <1>1
    <2>2. QED
      BY <1>1, <2>1, FS_Interval
  <1>5. QED
    BY <1>1, <1>2, <1>3, <1>4, FS_Subset

(* The running balance is the bank's, from wherever a file starts.         *)
LEMMA SameHash ==
  ASSUME NEW f \in Import!Files, NEW i \in Told(f), format = "mt940" => AllRead
  PROVE  Import!Hash(f, i) = HashOf(i)
  <1>1. /\ f.from \in Nat \ {0} /\ f.to \in Nat /\ f.from <= f.to /\ f.to <= Len(History)
        /\ Told(f) = {k \in f.from..f.to : History[k].readable} /\ Len(History) \in Nat
        /\ DOMAIN History = 1..Len(History)
    BY ToldBy, HistoryAssumption DEF HistoryAssumption
  <1>2. Import!Running(f, i) = IF format = "mt940" THEN AmountOf(1..i) ELSE Null
    <2>1. CASE format # "mt940"
      BY <2>1 DEF Import!Running, Import!Opening
    <2>2. CASE format = "mt940"
      <3> PICK g : g = [k \in DOMAIN History |-> History[k].amount]
        OBVIOUS
      <3> PICK A, B : A = 1..(f.from - 1) /\ B = {j \in Told(f) : j <= i}
        OBVIOUS
      <3>1. IntOn(g, A \cup B) /\ IntOn(g, A) /\ A \cap B = {}
        BY <1>1, HistoryAssumption DEF HistoryAssumption, IntOn
      <3>2. IsFiniteSet(A) /\ IsFiniteSet(B)
        <4>1. 1 \in Int /\ f.from - 1 \in Int
          BY <1>1
        <4>2. B \in SUBSET Told(f)
          OBVIOUS
        <4>3. QED
          BY <4>1, <4>2, ToldBy, FS_Interval, FS_Subset
      <3>3. A \cup B = 1..i
        BY <1>1, <2>2 DEF AllRead
      <3>4. SumFunctionOnSet(g, 1..i) = SumFunctionOnSet(g, A) + SumFunctionOnSet(g, B)
        <4>1. SumFunctionOnSet(g, A \cup B) = SumFunctionOnSet(g, A) + SumFunctionOnSet(g, B)
          BY <3>1, <3>2, SumSplit, Zenon
        <4>2. QED
          BY <3>3, <4>1, Zenon
      <3>5. AmountOf(1..i) = AmountOf(A) + AmountOf(B)
        BY <3>4 DEF AmountOf
      <3>6. AmountOf(A) \in Int
        BY <3>1, <3>2, SumInt DEF AmountOf
      <3>7. Import!Opening(f) = AmountOf(A)
        BY <2>2, SameAmounts DEF Import!Opening
      <3>8. Import!Opening(f) # Null
        BY <3>6, <3>7, HistoryAssumption DEF HistoryAssumption
      <3>9. Import!Running(f, i) = AmountOf(A) + AmountOf(B)
        BY <3>7, <3>8, SameAmounts DEF Import!Running, Told
      <3>10. QED
        BY <2>2, <3>5, <3>9
    <2>3. QED
      BY <2>1, <2>2
  <1>3. QED
    BY <1>2, SameLooks DEF Import!Hash, HashOf

LEMMA AlikeFinite ==
  ASSUME NEW I \in SUBSET Int, IsFiniteSet(I), NEW hash
  PROVE  /\ Alike(I, hash) \in SUBSET I /\ Alike(I, hash) \in SUBSET Int /\ IsFiniteSet(Alike(I, hash))
         /\ Cardinality(Alike(I, hash)) \in Nat
  <1>1. Alike(I, hash) \in SUBSET I /\ Alike(I, hash) \in SUBSET Int
    BY DEF Alike
  <1>2. QED
    BY <1>1, FS_Subset, FS_CardinalityType

LEMMA SeenIs ==
  ASSUME NEW f \in Import!Files, NEW i \in Told(f), format = "mt940" => AllRead
  PROVE  Import!Seen(f, i) = Rank(Alike(Told(f), HashOf(i)), i)
  <1>1. \A j \in Told(f) : Import!Hash(f, j) = HashOf(j)
    BY SameHash
  <1>2. {j \in Told(f) : j <= i /\ Import!Hash(f, j) = Import!Hash(f, i)} =
        {j \in Alike(Told(f), HashOf(i)) : j <= i}
    BY <1>1 DEF Alike
  <1>3. Import!Seen(f, i) = Cardinality({j \in Told(f) : j <= i /\ Import!Hash(f, j) = Import!Hash(f, i)})
    BY SameCounts DEF Import!Seen, Told
  <1>4. QED
    BY <1>2, <1>3 DEF Rank

(* Lines that are numbered from one reach as far as there are any.         *)
LEMMA CountReaches ==
  ASSUME LinesNumbered, NEW hash, NEW n \in Nat \ {0}, n <= Cardinality({l \in lines : l.hash = hash})
  PROVE  Numbered(hash, n) \in lines
  <1>1. SUFFICES ASSUME Numbered(hash, n) \notin lines PROVE FALSE
    OBVIOUS
  <1> PICK L : L = {l \in lines : l.hash = hash}
    OBVIOUS
  <1>2. \A l \in L : l = Numbered(hash, l.occurrence) /\ l.occurrence \in Nat \ {0}
    BY DEF LinesNumbered
  <1>3. \A l \in L : l.occurrence \in 1..(n - 1)
    <2>1. SUFFICES ASSUME NEW l \in L PROVE l.occurrence \in 1..(n - 1)
      OBVIOUS
    <2>2. l.occurrence \in Nat \ {0} /\ \A k \in 1..l.occurrence : Numbered(hash, k) \in lines
      BY <1>2 DEF LinesNumbered
    <2>3. ~(n \in 1..l.occurrence)
      BY <1>1, <2>2
    <2>4. QED
      BY <2>2, <2>3
  <1> PICK g : g = [l \in L |-> l.occurrence]
    OBVIOUS
  <1>4. g \in Injection(L, 1..(n - 1))
    <2>1. g \in [L -> 1..(n - 1)]
      BY <1>3
    <2>2. \A k, l \in L : g[k] = g[l] => k = l
      BY <1>2
    <2>3. QED
      BY <2>1, <2>2 DEF Injection, IsInjective
  <1>5. IsFiniteSet(1..(n - 1)) /\ Cardinality(1..(n - 1)) = n - 1
    <2>1. 1 \in Int /\ n - 1 \in Int
      OBVIOUS
    <2>2. QED
      BY <2>1, FS_Interval
  <1>6. Cardinality(L) <= n - 1 /\ Cardinality(L) \in Nat
    <2>1. IsFiniteSet(L)
      BY FS_Subset DEF LinesNumbered
    <2>2. QED
      BY <1>4, <1>5, <2>1, FS_Injection, FS_CardinalityType
  <1>7. QED
    BY <1>6

-----------------------------------------------------------------------------
(* The inductive invariant.                                                *)
Sound ==
  /\ format \in Formats
  /\ told \in SUBSET DOMAIN History /\ \A i \in told : History[i].readable
  /\ LinesNumbered
  /\ imports = [s \in Sessions |-> imports[s]]
  /\ \A s \in Sessions : imports[s].pc # "idle" =>
       /\ imports[s] = [pc |-> imports[s].pc, file |-> imports[s].file, new |-> imports[s].new]
       /\ imports[s].file \in Import!Files
       /\ Adds(imports[s].new, Told(imports[s].file))

LEMMA ToldFinite ==
  ASSUME told \in SUBSET DOMAIN History
  PROVE  told \in SUBSET Int /\ IsFiniteSet(told)
  <1>1. DOMAIN History = 1..Len(History) /\ Len(History) \in Nat
    BY HistoryAssumption DEF HistoryAssumption
  <1>2. IsFiniteSet(DOMAIN History)
    <2>1. 1 \in Int /\ Len(History) \in Int
      BY <1>1
    <2>2. QED
      BY <1>1, <2>1, FS_Interval
  <1>3. QED
    BY <1>1, <1>2, FS_Subset

LEMMA BeginKeeps ==
  ASSUME LinesNumbered, format = "mt940" => AllRead, NEW f \in Import!Files
  PROVE  Adds(Import!NewLines(f, lines), Told(f))
  <1> PICK new : new = Import!NewLines(f, lines)
    OBVIOUS
  <1>0. Told(f) \in SUBSET Int /\ IsFiniteSet(Told(f))
    BY ToldBy
  <1> PICK g : g = [i \in Told(f) |-> Numbered(HashOf(i), Rank(Alike(Told(f), HashOf(i)), i))]
    OBVIOUS
  <1> PICK fresh : fresh = {i \in Told(f) : ~Import!Repeats(f, i, lines)}
    OBVIOUS
  <1>1. \A i \in Told(f) : g[i] = [hash |-> Import!Hash(f, i), occurrence |-> Import!Seen(f, i)]
    <2>1. SUFFICES ASSUME NEW i \in Told(f)
                   PROVE  g[i] = [hash |-> Import!Hash(f, i), occurrence |-> Import!Seen(f, i)]
      OBVIOUS
    <2>2. Import!Hash(f, i) = HashOf(i) /\ Import!Seen(f, i) = Rank(Alike(Told(f), HashOf(i)), i)
      BY SameHash, SeenIs
    <2>3. QED
      BY <2>2 DEF Numbered
  <1>2. new = ImageOf(g, fresh)
    <2>1. new = {[hash |-> Import!Hash(f, i), occurrence |-> Import!Seen(f, i)] : i \in fresh}
      BY DEF Import!NewLines, Told
    <2>2. fresh \subseteq Told(f)
      OBVIOUS
    <2>3. QED
      BY <1>1, <2>1, <2>2 DEF ImageOf
  <1>3. IsFiniteSet(new)
    <2>1. fresh \in SUBSET Told(f)
      OBVIOUS
    <2>2. IsFiniteSet(fresh)
      BY <1>0, <2>1, FS_Subset
    <2>3. QED
      BY <1>2, <2>2, ImageFinite
  <1>4. \A i \in Told(f) : /\ g[i].hash = HashOf(i) /\ g[i] = Numbered(g[i].hash, g[i].occurrence)
                           /\ g[i].occurrence = Rank(Alike(Told(f), HashOf(i)), i)
                           /\ g[i].occurrence \in 1..Cardinality(Alike(Told(f), HashOf(i)))
    <2>1. SUFFICES ASSUME NEW i \in Told(f)
                   PROVE  /\ g[i].hash = HashOf(i) /\ g[i] = Numbered(g[i].hash, g[i].occurrence)
                          /\ g[i].occurrence = Rank(Alike(Told(f), HashOf(i)), i)
                          /\ g[i].occurrence \in 1..Cardinality(Alike(Told(f), HashOf(i)))
      OBVIOUS
    <2> PICK I : I = Alike(Told(f), HashOf(i))
      OBVIOUS
    <2>2. I \in SUBSET Int /\ IsFiniteSet(I) /\ i \in I
      <3>1. i \in I
        BY DEF Alike
      <3>2. QED
        BY <1>0, <3>1, AlikeFinite
    <2>3. Rank(I, i) \in 1..Cardinality(I)
      BY <2>2, RankPositive
    <2>4. QED
      BY <2>3 DEF Numbered
  <1>5. ASSUME NEW l \in new
        PROVE  /\ l.occurrence \in 1..Cardinality(Alike(Told(f), l.hash))
               /\ l = Numbered(l.hash, l.occurrence)
    <2>1. PICK i \in fresh : l = g[i]
      BY <1>2 DEF ImageOf
    <2>2. QED
      BY <1>4, <2>1
  <1>6. ASSUME NEW i \in Told(f), NEW n \in 1..Cardinality(Alike(Told(f), HashOf(i)))
        PROVE  Numbered(HashOf(i), n) \in lines \cup new
    <2> PICK I : I = Alike(Told(f), HashOf(i))
      OBVIOUS
    <2>1. I \in SUBSET Int /\ IsFiniteSet(I) /\ I \in SUBSET Told(f) /\ Cardinality(I) \in Nat
      BY <1>0, AlikeFinite
    <2>2. PICK k \in I : Rank(I, k) = n
      BY <2>1, RanksOnto
    <2>3. k \in Told(f) /\ HashOf(k) = HashOf(i)
      BY DEF Alike
    <2>4. g[k] = Numbered(HashOf(i), n)
      BY <2>2, <2>3
    <2>5. CASE k \in fresh
      BY <1>2, <2>4, <2>5 DEF ImageOf
    <2>6. CASE k \notin fresh
      <3>1. Import!Repeats(f, k, lines)
        BY <2>3, <2>6
      <3>2. Import!Seen(f, k) = n /\ Import!Hash(f, k) = HashOf(i)
        BY <1>1, <2>3, <2>4 DEF Numbered
      <3>3. n <= Cardinality({l \in lines : l.hash = HashOf(i)})
        BY <3>1, <3>2, SameCounts DEF Import!Repeats
      <3>4. n \in Nat \ {0}
        BY <2>1
      <3>5. QED
        BY <3>3, <3>4, CountReaches
    <2>7. QED
      BY <2>5, <2>6
  <1>7. QED
    BY <1>3, <1>5, <1>6 DEF Adds

(* What a commit adds is numbered on.                                      *)
LEMMA CommitKeeps ==
  ASSUME LinesNumbered, told \in SUBSET DOMAIN History, NEW f \in Import!Files, NEW new,
         Adds(new, Told(f)), lines' = lines \cup new, told' = told \cup Told(f), format' = format
  PROVE  LinesNumbered' /\ told' \in SUBSET DOMAIN History
  <1>0. told' \in SUBSET DOMAIN History
    BY ToldBy
  <1>1. told \in SUBSET Int /\ IsFiniteSet(told) /\ Told(f) \in SUBSET Int /\ IsFiniteSet(Told(f))
    BY ToldBy, ToldFinite
  <1>2. IsFiniteSet(told') /\ told' \in SUBSET Int
    BY <1>1, FS_Union
  <1>3. IsFiniteSet(lines')
    BY FS_Union DEF LinesNumbered, Adds
  <1>4. /\ \A i : HashOf(i)' = HashOf(i)
        /\ \A hash : Alike(told, hash)' = Alike(told \cup Told(f), hash)
    <2>1. \A i : HashOf(i)' = HashOf(i)
      BY DEF HashOf
    <2>2. QED
      BY <2>1 DEF Alike
  <1>5. \A hash : /\ Cardinality(Alike(told, hash)) \in Nat /\ Cardinality(Alike(Told(f), hash)) \in Nat
                  /\ Cardinality(Alike(told \cup Told(f), hash)) \in Nat
                  /\ Cardinality(Alike(told, hash)) <= Cardinality(Alike(told \cup Told(f), hash))
                  /\ Cardinality(Alike(Told(f), hash)) <= Cardinality(Alike(told \cup Told(f), hash))
    <2>1. SUFFICES ASSUME NEW hash
                   PROVE  /\ Cardinality(Alike(told, hash)) \in Nat /\ Cardinality(Alike(Told(f), hash)) \in Nat
                          /\ Cardinality(Alike(told \cup Told(f), hash)) \in Nat
                          /\ Cardinality(Alike(told, hash)) <= Cardinality(Alike(told \cup Told(f), hash))
                          /\ Cardinality(Alike(Told(f), hash)) <= Cardinality(Alike(told \cup Told(f), hash))
      OBVIOUS
    <2> PICK A, B, C : A = Alike(told, hash) /\ B = Alike(Told(f), hash) /\ C = Alike(told \cup Told(f), hash)
      OBVIOUS
    <2>2. A \in SUBSET C /\ B \in SUBSET C
      BY DEF Alike
    <2>3. IsFiniteSet(C) /\ IsFiniteSet(A) /\ IsFiniteSet(B)
      BY <1>1, <1>2, AlikeFinite
    <2>4. QED
      BY <2>2, <2>3, FS_Subset, FS_CardinalityType
  <1>6. ASSUME NEW l \in lines \cup new
        PROVE  /\ l.occurrence \in 1..Cardinality(Alike(told \cup Told(f), l.hash))
               /\ l = Numbered(l.hash, l.occurrence)
               /\ \A n \in 1..l.occurrence : Numbered(l.hash, n) \in lines \cup new
    <2>1. CASE l \in lines
      <3>1. /\ l.occurrence \in 1..Cardinality(Alike(told, l.hash)) /\ l = Numbered(l.hash, l.occurrence)
            /\ \A n \in 1..l.occurrence : Numbered(l.hash, n) \in lines
        BY <2>1 DEF LinesNumbered
      <3>2. l.occurrence \in 1..Cardinality(Alike(told \cup Told(f), l.hash))
        BY <1>5, <3>1
      <3>3. QED
        BY <3>1, <3>2
    <2>2. CASE l \in new
      <3> PICK I : I = Alike(Told(f), l.hash)
        OBVIOUS
      <3>1. l.occurrence \in 1..Cardinality(I) /\ l = Numbered(l.hash, l.occurrence) /\ Cardinality(I) \in Nat
        BY <1>5, <2>2 DEF Adds
      <3>2. l.occurrence \in 1..Cardinality(Alike(told \cup Told(f), l.hash))
        BY <1>5, <3>1
      <3>3. PICK i \in Told(f) : HashOf(i) = l.hash
        <4>1. I # {}
          BY <3>1, FS_EmptySet
        <4>2. QED
          BY <4>1 DEF Alike
      <3>4. \A n \in 1..Cardinality(I) : Numbered(l.hash, n) \in lines \cup new
        BY <3>3 DEF Adds
      <3>5. \A n \in 1..l.occurrence : n \in 1..Cardinality(I)
        BY <3>1
      <3>6. QED
        BY <3>1, <3>2, <3>4, <3>5
    <2>3. QED
      BY <2>1, <2>2
  <1>8. LinesNumbered'
    <2>1. SUFFICES \A l \in lines' :
                     /\ l.occurrence \in 1..(Cardinality(Alike(told, l.hash))')
                     /\ l = Numbered(l.hash, l.occurrence)
                     /\ \A n \in 1..l.occurrence : Numbered(l.hash, n) \in lines'
      BY <1>3 DEF LinesNumbered
    <2>2. \A hash : Cardinality(Alike(told, hash))' = Cardinality(Alike(told \cup Told(f), hash))
      BY <1>4
    <2>3. QED
      BY <1>6, <2>2
  <1>9. QED
    BY <1>0, <1>8

LEMMA AddsStay ==
  ASSUME NEW new, NEW rows, Adds(new, rows), lines \subseteq lines', format' = format
  PROVE  Adds(new, rows)'
  <1>1. \A i : HashOf(i)' = HashOf(i)
    BY DEF HashOf
  <1>2. \A hash : Alike(rows, hash)' = Alike(rows, hash)
    BY <1>1 DEF Alike
  <1>3. /\ IsFiniteSet(new)
        /\ \A l \in new : l.occurrence \in 1..(Cardinality(Alike(rows, l.hash))') /\ l = Numbered(l.hash, l.occurrence)
    BY <1>2 DEF Adds
  <1>4. \A i \in rows : \A n \in 1..(Cardinality(Alike(rows, HashOf(i)))') : Numbered(HashOf(i)', n) \in lines' \cup new
    <2>1. \A i \in rows : Alike(rows, HashOf(i))' = Alike(rows, HashOf(i))
      BY <1>1, <1>2
    <2>2. QED
      BY <1>1, <2>1 DEF Adds
  <1>5. QED
    BY <1>3, <1>4 DEF Adds

(* A request that is let go of, or goes on.                                *)
LEMMA OthersStay ==
  ASSUME Sound, NEW s \in Sessions, NEW one, imports' = [imports EXCEPT ![s] = one],
         lines \subseteq lines', format' = format,
         one.pc # "idle" =>
           /\ one = [pc |-> one.pc, file |-> one.file, new |-> one.new]
           /\ one.file \in Import!Files
           /\ Adds(one.new, Told(one.file))
  PROVE  /\ imports' = [r \in Sessions |-> imports'[r]]
         /\ \A r \in Sessions : imports'[r].pc # "idle" =>
              /\ imports'[r] = [pc |-> imports'[r].pc, file |-> imports'[r].file, new |-> imports'[r].new]
              /\ imports'[r].file \in Import!Files'
              /\ Adds(imports[r].new, Told(imports[r].file))'
  <1>1. imports' = [r \in Sessions |-> IF r = s THEN one ELSE imports[r]]
    BY DEF Sound
  <1>2. Import!Files' = Import!Files
    BY DEF Import!Files
  <1>3. \A f : Told(f)' = Told(f)
    BY DEF Told, Import!Parsed
  <1>4. SUFFICES ASSUME NEW r \in Sessions, imports'[r].pc # "idle"
                 PROVE  /\ imports'[r] = [pc |-> imports'[r].pc, file |-> imports'[r].file, new |-> imports'[r].new]
                        /\ imports'[r].file \in Import!Files'
                        /\ Adds(imports[r].new, Told(imports[r].file))'
    BY <1>1
  <1> PICK now : now = imports'[r]
    OBVIOUS
  <1>5. /\ now = [pc |-> now.pc, file |-> now.file, new |-> now.new] /\ now.file \in Import!Files
        /\ Adds(now.new, Told(now.file))
    <2>1. CASE r = s
      <3>1. now = one
        BY <1>1, <2>1
      <3>2. QED
        BY <1>4, <3>1
    <2>2. CASE r # s
      <3>1. now = imports[r]
        BY <1>1, <2>2
      <3>2. QED
        BY <1>4, <3>1 DEF Sound
    <2>3. QED
      BY <2>1, <2>2
  <1>6. Adds(now.new, Told(now.file))'
    <2> PICK new, rows : new = now.new /\ rows = Told(now.file)
      OBVIOUS
    <2>1. Adds(new, rows)
      BY <1>5
    <2>2. Adds(new, rows)'
      BY <2>1, AddsStay
    <2>3. QED
      BY <1>3, <2>2
  <1>7. QED
    BY <1>2, <1>5, <1>6

LEMMA SoundInit ==
  ASSUME Import!Init
  PROVE  Sound /\ told = {}
  <1>1. LinesNumbered
    BY FS_EmptySet DEF LinesNumbered, Import!Init
  <1>2. QED
    BY <1>1 DEF Sound, Import!Init, Import!Idle

LEMMA SoundKept ==
  ASSUME Sound, format = "mt940" => AllRead, [Import!Next]_Import!vars
  PROVE  Sound'
  <1>0. ASSUME UNCHANGED <<format, lines, told>> PROVE LinesNumbered'
    <2>1. \A i : HashOf(i)' = HashOf(i)
      BY <1>0 DEF HashOf
    <2>2. \A hash : Alike(told, hash)' = Alike(told, hash)
      BY <1>0, <2>1 DEF Alike
    <2>3. \A l \in lines' : l.occurrence \in 1..(Cardinality(Alike(told, l.hash))')
      BY <1>0, <2>2 DEF Sound, LinesNumbered
    <2>4. QED
      BY <1>0, <2>3 DEF Sound, LinesNumbered
  <1>1. CASE UNCHANGED Import!vars
    <2>1. format' = format /\ lines' = lines /\ told' = told /\ imports' = imports
      BY <1>1 DEF Import!vars
    <2>2. Import!Files' = Import!Files
      BY <2>1 DEF Import!Files
    <2>3. \A f : Told(f)' = Told(f)
      BY DEF Told, Import!Parsed
    <2>4. ASSUME NEW s \in Sessions, imports[s].pc # "idle"
          PROVE  Adds(imports[s].new, Told(imports[s].file))'
      <3> PICK new, rows : new = imports[s].new /\ rows = Told(imports[s].file)
        OBVIOUS
      <3>1. Adds(new, rows)
        BY <2>4 DEF Sound
      <3>2. Adds(new, rows)'
        BY <2>1, <3>1, AddsStay
      <3>3. QED
        BY <2>1, <2>3, <3>2
    <2>5. QED
      BY <1>0, <2>1, <2>2, <2>4 DEF Sound
  <1>2. ASSUME NEW s \in Sessions, NEW f \in Import!Files, Import!BeginImport(s, f) PROVE Sound'
    <2> PICK one : one = [pc |-> "insert", file |-> f, new |-> Import!NewLines(f, lines)]
      OBVIOUS
    <2>1. imports' = [imports EXCEPT ![s] = one] /\ UNCHANGED <<format, lines, told>>
      BY <1>2 DEF Import!BeginImport
    <2>2. Adds(one.new, Told(one.file))
      BY <1>2, BeginKeeps DEF Sound
    <2>3. one = [pc |-> one.pc, file |-> one.file, new |-> one.new] /\ one.file \in Import!Files
      OBVIOUS
    <2>4. LinesNumbered'
      BY <1>0, <2>1
    <2>5. /\ imports' = [r \in Sessions |-> imports'[r]]
          /\ \A r \in Sessions : imports'[r].pc # "idle" =>
               /\ imports'[r] = [pc |-> imports'[r].pc, file |-> imports'[r].file, new |-> imports'[r].new]
               /\ imports'[r].file \in Import!Files'
               /\ Adds(imports[r].new, Told(imports[r].file))'
      <3> HIDE DEF Sound
      <3>1. QED
        BY <2>1, <2>2, <2>3, OthersStay
    <2>6. QED
      BY <2>1, <2>4, <2>5 DEF Sound
  <1>3. ASSUME NEW s \in Sessions, imports' = [imports EXCEPT ![s] = Import!Idle],
               UNCHANGED <<format, lines, told>>
        PROVE  Sound'
    <2>1. Import!Idle.pc = "idle"
      BY DEF Import!Idle
    <2>2. LinesNumbered'
      BY <1>0, <1>3
    <2>3. /\ imports' = [r \in Sessions |-> imports'[r]]
          /\ \A r \in Sessions : imports'[r].pc # "idle" =>
               /\ imports'[r] = [pc |-> imports'[r].pc, file |-> imports'[r].file, new |-> imports'[r].new]
               /\ imports'[r].file \in Import!Files'
               /\ Adds(imports[r].new, Told(imports[r].file))'
      BY <1>3, <2>1, OthersStay
    <2>4. QED
      BY <1>3, <2>2, <2>3 DEF Sound
  <1>4. ASSUME NEW s \in Sessions, Import!Insert(s) PROVE Sound'
    <2> PICK one : one = [imports[s] EXCEPT !.pc = "commit"]
      OBVIOUS
    <2>1. CASE Import!Inserted(s)
      <3>1. imports' = [imports EXCEPT ![s] = one] /\ UNCHANGED <<format, lines, told>> /\ imports[s].pc = "insert"
        BY <1>4, <2>1 DEF Import!Insert
      <3>2. /\ one = [pc |-> one.pc, file |-> one.file, new |-> one.new] /\ one.file \in Import!Files
            /\ Adds(one.new, Told(one.file))
        <4>1. /\ imports[s] = [pc |-> imports[s].pc, file |-> imports[s].file, new |-> imports[s].new]
              /\ imports[s].file \in Import!Files /\ Adds(imports[s].new, Told(imports[s].file))
          BY <3>1 DEF Sound
        <4>2. one.file = imports[s].file /\ one.new = imports[s].new
              /\ one = [pc |-> one.pc, file |-> one.file, new |-> one.new]
          BY <4>1
        <4>3. QED
          BY <4>1, <4>2
      <3>3. LinesNumbered'
        BY <1>0, <3>1
      <3>4. /\ imports' = [r \in Sessions |-> imports'[r]]
            /\ \A r \in Sessions : imports'[r].pc # "idle" =>
                 /\ imports'[r] = [pc |-> imports'[r].pc, file |-> imports'[r].file, new |-> imports'[r].new]
                 /\ imports'[r].file \in Import!Files'
                 /\ Adds(imports[r].new, Told(imports[r].file))'
        <4>1. format' = format /\ lines \subseteq lines'
          BY <3>1
        <4>2. QED
          BY <3>1, <3>2, <4>1, OthersStay
      <3>5. QED
        BY <3>1, <3>3, <3>4 DEF Sound
    <2>2. CASE ~Import!Inserted(s)
      BY <1>3, <1>4, <2>2 DEF Import!Insert
    <2>3. QED
      BY <2>1, <2>2
  <1>5. ASSUME NEW s \in Sessions, Import!Commit(s) PROVE Sound'
    <2> PICK f, new : f = imports[s].file /\ new = imports[s].new
      OBVIOUS
    <2>1. /\ lines' = lines \cup new /\ told' = told \cup Told(f) /\ format' = format
          /\ imports' = [imports EXCEPT ![s] = Import!Idle] /\ imports[s].pc = "commit"
      BY <1>5 DEF Import!Commit, Told
    <2>2. f \in Import!Files /\ Adds(new, Told(f)) /\ LinesNumbered /\ told \in SUBSET DOMAIN History
      BY <2>1 DEF Sound
    <2>3. LinesNumbered' /\ told' \in SUBSET DOMAIN History
      BY <2>1, <2>2, CommitKeeps
    <2>4. \A i \in told' : History[i].readable
      <3>1. \A i \in Told(f) : History[i].readable
        BY DEF Told, Import!Parsed
      <3>2. QED
        BY <2>1, <3>1 DEF Sound
    <2>5. Import!Idle.pc = "idle" /\ lines \subseteq lines'
      BY <2>1 DEF Import!Idle
    <2>6. /\ imports' = [r \in Sessions |-> imports'[r]]
          /\ \A r \in Sessions : imports'[r].pc # "idle" =>
               /\ imports'[r] = [pc |-> imports'[r].pc, file |-> imports'[r].file, new |-> imports'[r].new]
               /\ imports'[r].file \in Import!Files'
               /\ Adds(imports[r].new, Told(imports[r].file))'
      BY <2>1, <2>5, OthersStay
    <2>7. QED
      BY <2>1, <2>3, <2>4, <2>6 DEF Sound
  <1>6. ASSUME NEW s \in Sessions, Import!Rollback(s) PROVE Sound'
    BY <1>3, <1>6 DEF Import!Rollback
  <1>7. QED
    BY <1>1, <1>2, <1>4, <1>5, <1>6 DEF Import!Next

-----------------------------------------------------------------------------
(* Files start with a day, but for those that state a balance, and then no *)
(* balance comes back: a file tells all of a day's transactions that have  *)
(* one hash.                                                               *)
FilesWhole ==
  /\ \A m \in MidDay : m = "mt940"
  /\ MidDay # {} => BalancesTellApart

LEMMA ToldFromTheFirst ==
  ASSUME FilesWhole, NEW f \in Import!Files, NEW i \in Told(f), NEW j \in DOMAIN History,
         j <= i, HashOf(j) = HashOf(i), History[j].readable
  PROVE  j \in Told(f)
  <1>1. /\ f.from \in Nat \ {0} /\ f.to \in Nat /\ f.from <= f.to /\ f.to <= Len(History)
        /\ Told(f) = {k \in f.from..f.to : History[k].readable}
        /\ DOMAIN History = 1..Len(History) /\ Len(History) \in Nat
    BY ToldBy, HistoryAssumption DEF HistoryAssumption
  <1>2. i \in f.from..f.to /\ i \in Nat /\ j \in Nat /\ i \in DOMAIN History
    BY <1>1
  <1>3. Look(j) = Look(i) /\ (format = "mt940" => AmountOf(1..j) = AmountOf(1..i))
    BY DEF HashOf
  <1>4. CASE f.from <= j
    BY <1>1, <1>2, <1>4
  <1>5. CASE j < f.from
    <2>1. CASE format \in MidDay
      <3>1. format = "mt940" /\ BalancesTellApart
        BY <2>1 DEF FilesWhole
      <3>2. i = j
        BY <1>2, <1>3, <3>1 DEF BalancesTellApart
      <3>3. QED
        BY <1>2, <1>5, <3>2
    <2>2. CASE format \notin MidDay
      <3>1. f.from = 1 \/ History[f.from - 1].day # History[f.from].day
        BY <2>2 DEF Import!Files, Import!DayStarts
      <3>2. f.from # 1
        BY <1>1, <1>2, <1>5
      <3> PICK b \in Nat : b = f.from - 1
        BY <1>1
      <3>3. b \in DOMAIN History /\ f.from \in DOMAIN History /\ j <= b /\ b <= f.from /\ f.from <= i
        BY <1>1, <1>2, <1>5, <3>2
      <3>4. /\ History[j].day <= History[b].day /\ History[b].day <= History[f.from].day
            /\ History[f.from].day <= History[i].day
        BY <1>2, <3>3, HistoryAssumption DEF HistoryAssumption
      <3>5. History[j].day = History[i].day
        BY <1>3 DEF Look
      <3>6. /\ History[j].day \in Nat /\ History[b].day \in Nat /\ History[f.from].day \in Nat
            /\ History[b].day # History[f.from].day
        BY <1>2, <3>1, <3>2, <3>3, HistoryAssumption DEF HistoryAssumption
      <3>7. QED
        BY <3>4, <3>5, <3>6
    <2>3. QED
      BY <2>1, <2>2
  <1>6. QED
    BY <1>1, <1>2, <1>4, <1>5

(* Of two sets told from the first on, one holds all alike of the other.   *)
LEMMA OneHoldsTheOther ==
  ASSUME NEW A \in SUBSET Int, NEW B \in SUBSET Int,
         \A a \in A, b \in B : a <= b => a \in B,
         \A a \in A, b \in B : b <= a => b \in A
  PROVE  A \cup B = A \/ A \cup B = B
  <1>1. SUFFICES ASSUME NEW a \in A, a \notin B PROVE A \cup B = A
    OBVIOUS
  <1>2. ASSUME NEW b \in B PROVE b \in A
    <2>1. a \in Int /\ b \in Int
      OBVIOUS
    <2>2. ~(a <= b)
      BY <1>1
    <2>3. b <= a
      BY <2>1, <2>2
    <2>4. QED
      BY <2>3
  <1>3. QED
    BY <1>2

LEMMA OrderKept ==
  ASSUME Sound, ToldInOrder, ToldHaveLines, FilesWhole, NEW f \in Import!Files, NEW new,
         Adds(new, Told(f)), lines' = lines \cup new, told' = told \cup Told(f), format' = format
  PROVE  ToldInOrder' /\ ToldHaveLines'
  <1>1. told \in SUBSET DOMAIN History /\ told \in SUBSET Int
        /\ Told(f) \in SUBSET DOMAIN History /\ Told(f) \in SUBSET Int
        /\ (\A i \in told \cup Told(f) : History[i].readable)
    BY ToldFinite, ToldBy DEF Sound, Told, Import!Parsed
  <1>2. /\ \A i : HashOf(i)' = HashOf(i)
        /\ \A hash : Alike(told, hash)' = Alike(told \cup Told(f), hash)
    <2>1. \A i : HashOf(i)' = HashOf(i)
      BY DEF HashOf
    <2>2. QED
      BY <2>1 DEF Alike
  <1>3. ASSUME NEW i \in told \cup Told(f), NEW j \in DOMAIN History,
               j <= i, HashOf(j) = HashOf(i), History[j].readable
        PROVE  (i \in told => j \in told) /\ (i \in Told(f) => j \in Told(f))
    BY <1>3, ToldFromTheFirst DEF ToldInOrder
  <1>4. ToldInOrder'
    BY <1>2, <1>3 DEF ToldInOrder
  <1>5. ASSUME NEW i \in told \cup Told(f), NEW n \in 1..Cardinality(Alike(told \cup Told(f), HashOf(i)))
        PROVE  Numbered(HashOf(i), n) \in lines \cup new
    <2> PICK hash : hash = HashOf(i)
      OBVIOUS
    <2> PICK A, B : A = Alike(told, hash) /\ B = Alike(Told(f), hash)
      OBVIOUS
    <2>1. Alike(told \cup Told(f), hash) = A \cup B
      BY DEF Alike
    <2>2. A \in SUBSET Int /\ B \in SUBSET Int
      BY <1>1 DEF Alike
    <2>3. \A a \in A, b \in B : (a <= b => a \in B) /\ (b <= a => b \in A)
      <3>1. SUFFICES ASSUME NEW a \in A, NEW b \in B PROVE (a <= b => a \in B) /\ (b <= a => b \in A)
        OBVIOUS
      <3>2. /\ a \in told /\ b \in Told(f) /\ HashOf(a) = hash /\ HashOf(b) = hash
            /\ a \in DOMAIN History /\ b \in DOMAIN History /\ History[a].readable /\ History[b].readable
        BY <1>1 DEF Alike
      <3>3. a <= b => a \in Told(f)
        BY <1>3, <3>2
      <3>4. b <= a => b \in told
        BY <1>3, <3>2
      <3>5. QED
        BY <3>2, <3>3, <3>4 DEF Alike
    <2>4. A \cup B = A \/ A \cup B = B
      BY <2>2, <2>3, OneHoldsTheOther
    <2>5. CASE A \cup B = A
      <3>1. i \in A
        BY <2>5 DEF Alike
      <3>2. n \in 1..Cardinality(A)
        BY <2>1, <2>5
      <3>3. i \in told
        BY <3>1 DEF Alike
      <3>4. QED
        BY <3>2, <3>3 DEF ToldHaveLines
    <2>6. CASE A \cup B = B
      <3>1. i \in B
        BY <2>6 DEF Alike
      <3>2. n \in 1..Cardinality(B)
        BY <2>1, <2>6
      <3>3. i \in Told(f)
        BY <3>1 DEF Alike
      <3>4. QED
        BY <3>2, <3>3 DEF Adds
    <2>7. QED
      BY <2>4, <2>5, <2>6
  <1>6. ToldHaveLines'
    BY <1>2, <1>5 DEF ToldHaveLines
  <1>7. QED
    BY <1>4, <1>6

LEMMA OrderInit ==
  ASSUME Import!Init
  PROVE  ToldInOrder /\ ToldHaveLines
  BY DEF Import!Init, ToldInOrder, ToldHaveLines

LEMMA OrderNext ==
  ASSUME Sound, ToldInOrder, ToldHaveLines, FilesWhole, [Import!Next]_Import!vars
  PROVE  ToldInOrder' /\ ToldHaveLines'
  <1>1. ASSUME UNCHANGED <<format, lines, told>> PROVE ToldInOrder' /\ ToldHaveLines'
    <2>1. \A i : HashOf(i)' = HashOf(i)
      BY <1>1 DEF HashOf
    <2>2. \A hash : Alike(told, hash)' = Alike(told, hash)
      BY <1>1, <2>1 DEF Alike
    <2>3. ToldInOrder'
      BY <1>1, <2>1 DEF ToldInOrder
    <2>4. ToldHaveLines'
      BY <1>1, <2>1, <2>2 DEF ToldHaveLines
    <2>5. QED
      BY <2>3, <2>4
  <1>2. ASSUME NEW s \in Sessions, Import!Commit(s) PROVE ToldInOrder' /\ ToldHaveLines'
    <2> PICK f, new : f = imports[s].file /\ new = imports[s].new
      OBVIOUS
    <2>1. /\ lines' = lines \cup new /\ told' = told \cup Told(f) /\ format' = format /\ imports[s].pc = "commit"
      BY <1>2 DEF Import!Commit, Told
    <2>2. f \in Import!Files /\ Adds(new, Told(f))
      BY <2>1 DEF Sound
    <2>3. QED
      BY <2>1, <2>2, OrderKept
  <1>3. QED
    BY <1>1, <1>2 DEF Import!Next, Import!vars, Import!BeginImport, Import!Insert, Import!Rollback

-----------------------------------------------------------------------------
(* What the invariants come to.                                            *)
LEMMA LooksFinite ==
  ASSUME Sound, NEW look
  PROVE  IsFiniteSet(LinesOf(look)) /\ IsFiniteSet(ToldOf(look)) /\ ToldOf(look) \in SUBSET told
         /\ IsFiniteSet(told) /\ told \in SUBSET Int
  <1>1. IsFiniteSet(told) /\ told \in SUBSET Int
    BY ToldFinite DEF Sound
  <1>2. LinesOf(look) \in SUBSET lines /\ ToldOf(look) \in SUBSET told /\ IsFiniteSet(lines)
    BY DEF LinesOf, ToldOf, Sound, LinesNumbered
  <1>3. QED
    BY <1>1, <1>2, FS_Subset

(* Each line is of a transaction of its own.                               *)
LEMMA LinesWithinTold ==
  ASSUME Sound, NEW look
  PROVE  Cardinality(LinesOf(look)) <= Cardinality(ToldOf(look))
  <1>1. ASSUME NEW l \in LinesOf(look)
        PROVE  \E i \in ToldOf(look) : HashOf(i) = l.hash /\ Rank(Alike(told, l.hash), i) = l.occurrence
    <2>1. l \in lines /\ l.hash[1] = look /\ l.occurrence \in 1..Cardinality(Alike(told, l.hash))
      BY DEF LinesOf, Sound, LinesNumbered
    <2> PICK I : I = Alike(told, l.hash)
      OBVIOUS
    <2>2. I \in SUBSET Int /\ IsFiniteSet(I)
      BY LooksFinite, AlikeFinite
    <2>3. PICK i \in I : Rank(I, i) = l.occurrence
      BY <2>1, <2>2, RanksOnto
    <2>4. i \in told /\ HashOf(i) = l.hash
      BY DEF Alike
    <2>5. Look(i) = look
      BY <2>1, <2>4 DEF HashOf
    <2>6. QED
      BY <2>3, <2>4, <2>5 DEF ToldOf
  <1> PICK g : g = [l \in LinesOf(look) |->
                      CHOOSE i \in ToldOf(look) : HashOf(i) = l.hash /\ Rank(Alike(told, l.hash), i) = l.occurrence]
    OBVIOUS
  <1>2. \A l \in LinesOf(look) :
          g[l] \in ToldOf(look) /\ HashOf(g[l]) = l.hash /\ Rank(Alike(told, l.hash), g[l]) = l.occurrence
    BY <1>1
  <1>3. \A k, l \in LinesOf(look) : g[k] = g[l] => k = l
    <2>1. \A l \in LinesOf(look) : l = Numbered(l.hash, l.occurrence)
      BY DEF LinesOf, Sound, LinesNumbered
    <2>2. QED
      BY <1>2, <2>1
  <1>4. g \in Injection(LinesOf(look), ToldOf(look))
    <2>1. g \in [LinesOf(look) -> ToldOf(look)]
      BY <1>2
    <2>2. QED
      BY <1>3, <2>1 DEF Injection, IsInjective
  <1>5. QED
    BY <1>4, LooksFinite, FS_Injection

(* Each transaction told has a line of its own.                            *)
LEMMA ToldWithinLines ==
  ASSUME Sound, ToldHaveLines, NEW look
  PROVE  Cardinality(ToldOf(look)) <= Cardinality(LinesOf(look))
  <1> PICK g : g = [i \in ToldOf(look) |-> Numbered(HashOf(i), Rank(Alike(told, HashOf(i)), i))]
    OBVIOUS
  <1>1. ASSUME NEW i \in ToldOf(look) PROVE g[i] \in LinesOf(look)
    <2>1. i \in told /\ Look(i) = look
      BY DEF ToldOf
    <2> PICK I : I = Alike(told, HashOf(i))
      OBVIOUS
    <2>2. I \in SUBSET Int /\ IsFiniteSet(I) /\ i \in I
      <3>1. i \in I
        BY <2>1 DEF Alike
      <3>2. QED
        BY <3>1, LooksFinite, AlikeFinite
    <2>3. Rank(I, i) \in 1..Cardinality(I)
      BY <2>2, RankPositive
    <2>4. g[i] \in lines
      BY <2>1, <2>3 DEF ToldHaveLines
    <2>5. g[i].hash[1] = look
      BY <2>1 DEF Numbered, HashOf
    <2>6. QED
      BY <2>4, <2>5 DEF LinesOf
  <1>2. ASSUME NEW i \in ToldOf(look), NEW j \in ToldOf(look), g[i] = g[j] PROVE i = j
    <2>1. HashOf(i) = HashOf(j) /\ Rank(Alike(told, HashOf(i)), i) = Rank(Alike(told, HashOf(j)), j)
      BY <1>2 DEF Numbered
    <2> PICK I : I = Alike(told, HashOf(i))
      OBVIOUS
    <2>2. i \in I /\ j \in I /\ Rank(I, i) = Rank(I, j)
      BY <2>1 DEF Alike, ToldOf
    <2>3. I \in SUBSET Int /\ IsFiniteSet(I)
      BY LooksFinite, AlikeFinite
    <2>4. ~(i < j) /\ ~(j < i)
      BY <2>2, <2>3, RanksApart
    <2>5. QED
      BY <2>2, <2>3, <2>4
  <1>3. g \in Injection(ToldOf(look), LinesOf(look))
    <2>1. g \in [ToldOf(look) -> LinesOf(look)]
      BY <1>1
    <2>2. \A i, j \in ToldOf(look) : g[i] = g[j] => i = j
      BY <1>2
    <2>3. QED
      BY <2>1, <2>2 DEF Injection, IsInjective
  <1>4. QED
    BY <1>3, LooksFinite, FS_Injection

LEMMA CountsAre ==
  ASSUME Sound, NEW look
  PROVE  Cardinality(LinesOf(look)) \in Nat /\ Cardinality(ToldOf(look)) \in Nat
  BY LooksFinite, FS_CardinalityType

(* A row the bank tells twice never becomes two lines, for any history of  *)
(* an account, files told in any order, again, and imported at once, where *)
(* all the rows of an MT940 file can be read.                              *)
THEOREM RowsNeverImportedTwice ==
  ASSUME "mt940" \in Formats => AllRead
  PROVE  Import!Spec => []NeverTwice
  <1>1. Import!Init => Sound
    BY SoundInit
  <1>2. Sound /\ [Import!Next]_Import!vars => Sound'
    <2>1. Sound => (format = "mt940" => AllRead)
      BY DEF Sound
    <2>2. QED
      BY <2>1, SoundKept
  <1>3. Sound => NeverTwice
    BY LinesWithinTold DEF NeverTwice
  <1>4. QED
    BY <1>1, <1>2, <1>3, PTL DEF Import!Spec

(* And two transactions that look the same are never one line, where no    *)
(* file begins amid transactions of one hash.                              *)
THEOREM RowsNeverLost ==
  ASSUME "mt940" \in Formats => AllRead, FilesWhole
  PROVE  Import!Spec => []NeverLost
  <1>1. Import!Init => Sound /\ ToldInOrder /\ ToldHaveLines
    BY SoundInit, OrderInit
  <1>2. Sound /\ ToldInOrder /\ ToldHaveLines /\ [Import!Next]_Import!vars
        => Sound' /\ ToldInOrder' /\ ToldHaveLines'
    <2>1. Sound => (format = "mt940" => AllRead)
      BY DEF Sound
    <2>2. QED
      BY <2>1, SoundKept, OrderNext
  <1>3. Sound /\ ToldHaveLines => NeverLost
    BY ToldWithinLines, CountsAre DEF NeverLost
  <1>4. QED
    BY <1>1, <1>2, <1>3, PTL DEF Import!Spec
=============================================================================
