---------------------------- MODULE LedgerProofs ----------------------------
(* What Ledger guarantees for every set of sessions, journals, dates, ...  *)
EXTENDS Ledger, FiniteSetTheorems, TLAPS

LEMMA CounterOfType ==
  ASSUME NEW e \in Entries
  PROVE  CounterOf(e) \in Counters
  BY DEF Entries, CounterOf, Counters, Years

LEMMA EndOfTransactionType ==
  ASSUME Typed, NEW s \in Sessions, EndOfTransaction(s)
  PROVE  /\ counterLock' \in [Counters -> Sessions \cup {None}]
         /\ entryLock' \in [Ids -> Sessions \cup {None}]
         /\ closing' \in LockDates \cup {None}
         /\ pc' \in [Sessions -> {"idle", "ready", "entry", "number", "insert", "stamp"}]
         /\ call' \in [Sessions -> Entries \cup {NoCall}]
         /\ pending' \in [Sessions -> SUBSET Entries]
         /\ calls' \in [Sessions -> 0..MaxCalls]
         /\ CallOK'
  <1>1. counterLock' \in [Counters -> Sessions \cup {None}]
    BY DEF Typed, TypeOK, EndOfTransaction
  <1>2. entryLock' \in [Ids -> Sessions \cup {None}]
    BY DEF Typed, TypeOK, EndOfTransaction
  <1>3. closing' \in LockDates \cup {None}
    BY DEF Typed, TypeOK, EndOfTransaction
  <1>4. pc' = [pc EXCEPT ![s] = "idle"] /\ call' = [call EXCEPT ![s] = NoCall]
    BY DEF EndOfTransaction, Goto
  <1>5. pc' \in [Sessions -> {"idle", "ready", "entry", "number", "insert", "stamp"}]
    BY <1>4 DEF Typed, TypeOK
  <1>6. call' \in [Sessions -> Entries \cup {NoCall}]
    BY <1>4 DEF Typed, TypeOK
  <1>7. pending' \in [Sessions -> SUBSET Entries]
    BY DEF Typed, TypeOK, EndOfTransaction
  <1>8. calls' \in [Sessions -> 0..MaxCalls]
    <2>1. 0 \in 0..MaxCalls
      BY LedgerAssumption
    <2>2. QED
      BY <2>1 DEF Typed, TypeOK, EndOfTransaction
  <1>9. CallOK'
    BY <1>4 DEF Typed, TypeOK, CallOK, Phase
  <1>10. QED
    BY <1>1, <1>2, <1>3, <1>5, <1>6, <1>7, <1>8, <1>9

LEMMA AbortType ==
  ASSUME Typed, NEW s \in Sessions, Abort(s)
  PROVE  Typed'
  <1>1. drawn' \in [Counters -> Nat]
    BY DEF Typed, TypeOK, Abort
  <1>2. UNCHANGED books
    BY DEF Abort
  <1>3. QED
    BY <1>1, <1>2, EndOfTransactionType DEF Typed, TypeOK, Abort, books

LEMMA BeginType ==
  ASSUME Typed, NEW s \in Sessions, MayCall(s),
         NEW e \in Entries, NEW to \in {"entry", "number"}, Begin(s, to, e)
  PROVE  Typed'
  <1>1. calls[s] + 1 \in 0..MaxCalls
    BY LedgerAssumption DEF MayCall, Typed, TypeOK
  <1>2. calls' \in [Sessions -> 0..MaxCalls]
    BY <1>1 DEF Begin, Typed, TypeOK
  <1>3. pc' = [pc EXCEPT ![s] = to] /\ call' = [call EXCEPT ![s] = e]
    BY DEF Begin, Goto
  <1>4. CallOK'
    BY <1>3 DEF Typed, TypeOK, CallOK, Phase
  <1>5. /\ pc' \in [Sessions -> {"idle", "ready", "entry", "number", "insert", "stamp"}]
        /\ call' \in [Sessions -> Entries \cup {NoCall}]
    BY <1>3 DEF Typed, TypeOK
  <1>6. QED
    BY <1>2, <1>4, <1>5 DEF Begin, Typed, TypeOK, books, locks

(* A step that fills in one field of the call and moves on. *)
LEMMA AdvanceType ==
  ASSUME Typed, NEW s \in Sessions, NEW e \in Entries,
         NEW to \in {"number", "insert", "stamp"},
         pc' = [pc EXCEPT ![s] = to], call' = [call EXCEPT ![s] = e]
  PROVE  /\ pc' \in [Sessions -> {"idle", "ready", "entry", "number", "insert", "stamp"}]
         /\ call' \in [Sessions -> Entries \cup {NoCall}]
         /\ CallOK'
  BY DEF Typed, TypeOK, CallOK, Phase

LEMMA BeginPostBegins ==
  ASSUME Typed, NEW s \in Sessions, NEW j \in Journals, NEW d \in Dates,
         NEW src \in Sources \cup {None}, BeginPost(s, j, d, src)
  PROVE  MayCall(s) /\ \E e \in Entries : Begin(s, "number", e) /\ e.id = None
                                           /\ e.reverses = None
  <1> DEFINE e == [id |-> None, journal |-> j, code |-> journal[j].code, date |-> d,
                   number |-> 0, source |-> src, reverses |-> None]
  <1>1. e \in Entries
    BY DEF Typed, TypeOK, Entries
  <1>2. MayCall(s) /\ Begin(s, "number", e)
    BY DEF BeginPost
  <1>3. QED
    BY <1>1, <1>2

LEMMA BeginReverseBegins ==
  ASSUME Typed, NEW s \in Sessions, NEW o \in entries, NEW d \in Dates,
         BeginReverse(s, o, d)
  PROVE  MayCall(s) /\ \E e \in Entries : Begin(s, "entry", e) /\ e.id = None
                                           /\ e.reverses = o.id
  <1> DEFINE e == [id |-> None, journal |-> o.journal, code |-> o.code, date |-> d,
                   number |-> 0, source |-> None, reverses |-> o.id]
  <1>1. e \in Entries
    BY DEF Typed, TypeOK, Entries
  <1>2. MayCall(s) /\ Begin(s, "entry", e)
    BY DEF BeginReverse
  <1>3. QED
    BY <1>1, <1>2

LEMMA TypeStep ==
  ASSUME Typed, [Next]_vars
  PROVE  Typed'
  <1>1. ASSUME NEW s \in Sessions, NEW j \in Journals, NEW d \in Dates,
               NEW src \in Sources \cup {None}, BeginPost(s, j, d, src)
        PROVE  Typed'
    BY <1>1, BeginPostBegins, BeginType
  <1>2. ASSUME NEW s \in Sessions, NEW o \in entries, NEW d \in Dates, BeginReverse(s, o, d)
        PROVE  Typed'
    BY <1>2, BeginReverseBegins, BeginType
  <1>3. ASSUME NEW s \in Sessions, LockEntry(s)
        PROVE  Typed'
    <2> DEFINE e == [call[s] EXCEPT !.code = journal[call[s].journal].code]
    <2>1. CASE Abort(s)
      BY <2>1, AbortType
    <2>2. CASE ~Abort(s)
      <3>1. call[s] \in Entries
        BY <1>3 DEF LockEntry, Typed, CallOK, Phase
      <3>2. e \in Entries
        BY <3>1 DEF Typed, TypeOK, Entries
      <3>3. /\ entryLock' = [entryLock EXCEPT ![call[s].reverses] = s]
            /\ call' = [call EXCEPT ![s].code = journal[call[s].journal].code]
            /\ pc' = [pc EXCEPT ![s] = "number"]
            /\ UNCHANGED <<books, drawn, counterLock, closing, pending, calls>>
        BY <1>3, <2>2 DEF LockEntry, Goto
      <3>4. call' = [call EXCEPT ![s] = e]
        BY <3>3
      <3>5. QED
        BY <3>2, <3>3, <3>4, AdvanceType DEF Typed, TypeOK, books
    <2>3. QED
      BY <2>1, <2>2
  <1>4. ASSUME NEW s \in Sessions, TakeNumber(s)
        PROVE  Typed'
    <2> DEFINE c == CounterOf(call[s])
               e == [call[s] EXCEPT !.number = drawn[c] + 1]
    <2>1. call[s] \in Entries
      BY <1>4 DEF TakeNumber, Typed, CallOK, Phase
    <2>2. c \in Counters
      BY <2>1, CounterOfType
    <2>3. drawn[c] \in Nat
      BY <2>2 DEF Typed, TypeOK
    <2>4. e \in Entries
      BY <2>1, <2>3 DEF Entries
    <2>5. /\ counterLock' = [counterLock EXCEPT ![c] = s]
          /\ drawn' = [drawn EXCEPT ![c] = @ + 1]
          /\ call' = [call EXCEPT ![s] = e]
          /\ pc' = [pc EXCEPT ![s] = "insert"]
          /\ UNCHANGED <<books, entryLock, closing, pending, calls>>
      BY <1>4 DEF TakeNumber, Goto
    <2>6. drawn' \in [Counters -> Nat]
      <3>1. drawn[c] + 1 \in Nat
        BY <2>3
      <3>2. drawn' = [drawn EXCEPT ![c] = drawn[c] + 1]
        BY <2>5
      <3>3. QED
        BY <3>1, <3>2 DEF Typed, TypeOK
    <2>7. QED
      BY <2>4, <2>5, <2>6, AdvanceType DEF Typed, TypeOK, books
  <1>5. ASSUME NEW s \in Sessions, InsertDraft(s)
        PROVE  Typed'
    <2>1. CASE Abort(s)
      BY <2>1, AbortType
    <2>2. CASE ~Abort(s)
      <3>1. call[s] \in Entries
        BY <1>5 DEF InsertDraft, Typed, CallOK, Phase
      <3>2. PICK i \in Ids : call' = [call EXCEPT ![s].id = i]
        BY <1>5, <2>2 DEF InsertDraft
      <3>3. [call[s] EXCEPT !.id = i] \in Entries
        BY <3>1 DEF Entries
      <3>4. /\ call' = [call EXCEPT ![s] = [call[s] EXCEPT !.id = i]]
            /\ pc' = [pc EXCEPT ![s] = "stamp"]
            /\ UNCHANGED <<books, locks, pending, calls>>
        BY <1>5, <2>2, <3>2 DEF InsertDraft, Goto
      <3>5. QED
        BY <3>3, <3>4, AdvanceType DEF Typed, TypeOK, books, locks
    <2>3. QED
      BY <2>1, <2>2
  <1>6. ASSUME NEW s \in Sessions, Stamp(s)
        PROVE  Typed'
    <2>1. CASE Abort(s)
      BY <2>1, AbortType
    <2>2. CASE ~Abort(s)
      <3>1. call[s] \in Entries
        BY <1>6 DEF Stamp, Typed, CallOK, Phase
      <3>2. /\ pending' = [pending EXCEPT ![s] = @ \cup {call[s]}]
            /\ call' = [call EXCEPT ![s] = NoCall]
            /\ pc' = [pc EXCEPT ![s] = "ready"]
            /\ UNCHANGED <<books, locks, calls>>
        BY <1>6, <2>2 DEF Stamp, Goto
      <3>3. CallOK'
        BY <3>2 DEF Typed, TypeOK, CallOK, Phase
      <3>4. pending' \in [Sessions -> SUBSET Entries]
        BY <3>1, <3>2 DEF Typed, TypeOK
      <3>5. QED
        BY <3>2, <3>3, <3>4 DEF Typed, TypeOK, books, locks
    <2>3. QED
      BY <2>1, <2>2
  <1>7. ASSUME NEW s \in Sessions, Commit(s)
        PROVE  Typed'
    <2>1. entries' \subseteq Entries /\ lastNumber' \in [Counters -> Nat]
      BY <1>7 DEF Commit, Typed, TypeOK
    <2>2. QED
      BY <1>7, <2>1, EndOfTransactionType DEF Commit, Typed, TypeOK
  <1>8. ASSUME NEW s \in Sessions, Rollback(s) \/ DeadlockVictim(s)
        PROVE  Typed'
    BY <1>8, AbortType DEF Rollback, DeadlockVictim
  <1>9. ASSUME NEW d \in LockDates, BeginClose(d)
        PROVE  Typed'
    BY <1>9 DEF BeginClose, books, requests, Typed, TypeOK, CallOK, Phase
  <1>10. ASSUME EndClose
        PROVE  Typed'
    BY <1>10 DEF EndClose, requests, Typed, TypeOK, CallOK, Phase
  <1>11. ASSUME NEW j \in Journals,
                Archive(j) \/ EndRename(j) \/ \E code \in Codes : BeginRename(j, code)
         PROVE  Typed'
    <2>1. journal' \in [Journals -> [active: BOOLEAN, code: Codes, wanted: Codes \cup {None}]]
      <3>1. CASE Archive(j)
        BY <3>1 DEF Archive, Typed, TypeOK
      <3>2. CASE EndRename(j)
        BY <3>2 DEF EndRename, Typed, TypeOK
      <3>3. ASSUME NEW code \in Codes, BeginRename(j, code)
            PROVE  journal' \in [Journals -> [active: BOOLEAN, code: Codes,
                                             wanted: Codes \cup {None}]]
        BY <3>3 DEF BeginRename, Typed, TypeOK
      <3>4. QED
        BY <1>11, <3>1, <3>2, <3>3
    <2>2. UNCHANGED <<entries, lastNumber, lockDate, locks, requests>>
      BY <1>11 DEF Archive, BeginRename, EndRename
    <2>3. QED
      BY <2>1, <2>2 DEF locks, requests, Typed, TypeOK, CallOK, Phase
  <1>12. CASE UNCHANGED vars
    BY <1>12 DEF vars, books, locks, requests, Typed, TypeOK, CallOK, Phase
  <1>13. QED
    BY <1>1, <1>2, <1>3, <1>4, <1>5, <1>6, <1>7, <1>8, <1>9, <1>10, <1>11, <1>12
    DEF Next

-----------------------------------------------------------------------------
(* Which locks a session keeps.                                            *)

(* Filling in the number, the id or the code leaves an entry in its series. *)
LEMMA SameSeries ==
  ASSUME NEW e \in Entries
  PROVE  /\ \A n : CounterOf([e EXCEPT !.number = n]) = CounterOf(e)
         /\ \A i : CounterOf([e EXCEPT !.id = i]) = CounterOf(e)
         /\ \A code : CounterOf([e EXCEPT !.code = code]) = CounterOf(e)
  BY DEF CounterOf, Entries

(* The sessions other than s are where they were, with what they had. *)
Elsewhere(s) ==
  \A t \in Sessions \ {s} :
    pc'[t] = pc[t] /\ call'[t] = call[t] /\ pending'[t] = pending[t] /\ calls'[t] = calls[t]

LEMMA ElsewhereStep ==
  ASSUME Typed, NEW s \in Sessions,
         \/ Step(s) \/ Commit(s) \/ Abort(s)
         \/ \E to \in {"entry", "number"}, e \in Entries : Begin(s, to, e)
  PROVE  Elsewhere(s)
  <1>1. CASE Abort(s) \/ Commit(s)
    BY <1>1 DEF Abort, Commit, EndOfTransaction, Goto, Elsewhere, Typed, TypeOK
  <1>2. CASE \E to \in {"entry", "number"}, e \in Entries : Begin(s, to, e)
    BY <1>2 DEF Begin, Goto, Elsewhere, Typed, TypeOK
  <1>3. CASE Step(s) /\ ~Abort(s)
    BY <1>3 DEF Step, LockEntry, TakeNumber, InsertDraft, Stamp, Goto, Elsewhere,
                Typed, TypeOK, locks
  <1>4. QED
    BY <1>1, <1>2, <1>3

(* What each step does to the entries that have drawn a number. *)
LEMMA DrawnType ==
  ASSUME Typed
  PROVE  \A s \in Sessions : \A e \in Drawn(s) : e \in Entries /\ CounterOf(e) \in Counters
  BY CounterOfType DEF Drawn, Typed, TypeOK, CallOK, Phase

LEMMA DrawnKept ==
  ASSUME Typed, NEW s \in Sessions,
         \/ MayCall(s) /\ \E to \in {"entry", "number"}, e \in Entries : Begin(s, to, e)
         \/ LockEntry(s) /\ ~Abort(s)
         \/ Stamp(s) /\ ~Abort(s)
  PROVE  \A t \in Sessions : Drawn(t)' = Drawn(t)
  <1>1. \A t \in Sessions \ {s} : Drawn(t)' = Drawn(t)
    BY ElsewhereStep DEF Elsewhere, Step, Drawn
  <1>2. CASE MayCall(s) /\ \E to \in {"entry", "number"}, e \in Entries : Begin(s, to, e)
    <2>1. Drawn(s)' = Drawn(s)
      BY <1>2 DEF MayCall, Begin, Goto, Drawn, Typed, TypeOK
    <2>2. QED
      BY <1>1, <2>1
  <1>3. CASE LockEntry(s) /\ ~Abort(s)
    <2>1. Drawn(s)' = Drawn(s)
      BY <1>3 DEF LockEntry, Goto, Drawn, Typed, TypeOK
    <2>2. QED
      BY <1>1, <2>1
  <1>4. CASE Stamp(s) /\ ~Abort(s)
    <2>1. Drawn(s)' = Drawn(s)
      BY <1>4 DEF Stamp, Goto, Drawn, Typed, TypeOK
    <2>2. QED
      BY <1>1, <2>1
  <1>5. QED
    BY <1>2, <1>3, <1>4

LEMMA DrawnAtEnd ==
  ASSUME Typed, NEW s \in Sessions, Abort(s) \/ Commit(s)
  PROVE  /\ Drawn(s)' = {}
         /\ \A t \in Sessions \ {s} : Drawn(t)' = Drawn(t)
  <1>1. Drawn(s)' = {}
    BY DEF Abort, Commit, EndOfTransaction, Goto, Drawn, Typed, TypeOK
  <1>2. \A t \in Sessions \ {s} : Drawn(t)' = Drawn(t)
    BY ElsewhereStep DEF Elsewhere, Drawn
  <1>3. QED
    BY <1>1, <1>2

LEMMA DrawnByTakeNumber ==
  ASSUME Typed, NEW s \in Sessions, TakeNumber(s)
  PROVE  LET c == CounterOf(call[s]) IN
         /\ c \in Counters /\ CounterOf(call'[s]) = c
         /\ call'[s].number = drawn[c] + 1
         /\ Drawn(s) = pending[s] /\ Drawn(s)' = pending[s] \cup {call'[s]}
         /\ \A t \in Sessions \ {s} : Drawn(t)' = Drawn(t)
         /\ counterLock[c] \in {None, s}
         /\ \A k \in Counters : /\ counterLock'[k] = IF k = c THEN s ELSE counterLock[k]
                                /\ drawn'[k] = IF k = c THEN drawn[k] + 1 ELSE drawn[k]
  <1> DEFINE c == CounterOf(call[s])
  <1>1. call[s] \in Entries
    BY DEF TakeNumber, Typed, TypeOK, CallOK, Phase
  <1>2. call'[s] = [call[s] EXCEPT !.number = drawn[c] + 1]
    BY DEF TakeNumber, Typed, TypeOK
  <1>3. c \in Counters /\ CounterOf(call'[s]) = c
    BY <1>1, <1>2, CounterOfType, SameSeries
  <1>4. call'[s].number = drawn[c] + 1
    BY <1>1, <1>2 DEF Entries
  <1>5. Drawn(s) = pending[s] /\ Drawn(s)' = pending[s] \cup {call'[s]}
    BY DEF TakeNumber, Goto, Drawn, Typed, TypeOK
  <1>6. \A t \in Sessions \ {s} : Drawn(t)' = Drawn(t)
    BY ElsewhereStep DEF Elsewhere, Step, Drawn
  <1>7. counterLock[c] \in {None, s}
    BY DEF TakeNumber
  <1>8. \A k \in Counters : /\ counterLock'[k] = IF k = c THEN s ELSE counterLock[k]
                           /\ drawn'[k] = IF k = c THEN drawn[k] + 1 ELSE drawn[k]
    BY <1>3 DEF TakeNumber, Typed, TypeOK
  <1>9. QED
    BY <1>3, <1>4, <1>5, <1>6, <1>7, <1>8

LEMMA DrawnByInsert ==
  ASSUME Typed, NEW s \in Sessions, InsertDraft(s), ~Abort(s)
  PROVE  /\ CounterOf(call'[s]) = CounterOf(call[s])
         /\ call'[s].number = call[s].number
         /\ call'[s].source = call[s].source
         /\ call'[s].reverses = call[s].reverses
         /\ Drawn(s) = pending[s] \cup {call[s]}
         /\ Drawn(s)' = pending[s] \cup {call'[s]}
         /\ \A t \in Sessions \ {s} : Drawn(t)' = Drawn(t)
  <1>1. PICK i \in Ids : call' = [call EXCEPT ![s].id = i]
    BY DEF InsertDraft
  <1>2. call[s] \in Entries
    BY DEF InsertDraft, Typed, CallOK, Phase
  <1>3. call'[s] = [call[s] EXCEPT !.id = i]
    BY <1>1 DEF Typed, TypeOK
  <1>4. CounterOf(call'[s]) = CounterOf(call[s])
    BY <1>2, <1>3, SameSeries
  <1>5. /\ call'[s].number = call[s].number
        /\ call'[s].source = call[s].source
        /\ call'[s].reverses = call[s].reverses
    BY <1>2, <1>3 DEF Entries
  <1>6. Drawn(s) = pending[s] \cup {call[s]} /\ Drawn(s)' = pending[s] \cup {call'[s]}
    BY DEF InsertDraft, Goto, Drawn, Typed, TypeOK
  <1>7. \A t \in Sessions \ {s} : Drawn(t)' = Drawn(t)
    BY ElsewhereStep DEF Elsewhere, Step, Drawn
  <1>8. QED
    BY <1>4, <1>5, <1>6, <1>7

LEMMA LocksKeptStep ==
  ASSUME Typed, LocksKept, [Next]_vars
  PROVE  LocksKept'
  <1>1. ASSUME NEW s \in Sessions, Abort(s) \/ Commit(s)
        PROVE  LocksKept'
    <2>1. EndOfTransaction(s)
      BY <1>1 DEF Abort, Commit
    <2>2. \A t \in Sessions : \A e \in Drawn(t)' : counterLock'[CounterOf(e)] = t
      BY <1>1, <2>1, DrawnAtEnd, DrawnType DEF EndOfTransaction, LocksKept
    <2>3. ASSUME NEW t \in Sessions, pc'[t] = "idle"
          PROVE  /\ pending'[t] = {}
                 /\ \A c \in Counters : counterLock'[c] # t
                 /\ \A i \in Ids : entryLock'[i] # t
      <3>1. t # s => pc[t] = "idle" /\ pending'[t] = pending[t]
        BY <1>1, <2>3, ElsewhereStep DEF Elsewhere
      <3>2. pending'[s] = {}
        BY <2>1 DEF EndOfTransaction, Typed, TypeOK
      <3>3. QED
        BY <2>1, <3>1, <3>2, LedgerAssumption DEF EndOfTransaction, LocksKept
    <2>4. QED
      BY <2>2, <2>3 DEF LocksKept
  <1>2. ASSUME NEW s \in Sessions, NEW to \in {"entry", "number"}, NEW e \in Entries,
               MayCall(s), Begin(s, to, e)
        PROVE  LocksKept'
    <2>1. \A t \in Sessions : Drawn(t)' = Drawn(t)
      BY <1>2, DrawnKept
    <2>2. \A t \in Sessions : pc'[t] = "idle" => pc[t] = "idle"
      BY <1>2 DEF Begin, Goto, Typed, TypeOK
    <2>3. QED
      BY <1>2, <2>1, <2>2 DEF Begin, LocksKept, locks
  <1>3. ASSUME NEW s \in Sessions, LockEntry(s), ~Abort(s)
        PROVE  LocksKept'
    <2>1. \A t \in Sessions : Drawn(t)' = Drawn(t)
      BY <1>3, DrawnKept
    <2>2. \A t \in Sessions : pc'[t] = "idle" => t # s /\ pc[t] = "idle"
      BY <1>3 DEF LockEntry, Goto, Typed, TypeOK
    <2>3. QED
      BY <1>3, <2>1, <2>2 DEF LockEntry, LocksKept, Typed, TypeOK
  <1>4. ASSUME NEW s \in Sessions, TakeNumber(s)
        PROVE  LocksKept'
    <2>1. \A t \in Sessions : \A e \in Drawn(t)' : counterLock'[CounterOf(e)] = t
      BY <1>4, DrawnByTakeNumber, DrawnType, LedgerAssumption DEF LocksKept
    <2>2. \A t \in Sessions : pc'[t] = "idle" =>
            t # s /\ pc[t] = "idle" /\ pending'[t] = pending[t]
      BY <1>4 DEF TakeNumber, Goto, Typed, TypeOK
    <2>3. entryLock' = entryLock
      BY <1>4 DEF TakeNumber
    <2>4. QED
      BY <1>4, <2>1, <2>2, <2>3, DrawnByTakeNumber DEF LocksKept
  <1>5. ASSUME NEW s \in Sessions, InsertDraft(s), ~Abort(s)
        PROVE  LocksKept'
    <2>1. counterLock' = counterLock /\ entryLock' = entryLock /\ pending' = pending
      BY <1>5 DEF InsertDraft, locks
    <2>2. \A t \in Sessions : pc'[t] = "idle" => t # s /\ pc[t] = "idle"
      BY <1>5 DEF InsertDraft, Goto, Typed, TypeOK
    <2>3. QED
      BY <1>5, <2>1, <2>2, DrawnByInsert DEF LocksKept
  <1>6. ASSUME NEW s \in Sessions, Stamp(s), ~Abort(s)
        PROVE  LocksKept'
    <2>1. \A t \in Sessions : Drawn(t)' = Drawn(t)
      BY <1>6, DrawnKept
    <2>2. \A t \in Sessions : pc'[t] = "idle" => t # s /\ pc[t] = "idle"
      BY <1>6 DEF Stamp, Goto, Typed, TypeOK
    <2>3. \A t \in Sessions : pc'[t] = "idle" => pending'[t] = pending[t]
      BY <1>6, <2>2, ElsewhereStep DEF Elsewhere, Step
    <2>4. QED
      BY <1>6, <2>1, <2>2, <2>3 DEF Stamp, LocksKept, locks
  <1>7. CASE UNCHANGED <<requests, counterLock, entryLock>>
    BY <1>7 DEF requests, LocksKept, Drawn
  <1>8. QED
    <2>1. ASSUME NEW s \in Sessions, NEW j \in Journals, NEW d \in Dates,
                 NEW src \in Sources \cup {None}, BeginPost(s, j, d, src)
          PROVE  LocksKept'
      BY <2>1, <1>2, BeginPostBegins
    <2>2. ASSUME NEW s \in Sessions, NEW o \in entries, NEW d \in Dates, BeginReverse(s, o, d)
          PROVE  LocksKept'
      BY <2>2, <1>2, BeginReverseBegins
    <2>3. QED
      BY <1>1, <1>3, <1>4, <1>5, <1>6, <1>7, <2>1, <2>2
      DEF Next, Rollback, DeadlockVictim, BeginClose, EndClose, Archive, BeginRename, EndRename,
          vars, locks

LEMMA IdsGivenStep ==
  ASSUME Typed, IdsGiven, [Next]_vars
  PROVE  IdsGiven'
  <1> DEFINE IdsOf(t) == /\ pc[t] \in {"entry", "number", "insert"} => call[t].id = None
                         /\ pc[t] = "stamp" => call[t].id # None
                         /\ pc[t] = "entry" => call[t].reverses # None
                         /\ \A e \in pending[t] : e.id # None
  <1>1. ASSUME NEW s \in Sessions, Elsewhere(s), IdsOf(s)',
               \A e \in entries' : e.id # None
        PROVE  IdsGiven'
    BY <1>1 DEF Elsewhere, IdsGiven
  <1>2. ASSUME NEW s \in Sessions, Abort(s) \/ Commit(s)
        PROVE  IdsGiven'
    <2>1. pc'[s] = "idle" /\ pending'[s] = {}
      BY <1>2 DEF Abort, Commit, EndOfTransaction, Goto, Typed, TypeOK
    <2>2. \A e \in entries' : e.id # None
      BY <1>2 DEF Abort, Commit, books, IdsGiven
    <2>3. QED
      BY <1>1, <1>2, <2>1, <2>2, ElsewhereStep
  <1>3. ASSUME NEW s \in Sessions, NEW to \in {"entry", "number"}, NEW e \in Entries,
               Begin(s, to, e), e.id = None, to = "entry" => e.reverses # None
        PROVE  IdsGiven'
    <2>1. pc'[s] = to /\ call'[s] = e /\ pending' = pending /\ entries' = entries
      BY <1>3 DEF Begin, Goto, books, Typed, TypeOK
    <2>2. IdsOf(s)'
      BY <1>3, <2>1 DEF IdsGiven
    <2>3. QED
      BY <1>1, <1>3, <2>1, <2>2, ElsewhereStep DEF IdsGiven
  <1>4. ASSUME NEW s \in Sessions, LockEntry(s), ~Abort(s)
        PROVE  IdsGiven'
    <2>1. call[s] \in Entries
      BY <1>4 DEF LockEntry, Typed, CallOK, Phase
    <2>2. /\ pc'[s] = "number" /\ pending' = pending
          /\ call'[s] = [call[s] EXCEPT !.code = journal[call[s].journal].code]
      BY <1>4 DEF LockEntry, Goto, Typed, TypeOK
    <2>3. call'[s].id = call[s].id /\ pc[s] = "entry"
      BY <1>4, <2>1, <2>2 DEF LockEntry, Entries
    <2>4. IdsOf(s)'
      BY <2>2, <2>3 DEF IdsGiven
    <2>5. QED
      BY <1>1, <1>4, <2>4, ElsewhereStep DEF Step, LockEntry, books, IdsGiven
  <1>5. ASSUME NEW s \in Sessions, TakeNumber(s)
        PROVE  IdsGiven'
    <2>1. call[s] \in Entries
      BY <1>5 DEF TakeNumber, Typed, CallOK, Phase
    <2>2. /\ pc'[s] = "insert" /\ pending' = pending
          /\ call'[s] = [call[s] EXCEPT !.number = drawn[CounterOf(call[s])] + 1]
      BY <1>5 DEF TakeNumber, Goto, Typed, TypeOK
    <2>3. call'[s].id = call[s].id /\ pc[s] = "number"
      BY <1>5, <2>1, <2>2 DEF TakeNumber, Entries
    <2>4. IdsOf(s)'
      BY <2>2, <2>3 DEF IdsGiven
    <2>5. QED
      BY <1>1, <1>5, <2>4, ElsewhereStep DEF Step, TakeNumber, books, IdsGiven
  <1>6. ASSUME NEW s \in Sessions, InsertDraft(s), ~Abort(s)
        PROVE  IdsGiven'
    <2>1. PICK i \in Ids : call' = [call EXCEPT ![s].id = i]
      BY <1>6 DEF InsertDraft
    <2>2. call[s] \in Entries
      BY <1>6 DEF InsertDraft, Typed, CallOK, Phase
    <2>3. call'[s] = [call[s] EXCEPT !.id = i]
      BY <2>1 DEF Typed, TypeOK
    <2>4. call'[s].id = i /\ i # None
      BY <2>2, <2>3, LedgerAssumption DEF Entries
    <2>5. pc'[s] = "stamp" /\ pending' = pending
      BY <1>6 DEF InsertDraft, Goto, Typed, TypeOK
    <2>6. IdsOf(s)'
      BY <2>4, <2>5 DEF IdsGiven
    <2>7. QED
      BY <1>1, <1>6, <2>6, ElsewhereStep DEF Step, InsertDraft, books, IdsGiven
  <1>7. ASSUME NEW s \in Sessions, Stamp(s), ~Abort(s)
        PROVE  IdsGiven'
    <2>1. /\ pc[s] = "stamp" /\ pc'[s] = "ready"
          /\ pending'[s] = pending[s] \cup {call[s]}
      BY <1>7 DEF Stamp, Goto, Typed, TypeOK
    <2>2. IdsOf(s)'
      BY <2>1 DEF IdsGiven
    <2>3. QED
      BY <1>1, <1>7, <2>2, ElsewhereStep DEF Step, Stamp, books, IdsGiven
  <1>8. CASE UNCHANGED <<entries, requests>>
    BY <1>8 DEF requests, IdsGiven
  <1>9. QED
    <2>1. ASSUME NEW s \in Sessions, NEW j \in Journals, NEW d \in Dates,
                 NEW src \in Sources \cup {None}, BeginPost(s, j, d, src)
          PROVE  IdsGiven'
      BY <2>1, <1>3, BeginPostBegins
    <2>2. ASSUME NEW s \in Sessions, NEW o \in entries, NEW d \in Dates, BeginReverse(s, o, d)
          PROVE  IdsGiven'
      BY <2>2, <1>3, BeginReverseBegins DEF IdsGiven
    <2>3. QED
      BY <1>2, <1>4, <1>5, <1>6, <1>7, <1>8, <2>1, <2>2
      DEF Next, Rollback, DeadlockVictim, BeginClose, EndClose, Archive, BeginRename, EndRename, vars, books

-----------------------------------------------------------------------------
(* Numbers.                                                                *)

LEMMA NumberingKept ==
  ASSUME Typed, Numbering, UNCHANGED <<entries, lastNumber, drawn, counterLock>>,
         \A s \in Sessions : Drawn(s)' = Drawn(s)
  PROVE  Numbering'
  <1>1. ASSUME NEW c \in Counters, NEW n \in (lastNumber'[c] + 1)..drawn'[c]
        PROVE  \E e \in Drawn(counterLock[c])' : CounterOf(e) = c /\ e.number = n
    <2>1. n \in (lastNumber[c] + 1)..drawn[c] /\ lastNumber[c] \in Nat /\ drawn[c] \in Nat
      BY <1>1 DEF Typed, TypeOK
    <2>2. counterLock[c] \in Sessions
      BY <2>1 DEF Numbering, Typed, TypeOK
    <2>3. QED
      BY <2>1, <2>2 DEF Numbering
  <1>2. QED
    BY <1>1 DEF Numbering

(* The counter rows other than those the session holds are untouched. *)
LEMMA NumberingAborted ==
  ASSUME Typed, LocksKept, Numbering, NEW s \in Sessions, Abort(s)
  PROVE  Numbering'
  <1>1. entries' = entries /\ lastNumber' = lastNumber
    BY DEF Abort, books
  <1>2. \A c \in Counters :
          /\ counterLock'[c] = IF counterLock[c] = s THEN None ELSE counterLock[c]
          /\ drawn'[c] = IF counterLock[c] = s THEN lastNumber[c] ELSE drawn[c]
    BY DEF Abort, EndOfTransaction
  <1>3. \A c \in Counters : lastNumber[c] \in Nat /\ drawn[c] \in Nat
    BY DEF Typed, TypeOK
  <1>4. ASSUME NEW c \in Counters
        PROVE  /\ lastNumber'[c] <= drawn'[c]
               /\ counterLock'[c] = None => drawn'[c] = lastNumber'[c]
               /\ \A n \in 1..lastNumber'[c] :
                    \E e \in entries' : CounterOf(e) = c /\ e.number = n
    BY <1>1, <1>2, <1>3 DEF Numbering
  <1>5. ASSUME NEW c \in Counters, NEW n \in (lastNumber'[c] + 1)..drawn'[c]
        PROVE  \E e \in Drawn(counterLock[c])' : CounterOf(e) = c /\ e.number = n
    <2>1. counterLock[c] # s /\ n \in (lastNumber[c] + 1)..drawn[c]
      BY <1>1, <1>2, <1>3, <1>5
    <2>2. counterLock[c] \in Sessions \ {s} /\ counterLock'[c] = counterLock[c]
      BY <1>2, <1>3, <2>1 DEF Numbering, Typed, TypeOK
    <2>3. QED
      BY <2>1, <2>2, DrawnAtEnd DEF Numbering
  <1>6. \A t \in Sessions : \A e \in Drawn(t)' :
          e.number \in (lastNumber'[CounterOf(e)] + 1)..drawn'[CounterOf(e)]
    <2>1. \A t \in Sessions \ {s} : \A e \in Drawn(t) :
            CounterOf(e) \in Counters /\ drawn'[CounterOf(e)] = drawn[CounterOf(e)]
      BY <1>2, DrawnType DEF LocksKept
    <2>2. QED
      BY <1>1, <2>1, DrawnAtEnd DEF Numbering
  <1>7. \A t \in Sessions : \A e, f \in Drawn(t)' :
          CounterOf(e) = CounterOf(f) /\ e.number = f.number => e = f
    BY DrawnAtEnd DEF Numbering
  <1>8. QED
    BY <1>1, <1>4, <1>5, <1>6, <1>7 DEF Numbering

LEMMA NumberingCommitted ==
  ASSUME Typed, LocksKept, Numbering, NEW s \in Sessions, Commit(s)
  PROVE  Numbering'
  <1>1. /\ entries' = entries \cup pending[s]
        /\ drawn' = drawn
        /\ Drawn(s) = pending[s]
    BY DEF Commit, Drawn
  <1>2. \A c \in Counters :
          /\ counterLock'[c] = IF counterLock[c] = s THEN None ELSE counterLock[c]
          /\ lastNumber'[c] = IF counterLock[c] = s THEN drawn[c] ELSE lastNumber[c]
    BY DEF Commit, EndOfTransaction
  <1>3. \A c \in Counters : lastNumber[c] \in Nat /\ drawn[c] \in Nat /\ lastNumber[c] <= drawn[c]
    BY DEF Numbering, Typed, TypeOK
  <1>4. \A e \in pending[s] : /\ CounterOf(e) \in Counters
                             /\ counterLock[CounterOf(e)] = s
                             /\ lastNumber'[CounterOf(e)] = drawn[CounterOf(e)]
    BY <1>1, <1>2, DrawnType DEF LocksKept
  <1>5. \A e \in entries : CounterOf(e) \in Counters
    BY CounterOfType DEF Typed, TypeOK
  <1>6. ASSUME NEW c \in Counters
        PROVE  /\ lastNumber'[c] <= drawn'[c]
               /\ counterLock'[c] = None => drawn'[c] = lastNumber'[c]
    BY <1>1, <1>2, <1>3 DEF Numbering
  <1>7. ASSUME NEW c \in Counters, NEW n \in 1..lastNumber'[c]
        PROVE  \E e \in entries' : CounterOf(e) = c /\ e.number = n
    <2>1. CASE n \in 1..lastNumber[c]
      BY <1>1, <2>1 DEF Numbering
    <2>2. CASE n \notin 1..lastNumber[c]
      <3>1. counterLock[c] = s /\ n \in (lastNumber[c] + 1)..drawn[c]
        BY <1>2, <1>3, <1>7, <2>2
      <3>2. QED
        BY <1>1, <3>1 DEF Numbering
    <2>3. QED
      BY <2>1, <2>2
  <1>8. ASSUME NEW c \in Counters, NEW n \in (lastNumber'[c] + 1)..drawn'[c]
        PROVE  \E e \in Drawn(counterLock[c])' : CounterOf(e) = c /\ e.number = n
    <2>1. counterLock[c] # s /\ n \in (lastNumber[c] + 1)..drawn[c]
      BY <1>1, <1>2, <1>3, <1>8
    <2>2. counterLock[c] \in Sessions \ {s} /\ counterLock'[c] = counterLock[c]
      BY <1>2, <1>3, <2>1 DEF Numbering, Typed, TypeOK
    <2>3. QED
      BY <2>1, <2>2, DrawnAtEnd DEF Numbering
  <1>9. \A e \in entries' : e.number \in 1..lastNumber'[CounterOf(e)]
    <2>1. ASSUME NEW e \in entries
          PROVE  e.number \in 1..lastNumber'[CounterOf(e)]
      <3>1. e.number \in 1..lastNumber[CounterOf(e)]
        BY DEF Numbering
      <3>2. QED
        BY <1>2, <1>3, <1>5, <3>1
    <2>2. ASSUME NEW e \in pending[s]
          PROVE  e.number \in 1..lastNumber'[CounterOf(e)]
      <3>1. e.number \in (lastNumber[CounterOf(e)] + 1)..drawn[CounterOf(e)]
        BY <1>1 DEF Numbering
      <3>2. QED
        BY <1>3, <1>4, <3>1
    <2>3. QED
      BY <1>1, <2>1, <2>2
  <1>10. \A t \in Sessions : \A e \in Drawn(t)' :
           e.number \in (lastNumber'[CounterOf(e)] + 1)..drawn'[CounterOf(e)]
    <2>1. \A t \in Sessions \ {s} : \A e \in Drawn(t) :
            lastNumber'[CounterOf(e)] = lastNumber[CounterOf(e)]
      BY <1>2, DrawnType DEF LocksKept
    <2>2. QED
      BY <1>1, <2>1, DrawnAtEnd DEF Numbering
  <1>11. \A e, f \in entries' :
           CounterOf(e) = CounterOf(f) /\ e.number = f.number => e = f
    <2>1. ASSUME NEW e \in entries, NEW f \in pending[s], CounterOf(e) = CounterOf(f)
          PROVE  e.number # f.number
      <3>1. e.number \in 1..lastNumber[CounterOf(e)]
        BY DEF Numbering
      <3>2. f.number \in (lastNumber[CounterOf(e)] + 1)..drawn[CounterOf(e)]
        BY <1>1, <2>1 DEF Numbering
      <3>3. QED
        BY <1>3, <1>5, <3>1, <3>2
    <2>2. \A e, f \in pending[s] : CounterOf(e) = CounterOf(f) /\ e.number = f.number => e = f
      BY <1>1 DEF Numbering
    <2>3. QED
      BY <1>1, <2>1, <2>2 DEF Numbering
  <1>12. \A t \in Sessions : \A e, f \in Drawn(t)' :
           CounterOf(e) = CounterOf(f) /\ e.number = f.number => e = f
    BY DrawnAtEnd DEF Numbering
  <1>13. QED
    BY <1>6, <1>7, <1>8, <1>9, <1>10, <1>11, <1>12 DEF Numbering

LEMMA NumberingTaken ==
  ASSUME Typed, LocksKept, Numbering, NEW s \in Sessions, TakeNumber(s)
  PROVE  Numbering'
  <1> DEFINE c == CounterOf(call[s])
  <1>1. entries' = entries /\ lastNumber' = lastNumber
    BY DEF TakeNumber, books
  <1>2. \A k \in Counters : /\ lastNumber[k] \in Nat /\ drawn[k] \in Nat
                           /\ lastNumber[k] <= drawn[k]
    BY DEF Numbering, Typed, TypeOK
  <1>3. /\ c \in Counters /\ CounterOf(call'[s]) = c
        /\ call'[s].number = drawn[c] + 1
        /\ Drawn(s) = pending[s] /\ Drawn(s)' = pending[s] \cup {call'[s]}
        /\ \A t \in Sessions \ {s} : Drawn(t)' = Drawn(t)
        /\ counterLock[c] \in {None, s}
        /\ \A k \in Counters : /\ counterLock'[k] = IF k = c THEN s ELSE counterLock[k]
                               /\ drawn'[k] = IF k = c THEN drawn[k] + 1 ELSE drawn[k]
    BY DrawnByTakeNumber
  <1> HIDE DEF c
  <1>4. \A k \in Counters :
          /\ lastNumber'[k] <= drawn'[k]
          /\ counterLock'[k] = None => drawn'[k] = lastNumber'[k]
          /\ \A n \in 1..lastNumber'[k] : \E e \in entries' : CounterOf(e) = k /\ e.number = n
    BY <1>1, <1>2, <1>3, LedgerAssumption DEF Numbering
  <1>5. ASSUME NEW k \in Counters, NEW n \in (lastNumber'[k] + 1)..drawn'[k]
        PROVE  \E e \in Drawn(counterLock[k])' : CounterOf(e) = k /\ e.number = n
    <2>1. CASE k = c /\ n = drawn[c] + 1
      BY <1>3, <2>1
    <2>2. CASE ~(k = c /\ n = drawn[c] + 1)
      <3>1. n \in (lastNumber[k] + 1)..drawn[k]
        BY <1>1, <1>2, <1>3, <1>5, <2>2
      <3>2. counterLock[k] \in Sessions /\ counterLock'[k] = counterLock[k]
        BY <1>2, <1>3, <3>1 DEF Numbering, Typed, TypeOK
      <3>3. Drawn(counterLock[k]) \subseteq Drawn(counterLock[k])'
        BY <1>3, <3>2
      <3>4. QED
        BY <3>1, <3>2, <3>3 DEF Numbering
    <2>3. QED
      BY <2>1, <2>2
  <1>6. ASSUME NEW t \in Sessions, NEW e \in Drawn(t)'
        PROVE  e.number \in (lastNumber'[CounterOf(e)] + 1)..drawn'[CounterOf(e)]
    <2>1. CASE t = s /\ e = call'[s]
      BY <1>1, <1>2, <1>3, <2>1
    <2>2. CASE e \in Drawn(t)
      <3>1. CounterOf(e) \in Counters
        BY <2>2, DrawnType
      <3>2. e.number \in (lastNumber[CounterOf(e)] + 1)..drawn[CounterOf(e)]
        BY <2>2 DEF Numbering
      <3>3. QED
        BY <1>1, <1>2, <1>3, <3>1, <3>2
    <2>3. QED
      BY <1>3, <1>6, <2>1, <2>2
  <1>7. ASSUME NEW t \in Sessions, NEW e \in Drawn(t)', NEW f \in Drawn(t)',
               CounterOf(e) = CounterOf(f), e.number = f.number
        PROVE  e = f
    <2>1. \A g \in Drawn(s) : CounterOf(g) = c => g.number # drawn[c] + 1
      <3>1. \A g \in Drawn(s) : CounterOf(g) = c => g.number \in (lastNumber[c] + 1)..drawn[c]
        BY DEF Numbering
      <3>2. QED
        BY <1>2, <1>3, <3>1
    <2>2. CASE t = s /\ (e = call'[s] \/ f = call'[s])
      BY <1>3, <1>7, <2>1, <2>2
    <2>3. CASE e \in Drawn(t) /\ f \in Drawn(t)
      BY <1>7, <2>3 DEF Numbering
    <2>4. QED
      BY <1>3, <1>7, <2>2, <2>3
  <1>8. QED
    BY <1>1, <1>4, <1>5, <1>6, <1>7 DEF Numbering

LEMMA NumberingInserted ==
  ASSUME Typed, IdsGiven, Numbering, NEW s \in Sessions, InsertDraft(s), ~Abort(s)
  PROVE  Numbering'
  <1>1. UNCHANGED <<entries, lastNumber, drawn, counterLock>>
    BY DEF InsertDraft, books, locks
  <1>2. \A c \in Counters : lastNumber[c] \in Nat /\ drawn[c] \in Nat
    BY DEF Typed, TypeOK
  <1>3. ASSUME NEW c \in Counters, NEW n \in (lastNumber'[c] + 1)..drawn'[c]
        PROVE  \E e \in Drawn(counterLock[c])' : CounterOf(e) = c /\ e.number = n
    <2>1. n \in (lastNumber[c] + 1)..drawn[c]
      BY <1>1
    <2>2. counterLock[c] \in Sessions
      BY <1>2, <2>1 DEF Numbering, Typed, TypeOK
    <2>3. QED
      BY <1>1, <2>1, <2>2, DrawnByInsert DEF Numbering
  <1>4. \A t \in Sessions : \A e \in Drawn(t)' :
          e.number \in (lastNumber[CounterOf(e)] + 1)..drawn[CounterOf(e)]
    BY DrawnByInsert DEF Numbering
  <1>5. ASSUME NEW t \in Sessions, NEW e \in Drawn(t)', NEW f \in Drawn(t)',
               CounterOf(e) = CounterOf(f), e.number = f.number
        PROVE  e = f
    <2>1. CASE t # s
      BY <1>5, <2>1, DrawnByInsert DEF Numbering
    <2>2. CASE t = s /\ e # f
      <3>1. \/ e \in pending[s] /\ f \in pending[s]
            \/ e = call'[s] /\ f \in pending[s]
            \/ e \in pending[s] /\ f = call'[s]
        BY <1>5, <2>2, DrawnByInsert
      <3>2. \A g \in pending[s] :
              CounterOf(g) = CounterOf(call[s]) /\ g.number = call[s].number => g = call[s]
        BY DrawnByInsert DEF Numbering
      <3>3. call[s] \notin pending[s]
        BY DEF InsertDraft, IdsGiven
      <3>4. QED
        BY <1>5, <2>2, <3>1, <3>2, <3>3, DrawnByInsert DEF Numbering
    <2>3. QED
      BY <2>1, <2>2
  <1>6. QED
    BY <1>1, <1>3, <1>4, <1>5 DEF Numbering

LEMMA NumberingStep ==
  ASSUME Typed, IdsGiven, LocksKept, Numbering, [Next]_vars
  PROVE  Numbering'
  <1>1. ASSUME NEW s \in Sessions, NEW to \in {"entry", "number"}, NEW e \in Entries,
               MayCall(s), Begin(s, to, e)
        PROVE  Numbering'
    BY <1>1, DrawnKept, NumberingKept DEF Begin, books, locks
  <1>2. ASSUME NEW s \in Sessions, LockEntry(s), ~Abort(s)
        PROVE  Numbering'
    BY <1>2, DrawnKept, NumberingKept DEF LockEntry, books
  <1>3. ASSUME NEW s \in Sessions, Stamp(s), ~Abort(s)
        PROVE  Numbering'
    BY <1>3, DrawnKept, NumberingKept DEF Stamp, books, locks
  <1>4. CASE UNCHANGED <<entries, lastNumber, drawn, counterLock, requests>>
    BY <1>4, NumberingKept DEF requests, Drawn
  <1>5. ASSUME NEW s \in Sessions, NEW j \in Journals, NEW d \in Dates,
               NEW src \in Sources \cup {None}, BeginPost(s, j, d, src)
        PROVE  Numbering'
    BY <1>1, <1>5, BeginPostBegins
  <1>6. ASSUME NEW s \in Sessions, NEW o \in entries, NEW d \in Dates, BeginReverse(s, o, d)
        PROVE  Numbering'
    BY <1>1, <1>6, BeginReverseBegins
  <1>7. QED
    BY <1>2, <1>3, <1>4, <1>5, <1>6,
       NumberingAborted, NumberingCommitted, NumberingTaken, NumberingInserted
    DEF Next, Rollback, DeadlockVictim, BeginClose, EndClose, Archive, BeginRename, EndRename, vars, books, locks

-----------------------------------------------------------------------------
(* Unique keys.                                                            *)

(* What each step does to the rows a session has inserted. *)
LEMMA FlushedKept ==
  ASSUME Typed, NEW s \in Sessions,
         \/ MayCall(s) /\ \E to \in {"entry", "number"}, e \in Entries : Begin(s, to, e)
         \/ LockEntry(s) /\ ~Abort(s)
         \/ TakeNumber(s)
         \/ Stamp(s) /\ ~Abort(s)
  PROVE  \A t \in Sessions : Flushed(t)' = Flushed(t)
  <1>1. \A t \in Sessions \ {s} : Flushed(t)' = Flushed(t)
    BY ElsewhereStep DEF Elsewhere, Step, Flushed
  <1>2. CASE MayCall(s) /\ \E to \in {"entry", "number"}, e \in Entries : Begin(s, to, e)
    <2>1. Flushed(s)' = Flushed(s)
      BY <1>2 DEF MayCall, Begin, Goto, Flushed, Typed, TypeOK
    <2>2. QED
      BY <1>1, <2>1
  <1>3. CASE LockEntry(s) /\ ~Abort(s)
    <2>1. Flushed(s)' = Flushed(s)
      BY <1>3 DEF LockEntry, Goto, Flushed, Typed, TypeOK
    <2>2. QED
      BY <1>1, <2>1
  <1>4. CASE TakeNumber(s)
    <2>1. Flushed(s)' = Flushed(s)
      BY <1>4 DEF TakeNumber, Goto, Flushed, Typed, TypeOK
    <2>2. QED
      BY <1>1, <2>1
  <1>5. CASE Stamp(s) /\ ~Abort(s)
    <2>1. Flushed(s)' = Flushed(s)
      BY <1>5 DEF Stamp, Goto, Flushed, Typed, TypeOK
    <2>2. QED
      BY <1>1, <2>1
  <1>6. QED
    BY <1>2, <1>3, <1>4, <1>5

LEMMA KeysUniqueStep ==
  ASSUME Typed, KeysUnique, [Next]_vars
  PROVE  KeysUnique'
  <1> DEFINE Grounded(e) == e.reverses # None => \E o \in entries : o.id = e.reverses
  (* A step after which every row and every call is an old one, or reverses *)
  (* what an old one does.                                                  *)
  <1>1. ASSUME entries' = entries, NEW s \in Sessions, Elsewhere(s),
               \A t \in Sessions : Flushed(t)' = Flushed(t), Grounded(call'[s])
        PROVE  KeysUnique'
    <2>1. InFlight' = InFlight
      BY <1>1 DEF InFlight
    <2>2. {call'[t] : t \in Sessions} \subseteq {call[t] : t \in Sessions} \cup {call'[s]}
      BY <1>1 DEF Elsewhere
    <2>3. QED
      BY <1>1, <2>1, <2>2 DEF KeysUnique
  <1>2. ASSUME NEW s \in Sessions, Abort(s) \/ Commit(s)
        PROVE  KeysUnique'
    <2>1. /\ pc'[s] = "idle" /\ call'[s] = NoCall /\ pending'[s] = {}
          /\ entries \subseteq entries'
          /\ entries' \subseteq entries \cup pending[s]
      BY <1>2 DEF Abort, Commit, EndOfTransaction, Goto, books, Typed, TypeOK
    <2>2. Elsewhere(s)
      BY <1>2, ElsewhereStep
    <2>3. /\ Flushed(s)' = {}
          /\ \A t \in Sessions \ {s} : Flushed(t)' = Flushed(t)
      BY <2>1, <2>2 DEF Elsewhere, Flushed
    <2>4. entries' \cup InFlight' \subseteq entries \cup InFlight
      BY <2>1, <2>3 DEF InFlight, Flushed
    <2>5. {call'[t] : t \in Sessions} \subseteq {call[t] : t \in Sessions} \cup {NoCall}
      BY <2>1, <2>2 DEF Elsewhere
    <2>6. NoCall.reverses = None
      BY DEF NoCall
    <2>7. QED
      BY <2>1, <2>4, <2>5, <2>6 DEF KeysUnique
  <1>3. ASSUME NEW s \in Sessions, NEW to \in {"entry", "number"}, NEW e \in Entries,
               MayCall(s), Begin(s, to, e), Grounded(e)
        PROVE  KeysUnique'
    <2>1. entries' = entries /\ call'[s] = e
      BY <1>3 DEF Begin, books, Typed, TypeOK
    <2>2. QED
      BY <1>1, <1>3, <2>1, ElsewhereStep, FlushedKept
  <1>4. ASSUME NEW s \in Sessions, LockEntry(s), ~Abort(s)
        PROVE  KeysUnique'
    <2>1. call[s] \in Entries
      BY <1>4 DEF LockEntry, Typed, CallOK, Phase
    <2>2. entries' = entries /\ call'[s] = [call[s] EXCEPT !.code = journal[call[s].journal].code]
      BY <1>4 DEF LockEntry, books, Typed, TypeOK
    <2>3. call'[s].reverses = call[s].reverses
      BY <2>1, <2>2 DEF Entries
    <2>4. QED
      BY <1>1, <1>4, <2>2, <2>3, ElsewhereStep, FlushedKept DEF Step, KeysUnique
  <1>5. ASSUME NEW s \in Sessions, TakeNumber(s)
        PROVE  KeysUnique'
    <2>1. call[s] \in Entries
      BY <1>5 DEF TakeNumber, Typed, CallOK, Phase
    <2>2. /\ entries' = entries
          /\ call'[s] = [call[s] EXCEPT !.number = drawn[CounterOf(call[s])] + 1]
      BY <1>5 DEF TakeNumber, books, Typed, TypeOK
    <2>3. call'[s].reverses = call[s].reverses
      BY <2>1, <2>2 DEF Entries
    <2>4. QED
      BY <1>1, <1>5, <2>2, <2>3, ElsewhereStep, FlushedKept DEF Step, KeysUnique
  <1>6. ASSUME NEW s \in Sessions, InsertDraft(s), ~Abort(s)
        PROVE  KeysUnique'
    <2>1. /\ call'[s].source = call[s].source
          /\ call'[s].reverses = call[s].reverses
      BY <1>6, DrawnByInsert
    <2>2. entries' = entries /\ pending' = pending /\ pc[s] = "insert" /\ pc'[s] = "stamp"
      BY <1>6 DEF InsertDraft, Goto, books, Typed, TypeOK
    <2>3. Elsewhere(s)
      BY <1>6, ElsewhereStep DEF Step
    <2>4. /\ Flushed(s) = pending[s] /\ Flushed(s)' = pending[s] \cup {call'[s]}
          /\ \A t \in Sessions \ {s} : Flushed(t)' = Flushed(t)
      BY <2>2, <2>3 DEF Elsewhere, Flushed
    <2>5. InFlight' = InFlight \cup {call'[s]}
      BY <2>4 DEF InFlight
    <2>6. \A f \in entries \cup InFlight : ~Clash(call[s], f)
      BY <1>6, <2>4 DEF InsertDraft, InFlight
    <2>7. \A f \in entries \cup InFlight : ~Clash(call'[s], f) /\ ~Clash(f, call'[s])
      BY <2>1, <2>6 DEF Clash
    <2>8. \A e, f \in entries' \cup InFlight' : Clash(e, f) => e = f
      BY <2>2, <2>5, <2>7 DEF KeysUnique
    <2>9. {call'[t] : t \in Sessions} \subseteq {call[t] : t \in Sessions} \cup {call'[s]}
      BY <2>3 DEF Elsewhere
    <2>10. Grounded(call'[s])
      BY <2>1 DEF KeysUnique
    <2>11. QED
      BY <2>2, <2>5, <2>8, <2>9, <2>10 DEF KeysUnique
  <1>7. ASSUME NEW s \in Sessions, Stamp(s), ~Abort(s)
        PROVE  KeysUnique'
    <2>1. entries' = entries /\ call'[s] = NoCall
      BY <1>7 DEF Stamp, books, Typed, TypeOK
    <2>2. QED
      BY <1>1, <1>7, <2>1, ElsewhereStep, FlushedKept DEF Step, NoCall
  <1>8. CASE UNCHANGED <<entries, requests>>
    BY <1>8 DEF requests, KeysUnique, InFlight, Flushed
  <1>9. QED
    <2>1. ASSUME NEW s \in Sessions, NEW j \in Journals, NEW d \in Dates,
                 NEW src \in Sources \cup {None}, BeginPost(s, j, d, src)
          PROVE  KeysUnique'
      BY <2>1, <1>3, BeginPostBegins
    <2>2. ASSUME NEW s \in Sessions, NEW o \in entries, NEW d \in Dates, BeginReverse(s, o, d)
          PROVE  KeysUnique'
      BY <2>2, <1>3, BeginReverseBegins
    <2>3. QED
      BY <1>2, <1>4, <1>5, <1>6, <1>7, <1>8, <2>1, <2>2
      DEF Next, Rollback, DeadlockVictim, BeginClose, EndClose, Archive, BeginRename, EndRename, vars, books

-----------------------------------------------------------------------------
(* The lock date.                                                          *)

LEMMA PeriodHeldStep ==
  ASSUME Typed, PeriodHeld, [Next]_vars
  PROVE  PeriodHeld'
  (* A step that leaves the lock date and adds nothing to what is pending. *)
  <1>1. ASSUME UNCHANGED <<lockDate, closing>>,
               \A t \in Sessions : pending'[t] \subseteq pending[t]
        PROVE  PeriodHeld'
    BY <1>1 DEF PeriodHeld, Sharing, Open
  <1>2. ASSUME NEW s \in Sessions, Abort(s) \/ Commit(s)
        PROVE  PeriodHeld'
    BY <1>1, <1>2 DEF Abort, Commit, EndOfTransaction, books, Typed, TypeOK
  <1>3. ASSUME NEW s \in Sessions,
               \/ \E j \in Journals, d \in Dates, src \in Sources \cup {None} :
                    BeginPost(s, j, d, src)
               \/ \E e \in entries, d \in Dates : BeginReverse(s, e, d)
        PROVE  PeriodHeld'
    BY <1>1, <1>3 DEF BeginPost, BeginReverse, Begin, books, locks
  <1>4. ASSUME NEW s \in Sessions, ~Abort(s), LockEntry(s) \/ TakeNumber(s) \/ InsertDraft(s)
        PROVE  PeriodHeld'
    BY <1>1, <1>4 DEF LockEntry, TakeNumber, InsertDraft, books, locks
  <1>5. ASSUME NEW s \in Sessions, Stamp(s), ~Abort(s)
        PROVE  PeriodHeld'
    <2>1. /\ closing = None /\ UNCHANGED <<lockDate, closing>>
          /\ Open(call[s].date)
          /\ pending' = [pending EXCEPT ![s] = @ \cup {call[s]}]
      BY <1>5 DEF Stamp, books, locks
    <2>2. QED
      BY <2>1 DEF PeriodHeld, Open, Typed, TypeOK
  <1>6. ASSUME NEW d \in LockDates, BeginClose(d)
        PROVE  PeriodHeld'
    BY <1>6 DEF BeginClose, PeriodHeld, Sharing, Open, books, requests
  <1>7. ASSUME EndClose
        PROVE  PeriodHeld'
    BY <1>7 DEF EndClose, PeriodHeld, Sharing, Open, requests
  <1>8. CASE UNCHANGED <<lockDate, closing, requests>>
    BY <1>1, <1>8 DEF requests
  <1>9. QED
    BY <1>2, <1>3, <1>4, <1>5, <1>6, <1>7, <1>8
    DEF Next, Rollback, DeadlockVictim, Archive, BeginRename, EndRename, vars, books, locks

-----------------------------------------------------------------------------
(* What a session in its first call holds.                                 *)

LEMMA FirstCallStep ==
  ASSUME Typed, LocksKept, FirstCall, [Next]_vars
  PROVE  FirstCall'
  <1> DEFINE First(t) ==
               /\ pc[t] # "idle" => calls[t] >= 1
               /\ calls[t] = 1 =>
                    /\ pending[t] # {} => pc[t] = "ready"
                    /\ \A c \in Counters : counterLock[c] = t =>
                         pc[t] \in {"insert", "stamp", "ready"}
                    /\ \A i \in Ids : entryLock[i] = t =>
                         pc[t] \in {"number", "insert", "stamp", "ready"}
  (* A step of s gives nobody else a lock. *)
  <1>1. ASSUME NEW s \in Sessions, Elsewhere(s), First(s)',
               \A c \in Counters : counterLock'[c] \in {counterLock[c], s, None},
               \A i \in Ids : entryLock'[i] \in {entryLock[i], s, None}
        PROVE  FirstCall'
    <2>1. ASSUME NEW t \in Sessions \ {s}
          PROVE  First(t)'
      <3>1. First(t)
        BY DEF FirstCall
      <3>2. /\ \A c \in Counters : counterLock'[c] = t => counterLock[c] = t
            /\ \A i \in Ids : entryLock'[i] = t => entryLock[i] = t
        BY <1>1, LedgerAssumption
      <3>3. QED
        BY <1>1, <3>1, <3>2 DEF Elsewhere
    <2>2. QED
      BY <1>1, <2>1 DEF FirstCall
  <1>2. ASSUME NEW s \in Sessions, Abort(s) \/ Commit(s)
        PROVE  FirstCall'
    <2>1. pc'[s] = "idle" /\ calls'[s] = 0
      BY <1>2 DEF Abort, Commit, EndOfTransaction, Goto, Typed, TypeOK
    <2>2. /\ \A c \in Counters : counterLock'[c] \in {counterLock[c], s, None}
          /\ \A i \in Ids : entryLock'[i] \in {entryLock[i], s, None}
      BY <1>2 DEF Abort, Commit, EndOfTransaction
    <2>3. QED
      BY <1>1, <1>2, <2>1, <2>2, ElsewhereStep
  <1>3. ASSUME NEW s \in Sessions, NEW to \in {"entry", "number"}, NEW e \in Entries,
               MayCall(s), Begin(s, to, e)
        PROVE  FirstCall'
    <2>1. /\ pc'[s] = to /\ calls'[s] = calls[s] + 1 /\ calls[s] \in Nat
          /\ UNCHANGED <<pending, counterLock, entryLock>>
      BY <1>3, LedgerAssumption DEF Begin, Goto, locks, Typed, TypeOK
    <2>2. calls[s] = 0 => pc[s] = "idle"
      BY <1>3 DEF FirstCall, MayCall
    <2>3. First(s)'
      BY <2>1, <2>2 DEF LocksKept
    <2>4. QED
      BY <1>1, <1>3, <2>1, <2>3, ElsewhereStep
  <1>4. ASSUME NEW s \in Sessions, LockEntry(s), ~Abort(s)
        PROVE  FirstCall'
    <2>1. /\ pc[s] = "entry" /\ pc'[s] = "number"
          /\ UNCHANGED <<pending, counterLock, calls>>
          /\ \A i \in Ids : entryLock'[i] \in {entryLock[i], s}
      BY <1>4 DEF LockEntry, Goto, Typed, TypeOK
    <2>2. First(s)'
      BY <2>1 DEF FirstCall
    <2>3. QED
      BY <1>1, <1>4, <2>1, <2>2, ElsewhereStep DEF Step
  <1>5. ASSUME NEW s \in Sessions, TakeNumber(s)
        PROVE  FirstCall'
    <2>1. /\ pc[s] = "number" /\ pc'[s] = "insert"
          /\ UNCHANGED <<pending, entryLock, calls>>
          /\ \A c \in Counters : counterLock'[c] \in {counterLock[c], s}
      BY <1>5 DEF TakeNumber, Goto, Typed, TypeOK
    <2>2. First(s)'
      BY <2>1 DEF FirstCall
    <2>3. QED
      BY <1>1, <1>5, <2>1, <2>2, ElsewhereStep DEF Step
  <1>6. ASSUME NEW s \in Sessions, ~Abort(s), InsertDraft(s) \/ Stamp(s)
        PROVE  FirstCall'
    <2>1. /\ \/ pc[s] = "insert" /\ pc'[s] = "stamp" /\ pending' = pending
             \/ pc[s] = "stamp" /\ pc'[s] = "ready"
          /\ UNCHANGED <<counterLock, entryLock, calls>>
      BY <1>6 DEF InsertDraft, Stamp, Goto, locks, Typed, TypeOK
    <2>2. First(s)'
      BY <2>1 DEF FirstCall
    <2>3. QED
      BY <1>1, <1>6, <2>1, <2>2, ElsewhereStep DEF Step
  <1>7. CASE UNCHANGED <<counterLock, entryLock, requests>>
    BY <1>7 DEF requests, FirstCall
  <1>8. QED
    <2>1. ASSUME NEW s \in Sessions, NEW j \in Journals, NEW d \in Dates,
                 NEW src \in Sources \cup {None}, BeginPost(s, j, d, src)
          PROVE  FirstCall'
      BY <2>1, <1>3, BeginPostBegins
    <2>2. ASSUME NEW s \in Sessions, NEW o \in entries, NEW d \in Dates, BeginReverse(s, o, d)
          PROVE  FirstCall'
      BY <2>2, <1>3, BeginReverseBegins
    <2>3. QED
      BY <1>2, <1>4, <1>5, <1>6, <1>7, <2>1, <2>2
      DEF Next, Rollback, DeadlockVictim, BeginClose, EndClose, Archive, BeginRename, EndRename, vars, locks

-----------------------------------------------------------------------------
(* The inductive invariant, and what follows from it.                      *)

LEMMA InitInv == Init => Inv
  <1> SUFFICES ASSUME Init PROVE Inv
    OBVIOUS
  <1>1. /\ \A s \in Sessions : /\ pc[s] = "idle" /\ pending[s] = {} /\ calls[s] = 0
                             /\ call[s] = NoCall
                             /\ Drawn(s) = {} /\ Flushed(s) = {}
        /\ entries = {}
        /\ \A c \in Counters : lastNumber[c] = 0 /\ drawn[c] = 0 /\ counterLock[c] = None
        /\ \A i \in Ids : entryLock[i] = None
    BY DEF Init, Drawn, Flushed
  <1>2. 0 \in 0..MaxCalls
    BY LedgerAssumption
  <1>3. TypeOK
    <2>1. journal \in [Journals -> [active: BOOLEAN, code: Codes, wanted: Codes \cup {None}]]
      BY LedgerAssumption DEF Init
    <2>2. QED
      BY <1>2, <2>1 DEF Init, TypeOK
  <1>4. Typed
    BY <1>1, <1>3 DEF Typed, CallOK, Phase
  <1>5. IdsGiven
    BY <1>1 DEF IdsGiven
  <1>6. LocksKept
    BY <1>1, LedgerAssumption DEF LocksKept
  <1>7. Numbering
    BY <1>1 DEF Numbering
  <1>8. KeysUnique
    BY <1>1 DEF KeysUnique, InFlight, NoCall
  <1>9. PeriodHeld
    BY <1>1 DEF PeriodHeld, Init
  <1>10. FirstCall
    BY <1>1 DEF FirstCall
  <1>11. QED
    BY <1>4, <1>5, <1>6, <1>7, <1>8, <1>9, <1>10 DEF Inv

LEMMA NextInv == Inv /\ [Next]_vars => Inv'
  BY TypeStep, IdsGivenStep, LocksKeptStep, NumberingStep, KeysUniqueStep, PeriodHeldStep,
     FirstCallStep
  DEF Inv

(* The named parts of the invariant hold together in every reachable state. *)
THEOREM Invariance == Spec => []Inv
  BY InitInv, NextInv, PTL DEF Spec

(* Counters, locks, journals and entries keep the values their types allow, *)
(* in and between the transactions of posting.py.                           *)
THEOREM TypeCorrect == Spec => []TypeOK
  <1>1. Inv => TypeOK
    BY DEF Inv, Typed
  <1>2. QED
    BY <1>1, Invariance, PTL

(* Of the committed entries of a series, numbers are 1..n, each used once. *)
LEMMA InvGapless == Inv => Gapless
  <1> SUFFICES ASSUME Inv, NEW c \in Counters
               PROVE  LET series == {e \in entries : CounterOf(e) = c} IN
                      /\ {e.number : e \in series} = 1..lastNumber[c]
                      /\ \A e, f \in series : e.number = f.number => e = f
    BY DEF Gapless
  <1> DEFINE series == {e \in entries : CounterOf(e) = c}
  <1>1. ASSUME NEW e \in series PROVE e.number \in 1..lastNumber[c]
    BY <1>1 DEF Inv, Numbering
  <1>2. ASSUME NEW n \in 1..lastNumber[c] PROVE \E e \in series : e.number = n
    BY <1>2 DEF Inv, Numbering
  <1>3. \A e, f \in series : e.number = f.number => e = f
    BY DEF Inv, Numbering
  <1>4. QED
    BY <1>1, <1>2, <1>3

(* Gapless numbering holds for any number of sessions, journals and years. *)
THEOREM GaplessNumbers == Spec => []Gapless
  BY InvGapless, Invariance, PTL

LEMMA InvOnceOnly == Inv => OnceOnly
  BY DEF Inv, KeysUnique, OnceOnly, Clash

(* No entry is reversed twice, and no document is posted twice. *)
THEOREM ReversedAndPostedOnce == Spec => []OnceOnly
  BY InvOnceOnly, Invariance, PTL

(* Only a commit changes what is committed, and only the end of an         *)
(* operator's update moves the lock date.                                  *)
LEMMA WhatChanges ==
  ASSUME [Next]_vars
  PROVE  \/ entries' = entries /\ lockDate' = lockDate
         \/ \E s \in Sessions : Commit(s)
         \/ EndClose
  BY DEF Next, BeginPost, BeginReverse, Begin, LockEntry, TakeNumber, InsertDraft, Stamp,
         Rollback, DeadlockVictim, Abort, BeginClose, Archive, BeginRename, EndRename, vars, books

LEMMA CommitAdds ==
  ASSUME Inv, NEW s \in Sessions, Commit(s)
  PROVE  /\ entries \subseteq entries' /\ lockDate' = lockDate
         /\ \A e \in entries' \ entries : lockDate # None => e.date > lockDate
  BY DEF Commit, Inv, PeriodHeld, Open

(* A closed period takes no entry, however postings race its closing. *)
THEOREM PeriodFrozen == Spec => ClosedPeriodFrozen
  <1>1. Inv /\ [Next]_vars =>
          [/\ entries \subseteq entries'
           /\ \A e \in entries' \ entries : lockDate # None => e.date > lockDate]_vars
    BY WhatChanges, CommitAdds DEF EndClose
  <1>2. QED
    BY <1>1, Invariance, PTL DEF Spec, ClosedPeriodFrozen

(* With one call per request, whoever waits for a unique key waits for a   *)
(* session that does not wait; whoever waits for a counter waits for one   *)
(* that waits at most for a key; and so on: no cycle closes.               *)
LEMMA InvNoDeadlock == Inv => SingleCallsNeverDeadlock
  <1> SUFFICES ASSUME Inv, MaxCalls = 1, NEW S \in SUBSET Sessions, Stuck(S)
               PROVE  FALSE
    BY DEF SingleCallsNeverDeadlock
  <1>1. \A s \in S : pc[s] # "idle" => calls[s] = 1
    BY DEF Inv, FirstCall, Typed, TypeOK
  <1>2. \A s \in S : \E t \in S : t \in WaitsFor(s)
    BY DEF Stuck
  <1>3. ASSUME NEW s \in S, pc[s] = "insert"
        PROVE  FALSE
    <2>1. PICK t \in S : t \in WaitsFor(s)
      BY <1>2
    <2>2. Flushed(t) # {}
      BY <1>3, <2>1 DEF WaitsFor
    <2>3. pc[t] \in {"stamp", "ready"}
      BY <1>1, <2>2 DEF Flushed, Inv, FirstCall, LocksKept
    <2>4. WaitsFor(t) = {}
      BY <2>3 DEF WaitsFor
    <2>5. QED
      BY <1>2, <2>4
  <1>4. ASSUME NEW s \in S, pc[s] = "number"
        PROVE  FALSE
    <2>1. PICK t \in S : t \in WaitsFor(s)
      BY <1>2
    <2>2. call[s] \in Entries
      BY <1>4 DEF Inv, Typed, CallOK, Phase
    <2>3. counterLock[CounterOf(call[s])] = t /\ CounterOf(call[s]) \in Counters
      BY <1>4, <2>1, <2>2, CounterOfType DEF WaitsFor
    <2>4. pc[t] \in {"insert", "stamp", "ready"}
      BY <1>1, <2>3 DEF Inv, FirstCall, LocksKept
    <2>5. pc[t] = "insert" \/ WaitsFor(t) = {}
      BY <2>4 DEF WaitsFor
    <2>6. QED
      BY <1>2, <1>3, <2>5
  <1>5. ASSUME NEW s \in S, pc[s] = "entry"
        PROVE  FALSE
    <2>1. PICK t \in S : t \in WaitsFor(s)
      BY <1>2
    <2>2. entryLock[call[s].reverses] = t
      BY <1>5, <2>1 DEF WaitsFor
    <2>3. call[s].reverses \in Ids
      BY <1>5 DEF Inv, IdsGiven, Typed, TypeOK, CallOK, Phase, Entries
    <2>4. pc[t] \in {"number", "insert", "stamp", "ready"}
      BY <1>1, <2>2, <2>3 DEF Inv, FirstCall, LocksKept
    <2>5. pc[t] \in {"number", "insert"} \/ WaitsFor(t) = {}
      BY <2>4 DEF WaitsFor
    <2>6. QED
      BY <1>2, <1>3, <1>4, <2>5
  <1>6. \A s \in S : pc[s] \in {"entry", "number", "insert"}
    BY <1>2 DEF WaitsFor
  <1>7. QED
    BY <1>3, <1>4, <1>5, <1>6 DEF Stuck

(* Requests of one ledger call take the original's row, the counter and    *)
(* the unique keys in that order, so no set of them waits in a cycle.      *)
THEOREM FixedLockOrder == Spec => []SingleCallsNeverDeadlock
  BY InvNoDeadlock, Invariance, PTL

-----------------------------------------------------------------------------
(* Ledger implements Book.                                                 *)

LEMMA WellNumberedBook ==
  ASSUME Typed, Gapless
  PROVE  ABook!WellNumbered(entries)
  <1>1. \A e \in entries : CounterOf(e) \in Counters
    BY CounterOfType DEF Typed, TypeOK
  <1>2. \A e, f \in entries :
          e.journal = f.journal /\ FiscalYear(e.date) = FiscalYear(f.date)
            <=> CounterOf(e) = CounterOf(f)
    BY DEF CounterOf
  <1>3. ASSUME NEW e \in entries
        PROVE  /\ e.number >= 1
               /\ 1..e.number \subseteq ABook!Number(entries, e.journal, FiscalYear(e.date))
    <2> DEFINE c == CounterOf(e)
               series == {x \in entries : CounterOf(x) = c}
    <2>1. c \in Counters /\ lastNumber[c] \in Nat
      BY <1>1 DEF Typed, TypeOK
    <2>2. {x.number : x \in series} = 1..lastNumber[c]
      BY <2>1 DEF Gapless
    <2>3. e.number \in 1..lastNumber[c]
      BY <2>2
    <2>4. 1..e.number \subseteq {x.number : x \in series}
      BY <2>1, <2>2, <2>3
    <2>5. series = {x \in entries : x.journal = e.journal /\ FiscalYear(x.date) = FiscalYear(e.date)}
      BY <1>2
    <2>6. QED
      BY <2>1, <2>3, <2>4, <2>5 DEF ABook!Number
  <1>4. \A e, f \in entries : CounterOf(e) = CounterOf(f) /\ e.number = f.number => e = f
    BY <1>1 DEF Gapless
  <1>5. QED
    BY <1>2, <1>3, <1>4 DEF ABook!WellNumbered

LEMMA WellLinkedBook ==
  ASSUME OnceOnly
  PROVE  ABook!WellLinked(entries)
  BY DEF OnceOnly, ABook!WellLinked

WellKept == ABook!WellNumbered(entries) /\ ABook!WellLinked(entries)

LEMMA InvWellKept == Inv => WellKept
  BY InvGapless, InvOnceOnly, WellNumberedBook, WellLinkedBook DEF Inv, WellKept

(* A request's entries are those of its calls: each call begun is under    *)
(* way until its entry is posted.                                          *)
LEMMA CountedStep ==
  ASSUME Inv, Counted, [Next]_vars
  PROVE  Counted'
  <1> USE DEF Phase
  <1>1. \A s \in Sessions : calls[s] \in Nat /\ Cardinality(pending[s]) \in Nat
    BY FS_CardinalityType DEF Inv, Typed, TypeOK, Counted
  <1>2. DOMAIN pc = Sessions /\ DOMAIN pending = Sessions /\ DOMAIN calls = Sessions
    BY DEF Inv, Typed, TypeOK
  <1>3. ASSUME NEW s \in Sessions, Abort(s) PROVE Counted'
    BY <1>1, <1>2, <1>3, FS_EmptySet DEF Counted, Abort, EndOfTransaction, Goto
  <1>4. ASSUME NEW s \in Sessions, NEW to, NEW e, MayCall(s), Begin(s, to, e),
               to \in {"entry", "number"}
        PROVE  Counted'
    BY <1>1, <1>2, <1>4 DEF Counted, MayCall, Begin, Goto
  <1>5. ASSUME NEW s \in Sessions, LockEntry(s) PROVE Counted'
    <2>1. CASE Abort(s)
      BY <2>1, <1>3
    <2>2. CASE ~Abort(s)
      BY <2>2, <1>1, <1>2, <1>5 DEF Counted, LockEntry, Goto
    <2>3. QED
      BY <2>1, <2>2
  <1>6. ASSUME NEW s \in Sessions, TakeNumber(s) PROVE Counted'
    BY <1>1, <1>2, <1>6 DEF Counted, TakeNumber, Goto
  <1>7. ASSUME NEW s \in Sessions, InsertDraft(s) PROVE Counted'
    <2>1. CASE Abort(s)
      BY <2>1, <1>3
    <2>2. CASE ~Abort(s)
      BY <2>2, <1>1, <1>2, <1>7 DEF Counted, InsertDraft, Goto
    <2>3. QED
      BY <2>1, <2>2
  <1>8. ASSUME NEW s \in Sessions, Stamp(s) PROVE Counted'
    <2>1. CASE Abort(s)
      BY <2>1, <1>3
    <2>2. CASE ~Abort(s)
      <3>1. call[s] \notin pending[s]
        BY <2>2, <1>8 DEF Stamp, SameNumber
      <3>2. /\ IsFiniteSet(pending[s] \cup {call[s]})
            /\ Cardinality(pending[s] \cup {call[s]}) = Cardinality(pending[s]) + 1
        BY <3>1, FS_AddElement DEF Counted
      <3>3. /\ pending' = [pending EXCEPT ![s] = @ \cup {call[s]}]
            /\ pc[s] = "stamp" /\ pc' = [pc EXCEPT ![s] = "ready"] /\ calls' = calls
        BY <2>2, <1>8 DEF Stamp, Goto
      <3>4. QED
        BY <3>2, <3>3, <1>1, <1>2 DEF Counted
    <2>3. QED
      BY <2>1, <2>2
  <1>9. ASSUME NEW s \in Sessions, Commit(s) PROVE Counted'
    BY <1>1, <1>2, <1>9, FS_EmptySet DEF Counted, Commit, EndOfTransaction, Goto
  <1>10. CASE UNCHANGED requests
    BY <1>10 DEF Counted, requests
  <1>11. QED
    BY <1>3, <1>4, <1>5, <1>6, <1>7, <1>8, <1>9, <1>10
    DEF Next, BeginPost, BeginReverse, Rollback, DeadlockVictim, BeginClose, EndClose, Archive,
        BeginRename, EndRename, vars, books, locks

LEMMA AlwaysCounted == Spec => []Counted
  <1>1. Init => Counted
    BY FS_EmptySet DEF Init, Counted, Phase
  <1>2. QED
    BY <1>1, CountedStep, Invariance, PTL DEF Spec

(* A commit adds as many entries as the request made calls.                *)
LEMMA CommitAddsAll ==
  ASSUME Inv, Counted, NEW s \in Sessions, Commit(s)
  PROVE  Cardinality(entries' \ entries) = calls[s]
  <1>1. \A e \in pending[s] : e \in Drawn(s) /\ CounterOf(e) \in Counters
    BY CounterOfType DEF Drawn, Inv, Typed, TypeOK
  <1>2. \A c \in Counters : lastNumber[c] \in Nat
    BY DEF Inv, Typed, TypeOK
  <1>3. ASSUME NEW e \in pending[s] PROVE e \notin entries
    BY <1>1, <1>2, <1>3 DEF Inv, Numbering
  <1>4. entries' \ entries = pending[s]
    BY <1>3 DEF Commit
  <1>5. pc[s] = "ready" /\ IsFiniteSet(pending[s])
    BY DEF Commit, Counted
  <1>6. Cardinality(pending[s]) \in Nat
    BY <1>5, FS_CardinalityType
  <1>7. calls[s] = Cardinality(pending[s])
    BY <1>5, <1>6 DEF Counted, Phase
  <1>8. QED
    BY <1>4, <1>7

(* Whatever sessions interleave and however many calls a request makes, a  *)
(* caller sees the abstract book.                                          *)
THEOREM ImplementsBook == Spec => RefinesBook
  <1>1. Init => ABook!Init
    BY DEF Init, ABook!Init
  <1>2. Inv /\ Counted /\ WellKept' /\ [Next]_vars => [ABook!Next]_<<entries, lockDate, calls>>
    <2> SUFFICES ASSUME Inv, Counted, WellKept', [Next]_vars
                 PROVE  [ABook!Next]_<<entries, lockDate, calls>>
      OBVIOUS
    <2>1. ASSUME NEW s \in Sessions, pc[s] # "idle" PROVE calls[s] > 0
      BY <2>1 DEF Inv, Typed, TypeOK, FirstCall
    <2>2. ASSUME NEW s \in Sessions, Commit(s) PROVE ABook!AddRequest(s)
      <3>1. ABook!Ends(s)
        BY <2>2, <2>1 DEF ABook!Ends, Commit, EndOfTransaction, Goto
      <3>2. /\ entries \subseteq entries'
            /\ \A e \in entries' \ entries : lockDate # None => e.date > lockDate
        BY <2>2, CommitAdds
      <3>3. Cardinality(entries' \ entries) = calls[s]
        BY <2>2, CommitAddsAll
      <3>4. ABook!WellNumbered(entries)' /\ ABook!WellLinked(entries)'
        BY DEF WellKept
      <3>5. ABook!Cardinality(entries' \ entries) = Cardinality(entries' \ entries)
        BY DEF ABook!Cardinality, Cardinality
      <3>6. QED
        BY <3>1, <3>2, <3>3, <3>4, <3>5 DEF ABook!AddRequest
    <2>3. ASSUME NEW s \in Sessions, pc[s] # "idle", Abort(s) PROVE ABook!DropRequest(s)
      BY <2>3, <2>1 DEF ABook!DropRequest, ABook!Ends, Abort, EndOfTransaction, books
    <2>4. ASSUME NEW s \in Sessions, NEW to, NEW e, Begin(s, to, e) PROVE ABook!Ask(s)
      BY <2>4 DEF ABook!Ask, Begin, books
    <2>5. ASSUME EndClose PROVE [ABook!Next]_<<entries, lockDate, calls>>
      <3>1. lockDate' \in Dates \/ lockDate' = lockDate
        BY <2>5, LedgerAssumption DEF EndClose, Inv, Typed, TypeOK
      <3>2. QED
        BY <2>5, <3>1 DEF EndClose, requests, ABook!Next, ABook!MoveLockDate
    <2>6. \/ \E s \in Sessions : Commit(s) \/ (pc[s] # "idle" /\ Abort(s))
          \/ \E s \in Sessions : \E to, e : Begin(s, to, e)
          \/ EndClose
          \/ UNCHANGED <<entries, lockDate, calls>>
      BY DEF Next, BeginPost, BeginReverse, LockEntry, TakeNumber, InsertDraft, Stamp, Rollback,
             DeadlockVictim, WaitsFor, Stuck, BeginClose, Archive, BeginRename, EndRename, vars,
             books, requests
    <2>7. QED
      BY <2>2, <2>3, <2>4, <2>5, <2>6 DEF ABook!Next
  <1>3. Spec => []WellKept
    BY InvWellKept, Invariance, PTL
  <1>4. QED
    BY <1>1, <1>2, <1>3, Invariance, AlwaysCounted, PTL DEF Spec, RefinesBook, ABook!Spec
=============================================================================
