---------------------------- MODULE ChartProofs ----------------------------
(* What Chart guarantees for every set of sessions, accounts, types and    *)
(* defaults.                                                               *)
EXTENDS Chart, SumProofs

LEMMA LocksClash ==
  ASSUME NEW a
  PROVE  Clash(<<a, "update">>, <<a, "key_share">>) /\ Clash(<<a, "key_share">>, <<a, "update">>)
  <1>1. Strength("key_share") = 1
    BY DEF Strength
  <1>2. Strength("update") = 4
    BY DEF Strength
  <1>3. Conflicting("update", "key_share") /\ Conflicting("key_share", "update")
    BY <1>1, <1>2 DEF Conflicting
  <1>4. QED
    BY <1>3 DEF Clash

LEMMA BlankRow ==
  /\ DOMAIN Blank = {"here", "parent", "type", "group", "active"}
  /\ Blank.here = FALSE /\ Blank.parent = None
  BY DEF Blank

LEMMA NoFields == DOMAIN <<>> = {} /\ Fields(<<>>)
  BY DEF Fields

LEMMA NoneApart == None \notin Accounts
  BY ChartAssumption

(* What With gives.                                                        *)
LEMMA WithFields ==
  ASSUME NEW change, NEW row
  PROVE  /\ DOMAIN With(change, row) = DOMAIN change \cup DOMAIN row
         /\ \A f \in DOMAIN change \cup DOMAIN row :
              With(change, row)[f] = IF f \in DOMAIN change THEN change[f] ELSE row[f]
  BY DEF With

LEMMA TypesOf ==
  ASSUME Inv, NEW s \in Sessions
  PROVE  /\ IsRequest(tx[s]) /\ Knows(s)
         /\ \A t : Start(s, t) =>
              tx'[s] = t /\ tx' = [r \in Sessions |-> tx'[r]] /\ \A r \in Sessions \ {s} : tx'[r] = tx[r]
  BY DEF Inv, Typed, Start

-----------------------------------------------------------------------------
(* Steps that write no table.                                              *)

(* What a request knows survives a step that leaves it alone, and the      *)
(* account that it deletes unused.                                         *)
LEMMA OthersElsewhere ==
  ASSUME Inv, NEW r \in Sessions, tx'[r] = tx[r],
         \A a \in Accounts : Deletes(r, a) /\ Unused(a) => Unused(a)'
  PROVE  Knows(r)'
  <1>1. Knows(r)
    BY TypesOf
  <1>2. /\ \A a : Shares(r, a)' <=> Shares(r, a)
        /\ \A a : Deletes(r, a)' <=> Deletes(r, a)
    BY DEF Shares, Deletes
  <1>3. \A a : Refers(r, a)' <=> Refers(r, a)
    BY <1>2 DEF Refers
  <1>4. Keeps(r) => Keeps(r)'
    BY <1>3 DEF Keeps, Fields, Reference
  <1> PICK c : c = tx[r].account
    OBVIOUS
  <1>5. Removes(r) => Removes(r)'
    <2>1. Removes(r) => c \in Accounts /\ Deletes(r, c) /\ Unused(c)
      BY DEF Removes
    <2>2. Removes(r) => Deletes(r, c)' /\ Unused(c)'
      BY <1>2, <2>1
    <2>3. QED
      BY <2>1, <2>2 DEF Removes
  <1>6. QED
    BY <1>1, <1>3, <1>4, <1>5 DEF Knows, Reference

(* A step that changes one request and gives it no lock that is refused.   *)
LEMMA StepOfOne ==
  ASSUME Inv, NEW s \in Sessions, NEW t, IsRequest(t), Start(s, t), UNCHANGED rows,
         \A a \in Accounts : \A r \in Sessions \ {s} :
           /\ <<a, "update">> \in t.held => ~Shares(r, a)
           /\ <<a, "key_share">> \in t.held => ~Deletes(r, a),
         \A a \in Accounts : <<a, "key_share">> \in t.held => account[a].here,
         Knows(s)'
  PROVE  Inv'
  <1>1. /\ tx'[s] = t /\ tx' = [r \in Sessions |-> tx'[r]]
        /\ \A r \in Sessions \ {s} : tx'[r] = tx[r]
        /\ account' = account /\ lines' = lines /\ default' = default
    BY TypesOf DEF rows
  <1>2. Typed' /\ NothingDangles'
    BY <1>1 DEF Inv, Typed, TypedRows, NothingDangles, Reference
  <1>3. Apart'
    BY <1>1 DEF Inv, Apart, Shares, Deletes
  <1>4. SharedIsHere'
    BY <1>1 DEF Inv, SharedIsHere, Shares
  <1>5. ASSUME NEW r \in Sessions PROVE Knows(r)'
    <2>1. CASE r = s
      BY <2>1
    <2>2. CASE r # s
      <3>1. \A a \in Accounts : Unused(a) => Unused(a)'
        BY <1>1 DEF Unused, IsDefault, Childless, Children
      <3>2. QED
        BY <1>1, <2>2, <3>1, OthersElsewhere
    <2>3. QED
      BY <2>1, <2>2
  <1>6. QED
    BY <1>2, <1>3, <1>4, <1>5 DEF Inv

(* A request that goes on with its locks, or with fewer.                   *)
LEMMA GoOn ==
  ASSUME Inv, NEW s \in Sessions, NEW t, IsRequest(t), Start(s, t), UNCHANGED rows,
         \A a \in Accounts : /\ <<a, "update">> \in t.held => Deletes(s, a)
                             /\ <<a, "key_share">> \in t.held => Shares(s, a),
         Knows(s)'
  PROVE  Inv'
  <1>1. \A a \in Accounts : \A r \in Sessions \ {s} :
          /\ <<a, "update">> \in t.held => ~Shares(r, a)
          /\ <<a, "key_share">> \in t.held => ~Deletes(r, a)
    BY DEF Inv, Apart
  <1>2. \A a \in Accounts : <<a, "key_share">> \in t.held => account[a].here
    BY DEF Inv, SharedIsHere
  <1>3. QED
    BY <1>1, <1>2, StepOfOne

(* A request that begins, or ends. *)
LEMMA BeginStep ==
  ASSUME Inv, NEW s \in Sessions, NEW t, IsRequest(t), Start(s, t), UNCHANGED rows,
         t.held = {}, Knows(s)'
  PROVE  Inv'
  BY GoOn

LEMMA AbortStep ==
  ASSUME Inv, NEW s \in Sessions, Abort(s)
  PROVE  Inv'
  <1>1. Start(s, Idle) /\ UNCHANGED rows /\ tx'[s] = Idle
    BY TypesOf DEF Abort
  <1>2. Keeps(s)'
    BY <1>1, NoFields DEF Keeps, Fields, Idle
  <1>3. Knows(s)'
    BY <1>1, <1>2 DEF Knows, Idle, Reference
  <1>4. Idle.held = {} /\ IsRequest(Idle)
    BY DEF Idle, IsRequest
  <1>5. QED
    BY <1>1, <1>3, <1>4, BeginStep

-----------------------------------------------------------------------------
(* Requests begin.                                                         *)

LEMMA BeginCreateStep ==
  ASSUME Inv, NEW s \in Sessions, NEW a \in Accounts, NEW p \in Accounts \cup {None},
         NEW type, NEW group, BeginCreate(s, a, p, type, group)
  PROVE  Inv'
  <1> DEFINE change == [Blank EXCEPT !.here = TRUE, !.parent = p, !.type = type, !.group = group]
             t == [Idle EXCEPT !.pc = "insert", !.account = a, !.change = change]
  <1>1. Start(s, t) /\ UNCHANGED rows
    BY DEF BeginCreate
  <1>2. Fields(change) /\ "parent" \in DOMAIN change
    BY DEF Fields, Blank, Reference
  <1> HIDE DEF change
  <1>3. /\ t.pc = "insert" /\ t.account = a /\ t.change = change /\ t.next = <<>> /\ t.todo = <<>>
        /\ t.slot = None /\ t.posts = FALSE /\ t.held = {} /\ IsRequest(t)
    BY DEF Idle, IsRequest
  <1> HIDE DEF t
  <1>4. tx'[s] = t
    BY <1>1, TypesOf
  <1>5. Keeps(s)'
    BY <1>2, <1>3, <1>4, NoFields DEF Keeps, Fields, Reference
  <1>6. Knows(s)'
    BY <1>2, <1>3, <1>4, <1>5 DEF Knows, Reference
  <1>7. QED
    BY <1>1, <1>3, <1>6, BeginStep

(* What a request may change is one of Values. *)
LEMMA FieldsOfUpdates ==
  ASSUME NEW fields \in Updates
  PROVE  Fields(fields) /\ "here" \notin DOMAIN fields
  <1>1. PICK D \in SUBSET DOMAIN Values :
          fields \in [D -> UNION {Values[d] : d \in D}] /\ \A d \in DOMAIN fields : fields[d] \in Values[d]
    BY DEF Updates
  <1>2. DOMAIN Values = {"type", "parent", "group"} /\ Values["parent"] = Accounts \cup {None}
    BY DEF Values
  <1>3. DOMAIN fields \subseteq {"type", "parent", "group"}
    BY <1>1, <1>2
  <1>4. QED
    BY <1>1, <1>2, <1>3 DEF Fields, Reference

LEMMA BeginUpdateStep ==
  ASSUME Inv, NEW s \in Sessions, NEW a \in Accounts, NEW fields \in Updates, BeginUpdate(s, a, fields)
  PROVE  Inv'
  <1> DEFINE used == a \in lines
             t == [Idle EXCEPT !.pc = "check", !.account = a, !.used = used, !.todo = fields]
  <1>1. Start(s, t) /\ UNCHANGED rows
    BY DEF BeginUpdate
  <1> HIDE DEF used
  <1>2. /\ t.pc = "check" /\ t.account = a /\ t.change = <<>> /\ t.next = <<>> /\ t.todo = fields
        /\ t.slot = None /\ t.posts = FALSE /\ t.held = {} /\ IsRequest(t)
    BY DEF Idle, IsRequest
  <1> HIDE DEF t
  <1>3. tx'[s] = t
    BY <1>1, TypesOf
  <1>4. Keeps(s)'
    BY <1>2, <1>3, NoFields, FieldsOfUpdates DEF Keeps, Fields, Reference
  <1>5. Knows(s)'
    BY <1>2, <1>3, <1>4 DEF Knows, Reference
  <1>6. QED
    BY <1>1, <1>2, <1>5, BeginStep

LEMMA BeginArchiveStep ==
  ASSUME Inv, NEW s \in Sessions, NEW a \in Accounts, BeginArchive(s, a) \/ BeginRestore(s, a)
  PROVE  Inv'
  <1>1. PICK v \in BOOLEAN :
          /\ UNCHANGED rows
          /\ Start(s, [Idle EXCEPT !.pc = "write", !.account = a, !.next = [active |-> v]])
    BY DEF BeginArchive, BeginRestore
  <1> DEFINE next == [active |-> v]
             t == [Idle EXCEPT !.pc = "write", !.account = a, !.next = next]
  <1>2. Start(s, t) /\ UNCHANGED rows
    BY <1>1
  <1>3. Fields(next) /\ DOMAIN next = {"active"}
    BY DEF Fields
  <1> HIDE DEF next
  <1>4. /\ t.pc = "write" /\ t.account = a /\ t.change = <<>> /\ t.next = next /\ t.todo = <<>>
        /\ t.slot = None /\ t.posts = FALSE /\ t.held = {} /\ IsRequest(t)
    BY DEF Idle, IsRequest
  <1> HIDE DEF t
  <1>5. tx'[s] = t
    BY <1>2, TypesOf
  <1>6. Keeps(s)'
    BY <1>3, <1>4, <1>5, NoFields DEF Keeps, Fields, Reference
  <1>7. Knows(s)'
    BY <1>4, <1>5, <1>6 DEF Knows, Reference
  <1>8. QED
    BY <1>2, <1>4, <1>7, BeginStep

LEMMA BeginDeleteStep ==
  ASSUME Inv, NEW s \in Sessions, NEW a \in Accounts, BeginDelete(s, a)
  PROVE  Inv'
  <1> DEFINE t == [Idle EXCEPT !.pc = "delete", !.account = a]
  <1>1. Start(s, t) /\ UNCHANGED rows
    BY DEF BeginDelete
  <1>2. /\ t.pc = "delete" /\ t.account = a /\ t.change = <<>> /\ t.next = <<>> /\ t.todo = <<>>
        /\ t.slot = None /\ t.posts = FALSE /\ t.held = {} /\ IsRequest(t)
    BY DEF Idle, IsRequest
  <1> HIDE DEF t
  <1>3. tx'[s] = t
    BY <1>1, TypesOf
  <1>4. Keeps(s)'
    BY <1>2, <1>3, NoFields DEF Keeps, Fields, Reference
  <1>5. Knows(s)'
    BY <1>2, <1>3, <1>4 DEF Knows, Reference
  <1>6. QED
    BY <1>1, <1>2, <1>5, BeginStep

LEMMA BeginDefaultStep ==
  ASSUME Inv, NEW s \in Sessions, NEW k \in Slots, NEW a \in Accounts \cup {None}, BeginDefault(s, k, a)
  PROVE  Inv'
  <1> DEFINE t == [Idle EXCEPT !.pc = "set", !.account = a, !.slot = k]
  <1>1. Start(s, t) /\ UNCHANGED rows
    BY DEF BeginDefault
  <1>2. /\ t.pc = "set" /\ t.account = a /\ t.change = <<>> /\ t.next = <<>> /\ t.todo = <<>>
        /\ t.slot = k /\ k # None /\ t.posts = FALSE /\ t.held = {} /\ IsRequest(t)
    BY ChartAssumption DEF Idle, IsRequest
  <1> HIDE DEF t
  <1>3. tx'[s] = t
    BY <1>1, TypesOf
  <1>4. Keeps(s)'
    BY <1>2, <1>3, NoFields DEF Keeps, Fields, Reference
  <1>5. Knows(s)'
    BY <1>2, <1>3, <1>4 DEF Knows, Reference
  <1>6. QED
    BY <1>1, <1>2, <1>5, BeginStep

LEMMA InsertLineStep ==
  ASSUME Inv, NEW s \in Sessions, NEW a \in Accounts, InsertLine(s, a)
  PROVE  Inv'
  <1> DEFINE t == [Idle EXCEPT !.pc = "refer", !.account = a, !.refers = a, !.posts = TRUE]
  <1>1. Start(s, t) /\ UNCHANGED rows
    BY DEF InsertLine
  <1>2. /\ t.pc = "refer" /\ t.account = a /\ t.refers = a /\ t.change = <<>> /\ t.next = <<>>
        /\ t.todo = <<>> /\ t.slot = None /\ t.posts = TRUE /\ t.held = {} /\ IsRequest(t)
    BY DEF Idle, IsRequest
  <1> HIDE DEF t
  <1>3. tx'[s] = t
    BY <1>1, TypesOf
  <1>4. Keeps(s)'
    BY <1>2, <1>3, NoFields DEF Keeps, Fields, Reference
  <1>5. Refers(s, a)'
    BY <1>2, <1>3 DEF Refers
  <1>6. Knows(s)'
    BY <1>2, <1>3, <1>4, <1>5 DEF Knows, Reference
  <1>7. QED
    BY <1>1, <1>2, <1>6, BeginStep

-----------------------------------------------------------------------------
(* Requests go on.                                                         *)

LEMMA InsertStep ==
  ASSUME Inv, NEW s \in Sessions, Insert(s)
  PROVE  Inv'
  <1>1. CASE Abort(s)
    BY <1>1, AbortStep
  <1>2. CASE ~Abort(s)
    <2> PICK u : u = tx[s]
      OBVIOUS
    <2>1. IsRequest(u) /\ Knows(s) /\ u.pc = "insert"
      BY TypesOf DEF Insert
    <2>2. /\ u.account \in Accounts /\ u.slot = None /\ ~u.posts /\ Fields(u.change) /\ Keeps(s)
          /\ "parent" \in DOMAIN u.change /\ u.change.parent \in Reference
      BY <2>1 DEF Knows, Keeps, Removes, Fields
    <2> PICK p \in Reference : p = u.change.parent
      BY <2>2
    <2> DEFINE t == IF p = None THEN [u EXCEPT !.pc = "commit"]
                    ELSE [u EXCEPT !.pc = "refer", !.refers = p]
    <2>3. Start(s, t) /\ UNCHANGED rows
      BY <1>2 DEF Insert
    <2>4. /\ t.account = u.account /\ t.change = u.change /\ t.next = u.next /\ t.todo = u.todo
          /\ t.slot = None /\ t.posts = u.posts /\ t.held = u.held /\ IsRequest(t)
          /\ p = None => t.pc = "commit"
          /\ p # None => t.pc = "refer" /\ t.refers = p /\ p \in Accounts
      BY <2>1, <2>2 DEF IsRequest, Reference
    <2> HIDE DEF t
    <2>5. tx'[s] = t
      BY <2>3, TypesOf
    <2>6. Keeps(s)'
      <3>1. Fields(u.change) /\ Fields(u.next) /\ Fields(u.todo)
            /\ {"here"} \cap (DOMAIN u.next \cup DOMAIN u.todo) = {}
        BY <2>2 DEF Keeps
      <3>2. Fields(t.change)' /\ Fields(t.next)' /\ Fields(t.todo)'
        BY <2>4, <3>1 DEF Fields, Reference
      <3>3. Fields(tx[s].change)' /\ Fields(tx[s].next)' /\ Fields(tx[s].todo)'
        BY <2>5, <3>2
      <3>4. p # None => Refers(s, p)'
        BY <2>4, <2>5 DEF Refers
      <3>5. QED
        BY <2>4, <2>5, <3>1, <3>3, <3>4 DEF Keeps
    <2>7. Knows(s)'
      BY <2>1, <2>2, <2>4, <2>5, <2>6 DEF Knows, Reference
    <2>8. QED
      BY <2>3, <2>4, <2>7, GoOn DEF Shares, Deletes
  <1>3. QED
    BY <1>1, <1>2

LEMMA CheckStep ==
  ASSUME Inv, NEW s \in Sessions, Check(s)
  PROVE  Inv'
  <1>1. CASE Abort(s)
    BY <1>1, AbortStep
  <1>2. CASE ~Abort(s)
    <2> PICK u : u = tx[s]
      OBVIOUS
    <2> PICK fs : fs = Together(u.todo)
      OBVIOUS
    <2> DEFINE next == [f \in fs |-> u.todo[f]]
               todo == [f \in DOMAIN u.todo \ fs |-> u.todo[f]]
               t == [u EXCEPT !.pc = "write", !.next = next, !.todo = todo]
    <2>1. IsRequest(u) /\ Knows(s) /\ u.pc = "check"
      BY TypesOf DEF Check
    <2>2. Start(s, t) /\ UNCHANGED rows
      BY <1>2 DEF Check
    <2>3. /\ u.account \in Accounts /\ u.slot = None /\ u.posts = FALSE /\ Keeps(s)
          /\ Fields(u.change) /\ Fields(u.todo) /\ "here" \notin DOMAIN u.todo
      BY <2>1 DEF Knows, Keeps, Removes
    <2>4. fs \subseteq DOMAIN u.todo
      BY DEF Together
    <2>5. Fields(next) /\ "here" \notin DOMAIN next
      BY <2>3, <2>4 DEF Fields
    <2>6. Fields(todo) /\ "here" \notin DOMAIN todo
      BY <2>3 DEF Fields
    <2> HIDE DEF next, todo
    <2>7. /\ t.pc = "write" /\ t.account = u.account /\ t.change = u.change /\ t.next = next
          /\ t.todo = todo /\ t.slot = None /\ t.posts = u.posts /\ t.held = u.held /\ IsRequest(t)
      BY <2>1, <2>3 DEF IsRequest
    <2> HIDE DEF t
    <2>8. tx'[s] = t
      BY <2>2, TypesOf
    <2>9. Keeps(s)'
      <3>1. Fields(u.change)' /\ Fields(next)' /\ Fields(todo)'
        BY <2>3, <2>5, <2>6 DEF Fields, Reference
      <3>2. "parent" \in DOMAIN u.change /\ u.change.parent # None => Shares(s, u.change.parent)
        BY <2>1, <2>3 DEF Keeps, Refers
      <3>3. \A a : Shares(s, a) => Refers(s, a)'
        BY <2>7, <2>8 DEF Refers, Shares
      <3>4. QED
        BY <2>5, <2>6, <2>7, <2>8, <3>1, <3>2, <3>3 DEF Keeps
    <2>10. Knows(s)'
      BY <2>3, <2>7, <2>8, <2>9 DEF Knows, Reference
    <2>11. QED
      BY <2>2, <2>7, <2>10, GoOn DEF Shares, Deletes
  <1>3. QED
    BY <1>1, <1>2

LEMMA WriteStep ==
  ASSUME Inv, NEW s \in Sessions, Write(s)
  PROVE  Inv'
  <1>1. CASE Abort(s)
    BY <1>1, AbortStep
  <1>2. CASE ~Abort(s)
    <2> PICK u : u = tx[s]
      OBVIOUS
    <2> PICK row : row = With(u.next, Mine(u))
      OBVIOUS
    <2> PICK pc : pc = AfterWrite(u)
      OBVIOUS
    <2> DEFINE change == With(u.next, u.change)
               held == u.held \cup {<<u.account, "no_key_update">>}
               new == [u EXCEPT !.change = change, !.next = <<>>, !.held = held]
               refers == "parent" \in DOMAIN u.next /\ row.parent # None
               t == IF refers THEN [new EXCEPT !.pc = "refer", !.refers = row.parent]
                    ELSE [new EXCEPT !.pc = pc]
    <2>1. IsRequest(u) /\ Knows(s) /\ u.pc = "write"
      BY TypesOf DEF Write
    <2>2. Start(s, t) /\ UNCHANGED rows
      BY <1>2 DEF Write, AfterWrite
    <2>3. /\ u.account \in Accounts /\ u.slot = None /\ u.posts = FALSE /\ Keeps(s)
          /\ Fields(u.change) /\ Fields(u.next) /\ Fields(u.todo)
          /\ "here" \notin DOMAIN u.next /\ "here" \notin DOMAIN u.todo
      BY <2>1 DEF Knows, Keeps, Removes
    <2>4. "parent" \in DOMAIN u.next => row.parent = u.next.parent /\ row.parent \in Reference
      BY <2>3, WithFields DEF Fields
    <2>5. /\ DOMAIN change = DOMAIN u.next \cup DOMAIN u.change
          /\ "here" \in DOMAIN change => "here" \in DOMAIN u.change /\ change.here = u.change.here
          /\ "parent" \in DOMAIN u.next => change.parent = u.next.parent
          /\ "parent" \in DOMAIN u.change /\ "parent" \notin DOMAIN u.next =>
               change.parent = u.change.parent
      <3>1. /\ DOMAIN change = DOMAIN u.next \cup DOMAIN u.change
            /\ \A f \in DOMAIN u.next \cup DOMAIN u.change :
                 change[f] = IF f \in DOMAIN u.next THEN u.next[f] ELSE u.change[f]
        BY DEF With
      <3> HIDE DEF change
      <3>2. QED
        BY <2>3, <3>1
    <2> HIDE DEF change
    <2>6. Fields(change)
      BY <2>3, <2>5 DEF Fields
    <2>7. pc \in {"check", "commit"}
      BY DEF AfterWrite
    <2> HIDE DEF held
    <2>8. /\ new.account = u.account /\ new.change = change /\ new.next = <<>> /\ new.todo = u.todo
          /\ new.slot = None /\ new.posts = u.posts /\ new.held = held /\ IsRequest(new)
      BY <2>1, <2>3 DEF IsRequest
    <2> HIDE DEF new
    <2>9. /\ t.account = u.account /\ t.change = change /\ t.next = <<>> /\ t.todo = u.todo
          /\ t.slot = None /\ t.posts = u.posts /\ t.held = held /\ IsRequest(t)
          /\ refers => t.pc = "refer" /\ t.refers = row.parent /\ row.parent \in Accounts
          /\ ~refers => t.pc = pc
      BY <2>4, <2>8 DEF IsRequest, Reference
    <2> HIDE DEF t
    <2>10. tx'[s] = t
      BY <2>2, TypesOf
    <2>11. \A a : Shares(s, a) => <<a, "key_share">> \in held
      BY DEF Shares, held
    <2>12. Keeps(s)'
      <3>1. Fields(change)' /\ Fields(<<>>)' /\ Fields(u.todo)'
        BY <2>3, <2>6, NoFields DEF Fields, Reference
      <3>2. "parent" \in DOMAIN u.change /\ u.change.parent # None => Shares(s, u.change.parent)
        BY <2>1, <2>3 DEF Keeps, Refers
      <3>3. \A a : Shares(s, a) => Refers(s, a)'
        BY <2>9, <2>10, <2>11 DEF Refers, Shares
      <3>4. refers => Refers(s, row.parent)'
        <4>1. SUFFICES ASSUME refers PROVE tx'[s].pc = "refer" /\ tx'[s].refers = row.parent
          BY DEF Refers
        <4>2. QED
          BY <4>1, <2>9, <2>10
      <3>5. "parent" \in DOMAIN change /\ change.parent # None => Refers(s, change.parent)'
        <4>1. CASE "parent" \in DOMAIN u.next
          BY <4>1, <2>4, <2>5, <3>4
        <4>2. CASE "parent" \notin DOMAIN u.next
          BY <4>2, <2>5, <3>2, <3>3
        <4>3. QED
          BY <4>1, <4>2
      <3>6. QED
        BY <2>3, <2>9, <2>10, <3>1, <3>5, NoFields DEF Keeps
    <2>13. Knows(s)'
      <3>1. t.pc \in {"refer", "check", "commit"}
        BY <2>7, <2>9
      <3>2. t.pc = "refer" => t.refers \in Accounts
        BY <2>7, <2>9
      <3>3. QED
        BY <2>3, <2>9, <2>10, <2>12, <3>1, <3>2 DEF Knows, Reference
    <2>14. \A a \in Accounts : /\ <<a, "update">> \in held => Deletes(s, a)
                               /\ <<a, "key_share">> \in held => Shares(s, a)
      BY DEF held, Shares, Deletes
    <2>15. QED
      BY <2>2, <2>9, <2>13, <2>14, GoOn
  <1>3. QED
    BY <1>1, <1>2

LEMMA ReferStep ==
  ASSUME Inv, NEW s \in Sessions, Refer(s)
  PROVE  Inv'
  <1>1. CASE Abort(s)
    BY <1>1, AbortStep
  <1>2. CASE ~Abort(s)
    <2> PICK u : u = tx[s]
      OBVIOUS
    <2> PICK pc : pc = AfterWrite(u)
      OBVIOUS
    <2> PICK b : b = u.refers
      OBVIOUS
    <2> DEFINE held == u.held \cup {<<b, "key_share">>}
               t == [u EXCEPT !.pc = pc, !.refers = None, !.held = held]
    <2>1. IsRequest(u) /\ Knows(s) /\ u.pc = "refer"
      BY TypesOf DEF Refer
    <2>2. Start(s, t) /\ UNCHANGED rows /\ Free(s, b, "key_share") /\ account[b].here
      BY <1>2 DEF Refer
    <2>3. /\ b \in Accounts /\ Keeps(s)
          /\ pc = IF u.todo = <<>> THEN "commit" ELSE "check"
      BY <2>1 DEF Knows, Removes, AfterWrite
    <2> HIDE DEF held
    <2>4. /\ t.pc = pc /\ t.account = u.account /\ t.change = u.change /\ t.next = u.next
          /\ t.todo = u.todo /\ t.slot = u.slot /\ t.posts = u.posts /\ t.held = held /\ IsRequest(t)
      BY <2>1 DEF IsRequest
    <2> HIDE DEF t
    <2>5. tx'[s] = t
      BY <2>2, TypesOf
    <2>6. \A a : Refers(s, a) => Refers(s, a)'
      <3>1. \A a : Refers(s, a) => <<a, "key_share">> \in held
        BY DEF Refers, Shares, held
      <3>2. QED
        BY <2>4, <2>5, <3>1 DEF Refers, Shares
    <2>7. Keeps(s)'
      <3>1. /\ Fields(u.change) /\ Fields(u.next) /\ Fields(u.todo)
            /\ {"here"} \cap (DOMAIN u.next \cup DOMAIN u.todo) = {}
            /\ "parent" \in DOMAIN u.change /\ u.change.parent # None => Refers(s, u.change.parent)
        BY <2>1, <2>3 DEF Keeps
      <3>2. Fields(u.change)' /\ Fields(u.next)' /\ Fields(u.todo)'
        BY <3>1 DEF Fields, Reference
      <3>3. QED
        BY <2>4, <2>5, <2>6, <3>1, <3>2 DEF Keeps
    <2>8. Knows(s)'
      BY <2>1, <2>3, <2>4, <2>5, <2>6, <2>7 DEF Knows, Reference
    <2>9. \A a \in Accounts : \A r \in Sessions \ {s} :
            /\ <<a, "update">> \in held => ~Shares(r, a)
            /\ <<a, "key_share">> \in held => ~Deletes(r, a)
      <3>1. \A r \in Sessions \ {s} : ~Deletes(r, b)
        BY <2>2, LocksClash DEF Free, Deletes
      <3>2. \A a \in Accounts : /\ <<a, "update">> \in held => Deletes(s, a)
                                /\ <<a, "key_share">> \in held => Shares(s, a) \/ a = b
        BY DEF held, Deletes, Shares
      <3>3. QED
        BY <3>1, <3>2 DEF Inv, Apart
    <2>10. \A a \in Accounts : <<a, "key_share">> \in held => account[a].here
      <3>1. \A a \in Accounts : <<a, "key_share">> \in held => Shares(s, a) \/ a = b
        BY DEF held, Shares
      <3>2. QED
        BY <2>2, <3>1 DEF Inv, SharedIsHere
    <2>11. QED
      BY <2>2, <2>4, <2>8, <2>9, <2>10, StepOfOne
  <1>3. QED
    BY <1>1, <1>2

LEMMA DeleteStep ==
  ASSUME Inv, NEW s \in Sessions, Delete(s)
  PROVE  Inv'
  <1>1. CASE Abort(s)
    BY <1>1, AbortStep
  <1>2. CASE ~Abort(s)
    <2> PICK u : u = tx[s]
      OBVIOUS
    <2> PICK a : a = u.account
      OBVIOUS
    <2> DEFINE t == [u EXCEPT !.pc = "commit", !.change = Blank, !.held = {<<a, "update">>}]
    <2>1. IsRequest(u) /\ Knows(s) /\ u.pc = "delete"
      BY TypesOf DEF Delete
    <2>2. Start(s, t) /\ UNCHANGED rows /\ Free(s, a, "update") /\ Unused(a)
      BY <1>2 DEF Delete
    <2>3. a \in Accounts /\ u.slot = None /\ u.posts = FALSE
      BY <2>1 DEF Knows
    <2>4. /\ t.pc = "commit" /\ t.account = a /\ t.change = Blank /\ t.slot = None
          /\ t.posts = FALSE /\ t.held = {<<a, "update">>} /\ IsRequest(t)
      BY <2>1, <2>3 DEF IsRequest
    <2> HIDE DEF t
    <2>5. tx'[s] = t
      BY <2>2, TypesOf
    <2>6. Removes(s)'
      <3>1. Unused(a)'
        BY <2>2 DEF rows, Unused, IsDefault, Childless, Children
      <3>2. Deletes(s, a)'
        BY <2>4, <2>5 DEF Deletes
      <3>3. Blank' = Blank
        BY DEF Blank
      <3>4. QED
        BY <2>3, <2>4, <2>5, <3>1, <3>2, <3>3 DEF Removes
    <2>7. Knows(s)'
      BY <2>3, <2>4, <2>5, <2>6 DEF Knows, Reference
    <2>8. \A r \in Sessions \ {s} : ~Shares(r, a)
      BY <2>2, LocksClash DEF Free, Shares
    <2>9. QED
      BY <2>2, <2>4, <2>7, <2>8, StepOfOne
  <1>3. QED
    BY <1>1, <1>2

LEMMA SetDefaultStep ==
  ASSUME Inv, NEW s \in Sessions, SetDefault(s)
  PROVE  Inv'
  <1> PICK u : u = tx[s]
    OBVIOUS
  <1> PICK a : a = u.account
    OBVIOUS
  <1> DEFINE held == {<<"settings", "no_key_update">>}
             t == IF a = None THEN [u EXCEPT !.held = held, !.pc = "commit"]
                  ELSE [u EXCEPT !.held = held, !.pc = "refer", !.refers = a]
  <1>1. IsRequest(u) /\ Knows(s) /\ u.pc = "set"
    BY TypesOf DEF SetDefault
  <1>2. Start(s, t) /\ UNCHANGED rows
    <2>1. [[u EXCEPT !.held = held] EXCEPT !.pc = "commit"] = [u EXCEPT !.held = held, !.pc = "commit"]
      BY <1>1 DEF IsRequest
    <2>2. [[u EXCEPT !.held = held] EXCEPT !.pc = "refer", !.refers = a] =
            [u EXCEPT !.held = held, !.pc = "refer", !.refers = a]
      BY <1>1 DEF IsRequest
    <2>3. QED
      BY <2>1, <2>2 DEF SetDefault
  <1>3. /\ a \in Reference /\ u.slot \in Slots /\ u.slot # None /\ u.posts = FALSE
        /\ u.change = <<>> /\ u.todo = <<>> /\ Keeps(s)
    <2>1. /\ a \in Reference /\ u.slot \in Slots /\ u.slot # None
          /\ u.change = <<>> /\ u.todo = <<>>
      BY <1>1 DEF Knows, Reference
    <2>2. u.change # Blank
      BY <2>1, BlankRow, NoFields
    <2>3. Keeps(s)
      BY <1>1, <2>2 DEF Knows, Removes
    <2>4. u.posts = FALSE
      BY <1>1 DEF Knows
    <2>5. QED
      BY <2>1, <2>3, <2>4
  <1> HIDE DEF held
  <1>4. /\ t.account = a /\ t.change = <<>> /\ t.next = u.next /\ t.todo = <<>>
        /\ t.slot = u.slot /\ t.posts = FALSE /\ t.held = held /\ IsRequest(t)
        /\ a = None => t.pc = "commit"
        /\ a # None => t.pc = "refer" /\ t.refers = a
    BY <1>1, <1>3 DEF IsRequest
  <1> HIDE DEF t
  <1>5. tx'[s] = t
    BY <1>2, TypesOf
  <1>6. Keeps(s)'
    <2>1. Fields(u.next) /\ "here" \notin DOMAIN u.next
      BY <1>3 DEF Keeps
    <2>2. Fields(u.next)' /\ Fields(<<>>)'
      BY <2>1, NoFields DEF Fields, Reference
    <2>3. QED
      BY <1>4, <1>5, <2>1, <2>2, NoFields DEF Keeps
  <1>7. a # None => Refers(s, a)'
    BY <1>4, <1>5 DEF Refers
  <1>8. Knows(s)'
    BY <1>3, <1>4, <1>5, <1>6, <1>7 DEF Knows, Reference
  <1>9. \A b \in Accounts : <<b, "update">> \notin held /\ <<b, "key_share">> \notin held
    BY DEF held
  <1>10. QED
    BY <1>2, <1>4, <1>8, <1>9, GoOn

(* A step that changes none of the variables that Inv is about.            *)
LEMMA Untouched ==
  ASSUME Inv, UNCHANGED <<account, lines, default, tx>>
  PROVE  Inv'
  <1>1. UNCHANGED <<account, lines, default, tx>>
    OBVIOUS
  <1>2. Typed' /\ Apart' /\ SharedIsHere' /\ NothingDangles'
    BY <1>1 DEF Inv, Typed, TypedRows, Apart, SharedIsHere, NothingDangles, Shares, Deletes, Reference
  <1>3. ASSUME NEW r \in Sessions PROVE Knows(r)'
    <2>1. \A b \in Accounts : Unused(b) => Unused(b)'
      BY <1>1 DEF Unused, IsDefault, Childless, Children
    <2>2. QED
      BY <1>1, <2>1, OthersElsewhere
  <1>4. QED
    BY <1>2, <1>3 DEF Inv

-----------------------------------------------------------------------------
(* Requests commit.                                                        *)

LEMMA EndStep ==
  ASSUME Inv, NEW s \in Sessions, Start(s, Idle), TypedRows', NothingDangles',
         \A a \in Accounts : \A r \in Sessions \ {s} :
           /\ Shares(r, a) => account'[a].here
           /\ Deletes(r, a) /\ Unused(a) => Unused(a)'
  PROVE  Inv'
  <1>1. /\ tx'[s] = Idle /\ tx' = [r \in Sessions |-> tx'[r]]
        /\ \A r \in Sessions \ {s} : tx'[r] = tx[r]
    BY TypesOf
  <1>2. Idle.held = {} /\ IsRequest(Idle)
    BY DEF Idle, IsRequest
  <1>3. Typed'
    BY <1>1, <1>2 DEF Inv, Typed, IsRequest
  <1>4. Apart' /\ SharedIsHere'
    BY <1>1, <1>2 DEF Inv, Apart, SharedIsHere, Shares, Deletes
  <1>5. Keeps(s)'
    BY <1>1, NoFields DEF Keeps, Fields, Idle
  <1>6. Knows(s)'
    BY <1>1, <1>5 DEF Knows, Idle, Reference
  <1>7. \A r \in Sessions \ {s} : Knows(r)'
    BY <1>1, OthersElsewhere
  <1>8. QED
    BY <1>3, <1>4, <1>6, <1>7 DEF Inv

(* A deletion is committed: nobody shares the account, nothing is its own. *)
LEMMA CommitDeletion ==
  ASSUME Inv, NEW s \in Sessions, Commit(s), Removes(s)
  PROVE  Inv'
  <1> PICK u : u = tx[s]
    OBVIOUS
  <1> PICK a : a = u.account
    OBVIOUS
  <1>1. /\ a \in Accounts /\ Deletes(s, a) /\ Unused(a)
        /\ u.change = Blank /\ u.slot = None /\ ~u.posts
    BY DEF Removes
  <1> PICK row : row = Mine(u)
    OBVIOUS
  <1>2. row = With(Blank, account[a])
    BY <1>1 DEF Mine
  <1>3. {"here", "parent"} \subseteq DOMAIN row /\ row.here = FALSE /\ row.parent = None
    BY <1>2, BlankRow DEF With
  <1>4. account' = [account EXCEPT ![a] = row] /\ lines' = lines /\ default' = default /\ Start(s, Idle)
    BY <1>1, BlankRow, NoFields DEF Commit, After
  <1>5. TypedRows /\ NothingDangles
    BY DEF Inv, Typed
  <1>6. account'[a] = row /\ \A b \in Accounts \ {a} : account'[b] = account[b]
    BY <1>1, <1>4, <1>5 DEF TypedRows
  <1>7. TypedRows'
    BY <1>3, <1>4, <1>5 DEF TypedRows, Reference
  <1>8. /\ a \notin lines /\ \A k \in Slots : default[k] # a
        /\ \A b \in Accounts : account[b].here => account[b].parent # a
    BY <1>1 DEF Unused, IsDefault, Childless, Children
  <1>9. NothingDangles'
    <2>1. ASSUME NEW b \in Accounts, account'[b].here, account'[b].parent # None
          PROVE  account'[account'[b].parent].here
      <3>1. b # a
        BY <2>1, <1>3, <1>6
      <3>2. account[b].here /\ account[b].parent # None /\ account[b].parent \in Accounts
        BY <2>1, <3>1, <1>5, <1>6 DEF TypedRows, Reference
      <3>3. account[account[b].parent].here /\ account[b].parent # a
        BY <3>2, <1>5, <1>8 DEF NothingDangles
      <3>4. QED
        BY <3>1, <3>2, <3>3, <1>6
    <2>2. \A b \in lines' : account'[b].here
      BY <1>4, <1>5, <1>6, <1>8 DEF NothingDangles, TypedRows
    <2>3. \A k \in Slots : default'[k] # None => account'[default'[k]].here
      BY <1>4, <1>5, <1>6, <1>8 DEF NothingDangles, TypedRows, Reference
    <2>4. QED
      BY <2>1, <2>2, <2>3 DEF NothingDangles
  <1>10. ASSUME NEW b \in Accounts, NEW r \in Sessions \ {s}
         PROVE  /\ Shares(r, b) => account'[b].here
                /\ Deletes(r, b) /\ Unused(b) => Unused(b)'
    <2>1. Shares(r, b) => b # a /\ account[b].here
      BY <1>1 DEF Inv, Apart, SharedIsHere
    <2>2. Unused(b) => Unused(b)'
      BY <1>3, <1>4, <1>6 DEF Unused, IsDefault, Childless, Children
    <2>3. QED
      BY <2>1, <2>2, <1>6
  <1>11. QED
    BY <1>4, <1>7, <1>9, <1>10, EndStep

(* Fields are changed: a new parent is shared, so nobody deletes it.       *)
LEMMA CommitFields ==
  ASSUME Inv, NEW s \in Sessions, Commit(s), Keeps(s), tx[s].change # <<>>
  PROVE  Inv'
  <1> PICK u : u = tx[s]
    OBVIOUS
  <1> PICK a : a = u.account
    OBVIOUS
  <1> PICK row : row = Mine(u)
    OBVIOUS
  <1>1. Knows(s) /\ u.pc = "commit"
    BY TypesOf DEF Commit
  <1>2. u.slot = None /\ ~u.posts
    BY <1>1 DEF Knows
  <1>3. a \in Accounts /\ Fields(u.change)
    BY <1>1, <1>2 DEF Knows, Keeps
  <1>4. TypedRows /\ NothingDangles
    BY DEF Inv, Typed
  <1>5. /\ DOMAIN row = DOMAIN u.change \cup DOMAIN account[a]
        /\ \A f \in DOMAIN row : row[f] = IF f \in DOMAIN u.change THEN u.change[f] ELSE account[a][f]
    BY DEF Mine, With
  <1>6. {"here", "parent"} \subseteq DOMAIN row /\ row.parent \in Reference
    BY <1>3, <1>4, <1>5 DEF TypedRows, Fields
  <1>7. account[a].here => row.here
    BY <1>3, <1>4, <1>5, <1>6 DEF TypedRows, Fields
  <1>8. row.here /\ row.parent # None =>
          Shares(s, row.parent) \/ (account[a].here /\ row.parent = account[a].parent)
    <2>1. CASE "parent" \in DOMAIN u.change
      <3>1. row.parent = u.change.parent
        BY <2>1, <1>5, <1>6
      <3>2. u.change.parent # None => Shares(s, u.change.parent)
        BY <2>1, <1>1 DEF Keeps, Refers
      <3>3. QED
        BY <3>1, <3>2
    <2>2. CASE "parent" \notin DOMAIN u.change
      BY <2>2, <1>3, <1>5, <1>6 DEF Fields
    <2>3. QED
      BY <2>1, <2>2
  <1>9. account' = [account EXCEPT ![a] = row] /\ lines' = lines /\ default' = default /\ Start(s, Idle)
    BY <1>2 DEF Commit, After
  <1>10. account'[a] = row /\ \A b \in Accounts \ {a} : account'[b] = account[b]
    BY <1>3, <1>4, <1>9 DEF TypedRows
  <1>11. TypedRows'
    BY <1>4, <1>6, <1>9 DEF TypedRows, Reference
  <1>12. \A b \in Accounts : account[b].here => account'[b].here
    BY <1>7, <1>10
  <1>13. NothingDangles'
    <2>1. ASSUME NEW b \in Accounts, account'[b].here, account'[b].parent # None
          PROVE  account'[account'[b].parent].here
      <3>1. account'[b].parent \in Accounts
        BY <2>1, <1>11 DEF TypedRows, Reference
      <3>2. account[account'[b].parent].here
        <4>1. CASE b = a
          BY <2>1, <3>1, <4>1, <1>3, <1>4, <1>8, <1>10 DEF Inv, SharedIsHere, NothingDangles
        <4>2. CASE b # a
          BY <2>1, <4>2, <1>4, <1>10 DEF NothingDangles
        <4>3. QED
          BY <4>1, <4>2
      <3>3. QED
        BY <3>1, <3>2, <1>12
    <2>2. \A b \in lines' : account'[b].here
      BY <1>4, <1>9, <1>12 DEF NothingDangles, TypedRows
    <2>3. \A k \in Slots : default'[k] # None => account'[default'[k]].here
      BY <1>4, <1>9, <1>12 DEF NothingDangles, TypedRows, Reference
    <2>4. QED
      BY <2>1, <2>2, <2>3 DEF NothingDangles
  <1>14. ASSUME NEW b \in Accounts, NEW r \in Sessions \ {s}
         PROVE  /\ Shares(r, b) => account'[b].here
                /\ Deletes(r, b) /\ Unused(b) => Unused(b)'
    <2>1. Shares(r, b) => account'[b].here
      BY <1>12 DEF Inv, SharedIsHere
    <2>2. ASSUME Deletes(r, b), Unused(b) PROVE Unused(b)'
      <3>1. ~Shares(s, b)
        BY <2>2 DEF Inv, Apart
      <3>2. b \notin lines /\ ~IsDefault(b)
            /\ \A c \in Accounts : ~(account[c].here /\ account[c].parent = b)
        BY <2>2 DEF Unused, Childless, Children
      <3>3. b # None
        BY NoneApart
      <3>4. \A c \in Accounts : ~(account'[c].here /\ account'[c].parent = b)
        BY <3>1, <3>2, <3>3, <1>3, <1>8, <1>10
      <3>5. QED
        BY <3>2, <3>4, <1>9 DEF Unused, IsDefault, Childless, Children
    <2>3. QED
      BY <2>1, <2>2
  <1>15. QED
    BY <1>9, <1>11, <1>13, <1>14, EndStep

(* A line or a default refers to an account that is shared.                *)
LEMMA CommitReference ==
  ASSUME Inv, NEW s \in Sessions, Commit(s), tx[s].change = <<>>
  PROVE  Inv'
  <1> PICK u : u = tx[s]
    OBVIOUS
  <1> PICK a : a = u.account
    OBVIOUS
  <1>1. Knows(s) /\ u.pc = "commit"
    BY TypesOf DEF Commit
  <1>2. /\ a \in Reference /\ u.slot \in Slots \cup {None}
        /\ u.posts => a \in Accounts /\ Shares(s, a)
        /\ u.slot # None /\ a # None => a \in Accounts /\ Shares(s, a)
    BY <1>1 DEF Knows, Refers, Reference
  <1>3. TypedRows /\ NothingDangles
    BY DEF Inv, Typed
  <1>4. /\ account' = account
        /\ lines' = IF u.posts THEN lines \cup {a} ELSE lines
        /\ default' = IF u.slot # None THEN [default EXCEPT ![u.slot] = a] ELSE default
        /\ Start(s, Idle)
    BY DEF Commit, After
  <1>5. TypedRows'
    BY <1>2, <1>3, <1>4 DEF TypedRows, Reference
  <1>6. \A k \in Slots : default'[k] = default[k] \/ (u.slot # None /\ default'[k] = a)
    BY <1>3, <1>4 DEF TypedRows
  <1>7. \A b \in Accounts : Shares(s, b) => account[b].here
    BY DEF Inv, SharedIsHere
  <1>8. NothingDangles'
    <2>1. \A b \in lines' : account'[b].here
      BY <1>2, <1>3, <1>4, <1>7 DEF NothingDangles
    <2>2. \A k \in Slots : default'[k] # None => account'[default'[k]].here
      BY <1>2, <1>3, <1>4, <1>6, <1>7 DEF NothingDangles
    <2>3. QED
      BY <1>3, <1>4, <2>1, <2>2 DEF NothingDangles
  <1>9. ASSUME NEW b \in Accounts, NEW r \in Sessions \ {s}
        PROVE  /\ Shares(r, b) => account'[b].here
               /\ Deletes(r, b) /\ Unused(b) => Unused(b)'
    <2>1. Shares(r, b) => account'[b].here
      BY <1>4 DEF Inv, SharedIsHere
    <2>2. ASSUME Deletes(r, b), Unused(b) PROVE Unused(b)'
      <3>1. ~Shares(s, b) /\ b # None
        BY <2>2, NoneApart DEF Inv, Apart
      <3>2. b \notin lines'
        BY <2>2, <3>1, <1>2, <1>4 DEF Unused
      <3>3. \A k \in Slots : default'[k] # b
        BY <2>2, <3>1, <1>2, <1>6 DEF Unused, IsDefault
      <3>4. QED
        BY <2>2, <3>2, <3>3, <1>4 DEF Unused, IsDefault, Childless, Children
    <2>3. QED
      BY <2>1, <2>2
  <1>10. QED
    BY <1>4, <1>5, <1>8, <1>9, EndStep

LEMMA CommitStep ==
  ASSUME Inv, NEW s \in Sessions, Commit(s)
  PROVE  Inv'
  <1>1. CASE tx[s].change = <<>>
    BY <1>1, CommitReference
  <1>2. CASE Removes(s)
    BY <1>2, CommitDeletion
  <1>3. CASE tx[s].change # <<>> /\ ~Removes(s)
    <2>1. Keeps(s)
      BY <1>3, TypesOf DEF Knows
    <2>2. QED
      BY <1>3, <2>1, CommitFields
  <1>4. QED
    BY <1>1, <1>2, <1>3

-----------------------------------------------------------------------------
LEMMA InitInv ==
  ASSUME Init
  PROVE  Inv
  <1>1. \A s \in Sessions : tx[s] = Idle
    BY DEF Init
  <1>2. Idle.held = {} /\ IsRequest(Idle)
    BY DEF Idle, IsRequest
  <1>3. TypedRows
    BY BlankRow DEF Init, TypedRows, Reference
  <1>4. Typed
    BY <1>1, <1>2, <1>3 DEF Typed, Init
  <1>5. Apart /\ SharedIsHere
    BY <1>1, <1>2 DEF Apart, SharedIsHere, Shares, Deletes
  <1>6. NothingDangles
    BY BlankRow DEF Init, NothingDangles
  <1>7. ASSUME NEW s \in Sessions PROVE Knows(s)
    <2>1. tx[s] = Idle
      BY <1>1
    <2>2. Keeps(s)
      BY <2>1, NoFields DEF Keeps, Fields, Idle
    <2>3. QED
      BY <2>1, <2>2 DEF Knows, Idle, Reference
  <1>8. QED
    BY <1>4, <1>5, <1>6, <1>7 DEF Inv

LEMMA StepInv ==
  ASSUME Inv, [Next]_vars
  PROVE  Inv'
  <1>1. CASE UNCHANGED vars
    BY <1>1, Untouched DEF vars, rows
  <1>2. ASSUME NEW a \in Accounts, SettleLine(a) PROVE Inv'
    BY <1>2, Untouched DEF SettleLine
  <1>3. ASSUME NEW s \in Sessions,
               \/ \E a \in Accounts, p \in Accounts \cup {None}, t \in scope.types, g \in BOOLEAN :
                    BeginCreate(s, a, p, t, g)
               \/ \E a \in Accounts, f \in Updates : BeginUpdate(s, a, f)
               \/ \E a \in Accounts :
                    BeginArchive(s, a) \/ BeginRestore(s, a) \/ BeginDelete(s, a) \/ InsertLine(s, a)
               \/ \E k \in Slots, a \in Accounts \cup {None} : BeginDefault(s, k, a)
        PROVE  Inv'
    BY <1>3, BeginCreateStep, BeginUpdateStep, BeginArchiveStep, BeginDeleteStep, InsertLineStep,
       BeginDefaultStep
  <1>4. ASSUME NEW s \in Sessions,
               Insert(s) \/ Check(s) \/ Write(s) \/ Refer(s) \/ Delete(s) \/ SetDefault(s)
        PROVE  Inv'
    BY <1>4, InsertStep, CheckStep, WriteStep, ReferStep, DeleteStep, SetDefaultStep
  <1>5. ASSUME NEW s \in Sessions, Commit(s) PROVE Inv'
    BY <1>5, CommitStep
  <1>6. ASSUME NEW s \in Sessions, Rollback(s) PROVE Inv'
    BY <1>6, AbortStep DEF Rollback
  <1>7. QED
    BY <1>1, <1>2, <1>3, <1>4, <1>5, <1>6 DEF Next

-----------------------------------------------------------------------------
(* The inductive invariant: an account about to be deleted and the         *)
(* accounts that other requests come to refer to are kept apart by their   *)
(* row locks.                                                              *)
THEOREM Invariance == Spec => []Inv
  <1>1. Init => Inv
    BY InitInv
  <1>2. Inv /\ [Next]_vars => Inv'
    BY StepInv
  <1>3. QED
    BY <1>1, <1>2, PTL DEF Spec

(* However many requests race, no line, child or default is left pointing  *)
(* at a deleted account (accounts.py:317-331).                             *)
THEOREM NothingEverDangles == Spec => []NothingDangles
  <1>1. Inv => NothingDangles
    BY DEF Inv
  <1>2. QED
    BY <1>1, Invariance, PTL

-----------------------------------------------------------------------------
(* Walks up the hierarchy.                                                 *)

OneUp(a, at, n) ==
  IF n = 1 THEN a ELSE IF at[n - 1] = None THEN None ELSE account[at[n - 1]].parent

Climbs(a, at, m) == at = [n \in 1..m |-> OneUp(a, at, n)]

(* The recursion that defines a walk has a solution.                       *)
LEMMA WalkExists ==
  ASSUME NEW a
  PROVE  \E at : Climbs(a, at, Walk)
  <1> DEFINE bad == {m \in Nat : ~\E at : Climbs(a, at, m)}
  <1>1. SUFFICES ASSUME bad # {} PROVE FALSE
    BY ChartAssumption
  <1>2. PICK m \in bad : \A k \in bad : m <= k
    <2>1. bad \in SUBSET Nat
      OBVIOUS
    <2> HIDE DEF bad
    <2>2. QED
      BY <1>1, <2>1, NatMin
  <1>3. m # 0
    <2> DEFINE none == [n \in {} |-> 0]
    <2>1. none = [n \in 1..0 |-> OneUp(a, none, n)]
      <3>1. 1..0 = {}
        OBVIOUS
      <3>2. QED
        BY <3>1
    <2>2. QED
      BY <2>1 DEF Climbs
  <1>4. m - 1 \in Nat /\ m - 1 \notin bad
    BY <1>2, <1>3
  <1>5. PICK f : Climbs(a, f, m - 1)
    BY <1>4
  <1> DEFINE h == [n \in 1..m |-> OneUp(a, f, n)]
  <1>6. \A n \in 1..(m - 1) : h[n] = f[n]
    <2>1. \A n \in 1..(m - 1) : n \in 1..m /\ f[n] = OneUp(a, f, n)
      BY <1>4, <1>5 DEF Climbs
    <2>2. QED
      BY <2>1
  <1>7. ASSUME NEW n \in 1..m PROVE OneUp(a, f, n) = OneUp(a, h, n)
    <2>1. n # 1 => n - 1 \in 1..(m - 1)
      BY <1>4
    <2>2. n # 1 => h[n - 1] = f[n - 1]
      BY <2>1, <1>6
    <2> HIDE DEF h
    <2>3. QED
      BY <2>2 DEF OneUp
  <1>8. Climbs(a, h, m)
    <2>1. h = [n \in 1..m |-> OneUp(a, h, n)]
      BY <1>7
    <2>2. QED
      BY <2>1 DEF Climbs
  <1>9. QED
    BY <1>2, <1>8

LEMMA AboveClimbs ==
  ASSUME NEW a, NEW n \in 1..Walk
  PROVE  Above(a)[n] = OneUp(a, Above(a), n)
  <1>1. Above(a) = CHOOSE at : Climbs(a, at, Walk)
    BY DEF Above, Climbs, OneUp
  <1>2. Climbs(a, Above(a), Walk)
    BY <1>1, WalkExists
  <1>3. QED
    BY <1>2 DEF Climbs

(* A walk that starts in a set which everything but a keeps its parent in, *)
(* and that does not meet a, stays in the set and has no end.              *)
LEMMA WalkStays ==
  ASSUME NEW S \in SUBSET Accounts, NEW a, NEW p \in S, a \notin Ancestors(p), a # None,
         \A b \in S \ {a} : account[b].parent \in S
  PROVE  Depth(p) = Walk
  <1> DEFINE out == {n \in 1..Walk : Above(p)[n] \notin S}
  <1>1. None \notin S
    BY ChartAssumption
  <1>2. out = {}
    <2>1. SUFFICES ASSUME out # {} PROVE FALSE
      OBVIOUS
    <2>2. out \in SUBSET Nat
      BY ChartAssumption
    <2>3. PICK n \in out : \A k \in out : n <= k
      <3> HIDE DEF out
      <3>1. QED
        BY <2>1, <2>2, NatMin
    <2>4. n \in 1..Walk /\ Above(p)[n] = OneUp(p, Above(p), n) /\ Above(p)[n] \notin S
      BY AboveClimbs
    <2>5. n # 1
      BY <2>4 DEF OneUp
    <2>6. n - 1 \in 1..Walk /\ ~(n <= n - 1)
      BY <2>4, <2>5, ChartAssumption
    <2>7. Above(p)[n - 1] \in S
      BY <2>3, <2>6
    <2>8. Above(p)[n - 1] # a /\ Above(p)[n - 1] # None
      BY <1>1, <2>6, <2>7 DEF Ancestors
    <2>9. Above(p)[n] = account[Above(p)[n - 1]].parent
      BY <2>4, <2>5, <2>8 DEF OneUp
    <2>10. QED
      BY <2>4, <2>7, <2>8, <2>9
  <1>3. \A n \in 1..Walk : Above(p)[n] # None
    BY <1>1, <1>2
  <1>4. {n \in 1..Walk : Above(p)[n] # None} = 1..Walk
    BY <1>3
  <1>5. Cardinality(1..Walk) = Walk
    BY FS_Interval, ChartAssumption
  <1>6. QED
    BY <1>4, <1>5 DEF Depth

-----------------------------------------------------------------------------
(* A chart in which one row is another.                                    *)

(* Fields changed twice are changed at once.                               *)
LEMMA WithTwice ==
  ASSUME NEW next, NEW change, NEW row
  PROVE  With(With(next, change), row) = With(next, With(change, row))
  <1> DEFINE l == With(With(next, change), row)
             r == With(next, With(change, row))
             D == DOMAIN next \cup DOMAIN change \cup DOMAIN row
  <1>1. l = [f \in D |-> IF f \in DOMAIN next THEN next[f]
                         ELSE IF f \in DOMAIN change THEN change[f] ELSE row[f]]
    BY DEF With
  <1>2. r = [f \in D |-> IF f \in DOMAIN next THEN next[f]
                         ELSE IF f \in DOMAIN change THEN change[f] ELSE row[f]]
    BY DEF With
  <1>3. QED
    BY <1>1, <1>2

(* An account that is there moves to where the guard lets it.              *)
LEMMA MovedIsRooted ==
  ASSUME TypedRows, Rooted(account), NEW a \in Accounts, account[a].here,
         NEW row, HierarchyGuard(a, row), NEW chart, chart = [account EXCEPT ![a] = row]
  PROVE  Rooted(chart)
  <1>1. chart[a] = row /\ \A b \in Accounts \ {a} : chart[b] = account[b]
    BY DEF TypedRows
  <1>2. SUFFICES ASSUME NEW S \in SUBSET {b \in Accounts : chart[b].here}, S # {},
                        \A b \in S : chart[b].parent \in S
                 PROVE  FALSE
    BY DEF Rooted
  <1>3. S \in SUBSET {b \in Accounts : account[b].here}
    BY <1>1
  <1>4. a \in S
    <2>1. PICK b \in S : account[b].parent \notin S
      BY <1>2, <1>3 DEF Rooted
    <2>2. QED
      BY <2>1, <1>1, <1>2
  <1>5. row.parent \in S /\ row.parent # None /\ a # None
    BY <1>1, <1>2, <1>3, <1>4, NoneApart
  <1>6. a \notin Ancestors(row.parent) /\ Depth(row.parent) < Levels
    BY <1>5 DEF HierarchyGuard
  <1>7. \A b \in S \ {a} : account[b].parent \in S
    BY <1>1, <1>2, <1>3
  <1>8. Depth(row.parent) = Walk
    BY <1>3, <1>5, <1>6, <1>7, WalkStays
  <1>9. QED
    BY <1>6, <1>8, ChartAssumption

(* So does an account that is not there yet, and has no children. *)
LEMMA MadeIsRooted ==
  ASSUME TypedRows, NothingDangles, Rooted(account), NEW a \in Accounts, ~account[a].here,
         NEW row, HierarchyGuard(a, row), NEW chart, chart = [account EXCEPT ![a] = row]
  PROVE  Rooted(chart)
  <1>1. chart[a] = row /\ \A b \in Accounts \ {a} : chart[b] = account[b]
    BY DEF TypedRows
  <1>2. SUFFICES ASSUME NEW S \in SUBSET {b \in Accounts : chart[b].here}, S # {},
                        \A b \in S : chart[b].parent \in S
                 PROVE  FALSE
    BY DEF Rooted
  <1> DEFINE T == S \ {a}
  <1>3. T \in SUBSET {b \in Accounts : account[b].here}
    BY <1>1
  <1>4. T # {}
    <2>1. CASE a \in S
      <3>1. row.parent \in S /\ row.parent # None
        BY <2>1, <1>1, <1>2, NoneApart
      <3>2. row.parent # a
        BY <3>1 DEF HierarchyGuard
      <3>3. QED
        BY <3>1, <3>2
    <2>2. CASE a \notin S
      BY <2>2, <1>2
    <2>3. QED
      BY <2>1, <2>2
  <1>5. PICK b \in T : account[b].parent \notin T
    BY <1>3, <1>4 DEF Rooted
  <1>6. account[b].here /\ account[b].parent \in S /\ account[b].parent # None
    BY <1>1, <1>2, <1>3, <1>5, NoneApart
  <1>7. account[account[b].parent].here
    BY <1>3, <1>5, <1>6 DEF NothingDangles
  <1>8. QED
    BY <1>5, <1>6, <1>7

(* So does a chart without an account. *)
LEMMA RemovedIsRooted ==
  ASSUME TypedRows, Rooted(account), NEW a \in Accounts,
         NEW row, ~row.here, NEW chart, chart = [account EXCEPT ![a] = row]
  PROVE  Rooted(chart)
  <1>1. chart[a] = row /\ \A b \in Accounts \ {a} : chart[b] = account[b]
    BY DEF TypedRows
  <1>2. SUFFICES ASSUME NEW S \in SUBSET {b \in Accounts : chart[b].here}, S # {}
                 PROVE  \E b \in S : chart[b].parent \notin S
    BY DEF Rooted
  <1>3. a \notin S /\ S \in SUBSET {b \in Accounts : account[b].here}
    BY <1>1
  <1>4. PICK b \in S : account[b].parent \notin S
    BY <1>2, <1>3 DEF Rooted
  <1>5. QED
    BY <1>1, <1>3, <1>4

(* What refers to other accounts is suited still, if what refers to the    *)
(* account that changed is.                                                *)
LEMMA ChangedSuits ==
  ASSUME TypedRows, NothingDangles, Suitable(account), NEW a \in Accounts,
         NEW row, NEW chart, chart = [account EXCEPT ![a] = row],
         row.here /\ row.parent # None =>
           row.parent \in Accounts \ {a} /\ account[row.parent].group,
         row.group \/ Childless(a),
         row.group => a \notin lines,
         row.active \/ ~IsDefault(a)
  PROVE  Suitable(chart)
  <1>1. chart[a] = row /\ \A b \in Accounts \ {a} : chart[b] = account[b]
    BY DEF TypedRows
  <1>2. ASSUME NEW b \in Accounts, chart[b].here, chart[b].parent # None
        PROVE  chart[chart[b].parent].group
    <2>1. CASE b = a
      BY <2>1, <1>1, <1>2
    <2>2. CASE b # a
      <3>1. account[b].here /\ account[b].parent # None /\ account[b].parent \in Accounts
        BY <2>2, <1>1, <1>2 DEF TypedRows, Reference
      <3>2. account[account[b].parent].group
        BY <3>1 DEF Suitable
      <3>3. account[b].parent = a => row.group
        BY <3>1 DEF Childless, Children
      <3>4. QED
        BY <2>2, <3>1, <3>2, <3>3, <1>1
    <2>3. QED
      BY <2>1, <2>2
  <1>3. \A b \in lines : ~chart[b].group
    BY <1>1 DEF Suitable, TypedRows
  <1>4. \A k \in Slots : default[k] # None => chart[default[k]].active
    BY <1>1 DEF Suitable, TypedRows, IsDefault, Reference
  <1>5. QED
    BY <1>2, <1>3, <1>4 DEF Suitable

-----------------------------------------------------------------------------
(* Requests that are alone begin, ...                                      *)

LEMMA RowFieldsAre == RowFields = {"here", "parent", "type", "group", "active"}
  BY BlankRow DEF RowFields

LEMMA FieldsOfValues == DOMAIN Values = {"type", "parent", "group"}
  BY DEF Values

(* Who may begin alone finds nobody else. *)
LEMMA BeginsAlone ==
  ASSUME AloneInv, Alone, NEW s \in Sessions, NEW kind, Begins(s, kind)
  PROVE  \A r \in Sessions : tx[r].pc = "idle"
  <1> DEFINE busy == {r \in Sessions : tx[r].pc # "idle"}
  <1>1. SUFFICES ASSUME NEW r \in Sessions, tx[r].pc # "idle" PROVE FALSE
    OBVIOUS
  <1>2. busy = {r}
    BY <1>1 DEF AloneInv, OneRequest
  <1>3. Cardinality({r}) = 1
    BY FS_Singleton
  <1>4. Cardinality(busy) < scope.requests
    BY DEF Begins
  <1> HIDE DEF busy
  <1>5. QED
    BY <1>2, <1>3, <1>4 DEF Alone

(* A step of one request that writes no table.                             *)
LEMMA AloneStep ==
  ASSUME Inv, AloneInv, Alone, NEW s \in Sessions, NEW t, Start(s, t), UNCHANGED rows,
         tx[s].pc # "idle" \/ \A r \in Sessions : tx[r].pc = "idle",
         t.pc # "idle" => Fits(t) /\ Ready(t)
  PROVE  AloneInv'
  <1>1. /\ tx'[s] = t /\ \A r \in Sessions \ {s} : tx'[r] = tx[r]
        /\ account' = account /\ lines' = lines /\ default' = default
    BY TypesOf DEF rows
  <1>2. \A r \in Sessions \ {s} : tx'[r].pc = "idle"
    BY <1>1 DEF AloneInv, OneRequest
  <1>3. OneRequest'
    BY <1>2 DEF OneRequest
  <1>4. FullRows' /\ Rooted(account)' /\ Suitable(account)'
    BY <1>1 DEF AloneInv, FullRows, RowFields, Blank, Rooted, Suitable
  <1>5. Fits(t) => Fits(t)'
    <2>1. Makes(t) => Makes(t)'
      BY <1>1 DEF Makes, RowFields, Blank
    <2>2. After(t)' = After(t)
      BY <1>1 DEF After, Mine, With
    <2> PICK chart : chart = After(t)
      OBVIOUS
    <2>3. Rooted(chart) /\ Suitable(chart) => Rooted(chart)' /\ Suitable(chart)'
      BY <1>1 DEF Rooted, Suitable
    <2>4. Rooted(After(t)) /\ Suitable(After(t)) => Rooted(After(t))' /\ Suitable(After(t))'
      BY <2>2, <2>3 DEF Rooted, Suitable
    <2>5. QED
      BY <1>1, <2>1, <2>4 DEF Fits, RowFields, Blank
  <1>6. Ready(t) => Ready(t)'
    BY <1>1 DEF Ready, Values, RowFields, Blank, IsDefault, Childless, Children
  <1>7. ASSUME NEW r \in Sessions, tx'[r].pc # "idle" PROVE Fits(tx[r])' /\ Ready(tx[r])'
    <2>1. r = s /\ tx'[r] = t
      BY <1>1, <1>2, <1>7
    <2>2. Fits(t)' /\ Ready(t)'
      BY <2>1, <1>5, <1>6, <1>7
    <2>3. Fits(t)' => Fits(tx[r])'
      BY <2>1 DEF Fits, Makes, After, Mine
    <2>4. Ready(t)' => Ready(tx[r])'
      BY <2>1 DEF Ready
    <2>5. QED
      BY <2>2, <2>3, <2>4
  <1>8. QED
    BY <1>3, <1>4, <1>7 DEF AloneInv

LEMMA AloneAbort ==
  ASSUME Inv, AloneInv, Alone, NEW s \in Sessions, Abort(s), tx[s].pc # "idle"
  PROVE  AloneInv'
  <1>1. Idle.pc = "idle"
    BY DEF Idle
  <1>2. QED
    BY <1>1, AloneStep DEF Abort

(* A request that has changed nothing yet leaves the chart as it is.       *)
LEMMA NothingChanged ==
  ASSUME AloneInv, Alone, NEW t, t.change = <<>>, t.pc # "insert",
         t.posts => account[t.account].active /\ ~account[t.account].group,
         t.slot # None /\ t.account # None => account[t.account].active
  PROVE  Fits(t)
  BY NoFields DEF AloneInv, Fits, After

LEMMA AloneBegins ==
  ASSUME Inv, AloneInv, Alone, NEW s \in Sessions,
         \/ \E a \in Accounts, f \in Updates : BeginUpdate(s, a, f)
         \/ \E a \in Accounts :
              BeginArchive(s, a) \/ BeginRestore(s, a) \/ BeginDelete(s, a) \/ InsertLine(s, a)
         \/ \E k \in Slots, a \in Accounts \cup {None} : BeginDefault(s, k, a)
  PROVE  AloneInv'
  <1>1. \A r \in Sessions : tx[r].pc = "idle"
    BY BeginsAlone DEF BeginUpdate, BeginArchive, BeginRestore, BeginDelete, InsertLine, BeginDefault
  <1>2. ASSUME NEW a \in Accounts, NEW f \in Updates, BeginUpdate(s, a, f) PROVE AloneInv'
    <2> PICK used : used = (a \in lines)
      OBVIOUS
    <2> DEFINE t == [Idle EXCEPT !.pc = "check", !.account = a, !.used = used, !.todo = f]
    <2>1. Start(s, t) /\ UNCHANGED rows
      BY <1>2 DEF BeginUpdate
    <2>2. t.pc = "check" /\ t.change = <<>> /\ t.posts = FALSE /\ t.slot = None /\ t.todo = f
      BY DEF Idle
    <2> HIDE DEF t
    <2>3. DOMAIN f \subseteq DOMAIN Values
      BY DEF Updates
    <2>4. Fits(t) /\ Ready(t)
      BY <2>2, <2>3, NothingChanged DEF Ready
    <2>5. QED
      BY <1>1, <2>1, <2>4, AloneStep
  <1>3. ASSUME NEW a \in Accounts, BeginArchive(s, a) \/ BeginRestore(s, a) PROVE AloneInv'
    <2>1. PICK v \in BOOLEAN :
            /\ UNCHANGED rows /\ (v \/ ~IsDefault(a))
            /\ Start(s, [Idle EXCEPT !.pc = "write", !.account = a, !.next = [active |-> v]])
      BY <1>3 DEF BeginArchive, BeginRestore
    <2> DEFINE next == [active |-> v]
               t == [Idle EXCEPT !.pc = "write", !.account = a, !.next = next]
    <2>2. DOMAIN next = {"active"} /\ next.active = v
      OBVIOUS
    <2>4. Start(s, t) /\ UNCHANGED rows
      BY <2>1
    <2> HIDE DEF next
    <2>3. /\ t.pc = "write" /\ t.change = <<>> /\ t.posts = FALSE /\ t.slot = None /\ t.todo = <<>>
          /\ t.next = next /\ t.account = a
      BY DEF Idle
    <2> HIDE DEF t
    <2>5. Fits(t)
      BY <2>3, NothingChanged
    <2>6. Ready(t)
      BY <2>1, <2>2, <2>3, NoFields, RowFieldsAre DEF Ready
    <2>7. QED
      BY <1>1, <2>4, <2>5, <2>6, AloneStep
  <1>4. ASSUME NEW a \in Accounts, BeginDelete(s, a) PROVE AloneInv'
    <2> DEFINE t == [Idle EXCEPT !.pc = "delete", !.account = a]
    <2>1. Start(s, t) /\ UNCHANGED rows
      BY <1>4 DEF BeginDelete
    <2>2. t.pc = "delete" /\ t.change = <<>> /\ t.posts = FALSE /\ t.slot = None /\ t.todo = <<>>
      BY DEF Idle
    <2> HIDE DEF t
    <2>3. Fits(t) /\ Ready(t)
      BY <2>2, NothingChanged, NoFields DEF Ready
    <2>4. QED
      BY <1>1, <2>1, <2>3, AloneStep
  <1>5. ASSUME NEW a \in Accounts, InsertLine(s, a) PROVE AloneInv'
    <2> DEFINE t == [Idle EXCEPT !.pc = "refer", !.account = a, !.refers = a, !.posts = TRUE]
    <2>1. Start(s, t) /\ UNCHANGED rows /\ Takes(a)
      BY <1>5 DEF InsertLine
    <2>2. /\ t.pc = "refer" /\ t.change = <<>> /\ t.posts = TRUE /\ t.slot = None /\ t.todo = <<>>
          /\ t.account = a
      BY DEF Idle
    <2> HIDE DEF t
    <2>3. Fits(t) /\ Ready(t)
      BY <2>1, <2>2, NothingChanged, NoFields DEF Ready, Takes
    <2>4. QED
      BY <1>1, <2>1, <2>3, AloneStep
  <1>6. ASSUME NEW k \in Slots, NEW a \in Accounts \cup {None}, BeginDefault(s, k, a) PROVE AloneInv'
    <2> DEFINE t == [Idle EXCEPT !.pc = "set", !.account = a, !.slot = k]
    <2>1. Start(s, t) /\ UNCHANGED rows /\ (a # None => account[a].active)
      BY <1>6 DEF BeginDefault
    <2>2. /\ t.pc = "set" /\ t.change = <<>> /\ t.posts = FALSE /\ t.todo = <<>> /\ t.account = a
          /\ t.slot = k
      BY DEF Idle
    <2> HIDE DEF t
    <2>3. Fits(t) /\ Ready(t)
      BY <2>1, <2>2, NothingChanged, NoFields DEF Ready
    <2>4. QED
      BY <1>1, <2>1, <2>3, AloneStep
  <1>7. QED
    BY <1>2, <1>3, <1>4, <1>5, <1>6

LEMMA AloneCreates ==
  ASSUME Inv, AloneInv, Alone, NEW s \in Sessions, NEW a \in Accounts, NEW p \in Accounts \cup {None},
         NEW type, NEW group, BeginCreate(s, a, p, type, group)
  PROVE  AloneInv'
  <1> DEFINE change == [Blank EXCEPT !.here = TRUE, !.parent = p, !.type = type, !.group = group]
             t == [Idle EXCEPT !.pc = "insert", !.account = a, !.change = change]
  <1>1. Start(s, t) /\ UNCHANGED rows /\ ~account[a].here /\ \A r \in Sessions : tx[r].pc = "idle"
    BY BeginsAlone DEF BeginCreate
  <1>2. DOMAIN change = RowFields /\ change.here = TRUE /\ change.active = TRUE
    BY DEF Blank, RowFields
  <1> HIDE DEF change
  <1>3. /\ t.pc = "insert" /\ t.account = a /\ t.change = change /\ t.todo = <<>>
        /\ t.slot = None /\ t.posts = FALSE
    BY DEF Idle
  <1> HIDE DEF t
  <1>4. Fits(t)
    BY <1>1, <1>2, <1>3 DEF Fits, Makes
  <1>5. Ready(t)
    BY <1>3, NoFields DEF Ready
  <1>6. QED
    BY <1>1, <1>4, <1>5, AloneStep

-----------------------------------------------------------------------------
(* ... go on, ...                                                          *)

(* What is known of a request that goes on. *)
LEMMA AloneKnows ==
  ASSUME Inv, AloneInv, Alone, NEW s \in Sessions, tx[s].pc # "idle"
  PROVE  /\ Fits(tx[s]) /\ Ready(tx[s]) /\ FullRows /\ Rooted(account) /\ Suitable(account)
         /\ TypedRows /\ NothingDangles
  BY DEF AloneInv, Inv, Typed

LEMMA NoneWith ==
  ASSUME NEW row, row = [f \in DOMAIN row |-> row[f]]
  PROVE  With(<<>>, row) = row
  BY NoFields DEF With

LEMMA FullRow ==
  ASSUME FullRows, NEW a \in Accounts
  PROVE  DOMAIN account[a] = RowFields /\ With(<<>>, account[a]) = account[a]
  <1>1. account[a] = [f \in RowFields |-> account[a][f]]
    BY DEF FullRows
  <1> PICK row : row = account[a]
    OBVIOUS
  <1>2. row = [f \in RowFields |-> row[f]]
    BY <1>1
  <1>3. DOMAIN row = RowFields
    BY <1>2
  <1>4. QED
    BY <1>2, <1>3, NoneWith

LEMMA AloneInserts ==
  ASSUME Inv, AloneInv, Alone, NEW s \in Sessions, Insert(s)
  PROVE  AloneInv'
  <1> PICK u : u = tx[s]
    OBVIOUS
  <1>1. IsRequest(u) /\ Knows(s) /\ u.pc = "insert"
    BY TypesOf DEF Insert
  <1>2. CASE Abort(s)
    BY <1>1, <1>2, AloneAbort
  <1>3. CASE ~Abort(s)
    <2>1. Fits(u) /\ Ready(u) /\ FullRows /\ Rooted(account) /\ Suitable(account)
          /\ TypedRows /\ NothingDangles
      BY <1>1, AloneKnows
    <2> PICK a : a = u.account
      OBVIOUS
    <2> PICK p : p = u.change.parent
      OBVIOUS
    <2> PICK row : row = Mine(u)
      OBVIOUS
    <2> DEFINE t == IF p = None THEN [u EXCEPT !.pc = "commit"]
                    ELSE [u EXCEPT !.pc = "refer", !.refers = p]
    <2>2. Start(s, t) /\ UNCHANGED rows /\ HierarchyGuard(a, u.change)
      BY <1>3 DEF Insert
    <2>3. /\ t.account = a /\ t.change = u.change /\ t.todo = u.todo /\ t.slot = u.slot
          /\ t.posts = u.posts /\ t.pc \in {"commit", "refer"}
      BY <1>1 DEF IsRequest
    <2> HIDE DEF t
    <2>4. a \in Accounts /\ u.slot = None /\ ~u.posts /\ p \in Reference
      BY <1>1 DEF Knows, Keeps, Removes, Fields
    <2>5. ~account[a].here /\ DOMAIN u.change = RowFields /\ u.change.here /\ u.change.active
      BY <1>1, <2>1 DEF Fits, Makes
    <2>6. row = With(u.change, account[a]) /\ DOMAIN account[a] = RowFields
      BY <2>1, <2>4, FullRow DEF Mine
    <2>7. /\ row.here = u.change.here /\ row.parent = u.change.parent /\ row.type = u.change.type
          /\ row.group = u.change.group /\ row.active = u.change.active
      BY <2>5, <2>6, RowFieldsAre DEF With
    <2>8. HierarchyGuard(a, row)
      BY <2>2, <2>7 DEF HierarchyGuard
    <2>9. t.change # <<>> /\ After(t) = [account EXCEPT ![a] = row]
      BY <2>3, <2>5, RowFieldsAre, NoFields DEF After, Mine
    <2> PICK chart : chart = After(t)
      OBVIOUS
    <2>10. Rooted(chart)
      BY <2>1, <2>4, <2>5, <2>8, <2>9, MadeIsRooted
    <2>11. Suitable(chart)
      <3>1. row.parent # None => row.parent \in Accounts \ {a} /\ account[row.parent].group
        BY <2>4, <2>7, <2>8 DEF HierarchyGuard, Reference
      <3>2. Childless(a)
        <4>1. ASSUME NEW c \in Accounts, account[c].here, account[c].parent = a PROVE FALSE
          BY <4>1, <2>1, <2>4, <2>5, NoneApart DEF NothingDangles
        <4>2. QED
          BY <4>1 DEF Childless, Children
      <3>3. a \notin lines
        BY <2>1, <2>4, <2>5 DEF NothingDangles
      <3>4. row.active
        BY <2>5, <2>7
      <3>5. QED
        BY <2>1, <2>4, <2>9, <3>1, <3>2, <3>3, <3>4, ChangedSuits
    <2>12. Fits(t)
      BY <2>1, <2>3, <2>4, <2>5, <2>10, <2>11 DEF Fits
    <2>13. Ready(t)
      BY <2>1, <2>3 DEF Ready
    <2>14. QED
      BY <1>1, <2>2, <2>12, <2>13, AloneStep
  <1>4. QED
    BY <1>2, <1>3

LEMMA AloneChecks ==
  ASSUME Inv, AloneInv, Alone, NEW s \in Sessions, Check(s)
  PROVE  AloneInv'
  <1> PICK u : u = tx[s]
    OBVIOUS
  <1>1. IsRequest(u) /\ Knows(s) /\ u.pc = "check"
    BY TypesOf DEF Check
  <1>2. CASE Abort(s)
    BY <1>1, <1>2, AloneAbort
  <1>3. CASE ~Abort(s)
    <2>1. Fits(u) /\ Ready(u)
      BY <1>1, AloneKnows
    <2> PICK fs : fs = Together(u.todo)
      OBVIOUS
    <2> DEFINE next == [f \in fs |-> u.todo[f]]
               todo == [f \in DOMAIN u.todo \ fs |-> u.todo[f]]
               t == [u EXCEPT !.pc = "write", !.next = next, !.todo = todo]
    <2>2. Start(s, t) /\ UNCHANGED rows /\ \A f \in fs : Permitted(u, f, u.todo[f])
      BY <1>3 DEF Check
    <2>3. fs \subseteq DOMAIN u.todo
      BY DEF Together
    <2>4. /\ DOMAIN next = fs /\ (\A f \in fs : next[f] = u.todo[f])
          /\ DOMAIN todo = DOMAIN u.todo \ fs
      OBVIOUS
    <2> HIDE DEF next, todo
    <2>5. /\ t.account = u.account /\ t.change = u.change /\ t.todo = todo /\ t.next = next
          /\ t.slot = u.slot /\ t.posts = u.posts /\ t.pc = "write"
      BY <1>1 DEF IsRequest
    <2> HIDE DEF t
    <2>6. Fits(t)
      BY <1>1, <2>1, <2>5 DEF Fits, After, Mine
    <2>7. "group" \in fs /\ ~u.todo["group"] => Childless(u.account)
      BY <2>2 DEF Permitted
    <2>8. "group" \in DOMAIN t.next /\ ~t.next.group => Childless(t.account)
      BY <2>4, <2>5, <2>7
    <2>9. Ready(t)
      BY <2>1, <2>3, <2>4, <2>5, <2>8, RowFieldsAre DEF Ready, Values
    <2>10. QED
      BY <1>1, <2>2, <2>6, <2>9, AloneStep
  <1>4. QED
    BY <1>2, <1>3

LEMMA AloneWrites ==
  ASSUME Inv, AloneInv, Alone, NEW s \in Sessions, Write(s)
  PROVE  AloneInv'
  <1> PICK u : u = tx[s]
    OBVIOUS
  <1>1. IsRequest(u) /\ Knows(s) /\ u.pc = "write"
    BY TypesOf DEF Write
  <1>2. CASE Abort(s)
    BY <1>1, <1>2, AloneAbort
  <1>3. CASE ~Abort(s)
    <2>1. Fits(u) /\ Ready(u) /\ FullRows /\ Rooted(account) /\ Suitable(account)
          /\ TypedRows /\ NothingDangles
      BY <1>1, AloneKnows
    <2> PICK a : a = u.account
      OBVIOUS
    <2> PICK row : row = With(u.next, Mine(u))
      OBVIOUS
    <2> PICK pc : pc = AfterWrite(u)
      OBVIOUS
    <2> DEFINE change == With(u.next, u.change)
               held == u.held \cup {<<a, "no_key_update">>}
               new == [u EXCEPT !.change = change, !.next = <<>>, !.held = held]
               t == IF "parent" \in DOMAIN u.next /\ row.parent # None
                    THEN [new EXCEPT !.pc = "refer", !.refers = row.parent]
                    ELSE [new EXCEPT !.pc = pc]
    <2>2. /\ Start(s, t) /\ UNCHANGED rows
          /\ account[a].here /\ AccountGuard(a, row) /\ HierarchyGuard(a, row)
      BY <1>3 DEF Write, AfterWrite
    <2>3. /\ a \in Accounts /\ u.slot = None /\ ~u.posts /\ Keeps(s)
          /\ Fields(u.change) /\ Fields(u.next) /\ "here" \notin DOMAIN u.next
      BY <1>1 DEF Knows, Keeps, Removes
    <2>4. pc \in {"check", "commit"}
      BY DEF AfterWrite
    <2>5. /\ DOMAIN change = DOMAIN u.next \cup DOMAIN u.change
          /\ row = With(change, account[a])
      BY WithTwice DEF With, Mine
    <2> HIDE DEF change, held
    <2>6. /\ t.account = a /\ t.change = change /\ t.todo = u.todo /\ t.slot = None
          /\ ~t.posts /\ t.pc \in {"refer", "check", "commit"}
      BY <1>1, <2>3, <2>4 DEF IsRequest
    <2> HIDE DEF t
    <2> PICK old : old = Mine(u)
      OBVIOUS
    <2>7. /\ DOMAIN account[a] = RowFields /\ DOMAIN u.change \subseteq RowFields
          /\ DOMAIN u.next \subseteq RowFields
      BY <1>1, <2>1, <2>3, FullRow DEF Fits, Ready
    <2>8. /\ DOMAIN old = RowFields /\ DOMAIN row = RowFields
          /\ \A f \in RowFields : row[f] = IF f \in DOMAIN u.next THEN u.next[f] ELSE old[f]
      BY <2>7 DEF With, Mine
    <2>9. /\ After(u) = IF u.change = <<>> THEN account ELSE [account EXCEPT ![a] = old]
          /\ Rooted(After(u)) /\ Suitable(After(u))
      BY <1>1, <2>1 DEF After, Fits
    <2>10. u.change = <<>> => old = account[a]
      BY <2>1, <2>3, FullRow DEF Mine
    <2>11. After(u)[a] = old /\ \A b \in Accounts \ {a} : After(u)[b] = account[b]
      BY <2>1, <2>3, <2>9, <2>10 DEF TypedRows
    <2>12. After(t) = [account EXCEPT ![a] = row]
      <3>1. CASE change # <<>>
        BY <3>1, <2>5, <2>6 DEF After, Mine
      <3>2. CASE change = <<>>
        <4>1. row = account[a]
          BY <3>2, <2>1, <2>3, <2>5, FullRow
        <4>2. QED
          BY <3>2, <4>1, <2>1, <2>6 DEF After, TypedRows
      <3>3. QED
        BY <3>1, <3>2
    <2> PICK chart : chart = After(t)
      OBVIOUS
    <2>13. Rooted(chart)
      BY <2>1, <2>2, <2>3, <2>12, MovedIsRooted
    <2>14. Suitable(chart)
      <3>1. row.parent \in Reference
        <4>1. row.parent = IF "parent" \in DOMAIN u.next THEN u.next.parent ELSE old.parent
          BY <2>8, RowFieldsAre
        <4>2. old.parent = IF "parent" \in DOMAIN u.change THEN u.change.parent ELSE account[a].parent
          BY <2>7, RowFieldsAre DEF Mine, With
        <4>3. QED
          BY <4>1, <4>2, <2>1, <2>3 DEF Fields, TypedRows
      <3>2. row.parent # None => row.parent \in Accounts \ {a} /\ account[row.parent].group
        BY <2>2, <3>1 DEF HierarchyGuard, Reference
      <3>3. row.group \/ Childless(a)
        <4>1. CASE "group" \in DOMAIN u.next
          BY <4>1, <1>1, <2>1, <2>8, RowFieldsAre DEF Ready
        <4>2. CASE "group" \notin DOMAIN u.next
          <5>1. row.group = After(u)[a].group
            BY <4>2, <2>8, <2>11, RowFieldsAre
          <5>2. ASSUME NEW c \in Accounts, account[c].here, account[c].parent = a PROVE row.group
            <6>1. CASE c # a
              BY <6>1, <5>1, <5>2, <2>3, <2>9, <2>11, NoneApart DEF Suitable
            <6>2. CASE c = a
              <7>1. a \in {a} /\ account[a].parent \in {a} /\ {a} \subseteq {b \in Accounts : account[b].here}
                BY <5>2, <6>2, <2>3
              <7>2. QED
                BY <7>1, <2>1 DEF Rooted
            <6>3. QED
              BY <6>1, <6>2
          <5>3. QED
            BY <5>2 DEF Childless, Children
        <4>3. QED
          BY <4>1, <4>2
      <3>4. row.group => a \notin lines
        BY <2>1, <2>2 DEF AccountGuard, Suitable
      <3>5. row.active \/ ~IsDefault(a)
        <4>1. CASE "active" \in DOMAIN u.next
          BY <4>1, <1>1, <2>1, <2>8, RowFieldsAre DEF Ready
        <4>2. CASE "active" \notin DOMAIN u.next
          <5>1. row.active = After(u)[a].active
            BY <4>2, <2>8, <2>11, RowFieldsAre
          <5>2. QED
            BY <5>1, <2>3, <2>9, NoneApart DEF IsDefault, Suitable
        <4>3. QED
          BY <4>1, <4>2
      <3>6. QED
        BY <2>1, <2>3, <2>12, <3>2, <3>3, <3>4, <3>5, ChangedSuits
    <2>15. Fits(t)
      BY <2>5, <2>6, <2>7, <2>13, <2>14 DEF Fits
    <2>16. Ready(t)
      BY <2>1, <2>6 DEF Ready
    <2>17. QED
      BY <1>1, <2>2, <2>15, <2>16, AloneStep
  <1>4. QED
    BY <1>2, <1>3

LEMMA AloneRefers ==
  ASSUME Inv, AloneInv, Alone, NEW s \in Sessions, Refer(s)
  PROVE  AloneInv'
  <1> PICK u : u = tx[s]
    OBVIOUS
  <1>1. IsRequest(u) /\ u.pc = "refer"
    BY TypesOf DEF Refer
  <1>2. CASE Abort(s)
    BY <1>1, <1>2, AloneAbort
  <1>3. CASE ~Abort(s)
    <2> PICK pc : pc = AfterWrite(u)
      OBVIOUS
    <2> DEFINE held == u.held \cup {<<u.refers, "key_share">>}
               t == [u EXCEPT !.pc = pc, !.refers = None, !.held = held]
    <2>1. Start(s, t) /\ UNCHANGED rows
      BY <1>3 DEF Refer
    <2>2. pc \in {"check", "commit"}
      BY DEF AfterWrite
    <2> HIDE DEF held
    <2>3. /\ t.account = u.account /\ t.change = u.change /\ t.todo = u.todo
          /\ t.slot = u.slot /\ t.posts = u.posts /\ t.pc \in {"check", "commit"}
      BY <1>1, <2>2 DEF IsRequest
    <2> HIDE DEF t
    <2>4. Fits(u) /\ Ready(u)
      BY <1>1, AloneKnows
    <2>5. Fits(t)
      BY <1>1, <2>3, <2>4 DEF Fits, After, Mine
    <2>6. Ready(t)
      BY <2>3, <2>4 DEF Ready
    <2>7. QED
      BY <1>1, <2>1, <2>5, <2>6, AloneStep
  <1>4. QED
    BY <1>2, <1>3

LEMMA AloneDeletes ==
  ASSUME Inv, AloneInv, Alone, NEW s \in Sessions, Delete(s)
  PROVE  AloneInv'
  <1> PICK u : u = tx[s]
    OBVIOUS
  <1>1. IsRequest(u) /\ Knows(s) /\ u.pc = "delete"
    BY TypesOf DEF Delete
  <1>2. CASE Abort(s)
    BY <1>1, <1>2, AloneAbort
  <1>3. CASE ~Abort(s)
    <2>1. Fits(u) /\ Ready(u) /\ FullRows /\ Rooted(account) /\ Suitable(account)
          /\ TypedRows /\ NothingDangles
      BY <1>1, AloneKnows
    <2> PICK a : a = u.account
      OBVIOUS
    <2> PICK row : row = With(Blank, account[a])
      OBVIOUS
    <2> DEFINE t == [u EXCEPT !.pc = "commit", !.change = Blank, !.held = {<<a, "update">>}]
    <2>2. Start(s, t) /\ UNCHANGED rows /\ Unused(a)
      BY <1>3 DEF Delete
    <2>3. a \in Accounts /\ u.slot = None /\ ~u.posts
      BY <1>1 DEF Knows
    <2>4. /\ t.account = a /\ t.change = Blank /\ t.todo = u.todo /\ t.slot = None
          /\ ~t.posts /\ t.pc = "commit"
      BY <1>1, <2>3 DEF IsRequest
    <2> HIDE DEF t
    <2>5. row.here = FALSE /\ row.active = TRUE
      BY DEF With, Blank
    <2>6. Blank # <<>>
      BY BlankRow, NoFields
    <2>7. After(t) = [account EXCEPT ![a] = row]
      BY <2>4, <2>6 DEF After, Mine
    <2> PICK chart : chart = After(t)
      OBVIOUS
    <2>8. Rooted(chart)
      BY <2>1, <2>3, <2>5, <2>7, RemovedIsRooted
    <2>9. a \notin lines /\ Childless(a)
      BY <2>2 DEF Unused
    <2>10. Suitable(chart)
      BY <2>1, <2>3, <2>5, <2>7, <2>9, ChangedSuits
    <2>11. Fits(t)
      BY <2>4, <2>8, <2>10 DEF Fits, RowFields
    <2>12. Ready(t)
      BY <2>1, <2>4 DEF Ready
    <2>13. QED
      BY <1>1, <2>2, <2>11, <2>12, AloneStep
  <1>4. QED
    BY <1>2, <1>3

LEMMA AloneSetsDefault ==
  ASSUME Inv, AloneInv, Alone, NEW s \in Sessions, SetDefault(s)
  PROVE  AloneInv'
  <1> PICK u : u = tx[s]
    OBVIOUS
  <1> PICK a : a = u.account
    OBVIOUS
  <1> DEFINE held == {<<"settings", "no_key_update">>}
             new == [u EXCEPT !.held = held]
             t == IF a = None THEN [new EXCEPT !.pc = "commit"]
                  ELSE [new EXCEPT !.pc = "refer", !.refers = a]
  <1>1. IsRequest(u) /\ u.pc = "set"
    BY TypesOf DEF SetDefault
  <1>2. Start(s, t) /\ UNCHANGED rows
    BY DEF SetDefault
  <1> HIDE DEF held
  <1>3. /\ t.account = u.account /\ t.change = u.change /\ t.todo = u.todo
        /\ t.slot = u.slot /\ t.posts = u.posts /\ t.pc \in {"refer", "commit"}
    BY <1>1 DEF IsRequest
  <1> HIDE DEF t
  <1>4. Fits(u) /\ Ready(u)
    BY <1>1, AloneKnows
  <1>5. Fits(t)
    BY <1>1, <1>3, <1>4 DEF Fits, After, Mine
  <1>6. Ready(t)
    BY <1>3, <1>4 DEF Ready
  <1>7. QED
    BY <1>1, <1>2, <1>5, <1>6, AloneStep

-----------------------------------------------------------------------------
(* ... and commit what was found to fit.                                   *)

LEMMA AloneCommits ==
  ASSUME Inv, AloneInv, Alone, NEW s \in Sessions, Commit(s)
  PROVE  AloneInv'
  <1> PICK u : u = tx[s]
    OBVIOUS
  <1> PICK a : a = u.account
    OBVIOUS
  <1> PICK chart : chart = After(u)
    OBVIOUS
  <1>1. Knows(s) /\ u.pc = "commit"
    BY TypesOf DEF Commit
  <1>2. Fits(u) /\ FullRows /\ TypedRows
    BY <1>1, AloneKnows
  <1>3. /\ account' = chart
        /\ lines' = IF u.posts THEN lines \cup {a} ELSE lines
        /\ default' = IF u.slot # None THEN [default EXCEPT ![u.slot] = a] ELSE default
        /\ Start(s, Idle)
    BY DEF Commit
  <1>4. tx'[s] = Idle /\ \A r \in Sessions \ {s} : tx'[r] = tx[r]
    BY <1>3, TypesOf
  <1>5. \A r \in Sessions : tx'[r].pc = "idle"
    BY <1>1, <1>4 DEF AloneInv, OneRequest, Idle
  <1>6. Rooted(chart) /\ Suitable(chart)
    BY <1>1, <1>2 DEF Fits
  <1>7. Rooted(account)'
    BY <1>3, <1>6 DEF Rooted
  <1>8. u.posts \/ u.slot # None => chart = account
    BY <1>1 DEF Knows, After
  <1>9. Suitable(account)'
    <2>1. \A b \in lines' : ~account'[b].group
      BY <1>2, <1>3, <1>6, <1>8 DEF Suitable, Fits
    <2>2. \A k \in Slots : default'[k] # None => account'[default'[k]].active
      BY <1>2, <1>3, <1>6, <1>8 DEF Suitable, Fits, TypedRows
    <2>3. QED
      BY <1>3, <1>6, <2>1, <2>2 DEF Suitable
  <1>10. FullRows'
    <2>1. CASE u.change = <<>>
      BY <2>1, <1>2, <1>3 DEF After, FullRows, RowFields, Blank
    <2>2. CASE u.change # <<>>
      <3> PICK row : row = Mine(u)
        OBVIOUS
      <3>1. a \in Accounts
        BY <2>2, <1>1 DEF Knows, Removes
      <3>2. account' = [account EXCEPT ![a] = row]
        BY <2>2, <1>3 DEF After
      <3>3. DOMAIN u.change \cup DOMAIN account[a] = RowFields
        BY <3>1, <1>2, FullRow DEF Fits
      <3>4. row = [f \in RowFields |-> row[f]]
        BY <3>3 DEF Mine, With
      <3>5. QED
        BY <3>1, <3>2, <3>4, <1>2 DEF FullRows, RowFields, Blank, TypedRows
    <2>3. QED
      BY <2>1, <2>2
  <1>11. OneRequest'
    BY <1>5 DEF OneRequest
  <1>12. QED
    BY <1>5, <1>7, <1>9, <1>10, <1>11 DEF AloneInv

LEMMA AloneUntouched ==
  ASSUME AloneInv, UNCHANGED <<account, lines, default, scope, tx>>
  PROVE  AloneInv'
  <1>1. SUFFICES ASSUME Alone PROVE AloneInv'
    BY DEF AloneInv, Alone
  <1>2. /\ OneRequest' /\ FullRows' /\ Rooted(account)' /\ Suitable(account)'
    BY <1>1 DEF AloneInv, OneRequest, FullRows, RowFields, Blank, Rooted, Suitable
  <1>3. ASSUME NEW s \in Sessions, tx'[s].pc # "idle" PROVE Fits(tx[s])' /\ Ready(tx[s])'
    <2>1. Fits(tx[s]) /\ Ready(tx[s])
      BY <1>1, <1>3 DEF AloneInv
    <2>2. After(tx[s])' = After(tx[s])
      BY DEF After, Mine, With
    <2> PICK chart : chart = After(tx[s])
      OBVIOUS
    <2>3. Rooted(chart) /\ Suitable(chart) => Rooted(chart)' /\ Suitable(chart)'
      BY DEF Rooted, Suitable
    <2>4. Rooted(After(tx[s])) /\ Suitable(After(tx[s])) =>
            Rooted(After(tx[s]))' /\ Suitable(After(tx[s]))'
      BY <2>2, <2>3 DEF Rooted, Suitable
    <2>5. Makes(tx[s]) => Makes(tx[s])'
      BY DEF Makes, RowFields, Blank
    <2>6. Fits(tx[s])'
      BY <2>1, <2>4, <2>5 DEF Fits, RowFields, Blank
    <2>7. Ready(tx[s])'
      BY <2>1 DEF Ready, Values, RowFields, Blank, IsDefault, Childless, Children
    <2>8. QED
      BY <2>6, <2>7
  <1>4. QED
    BY <1>2, <1>3 DEF AloneInv

LEMMA InitAlone ==
  ASSUME Init
  PROVE  AloneInv
  <1>1. \A s \in Sessions : tx[s].pc = "idle"
    BY DEF Init, Idle
  <1>2. \A a \in Accounts : account[a] = Blank
    BY DEF Init
  <1>3. FullRows
    <2>1. Blank = [f \in RowFields |-> Blank[f]]
      BY DEF Blank, RowFields
    <2>2. QED
      BY <1>2, <2>1 DEF FullRows
  <1>4. Rooted(account) /\ Suitable(account)
    BY <1>2, BlankRow DEF Rooted, Suitable, Init
  <1>5. QED
    BY <1>1, <1>3, <1>4 DEF AloneInv, OneRequest

LEMMA ScopeStays ==
  ASSUME [Next]_vars
  PROVE  scope' = scope
  <1>1. CASE UNCHANGED vars
    BY <1>1 DEF vars, rows
  <1>2. CASE \E a \in Accounts : SettleLine(a)
    BY <1>2 DEF SettleLine
  <1>3. ASSUME NEW s \in Sessions,
               \/ \E a \in Accounts, p \in Accounts \cup {None}, t \in scope.types, g \in BOOLEAN :
                    BeginCreate(s, a, p, t, g)
               \/ \E a \in Accounts, f \in Updates : BeginUpdate(s, a, f)
               \/ \E a \in Accounts :
                    BeginArchive(s, a) \/ BeginRestore(s, a) \/ BeginDelete(s, a) \/ InsertLine(s, a)
               \/ \E k \in Slots, a \in Accounts \cup {None} : BeginDefault(s, k, a)
        PROVE  UNCHANGED rows
    BY <1>3 DEF BeginDefault, InsertLine, BeginDelete, BeginRestore, BeginArchive, BeginUpdate, BeginCreate
  <1>4. ASSUME NEW s \in Sessions,
               Insert(s) \/ Check(s) \/ Write(s) \/ Refer(s) \/ Delete(s) \/ SetDefault(s) \/ Rollback(s)
        PROVE  UNCHANGED rows
    <2>1. ASSUME Insert(s) \/ Check(s) \/ Delete(s) \/ SetDefault(s) PROVE UNCHANGED rows
      BY <2>1 DEF Insert, Check, Delete, SetDefault, Abort
    <2>2. ASSUME Write(s) PROVE UNCHANGED rows
      BY <2>2 DEF Write, Abort
    <2>3. ASSUME Refer(s) \/ Rollback(s) PROVE UNCHANGED rows
      BY <2>3 DEF Refer, Rollback, Abort
    <2>4. QED
      BY <1>4, <2>1, <2>2, <2>3
  <1>5. ASSUME NEW s \in Sessions, Commit(s) PROVE scope' = scope
    BY <1>5 DEF Commit
  <1>6. QED
    BY <1>1, <1>2, <1>3, <1>4, <1>5 DEF Next, rows

LEMMA StepAlone ==
  ASSUME Inv, AloneInv, [Next]_vars
  PROVE  AloneInv'
  <1>1. CASE UNCHANGED vars
    BY <1>1, AloneUntouched DEF vars, rows
  <1>2. ASSUME NEW a \in Accounts, SettleLine(a) PROVE AloneInv'
    BY <1>2, AloneUntouched DEF SettleLine
  <1>3. ASSUME NEW s \in Sessions, Alone,
               \/ \E a \in Accounts, p \in Accounts \cup {None}, t \in scope.types, g \in BOOLEAN :
                    BeginCreate(s, a, p, t, g)
               \/ \E a \in Accounts, f \in Updates : BeginUpdate(s, a, f)
               \/ \E a \in Accounts :
                    BeginArchive(s, a) \/ BeginRestore(s, a) \/ BeginDelete(s, a) \/ InsertLine(s, a)
               \/ \E k \in Slots, a \in Accounts \cup {None} : BeginDefault(s, k, a)
        PROVE  AloneInv'
    BY <1>3, AloneCreates, AloneBegins
  <1>4. ASSUME NEW s \in Sessions, Alone,
               Insert(s) \/ Check(s) \/ Write(s) \/ Refer(s) \/ Delete(s) \/ SetDefault(s)
        PROVE  AloneInv'
    BY <1>4, AloneInserts, AloneChecks, AloneWrites, AloneRefers, AloneDeletes, AloneSetsDefault
  <1>5. ASSUME NEW s \in Sessions, Alone, Commit(s) PROVE AloneInv'
    BY <1>5, AloneCommits
  <1>6. ASSUME NEW s \in Sessions, Alone, Rollback(s) PROVE AloneInv'
    BY <1>6, AloneAbort DEF Rollback
  <1>7. ~Alone => AloneInv'
    BY ScopeStays DEF AloneInv, Alone
  <1>8. QED
    BY <1>1, <1>2, <1>3, <1>4, <1>5, <1>6, <1>7 DEF Next

-----------------------------------------------------------------------------
(* With one request at a time, what a request has checked is so when it    *)
(* commits.                                                                *)
THEOREM AloneInvariance == Spec => []AloneInv
  <1>1. Init => AloneInv
    BY InitAlone
  <1>2. Inv /\ AloneInv /\ [Next]_vars => AloneInv'
    BY StepAlone
  <1>3. QED
    BY <1>1, <1>2, Invariance, PTL DEF Spec

(* With one request at a time the chart is a tree however it is moved      *)
(* about: the trigger walks up from the new parent and meets either the    *)
(* account or the root (0003_chart_of_accounts.py:73).                     *)
THEOREM AlwaysATree == Spec => []StaysATree
  <1>1. AloneInv => StaysATree
    BY DEF AloneInv, StaysATree
  <1>2. QED
    BY <1>1, AloneInvariance, PTL

(* With one request at a time parents are groups, lines are on no group    *)
(* and defaults are not archived (accounts.py:218-331).                    *)
THEOREM ReferencesAlwaysSuit == Spec => []ReferencesSuit
  <1>1. AloneInv => ReferencesSuit
    BY DEF AloneInv, ReferencesSuit
  <1>2. QED
    BY <1>1, AloneInvariance, PTL
=============================================================================
