------------------------------- MODULE Chart -------------------------------
(***************************************************************************)
(* The chart of accounts (app/coa/accounts.py, app/coa/defaults.py) and    *)
(* the triggers that guard it (migrations 0001 and 0003): a hierarchy of   *)
(* group accounts, the ledger lines on the others, archiving, and the      *)
(* accounts a company posts to by default.                                 *)
(*                                                                         *)
(* A session is one request in one transaction at READ COMMITTED.  The     *)
(* service reads what is committed and checks it; each UPDATE or INSERT    *)
(* then waits for its row, its triggers read again, and a foreign key      *)
(* takes a share of the row it refers to.  A subtype is folded into the    *)
(* type it belongs to; names and codes are left out.                       *)
(***************************************************************************)
EXTENDS Integers, FiniteSets, TLC, RowLocks

CONSTANTS
  Sessions,  \* requests being served
  Accounts,  \* ids of accounts
  Types,     \* account types
  Slots,     \* company defaults
  Suits,     \* the type each default needs
  Levels,    \* levels the guard allows (10 in the code)
  Walk,      \* levels an ancestor walk goes up (20 in the code)
  Scopes,    \* bounds to choose from: the requests served at once, the
             \* accounts and types there are and the kinds of requests made
  None

ASSUME ChartAssumption ==
  /\ Levels \in Nat \ {0}
  /\ Walk \in Nat /\ Walk > Levels
  /\ Suits \in [Slots -> Types]
  /\ \A c \in Scopes : c.requests \in Nat /\ c.accounts \in Nat /\ c.types \subseteq Types
  /\ None \notin Accounts \cup Slots

VARIABLES
  account,  \* account rows, by id
  lines,    \* accounts that have ledger lines
  open,     \* those of them with an open item
  default,  \* the company's default accounts
  scope,    \* the bounds of this behaviour
  tx        \* the request each session serves

rows == <<account, lines, open, default, scope>>
vars == <<rows, tx>>

Blank == [here |-> FALSE, parent |-> None, type |-> CHOOSE t \in Types : TRUE,
          group |-> FALSE, active |-> TRUE]

(* A request: where it is, its account, whether that had lines when it     *)
(* began, the fields still to be changed and those of the next statement,  *)
(* what its statements have written, the account whose row a foreign key   *)
(* is about to share, the default it sets, whether it posts a line, and    *)
(* its row locks.                                                          *)
Idle == [pc |-> "idle", account |-> None, used |-> FALSE, todo |-> <<>>, next |-> <<>>,
         change |-> <<>>, refers |-> None, slot |-> None, posts |-> FALSE, held |-> {}]

Start(s, t) == tx' = [tx EXCEPT ![s] = t]

Abort(s) == Start(s, Idle) /\ UNCHANGED rows

Begins(s, kind) ==
  /\ tx[s].pc = "idle" /\ kind \in scope.kinds
  /\ Cardinality({r \in Sessions : tx[r].pc # "idle"}) < scope.requests

Alone == scope.requests = 1

(* An UPDATE that leaves the key alone takes its row FOR NO KEY UPDATE, a  *)
(* DELETE FOR UPDATE, a foreign key FOR KEY SHARE.                         *)
Free(s, row, mode) ==
  \A r \in Sessions \ {s} : \A l \in tx[r].held : ~Clash(l, <<row, mode>>)

-----------------------------------------------------------------------------
(* What the service and the triggers read. *)

Children(a) == {c \in Accounts : account[c].here /\ account[c].parent = a}

(* Mutant of Childless: the check forgets archived children. *)
ChildlessButArchived(a) == \A c \in Children(a) : ~account[c].active

Childless(a) == Children(a) = {}

IsDefault(a) == \E k \in Slots : default[k] = a

(* The recursive query over ancestors, itself first, no more than Walk up. *)
Above(a) ==
  LET at[n \in 1..Walk] ==
        IF n = 1 THEN a ELSE IF at[n - 1] = None THEN None ELSE account[at[n - 1]].parent
  IN at

(* Mutant of Ancestors: the walk stops before it reaches the top. *)
AncestorsNearest(a) == {Above(a)[n] : n \in 1..1} \ {None}

Ancestors(a) == {Above(a)[n] : n \in 1..Walk} \ {None}

Depth(a) == Cardinality({n \in 1..Walk : Above(a)[n] # None})

(* _check_parent; a is None for a new account. *)
GoodParent(a, parent, type) ==
  parent # None =>
    /\ account[parent].here /\ account[parent].group /\ account[parent].type = type
    /\ a \notin Ancestors(parent)

HierarchyGuard(a, row) ==
  row.parent # None =>
    /\ row.parent # a
    /\ account[row.parent].here /\ account[row.parent].group
    /\ account[row.parent].type = row.type
    /\ a \notin Ancestors(row.parent)
    /\ Depth(row.parent) < Levels

(* account_guard: an account with lines does not become a group. *)
AccountGuard(a, row) == row.group /\ ~account[a].group => a \notin lines

-----------------------------------------------------------------------------
Init ==
  /\ account = [a \in Accounts |-> Blank]
  /\ lines = {}
  /\ open = {}
  /\ default = [k \in Slots |-> None]
  /\ scope \in Scopes
  /\ tx = [s \in Sessions |-> Idle]

-----------------------------------------------------------------------------
(* create_account.  Ids are never drawn twice: an absent account that no   *)
(* request mentions stands for a new one.                                  *)
BeginCreate(s, a, parent, type, group) ==
  /\ Begins(s, "create")
  /\ LET present == {b \in Accounts : account[b].here}
         mentioned == UNION {{tx[r].account, tx[r].refers} : r \in Sessions} \ {None}
     IN a \notin present \cup mentioned /\ Cardinality(present \cup mentioned) < scope.accounts
  /\ GoodParent(None, parent, type)
  /\ Start(s, [Idle EXCEPT !.pc = "insert", !.account = a,
                           !.change = [Blank EXCEPT !.here = TRUE, !.parent = parent,
                                                    !.type = type, !.group = group]])
  /\ UNCHANGED rows

Insert(s) ==
  LET t == tx[s] IN
  /\ t.pc = "insert"
  /\ \/ /\ HierarchyGuard(t.account, t.change)
        /\ Start(s, IF t.change.parent = None THEN [t EXCEPT !.pc = "commit"]
                    ELSE [t EXCEPT !.pc = "refer", !.refers = t.change.parent])
        /\ UNCHANGED rows
     \/ /\ ~HierarchyGuard(t.account, t.change)
        /\ Abort(s)

(* update_account: the fields a request changes, a function from their     *)
(* names to values.  Whether the account has lines is read once.           *)
BeginUpdate(s, a, fields) ==
  /\ Begins(s, "update")
  /\ account[a].here
  /\ "type" \in DOMAIN fields => fields.type \in scope.types
  /\ fields # <<>> /\ \A f \in DOMAIN fields : fields[f] # account[a][f]
  /\ Start(s, [Idle EXCEPT !.pc = "check", !.account = a, !.used = (a \in lines),
                           !.todo = fields])
  /\ UNCHANGED rows

(* A row, or what was changed of it, with more fields changed. *)
With(change, row) ==
  [f \in DOMAIN change \cup DOMAIN row |-> IF f \in DOMAIN change THEN change[f] ELSE row[f]]

Mine(t) == With(t.change, account[t.account])

After(t) == IF t.change = <<>> THEN account ELSE [account EXCEPT ![t.account] = Mine(t)]

(* The fields are checked in this order.  A check that queries flushes     *)
(* what was changed before it; a parent that is taken away and an account  *)
(* that becomes a group are checked without a query.                       *)
Order == [type |-> 1, parent |-> 2, group |-> 3]

Queries(f, v) == (f = "parent" /\ v # None) \/ (f = "group" /\ ~v)

(* The fields that one statement changes: the first to be checked, and     *)
(* those that follow until a check queries.                                *)
Together(todo) ==
  {f \in DOMAIN todo : \A g \in DOMAIN todo :
     Queries(g, todo[g]) /\ Order[g] <= Order[f] => \A h \in DOMAIN todo : Order[g] <= Order[h]}

Permitted(t, f, v) ==
  CASE f = "type"   -> ~t.used
    [] f = "parent" -> GoodParent(t.account, v, Mine(t).type)
    [] f = "group"  -> IF v THEN ~t.used ELSE Childless(t.account)

Check(s) ==
  LET t  == tx[s]
      fs == Together(t.todo)
      ok == \A f \in fs : Permitted(t, f, t.todo[f])
  IN
  /\ t.pc = "check"
  /\ \/ /\ ok
        /\ Start(s, [t EXCEPT !.pc = "write", !.next = [f \in fs |-> t.todo[f]],
                              !.todo = [f \in DOMAIN t.todo \ fs |-> t.todo[f]]])
        /\ UNCHANGED rows
     \/ /\ ~ok
        /\ Abort(s)

(* archive_account and restore_account. *)

BeginArchive(s, a) ==
  /\ Begins(s, "archive")
  /\ account[a].here /\ ~IsDefault(a)
  /\ Start(s, [Idle EXCEPT !.pc = "write", !.account = a, !.next = [active |-> FALSE]])
  /\ UNCHANGED rows

BeginRestore(s, a) ==
  /\ Begins(s, "archive")
  /\ account[a].here
  /\ Start(s, [Idle EXCEPT !.pc = "write", !.account = a, !.next = [active |-> TRUE]])
  /\ UNCHANGED rows

(* One UPDATE of the account: its row, its triggers, then its parent's     *)
(* share when the parent is new.                                           *)
AfterWrite(t) == IF t.todo = <<>> THEN "commit" ELSE "check"

Write(s) ==
  LET t   == tx[s]
      a   == t.account
      row == With(t.next, Mine(t))
      ok  == account[a].here /\ AccountGuard(a, row) /\ HierarchyGuard(a, row)
      new == [t EXCEPT !.change = With(t.next, @), !.next = <<>>, !.held = @ \cup {<<a, "no_key_update">>}]
  IN
  /\ t.pc = "write"
  /\ Free(s, a, "no_key_update")
  /\ \/ /\ ok
        /\ Start(s, IF "parent" \in DOMAIN t.next /\ row.parent # None
                    THEN [new EXCEPT !.pc = "refer", !.refers = row.parent]
                    ELSE [new EXCEPT !.pc = AfterWrite(t)])
        /\ UNCHANGED rows
     \/ /\ ~ok
        /\ Abort(s)

(* Mutant of Refer: there is no foreign key. *)
ReferUnchecked(s) ==
  LET t == tx[s] IN
  /\ t.pc = "refer"
  /\ Start(s, [t EXCEPT !.pc = AfterWrite(t), !.refers = None])
  /\ UNCHANGED rows

(* A foreign key: the row referred to stays until the transaction ends. *)
Refer(s) ==
  LET t == tx[s] IN
  /\ t.pc = "refer"
  /\ Free(s, t.refers, "key_share")
  /\ \/ /\ account[t.refers].here
        /\ Start(s, [t EXCEPT !.pc = AfterWrite(t), !.refers = None,
                              !.held = @ \cup {<<t.refers, "key_share">>}])
        /\ UNCHANGED rows
     \/ /\ ~account[t.refers].here
        /\ Abort(s)

(* delete_account; the foreign keys are checked again after the row is had. *)
Unused(a) == a \notin lines /\ ~IsDefault(a) /\ Childless(a)

BeginDelete(s, a) ==
  /\ Begins(s, "delete")
  /\ account[a].here /\ Unused(a)
  /\ Start(s, [Idle EXCEPT !.pc = "delete", !.account = a])
  /\ UNCHANGED rows

Delete(s) ==
  LET t  == tx[s]
      ok == account[t.account].here /\ Unused(t.account)
  IN
  /\ t.pc = "delete"
  /\ Free(s, t.account, "update")
  /\ \/ /\ ok
        /\ Start(s, [t EXCEPT !.pc = "commit", !.change = Blank,
                              !.held = {<<t.account, "update">>}])
        /\ UNCHANGED rows
     \/ /\ ~ok
        /\ Abort(s)

(* set_default: the account is checked, then the settings row written. *)
BeginDefault(s, k, a) ==
  /\ Begins(s, "default")
  /\ a # default[k]
  /\ a # None => /\ account[a].here /\ ~account[a].group /\ account[a].active
                 /\ account[a].type = Suits[k]
  /\ Start(s, [Idle EXCEPT !.pc = "set", !.account = a, !.slot = k])
  /\ UNCHANGED rows

SetDefault(s) ==
  LET t == tx[s]
      new == [t EXCEPT !.held = {<<"settings", "no_key_update">>}]
  IN
  /\ t.pc = "set"
  /\ Free(s, "settings", "no_key_update")
  /\ Start(s, IF t.account = None THEN [new EXCEPT !.pc = "commit"]
              ELSE [new EXCEPT !.pc = "refer", !.refers = t.account])
  /\ UNCHANGED rows

-----------------------------------------------------------------------------
(* The ledger's use of accounts. *)

(* journal_entry_line_active_account and journal_entry_line_guard. *)
Takes(a) == account[a].active /\ ~account[a].group

(* The INSERT of a line by a posting; another account's are refused. *)
InsertLine(s, a) ==
  /\ Begins(s, "post")
  /\ account[a].here /\ Takes(a)
  /\ Start(s, [Idle EXCEPT !.pc = "refer", !.account = a, !.refers = a, !.posts = TRUE])
  /\ UNCHANGED rows

(* The UPDATE of an open item's residual: the trigger on active accounts   *)
(* fires for it too.                                                       *)
SettleLine(a) ==
  /\ "settle" \in scope.kinds
  /\ a \in open
  /\ account[a].active
  /\ open' = open \ {a}
  /\ UNCHANGED <<account, lines, default, scope, tx>>

-----------------------------------------------------------------------------
Commit(s) ==
  LET t == tx[s] IN
  /\ t.pc = "commit"
  /\ account' = After(t)
  /\ lines' = IF t.posts THEN lines \cup {t.account} ELSE lines
  /\ open' = IF t.posts THEN open \cup {t.account} ELSE open
  /\ default' = IF t.slot # None THEN [default EXCEPT ![t.slot] = t.account] ELSE default
  /\ UNCHANGED scope
  /\ Start(s, Idle)

(* An error elsewhere in the request, or a lost connection. *)
Rollback(s) == tx[s].pc # "idle" /\ Abort(s)

Values == [type |-> Types, parent |-> Accounts \cup {None}, group |-> BOOLEAN]

(* What a request may change: some of the fields, each to a value of its. *)
Updates ==
  {f \in UNION {[D -> UNION {Values[d] : d \in D}] : D \in SUBSET DOMAIN Values} :
     \A d \in DOMAIN f : f[d] \in Values[d]}

Next ==
  \/ \E s \in Sessions :
       \/ \E a \in Accounts, p \in Accounts \cup {None}, t \in scope.types, g \in BOOLEAN :
            BeginCreate(s, a, p, t, g)
       \/ \E a \in Accounts, f \in Updates : BeginUpdate(s, a, f)
       \/ \E a \in Accounts :
            BeginArchive(s, a) \/ BeginRestore(s, a) \/ BeginDelete(s, a) \/ InsertLine(s, a)
       \/ \E k \in Slots, a \in Accounts \cup {None} : BeginDefault(s, k, a)
       \/ Insert(s)
       \/ Check(s)
       \/ Write(s)
       \/ Refer(s)
       \/ Delete(s)
       \/ SetDefault(s)
       \/ Commit(s)
       \/ Rollback(s)
  \/ \E a \in Accounts : SettleLine(a)

Spec == Init /\ [][Next]_vars

-----------------------------------------------------------------------------
(* Whatever requests race, no line, child or default is left pointing at   *)
(* an account that was deleted, although deletion checks all three before  *)
(* it has the row (accounts.py:317-331).                                   *)
NothingDangles ==
  /\ \A a \in Accounts : account[a].here /\ account[a].parent # None =>
                          account[account[a].parent].here
  /\ \A a \in lines : account[a].here
  /\ \A k \in Slots : default[k] # None => account[default[k]].here

(* With one request at a time the rest holds too.                          *)

(* No set of accounts has all its parents within it. *)
Rooted(chart) ==
  \A S \in SUBSET {a \in Accounts : chart[a].here} :
    S # {} => \E a \in S : chart[a].parent \notin S

Suitable(chart) ==
  /\ \A a \in Accounts : chart[a].here /\ chart[a].parent # None => chart[chart[a].parent].group
  /\ \A a \in lines : ~chart[a].group
  /\ \A k \in Slots : default[k] # None => chart[default[k]].active

(* The chart is a tree: a walk up from any account ends                    *)
(* (0003_chart_of_accounts.py:44).                                         *)
StaysATree == Alone => Rooted(account)

(* Whatever an account was when something came to refer to it, and however *)
(* it was changed, archived and restored since: parents are groups         *)
(* (R2.AC3, R2.AC8), lines are on none (R2.AC2), and defaults are not      *)
(* archived (R3.AC5, R5.AC4).                                              *)
ReferencesSuit == Alone => Suitable(account)

-----------------------------------------------------------------------------
(* Why nothing dangles (ChartProofs).                                      *)

(* A record with the fields of a request. *)
IsRequest(t) ==
  t \in [pc: {t.pc}, account: {t.account}, used: {t.used}, todo: {t.todo}, next: {t.next},
         change: {t.change}, refers: {t.refers}, slot: {t.slot}, posts: {t.posts}, held: {t.held}]

Reference == Accounts \cup {None}

TypedRows ==
  /\ account = [a \in Accounts |-> account[a]]
  /\ \A a \in Accounts : {"here", "parent"} \subseteq DOMAIN account[a] /\ account[a].parent \in Reference
  /\ lines \subseteq Accounts
  /\ default \in [Slots -> Reference]

Typed ==
  /\ TypedRows
  /\ tx = [s \in Sessions |-> tx[s]] /\ \A s \in Sessions : IsRequest(tx[s])

Shares(s, a) == <<a, "key_share">> \in tx[s].held
Deletes(s, a) == <<a, "update">> \in tx[s].held

(* An account is not deleted while another request refers to it, ...       *)
Apart == \A s, r \in Sessions : s # r => \A a \in Accounts : ~(Deletes(s, a) /\ Shares(r, a))

(* ... and was not when it came to. *)
SharedIsHere == \A s \in Sessions, a \in Accounts : Shares(s, a) => account[a].here

(* A request that changes fields creates no account without a parent of    *)
(* its choice, and deletes none.                                           *)
Fields(change) ==
  /\ "here" \in DOMAIN change => change.here = TRUE /\ "parent" \in DOMAIN change
  /\ "parent" \in DOMAIN change => change.parent \in Reference

(* What a request is about to refer to, it shares or is going to share. *)
Refers(s, a) == Shares(s, a) \/ (tx[s].pc = "refer" /\ tx[s].refers = a)

Keeps(s) ==
  LET t == tx[s] IN
  /\ Fields(t.change) /\ Fields(t.next) /\ Fields(t.todo)
  /\ {"here"} \cap (DOMAIN t.next \cup DOMAIN t.todo) = {}
  /\ "parent" \in DOMAIN t.change /\ t.change.parent # None /\ t.pc # "insert" =>
       Refers(s, t.change.parent)

(* A deletion has the account's row and nothing refers to it. *)
Removes(s) ==
  LET t == tx[s] IN
  /\ t.pc = "commit" /\ t.change = Blank /\ t.account \in Accounts
  /\ Deletes(s, t.account) /\ Unused(t.account)
  /\ t.slot = None /\ ~t.posts

Knows(s) ==
  LET t == tx[s] IN
  /\ t.pc \in {"idle", "insert", "check", "write", "refer", "delete", "set", "commit"}
  /\ t.account \in Reference /\ t.slot \in Slots \cup {None} /\ t.posts \in BOOLEAN
  /\ t.pc \notin {"idle", "set"} /\ t.slot = None => t.account \in Accounts
  /\ t.pc = "insert" => "parent" \in DOMAIN t.change
  /\ t.pc = "refer" => t.refers \in Accounts
  /\ t.pc = "set" => t.slot # None /\ ~t.posts
  /\ t.pc \in {"insert", "check", "write", "delete"} => t.slot = None /\ ~t.posts
  /\ t.slot # None \/ t.posts => t.todo = <<>> /\ t.change = <<>>
  /\ t.slot # None /\ t.account # None => t.pc = "set" \/ Refers(s, t.account)
  /\ t.posts => t.account \in Accounts /\ Refers(s, t.account)
  /\ Keeps(s) \/ Removes(s)

Inv ==
  /\ Typed
  /\ Apart
  /\ SharedIsHere
  /\ \A s \in Sessions : Knows(s)
  /\ NothingDangles

(* Why the chart is sound when nobody races (ChartProofs): what a request  *)
(* has checked is still so when it commits.                                *)

OneRequest == \A s, r \in Sessions : tx[s].pc # "idle" /\ tx[r].pc # "idle" => s = r

RowFields == DOMAIN Blank

FullRows == \A a \in Accounts : account[a] = [f \in RowFields |-> account[a][f]]

(* A new account is not there yet, and active. *)
Makes(t) ==
  /\ ~account[t.account].here
  /\ DOMAIN t.change = RowFields /\ t.change.here /\ t.change.active

(* The chart may become what the request's statements have made of it.     *)
Fits(t) ==
  /\ DOMAIN t.change \subseteq RowFields
  /\ IF t.pc = "insert" THEN Makes(t) ELSE Rooted(After(t)) /\ Suitable(After(t))
  /\ t.posts => account[t.account].active /\ ~account[t.account].group
  /\ t.slot # None /\ t.account # None => account[t.account].active

(* What the next statement changes was checked: no default is archived,    *)
(* and what stops being a group has no children.                           *)
Ready(t) ==
  /\ DOMAIN t.todo \subseteq DOMAIN Values
  /\ t.pc = "write" =>
       /\ DOMAIN t.next \subseteq RowFields
       /\ "active" \in DOMAIN t.next /\ ~t.next.active => ~IsDefault(t.account)
       /\ "group" \in DOMAIN t.next /\ ~t.next.group => Childless(t.account)

AloneInv ==
  Alone =>
    /\ OneRequest /\ FullRows
    /\ Rooted(account) /\ Suitable(account)
    /\ \A s \in Sessions : tx[s].pc # "idle" => Fits(tx[s]) /\ Ready(tx[s])

-----------------------------------------------------------------------------
(* What the project says and its code does not do; the first two only when *)
(* requests race.                                                          *)

TreeUnderRaces == Rooted(account)

GroupsHoldNoLinesUnderRaces == \A a \in lines : ~account[a].group

(* "A parent must be a group account of the same type"                     *)
(* (0003_chart_of_accounts.py:44).                                         *)
ParentsShareType ==
  \A a \in Accounts : account[a].here /\ account[a].parent # None =>
                      account[account[a].parent].type = account[a].type

(* "the chart is limited to 10 levels" (0003_chart_of_accounts.py:99).     *)
WithinLevels == \A a \in Accounts : account[a].here => Depth(a) <= Levels

(* "Each default, and the account subtypes it may point at"                *)
(* (defaults.py:13).                                                       *)
DefaultsSuit ==
  \A k \in Slots : default[k] # None =>
                    /\ ~account[default[k]].group
                    /\ account[default[k]].type = Suits[k]

(* "Keeps the account and its history; only new postings are refused"      *)
(* (accounts.py:275): an open item can be settled.                         *)
OpenItemsCanBeSettled == \A a \in open : ENABLED SettleLine(a)
=============================================================================
