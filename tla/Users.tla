------------------------------- MODULE Users -------------------------------
(***************************************************************************)
(* Users (app/platform/identity, app/platform/access, app/cli.py): the     *)
(* first administrator, invitations and their answers, sessions, and the   *)
(* Administrator role in companies, the only role there is.                *)
(*                                                                         *)
(* A worker serves one request in one transaction at READ COMMITTED: the   *)
(* caller's session is loaded and its row written, the rows of the request *)
(* are read and checked, then those it writes are waited for.  Passwords,  *)
(* tokens, mail and the audit log are left out; a session that lapses is   *)
(* like one that is ended.                                                 *)
(***************************************************************************)
EXTENDS Integers, Sequences, FiniteSets, SequencesExt, RowLocks, Identity

CONSTANTS
  Workers,      \* requests being served
  Scopes,       \* bounds to choose from: requests served at once, sessions a
                \* user has at once, invitations sent and the kinds of requests
                \* made, with "expire" where days pass
  None

ASSUME UsersAssumption ==
  /\ \A c \in Scopes : /\ c.requests \in Nat /\ c.sessions \in Nat
                       /\ c.invitations \subseteq Invitations
  /\ Absent \notin UserStates \cup Invitation

VARIABLE
  tx  \* the request each worker serves

rows == <<user, invitation, open, grants, scope>>
vars == <<rows, tx>>

(* A request: where it is, what is asked and by which session, the locks,  *)
(* and what it has written.                                                *)
Idle == [pc |-> "idle", kind |-> None, by |-> None, of |-> None, queue |-> <<>>, held |-> {},
         users |-> <<>>, invitations |-> <<>>, starts |-> {}, ends |-> {},
         granted |-> {}, revoked |-> {}]

Start(w, t) == tx' = [tx EXCEPT ![w] = t] /\ UNCHANGED rows

(* Mutant of Abort: the locks are kept.                                    *)
AbortKeepingLocks(w) == Start(w, [Idle EXCEPT !.held = tx[w].held])

Abort(w) == Start(w, Idle)

At(w, here, kinds) == tx[w].pc = here /\ tx[w].kind \in kinds /\ tx[w].queue = <<>>

(* Requests that come without a session.                                   *)
Public == {"bootstrap", "accept", "login"}

(* What a request is about: an address, an invitation, a user and a        *)
(* company, or its caller.                                                 *)
Subjects(kind) ==
  CASE kind \in {"bootstrap", "login", "invite", "deactivate", "end sessions"} -> People
    [] kind \in {"accept", "resend", "withdraw"} -> Invitations
    [] kind \in {"grant", "revoke"} -> People \X Companies
    [] kind \in {"logout", "password"} -> {None}

(* One row written. *)
Written(key, row) == [k \in {key} |-> row]

Update(row) == <<row, "no_key_update">>
New(key) == <<key, "update">>

-----------------------------------------------------------------------------
(* Rows.                                                                   *)

Invited(person) ==
  [user |-> person, accepted |-> FALSE, revoked |-> FALSE, superseded |-> FALSE, expired |-> FALSE]

(* load_session *)
Usable(session) == session \in open /\ user[session[1]] = "active"

(* requires: in the company of the request, or in any when it has none.    *)
Administers(session, company) ==
  \E g \in grants : g[1] = session[1] /\ (company = None \/ g[2] = company)

(* Ids are drawn anew: one that no request holds.                          *)
FreshInvitations ==
  {i \in scope.invitations : ~Exists(i) /\ \A w \in Workers : i \notin DOMAIN tx[w].invitations}

FreshSessions(person) ==
  {k \in {person} \X (1..scope.sessions) : k \notin open /\ \A w \in Workers : k \notin tx[w].starts}

-----------------------------------------------------------------------------
Init ==
  /\ user = [p \in People |-> Absent]
  /\ invitation = [i \in Invitations |-> Absent]
  /\ open = {}
  /\ grants = {}
  /\ scope \in Scopes
  /\ tx = [w \in Workers |-> Idle]

Acquire(w) == CanTakeLock(tx, w) /\ Start(w, WithLock(tx[w]))

(* A request arrives; current_caller loads its session and then writes     *)
(* when the session was last used.                                         *)
Begin(w, kind, by, of) ==
  /\ tx[w].pc = "idle" /\ kind \in scope.kinds
  /\ Cardinality({v \in Workers : tx[v].pc # "idle"}) < scope.requests
  /\ IF kind \in Public THEN by = None ELSE by \in open /\ Usable(by)
  /\ Start(w, [Idle EXCEPT !.pc = "handle", !.kind = kind, !.by = by, !.of = of,
                           !.queue = IF by = None THEN <<>> ELSE <<Update(by)>>])

(* A handler writes when what it read allows it, and is refused otherwise. *)
Serves(w, kind) == At(w, "handle", {kind})

Handle(w, company, allowed, written) ==
  LET permitted == tx[w].kind \in Public \cup {"logout", "password"} \/ Administers(tx[w].by, company)
  IN IF permitted /\ allowed THEN Start(w, [written EXCEPT !.pc = "write"]) ELSE Abort(w)

(* bootstrap_admin: in the company it is given, or in all.                 *)
Bootstrap(w) ==
  /\ Serves(w, "bootstrap")
  /\ LET t == tx[w] IN
     \E companies \in {Companies} \cup {{c} : c \in Companies} :
       Handle(w, None, \A p \in People : user[p] = Absent,
              [t EXCEPT !.users = Written(t.of, "active"), !.granted = {t.of} \X companies,
                        !.queue = <<New(<<"email", t.of>>)>>])

(* invite_user: whether or not the mail is delivered.                      *)
Invite(w) ==
  /\ Serves(w, "invite")
  /\ LET t == tx[w] IN
     \E i \in FreshInvitations :
       Handle(w, None, user[t.of] = Absent,
              [t EXCEPT !.users = Written(t.of, "invited"), !.invitations = Written(i, Invited(t.of)),
                        !.queue = <<New(<<"email", t.of>>), New(<<"open", t.of>>)>>])

(* An UPDATE of an invitation; another's INSERT waits for it where it is   *)
(* the user's pending one.                                                 *)
Rewrite(i) ==
  <<Update(i)>> \o IF Pending(i) THEN <<New(<<"open", invitation[i].user>>)>> ELSE <<>>

(* resend_invitation *)
Resend(w) ==
  /\ Serves(w, "resend")
  /\ LET t == tx[w]
         person == invitation[t.of].user
     IN
     \E i \in FreshInvitations :
       Handle(w, None, ~invitation[t.of].accepted,
              [t EXCEPT !.invitations = [j \in {t.of, i} |->
                                          IF j = i THEN Invited(person)
                                          ELSE [invitation[j] EXCEPT !.superseded = TRUE]],
                        !.queue = SelectSeq(Rewrite(t.of), LAMBDA l : l[1] = t.of)
                                    \o <<New(<<"open", person>>)>>])

(* revoke_invitation *)
Withdraw(w) ==
  /\ Serves(w, "withdraw")
  /\ LET t == tx[w] IN
     Handle(w, None, ~invitation[t.of].accepted,
            [t EXCEPT !.invitations = Written(t.of, [invitation[t.of] EXCEPT !.revoked = TRUE]),
                      !.queue = Rewrite(t.of)])

(* Mutant of Accept: the link is not asked whether it is still good.       *)
AcceptAny(w) ==
  /\ Serves(w, "accept")
  /\ LET t == tx[w]
         person == invitation[t.of].user
     IN
     \E k \in FreshSessions(person) :
       Handle(w, None, ~invitation[t.of].accepted,
              [t EXCEPT !.users = Written(person, "active"), !.starts = {k},
                        !.invitations = Written(t.of, [invitation[t.of] EXCEPT !.accepted = TRUE]),
                        !.queue = <<Update(person)>> \o Rewrite(t.of)])

(* open_invitation and accept_invitation: the user row is written first.   *)
Accept(w) ==
  /\ Serves(w, "accept")
  /\ LET t == tx[w]
         person == invitation[t.of].user
     IN
     \E k \in FreshSessions(person) :
       Handle(w, None, Pending(t.of) /\ ~invitation[t.of].expired,
              [t EXCEPT !.users = Written(person, "active"), !.starts = {k},
                        !.invitations = Written(t.of, [invitation[t.of] EXCEPT !.accepted = TRUE]),
                        !.queue = <<Update(person)>> \o Rewrite(t.of)])

(* login: authenticate and start_session.                                  *)
Login(w) ==
  /\ Serves(w, "login")
  /\ LET t == tx[w] IN
     \E k \in FreshSessions(t.of) :
       Handle(w, None, user[t.of] = "active", [t EXCEPT !.starts = {k}])

(* logout *)
Logout(w) ==
  /\ Serves(w, "logout")
  /\ Handle(w, None, TRUE, [tx[w] EXCEPT !.ends = {tx[w].by}])

(* end_all_sessions: those there are when they are read, in their order.   *)
Ending(t, sessions) ==
  LET order == SetToSeq(sessions)
  IN [t EXCEPT !.ends = sessions, !.queue = [n \in DOMAIN order |-> Update(order[n])]]

EndSessions(w) ==
  /\ Serves(w, "end sessions")
  /\ LET t == tx[w] IN
     Handle(w, None, user[t.of] # Absent, Ending(t, SessionsOf(t.of)))

(* change_password and deactivate_user: first the user, then the sessions. *)
Password(w) ==
  /\ Serves(w, "password")
  /\ LET t == tx[w] IN
     Handle(w, None, TRUE, [t EXCEPT !.queue = <<Update(t.by[1])>>])

Deactivate(w) ==
  /\ Serves(w, "deactivate")
  /\ LET t == tx[w] IN
     Handle(w, None, user[t.of] # Absent,
            [t EXCEPT !.users = Written(t.of, "deactivated"), !.queue = <<Update(t.of)>>])

Others(t) ==
  IF t.kind = "password" THEN SessionsOf(t.by[1]) \ {t.by} ELSE SessionsOf(t.of)

EndOthers(w) ==
  /\ At(w, "write", {"password", "deactivate"})
  /\ Start(w, [Ending(tx[w], Others(tx[w])) EXCEPT !.pc = "ending"])

(* grant_role *)
Grant(w) ==
  /\ Serves(w, "grant")
  /\ LET t == tx[w] IN
     Handle(w, t.of[2], user[t.of[1]] # Absent /\ t.of \notin grants,
            [t EXCEPT !.granted = {t.of}, !.queue = <<New(<<"grant", t.of>>)>>])

(* _administrator_grants: of all users in all companies.                   *)
Spare == Cardinality(grants) > 1

(* revoke_role *)
Revoke(w) ==
  /\ Serves(w, "revoke")
  /\ LET t == tx[w] IN
     Handle(w, t.of[2], t.of \in grants /\ Spare,
            [t EXCEPT !.revoked = {t.of}, !.queue = <<New(<<"grant", t.of>>)>>])

(* A bound of the model: a request for which no id is left fails.          *)
OutOfIds(w) ==
  /\ \/ At(w, "handle", {"invite", "resend"}) /\ FreshInvitations = {}
     \/ Serves(w, "login") /\ FreshSessions(tx[w].of) = {}
     \/ Serves(w, "accept") /\ FreshSessions(invitation[tx[w].of].user) = {}
  /\ Abort(w)

-----------------------------------------------------------------------------
(* The unique keys: an address, a pending invitation of a user, a grant.   *)

After(t) ==
  [i \in Invitations |-> IF i \in DOMAIN t.invitations THEN t.invitations[i] ELSE invitation[i]]

PendingAfter(t, person) ==
  {i \in Invitations : After(t)[i] # Absent /\ After(t)[i].user = person
                       /\ ~After(t)[i].accepted /\ ~After(t)[i].revoked /\ ~After(t)[i].superseded}

(* Mutant of OnePending: there is no such index.                           *)
OnePendingUnchecked(t) == TRUE

OnePending(t) == \A p \in People : Cardinality(PendingAfter(t, p)) <= 1

Unique(t) ==
  /\ t.kind \in {"bootstrap", "invite"} => user[t.of] = Absent
  /\ OnePending(t)
  /\ t.granted \cap grants = {}

(* Columns that a request did not write keep what others wrote.            *)
Merged(t, i) ==
  IF ~Exists(i) THEN t.invitations[i]
  ELSE [invitation[i] EXCEPT !.accepted = @ \/ t.invitations[i].accepted,
                             !.revoked = @ \/ t.invitations[i].revoked,
                             !.superseded = @ \/ t.invitations[i].superseded]

UsersAfter(t) == [p \in People |-> IF p \in DOMAIN t.users THEN t.users[p] ELSE user[p]]
OpenAfter(t) == (open \cup t.starts) \ t.ends
GrantsAfter(t) == (grants \cup t.granted) \ t.revoked

Finished(t) ==
  t.queue = <<>> /\ (t.pc = "ending" \/ (t.pc = "write" /\ t.kind \notin {"password", "deactivate"}))

Commit(w) ==
  LET t == tx[w] IN
  /\ Finished(t) /\ Unique(t)
  /\ user' = UsersAfter(t)
  /\ invitation' = [i \in Invitations |->
                      IF i \in DOMAIN t.invitations THEN Merged(t, i) ELSE invitation[i]]
  /\ open' = OpenAfter(t)
  /\ grants' = GrantsAfter(t)
  /\ tx' = [tx EXCEPT ![w] = Idle]
  /\ UNCHANGED scope

Refuse(w) == Finished(tx[w]) /\ ~Unique(tx[w]) /\ Abort(w)

(* An error elsewhere in the request, or a lost connection.                *)
Rollback(w) == tx[w].pc # "idle" /\ Abort(w)

DeadlockVictim(w) == InCycle(tx, w) /\ Abort(w)

(* Days pass.                                                              *)
Expire(i) ==
  /\ "expire" \in scope.kinds
  /\ Pending(i) /\ ~invitation[i].expired
  /\ invitation' = [invitation EXCEPT ![i].expired = TRUE]
  /\ UNCHANGED <<user, open, grants, scope, tx>>

Act(w) ==
  \/ Bootstrap(w) \/ Invite(w) \/ Resend(w) \/ Withdraw(w) \/ Accept(w) \/ Login(w) \/ Logout(w)
  \/ EndSessions(w) \/ Password(w) \/ Deactivate(w) \/ EndOthers(w) \/ Grant(w) \/ Revoke(w)
  \/ OutOfIds(w) \/ Commit(w) \/ Refuse(w)

Next ==
  \/ \E w \in Workers :
       \/ \E kind \in scope.kinds \ {"expire"} : \E of \in Subjects(kind), by \in open \cup {None} :
            (of \in Invitations => Exists(of)) /\ Begin(w, kind, by, of)
       \/ Acquire(w)
       \/ Act(w)
       \/ Rollback(w)
       \/ DeadlockVictim(w)
  \/ \E i \in Invitations : Expire(i)

Spec == Init /\ [][Next]_vars

(* A request that is served goes on to its end; PostgreSQL grants a row to *)
(* its waiters in turn and detects deadlocks.                              *)
Fairness ==
  \A w \in Workers : SF_vars(Acquire(w)) /\ WF_vars(Act(w)) /\ WF_vars(DeadlockVictim(w))

FairSpec == Spec /\ Fairness

-----------------------------------------------------------------------------
(* Nor that the deactivated stay so: the invited may accept afterwards.    *)
StaysDeactivated ==
  [][\A p \in People : user[p] = "deactivated" => user'[p] = "deactivated"]_vars

(* Every request ends, although two administrators who end each other's    *)
(* sessions wait for each other.                                           *)
EveryRequestEnds == \A w \in Workers : tx[w].pc # "idle" ~> tx[w].pc = "idle"

-----------------------------------------------------------------------------
(* Why OneOpenInvitation and SoundAlone hold (BankProofs).                 *)

IsRequest(t) ==
  t \in [pc: {"idle", "handle", "write", "ending"}, kind: {t.kind}, by: {t.by}, of: {t.of},
         queue: {t.queue}, held: {t.held}, users: {t.users}, invitations: {t.invitations},
         starts: SUBSET (People \X Nat), ends: {t.ends},
         granted: SUBSET (People \X Companies), revoked: {t.revoked}]

(* Who asks has been a user, and an invitation that is asked about is sent. *)
Asks(t) ==
  /\ t.of \in Subjects(t.kind)
  /\ t.kind \in {"accept", "resend", "withdraw"} => Exists(t.of)
  /\ t.kind \notin Public => t.by \in People \X Nat /\ user[t.by[1]] # Absent

(* Nothing is written before it is handled; rows keep the user they are of. *)
Blank(t) ==
  /\ t.users = <<>> /\ t.invitations = <<>>
  /\ t.starts = {} /\ t.ends = {} /\ t.granted = {} /\ t.revoked = {}

Writes(t) ==
  /\ \A p \in DOMAIN t.users : t.users[p] \in UserStates
  /\ DOMAIN t.invitations \subseteq Invitations /\ IsFiniteSet(DOMAIN t.invitations)
  /\ \A i \in DOMAIN t.invitations :
       t.invitations[i] \in Invitation /\ (Exists(i) => invitation[i].user = t.invitations[i].user)

Request(t) ==
  /\ IsRequest(t) /\ Writes(t)
  /\ t.pc # "idle" => Asks(t)
  /\ t.pc \in {"idle", "handle"} => Blank(t)

Typed ==
  /\ user \in [People -> UserStates \cup {Absent}]
  /\ invitation \in [Invitations -> Invitation \cup {Absent}]
  /\ IsFiniteSet({i \in Invitations : Exists(i)})
  /\ open \subseteq People \X Nat /\ grants \subseteq People \X Companies
  /\ scope \in Scopes
  /\ tx = [w \in Workers |-> tx[w]] /\ \A w \in Workers : Request(tx[w])

(* No two requests send one invitation.                                    *)
SentApart ==
  \A v, w \in Workers : \A i \in DOMAIN tx[v].invitations \cap DOMAIN tx[w].invitations :
    v # w => Exists(i)

(* Requests served one at a time, once there is a company: no other is     *)
(* served, and what one is going to leave is sound before it is written.   *)
Single == scope.requests = 1 /\ Companies # {}

Busy == {w \in Workers : tx[w].pc # "idle"}
Alone == IsFiniteSet(Busy) /\ (Single => \A v, w \in Busy : v = w)

(* Whoever is invited was invited by an administrator.                     *)
Administered == (\E p \in People : user[p] # Absent) \/ (\E i \in Invitations : Exists(i)) => grants # {}

LeavesSound(t) ==
  /\ \A i \in DOMAIN t.invitations :
       Merged(t, i).accepted => ~Merged(t, i).revoked /\ ~Merged(t, i).superseded
  /\ GrantsAfter(t) # {}
  /\ \A p \in People : UsersAfter(t)[p] = "deactivated" => \A k \in OpenAfter(t) : k[1] # p

(* Until it has read the sessions it ends it writes a user and no more.    *)
OnlyUser(t) ==
  /\ t.invitations = <<>> /\ t.starts = {} /\ t.revoked = {} /\ grants # {}
  /\ \A p \in DOMAIN t.users : t.kind = "deactivate" /\ p = t.of

EndsOthers(t) == t.pc = "write" /\ t.kind \in {"password", "deactivate"}

Knows(t) ==
  /\ t.pc \in {"write", "ending"} /\ ~EndsOthers(t) => LeavesSound(t)
  /\ EndsOthers(t) => OnlyUser(t)

Inv ==
  /\ Typed /\ SentApart /\ OneOpenInvitation /\ Alone
  /\ Single => Outcomes /\ Administered /\ SignedOut /\ \A w \in Workers : Knows(tx[w])
=============================================================================
