----------------------------- MODULE Identity -----------------------------
(***************************************************************************)
(* The rows of app/platform/identity and app/platform/access, and what     *)
(* must hold of them.  Users has the requests that write them.             *)
(***************************************************************************)
EXTENDS Integers, FiniteSets

CONSTANTS
  People,       \* e-mail addresses, and the users that have them
  Companies,
  Invitations,  \* ids of invitations
  Absent        \* no row

VARIABLES
  user,        \* the state of a user, Absent for an address nobody has
  invitation,  \* invitation rows
  open,        \* sessions that have not ended, each a user and a number
  grants,      \* the users who have the role, with the company
  scope        \* the bounds of this behaviour

UserStates == {"invited", "active", "deactivated"}

Invitation ==
  [user: People, accepted: BOOLEAN, revoked: BOOLEAN, superseded: BOOLEAN, expired: BOOLEAN]

Exists(i) == invitation[i] # Absent

(* Not accepted, withdrawn or superseded; expired or not.                  *)
Pending(i) ==
  Exists(i) /\ ~invitation[i].accepted /\ ~invitation[i].revoked /\ ~invitation[i].superseded

SessionsOf(person) == {k \in open : k[1] = person}

-----------------------------------------------------------------------------
(* A user never has two links that work, whatever invitations are sent,    *)
(* sent again, withdrawn and answered at once (R11.AC8; 0002:90).          *)
OneOpenInvitation ==
  \A p \in People : Cardinality({i \in Invitations : Pending(i) /\ invitation[i].user = p}) <= 1

Outcomes ==
  \A i \in Invitations : Exists(i) /\ invitation[i].accepted =>
                         ~invitation[i].revoked /\ ~invitation[i].superseded

SomeAdministrator == (\E p \in People : user[p] # Absent) => grants # {}

SignedOut == \A p \in People : user[p] = "deactivated" => SessionsOf(p) = {}

(* Requests served one at a time, in any order, leave this: an invitation  *)
(* has ended in one way only, so who accepted it was not told that it was  *)
(* withdrawn or sent again; once there is a user somebody has the role;    *)
(* and a user who is deactivated has no session left (R1.AC6, R5.AC6,      *)
(* R9.AC1, R11.AC6, AC8, AC9).                                             *)
SoundAlone == scope.requests = 1 => Outcomes /\ SomeAdministrator /\ SignedOut

(* What does not hold, even of single requests (Users_gaps.cfg): that an   *)
(* administrator can log in.                                               *)
ActiveAdministrator ==
  (\E p \in People : user[p] # Absent) => \E g \in grants : user[g[1]] = "active"
=============================================================================
