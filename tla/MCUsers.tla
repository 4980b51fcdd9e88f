------------------------------ MODULE MCUsers ------------------------------
EXTENDS Users, TLC

Scope(requests, sessions, invitations, kinds) ==
  [requests |-> requests, sessions |-> sessions, invitations |-> invitations, kinds |-> kinds]

Begun == {"bootstrap", "login", "invite", "accept"}

Two == CHOOSE S \in SUBSET Invitations : Cardinality(S) = 2

(* One request at a time over invitations, and over users; two at a time   *)
(* over invitations, over invitations that are sent again and again, and   *)
(* over users.                                                             *)
MCScopes ==
  {Scope(1, 1, Two, Begun \cup {"resend", "withdraw", "expire", "logout", "end sessions"}),
   Scope(1, 2, Two, Begun \cup {"password", "deactivate", "grant", "revoke"}),
   Scope(2, 1, Two, Begun \cup {"resend", "withdraw"}),
   Scope(2, 1, Invitations, {"bootstrap", "login", "invite", "resend"}),
   Scope(2, 1, Two, Begun \cup {"password", "deactivate"})}

(* Scopes of single questions: deactivating, answers at once, revoking.    *)
Singled ==
  {Scope(1, 1, Invitations, Begun \cup {"deactivate"}),
   Scope(2, 1, Invitations, Begun \cup {"withdraw"}),
   Scope(2, 1, Invitations, Begun \cup {"deactivate"}),
   Scope(2, 1, Invitations, Begun \cup {"grant", "revoke"})}

(* Workers are interchangeable, and so are invitations. *)
MCSymmetry == Permutations(Workers) \cup Permutations(Invitations)
=============================================================================
