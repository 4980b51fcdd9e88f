------------------------------ MODULE MCChart ------------------------------
EXTENDS Chart

CONSTANTS asset, liability, receivable

(* The one default looked at needs an asset. *)
MCSuits == receivable :> asset

Scope(requests, accounts, types, kinds) ==
  [requests |-> requests, accounts |-> accounts, types |-> types, kinds |-> kinds]

(* One request at a time with three accounts, or with two of two types and *)
(* their open items settled; two requests at a time.                       *)
MCScopes ==
  {Scope(1, 3, {asset}, {"create", "update", "archive", "delete", "default", "post"}),
   Scope(1, 2, {asset, liability},
         {"create", "update", "archive", "delete", "default", "post", "settle"}),
   Scope(2, 2, {asset}, {"create", "update", "delete", "default", "post"})}

(* Scopes of single questions: defaults and parents of two types, lines of *)
(* groups, depth, cycles, and open items of archived accounts.             *)
Singled ==
  {Scope(1, 2, {asset, liability}, {"create", "update", "default"}),
   Scope(2, 2, {asset}, {"create", "update", "post"}),
   Scope(1, 3, {asset}, {"create", "update"}),
   Scope(2, 2, {asset}, {"create", "update"}),
   Scope(1, 2, {asset}, {"create", "archive", "post", "settle"})}

(* Accounts are interchangeable, and so are sessions. *)
MCSymmetry == Permutations(Accounts) \cup Permutations(Sessions)
=============================================================================
