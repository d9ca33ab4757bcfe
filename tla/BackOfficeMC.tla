---------------------------- MODULE BackOfficeMC ----------------------------
(***************************************************************************)
(* Values of BackOffice's constants for TLC.                               *)
(***************************************************************************)
EXTENDS BackOffice, TLC

FewRequests == [members |-> 5, invites |-> 6, rules |-> 8, checkout |-> 4]

Symmetry == Permutations(Clerks) \union Permutations(Rooms)
=============================================================================
