-------------------------- MODULE MCAdminAccounts --------------------------
(***************************************************************************)
(* Instances of AdminAccounts for TLC: workers are alike.                  *)
(***************************************************************************)
EXTENDS AdminAccounts, TLC

Symmetry == Permutations(Workers)
=============================================================================
