-------------------------- MODULE MCCustomerAccess --------------------------
(***************************************************************************)
(* Instances of CustomerAccess for TLC.  OverdueEnds is a liveness         *)
(* property, so no symmetry is declared.                                   *)
(***************************************************************************)
EXTENDS CustomerAccess

=============================================================================
