------------------------- MODULE MCPaymentSessions -------------------------
(***************************************************************************)
(* Instances of PaymentSessions for TLC.  They are small and need no       *)
(* symmetry; liveness would not allow one.                                 *)
(***************************************************************************)
EXTENDS PaymentSessions
=============================================================================
