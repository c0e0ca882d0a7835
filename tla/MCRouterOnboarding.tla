------------------------- MODULE MCRouterOnboarding -------------------------
(***************************************************************************)
(* The instance of RouterOnboarding for TLC, without symmetry: it checks   *)
(* liveness.                                                               *)
(***************************************************************************)
EXTENDS RouterOnboarding
=============================================================================
