------------------------- MODULE MCOnboardingScript -------------------------
(***************************************************************************)
(* Instances of OnboardingScript for TLC.                                  *)
(***************************************************************************)
EXTENDS OnboardingScript
=============================================================================
