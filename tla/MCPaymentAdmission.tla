------------------------- MODULE MCPaymentAdmission -------------------------
(***************************************************************************)
(* Instances of PaymentAdmission for TLC: workers, keys, phones and        *)
(* packages are alike.                                                     *)
(***************************************************************************)
EXTENDS PaymentAdmission, TLC

Symmetry ==
    Permutations(Workers) \cup Permutations(Keys) \cup Permutations(Phones)
        \cup Permutations(Packages)
=============================================================================
