-------------------------- MODULE IdempotentCharges --------------------------
(***************************************************************************)
(* What the Idempotency-Key of a payment request promises, without workers,*)
(* portals, limits and retries: the first purchase under a key is the only *)
(* one, it is charged at most once, and whoever is answered under the key  *)
(* is answered with that purchase.  PaymentAdmission is shown to implement *)
(* it.                                                                     *)
(***************************************************************************)
EXTENDS Naturals

CONSTANTS
    Keys,              \* Idempotency-Key headers
    Phones, Packages   \* who buys, and what

Purchases == [phone : Phones, package : Packages]

VARIABLES
    bought,    \* the purchase accepted under each key, if there is one
    charges,   \* how often the provider was asked for each key
    answered   \* the key and purchase of the last answer, if there was one

chargeVars == <<bought, charges, answered>>

Init ==
    /\ bought = [k \in Keys |-> {}]
    /\ charges = [k \in Keys |-> 0]
    /\ answered = {}

Accept(k) ==
    /\ bought[k] = {}
    /\ \E p \in Purchases : bought' = [bought EXCEPT ![k] = {p}]
    /\ UNCHANGED <<charges, answered>>

Charge(k) ==
    /\ charges[k] = 0
    /\ charges' = [charges EXCEPT ![k] = 1]
    /\ \E p \in bought[k] : answered' \in {answered, {<<k, p>>}}
    /\ UNCHANGED bought

Answer(k) ==
    /\ \E p \in bought[k] : answered' = {<<k, p>>}
    /\ UNCHANGED <<bought, charges>>

Next ==
    \E k \in Keys :
        \/ Accept(k)
        \/ Charge(k)
        \/ Answer(k)

Spec == Init /\ [][Next]_chargeVars

===============================================================================
