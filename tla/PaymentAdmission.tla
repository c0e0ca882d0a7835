-------------------------- MODULE PaymentAdmission --------------------------
(***************************************************************************)
(* The first part of create_public_payment: whether a portal request       *)
(* becomes a payment session and a charge at the provider.  One router's   *)
(* portal and packages, which its operator changes meanwhile.  A worker    *)
(* process admits one request at a time, from its first read to its commit *)
(* (nothing is awaited in between); then it awaits the provider, and       *)
(* admits others.  Clients send any request, again and again.              *)
(***************************************************************************)
EXTENDS Naturals, FiniteSets

CONSTANTS
    Workers,   \* processes of the API
    Keys,      \* Idempotency-Key headers
    Phones, Ips, Packages,
    NoIp,      \* a request whose address is not known
    None,      \* no session, no request
    Limit      \* public_payment_limit

Requests == [key : Keys, phone : Phones, ip : Ips, package : Packages]
Sessions == [recent : BOOLEAN, phone : Phones, ip : Ips, package : Packages]

ASSUME LimitAssumption == Limit \in Nat \ {0}
ASSUME WorkersAssumption == IsFiniteSet(Workers) /\ Workers # {}
ASSUME KeysAssumption == IsFiniteSet(Keys)
ASSUME NoIpAssumption == NoIp \in Ips
ASSUME NoneAssumption == None \notin Requests \cup Sessions

VARIABLES
    portal,    \* open, closed or deleted
    package,   \* whether a package is missing, active or retired
    session,   \* the session committed for each key
    checked,   \* the request a worker has checked and not yet inserted
    charging,  \* the requests a worker has inserted and not yet answered
    charges,   \* external: how often the provider was asked for each key
    answered   \* history: the last request that was answered with a session

vars == <<portal, package, session, checked, charging, charges, answered>>

Init ==
    /\ portal \in {"open", "closed"}
    /\ package \in [Packages -> {"missing", "active"}]
    /\ session = [k \in Keys |-> None]
    /\ checked = [w \in Workers |-> None]
    /\ charging = [w \in Workers |-> {}]
    /\ charges = [k \in Keys |-> 0]
    /\ answered = None

-----------------------------------------------------------------------------
(* Operators whose comment says "Defect:" are plausible mistakes in the    *)
(* operator that follows them; no action uses them.                        *)

(* The portal and the package are looked up before the key is: a retry of  *)
(* an accepted request is refused once its package is retired.             *)
OnOffer(r) == portal = "open" /\ package[r.package] = "active"

(* _fingerprint.  Defect: without the phone.                               *)
SamePackage(r, s) == r.package = s.package
SameRequest(r, s) == r.phone = s.phone /\ r.package = s.package

Recent(k) == session[k] # None /\ session[k].recent

(* The recent sessions of the phone or, when it is known, of the address.  *)
(* Defect: of the address alone.                                           *)
CountedByIp(r) == {k \in Keys : Recent(k) /\ session[k].ip = r.ip}
Counted(r) ==
    {k \in Keys : /\ Recent(k)
                  /\ \/ session[k].phone = r.phone
                     \/ r.ip # NoIp /\ session[k].ip = r.ip}

Refused(r) ==
    \/ ~OnOffer(r)
    \/ session[r.key] # None /\ ~SameRequest(r, session[r.key])
    \/ session[r.key] = None /\ Cardinality(Counted(r)) >= Limit

Refuse(w) ==
    /\ checked[w] = None
    /\ {r \in Requests : Refused(r)} # {}
    /\ UNCHANGED vars

Repeat(w, r) ==
    /\ checked[w] = None
    /\ OnOffer(r) /\ session[r.key] # None /\ SameRequest(r, session[r.key])
    /\ answered' = r
    /\ UNCHANGED <<portal, package, session, checked, charging, charges>>

Check(w, r) ==
    /\ checked[w] = None
    /\ OnOffer(r) /\ session[r.key] = None
    /\ Cardinality(Counted(r)) < Limit
    /\ checked' = [checked EXCEPT ![w] = r]
    /\ UNCHANGED <<portal, package, session, charging, charges, answered>>

(* uq_payment_router_idempotency.  Defect: a key of the snapshot is free.  *)
KeyUnchecked(k) == TRUE
KeyFree(k) == session[k] = None

Insert(w) ==
    /\ checked[w] # None
    /\ LET r == checked[w] IN
       IF KeyFree(r.key)
       THEN /\ session' = [session EXCEPT ![r.key] =
                 [recent |-> TRUE, phone |-> r.phone, ip |-> r.ip, package |-> r.package]]
            /\ charging' = [charging EXCEPT ![w] = @ \cup {r}]
       ELSE UNCHANGED <<session, charging>>
    /\ checked' = [checked EXCEPT ![w] = None]
    /\ UNCHANGED <<portal, package, charges, answered>>

(* initiate_provider: asked once, answered with the session or an error.   *)
Charge(w, r) ==
    /\ r \in charging[w]
    /\ charges' = [charges EXCEPT ![r.key] = @ + 1]
    /\ charging' = [charging EXCEPT ![w] = @ \ {r}]
    /\ answered' \in {answered, r}
    /\ UNCHANGED <<portal, package, session, checked>>

(* The provider's token cannot be had: it is not asked at all.             *)
ChargeFails(w, r) ==
    /\ r \in charging[w]
    /\ charging' = [charging EXCEPT ![w] = @ \ {r}]
    /\ UNCHANGED <<portal, package, session, checked, charges, answered>>

(* A session leaves the window of the limiter.                             *)
WindowPasses(k) ==
    /\ Recent(k)
    /\ session' = [session EXCEPT ![k].recent = FALSE]
    /\ UNCHANGED <<portal, package, checked, charging, charges, answered>>

Crash(w) ==
    /\ checked[w] # None \/ charging[w] # {}
    /\ checked' = [checked EXCEPT ![w] = None]
    /\ charging' = [charging EXCEPT ![w] = {}]
    /\ UNCHANGED <<portal, package, session, charges, answered>>

(* create_package, update_package and retire_package.                      *)
EditPackage(p, state) ==
    /\ portal # "deleted"
    /\ package[p] # state /\ (state = "retired" => package[p] = "active")
    /\ package' = [package EXCEPT ![p] = state]
    /\ UNCHANGED <<portal, session, checked, charging, charges, answered>>

(* update_router, and delete_router, which retires the packages too.       *)
EditPortal(state) ==
    /\ portal # "deleted" /\ portal # state
    /\ portal' = state
    /\ package' = [p \in Packages |->
                     IF state = "deleted" /\ package[p] = "active" THEN "retired"
                                                                   ELSE package[p]]
    /\ UNCHANGED <<session, checked, charging, charges, answered>>

-----------------------------------------------------------------------------
Next ==
    \/ \E w \in Workers, r \in Requests : Repeat(w, r) \/ Check(w, r)
    \/ \E w \in Workers : Refuse(w) \/ Insert(w) \/ Crash(w)
    \/ \E w \in Workers : \E r \in charging[w] : Charge(w, r) \/ ChargeFails(w, r)
    \/ \E k \in Keys : WindowPasses(k)
    \/ \E p \in Packages, state \in {"active", "retired"} : EditPackage(p, state)
    \/ \E state \in {"open", "closed", "deleted"} : EditPortal(state)

Spec == Init /\ [][Next]_vars

-----------------------------------------------------------------------------
(* The variables keep their types; the request that is charged is the one  *)
(* the session of its key was made from.                                   *)
TypeOK ==
    /\ portal \in {"open", "closed", "deleted"}
    /\ package \in [Packages -> {"missing", "active", "retired"}]
    /\ session \in [Keys -> Sessions \cup {None}]
    /\ checked \in [Workers -> Requests \cup {None}]
    /\ charging \in [Workers -> SUBSET Requests]
    /\ \A w \in Workers : \A r \in charging[w] :
         session[r.key] # None /\ session[r.key].phone = r.phone
    /\ charges \in [Keys -> Nat]
    /\ answered \in Requests \cup {None}

(* However often a request is sent, to whatever workers at once, and       *)
(* wherever they die, the provider is asked once for its key at most: not  *)
(* again, and not a second time by a worker that is still to do so.        *)
ChargedOnce ==
    \A k \in Keys :
        /\ charges[k] <= 1
        /\ charges[k] = 1 => \A w \in Workers : \A r \in charging[w] : r.key # k

(* Whoever is answered with a session is answered with one of his phone    *)
(* and package, although two clients may use one key at once.              *)
AnswersMatch ==
    answered # None =>
        /\ session[answered.key] # None
        /\ session[answered.key].phone = answered.phone
        /\ session[answered.key].package = answered.package

(* The limiter counts before it inserts, so concurrent requests of a phone *)
(* or of a known address pass it together, but no more of them than there  *)
(* are workers.                                                            *)
Clients == ({"phone"} \X Phones) \cup ({"address"} \X (Ips \ {NoIp}))
From(x, c) == IF c[1] = "phone" THEN x.phone = c[2] ELSE x.ip = c[2]

LimitHeld ==
    \A c \in Clients :
        Cardinality({k \in Keys : Recent(k) /\ From(session[k], c)})
            <= Limit + Cardinality(Workers) - 1

(* Seen from the clients, an Idempotency-Key is what IdempotentCharges     *)
(* promises, through retries to other workers, kills between the commit    *)
(* and the charge, and a portal that is changed meanwhile.                 *)
Purchase(r) == [phone |-> r.phone, package |-> r.package]
Bought == [k \in Keys |-> IF session[k] = None THEN {} ELSE {Purchase(session[k])}]
Answered == IF answered = None THEN {} ELSE {<<answered.key, Purchase(answered)>>}
Promise == INSTANCE IdempotentCharges WITH bought <- Bought, answered <- Answered

ImplementsCharges == Promise!Spec

=============================================================================
