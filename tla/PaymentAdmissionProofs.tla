------------------------ MODULE PaymentAdmissionProofs ------------------------
(***************************************************************************)
(* What holds of PaymentAdmission for any workers, keys, phones, addresses *)
(* and packages, and any limit.                                            *)
(***************************************************************************)
EXTENDS PaymentAdmission, FiniteSetTheorems, TLAPS

-----------------------------------------------------------------------------
(* Types.                                                                  *)

LEMMA NoneApart == (\A r \in Requests : r # None) /\ (\A s \in Sessions : s # None)
  BY NoneAssumption

LEMMA RequestMakesSession ==
  ASSUME NEW r \in Requests
  PROVE  /\ r.key \in Keys /\ r.phone \in Phones
         /\ [recent |-> TRUE, phone |-> r.phone, ip |-> r.ip, package |-> r.package] \in Sessions
  BY DEF Requests, Sessions

LEMMA SessionAges ==
  ASSUME NEW s \in Sessions
  PROVE  /\ [s EXCEPT !.recent = FALSE] \in Sessions
         /\ [s EXCEPT !.recent = FALSE].phone = s.phone
         /\ [s EXCEPT !.recent = FALSE].package = s.package
  BY DEF Sessions

LEMMA TypeInit == Init => TypeOK
  BY NoneAssumption DEF Init, TypeOK

LEMMA InsertTyped ==
  ASSUME TypeOK, NEW w \in Workers, Insert(w)
  PROVE  TypeOK'
  <1> DEFINE r == checked[w]
             s == [recent |-> TRUE, phone |-> r.phone, ip |-> r.ip, package |-> r.package]
  <1>1. /\ r \in Requests /\ r.key \in Keys /\ r.phone \in Phones
        /\ s \in Sessions /\ s # None /\ s.phone = r.phone
    <2>1. r \in Requests
      BY DEF TypeOK, Insert
    <2> QED BY <2>1, RequestMakesSession, NoneApart
  <1>2. checked' \in [Workers -> Requests \cup {None}]
    BY DEF TypeOK, Insert
  <1>3. UNCHANGED <<portal, package, charges, answered>>
    BY DEF Insert
  <1>4. CASE UNCHANGED <<session, charging>>
    BY <1>2, <1>3, <1>4 DEF TypeOK
  <1>5. CASE /\ session[r.key] = None
             /\ session' = [session EXCEPT ![r.key] = s]
             /\ charging' = [charging EXCEPT ![w] = @ \cup {r}]
    <2> HIDE DEF r, s
    <2>1. /\ session' \in [Keys -> Sessions \cup {None}]
          /\ charging' \in [Workers -> SUBSET Requests]
      BY <1>1, <1>5 DEF TypeOK
    <2>2. ASSUME NEW v \in Workers, NEW q \in charging'[v]
          PROVE  session'[q.key] # None /\ session'[q.key].phone = q.phone
      <3>1. CASE q = r
        BY <1>1, <1>5, <3>1 DEF TypeOK
      <3>2. CASE q # r
        <4>1. q \in charging[v] /\ q.key \in Keys
          BY <1>5, <3>2 DEF TypeOK, Requests
        <4>2. session[q.key] # None /\ session[q.key].phone = q.phone
          BY <4>1 DEF TypeOK
        <4> QED BY <1>1, <1>5, <4>1, <4>2 DEF TypeOK
      <3> QED BY <3>1, <3>2
    <2> QED BY <1>2, <1>3, <2>1, <2>2 DEF TypeOK
  <1> QED BY <1>4, <1>5 DEF Insert, KeyFree

(* Requests that are done leave the others as they are. *)
LEMMA FewerCharged ==
  ASSUME TypeOK, charging' \in [Workers -> SUBSET Requests],
         \A w \in Workers : charging'[w] \subseteq charging[w],
         UNCHANGED <<portal, package, session>>,
         checked' \in [Workers -> Requests \cup {None}],
         charges' \in [Keys -> Nat], answered' \in Requests \cup {None}
  PROVE  TypeOK'
  BY DEF TypeOK

LEMMA TypeStep == TypeOK /\ [Next]_vars => TypeOK'
  <1> SUFFICES ASSUME TypeOK, [Next]_vars PROVE TypeOK'
    OBVIOUS
  <1>1. CASE \E w \in Workers : Refuse(w)
    BY <1>1 DEF Refuse, vars, TypeOK
  <1>2. CASE \E w \in Workers, r \in Requests : Repeat(w, r)
    BY <1>2 DEF Repeat, TypeOK
  <1>3. CASE \E w \in Workers, r \in Requests : Check(w, r)
    BY <1>3 DEF Check, TypeOK
  <1>4. CASE \E w \in Workers : Insert(w)
    BY <1>4, InsertTyped
  <1>5. CASE \E w \in Workers : Crash(w)
    BY <1>5, FewerCharged DEF Crash, TypeOK
  <1>6. CASE \E w \in Workers : \E r \in charging[w] : Charge(w, r) \/ ChargeFails(w, r)
    <2>0. PICK w \in Workers : \E r \in charging[w] : Charge(w, r) \/ ChargeFails(w, r)
      BY <1>6
    <2>1. PICK r \in charging[w] : Charge(w, r) \/ ChargeFails(w, r)
      BY <2>0
    <2>2. r \in Requests /\ r.key \in Keys
      BY <2>1 DEF TypeOK, Requests
    <2>3. charges' \in [Keys -> Nat] /\ answered' \in Requests \cup {None}
      BY <2>1, <2>2 DEF Charge, ChargeFails, TypeOK
    <2>4. /\ charging' \in [Workers -> SUBSET Requests]
          /\ \A v \in Workers : charging'[v] \subseteq charging[v]
      BY <2>1 DEF Charge, ChargeFails, TypeOK
    <2> QED BY <2>1, <2>3, <2>4, FewerCharged DEF Charge, ChargeFails, TypeOK
  <1>7. CASE \E k \in Keys : WindowPasses(k)
    <2>1. PICK k \in Keys : WindowPasses(k)
      BY <1>7
    <2> DEFINE s == [session[k] EXCEPT !.recent = FALSE]
    <2>2. /\ session[k] \in Sessions /\ s \in Sessions /\ s # None
          /\ s.phone = session[k].phone
      <3>1. session[k] \in Sessions
        BY <2>1 DEF WindowPasses, Recent, TypeOK
      <3> QED BY <3>1, SessionAges, NoneApart
    <2>3. session' = [session EXCEPT ![k] = s]
          /\ UNCHANGED <<portal, package, checked, charging, charges, answered>>
      BY <2>1 DEF WindowPasses
    <2> HIDE DEF s
    <2>4. ASSUME NEW w \in Workers, NEW r \in charging[w]
          PROVE  session'[r.key] # None /\ session'[r.key].phone = r.phone
      BY <2>2, <2>3 DEF TypeOK, Requests
    <2> QED BY <2>2, <2>3, <2>4 DEF TypeOK
  <1>8. CASE \E p \in Packages, state \in {"active", "retired"} : EditPackage(p, state)
    BY <1>8 DEF EditPackage, TypeOK
  <1>9. CASE \E state \in {"open", "closed", "deleted"} : EditPortal(state)
    BY <1>9 DEF EditPortal, TypeOK
  <1>10. CASE UNCHANGED vars
    BY <1>10 DEF vars, TypeOK
  <1> QED BY <1>1, <1>2, <1>3, <1>4, <1>5, <1>6, <1>7, <1>8, <1>9, <1>10 DEF Next

LEMMA Typed == Spec => []TypeOK
  BY TypeInit, TypeStep, PTL DEF Spec

(* The variables keep their types, and whoever is charged has a session.   *)
THEOREM AdmissionTypeCorrect == Spec => []TypeOK
  BY Typed

-----------------------------------------------------------------------------
(* A key is in one worker's hands at most, a key without a session was     *)
(* never charged, and a session keeps the phone and package of the request *)
(* that made it.                                                           *)
KeyInv ==
    /\ \A w, v \in Workers : \A r \in charging[w] : \A q \in charging[v] :
         r.key = q.key => w = v /\ r = q
    /\ \A w \in Workers : \A r \in charging[w] : session[r.key].package = r.package
    /\ \A k \in Keys : session[k] = None => charges[k] = 0

AdmissionInv == ChargedOnce /\ AnswersMatch /\ KeyInv

LEMMA AdmissionInit == Init => AdmissionInv
  BY DEF Init, AdmissionInv, ChargedOnce, AnswersMatch, KeyInv

(* What is said of the keys depends on these variables only. *)
LEMMA KeysKept ==
  ASSUME AdmissionInv, UNCHANGED <<session, charging, charges, answered>>
  PROVE  AdmissionInv'
  BY DEF AdmissionInv, ChargedOnce, AnswersMatch, KeyInv

LEMMA InsertKeeps ==
  ASSUME TypeOK, AdmissionInv, NEW w \in Workers, Insert(w)
  PROVE  AdmissionInv'
  <1> DEFINE r == checked[w]
             s == [recent |-> TRUE, phone |-> r.phone, ip |-> r.ip, package |-> r.package]
  <1>1. r \in Requests /\ r.key \in Keys /\ s \in Sessions /\ s # None
    <2>1. r \in Requests
      BY DEF TypeOK, Insert
    <2> QED BY <2>1, RequestMakesSession, NoneApart
  <1>2. s.package = r.package /\ UNCHANGED <<charges, answered>>
    BY DEF Insert
  <1>3. CASE UNCHANGED <<session, charging>>
    BY <1>2, <1>3, KeysKept
  <1>4. CASE /\ session[r.key] = None
             /\ session' = [session EXCEPT ![r.key] = s]
             /\ charging' = [charging EXCEPT ![w] = @ \cup {r}]
    <2> HIDE DEF r, s
    <2>1. \A v \in Workers : \A q \in charging[v] : q.key \in Keys /\ q.key # r.key
      BY <1>4 DEF TypeOK, Requests
    <2>2. charges[r.key] = 0
      BY <1>1, <1>4 DEF AdmissionInv, KeyInv
    <2>3. \A v \in Workers : \A q \in charging'[v] : q \in charging[v] \/ (v = w /\ q = r)
      BY <1>4 DEF TypeOK
    <2>4. ChargedOnce'
      BY <1>2, <2>2, <2>3 DEF AdmissionInv, ChargedOnce
    <2>5. AnswersMatch'
      <3> SUFFICES ASSUME answered # None
                   PROVE  /\ session'[answered.key] # None
                          /\ session'[answered.key].phone = answered.phone
                          /\ session'[answered.key].package = answered.package
        BY <1>2 DEF AnswersMatch
      <3>1. answered.key \in Keys /\ answered.key # r.key
        BY <1>4 DEF TypeOK, Requests, AdmissionInv, AnswersMatch
      <3> QED BY <1>4, <3>1 DEF TypeOK, AdmissionInv, AnswersMatch
    <2>6. KeyInv'
      <3>1. \A v, u \in Workers : \A q \in charging'[v] : \A p \in charging'[u] :
              q.key = p.key => v = u /\ q = p
        BY <2>1, <2>3 DEF AdmissionInv, KeyInv
      <3>2. \A v \in Workers : \A q \in charging'[v] : session'[q.key].package = q.package
        BY <1>1, <1>2, <1>4, <2>1, <2>3 DEF TypeOK, AdmissionInv, KeyInv
      <3>3. \A k \in Keys : session'[k] = None => charges'[k] = 0
        BY <1>1, <1>2, <1>4 DEF TypeOK, AdmissionInv, KeyInv
      <3> QED BY <3>1, <3>2, <3>3 DEF KeyInv
    <2> QED BY <2>4, <2>5, <2>6 DEF AdmissionInv
  <1> QED BY <1>3, <1>4 DEF Insert, KeyFree

LEMMA ChargeKeeps ==
  ASSUME TypeOK, AdmissionInv, NEW w \in Workers, NEW r \in charging[w],
         Charge(w, r) \/ ChargeFails(w, r)
  PROVE  AdmissionInv'
  <1>1. /\ r \in Requests /\ r.key \in Keys
        /\ session[r.key] # None /\ session[r.key].phone = r.phone
        /\ session[r.key].package = r.package
    BY DEF TypeOK, Requests, AdmissionInv, KeyInv
  <1>2. /\ UNCHANGED session /\ answered' \in {answered, r}
        /\ charging' = [charging EXCEPT ![w] = @ \ {r}]
        /\ charges' = charges \/ charges' = [charges EXCEPT ![r.key] = @ + 1]
    BY DEF Charge, ChargeFails
  <1>3. charges[r.key] = 0
    BY <1>1 DEF TypeOK, AdmissionInv, ChargedOnce
  <1>4. /\ \A v \in Workers : charging'[v] \subseteq charging[v]
        /\ \A v \in Workers : \A q \in charging'[v] : q.key # r.key
    BY <1>2 DEF TypeOK, AdmissionInv, KeyInv
  <1>5. \A k \in Keys : charges'[k] = charges[k] \/ (k = r.key /\ charges'[k] = 1)
    BY <1>1, <1>2, <1>3 DEF TypeOK
  <1>6. ChargedOnce'
    BY <1>4, <1>5 DEF AdmissionInv, ChargedOnce
  <1>7. AnswersMatch'
    BY <1>1, <1>2 DEF AdmissionInv, AnswersMatch
  <1>8. KeyInv'
    BY <1>1, <1>2, <1>4, <1>5 DEF AdmissionInv, KeyInv
  <1> QED BY <1>6, <1>7, <1>8 DEF AdmissionInv

LEMMA AdmissionStep == TypeOK /\ AdmissionInv /\ [Next]_vars => AdmissionInv'
  <1> SUFFICES ASSUME TypeOK, AdmissionInv, [Next]_vars PROVE AdmissionInv'
    OBVIOUS
  <1>1. CASE \E w \in Workers : Refuse(w)
    BY <1>1, KeysKept DEF Refuse, vars
  <1>2. CASE \E w \in Workers, r \in Requests : Repeat(w, r)
    BY <1>2 DEF Repeat, SameRequest, AdmissionInv, ChargedOnce, AnswersMatch, KeyInv
  <1>3. CASE \E w \in Workers, r \in Requests : Check(w, r)
    BY <1>3, KeysKept DEF Check
  <1>4. CASE \E w \in Workers : Insert(w)
    BY <1>4, InsertKeeps
  <1>5. CASE \E w \in Workers : Crash(w)
    <2>1. PICK w \in Workers : Crash(w)
      BY <1>5
    <2>2. \A v \in Workers : charging'[v] \subseteq charging[v]
      BY <2>1 DEF Crash, TypeOK
    <2>3. UNCHANGED <<session, charges, answered>>
      BY <2>1 DEF Crash
    <2> QED BY <2>2, <2>3 DEF AdmissionInv, ChargedOnce, AnswersMatch, KeyInv
  <1>6. CASE \E w \in Workers : \E r \in charging[w] : Charge(w, r) \/ ChargeFails(w, r)
    BY <1>6, ChargeKeeps
  <1>7. CASE \E k \in Keys : WindowPasses(k)
    <2>1. PICK k \in Keys : WindowPasses(k)
      BY <1>7
    <2> DEFINE s == [session[k] EXCEPT !.recent = FALSE]
    <2>2. /\ s # None /\ session[k] # None
          /\ s.phone = session[k].phone /\ s.package = session[k].package
      <3>1. session[k] \in Sessions
        BY <2>1 DEF WindowPasses, Recent, TypeOK
      <3> QED BY <3>1, SessionAges, NoneApart
    <2>3. session' = [session EXCEPT ![k] = s] /\ UNCHANGED <<charging, charges, answered>>
      BY <2>1 DEF WindowPasses
    <2> HIDE DEF s
    <2>4. \A l \in Keys : /\ session'[l] = None <=> session[l] = None
                          /\ session'[l].phone = session[l].phone
                          /\ session'[l].package = session[l].package
      BY <2>2, <2>3 DEF TypeOK
    <2>5. ChargedOnce'
      BY <2>3 DEF AdmissionInv, ChargedOnce
    <2>6. AnswersMatch'
      BY <2>3, <2>4 DEF TypeOK, Requests, AdmissionInv, AnswersMatch
    <2>7. KeyInv'
      BY <2>3, <2>4 DEF TypeOK, Requests, AdmissionInv, KeyInv
    <2> QED BY <2>5, <2>6, <2>7 DEF AdmissionInv
  <1>8. CASE \E p \in Packages, state \in {"active", "retired"} : EditPackage(p, state)
    BY <1>8, KeysKept DEF EditPackage
  <1>9. CASE \E state \in {"open", "closed", "deleted"} : EditPortal(state)
    BY <1>9, KeysKept DEF EditPortal
  <1>10. CASE UNCHANGED vars
    BY <1>10, KeysKept DEF vars
  <1> QED BY <1>1, <1>2, <1>3, <1>4, <1>5, <1>6, <1>7, <1>8, <1>9, <1>10 DEF Next

LEMMA Admitted == Spec => []AdmissionInv
  BY AdmissionInit, AdmissionStep, Typed, PTL DEF Spec

(* For one Idempotency-Key the provider is asked at most once, however     *)
(* many workers the request is sent to, and is not about to be asked again.*)
THEOREM KeyChargedOnce == Spec => []ChargedOnce
  <1>1. AdmissionInv => ChargedOnce
    BY DEF AdmissionInv
  <1> QED BY <1>1, Admitted, PTL

(* A client is never answered with the session of another phone or for     *)
(* another package, although the key is the client's choice.               *)
THEOREM AnswersAlwaysMatch == Spec => []AnswersMatch
  <1>1. AdmissionInv => AnswersMatch
    BY DEF AdmissionInv
  <1> QED BY <1>1, Admitted, PTL

-----------------------------------------------------------------------------
(* The promise of IdempotentCharges.  A new session is an accepted         *)
(* purchase; every other step charges one, answers with one, or does not   *)
(* show.                                                                   *)
BoughtOf(k) == IF session[k] = None THEN {} ELSE {Purchase(session[k])}

LEMMA InitPromised == Init => Promise!Init
  <1> SUFFICES ASSUME Init PROVE Promise!Init
    OBVIOUS
  <1>1. Bought = [k \in Keys |-> {}] /\ Answered = {}
    BY DEF Init, Bought, Answered
  <1> QED BY <1>1 DEF Init, Promise!Init

(* What the clients can see depends on these variables only. *)
LEMMA NothingSeen ==
  ASSUME UNCHANGED <<charges, answered>>,
         \A k \in Keys : BoughtOf(k)' = BoughtOf(k)
  PROVE  UNCHANGED Promise!chargeVars
  <1>1. Bought = [k \in Keys |-> BoughtOf(k)] /\ Bought' = [k \in Keys |-> BoughtOf(k)']
    BY DEF Bought, BoughtOf
  <1>2. Bought' = Bought /\ Answered' = Answered
    BY <1>1 DEF Answered
  <1> QED BY <1>2 DEF Promise!chargeVars

LEMMA InsertAccepts ==
  ASSUME TypeOK, NEW w \in Workers, Insert(w)
  PROVE  Promise!Next \/ UNCHANGED Promise!chargeVars
  <1> DEFINE r == checked[w]
             s == [recent |-> TRUE, phone |-> r.phone, ip |-> r.ip, package |-> r.package]
             p == Purchase(s)
  <1>1. r \in Requests /\ r.key \in Keys /\ s \in Sessions /\ s # None
    <2>1. r \in Requests
      BY DEF TypeOK, Insert
    <2> QED BY <2>1, RequestMakesSession, NoneApart
  <1>2. p \in Promise!Purchases
    BY <1>1 DEF Purchase, Promise!Purchases, Sessions
  <1>3. UNCHANGED <<charges, answered>>
    BY DEF Insert
  <1>4. CASE UNCHANGED session
    BY <1>3, <1>4, NothingSeen DEF BoughtOf
  <1>5. CASE session[r.key] = None /\ session' = [session EXCEPT ![r.key] = s]
    <2> HIDE DEF r, s
    <2> DEFINE k == r.key
    <2>1. k \in Keys /\ Bought[k] = {}
      BY <1>1, <1>5 DEF Bought
    <2>2. \A x \in Keys : BoughtOf(x)' = IF x = k THEN {p} ELSE BoughtOf(x)
      BY <1>1, <1>5 DEF BoughtOf, TypeOK
    <2>3. Bought' = [Bought EXCEPT ![k] = {p}]
      <3>1. Bought = [x \in Keys |-> BoughtOf(x)] /\ Bought' = [x \in Keys |-> BoughtOf(x)']
        BY DEF Bought, BoughtOf
      <3>2. Bought' = [x \in Keys |-> IF x = k THEN {p} ELSE BoughtOf(x)]
        BY <2>2, <3>1
      <3> HIDE DEF p, k
      <3> QED BY <2>1, <3>1, <3>2
    <2>4. Answered' = Answered
      BY <1>3 DEF Answered
    <2> HIDE DEF p, k
    <2>5. Promise!Accept(k)
      BY <1>2, <1>3, <2>1, <2>3, <2>4 DEF Promise!Accept
    <2> QED BY <2>1, <2>5 DEF Promise!Next
  <1> QED BY <1>4, <1>5 DEF Insert, KeyFree

(* A request that has a session of its own is in the name of its purchase. *)
LEMMA OwnPurchase ==
  ASSUME NEW r \in Requests, session[r.key] # None,
         r.phone = session[r.key].phone, r.package = session[r.key].package
  PROVE  r.key \in Keys /\ Bought[r.key] = {Purchase(r)}
  BY DEF Requests, Bought, Purchase

LEMMA RepeatAnswers ==
  ASSUME TypeOK, NEW w \in Workers, NEW r \in Requests, Repeat(w, r)
  PROVE  Promise!Next
  <1>1. r.key \in Keys /\ Bought[r.key] = {Purchase(r)}
    BY OwnPurchase DEF Repeat, SameRequest
  <1>2. Answered' = {<<r.key, Purchase(r)>>} /\ Bought' = Bought /\ charges' = charges
    BY NoneApart DEF Repeat, Answered, Bought
  <1>3. Promise!Answer(r.key)
    BY <1>1, <1>2 DEF Promise!Answer
  <1> QED BY <1>1, <1>3 DEF Promise!Next

LEMMA ChargePromised ==
  ASSUME TypeOK, AdmissionInv, NEW w \in Workers, NEW r \in charging[w], Charge(w, r)
  PROVE  Promise!Next
  <1>1. /\ r \in Requests /\ session[r.key] # None
        /\ r.phone = session[r.key].phone /\ r.package = session[r.key].package
    BY DEF TypeOK, Requests, AdmissionInv, KeyInv
  <1>2. r.key \in Keys /\ Bought[r.key] = {Purchase(r)}
    BY <1>1, OwnPurchase
  <1>3. charges[r.key] = 0
    BY <1>2 DEF TypeOK, AdmissionInv, ChargedOnce
  <1>4. charges' = [charges EXCEPT ![r.key] = 1] /\ Bought' = Bought
    BY <1>3 DEF Charge, Bought, TypeOK
  <1>5. Answered' \in {Answered, {<<r.key, Purchase(r)>>}}
    BY <1>1, NoneApart DEF Charge, Answered
  <1>6. Promise!Charge(r.key)
    BY <1>2, <1>3, <1>4, <1>5 DEF Promise!Charge
  <1> QED BY <1>2, <1>6 DEF Promise!Next

LEMMA PromiseStep ==
  TypeOK /\ AdmissionInv /\ [Next]_vars => [Promise!Next]_(Promise!chargeVars)
  <1> SUFFICES ASSUME TypeOK, AdmissionInv, [Next]_vars
               PROVE  Promise!Next \/ UNCHANGED Promise!chargeVars
    OBVIOUS
  <1>1. CASE \E w \in Workers : Insert(w)
    BY <1>1, InsertAccepts
  <1>2. CASE \E w \in Workers, r \in Requests : Repeat(w, r)
    BY <1>2, RepeatAnswers
  <1>3. CASE \E w \in Workers : \E r \in charging[w] : Charge(w, r)
    BY <1>3, ChargePromised
  <1>4. CASE UNCHANGED <<session, charges, answered>>
    BY <1>4, NothingSeen DEF BoughtOf
  <1>5. CASE \E k \in Keys : WindowPasses(k)
    <2>1. PICK k \in Keys : WindowPasses(k)
      BY <1>5
    <2> DEFINE s == [session[k] EXCEPT !.recent = FALSE]
    <2>2. s # None /\ session[k] # None /\ Purchase(s) = Purchase(session[k])
      <3>1. session[k] \in Sessions
        BY <2>1 DEF WindowPasses, Recent, TypeOK
      <3> QED BY <3>1, SessionAges, NoneApart DEF Purchase
    <2>3. session' = [session EXCEPT ![k] = s] /\ UNCHANGED <<charges, answered>>
      BY <2>1 DEF WindowPasses
    <2> HIDE DEF s
    <2>4. \A x \in Keys : BoughtOf(x)' = BoughtOf(x)
      BY <2>2, <2>3 DEF BoughtOf, TypeOK
    <2> QED BY <2>3, <2>4, NothingSeen
  <1> QED BY <1>1, <1>2, <1>3, <1>4, <1>5
       DEF Next, Refuse, Check, Crash, ChargeFails, EditPackage, EditPortal, vars

(* Workers, retries, kills and changes of the portal are not to be told    *)
(* from one register of purchases, each charged at most once.              *)
THEOREM AdmissionImplementsCharges == Spec => ImplementsCharges
  <1>1. Init => Promise!Init
    BY InitPromised
  <1>2. TypeOK /\ AdmissionInv /\ [Next]_vars => [Promise!Next]_(Promise!chargeVars)
    BY PromiseStep
  <1> QED BY <1>1, <1>2, Typed, Admitted, PTL DEF Spec, ImplementsCharges, Promise!Spec

-----------------------------------------------------------------------------
(* The limiter: recent sessions of a phone or an address, and requests     *)
(* from it that have been counted and not yet inserted.                    *)
RecentOf(c) == {k \in Keys : Recent(k) /\ From(session[k], c)}
CheckedFor(c) == {w \in Workers : checked[w] # None /\ From(checked[w], c)}

LimitInv ==
    \A c \in Clients :
        Cardinality(RecentOf(c)) + Cardinality(CheckedFor(c))
            <= Limit + Cardinality(Workers) - 1

LEMMA Finite ==
  ASSUME NEW c
  PROVE  /\ IsFiniteSet(RecentOf(c)) /\ Cardinality(RecentOf(c)) \in Nat
         /\ IsFiniteSet(CheckedFor(c)) /\ Cardinality(CheckedFor(c)) \in Nat
         /\ Cardinality(CheckedFor(c)) <= Cardinality(Workers)
         /\ Cardinality(Workers) \in Nat /\ Cardinality(Workers) >= 1
  <1>1. RecentOf(c) \in SUBSET Keys /\ CheckedFor(c) \in SUBSET Workers
    BY DEF RecentOf, CheckedFor
  <1>2. /\ IsFiniteSet(RecentOf(c)) /\ IsFiniteSet(CheckedFor(c))
        /\ Cardinality(CheckedFor(c)) <= Cardinality(Workers)
    BY <1>1, FS_Subset, KeysAssumption, WorkersAssumption
  <1>3. Cardinality(Workers) \in Nat /\ Cardinality(Workers) # 0
    BY WorkersAssumption, FS_CardinalityType, FS_EmptySet
  <1> QED BY <1>2, <1>3, FS_CardinalityType

LEMMA LimitInit == Init => LimitInv
  <1> SUFFICES ASSUME Init, NEW c \in Clients
               PROVE  Cardinality(RecentOf(c)) + Cardinality(CheckedFor(c))
                        <= Limit + Cardinality(Workers) - 1
    BY DEF LimitInv
  <1>1. RecentOf(c) = {} /\ CheckedFor(c) = {}
    BY DEF Init, RecentOf, Recent, CheckedFor
  <1> QED BY <1>1, Finite, FS_EmptySet, LimitAssumption

(* Whatever only takes sessions or requests away keeps the sum below. *)
LEMMA LimitKept ==
  ASSUME LimitInv, \A c \in Clients : RecentOf(c)' \subseteq RecentOf(c)
                                     /\ CheckedFor(c)' \subseteq CheckedFor(c)
  PROVE  LimitInv'
  <1> SUFFICES ASSUME NEW c \in Clients
               PROVE  Cardinality(RecentOf(c)') + Cardinality(CheckedFor(c)')
                        <= Limit + Cardinality(Workers) - 1
    BY DEF LimitInv
  <1>1. /\ Cardinality(RecentOf(c)') <= Cardinality(RecentOf(c))
        /\ Cardinality(CheckedFor(c)') <= Cardinality(CheckedFor(c))
        /\ Cardinality(RecentOf(c)') \in Nat /\ Cardinality(CheckedFor(c)') \in Nat
    BY Finite, FS_Subset, FS_CardinalityType
  <1> QED BY <1>1, Finite, LimitAssumption DEF LimitInv

LEMMA CheckKeepsLimit ==
  ASSUME TypeOK, LimitInv, NEW w \in Workers, NEW r \in Requests, Check(w, r)
  PROVE  LimitInv'
  <1> SUFFICES ASSUME NEW c \in Clients
               PROVE  Cardinality(RecentOf(c)') + Cardinality(CheckedFor(c)')
                        <= Limit + Cardinality(Workers) - 1
    BY DEF LimitInv
  <1>1. RecentOf(c)' = RecentOf(c)
    BY DEF Check, RecentOf, Recent
  <1>2. CASE ~From(r, c)
    <2>1. CheckedFor(c)' = CheckedFor(c)
      BY <1>2 DEF Check, CheckedFor, TypeOK
    <2> QED BY <1>1, <2>1 DEF LimitInv
  <1>3. CASE From(r, c)
    <2>1. RecentOf(c) \in SUBSET Counted(r) /\ Counted(r) \in SUBSET Keys
      BY <1>3 DEF RecentOf, Counted, From, Clients
    <2>2. IsFiniteSet(Counted(r)) /\ Cardinality(Counted(r)) \in Nat
      BY <2>1, FS_Subset, FS_CardinalityType, KeysAssumption
    <2>3. Cardinality(RecentOf(c)) <= Cardinality(Counted(r))
      BY <2>1, <2>2, FS_Subset
    <2>4. Cardinality(Counted(r)) < Limit
      BY DEF Check
    <2>5. CheckedFor(c)' \in SUBSET Workers
      BY DEF CheckedFor
    <2>6. /\ Cardinality(CheckedFor(c)') <= Cardinality(Workers)
          /\ Cardinality(CheckedFor(c)') \in Nat
      BY <2>5, FS_Subset, FS_CardinalityType, WorkersAssumption
    <2> QED BY <1>1, <2>2, <2>3, <2>4, <2>6, Finite, LimitAssumption
  <1> QED BY <1>2, <1>3

(* One element more. *)
LEMMA OneMore ==
  ASSUME NEW S, NEW x, IsFiniteSet(S)
  PROVE  IsFiniteSet(S \cup {x}) /\ Cardinality(S \cup {x}) <= Cardinality(S) + 1
  <1>1. /\ IsFiniteSet(S \cup {x}) /\ Cardinality(S) \in Nat
        /\ Cardinality(S \cup {x}) = IF x \in S THEN Cardinality(S) ELSE Cardinality(S) + 1
    BY FS_AddElement, FS_CardinalityType
  <1> QED BY <1>1

LEMMA InsertKeepsLimit ==
  ASSUME TypeOK, LimitInv, NEW w \in Workers, Insert(w)
  PROVE  LimitInv'
  <1> DEFINE r == checked[w]
  <1>1. r \in Requests /\ r # None /\ r.key \in Keys /\ checked' = [checked EXCEPT ![w] = None]
    BY NoneAssumption DEF TypeOK, Insert, Requests
  <1>2. \A c \in Clients : CheckedFor(c)' = CheckedFor(c) \ {w}
    BY <1>1 DEF CheckedFor, TypeOK
  <1>3. CASE UNCHANGED session
    BY <1>2, <1>3, LimitKept DEF RecentOf, Recent
  <1> DEFINE s == [recent |-> TRUE, phone |-> r.phone, ip |-> r.ip, package |-> r.package]
  <1>4. CASE session' = [session EXCEPT ![r.key] = s]
    <2> SUFFICES ASSUME NEW c \in Clients
                 PROVE  Cardinality(RecentOf(c)') + Cardinality(CheckedFor(c)')
                          <= Limit + Cardinality(Workers) - 1
      BY DEF LimitInv
    <2>0. From(s, c) <=> From(r, c)
      BY DEF From
    <2> HIDE DEF s
    <2>1. CASE From(r, c)
      <3>1. w \in CheckedFor(c)
        BY <1>1, <2>1 DEF CheckedFor
      <3>2. RecentOf(c)' \in SUBSET (RecentOf(c) \cup {r.key})
        BY <1>1, <1>4 DEF RecentOf, Recent, TypeOK
      <3>3. Cardinality(RecentOf(c)') <= Cardinality(RecentOf(c)) + 1
        <4>1. /\ IsFiniteSet(RecentOf(c) \cup {r.key})
              /\ Cardinality(RecentOf(c) \cup {r.key}) <= Cardinality(RecentOf(c)) + 1
          <5>1. IsFiniteSet(RecentOf(c)) /\ Cardinality(RecentOf(c)) \in Nat
            BY Finite
          <5> HIDE DEF r
          <5> QED BY <5>1, OneMore
        <4>2. Cardinality(RecentOf(c)') <= Cardinality(RecentOf(c) \cup {r.key})
          BY <3>2, <4>1, FS_Subset
        <4>3. /\ Cardinality(RecentOf(c)') \in Nat
              /\ Cardinality(RecentOf(c) \cup {r.key}) \in Nat
          BY <3>2, <4>1, FS_Subset, FS_CardinalityType
        <4> QED BY <4>1, <4>2, <4>3, Finite
      <3>4. Cardinality(CheckedFor(c)') = Cardinality(CheckedFor(c)) - 1
        BY <1>2, <3>1, Finite, FS_RemoveElement
      <3>5. Cardinality(RecentOf(c)') \in Nat
        BY <3>2, Finite, FS_AddElement, FS_Subset, FS_CardinalityType
      <3> QED BY <3>3, <3>4, <3>5, Finite, LimitAssumption DEF LimitInv
    <2>2. CASE ~From(r, c)
      <3>1. RecentOf(c)' \in SUBSET RecentOf(c)
        BY <1>1, <1>4, <2>0, <2>2 DEF RecentOf, Recent, TypeOK
      <3>2. CheckedFor(c)' \in SUBSET CheckedFor(c)
        BY <1>2
      <3>3. /\ Cardinality(RecentOf(c)') <= Cardinality(RecentOf(c))
            /\ Cardinality(CheckedFor(c)') <= Cardinality(CheckedFor(c))
            /\ Cardinality(RecentOf(c)') \in Nat /\ Cardinality(CheckedFor(c)') \in Nat
        BY <3>1, <3>2, Finite, FS_Subset, FS_CardinalityType
      <3> QED BY <3>3, Finite, LimitAssumption DEF LimitInv
    <2> QED BY <2>1, <2>2
  <1> QED BY <1>3, <1>4 DEF Insert

LEMMA LimitStep == TypeOK /\ LimitInv /\ [Next]_vars => LimitInv'
  <1> SUFFICES ASSUME TypeOK, LimitInv, [Next]_vars PROVE LimitInv'
    OBVIOUS
  <1>1. CASE UNCHANGED <<session, checked>>
    BY <1>1, LimitKept DEF RecentOf, Recent, CheckedFor
  <1>2. CASE \E w \in Workers, r \in Requests : Check(w, r)
    BY <1>2, CheckKeepsLimit
  <1>3. CASE \E w \in Workers : Insert(w)
    BY <1>3, InsertKeepsLimit
  <1>4. CASE \E w \in Workers : Crash(w)
    <2>1. \A c \in Clients : RecentOf(c)' = RecentOf(c)
      BY <1>4 DEF Crash, RecentOf, Recent
    <2>2. \A c \in Clients : CheckedFor(c)' \subseteq CheckedFor(c)
      BY <1>4 DEF Crash, CheckedFor, TypeOK
    <2> QED BY <2>1, <2>2, LimitKept
  <1>5. CASE \E k \in Keys : WindowPasses(k)
    <2>1. \A c \in Clients : CheckedFor(c)' = CheckedFor(c)
      BY <1>5 DEF WindowPasses, CheckedFor
    <2>2. \A c \in Clients : RecentOf(c)' \subseteq RecentOf(c)
      BY <1>5 DEF WindowPasses, RecentOf, Recent, TypeOK, Sessions, From
    <2> QED BY <2>1, <2>2, LimitKept
  <1> QED BY <1>1, <1>2, <1>3, <1>4, <1>5
       DEF Next, Refuse, Repeat, Charge, ChargeFails, EditPackage, EditPortal, vars

(* Requests that pass the limiter at the same time exceed the limit of a   *)
(* phone, or of a known address, by one less than there are workers, and   *)
(* no more.                                                                *)
THEOREM LimitAlmostHeld == Spec => []LimitHeld
  <1>1. LimitInv => LimitHeld
    <2> SUFFICES ASSUME LimitInv, NEW c \in Clients
                 PROVE  Cardinality(RecentOf(c)) <= Limit + Cardinality(Workers) - 1
      BY DEF LimitHeld, RecentOf
    <2> QED BY Finite, LimitAssumption DEF LimitInv
  <1>2. Spec => []LimitInv
    BY LimitInit, LimitStep, Typed, PTL DEF Spec
  <1> QED BY <1>1, <1>2, PTL

=============================================================================
