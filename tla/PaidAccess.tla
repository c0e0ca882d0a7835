------------------------------ MODULE PaidAccess ------------------------------
(***************************************************************************)
(* What payment sessions promise to the customer and to the ISP, without   *)
(* processes, locks, routers or retries: access is granted in one step, to *)
(* a session that is paid and not shown as provisioned, together with its  *)
(* ledger row.  Only a session that was booked is shown as provisioned.    *)
(* PaymentSessions is shown to implement it.                               *)
(***************************************************************************)
EXTENDS Naturals

CONSTANTS
    Sessions,  \* payment sessions
    GrantCap   \* grants are counted up to this bound

VARIABLES
    money,   \* what the provider knows of the charge
    shown,   \* is the customer shown the access?
    booked,  \* is there a ledger row?
    grants   \* how many windows were started or extended

accessVars == <<money, shown, booked, grants>>

Init ==
    /\ money = [s \in Sessions |-> "unasked"]
    /\ shown = [s \in Sessions |-> FALSE]
    /\ booked = [s \in Sessions |-> FALSE]
    /\ grants = [s \in Sessions |-> 0]

Ask(s) ==
    /\ money[s] = "unasked"
    /\ money' = [money EXCEPT ![s] = "asked"]
    /\ UNCHANGED <<shown, booked, grants>>

Answer(s) ==
    /\ money[s] = "asked"
    /\ \E answer \in {"paid", "declined"} : money' = [money EXCEPT ![s] = answer]
    /\ UNCHANGED <<shown, booked, grants>>

Grant(s) ==
    /\ money[s] = "paid" /\ ~shown[s]
    /\ shown' = [shown EXCEPT ![s] = TRUE]
    /\ booked' = [booked EXCEPT ![s] = TRUE]
    /\ grants' = IF grants[s] < GrantCap THEN [grants EXCEPT ![s] = @ + 1] ELSE grants
    /\ UNCHANGED money

(* The window is still open: it is shown again, and not extended.          *)
ShowAgain(s) ==
    /\ booked[s] /\ ~shown[s]
    /\ shown' = [shown EXCEPT ![s] = TRUE]
    /\ UNCHANGED <<money, booked, grants>>

(* A late status hides what was granted.                                   *)
Hide(hidden) ==
    /\ shown' = [s \in Sessions |-> shown[s] /\ s \notin hidden]
    /\ UNCHANGED <<money, booked, grants>>

Next ==
    \/ \E hidden \in SUBSET Sessions : Hide(hidden)
    \/ \E s \in Sessions : Ask(s) \/ Answer(s) \/ Grant(s) \/ ShowAgain(s)

Spec == Init /\ [][Next]_accessVars

===============================================================================
