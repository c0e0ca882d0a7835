--------------------------- MODULE PaymentSessions ---------------------------
(***************************************************************************)
(* The life of a customer's payment session, from the portal request that  *)
(* creates it to the access it buys: services/payment_service.py, the      *)
(* prepared HotSpot accounts of services/access_service.py that it drives, *)
(* and the payment phases of the jobs process (jobs.py).                   *)
(*                                                                         *)
(* Every process talks to MySQL (autoflush off, REPEATABLE READ) and to    *)
(* slow peers: the payment provider and the customer's router.  A step of  *)
(* this module ends where the code waits for a peer, where it waits for a  *)
(* row lock, and between a read that takes no lock and the write it leads  *)
(* to.  A row lock is held from a locking statement to the end of its      *)
(* transaction, so it is not a variable: it is where a process stands.     *)
(***************************************************************************)
EXTENDS Naturals, FiniteSets

CONSTANTS
    Sessions,    \* payment sessions (PaymentSession rows), created or not
    Mpesa,       \* those paid through M-Pesa; the others use Kopo Kopo
    Hotspot,     \* those that buy HotSpot time; the others renew a PPPoE user
    Threads,     \* API threads that serve polls, webhooks and retries
    Jobs,        \* the singleton maintenance process
    Passwords,   \* generated HotSpot passwords
    NoPassword,  \* a NULL password, or no account on the router
    CleanupLimit,  \* how many sessions the cleanup takes in one run (200)
    MaxOthers,   \* bound on the sessions beside these that cleanup selects
    MaxCrashes,  \* bound on the crashes of processes
    GrantCap     \* grants are counted up to this bound ("that many or more")

ASSUME SessionsAssumption == Sessions # {}
ASSUME SubsetsAssumption == Mpesa \subseteq Sessions /\ Hotspot \subseteq Sessions
ASSUME JobsAssumption == Jobs \notin Threads
ASSUME PasswordsAssumption == NoPassword \notin Passwords
ASSUME BoundsAssumption == MaxCrashes \in Nat /\ GrantCap \in Nat \ {0}
ASSUME CleanupAssumption == CleanupLimit \in Nat \ {0} /\ MaxOthers \in Nat

VARIABLES
    row,      \* committed PaymentSession columns: status, reqid, pwd
    user,     \* HotspotUser row: absent, prepared (expires_at NULL) or granted
    acct,     \* password of the session's account on the router
    grants,   \* how many times this session started or extended a paid window
    booked,   \* is there a Payment (ledger) row whose invoice is this session?
    money,    \* what the provider knows of the charge
    expired,  \* has the clock passed expires_at?
    retired,  \* has the sessions' router been deleted?
    others,   \* how many sessions of other routers the cleanup would select
    create,   \* the coroutine that serves the portal's POST
    prep,     \* the thread that prepares HotSpot access beside it
    proc,     \* API threads and the jobs process
    phase,    \* where the jobs process stands in its iteration
    todo,     \* sessions the current phase has still to handle
    crashes

dbVars  == <<user, grants, booked>>
envVars == <<money, expired, retired, others>>
jobVars == <<phase, todo>>
vars == <<row, user, acct, grants, booked, money, expired, retired, others, create,
          prep, proc, phase, todo, crashes>>

Procs == Threads \cup {Jobs}

Statuses == {"none", "created", "pending", "failed", "manual_review",
             "provisioning_failed", "provisioned"}
OpenStatuses == {"created", "pending"}
CallbackIgnoredStatuses == {"provisioned", "manual_review"}
UserStates == {"absent", "prepared", "granted"}

(* Where a process that has read a row without a lock is about to write a  *)
(* status, and the status it writes.                                       *)
(* Defect: a status no other handler knows.                                *)
TargetMisspelt == [to_failed |-> "failed", to_review |-> "review",
                   to_provisioning_failed |-> "provisioning_failed"]
Target == [to_failed |-> "failed", to_review |-> "manual_review",
           to_provisioning_failed |-> "provisioning_failed"]

ProcSteps == {"idle", "query", "verify", "review", "lock", "router", "commit",
              "rolledback", "delete", "forget"} \cup DOMAIN Target

RowTypes == [status : Statuses, reqid : BOOLEAN, pwd : Passwords \cup {NoPassword}]
ProcTypes == [pc : ProcSteps, s : Sessions, pwd : Passwords \cup {NoPassword},
              saw : UserStates]
PrepTypes == [pc : {"idle", "read", "flush", "router", "commit", "done"},
              pwd : Passwords \cup {NoPassword},
              saw : UserStates, fresh : BOOLEAN]

-----------------------------------------------------------------------------
(* Operators whose comment says "Defect:" are plausible mistakes in the    *)
(* operator that follows them.  No action uses them: they show that a      *)
(* property would notice.                                                  *)

(* Row locks.  complete_payment selects the session FOR UPDATE; the        *)
(* preparing thread holds the row once it has flushed new credentials.     *)

Locked == {"router", "commit"}

Completing(p, s) == proc[p].pc \in Locked /\ proc[p].s = s
Preparing(s) == prep[s].pc \in Locked /\ prep[s].fresh
RowFree(s) == ~Preparing(s) /\ \A p \in Procs : ~Completing(p, s)

PasswordsInUse(s) ==
    {row[s].pwd, acct[s], prep[s].pwd} \cup
    {proc[p].pwd : p \in {q \in Procs : proc[q].s = s}}

(* A row is inserted only where none was seen and updated only where one   *)
(* was; otherwise the unique key or the row count raises, and the          *)
(* transaction rolls back.                                                 *)
UserWriteSucceeds(saw, s) == (saw = "absent") <=> (user[s] = "absent")

SetStatus(s, st) == row' = [row EXCEPT ![s].status = st]

(* Process p moves to step pc for session s; idle forgets what it held,    *)
(* and the session that it names then means nothing.                       *)
Goto(p, pc, s) ==
    proc' = [proc EXCEPT ![p] = [pc |-> pc, s |-> s, pwd |-> NoPassword,
                                 saw |-> "absent"]]
AnySession == CHOOSE s \in Sessions : TRUE
Finish(p) == Goto(p, "idle", AnySession)
Step(p, pc) == proc' = [proc EXCEPT ![p].pc = pc]

(* An exception that leaves the jobs iteration skips its remaining phases. *)
AbortIteration(p) ==
    IF p = Jobs THEN phase' = "expire" /\ todo' = {} ELSE UNCHANGED jobVars

Init ==
    /\ row = [s \in Sessions |->
                [status |-> "none", reqid |-> FALSE, pwd |-> NoPassword]]
    /\ user = [s \in Sessions |-> "absent"]
    /\ acct = [s \in Sessions |-> NoPassword]
    /\ grants = [s \in Sessions |-> 0]
    /\ booked = [s \in Sessions |-> FALSE]
    /\ money = [s \in Sessions |-> "unasked"]
    /\ expired = [s \in Sessions |-> FALSE]
    /\ retired = FALSE /\ others = 0
    /\ create = [s \in Sessions |-> "idle"]
    /\ prep = [s \in Sessions |-> [pc |-> "idle", pwd |-> NoPassword,
                                   saw |-> "absent", fresh |-> FALSE]]
    /\ proc = [p \in Procs |-> [pc |-> "idle", s |-> AnySession, pwd |-> NoPassword,
                                 saw |-> "absent"]]
    /\ phase = "expire"
    /\ todo = {}
    /\ crashes = 0

-----------------------------------------------------------------------------
(* create_public_payment: insert the session, then start the charge and    *)
(* the preparation together and wait for both.                             *)

(* Router, portal and package are looked up in the transaction that        *)
(* inserts the session; they may change in between.                        *)
Admit(s) ==
    /\ create[s] = "idle"
    /\ ~retired
    /\ create' = [create EXCEPT ![s] = "admitted"]
    /\ UNCHANGED <<row, dbVars, acct, envVars, prep, proc, jobVars, crashes>>

CreateSession(s) ==
    /\ create[s] = "admitted"
    /\ SetStatus(s, "created")
    /\ create' = [create EXCEPT ![s] = "initiating"]
    /\ prep' = [prep EXCEPT ![s].pc = "read"]
    /\ UNCHANGED <<dbVars, acct, envVars, proc, jobVars, crashes>>

(* initiate_provider returns or raises; a timeout may raise although the   *)
(* provider accepted the charge.                                           *)
Initiate(s) ==
    /\ create[s] = "initiating"
    /\ \E accepted, answered \in BOOLEAN :
         /\ answered => accepted
         /\ money' = IF accepted THEN [money EXCEPT ![s] = "asked"] ELSE money
         /\ create' = [create EXCEPT ![s] =
                         IF answered THEN "accepted" ELSE "refused"]
    /\ UNCHANGED <<row, dbVars, acct, expired, retired, others, prep, proc, jobVars,
                   crashes>>

(* Defect: the preparation is started and not awaited. *)
NotAwaited(s) == TRUE
Gathered(s) == prep[s].pc = "done"

(* The status is written whatever the row holds by now. *)
SaveInitiation(s) ==
    /\ create[s] = "accepted" /\ Gathered(s)
    /\ RowFree(s)
    /\ row' = [row EXCEPT ![s].reqid = TRUE, ![s].status = "pending"]
    /\ create' = [create EXCEPT ![s] = "done"]
    /\ UNCHANGED <<dbVars, acct, envVars, prep, proc, jobVars, crashes>>

RefuseRead(s) ==
    /\ create[s] = "refused" /\ Gathered(s)
    /\ create' = [create EXCEPT ![s] =
                    IF row[s].status = "created" THEN "refusing" ELSE "done"]
    /\ UNCHANGED <<row, dbVars, acct, envVars, prep, proc, jobVars, crashes>>

RefuseWrite(s) ==
    /\ create[s] = "refusing"
    /\ RowFree(s)
    /\ SetStatus(s, "failed")
    /\ create' = [create EXCEPT ![s] = "done"]
    /\ UNCHANGED <<dbVars, acct, envVars, prep, proc, jobVars, crashes>>

-----------------------------------------------------------------------------
(* _prepare_payment_access: create the HotSpot account before the money    *)
(* arrives.  The status of the session is not looked at.                   *)

PrepareEnds(s) ==
    prep' = [prep EXCEPT ![s] = [pc |-> "done", pwd |-> NoPassword,
                                 saw |-> "absent", fresh |-> FALSE]]

(* The first read fixes the snapshot: the credentials and the user row     *)
(* that this transaction will see.                                         *)
PrepareRead(s) ==
    /\ prep[s].pc = "read"
    /\ IF s \in Hotspot
         THEN prep' = [prep EXCEPT ![s] =
                [pc |-> IF row[s].pwd = NoPassword THEN "flush" ELSE "router",
                 pwd |-> row[s].pwd, saw |-> user[s], fresh |-> FALSE]]
         ELSE PrepareEnds(s)
    /\ UNCHANGED <<row, dbVars, acct, envVars, create, proc, jobVars, crashes>>

(* New credentials are flushed: the UPDATE takes the row lock. *)
PrepareFlush(s) ==
    /\ prep[s].pc = "flush"
    /\ RowFree(s)
    /\ \E new \in Passwords \ PasswordsInUse(s) :
         prep' = [prep EXCEPT ![s].pc = "router", ![s].pwd = new,
                              ![s].fresh = TRUE]
    /\ UNCHANGED <<row, dbVars, acct, envVars, create, proc, jobVars, crashes>>

(* The router call succeeds, or raises before or after it took effect; for *)
(* a deleted router it raises at once.                                     *)
PrepareRouter(s) ==
    /\ prep[s].pc = "router"
    /\ \/ /\ ~retired
          /\ acct' = [acct EXCEPT ![s] = prep[s].pwd]
          /\ prep' = [prep EXCEPT ![s].pc = "commit"] \/ PrepareEnds(s)
       \/ /\ PrepareEnds(s)
          /\ UNCHANGED acct
    /\ UNCHANGED <<row, dbVars, envVars, create, proc, jobVars, crashes>>

PrepareCommit(s) ==
    /\ prep[s].pc = "commit"
    /\ UserWriteSucceeds(prep[s].saw, s)
    /\ user' = IF prep[s].saw = "prepared" THEN user
                                           ELSE [user EXCEPT ![s] = "prepared"]
    /\ row' = IF prep[s].fresh THEN [row EXCEPT ![s].pwd = prep[s].pwd] ELSE row
    /\ PrepareEnds(s)
    /\ UNCHANGED <<acct, grants, booked, envVars, create, proc, jobVars, crashes>>

PrepareRollback(s) ==
    /\ prep[s].pc = "commit"
    /\ PrepareEnds(s)
    /\ UNCHANGED <<row, dbVars, acct, envVars, create, proc, jobVars, crashes>>

-----------------------------------------------------------------------------
(* get_public_payment: a browser polls the session. *)

PollExpired(t, s) ==
    /\ proc[t].pc = "idle"
    /\ row[s].status \in OpenStatuses /\ expired[s]
    /\ Goto(t, "to_failed", s)
    /\ UNCHANGED <<row, dbVars, acct, envVars, create, prep, jobVars, crashes>>

PollPending(t, s) ==
    /\ proc[t].pc = "idle"
    /\ s \in Mpesa /\ row[s].status = "pending" /\ row[s].reqid
    /\ ~expired[s]
    /\ Goto(t, "query", s)
    /\ UNCHANGED <<row, dbVars, acct, envVars, create, prep, jobVars, crashes>>

(* process_mpesa_callback and process_kopokopo_callback.  The provider     *)
(* may deliver an outcome never, once or many times.  An M-Pesa outcome is *)
(* found by the request id the creator saved, a Kopo Kopo one by the       *)
(* session's public id.                                                    *)
CallbackAccepted(t, s) ==
    /\ proc[t].pc = "idle"
    /\ row[s].status \notin CallbackIgnoredStatuses \cup {"none"}
    /\ s \in Mpesa => row[s].reqid

CallbackDeclined(t, s) ==
    /\ money[s] = "declined"
    /\ CallbackAccepted(t, s)
    /\ row[s].status # "failed"
    /\ Goto(t, "to_failed", s)
    /\ UNCHANGED <<row, dbVars, acct, envVars, create, prep, jobVars, crashes>>

(* The amount or the phone may not match the session; M-Pesa callbacks may *)
(* be configured to be verified with a query.                              *)
CallbackPaid(t, s) ==
    /\ money[s] = "paid"
    /\ CallbackAccepted(t, s)
    /\ \E next \in IF s \in Mpesa THEN {"review", "verify", "lock"}
                                  ELSE {"to_review", "lock"} : Goto(t, next, s)
    /\ UNCHANGED <<row, dbVars, acct, envVars, create, prep, jobVars, crashes>>

Verify(t) ==
    /\ proc[t].pc = "verify"
    /\ Finish(t) \/ \E next \in {"lock", "review"} : Goto(t, next, proc[t].s)
    /\ UNCHANGED <<row, dbVars, acct, envVars, create, prep, jobVars, crashes>>

(* _mark_manual_review reads before it writes; an unchanged status is not  *)
(* written.                                                                *)
Review(t) ==
    /\ proc[t].pc = "review"
    /\ IF row[proc[t].s].status \in CallbackIgnoredStatuses
         THEN Finish(t) ELSE Step(t, "to_review")
    /\ UNCHANGED <<row, dbVars, acct, envVars, create, prep, jobVars, crashes>>

(* retry_provisioning *)
Retry(t, s) ==
    /\ proc[t].pc = "idle"
    /\ row[s].status = "provisioning_failed"
    /\ Goto(t, "lock", s)
    /\ UNCHANGED <<row, dbVars, acct, envVars, create, prep, jobVars, crashes>>

(* Defect: every answer but a refusal is taken for a payment. *)
NotDeclined(s) == money[s] # "declined"
QuerySaysPaid(s) == money[s] = "paid"

(* An M-Pesa status query, from a poll or from reconciliation: it says     *)
(* paid, it says anything else (which changes no modelled column), or it   *)
(* raises.                                                                 *)
Query(p) ==
    /\ proc[p].pc = "query"
    /\ \/ QuerySaysPaid(proc[p].s) /\ Step(p, "lock")
       \/ Finish(p)
    /\ UNCHANGED <<row, dbVars, acct, envVars, create, prep, jobVars, crashes>>

(* The write that follows a read without a lock. *)
WriteStatus(p) ==
    LET s == proc[p].s IN
    /\ proc[p].pc \in DOMAIN Target
    /\ RowFree(s)
    /\ SetStatus(s, Target[proc[p].pc])
    /\ Finish(p)
    /\ AbortIteration(p)
    /\ UNCHANGED <<dbVars, acct, envVars, create, prep, crashes>>

-----------------------------------------------------------------------------
(* complete_payment with provision_paid_session: one transaction under the *)
(* row lock, with a router call in the middle.                             *)

(* Defect: the session is read without FOR UPDATE. *)
NoRowLock(s) == TRUE
RowLock(s) == RowFree(s)

(* Defect: the status is not looked at again under the lock. *)
Unchecked(s) == TRUE
StillToProvision(s) == row[s].status # "provisioned"

CompleteAlready(p) ==
    /\ proc[p].pc = "lock"
    /\ RowLock(proc[p].s)
    /\ ~StillToProvision(proc[p].s)
    /\ Finish(p)
    /\ UNCHANGED <<row, dbVars, acct, envVars, create, prep, jobVars, crashes>>

(* A HotSpot session reuses the stored password or draws one.  It calls    *)
(* the router when no user row exists, or when the row is disabled (by an  *)
(* operator, or since an older version); PPPoE always calls it.            *)
CompleteLock(p) ==
    LET s == proc[p].s IN
    /\ proc[p].pc = "lock"
    /\ RowLock(s)
    /\ StillToProvision(s)
    /\ IF s \in Hotspot
         THEN \E pwd \in IF row[s].pwd = NoPassword
                           THEN Passwords \ PasswordsInUse(s) ELSE {row[s].pwd},
                 next \in IF user[s] = "absent" THEN {"router"} ELSE {"router", "commit"} :
                proc' = [proc EXCEPT ![p] =
                   [pc |-> next, s |-> s, pwd |-> pwd, saw |-> user[s]]]
         ELSE Step(p, "router")
    /\ UNCHANGED <<row, dbVars, acct, envVars, create, prep, jobVars, crashes>>

CompleteRouter(p) ==
    LET s == proc[p].s IN
    /\ proc[p].pc = "router"
    /\ \/ /\ ~retired
          /\ acct' = IF s \in Hotspot THEN [acct EXCEPT ![s] = proc[p].pwd] ELSE acct
          /\ Step(p, "commit") \/ Goto(p, "rolledback", s)
       \/ /\ Goto(p, "rolledback", s)
          /\ UNCHANGED acct
    /\ UNCHANGED <<row, dbVars, envVars, create, prep, jobVars, crashes>>

(* Does the transaction of p start or extend a paid window?  A HotSpot     *)
(* user keeps an expiry that is already set.                               *)
(* Defect: every completion starts the window anew.                        *)
ExtendsAlways(p) == TRUE
Extends(p) == proc[p].s \in Hotspot => proc[p].saw # "granted"

(* Defect: the ledger is left for later. *)
NoLedgerRow(s) == UNCHANGED booked
AddLedgerRow(s) == booked' = [booked EXCEPT ![s] = TRUE]

CompleteCommit(p) ==
    LET s == proc[p].s IN
    /\ proc[p].pc = "commit"
    /\ s \in Hotspot => UserWriteSucceeds(proc[p].saw, s)
    /\ row' = [row EXCEPT ![s].status = "provisioned",
                          ![s].pwd = IF s \in Hotspot THEN proc[p].pwd
                                                      ELSE NoPassword]
    /\ user' = IF s \in Hotspot /\ Extends(p)
                 THEN [user EXCEPT ![s] = "granted"] ELSE user
    /\ grants' = IF Extends(p) /\ grants[s] < GrantCap
                   THEN [grants EXCEPT ![s] = @ + 1] ELSE grants
    /\ AddLedgerRow(s)
    /\ Finish(p)
    /\ UNCHANGED <<acct, envVars, create, prep, jobVars, crashes>>

CompleteRollback(p) ==
    /\ proc[p].pc = "commit"
    /\ Goto(p, "rolledback", proc[p].s)
    /\ UNCHANGED <<row, dbVars, acct, envVars, create, prep, jobVars, crashes>>

(* The lock is gone; the row is read again, without one, to record the     *)
(* failure.  The exception then leaves complete_payment.                   *)
RecordFailure(p) ==
    /\ proc[p].pc = "rolledback"
    /\ IF row[proc[p].s].status = "provisioning_failed"
         THEN Finish(p) /\ AbortIteration(p)
         ELSE Step(p, "to_provisioning_failed") /\ UNCHANGED jobVars
    /\ UNCHANGED <<row, dbVars, acct, envVars, create, prep, crashes>>

-----------------------------------------------------------------------------
(* jobs.run: one phase after another, forever. *)

JobsIdle(ph) == phase = ph /\ proc[Jobs].pc = "idle"

(* expire_payment_sessions reads the overdue rows, then writes them all.   *)
(* Defect: a session whose initiation never ended is overlooked.           *)
OverduePending == {s \in Sessions : row[s].status = "pending" /\ expired[s]}
Overdue == {s \in Sessions : row[s].status \in OpenStatuses /\ expired[s]}

ExpireRead ==
    /\ JobsIdle("expire")
    /\ todo' = Overdue
    /\ phase' = "expiring"
    /\ UNCHANGED <<row, dbVars, acct, envVars, create, prep, proc, crashes>>

ExpireWrite ==
    /\ JobsIdle("expiring")
    /\ \A s \in todo : RowFree(s)
    /\ row' = [s \in Sessions |->
                 IF s \in todo THEN [row[s] EXCEPT !.status = "failed"] ELSE row[s]]
    /\ todo' = {}
    /\ phase' = "list"
    /\ UNCHANGED <<dbVars, acct, envVars, create, prep, proc, crashes>>

(* reconcile_pending_payments: which rows are stale enough, and which fit  *)
(* under the limit, is left open.                                          *)
ReconcileList ==
    /\ JobsIdle("list")
    /\ \E stale \in SUBSET {s \in Mpesa : row[s].status = "pending" /\ row[s].reqid
                                          /\ ~expired[s]} : todo' = stale
    /\ phase' = "reconcile"
    /\ UNCHANGED <<row, dbVars, acct, envVars, create, prep, proc, crashes>>

ReconcileNext(s) ==
    /\ JobsIdle("reconcile")
    /\ s \in todo
    /\ todo' = todo \ {s}
    /\ Goto(Jobs, "query", s)
    /\ UNCHANGED <<row, dbVars, acct, envVars, create, prep, phase, crashes>>

(* cleanup_failed_prepared_hotspot_sessions lists the failed sessions with *)
(* credentials, then takes each in a transaction of its own.  The query    *)
(* ends at a limit: which rows come first, by the time of their last       *)
(* update, is left open, but a row that cleanup does not clear stays.      *)
(* Defect: only sessions whose charge was initiated are listed.            *)
InitiatedCleanable == {s \in Hotspot : row[s].status = "failed" /\ row[s].reqid
                                       /\ row[s].pwd # NoPassword}
Cleanable == {s \in Hotspot : row[s].status = "failed" /\ row[s].pwd # NoPassword}

Crowded == others + Cardinality(Cleanable) > CleanupLimit

(* Of the rows under the limit, n belong to other routers.                 *)
FirstRows ==
    {first \in SUBSET Cleanable : \E n \in 0..others :
       n + Cardinality(first) = IF Crowded THEN CleanupLimit
                                ELSE others + Cardinality(Cleanable)}

CleanupList ==
    /\ JobsIdle("reconcile")
    /\ todo = {}
    /\ todo' \in FirstRows
    /\ phase' = "cleanup"
    /\ UNCHANGED <<row, dbVars, acct, envVars, create, prep, proc, crashes>>

CleanupRead(s) ==
    /\ JobsIdle("cleanup")
    /\ s \in todo
    /\ todo' = todo \ {s}
    /\ IF row[s].status = "failed" /\ user[s] = "prepared"
         THEN Goto(Jobs, "delete", s) ELSE UNCHANGED proc
    /\ UNCHANGED <<row, dbVars, acct, envVars, create, prep, phase, crashes>>

CleanupRouter ==
    LET s == proc[Jobs].s IN
    /\ proc[Jobs].pc = "delete"
    /\ ~retired
    /\ acct' = [acct EXCEPT ![s] = NoPassword]
    /\ Step(Jobs, "forget")
    /\ UNCHANGED <<row, dbVars, envVars, create, prep, jobVars, crashes>>

(* An error on the router or in the database skips the session until the  *)
(* next iteration; the account may already be gone from the router.        *)
CleanupFails ==
    /\ proc[Jobs].pc \in {"delete", "forget"}
    /\ Finish(Jobs)
    /\ UNCHANGED <<row, dbVars, acct, envVars, create, prep, jobVars, crashes>>

CleanupCommit ==
    LET s == proc[Jobs].s IN
    /\ proc[Jobs].pc = "forget"
    /\ RowFree(s)
    /\ user' = [user EXCEPT ![s] = "absent"]
    /\ row' = [row EXCEPT ![s].pwd = NoPassword]
    /\ Finish(Jobs)
    /\ UNCHANGED <<acct, grants, booked, envVars, create, prep, jobVars, crashes>>

IterationEnds ==
    /\ JobsIdle("cleanup")
    /\ todo = {}
    /\ phase' = "expire"
    /\ UNCHANGED <<row, dbVars, acct, envVars, create, prep, proc, todo, crashes>>

-----------------------------------------------------------------------------
(* delete_router retires the router of these sessions.  Its two UPDATEs    *)
(* choose their rows by status in the database, so they wait for the locks *)
(* of the rows they choose and act on what is committed.                   *)
RetiredStatus(st) ==
    CASE st \in OpenStatuses -> "failed"
      [] st = "provisioning_failed" -> "manual_review"
      [] OTHER -> st

RetireRouter ==
    /\ ~retired
    /\ \A s \in Sessions : RetiredStatus(row[s].status) # row[s].status => RowFree(s)
    /\ row' = [s \in Sessions |->
                 [row[s] EXCEPT !.status = RetiredStatus(row[s].status)]]
    /\ retired' = TRUE
    /\ UNCHANGED <<dbVars, acct, money, expired, others, create, prep, proc, jobVars,
                   crashes>>

-----------------------------------------------------------------------------
(* The environment: the customer answers the prompt, the clock runs, and   *)
(* processes are killed.  A killed process loses its transaction.          *)

CustomerAnswers(s) ==
    /\ money[s] = "asked"
    /\ \E answer \in {"paid", "declined"} : money' = [money EXCEPT ![s] = answer]
    /\ UNCHANGED <<row, dbVars, acct, expired, retired, others, create, prep, proc,
                   jobVars, crashes>>

ClockPasses(s) ==
    /\ row[s].status # "none" /\ ~expired[s]
    /\ expired' = [expired EXCEPT ![s] = TRUE]
    /\ UNCHANGED <<row, dbVars, acct, money, retired, others, create, prep, proc,
                   jobVars, crashes>>

(* Sessions of other routers fail, are cleaned up, or stay in the list for *)
(* good because their router is deleted or their user row is gone.         *)
OthersChange ==
    /\ others' \in (0..MaxOthers) \ {others}
    /\ UNCHANGED <<row, dbVars, acct, money, expired, retired, create, prep, proc,
                   jobVars, crashes>>

CrashCreator(s) ==
    /\ crashes < MaxCrashes
    /\ create[s] \notin {"idle", "done"}
    /\ create' = [create EXCEPT ![s] = "done"]
    /\ PrepareEnds(s)
    /\ crashes' = crashes + 1
    /\ UNCHANGED <<row, dbVars, acct, envVars, proc, jobVars>>

CrashProc(p) ==
    /\ crashes < MaxCrashes
    /\ proc[p].pc # "idle" \/ (p = Jobs /\ phase # "expire")
    /\ Finish(p)
    /\ AbortIteration(p)
    /\ crashes' = crashes + 1
    /\ UNCHANGED <<row, dbVars, acct, envVars, create, prep>>

-----------------------------------------------------------------------------
CreatorStep(s) ==
    \/ CreateSession(s) \/ Initiate(s) \/ SaveInitiation(s) \/ RefuseRead(s) \/ RefuseWrite(s)

PrepareStep(s) ==
    \/ PrepareRead(s) \/ PrepareFlush(s) \/ PrepareRouter(s)
    \/ PrepareCommit(s) \/ PrepareRollback(s)

CompleteStep(p) ==
    \/ CompleteAlready(p) \/ CompleteLock(p) \/ CompleteRouter(p)
    \/ CompleteCommit(p) \/ CompleteRollback(p) \/ RecordFailure(p)

ThreadStep(t) == Verify(t) \/ Review(t) \/ Query(t) \/ WriteStatus(t) \/ CompleteStep(t)

Request(t, s) ==
    \/ PollExpired(t, s) \/ PollPending(t, s)
    \/ CallbackDeclined(t, s) \/ CallbackPaid(t, s) \/ Retry(t, s)

PhaseStep ==
    \/ ExpireRead \/ ExpireWrite \/ ReconcileList \/ CleanupList
    \/ \E s \in Sessions : ReconcileNext(s) \/ CleanupRead(s)
    \/ CleanupRouter \/ CleanupFails \/ CleanupCommit \/ IterationEnds

JobsStep == PhaseStep \/ Query(Jobs) \/ WriteStatus(Jobs) \/ CompleteStep(Jobs)

Crash == (\E s \in Sessions : CrashCreator(s)) \/ (\E p \in Procs : CrashProc(p))

Next ==
    \/ \E s \in Sessions : Admit(s) \/ CreatorStep(s) \/ PrepareStep(s)
                           \/ CustomerAnswers(s) \/ ClockPasses(s)
    \/ \E t \in Threads : ThreadStep(t) \/ \E s \in Sessions : Request(t, s)
    \/ JobsStep
    \/ RetireRouter \/ OthersChange
    \/ Crash

Spec == Init /\ [][Next]_vars

(* Every handler runs to its end: router and provider calls time out, and  *)
(* InnoDB grants row locks in the order they were asked for (hence strong  *)
(* fairness where a step waits for one).  The jobs loop never ends.  The   *)
(* clock runs.  Nobody is obliged to send a request or to pay.             *)
Fairness ==
    /\ \A s \in Sessions : /\ WF_vars(ClockPasses(s))
                           /\ SF_vars(CreatorStep(s))
                           /\ SF_vars(PrepareStep(s))
    /\ \A t \in Threads : SF_vars(ThreadStep(t))
    /\ SF_vars(JobsStep)

FairSpec == Init /\ [][Next]_vars /\ Fairness

(* A router that is down is reachable again often enough, and the database *)
(* accepts commits often enough, for a cleanup that keeps trying.          *)
ReachableSpec == FairSpec /\ SF_vars(CleanupRouter) /\ SF_vars(CleanupCommit)

-----------------------------------------------------------------------------
RowTyped ==
    row \in [Sessions -> RowTypes]
AccessTyped ==
    /\ user \in [Sessions -> UserStates]
    /\ acct \in [Sessions -> Passwords \cup {NoPassword}]
    /\ grants \in [Sessions -> 0..GrantCap]
    /\ booked \in [Sessions -> BOOLEAN]
EnvTyped ==
    /\ money \in [Sessions -> {"unasked", "asked", "paid", "declined"}]
    /\ expired \in [Sessions -> BOOLEAN]
    /\ retired \in BOOLEAN /\ others \in 0..MaxOthers
    /\ crashes \in 0..MaxCrashes
CreatorTyped ==
    /\ create \in [Sessions -> {"idle", "admitted", "initiating", "accepted", "refused",
                                "refusing", "done"}]
    /\ prep \in [Sessions -> PrepTypes]
ProcTyped == proc \in [Procs -> ProcTypes]
JobsTyped ==
    /\ phase \in {"expire", "expiring", "list", "reconcile", "cleanup"}
    /\ todo \subseteq Sessions

TypeOK == RowTyped /\ AccessTyped /\ EnvTyped /\ CreatorTyped /\ ProcTyped /\ JobsTyped

-----------------------------------------------------------------------------
(* Nobody is served for money that was not collected: a session that is    *)
(* provisioned (so that its credentials are shown), one an administrator   *)
(* may retry, a paid window and a ledger row all imply that the provider   *)
(* holds the customer's money -- whatever stale status writes, crashes and *)
(* late answers came before (complete_payment has five callers).           *)
AccessOnlyForMoney ==
    \A s \in Sessions :
      (\/ row[s].status \in {"provisioned", "provisioning_failed"}
       \/ user[s] = "granted" \/ booked[s] \/ grants[s] > 0)
        => money[s] = "paid"

(* Access and its ledger row are committed together: complete_payment adds *)
(* the Payment row in the transaction that starts the window.              *)
AccessIsBooked ==
    \A s \in Sessions :
      /\ (row[s].status = "provisioned" \/ user[s] = "granted") => booked[s]
      /\ booked[s] => grants[s] > 0

(* Row lock of complete_payment: two deliveries, polls, retries or the     *)
(* jobs process are never inside the provisioning of one session together, *)
(* nor is one of them while the preparation rewrites the credentials.      *)
CompletionExclusive ==
    \A s \in Sessions :
      /\ \A p, q \in Procs : Completing(p, s) /\ Completing(q, s) => p = q
      /\ \A p \in Procs : ~(Completing(p, s) /\ Preparing(s))

(* A completion grants nothing to a session that is committed as           *)
(* provisioned: the check at the top of complete_payment still holds at    *)
(* its commit, after the router call.                                      *)
NoGrantWhenProvisioned ==
    [][\A s \in Sessions : grants'[s] # grants[s] => row[s].status # "provisioned"]_vars

(* Renewals, repeated callbacks and retries leave an open HotSpot window   *)
(* as it is: _set_hotspot_expiry keeps an expiry that is set, and nothing  *)
(* opens the window of a session while a completion of it is under way.    *)
HotspotWindowFixed ==
    [][\A s \in Hotspot : user[s] = "granted" => grants'[s] = grants[s]]_vars

(* Payment sessions keep the promise of PaidAccess: of a completion, with  *)
(* its lock, router call, commit and rollback, only the commit shows.      *)
Shown == [s \in Sessions |-> row[s].status = "provisioned"]
Promise == INSTANCE PaidAccess WITH shown <- Shown

ImplementsPaidAccess == Promise!Spec

(* M-Pesa cannot confirm a charge before the creator has saved the request *)
(* id, and that waits for the preparation (asyncio.gather).  So a HotSpot  *)
(* customer who paid by M-Pesa is never shown a password that the router   *)
(* was last given differently; at worst cleanup has removed the account.   *)
ShownPasswordWorks ==
    \A s \in Mpesa \cap Hotspot :
      row[s].status = "provisioned" /\ row[s].pwd # NoPassword
        => acct[s] \in {row[s].pwd, NoPassword}

(* A session does not stay created or pending for ever, not even when its  *)
(* creator was killed, the provider never answers and nobody polls.        *)
OpenSessionsEnd ==
    \A s \in Sessions :
      row[s].status \in OpenStatuses ~> row[s].status \notin OpenStatuses

(* An account prepared for a payment that failed does not stay in the      *)
(* database for ever, unless its router is deleted, or the failed sessions *)
(* outnumber what one cleanup takes: sessions that it selects and cannot   *)
(* clear may then stand before this one each time.                         *)
PreparedAccountsEnd ==
    \A s \in Hotspot :
      (row[s].status = "failed" /\ user[s] = "prepared")
        ~> (retired \/ Crowded \/ row[s].status # "failed" \/ user[s] # "prepared")

-----------------------------------------------------------------------------
(* What the documentation says and the code does not keep. *)

(* access_service.py: cleanup removes "one unpaid prepared HotSpot         *)
(* account"; it never removes the account of a paid window.                *)
CleanupRemovesUnpaidOnly ==
    [][\A s \in Hotspot : user[s] = "granted" => user'[s] # "absent"]_vars

(* payment_service.py: "Idempotent asynchronous payment sessions and       *)
(* access provisioning": one payment buys one window.                      *)
OneGrantPerPayment == \A s \in Sessions : grants[s] <= 1

=============================================================================
