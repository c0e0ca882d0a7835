--------------------------- MODULE CustomerAccess ---------------------------
(***************************************************************************)
(* The accounts of customers: a row in the database and an account on the  *)
(* router, both written by the operator's requests (create, enable,        *)
(* disable, delete), by renewals that payments bring about, and by         *)
(* expire_access, which the jobs process runs every minute and an operator *)
(* may run too.  Each of them reads the rows, calls the router and then    *)
(* commits; none locks the row it has read.                                *)
(***************************************************************************)
EXTENDS Naturals

CONSTANTS
    Customers,  \* user names, each on one router
    Pppoe,      \* those with a PPPoE account: only they can be renewed
    Down,       \* those whose router never answers
    Requests,   \* API threads, each serving one request
    Jobs,       \* the jobs process
    Validity,   \* the package's validity_minutes
    MaxTime,    \* bound: the last instant
    Faults      \* whether calls, commits and processes can fail

ASSUME CustomerAssumption == Pppoe \subseteq Customers /\ Down \subseteq Customers
ASSUME ProcAssumption == Requests \cap Jobs = {}
ASSUME TimeAssumption ==
    Validity \in Nat \ {0} /\ MaxTime \in Nat /\ Faults \in BOOLEAN

VARIABLES
    row,        \* the committed rows
    acct,       \* the account on the router: none, enabled or disabled
    clock,
    proc,       \* what each request, and the job, has read and done
    barred,     \* history: customers last disabled by the operator
    disturbed   \* history: customers on whom requests overlapped, or one
                \* of whose requests changed the router and did not commit

vars == <<row, acct, clock, proc, barred, disturbed>>

Procs == Requests \cup Jobs
Rows == [id : Nat, here : BOOLEAN, active : BOOLEAN, expiry : Nat]
Accounts == {"none", "on", "off"}
Single == {"create", "enable", "disable", "delete", "renew"}
ProcTypes == [at : {"idle", "working", "ended"}, op : Single \cup {"expire"},
              todo : SUBSET Customers, done : SUBSET Customers, now : Nat,
              seen : [Customers -> Rows]]

(* Every account that exists at the start agrees with its row.             *)
Absent == [id |-> 0, here |-> FALSE, active |-> FALSE, expiry |-> 0]
Running == [id |-> 0, here |-> TRUE, active |-> TRUE, expiry |-> Validity]

(* A thread that has read nothing.                                         *)
Rest(at) == [at |-> at, op |-> "expire", todo |-> {}, done |-> {}, now |-> 0,
             seen |-> [c \in Customers |-> Absent]]

Init ==
    /\ row \in [Customers -> {Absent, Running}]
    /\ acct = [c \in Customers |-> IF row[c].here THEN "on" ELSE "none"]
    /\ clock = 0
    /\ proc = [p \in Procs |-> Rest("idle")]
    /\ barred = {} /\ disturbed = {}

-----------------------------------------------------------------------------
(* Operators whose comment says "Defect:" are plausible mistakes in the    *)
(* operator that follows them; no action uses them.                        *)

(* Defect: access ends one minute early.                                   *)
OverdueEarly(c) == row[c].here /\ row[c].active /\ row[c].expiry <= clock + 1
Overdue(c) == row[c].here /\ row[c].active /\ row[c].expiry <= clock

(* What a router call leaves.                                              *)
Effect(op) ==
    CASE op \in {"create", "enable", "renew"} -> "on"
      [] op \in {"disable", "expire"} -> "off"
      [] op = "delete" -> "none"

(* A create does not replace an account, an account that is missing cannot *)
(* be switched; a renewal writes it and a deletion needs none.             *)
Refused(op, c) ==
    \/ op = "create" /\ acct[c] # "none"
    \/ op \in {"enable", "disable", "expire"} /\ acct[c] = "none"

OnIt(p, c) == proc[p].at = "working" /\ c \in proc[p].todo \cup proc[p].done

Start(p, op, cs) ==
    /\ proc' = [proc EXCEPT ![p] = [at |-> "working", op |-> op, todo |-> cs,
                                    done |-> {}, now |-> clock, seen |-> row]]
    /\ disturbed' = disturbed \cup {c \in cs : \E q \in Procs : OnIt(q, c)}
    /\ UNCHANGED <<row, acct, clock, barred>>

(* The flushed INSERT holds the unique key until its transaction ends.     *)
Create(p, c) ==
    /\ p \in Requests /\ proc[p].at = "idle"
    /\ ~row[c].here
    /\ \A q \in Procs : ~(OnIt(q, c) /\ proc[q].op = "create")
    /\ Start(p, "create", {c})

(* Enable, disable, delete, or a renewal inside complete_payment.          *)
Change(p, op, c) ==
    /\ p \in Requests /\ proc[p].at = "idle"
    /\ op = "renew" => c \in Pppoe
    /\ row[c].here
    /\ Start(p, op, {c})

ExpireRead(p) ==
    /\ proc[p].at = "idle"
    /\ Start(p, "expire", {c \in Customers : Overdue(c)})

(* HotSpot rows come before PPPoE rows.                                    *)
Turn(p, c) ==
    /\ proc[p].at = "working" /\ c \in proc[p].todo
    /\ c \in Pppoe => proc[p].todo \subseteq Pppoe

CallSucceeds(p, c) ==
    /\ Turn(p, c)
    /\ c \notin Down /\ ~Refused(proc[p].op, c)
    /\ acct' = [acct EXCEPT ![c] = Effect(proc[p].op)]
    /\ proc' = [proc EXCEPT ![p].todo = @ \ {c}, ![p].done = @ \cup {c}]
    /\ UNCHANGED <<row, clock, barred, disturbed>>

Finish(p) ==
    proc' = [proc EXCEPT ![p] = Rest(IF p \in Jobs THEN "idle" ELSE "ended")]

(* expire_access goes on with the next customer; any other request ends in *)
(* a rollback.  Defects: the row is marked before the call; an exception   *)
(* ends expire_access too; an exception ends no request.                   *)
SkipMarked(p, c) ==
    IF proc[p].op = "expire"
    THEN proc' = [proc EXCEPT ![p].todo = @ \ {c}, ![p].done = @ \cup {c}]
    ELSE Finish(p)
SkipNever(p, c) == Finish(p)
SkipAlways(p, c) == proc' = [proc EXCEPT ![p].todo = @ \ {c}]
Skip(p, c) ==
    IF proc[p].op = "expire"
    THEN proc' = [proc EXCEPT ![p].todo = @ \ {c}]
    ELSE Finish(p)

CallFails(p, c) ==
    /\ Turn(p, c)
    /\ c \in Down \/ Refused(proc[p].op, c) \/ Faults
    /\ Skip(p, c)
    /\ UNCHANGED <<row, acct, clock, barred, disturbed>>

(* The router has done it, but its answer is lost.                         *)
CallLost(p, c) ==
    /\ Turn(p, c) /\ Faults
    /\ c \notin Down /\ ~Refused(proc[p].op, c)
    /\ acct' = [acct EXCEPT ![c] = Effect(proc[p].op)]
    /\ disturbed' = disturbed \cup {c}
    /\ Skip(p, c)
    /\ UNCHANGED <<row, clock, barred>>

(* Only the columns that differ from what was read are written.            *)
Latest(a, b) == IF a > b THEN a ELSE b
Switch(r, old, to) == IF old.active = to THEN r ELSE [r EXCEPT !.active = to]
Written(op, r, old, now) ==
    CASE op = "create" -> [id |-> r.id + 1, here |-> TRUE, active |-> TRUE,
                           expiry |-> now + Validity]
      [] op \in {"disable", "expire"} -> Switch(r, old, FALSE)
      [] op = "enable" -> Switch(r, old, TRUE)
      [] op = "renew" -> [Switch(r, old, TRUE) EXCEPT
                            !.expiry = Latest(old.expiry, now) + Validity]
      [] op = "delete" -> [Absent EXCEPT !.id = r.id]

Gone(p, c) == ~row[c].here \/ row[c].id # proc[p].seen[c].id

(* An UPDATE that finds no row rolls the whole transaction back (a DELETE  *)
(* does not mind): so does one for a switch that is not as it was read.    *)
Stale(p, c) ==
    /\ Gone(p, c)
    /\ proc[p].op \notin {"create", "delete"}
    /\ Written(proc[p].op, proc[p].seen[c], proc[p].seen[c], proc[p].now)
         # proc[p].seen[c]

Ready(p) == proc[p].at = "working" /\ proc[p].todo = {}

Commit(p) ==
    /\ Ready(p)
    /\ \A c \in proc[p].done : ~Stale(p, c)
    /\ row' = [c \in Customers |->
                 IF c \in proc[p].done /\ (proc[p].op = "create" \/ ~Gone(p, c))
                 THEN Written(proc[p].op, row[c], proc[p].seen[c], proc[p].now)
                 ELSE row[c]]
    /\ barred' = CASE proc[p].op = "disable" -> barred \cup proc[p].done
                   [] proc[p].op = "expire" -> barred
                   [] OTHER -> barred \ proc[p].done
    /\ Finish(p)
    /\ UNCHANGED <<acct, clock, disturbed>>

(* The transaction is rolled back; what the router has done stays.         *)
Rollback(p) ==
    /\ proc[p].at = "working"
    /\ Faults \/ (Ready(p) /\ \E c \in proc[p].done : Stale(p, c))
    /\ disturbed' = disturbed \cup proc[p].done
    /\ Finish(p)
    /\ UNCHANGED <<row, acct, clock, barred>>

Tick ==
    /\ clock < MaxTime
    /\ clock' = clock + 1
    /\ UNCHANGED <<row, acct, proc, barred, disturbed>>

-----------------------------------------------------------------------------
Call(p, c) == CallSucceeds(p, c) \/ CallFails(p, c) \/ CallLost(p, c)
Handle(p) == (\E c \in Customers : Call(p, c)) \/ Commit(p) \/ Rollback(p)

Next ==
    \/ \E p \in Procs, c \in Customers :
         Create(p, c) \/ \E op \in Single \ {"create"} : Change(p, op, c)
    \/ \E p \in Procs : ExpireRead(p) \/ Handle(p)
    \/ Tick

Spec == Init /\ [][Next]_vars

(* The job runs again and again and is not killed before the same call     *)
(* each time, its calls and its commit end, and a router that is not down  *)
(* answers one of the calls that keep coming.                              *)
FairSpec ==
    /\ Spec
    /\ \A p \in Jobs :
         /\ WF_vars(ExpireRead(p)) /\ WF_vars(Handle(p))
         /\ \A c \in Customers : SF_vars(Call(p, c)) /\ SF_vars(CallSucceeds(p, c))

-----------------------------------------------------------------------------
(* The variables keep their types; a request at work on one customer has   *)
(* this one in hand until it ends.                                         *)
TypeOK ==
    /\ row \in [Customers -> Rows]
    /\ acct \in [Customers -> Accounts]
    /\ clock \in 0..MaxTime
    /\ proc \in [Procs -> ProcTypes]
    /\ \A p \in Procs : proc[p].at = "working" /\ proc[p].op \in Single =>
                        \E c \in Customers : proc[p].todo \cup proc[p].done = {c}
    /\ barred \subseteq Customers /\ disturbed \subseteq Customers

Quiet(c) == \A p \in Procs : ~OnIt(p, c)

(* Between requests the router and the database agree on a customer whose  *)
(* requests never overlapped and never lost a commit after their call:     *)
(* whatever fails before its effect, is refused, or is skipped by a run of *)
(* expire_access, leaves neither of the two ahead of the other.            *)
RouterAgrees ==
    \A c \in Customers \ disturbed :
        Quiet(c) => /\ acct[c] = "on" <=> row[c].here /\ row[c].active
                    /\ acct[c] = "none" <=> ~row[c].here

(* A customer whose paid time runs is not cut off, unless by the operator  *)
(* or because requests on the account overlapped, as a renewal and the     *)
(* expiry may, or were interrupted.                                        *)
PaidTimeKept ==
    \A c \in Customers \ (disturbed \cup barred) :
        Quiet(c) /\ row[c].here /\ row[c].expiry > clock => acct[c] = "on"

(* Access that expire_access can see is overdue is cut off in the end, no  *)
(* matter which other routers are down and which calls fail.               *)
OverdueEnds ==
    \A c \in Customers \ Down :
        (Overdue(c) /\ acct[c] = "on") ~> (acct[c] # "on" \/ ~Overdue(c))

(* An account that is enabled on the router, with no request at work on    *)
(* it, is one that expire_access will find when its time is over.          *)
LiveAccessWatched ==
    \A c \in Customers : Quiet(c) /\ acct[c] = "on" => row[c].here /\ row[c].active

=============================================================================
