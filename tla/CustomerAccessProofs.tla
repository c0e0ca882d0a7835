------------------------- MODULE CustomerAccessProofs -------------------------
(***************************************************************************)
(* What holds of CustomerAccess for any customers, requests and times.     *)
(***************************************************************************)
EXTENDS CustomerAccess, TLAPS

-----------------------------------------------------------------------------
(* Types.                                                                  *)

LEMMA RestTyped ==
  ASSUME NEW at \in {"idle", "ended"}
  PROVE  Rest(at) \in ProcTypes /\ Rest(at).at = at
  <1>1. [c \in Customers |-> Absent] \in [Customers -> Rows]
    BY DEF Absent, Rows
  <1> QED BY <1>1 DEF Rest, ProcTypes

LEMMA EffectTyped ==
  ASSUME NEW op \in Single \cup {"expire"}
  PROVE  Effect(op) \in Accounts
  BY DEF Single, Effect, Accounts

LEMMA ExtendedTyped ==
  ASSUME NEW r \in Rows, NEW e \in Nat
  PROVE  [r EXCEPT !.expiry = e] \in Rows
  BY DEF Rows

LEMMA WrittenTyped ==
  ASSUME NEW op \in Single \cup {"expire"}, NEW r \in Rows, NEW old \in Rows,
         NEW now \in Nat
  PROVE  Written(op, r, old, now) \in Rows
  <1> DEFINE later == Latest(old.expiry, now) + Validity
  <1>1. later \in Nat /\ now + Validity \in Nat /\ r.id + 1 \in Nat
    BY TimeAssumption DEF Rows, Latest
  <1>2. \A to \in BOOLEAN : Switch(r, old, to) \in Rows
    BY DEF Rows, Switch
  <1> HIDE DEF later
  <1>3. [Switch(r, old, TRUE) EXCEPT !.expiry = later] \in Rows
    BY <1>1, <1>2, ExtendedTyped
  <1> USE DEF later
  <1>4. [Absent EXCEPT !.id = r.id] \in Rows
    BY DEF Absent, Rows
  <1>5. [id |-> r.id + 1, here |-> TRUE, active |-> TRUE, expiry |-> now + Validity] \in Rows
    BY <1>1 DEF Rows
  <1> QED BY <1>2, <1>3, <1>4, <1>5 DEF Written, Single

(* A single request has one customer in hand. *)
OneCustomer(r) ==
    r.at = "working" /\ r.op \in Single => \E c \in Customers : r.todo \cup r.done = {c}

LEMMA TypeInit == Init => TypeOK
  <1> SUFFICES ASSUME Init PROVE TypeOK
    OBVIOUS
  <1>1. row \in [Customers -> Rows]
    <2>1. Absent \in Rows /\ Running \in Rows
      BY TimeAssumption DEF Absent, Running, Rows
    <2> QED BY <2>1 DEF Init
  <1>2. acct \in [Customers -> Accounts] /\ clock \in 0..MaxTime
    BY TimeAssumption DEF Init, Accounts
  <1>3. proc \in [Procs -> ProcTypes] /\ \A p \in Procs : proc[p].at = "idle"
    BY RestTyped DEF Init
  <1> QED BY <1>1, <1>2, <1>3 DEF Init, TypeOK

(* A step of one process. *)
LEMMA ProcTyped ==
  ASSUME TypeOK, NEW p \in Procs, NEW r \in ProcTypes, OneCustomer(r),
         proc' = [proc EXCEPT ![p] = r],
         row' \in [Customers -> Rows], acct' \in [Customers -> Accounts],
         clock' \in 0..MaxTime, barred' \subseteq Customers, disturbed' \subseteq Customers
  PROVE  TypeOK'
  BY DEF TypeOK, OneCustomer

LEMMA StartTyped ==
  ASSUME TypeOK, NEW p \in Procs, NEW op \in Single \cup {"expire"},
         NEW cs \in SUBSET Customers, op \in Single => \E c \in Customers : cs = {c},
         Start(p, op, cs)
  PROVE  TypeOK'
  <1> DEFINE r == [at |-> "working", op |-> op, todo |-> cs, done |-> {}, now |-> clock,
                   seen |-> row]
  <1>1. r \in ProcTypes /\ OneCustomer(r)
    BY TimeAssumption DEF TypeOK, ProcTypes, OneCustomer
  <1>2. proc' = [proc EXCEPT ![p] = r]
    BY DEF Start
  <1>3. disturbed' \subseteq Customers /\ UNCHANGED <<row, acct, clock, barred>>
    BY DEF Start, TypeOK
  <1> HIDE DEF r
  <1> QED BY <1>1, <1>2, <1>3, ProcTyped DEF TypeOK

(* The process after a call that succeeded, and after one that did not. *)
LEMMA MovedTyped ==
  ASSUME TypeOK, NEW p \in Procs, NEW c \in Customers, Turn(p, c)
  PROVE  LET r == [proc[p] EXCEPT !.todo = @ \ {c}, !.done = @ \cup {c}]
         IN  r \in ProcTypes /\ OneCustomer(r)
  <1>1. proc[p] \in ProcTypes /\ OneCustomer(proc[p])
    BY DEF TypeOK, OneCustomer
  <1> QED BY <1>1 DEF Turn, ProcTypes, OneCustomer

LEMMA SkipTyped ==
  ASSUME TypeOK, NEW p \in Procs, NEW c \in Customers, Skip(p, c)
  PROVE  \E r \in ProcTypes : OneCustomer(r) /\ proc' = [proc EXCEPT ![p] = r]
  <1>1. CASE proc[p].op = "expire"
    <2> DEFINE r == [proc[p] EXCEPT !.todo = @ \ {c}]
    <2>1. r \in ProcTypes /\ r.op = "expire"
      BY <1>1 DEF TypeOK, ProcTypes
    <2>2. proc' = [proc EXCEPT ![p] = r]
      BY <1>1 DEF Skip
    <2> HIDE DEF r
    <2> QED BY <2>1, <2>2 DEF OneCustomer, Single
  <1>2. CASE proc[p].op # "expire"
    BY <1>2, RestTyped DEF Skip, Finish, OneCustomer
  <1> QED BY <1>1, <1>2

LEMMA FinishTyped ==
  ASSUME TypeOK, NEW p \in Procs, Finish(p)
  PROVE  \E r \in ProcTypes : OneCustomer(r) /\ proc' = [proc EXCEPT ![p] = r]
  BY RestTyped DEF Finish, OneCustomer

LEMMA TypeStep == TypeOK /\ [Next]_vars => TypeOK'
  <1> SUFFICES ASSUME TypeOK, [Next]_vars PROVE TypeOK'
    OBVIOUS
  <1>1. CASE \E p \in Procs, c \in Customers : Create(p, c)
    BY <1>1, StartTyped DEF Create, Single
  <1>2. CASE \E p \in Procs, c \in Customers : \E op \in Single \ {"create"} : Change(p, op, c)
    BY <1>2, StartTyped DEF Change
  <1>3. CASE \E p \in Procs : ExpireRead(p)
    <2>1. {c \in Customers : Overdue(c)} \in SUBSET Customers /\ "expire" \notin Single
      BY DEF Single
    <2> QED BY <1>3, <2>1, StartTyped DEF ExpireRead
  <1>4. CASE \E p \in Procs, c \in Customers : CallSucceeds(p, c)
    <2>1. PICK p \in Procs, c \in Customers : CallSucceeds(p, c)
      BY <1>4
    <2> DEFINE r == [proc[p] EXCEPT !.todo = @ \ {c}, !.done = @ \cup {c}]
    <2>2. r \in ProcTypes /\ OneCustomer(r)
      BY <2>1, MovedTyped DEF CallSucceeds
    <2>3. /\ proc' = [proc EXCEPT ![p] = r]
          /\ UNCHANGED <<row, clock, barred, disturbed>>
      BY <2>1 DEF CallSucceeds
    <2>4. acct' \in [Customers -> Accounts]
      <3>1. Effect(proc[p].op) \in Accounts
        BY EffectTyped DEF TypeOK, ProcTypes
      <3> QED BY <2>1, <3>1 DEF CallSucceeds, TypeOK
    <2> HIDE DEF r
    <2> QED BY <2>2, <2>3, <2>4, ProcTyped DEF TypeOK
  <1>5. CASE \E p \in Procs, c \in Customers : CallFails(p, c)
    BY <1>5, SkipTyped, ProcTyped DEF CallFails, TypeOK
  <1>6. CASE \E p \in Procs, c \in Customers : CallLost(p, c)
    <2>1. PICK p \in Procs, c \in Customers : CallLost(p, c)
      BY <1>6
    <2>2. acct' \in [Customers -> Accounts]
      <3>1. Effect(proc[p].op) \in Accounts
        BY EffectTyped DEF TypeOK, ProcTypes
      <3> QED BY <2>1, <3>1 DEF CallLost, TypeOK
    <2>3. disturbed' \subseteq Customers /\ UNCHANGED <<row, clock, barred>>
      BY <2>1 DEF CallLost, TypeOK
    <2> QED BY <2>1, <2>2, <2>3, SkipTyped, ProcTyped DEF CallLost, TypeOK
  <1>7. CASE \E p \in Procs : Commit(p)
    <2>1. PICK p \in Procs : Commit(p)
      BY <1>7
    <2>2. proc[p] \in ProcTypes /\ proc[p].done \subseteq Customers
      BY DEF TypeOK, ProcTypes
    <2>3. row' \in [Customers -> Rows]
      <3>1. \A c \in Customers :
              Written(proc[p].op, row[c], proc[p].seen[c], proc[p].now) \in Rows
        BY <2>2, WrittenTyped DEF TypeOK, ProcTypes
      <3> QED BY <2>1, <3>1 DEF Commit, TypeOK
    <2>4. barred' \subseteq Customers
      BY <2>1, <2>2 DEF Commit, TypeOK
    <2> QED BY <2>1, <2>3, <2>4, FinishTyped, ProcTyped DEF Commit, TypeOK
  <1>8. CASE \E p \in Procs : Rollback(p)
    <2>1. PICK p \in Procs : Rollback(p)
      BY <1>8
    <2>2. disturbed' \subseteq Customers
      BY <2>1 DEF Rollback, TypeOK, ProcTypes
    <2> QED BY <2>1, <2>2, FinishTyped, ProcTyped DEF Rollback, TypeOK
  <1>9. CASE Tick
    BY <1>9, TimeAssumption DEF Tick, TypeOK
  <1>10. CASE UNCHANGED vars
    BY <1>10 DEF vars, TypeOK
  <1> QED BY <1>1, <1>2, <1>3, <1>4, <1>5, <1>6, <1>7, <1>8, <1>9, <1>10
       DEF Next, Handle, Call

LEMMA Typed == Spec => []TypeOK
  BY TypeInit, TypeStep, PTL DEF Spec

(* The variables keep their types, and a request has one customer in hand. *)
THEOREM AccessTypeCorrect == Spec => []TypeOK
  BY Typed

-----------------------------------------------------------------------------
(* What is known of a customer whose requests have not overlapped and have *)
(* not been interrupted after their call.                                  *)
Agrees(c) ==
    /\ acct[c] = "on" <=> row[c].here /\ row[c].active
    /\ acct[c] = "none" <=> ~row[c].here

(* The request at work on the customer is alone, and has seen the row as   *)
(* it still is; the router has what it has called for, or nothing yet.     *)
InHand(p, c) ==
    /\ proc[p].seen[c] = row[c]
    /\ proc[p].op = "create" <=> ~row[c].here
    /\ proc[p].op = "expire" => row[c].expiry <= clock
    /\ c \in proc[p].todo => Agrees(c) /\ c \notin proc[p].done
    /\ c \in proc[p].done => acct[c] = Effect(proc[p].op)

Good(c) ==
    /\ Quiet(c) => Agrees(c)
    /\ \A p, q \in Procs : OnIt(p, c) /\ OnIt(q, c) => p = q
    /\ \A p \in Procs : OnIt(p, c) => InHand(p, c)
    /\ c \notin barred /\ row[c].here /\ row[c].expiry > clock => row[c].active

CustomersGood == \A c \in Customers \ disturbed : Good(c)

LEMMA GoodInit == Init => CustomersGood
  <1> SUFFICES ASSUME Init, NEW c \in Customers PROVE Good(c)
    BY DEF CustomersGood
  <1>1. \A p \in Procs : ~OnIt(p, c)
    BY DEF Init, OnIt, Rest
  <1>2. row[c] \in {Absent, Running} /\ acct[c] = IF row[c].here THEN "on" ELSE "none"
    BY DEF Init
  <1>3. Agrees(c)
    BY <1>2 DEF Agrees, Absent, Running
  <1> QED BY <1>1, <1>2, <1>3 DEF Good, Absent, Running

(* The same, as far as the customer is concerned. *)
Alike(p, c) ==
    /\ OnIt(p, c)' <=> OnIt(p, c)
    /\ OnIt(p, c) => /\ proc'[p].seen = proc[p].seen /\ proc'[p].op = proc[p].op
                     /\ c \in proc'[p].todo <=> c \in proc[p].todo
                     /\ c \in proc'[p].done <=> c \in proc[p].done

(* Steps that are about other customers. *)
LEMMA Aside ==
  ASSUME TypeOK, NEW c \in Customers, Good(c),
         \A p \in Procs : Alike(p, c),
         row'[c] = row[c], acct'[c] = acct[c], c \in barred' <=> c \in barred,
         clock' = clock \/ clock' = clock + 1
  PROVE  Good(c)'
  <1>0. row[c].expiry \in Nat /\ clock \in Nat
    BY TimeAssumption DEF TypeOK, Rows
  <1>1. Agrees(c)' <=> Agrees(c)
    BY DEF Agrees
  <1>2. Quiet(c)' <=> Quiet(c)
    BY DEF Quiet, Alike
  <1>3. \A p, q \in Procs : OnIt(p, c)' /\ OnIt(q, c)' => p = q
    BY DEF Alike, Good
  <1>4. ASSUME NEW p \in Procs, OnIt(p, c)' PROVE InHand(p, c)'
    <2>1. OnIt(p, c) /\ InHand(p, c)
      BY <1>4 DEF Alike, Good
    <2> QED BY <1>0, <1>1, <2>1 DEF Alike, InHand
  <1>5. c \notin barred' /\ row'[c].here /\ row'[c].expiry > clock' => row'[c].active
    BY <1>0 DEF Good
  <1> QED BY <1>1, <1>2, <1>3, <1>4, <1>5 DEF Good

(* The only request at work on the customer leaves it. *)
LEMMA Leaves ==
  ASSUME NEW c \in Customers, Good(c), NEW p \in Procs, OnIt(p, c), ~OnIt(p, c)',
         \A q \in Procs : q # p => proc'[q] = proc[q],
         Agrees(c)',
         (c \notin barred /\ row[c].here /\ row[c].expiry > clock => row[c].active)'
  PROVE  Good(c)'
  <1>1. \A q \in Procs : ~OnIt(q, c)'
    BY DEF Good, OnIt
  <1> QED BY <1>1 DEF Good

LEMMA StartGood ==
  ASSUME TypeOK, NEW c \in Customers, c \notin disturbed', Good(c),
         NEW p \in Procs, proc[p].at = "idle",
         NEW op \in Single \cup {"expire"}, NEW cs \in SUBSET Customers, Start(p, op, cs),
         c \in cs => /\ op = "create" <=> ~row[c].here
                     /\ op = "expire" => row[c].expiry <= clock
  PROVE  Good(c)'
  <1>1. /\ proc'[p] = [at |-> "working", op |-> op, todo |-> cs, done |-> {},
                       now |-> clock, seen |-> row]
        /\ \A q \in Procs : q # p => proc'[q] = proc[q]
        /\ UNCHANGED <<row, acct, clock, barred>>
    BY DEF Start, TypeOK
  <1>2. CASE c \notin cs
    <2>1. \A q \in Procs : Alike(q, c)
      BY <1>1, <1>2 DEF Alike, OnIt
    <2> QED BY <1>1, <2>1, Aside
  <1>3. CASE c \in cs
    <2>1. \A q \in Procs : ~OnIt(q, c)
      BY <1>3 DEF Start
    <2>2. Agrees(c) /\ Agrees(c)'
      BY <1>1, <2>1 DEF Good, Quiet, Agrees
    <2>3. \A q \in Procs : OnIt(q, c)' <=> q = p
      BY <1>1, <1>3, <2>1 DEF OnIt
    <2>4. InHand(p, c)'
      BY <1>1, <1>3, <2>2 DEF InHand
    <2> QED BY <1>1, <2>3, <2>4 DEF Good, Quiet
  <1> QED BY <1>2, <1>3

LEMMA CallGood ==
  ASSUME TypeOK, NEW c \in Customers, Good(c), NEW p \in Procs, NEW d \in Customers,
         CallSucceeds(p, d)
  PROVE  Good(c)'
  <1>1. /\ proc[p] \in ProcTypes /\ proc[p].at = "working" /\ d \in proc[p].todo
        /\ proc' = [proc EXCEPT ![p].todo = @ \ {d}, ![p].done = @ \cup {d}]
        /\ acct' = [acct EXCEPT ![d] = Effect(proc[p].op)]
        /\ UNCHANGED <<row, clock, barred, disturbed>>
    BY DEF CallSucceeds, Turn, TypeOK
  <1>2. /\ proc'[p].at = "working" /\ proc'[p].op = proc[p].op
        /\ proc'[p].seen = proc[p].seen
        /\ proc'[p].todo = proc[p].todo \ {d} /\ proc'[p].done = proc[p].done \cup {d}
        /\ \A q \in Procs : q # p => proc'[q] = proc[q]
    BY <1>1 DEF TypeOK, ProcTypes
  <1>3. \A q \in Procs : OnIt(q, c)' <=> OnIt(q, c)
    BY <1>1, <1>2 DEF OnIt
  <1>4. CASE c # d
    <2>1. \A q \in Procs : Alike(q, c)
      BY <1>2, <1>3, <1>4 DEF Alike
    <2> QED BY <1>1, <1>4, <2>1, Aside DEF TypeOK
  <1>5. CASE c = d
    <2>1. OnIt(p, c) /\ InHand(p, c)
      BY <1>1, <1>5 DEF OnIt, Good
    <2>2. \A q \in Procs : OnIt(q, c)' => q = p
      BY <1>3, <2>1 DEF Good
    <2>3. acct'[c] = Effect(proc[p].op)
      BY <1>1, <1>5 DEF TypeOK
    <2>4. InHand(p, c)'
      BY <1>1, <1>2, <1>5, <2>1, <2>3 DEF InHand
    <2>5. ~Quiet(c)'
      BY <1>3, <2>1 DEF Quiet
    <2> QED BY <1>1, <2>2, <2>4, <2>5 DEF Good
  <1> QED BY <1>4, <1>5

(* A call that did not succeed, of a customer that it has not reached. *)
LEMMA SkipGood ==
  ASSUME TypeOK, NEW c \in Customers, Good(c), NEW p \in Procs, NEW d \in Customers,
         Turn(p, d), Skip(p, d), UNCHANGED <<row, clock, barred>>, acct'[c] = acct[c]
  PROVE  Good(c)'
  <1>1. /\ proc[p] \in ProcTypes /\ proc[p].at = "working" /\ d \in proc[p].todo
    BY DEF Turn, TypeOK
  <1>2. \A q \in Procs : q # p => proc'[q] = proc[q]
    BY DEF Skip, Finish, TypeOK
  <1>3. CASE c # d
    <2>1. CASE proc[p].op = "expire"
      <3>1. /\ proc'[p].at = "working" /\ proc'[p].op = proc[p].op
            /\ proc'[p].seen = proc[p].seen
            /\ proc'[p].todo = proc[p].todo \ {d} /\ proc'[p].done = proc[p].done
        BY <1>1, <2>1 DEF Skip, TypeOK, ProcTypes
      <3>2. \A q \in Procs : Alike(q, c)
        BY <1>1, <1>2, <1>3, <3>1 DEF Alike, OnIt
      <3> QED BY <3>2, Aside
    <2>2. CASE proc[p].op # "expire"
      <3>1. proc[p].todo \cup proc[p].done = {d}
        BY <1>1, <2>2 DEF TypeOK, ProcTypes
      <3>2. ~OnIt(p, c)
        BY <1>3, <3>1 DEF OnIt
      <3>3. ~OnIt(p, c)'
        BY <2>2, RestTyped DEF Skip, Finish, OnIt, TypeOK
      <3>4. \A q \in Procs : Alike(q, c)
        BY <1>2, <3>2, <3>3 DEF Alike, OnIt
      <3> QED BY <3>4, Aside
    <2> QED BY <2>1, <2>2
  <1>4. CASE c = d
    <2>1. OnIt(p, c) /\ InHand(p, c)
      BY <1>1, <1>4 DEF OnIt, Good
    <2>2. Agrees(c) /\ c \notin proc[p].done
      BY <1>1, <1>4, <2>1 DEF InHand
    <2>3. ~OnIt(p, c)'
      <3>1. CASE proc[p].op = "expire"
        <4>1. proc'[p].todo = proc[p].todo \ {d} /\ proc'[p].done = proc[p].done
          BY <1>1, <3>1 DEF Skip, TypeOK, ProcTypes
        <4> QED BY <1>4, <2>2, <4>1 DEF OnIt
      <3>2. CASE proc[p].op # "expire"
        BY <3>2, RestTyped DEF Skip, Finish, OnIt, TypeOK
      <3> QED BY <3>1, <3>2
    <2>4. Agrees(c)'
      BY <2>2 DEF Agrees
    <2> QED BY <1>2, <2>1, <2>3, <2>4, Leaves DEF Good
  <1> QED BY <1>3, <1>4

(* The process ends: who is not in its hands does not notice. *)
LEMMA FinishAside ==
  ASSUME TypeOK, NEW p \in Procs, NEW c \in Customers, Finish(p)
  PROVE  /\ ~OnIt(p, c)'
         /\ \A q \in Procs : q # p => proc'[q] = proc[q]
         /\ ~OnIt(p, c) => \A q \in Procs : Alike(q, c)
  <1>1. \A q \in Procs : q # p => proc'[q] = proc[q]
    BY DEF Finish
  <1>2. ~OnIt(p, c)'
    BY RestTyped DEF Finish, OnIt, TypeOK
  <1> QED BY <1>1, <1>2 DEF Alike, OnIt

LEMMA CommitGood ==
  ASSUME TypeOK, NEW c \in Customers, Good(c), NEW p \in Procs, Commit(p)
  PROVE  Good(c)'
  <1> DEFINE op == proc[p].op
             w == Written(op, row[c], proc[p].seen[c], proc[p].now)
  <1>1. /\ Finish(p) /\ UNCHANGED <<acct, clock, disturbed>>
        /\ proc[p].at = "working" /\ proc[p].todo = {} /\ op \in Single \cup {"expire"}
    BY DEF Commit, Ready, TypeOK, ProcTypes
  <1>2. CASE c \notin proc[p].done
    <2>1. ~OnIt(p, c) /\ row'[c] = row[c] /\ (c \in barred' <=> c \in barred)
      BY <1>1, <1>2 DEF OnIt, Commit
    <2> QED BY <1>1, <2>1, FinishAside, Aside
  <1>3. CASE c \in proc[p].done
    <2>1. OnIt(p, c) /\ InHand(p, c)
      BY <1>1, <1>3 DEF OnIt, Good
    <2>2. /\ proc[p].seen[c] = row[c] /\ acct[c] = Effect(op)
          /\ op = "create" <=> ~row[c].here
          /\ op = "expire" => row[c].expiry <= clock
      BY <1>3, <2>1 DEF InHand
    <2>3. op = "create" \/ ~Gone(p, c)
      BY <2>2 DEF Gone
    <2>4. row'[c] = w
      BY <1>3, <2>3 DEF Commit
    <2>5. row[c] \in Rows /\ proc[p].now \in Nat /\ clock \in Nat
      BY TimeAssumption DEF TypeOK, ProcTypes
    <2>6. CASE op \in {"create", "enable", "renew"}
      <3>1. w.here /\ w.active
        BY <2>2, <2>5, <2>6 DEF Written, Switch, Rows
      <3>2. Effect(op) = "on"
        BY <2>6 DEF Effect
      <3> QED BY <1>1, <2>1, <2>2, <2>4, <3>1, <3>2, FinishAside, Leaves DEF Agrees
    <2>7. CASE op \in {"disable", "expire"}
      <3>1. w.here /\ ~w.active /\ w.expiry = row[c].expiry
        BY <2>2, <2>5, <2>7 DEF Written, Switch, Rows
      <3>2. Effect(op) = "off"
        BY <2>7 DEF Effect
      <3>3. op = "disable" => c \in barred'
        BY <1>3 DEF Commit
      <3>4. op = "expire" => ~(w.expiry > clock)
        BY <2>2, <2>5, <3>1 DEF Rows
      <3> QED BY <1>1, <2>1, <2>2, <2>4, <2>7, <3>1, <3>2, <3>3, <3>4, FinishAside, Leaves
           DEF Agrees
    <2>8. CASE op = "delete"
      <3>1. ~w.here
        BY <2>8 DEF Written, Absent
      <3>2. Effect(op) = "none"
        BY <2>8 DEF Effect
      <3> QED BY <1>1, <2>1, <2>2, <2>4, <3>1, <3>2, FinishAside, Leaves DEF Agrees
    <2> QED BY <1>1, <2>6, <2>7, <2>8 DEF Single
  <1> QED BY <1>2, <1>3

LEMMA RollbackGood ==
  ASSUME TypeOK, NEW c \in Customers, c \notin disturbed', Good(c),
         NEW p \in Procs, Rollback(p)
  PROVE  Good(c)'
  <1>1. /\ Finish(p) /\ UNCHANGED <<row, acct, clock, barred>>
        /\ c \notin proc[p].done
    BY DEF Rollback
  <1>2. CASE ~OnIt(p, c)
    BY <1>1, <1>2, FinishAside, Aside
  <1>3. CASE OnIt(p, c)
    <2>1. Agrees(c)
      BY <1>1, <1>3 DEF OnIt, Good, InHand
    <2>2. Agrees(c)'
      BY <1>1, <2>1 DEF Agrees
    <2> QED BY <1>1, <1>3, <2>2, FinishAside, Leaves DEF Good
  <1> QED BY <1>2, <1>3

LEMMA GoodStep == TypeOK /\ CustomersGood /\ [Next]_vars => CustomersGood'
  <1> SUFFICES ASSUME TypeOK, CustomersGood, [Next]_vars,
                      NEW c \in Customers, c \notin disturbed'
               PROVE  Good(c)'
    BY DEF CustomersGood
  <1>1. c \notin disturbed
    BY DEF Next, Create, Change, ExpireRead, Start, Handle, Call, CallSucceeds, CallFails,
           CallLost, Commit, Rollback, Tick, vars
  <1>2. Good(c)
    BY <1>1 DEF CustomersGood
  <1>3. CASE \E p \in Procs, d \in Customers : Create(p, d)
    BY <1>2, <1>3, StartGood DEF Create, Single
  <1>4. CASE \E p \in Procs, d \in Customers : \E op \in Single \ {"create"} : Change(p, op, d)
    <2>1. PICK p \in Procs, d \in Customers, op \in Single \ {"create"} : Change(p, op, d)
      BY <1>4
    <2>2. op # "expire" /\ op # "create"
      BY DEF Single
    <2> QED BY <1>2, <2>1, <2>2, StartGood DEF Change
  <1>5. CASE \E p \in Procs : ExpireRead(p)
    <2>1. PICK p \in Procs : ExpireRead(p)
      BY <1>5
    <2> DEFINE cs == {d \in Customers : Overdue(d)}
    <2>2. c \in cs => row[c].here /\ row[c].expiry <= clock
      BY DEF Overdue
    <2>3. cs \in SUBSET Customers /\ Start(p, "expire", cs) /\ proc[p].at = "idle"
      BY <2>1 DEF ExpireRead
    <2> HIDE DEF cs
    <2> QED BY <1>2, <2>2, <2>3, StartGood
  <1>6. CASE \E p \in Procs, d \in Customers : CallSucceeds(p, d)
    BY <1>2, <1>6, CallGood
  <1>7. CASE \E p \in Procs, d \in Customers : CallFails(p, d)
    BY <1>2, <1>7, SkipGood DEF CallFails
  <1>8. CASE \E p \in Procs, d \in Customers : CallLost(p, d)
    <2>1. PICK p \in Procs, d \in Customers : CallLost(p, d)
      BY <1>8
    <2>2. c # d /\ acct'[c] = acct[c]
      BY <2>1 DEF CallLost, TypeOK
    <2> QED BY <1>2, <2>1, <2>2, SkipGood DEF CallLost
  <1>9. CASE \E p \in Procs : Commit(p)
    BY <1>2, <1>9, CommitGood
  <1>10. CASE \E p \in Procs : Rollback(p)
    BY <1>2, <1>10, RollbackGood
  <1>11. CASE Tick \/ UNCHANGED vars
    <2>1. \A p \in Procs : Alike(p, c)
      BY <1>11 DEF Tick, vars, Alike, OnIt
    <2> QED BY <1>2, <1>11, <2>1, Aside DEF Tick, vars
  <1> QED BY <1>3, <1>4, <1>5, <1>6, <1>7, <1>8, <1>9, <1>10, <1>11 DEF Next, Handle, Call

LEMMA GoodAlways == Spec => []CustomersGood
  BY GoodInit, GoodStep, Typed, PTL DEF Spec

(* Whatever fails, is refused or is skipped, the router and the row of a   *)
(* customer agree between requests that neither overlapped nor lost their  *)
(* commit.                                                                 *)
THEOREM RouterAlwaysAgrees == Spec => []RouterAgrees
  <1>1. CustomersGood => RouterAgrees
    BY DEF CustomersGood, RouterAgrees, Good, Agrees
  <1> QED BY <1>1, GoodAlways, PTL

(* A customer whom no operator disabled last, on whom no two requests      *)
(* overlapped and none of whose requests changed the router and lost its   *)
(* commit, is not cut off while paid time runs.  A renewal that overlaps   *)
(* expire_access may be undone and is not covered.                         *)
THEOREM PaidTimeAlwaysKept == Spec => []PaidTimeKept
  <1>1. CustomersGood => PaidTimeKept
    BY DEF CustomersGood, PaidTimeKept, Good, Agrees
  <1> QED BY <1>1, GoodAlways, PTL

=============================================================================
