-------------------------- MODULE AdminAccountsProofs --------------------------
(***************************************************************************)
(* What holds of AdminAccounts for any accounts, workers and threshold.    *)
(***************************************************************************)
EXTENDS AdminAccounts, TLAPS

LEMMA Zero == 0 \in 0..(Threshold - 1)
  BY ThresholdAssumption

(* A row is its columns. *)
LEMMA Columns ==
  ASSUME NEW r \in AccountTypes
  PROVE  /\ r = [here |-> r.here, active |-> r.active, pw |-> r.pw, ver |-> r.ver,
                 fails |-> r.fails, lock |-> r.lock]
         /\ r.here \in BOOLEAN /\ r.active \in BOOLEAN /\ r.pw \in Nat /\ r.ver \in Nat
         /\ r.fails \in 0..(Threshold - 1) /\ r.lock \in {"none", "running", "over"}
  BY DEF AccountTypes

LEMMA RowsTyped ==
  /\ Missing \in AccountTypes /\ ~Missing.here
  /\ \A n \in Nat : /\ Fresh(n) \in AccountTypes /\ Fresh(n).here /\ Fresh(n).active
                    /\ Fresh(n).pw = n
  <1>1. ASSUME NEW b \in BOOLEAN, NEW n \in Nat
        PROVE  /\ Row(b, n) \in AccountTypes /\ Row(b, n).here = b /\ Row(b, n).active = b
               /\ Row(b, n).pw = n
    BY Zero DEF Row, AccountTypes
  <1> QED BY <1>1 DEF Missing, Fresh

(* What the handlers write: one or two columns of a row. *)
LEMMA LoginWritten ==
  ASSUME NEW r \in AccountTypes, NEW f \in 0..(Threshold - 1), NEW l \in {"none", "running", "over"}
  PROVE  /\ [r EXCEPT !.fails = f, !.lock = l] \in AccountTypes
         /\ [r EXCEPT !.fails = f, !.lock = l].here = r.here
         /\ [r EXCEPT !.fails = f, !.lock = l].active = r.active
         /\ [r EXCEPT !.fails = f, !.lock = l].pw = r.pw
  BY DEF AccountTypes

LEMMA CountWritten ==
  ASSUME NEW r \in AccountTypes, NEW f \in 0..(Threshold - 1)
  PROVE  /\ [r EXCEPT !.fails = f] \in AccountTypes /\ [r EXCEPT !.fails = f].here = r.here
         /\ [r EXCEPT !.fails = f].active = r.active /\ [r EXCEPT !.fails = f].pw = r.pw
  BY DEF AccountTypes

LEMMA LockWritten ==
  ASSUME NEW r \in AccountTypes, NEW l \in {"none", "running", "over"}
  PROVE  /\ [r EXCEPT !.lock = l] \in AccountTypes /\ [r EXCEPT !.lock = l].here = r.here
         /\ [r EXCEPT !.lock = l].active = r.active /\ [r EXCEPT !.lock = l].pw = r.pw
  BY DEF AccountTypes

LEMMA SeedWritten ==
  ASSUME NEW r \in AccountTypes, NEW n \in Nat
  PROVE  /\ [r EXCEPT !.ver = n, !.active = FALSE] \in AccountTypes
         /\ [r EXCEPT !.ver = n, !.active = FALSE].here = r.here
         /\ ~[r EXCEPT !.ver = n, !.active = FALSE].active
         /\ [r EXCEPT !.ver = n, !.active = FALSE].pw = r.pw
  BY DEF AccountTypes

LEMMA RevokeWritten ==
  ASSUME NEW r \in AccountTypes, NEW n \in Nat, NEW m \in Nat
  PROVE  /\ [r EXCEPT !.ver = n, !.pw = m] \in AccountTypes
         /\ [r EXCEPT !.ver = n, !.pw = m].here = r.here
         /\ [r EXCEPT !.ver = n, !.pw = m].active = r.active
         /\ [r EXCEPT !.ver = n, !.pw = m].pw = m
  BY DEF AccountTypes

LEMMA RestTyped ==
  ASSUME NEW st \in Stages
  PROVE  /\ Rest(st) \in WorkerTypes /\ Rest(st).at = st /\ Rest(st).a = Superadmin
         /\ [Rest(st) EXCEPT !.read = account] = [at |-> st, a |-> Superadmin, read |-> account]
         /\ \A a \in Accounts : [Rest(st) EXCEPT !.a = a] = [at |-> st, a |-> a, read |-> Rest(st).read]
         /\ Rest(st).read \in [Accounts -> AccountTypes]
  <1>1. [a \in Accounts |-> Missing] \in [Accounts -> AccountTypes]
    BY RowsTyped
  <1>2. Superadmin \in Accounts
    BY AccountAssumption
  <1> HIDE DEF Missing
  <1>3. Rest(st) = [at |-> st, a |-> Superadmin, read |-> [a \in Accounts |-> Missing]]
    BY DEF Rest
  <1>4. /\ Rest(st).at = st /\ Rest(st).a = Superadmin
        /\ Rest(st).read = [a \in Accounts |-> Missing]
    BY <1>3
  <1>5. Rest(st) \in WorkerTypes
    BY <1>1, <1>2, <1>3 DEF WorkerTypes
  <1>6. [Rest(st) EXCEPT !.read = account] = [at |-> st, a |-> Superadmin, read |-> account]
    BY <1>3
  <1>7. ASSUME NEW a \in Accounts
        PROVE  [Rest(st) EXCEPT !.a = a] = [at |-> st, a |-> a, read |-> Rest(st).read]
    <2> DEFINE none == [b \in Accounts |-> Missing]
    <2> HIDE DEF none
    <2>1. Rest(st) = [at |-> st, a |-> Superadmin, read |-> none] /\ Rest(st).read = none
      BY <1>3, <1>4 DEF none
    <2> QED BY <2>1
  <1> QED BY <1>1, <1>4, <1>5, <1>6, <1>7

-----------------------------------------------------------------------------
(* Whom a worker is about to give a token, and who has used one, exist.    *)
PresentInv ==
    /\ \A w \in Workers : worker[w].at \in {"right", "issue"} => account[worker[w].a].here
    /\ \A a \in admitted : account[a].here

(* A default password that is in force now was in force when the seed of a *)
(* worker read the rows: nothing makes one.                                *)
SeedInv ==
    \A w \in Workers : worker[w].at = "seed" =>
        \A a \in Defaults : account[a].here /\ account[a].pw = 0 =>
            worker[w].read[a].here /\ worker[w].read[a].pw = 0

(* No seed that has gone past its first commit leaves one in use.          *)
LegacyInv ==
    (\E w \in Workers : worker[w].at \notin {"down", "seed"}) =>
        \A a \in Defaults : account[a].here /\ account[a].active => account[a].pw # 0

SuperInv ==
    /\ Superadmin \notin Defaults /\ account[Superadmin].here => account[Superadmin].active
    /\ (\E w \in Workers : worker[w].at \notin {"down", "seed", "super", "insert"})
         => account[Superadmin].here

Inv == TypeOK /\ PresentInv /\ SeedInv /\ LegacyInv /\ SuperInv

LEMMA InvInit == Init => Inv
  <1> SUFFICES ASSUME Init PROVE Inv
    OBVIOUS
  <1>1. \A a \in Accounts : /\ account[a] \in {Missing, Fresh(0), Fresh(1)}
                            /\ account[a] \in AccountTypes
                            /\ account[a].here => account[a].active
    <2>1. ASSUME NEW r \in {Missing, Fresh(0), Fresh(1)}
          PROVE  r \in AccountTypes /\ (r.here => r.active)
      BY <2>1, RowsTyped
    <2>2. \A a \in Accounts : account[a] \in {Missing, Fresh(0), Fresh(1)}
      BY DEF Init
    <2> QED BY <2>1, <2>2
  <1>2. account \in [Accounts -> AccountTypes]
    BY <1>1 DEF Init
  <1>3. worker \in [Workers -> WorkerTypes] /\ \A w \in Workers : worker[w].at = "down"
    BY RestTyped DEF Init, Stages
  <1>4. TypeOK
    BY <1>2, <1>3 DEF Init, TypeOK
  <1>5. PresentInv /\ SeedInv /\ LegacyInv
    BY <1>3 DEF Init, PresentInv, SeedInv, LegacyInv
  <1>6. SuperInv
    BY <1>1, <1>3, AccountAssumption DEF SuperInv
  <1> QED BY <1>4, <1>5, <1>6 DEF Inv

(* How rows may change: they are not removed, not activated, and not given *)
(* a default password.  Only the seed deactivates, and only Defaults.      *)
Tame ==
    /\ account' \in [Accounts -> AccountTypes]
    /\ \A a \in Accounts :
         /\ account[a].here => account'[a].here /\ (account'[a].active => account[a].active)
         /\ ~account[a].here /\ account'[a].here => account'[a].active
         /\ account'[a].here /\ account'[a].pw = 0 => account[a].here /\ account[a].pw = 0
    /\ Superadmin \notin Defaults /\ account[Superadmin].here /\ account[Superadmin].active
         => account'[Superadmin].active

LEMMA TameKept == ASSUME Inv, UNCHANGED account PROVE Tame
  BY DEF Inv, TypeOK, Tame

(* A worker moves on: what has to be known of its new place. *)
LEMMA WorkerStep ==
  ASSUME Inv, Tame, NEW w \in Workers, NEW r \in WorkerTypes,
         worker' = [worker EXCEPT ![w] = r],
         r.at \in {"right", "issue"} => account'[r.a].here,
         r.at = "seed" => r.read = account /\ UNCHANGED account,
         r.at \notin {"down", "seed"} => \/ worker[w].at \notin {"down", "seed"}
                                         \/ \A a \in Defaults : account'[a].here /\ account'[a].active
                                                                 => account'[a].pw # 0,
         r.at \notin {"down", "seed", "super", "insert"} =>
              \/ worker[w].at \notin {"down", "seed", "super", "insert"}
              \/ account'[Superadmin].here,
         issued' \subseteq {a \in Accounts : account'[a].here} \X Nat,
         admitted' \subseteq {a \in Accounts : account'[a].here},
         guesses' \in [Accounts -> Nat]
  PROVE  Inv'
  <1>1. /\ worker' \in [Workers -> WorkerTypes] /\ worker'[w] = r
        /\ \A v \in Workers : v # w => worker'[v] = worker[v]
    BY DEF Inv, TypeOK
  <1>2. TypeOK'
    BY <1>1 DEF Tame, TypeOK
  <1>3. PresentInv'
    BY <1>1 DEF Inv, TypeOK, WorkerTypes, Tame, PresentInv
  <1>4. SeedInv'
    <2> SUFFICES ASSUME NEW v \in Workers, worker'[v].at = "seed", NEW a \in Defaults,
                        account'[a].here, account'[a].pw = 0
                 PROVE  worker'[v].read[a].here /\ worker'[v].read[a].pw = 0
      BY DEF SeedInv
    <2>1. account[a].here /\ account[a].pw = 0
      BY AccountAssumption DEF Tame
    <2>2. CASE v = w
      BY <1>1, <2>1, <2>2
    <2>3. CASE v # w
      BY <1>1, <2>1, <2>3 DEF Inv, SeedInv
    <2> QED BY <2>2, <2>3
  <1>5. LegacyInv'
    <2>1. \/ \E v \in Workers : worker[v].at \notin {"down", "seed"}
          \/ \A v \in Workers : worker'[v].at \in {"down", "seed"}
          \/ \A a \in Defaults : account'[a].here /\ account'[a].active => account'[a].pw # 0
      BY <1>1
    <2>2. ASSUME \A a \in Defaults : account[a].here /\ account[a].active => account[a].pw # 0
          PROVE  \A a \in Defaults : account'[a].here /\ account'[a].active => account'[a].pw # 0
      BY <2>2, AccountAssumption DEF Tame
    <2> QED BY <2>1, <2>2 DEF Inv, LegacyInv
  <1>6. SuperInv'
    BY <1>1, AccountAssumption DEF Inv, Tame, SuperInv
  <1> QED BY <1>2, <1>3, <1>4, <1>5, <1>6 DEF Inv

(* What the rows of others and the workers' own places give each step. *)
LEMMA Facts ==
  ASSUME Inv
  PROVE  /\ account \in [Accounts -> AccountTypes] /\ worker \in [Workers -> WorkerTypes]
         /\ issued \subseteq {a \in Accounts : account[a].here} \X Nat
         /\ admitted \subseteq {a \in Accounts : account[a].here}
         /\ guesses \in [Accounts -> Nat]
         /\ \A w \in Workers : worker[w].a \in Accounts /\ Was(w) \in AccountTypes
         /\ Superadmin \in Accounts
  BY AccountAssumption DEF Inv, TypeOK, PresentInv, WorkerTypes, Was

(* A worker that only reads, or goes where it gives no token. *)
LEMMA GoStep ==
  ASSUME Inv, Tame, NEW w \in Workers, NEW st \in {"down", "super", "insert", "ready"}, Go(w, st),
         st # "down" => \/ worker[w].at \notin {"down", "seed"}
                        \/ \A a \in Defaults : account'[a].here /\ account'[a].active
                                                => account'[a].pw # 0,
         st = "ready" => \/ worker[w].at \notin {"down", "seed", "super", "insert"}
                         \/ account'[Superadmin].here,
         UNCHANGED <<issued, admitted>>, guesses' \in [Accounts -> Nat]
  PROVE  Inv'
  <1>1. st \in Stages
    BY DEF Stages
  <1>2. Rest(st) \in WorkerTypes /\ Rest(st).at = st
    BY <1>1, RestTyped
  <1>3. /\ issued' \subseteq {a \in Accounts : account'[a].here} \X Nat
        /\ admitted' \subseteq {a \in Accounts : account'[a].here}
    BY Facts DEF Tame
  <1> QED BY <1>2, <1>3, WorkerStep DEF Go

LEMMA ReadStep ==
  ASSUME Inv, NEW w \in Workers, worker[w].at = "ready", NEW a \in Accounts,
         NEW st \in {"right", "wrong", "logout", "change", "register"}, Read(w, st, a),
         st = "right" => account[a].here,
         admitted' \subseteq admitted, UNCHANGED <<account, issued, guesses>>
  PROVE  Inv'
  <1> DEFINE r == [at |-> st, a |-> a, read |-> [Rest(st).read EXCEPT ![a] = account[a]]]
  <1>1. st \in Stages
    BY DEF Stages
  <1>2. r \in WorkerTypes /\ r.at = st /\ r.a = a
    BY <1>1, RestTyped, Facts DEF WorkerTypes
  <1>3. worker' = [worker EXCEPT ![w] = r]
    BY DEF Read
  <1> HIDE DEF r
  <1> QED BY <1>2, <1>3, TameKept, Facts, WorkerStep

(* A worker hands out, or will hand out, a token for an account that is. *)
LEMMA TokenStep ==
  ASSUME Inv, Tame, NEW w \in Workers, worker[w].at \in {"right", "register"},
         account'[worker[w].a].here,
         worker' = [worker EXCEPT ![w] = [Rest("issue") EXCEPT !.a = worker[w].a]],
         UNCHANGED <<issued, admitted>>, guesses' \in [Accounts -> Nat]
  PROVE  Inv'
  <1> DEFINE r == [Rest("issue") EXCEPT !.a = worker[w].a]
  <1>1. "issue" \in Stages
    BY DEF Stages
  <1>2. r = [at |-> "issue", a |-> worker[w].a, read |-> Rest("issue").read]
    BY <1>1, RestTyped, Facts
  <1>3. r \in WorkerTypes /\ r.at = "issue" /\ r.a = worker[w].a
    <2>1. Rest("issue").read \in [Accounts -> AccountTypes] /\ worker[w].a \in Accounts
      BY <1>1, RestTyped, Facts
    <2> QED BY <1>1, <1>2, <2>1 DEF WorkerTypes
  <1>4. worker' = [worker EXCEPT ![w] = r]
    OBVIOUS
  <1>5. /\ issued' \subseteq {a \in Accounts : account'[a].here} \X Nat
        /\ admitted' \subseteq {a \in Accounts : account'[a].here}
    BY Facts DEF Tame
  <1> HIDE DEF r
  <1> QED BY <1>3, <1>4, <1>5, WorkerStep

LEMMA SeedStep ==
  ASSUME Inv, NEW w \in Workers, SeedRead(w) \/ SeedCommit(w)
  PROVE  Inv'
  <1>1. CASE SeedRead(w)
    <2>1. "seed" \in Stages
      BY DEF Stages
    <2> DEFINE r == [at |-> "seed", a |-> Superadmin, read |-> account]
    <2>2. r \in WorkerTypes /\ r.at = "seed" /\ r.read = account
      BY <2>1, Facts DEF WorkerTypes
    <2>3. worker' = [worker EXCEPT ![w] = r] /\ UNCHANGED <<account, issued, admitted, guesses>>
      BY <1>1, <2>1, RestTyped DEF SeedRead
    <2> HIDE DEF r
    <2> QED BY <2>2, <2>3, TameKept, Facts, WorkerStep
  <1>2. CASE SeedCommit(w)
    <2>1. \A a \in Accounts : /\ worker[w].read[a] \in AccountTypes
                              /\ account[a] \in AccountTypes
      BY Facts DEF WorkerTypes
    <2>2. \A a \in Accounts :
            account'[a] = IF a \in Legacy(w)
                          THEN [account[a] EXCEPT !.ver = worker[w].read[a].ver + 1,
                                                  !.active = FALSE]
                          ELSE account[a]
      BY <1>2 DEF SeedCommit
    <2>3. \A a \in Accounts :
            /\ account'[a] \in AccountTypes /\ account'[a].here = account[a].here
            /\ account'[a].pw = account[a].pw
            /\ a \in Legacy(w) => ~account'[a].active
            /\ a \notin Legacy(w) => account'[a] = account[a]
      <3> TAKE a \in Accounts
      <3>1. worker[w].read[a].ver + 1 \in Nat
        BY <2>1, Columns
      <3> DEFINE q == [account[a] EXCEPT !.ver = worker[w].read[a].ver + 1, !.active = FALSE]
      <3>2. q \in AccountTypes /\ q.here = account[a].here /\ ~q.active /\ q.pw = account[a].pw
        BY <2>1, <3>1, SeedWritten
      <3>3. account'[a] = IF a \in Legacy(w) THEN q ELSE account[a]
        BY <2>2
      <3> HIDE DEF q
      <3> QED BY <2>1, <3>2, <3>3
    <2>4. Tame
      <3>1. account' \in [Accounts -> AccountTypes]
        BY <1>2, <2>2, <2>3 DEF SeedCommit
      <3>2. Superadmin \notin Defaults => Superadmin \notin Legacy(w)
        BY DEF Legacy
      <3> QED BY <2>3, <3>1, <3>2, Facts DEF Tame
    <2>5. \A a \in Defaults : account'[a].here /\ account'[a].active => account'[a].pw # 0
      <3> SUFFICES ASSUME NEW a \in Defaults, account'[a].here, account'[a].pw = 0
                   PROVE  ~account'[a].active
        OBVIOUS
      <3>1. a \in Accounts /\ account[a].here /\ account[a].pw = 0
        BY <2>3, AccountAssumption
      <3>2. a \in Legacy(w)
        BY <1>2, <3>1 DEF SeedCommit, Inv, SeedInv, Legacy
      <3> QED BY <2>3, <3>1, <3>2
    <2> QED BY <1>2, <2>4, <2>5, GoStep, Facts DEF SeedCommit
  <1> QED BY <1>1, <1>2

LEMMA InsertTame ==
  ASSUME Inv, NEW a \in Accounts, ~account[a].here, account' = [account EXCEPT ![a] = Fresh(1)]
  PROVE  Tame /\ account'[a].here
  <1>1. account' \in [Accounts -> AccountTypes] /\ account'[a] = Fresh(1)
        /\ \A b \in Accounts : b # a => account'[b] = account[b]
    BY Facts, RowsTyped
  <1>2. Fresh(1).here /\ Fresh(1).active /\ Fresh(1).pw = 1
    BY RowsTyped
  <1> QED BY <1>1, <1>2, Facts DEF Tame

(* Logins, logouts and password changes write some columns of one row. *)
LEMMA ColumnsTame ==
  ASSUME Inv, NEW a \in Accounts, NEW r \in AccountTypes,
         account' = [account EXCEPT ![a] = r],
         r.here = account[a].here, r.active = account[a].active,
         r.pw = account[a].pw \/ r.pw # 0
  PROVE  Tame
  <1>1. account' \in [Accounts -> AccountTypes] /\ account'[a] = r
        /\ \A b \in Accounts : b # a => account'[b] = account[b]
    BY Facts
  <1>2. /\ account'[a].here => account'[a].here
        /\ account'[a].here /\ account'[a].pw = 0 => account[a].here /\ account[a].pw = 0
    BY <1>1
  <1> QED BY <1>1, <1>2, Facts DEF Tame, Inv, SuperInv

LEMMA LoginStep ==
  ASSUME Inv, NEW w \in Workers, RightCommit(w) \/ WrongCommit(w)
  PROVE  Inv'
  <1> DEFINE a == worker[w].a
  <1>1. /\ a \in Accounts /\ account[a] \in AccountTypes /\ Was(w) \in AccountTypes
        /\ account \in [Accounts -> AccountTypes]
    BY Facts
  <1>2. CASE RightCommit(w)
    <2> DEFINE r == [account[a] EXCEPT !.fails = IF Was(w).fails = 0 THEN @ ELSE 0,
                                       !.lock = IF Was(w).lock = "none" THEN @ ELSE "none"]
    <2>1. r \in AccountTypes /\ r.here = account[a].here /\ r.active = account[a].active
          /\ r.pw = account[a].pw
      <3>1. /\ (IF Was(w).fails = 0 THEN account[a].fails ELSE 0) \in 0..(Threshold - 1)
            /\ (IF Was(w).lock = "none" THEN account[a].lock ELSE "none")
                 \in {"none", "running", "over"}
        BY <1>1, Columns, Zero
      <3> DEFINE f == IF Was(w).fails = 0 THEN account[a].fails ELSE 0
                 l == IF Was(w).lock = "none" THEN account[a].lock ELSE "none"
                 old == account[a]
      <3>2. r = [old EXCEPT !.fails = f, !.lock = l]
        OBVIOUS
      <3>3. f \in 0..(Threshold - 1) /\ l \in {"none", "running", "over"}
        BY <3>1
      <3>4. old \in AccountTypes
        BY <1>1
      <3> HIDE DEF f, l, old, r
      <3>5. /\ r \in AccountTypes /\ r.here = old.here /\ r.active = old.active
            /\ r.pw = old.pw
        BY <3>2, <3>3, <3>4, LoginWritten
      <3> QED BY <3>5 DEF old
    <2>2. account' = [account EXCEPT ![a] = r]
      BY <1>1, <1>2 DEF RightCommit
    <2> HIDE DEF r
    <2>3. Tame
      BY <1>1, <2>1, <2>2, ColumnsTame
    <2>4. account'[a].here
      BY <1>1, <1>2, <2>3 DEF RightCommit, Inv, PresentInv, Tame
    <2>5. guesses' \in [Accounts -> Nat]
      BY <1>2, Facts DEF RightCommit
    <2> QED BY <1>2, <2>3, <2>4, <2>5, TokenStep DEF RightCommit
  <1>3. CASE WrongCommit(w)
    <2> DEFINE locked == [account[a] EXCEPT !.fails = 0, !.lock = "running"]
               counted == [account[a] EXCEPT !.fails = Counted(w)]
               r == IF Locks(w) THEN locked ELSE counted
    <2>1. Counted(w) \in Nat /\ (~Locks(w) => Counted(w) \in 0..(Threshold - 1))
      BY <1>1, ThresholdAssumption DEF Counted, Locks, AccountTypes
    <2>2. /\ locked \in AccountTypes /\ locked.here = account[a].here
          /\ locked.active = account[a].active /\ locked.pw = account[a].pw
      <3> "running" \in {"none", "running", "over"}
        OBVIOUS
      <3> QED BY <1>1, Zero, LoginWritten
    <2>3. ~Locks(w) => /\ counted \in AccountTypes /\ counted.here = account[a].here
                       /\ counted.active = account[a].active /\ counted.pw = account[a].pw
      BY <1>1, <2>1, CountWritten
    <2>4. account' = [account EXCEPT ![a] = r]
      BY <1>1, <1>3 DEF WrongCommit
    <2>5. guesses' \in [Accounts -> Nat]
      BY <1>3, Facts DEF WrongCommit
    <2> HIDE DEF locked, counted
    <2>6. Tame
      BY <1>1, <2>2, <2>3, <2>4, ColumnsTame
    <2> QED BY <1>3, <2>5, <2>6, GoStep DEF WrongCommit
  <1> QED BY <1>2, <1>3

LEMMA RevokeStep ==
  ASSUME Inv, NEW w \in Workers, RevokeCommit(w)
  PROVE  Inv'
  <1> DEFINE a == worker[w].a
             r == [account[a] EXCEPT !.ver = Was(w).ver + 1,
                                     !.pw = IF worker[w].at = "change" THEN Was(w).pw + 1 ELSE @]
  <1>1. /\ a \in Accounts /\ account[a] \in AccountTypes /\ Was(w) \in AccountTypes
        /\ account \in [Accounts -> AccountTypes]
    BY Facts
  <1>2. r \in AccountTypes /\ r.here = account[a].here /\ r.active = account[a].active
        /\ (r.pw = account[a].pw \/ r.pw # 0)
    <2> DEFINE n == IF worker[w].at = "change" THEN Was(w).pw + 1 ELSE account[a].pw
               v == Was(w).ver + 1
               old == account[a]
    <2>1. v \in Nat /\ n \in Nat /\ (n = account[a].pw \/ n # 0)
      BY <1>1, Columns
    <2>2. r = [old EXCEPT !.ver = v, !.pw = n] /\ old \in AccountTypes
      BY <1>1
    <2> HIDE DEF n, v, old, r
    <2>3. r \in AccountTypes /\ r.here = old.here /\ r.active = old.active /\ r.pw = n
      BY <2>1, <2>2, RevokeWritten
    <2> QED BY <2>1, <2>3 DEF old
  <1>3. account' = [account EXCEPT ![a] = r]
    BY <1>1 DEF RevokeCommit
  <1> HIDE DEF r
  <1>4. Tame
    BY <1>1, <1>2, <1>3, ColumnsTame
  <1> QED BY <1>4, GoStep, Facts DEF RevokeCommit

LEMMA InvStep == Inv /\ [Next]_vars => Inv'
  <1> SUFFICES ASSUME Inv, [Next]_vars PROVE Inv'
    OBVIOUS
  <1>1. CASE \E w \in Workers : SeedRead(w) \/ SeedCommit(w)
    BY <1>1, SeedStep
  <1>2. CASE \E w \in Workers : SuperRead(w)
    <2>1. PICK w \in Workers : SuperRead(w)
      BY <1>2
    <2>2. PICK st \in {"insert", "ready"} : Go(w, st) /\ (st = "ready" => account[Superadmin].here)
      BY <2>1 DEF SuperRead
    <2> QED BY <2>1, <2>2, TameKept, Facts, GoStep DEF SuperRead
  <1>3. CASE \E w \in Workers : SuperInsert(w)
    <2>1. PICK w \in Workers : SuperInsert(w)
      BY <1>3
    <2>2. Tame /\ account'[Superadmin].here
      BY <2>1, InsertTame, TameKept, Facts DEF SuperInsert
    <2> QED BY <2>1, <2>2, Facts, GoStep DEF SuperInsert
  <1>4. CASE \E w \in Workers, a \in Accounts :
               \/ Register(w, a)
               \/ \E st \in {"right", "wrong"} : LoginRead(w, a, st)
               \/ \E st \in {"logout", "change"} : RevokeRead(w, a, st)
    BY <1>4, ReadStep DEF Register, LoginRead, RevokeRead
  <1>5. CASE \E w \in Workers : RightCommit(w) \/ WrongCommit(w)
    BY <1>5, LoginStep
  <1>6. CASE \E w \in Workers : RegisterInsert(w)
    <2>1. PICK w \in Workers : RegisterInsert(w)
      BY <1>6
    <2>2. CASE account[worker[w].a].here
      BY <2>1, <2>2, TameKept, Facts, GoStep DEF RegisterInsert
    <2>3. CASE ~account[worker[w].a].here
      <3>1. Tame /\ account'[worker[w].a].here
        BY <2>1, <2>3, InsertTame, Facts DEF RegisterInsert
      <3> QED BY <2>1, <2>3, <3>1, Facts, TokenStep DEF RegisterInsert
    <2> QED BY <2>2, <2>3
  <1>7. CASE \E w \in Workers : Issue(w)
    <2>1. PICK w \in Workers : Issue(w)
      BY <1>7
    <2> DEFINE t == <<worker[w].a, account[worker[w].a].ver>>
    <2>2. t \in {a \in Accounts : account[a].here} \X Nat
      BY <2>1, Facts DEF Issue, Inv, PresentInv, AccountTypes
    <2>3. /\ "ready" \in Stages /\ worker' = [worker EXCEPT ![w] = Rest("ready")]
          /\ issued' = issued \cup {t} /\ UNCHANGED <<account, admitted, guesses>>
          /\ worker[w].at = "issue"
      BY <2>1 DEF Issue, Go, Stages
    <2>4. Rest("ready") \in WorkerTypes /\ Rest("ready").at = "ready"
      BY <2>3, RestTyped
    <2> HIDE DEF t
    <2> QED BY <2>2, <2>3, <2>4, TameKept, Facts, WorkerStep
  <1>8. CASE \E w \in Workers : RevokeCommit(w)
    BY <1>8, RevokeStep
  <1>9. CASE \E w \in Workers : Crash(w)
    BY <1>9, TameKept, Facts, GoStep DEF Crash
  <1>10. CASE \E t \in issued : Admit(t)
    BY <1>10, Facts DEF Admit, Inv, TypeOK, PresentInv, SeedInv, LegacyInv, SuperInv
  <1>11. CASE \E a \in Accounts : LockRunsOut(a)
    <2>1. PICK a \in Accounts : LockRunsOut(a)
      BY <1>11
    <2> DEFINE r == [account[a] EXCEPT !.lock = "over"]
    <2>2. r \in AccountTypes /\ r.here = account[a].here /\ r.active = account[a].active
          /\ r.pw = account[a].pw
      BY Facts, LockWritten
    <2>3. account' = [account EXCEPT ![a] = r] /\ UNCHANGED <<worker, issued, admitted, guesses>>
      BY <2>1 DEF LockRunsOut
    <2> HIDE DEF r
    <2>4. \A b \in Accounts : /\ account'[b] \in AccountTypes
                              /\ account'[b].here = account[b].here
                              /\ account'[b].active = account[b].active
                              /\ account'[b].pw = account[b].pw
      BY <2>2, <2>3, Facts
    <2>5. TypeOK'
      BY <2>2, <2>3, <2>4 DEF Inv, TypeOK
    <2>6. PresentInv' /\ SeedInv' /\ LegacyInv' /\ SuperInv'
      BY <2>3, <2>4, Facts, AccountAssumption DEF Inv, PresentInv, SeedInv, LegacyInv, SuperInv
    <2> QED BY <2>5, <2>6 DEF Inv
  <1>12. CASE UNCHANGED vars
    BY <1>12 DEF vars, Inv, TypeOK, PresentInv, SeedInv, LegacyInv, SuperInv
  <1> QED BY <1>1, <1>2, <1>3, <1>4, <1>5, <1>6, <1>7, <1>8, <1>9, <1>10, <1>11, <1>12 DEF Next

LEMMA Invariant == Spec => []Inv
  BY InvInit, InvStep, PTL DEF Spec

(* The variables keep their types, and tokens are of accounts that exist.  *)
THEOREM AccountsTypeCorrect == Spec => []TypeOK
  <1>1. Inv => TypeOK
    BY DEF Inv
  <1> QED BY <1>1, Invariant, PTL

(* A worker that serves requests does so with the superadmin's account     *)
(* there and without a default password in use, however the workers seed;  *)
(* the superadmin can log in if its name is not that of a historical       *)
(* account, which the seed switches off.                                   *)
THEOREM StartedAlwaysSafe == Spec => []StartedIsSafe
  <1>1. Inv => StartedIsSafe
    BY DEF Inv, LegacyInv, SuperInv, StartedIsSafe
  <1> QED BY <1>1, Invariant, PTL

-----------------------------------------------------------------------------
(* The lockout.  A worker holds the count it has read, or else would read  *)
(* the one that is stored.                                                 *)
Pending(w, a) == worker[w].at = "wrong" /\ worker[w].a = a
Value(w, a) == IF Pending(w, a) THEN Was(w).fails ELSE account[a].fails

(* The guesses that a worker with the count n can still undo, twice.       *)
Delay(n) == (Threshold - n) * (Threshold - n - 1)
Bound == Threshold * (Threshold + 1)

(* Guesses that were answered, that the stored count still allows, and     *)
(* that any worker can still undo are bounded together; the stored count   *)
(* is what some worker holds.                                              *)
GuessesOf(a) ==
    /\ ~account[a].here => guesses[a] = 0
    /\ \A w \in Workers : Pending(w, a) => account[a].here
    /\ \E w \in Workers : Value(w, a) = account[a].fails
    /\ \A w \in Workers :
         2 * guesses[a] + 2 * (Threshold - account[a].fails) + Delay(Value(w, a)) <= Bound
GuessInv == \A a \in Accounts : GuessesOf(a)

Counts == 0..(Threshold - 1)

LEMMA Delays ==
  /\ Bound \in Nat
  /\ \A n \in Counts : Delay(n) \in Nat /\ Delay(n) + 2 * Threshold <= Bound
  /\ \A m, n \in Counts : m <= n => Delay(n) <= Delay(m)
  /\ \A n \in Counts : n + 1 \in Counts => Delay(n) = Delay(n + 1) + 2 * (Threshold - n - 1)
  <1>1. Threshold \in Nat /\ Bound = Threshold * Threshold + Threshold /\ Bound \in Nat
    BY ThresholdAssumption DEF Bound
  <1>2. ASSUME NEW n \in Counts, NEW k \in Nat, k = Threshold - n
        PROVE  Delay(n) = k * k - k /\ Delay(n) \in Nat
    <2>1. k \in Nat \ {0} /\ Delay(n) = k * (k - 1)
      BY <1>1, <1>2 DEF Counts, Delay
    <2>2. k * (k - 1) = k * k - k /\ k * (k - 1) \in Nat
      BY <2>1
    <2> QED BY <2>1, <2>2
  <1>3. ASSUME NEW m \in Counts, NEW n \in Counts, m <= n
        PROVE  Delay(n) <= Delay(m)
    <2>1. PICK k \in Nat, d \in Nat : k = Threshold - n /\ k + d = Threshold - m
      <3>1. /\ Threshold - n \in Nat /\ n - m \in Nat
            /\ (Threshold - n) + (n - m) = Threshold - m
        BY <1>1, <1>3 DEF Counts
      <3> QED BY <3>1
    <2>2. Delay(n) = k * k - k /\ Delay(m) = (k + d) * (k + d) - (k + d)
      BY <1>2, <2>1
    <2>3. (k + d) * (k + d) - (k + d) = (k * k - k) + d * (2 * k + d - 1)
      BY <2>1
    <2>4. k >= 1
      BY <1>1, <2>1 DEF Counts
    <2>5. d * (2 * k + d - 1) \in Nat
      <3>1. 2 * k + d - 1 \in Nat
        BY <2>4
      <3> QED BY <3>1
    <2> QED BY <2>2, <2>3, <2>5
  <1>4. ASSUME NEW n \in Counts
        PROVE  Delay(n) + 2 * Threshold <= Bound
    <2>1. 0 \in Counts /\ 0 <= n /\ Delay(0) = Threshold * Threshold - Threshold
      BY <1>1, <1>2, Zero DEF Counts
    <2>2. Delay(n) <= Delay(0) /\ Delay(n) \in Nat /\ Delay(0) \in Nat
      <3>1. Threshold - n \in Nat
        BY <1>1 DEF Counts
      <3> QED BY <1>1, <1>2, <1>3, <2>1, <3>1
    <2> QED BY <1>1, <2>1, <2>2
  <1>5. ASSUME NEW n \in Counts, n + 1 \in Counts
        PROVE  Delay(n) = Delay(n + 1) + 2 * (Threshold - n - 1)
    <2>1. PICK k \in Nat : k = Threshold - (n + 1)
      BY <1>1, <1>5 DEF Counts
    <2>2. Delay(n + 1) = k * k - k /\ Delay(n) = (k + 1) * (k + 1) - (k + 1)
      <3>1. k + 1 \in Nat /\ k + 1 = Threshold - n
        BY <1>1, <2>1 DEF Counts
      <3> QED BY <1>2, <1>5, <2>1, <3>1
    <2>3. (k + 1) * (k + 1) - (k + 1) = (k * k - k) + 2 * k
      OBVIOUS
    <2>4. Threshold - n - 1 = k
      BY <1>1, <2>1 DEF Counts
    <2> QED BY <2>2, <2>3, <2>4
  <1>6. ASSUME NEW n \in Counts PROVE Delay(n) \in Nat
    <2>1. Threshold - n \in Nat
      BY <1>1 DEF Counts
    <2> QED BY <1>2, <2>1
  <1> QED BY <1>1, <1>3, <1>4, <1>5, <1>6

LEMMA ValuesTyped ==
  ASSUME Inv
  PROVE  \A a \in Accounts : /\ account[a].fails \in Counts /\ guesses[a] \in Nat
                             /\ \A w \in Workers : Value(w, a) \in Counts
  <1>1. \A a \in Accounts : account[a] \in AccountTypes
    BY Facts
  <1>2. \A r \in AccountTypes : r.fails \in Counts
    BY DEF AccountTypes, Counts
  <1> QED BY <1>1, <1>2, Facts DEF Value

LEMMA GuessInit == (\E u, v : Workers = {u, v}) /\ Init => GuessInv
  <1> SUFFICES ASSUME NEW u, NEW v, Workers = {u, v}, Init, NEW a \in Accounts
               PROVE  GuessesOf(a)
    BY DEF GuessInv
  <1>1. guesses[a] = 0 /\ \A w \in Workers : ~Pending(w, a)
    BY RestTyped DEF Init, Pending, Stages
  <1>2. account[a].fails = 0
    <2>1. Missing.fails = 0 /\ Fresh(0).fails = 0 /\ Fresh(1).fails = 0
      BY DEF Missing, Fresh, Row
    <2> QED BY <2>1 DEF Init
  <1>3. \A w \in Workers : Value(w, a) = 0
    BY <1>1, <1>2 DEF Value
  <1> QED BY <1>1, <1>2, <1>3, Zero, Delays, ThresholdAssumption DEF GuessesOf, Counts

(* A step that leaves the worker w with the stored count, or none, is one  *)
(* of three kinds for an account: it leaves count and guesses alone, it    *)
(* ends a series of guesses, or it counts one from what w has read.        *)
LEMMA GuessMove ==
  ASSUME Inv, Inv', NEW w \in Workers, NEW a \in Accounts, GuessesOf(a),
         Workers = {w} \/ \E v \in Workers : Workers = {w, v},
         \A v \in Workers : v # w => worker'[v] = worker[v],
         Value(w, a)' = account'[a].fails, Pending(w, a)' => account'[a].here,
         account[a].here => account'[a].here, ~account'[a].here => guesses'[a] = 0,
         \/ account'[a].fails = account[a].fails /\ guesses'[a] = guesses[a]
         \/ guesses'[a] = 0
         \/ /\ account'[a].fails = Value(w, a) + 1 /\ guesses'[a] = guesses[a] + 1
  PROVE  GuessesOf(a)'
  <1>1. /\ account[a].fails \in Counts /\ guesses[a] \in Nat
        /\ \A v \in Workers : Value(v, a) \in Counts
    BY ValuesTyped
  <1>2. /\ account'[a].fails \in Counts /\ guesses'[a] \in Nat
        /\ \A v \in Workers : Value(v, a)' \in Counts
    <2>1. /\ \A b \in Accounts : account'[b] \in AccountTypes
          /\ guesses' \in [Accounts -> Nat]
          /\ \A v \in Workers : worker'[v].read[worker'[v].a] \in AccountTypes
      BY DEF Inv, TypeOK, WorkerTypes
    <2>2. \A r \in AccountTypes : r.fails \in Counts
      BY DEF AccountTypes, Counts
    <2> QED BY <2>1, <2>2 DEF Value, Was
  <1>3. \A v \in Workers : v # w => \/ Value(v, a)' = Value(v, a)
                                    \/ Value(v, a)' = account'[a].fails
    BY DEF Value, Pending, Was
  <1>4. \A v \in Workers : Pending(v, a)' => account'[a].here
    BY DEF Pending, GuessesOf
  <1>5. ASSUME NEW v \in Workers
        PROVE  2 * guesses'[a] + 2 * (Threshold - account'[a].fails) + Delay(Value(v, a)') <= Bound
    <2> DEFINE f == account[a].fails
               g == account'[a].fails
               r == Value(w, a)
               y == Value(v, a)'
               n == guesses[a]
    <2>1. /\ f \in Counts /\ g \in Counts /\ r \in Counts /\ y \in Counts /\ n \in Nat
          /\ Threshold \in Nat
      BY <1>1, <1>2, ThresholdAssumption
    <2>2. CASE guesses'[a] = 0
      BY <2>1, <2>2, Delays DEF Counts
    <2>3. CASE g = f /\ guesses'[a] = n
      <3>1. y = Value(v, a) \/ y = f
        BY <1>3, <2>3
      <3>2. \E x \in Workers : y = Value(x, a)
        BY <3>1 DEF GuessesOf
      <3> QED BY <2>3, <3>2 DEF GuessesOf
    <2>4. CASE g = r + 1 /\ guesses'[a] = n + 1
      <3>1. 2 * n + 2 * (Threshold - f) + Delay(r) <= Bound
        BY DEF GuessesOf
      <3>2. Delay(r) = Delay(r + 1) + 2 * (Threshold - r - 1)
        BY <2>1, <2>4, Delays
      <3>3. Delay(r) \in Nat /\ Delay(r + 1) \in Nat /\ Delay(y) \in Nat /\ Bound \in Nat
        BY <2>1, <2>4, Delays
      <3>4. 2 * (n + 1) + 2 * (Threshold - g) + Delay(r + 1) <= Bound
        BY <2>1, <2>4, <3>1, <3>2, <3>3 DEF Counts
      <3>5. CASE y >= r + 1
        <4>1. Delay(y) <= Delay(r + 1)
          BY <2>1, <2>4, <3>5, Delays
        <4> QED BY <2>1, <2>4, <3>3, <3>4, <4>1 DEF Counts
      <3>6. CASE ~(y >= r + 1)
        <4>1. v # w /\ y = Value(v, a) /\ y <= r
          BY <1>3, <2>1, <2>4, <3>6 DEF Counts
        <4>2. 2 * n + 2 * (Threshold - f) + Delay(y) <= Bound
          BY <4>1 DEF GuessesOf
        <4>3. f = r \/ f = y
          BY <4>1 DEF GuessesOf
        <4>4. 2 * (n + 1) + 2 * (Threshold - g) <= 2 * n + 2 * (Threshold - f)
          BY <2>1, <2>4, <4>1, <4>3 DEF Counts
        <4> QED BY <2>1, <2>4, <3>3, <4>2, <4>4 DEF Counts
      <3> QED BY <3>5, <3>6
    <2> QED BY <2>2, <2>3, <2>4
  <1> QED BY <1>4, <1>5 DEF GuessesOf

(* What the three kinds have in common: the worker w moves on.             *)
Moves(w, a) ==
    /\ \A v \in Workers : v # w => worker'[v] = worker[v]
    /\ Value(w, a)' = account'[a].fails
    /\ Pending(w, a)' => account'[a].here
    /\ account[a].here => account'[a].here
    /\ ~account'[a].here => guesses'[a] = 0

KeepsCount(a) == account'[a].fails = account[a].fails /\ guesses'[a] = guesses[a]
EndsSeries(a) == guesses'[a] = 0
CountsOne(w, a) == account'[a].fails = Value(w, a) + 1 /\ guesses'[a] = guesses[a] + 1
Guess(w, a) == Moves(w, a) /\ (KeepsCount(a) \/ EndsSeries(a) \/ CountsOne(w, a))

LEMMA ColumnsKept ==
  ASSUME NEW r \in AccountTypes, NEW n, NEW m
  PROVE  /\ [r EXCEPT !.ver = n, !.active = m].fails = r.fails
         /\ [r EXCEPT !.ver = n, !.active = m].here = r.here
         /\ [r EXCEPT !.ver = n, !.pw = m].fails = r.fails
         /\ [r EXCEPT !.ver = n, !.pw = m].here = r.here
         /\ [r EXCEPT !.lock = n].fails = r.fails
         /\ [r EXCEPT !.lock = n].here = r.here
         /\ [r EXCEPT !.fails = n, !.lock = m].fails = n
         /\ [r EXCEPT !.fails = n, !.lock = m].here = r.here
         /\ [r EXCEPT !.fails = n].fails = n
         /\ [r EXCEPT !.fails = n].here = r.here
  BY DEF AccountTypes

(* A worker that leaves for a place where it holds no count. *)
LEMMA LeavesNoCount ==
  ASSUME Inv, NEW w \in Workers, NEW r, worker' = [worker EXCEPT ![w] = r], r.at # "wrong",
         NEW a \in Accounts
  PROVE  /\ \A v \in Workers : v # w => worker'[v] = worker[v]
         /\ ~Pending(w, a)' /\ Value(w, a)' = account'[a].fails
  BY Facts DEF Pending, Value

LEMMA GoesToRest ==
  ASSUME Inv, NEW w \in Workers, NEW st \in Stages, st # "wrong",
         \/ Go(w, st)
         \/ worker' = [worker EXCEPT ![w] = [Rest(st) EXCEPT !.read = account]]
         \/ \E a \in Accounts : worker' = [worker EXCEPT ![w] = [Rest(st) EXCEPT !.a = a]],
         NEW a \in Accounts
  PROVE  /\ \A v \in Workers : v # w => worker'[v] = worker[v]
         /\ ~Pending(w, a)' /\ Value(w, a)' = account'[a].fails
  <1>1. PICK r : worker' = [worker EXCEPT ![w] = r] /\ r.at = st
    <2>1. Rest(st).at = st /\ [Rest(st) EXCEPT !.read = account].at = st
      BY RestTyped
    <2>2. \A b \in Accounts : [Rest(st) EXCEPT !.a = b].at = st
      BY RestTyped
    <2> QED BY <2>1, <2>2 DEF Go
  <1> QED BY <1>1, LeavesNoCount

LEMMA ReadGuess ==
  ASSUME Inv, GuessInv, NEW w \in Workers, NEW b \in Accounts, NEW st \in Stages, Read(w, st, b),
         st = "wrong" => account[b].here, UNCHANGED <<account, guesses>>, NEW a \in Accounts
  PROVE  Guess(w, a)
  <1> DEFINE r == [at |-> st, a |-> b, read |-> [Rest(st).read EXCEPT ![b] = account[b]]]
  <1>1. r.at = st /\ r.a = b /\ r.read[b] = account[b]
    BY RestTyped
  <1>2. worker' = [worker EXCEPT ![w] = r]
    BY DEF Read
  <1> HIDE DEF r
  <1>3. worker'[w] = r /\ \A v \in Workers : v # w => worker'[v] = worker[v]
    BY <1>2, Facts
  <1>4. Value(w, a)' = account'[a].fails /\ (Pending(w, a)' => account'[a].here)
    BY <1>1, <1>3 DEF Value, Pending, Was
  <1> QED BY <1>3, <1>4 DEF GuessInv, GuessesOf, Guess, Moves, KeepsCount

LEMMA InsertGuess ==
  ASSUME Inv, GuessInv, NEW w \in Workers, NEW b \in Accounts, ~account[b].here,
         account' = [account EXCEPT ![b] = Fresh(1)], UNCHANGED guesses, NEW a \in Accounts,
         \A v \in Workers : v # w => worker'[v] = worker[v],
         ~Pending(w, a)', Value(w, a)' = account'[a].fails
  PROVE  Guess(w, a)
  <1>1. Fresh(1).here
    BY RowsTyped
  <1>2. guesses[b] = 0
    BY DEF GuessInv, GuessesOf
  <1>3. account'[a] = IF a = b THEN Fresh(1) ELSE account[a]
    BY Facts
  <1> QED BY <1>1, <1>2, <1>3 DEF GuessInv, GuessesOf, Guess, Moves, KeepsCount, EndsSeries

LEMMA LoginGuess ==
  ASSUME Inv, GuessInv, NEW w \in Workers, RightCommit(w) \/ WrongCommit(w), NEW a \in Accounts
  PROVE  Guess(w, a)
  <1> DEFINE b == worker[w].a
  <1>1. /\ b \in Accounts /\ account[b] \in AccountTypes /\ account \in [Accounts -> AccountTypes]
        /\ guesses \in [Accounts -> Nat] /\ {"ready", "issue"} \subseteq Stages
    BY Facts DEF Stages
  <1>2. /\ \A v \in Workers : v # w => worker'[v] = worker[v]
        /\ ~Pending(w, a)' /\ Value(w, a)' = account'[a].fails
    BY <1>1, GoesToRest DEF RightCommit, WrongCommit
  <1>3. CASE a # b
    <2>1. account'[a] = account[a] /\ guesses'[a] = guesses[a]
      BY <1>1, <1>3 DEF RightCommit, WrongCommit
    <2> QED BY <1>2, <2>1 DEF GuessInv, GuessesOf, Guess, Moves, KeepsCount
  <1>4. CASE a = b /\ RightCommit(w)
    <2>1. guesses'[a] = 0
      BY <1>1, <1>4 DEF RightCommit
    <2>2. PICK f, l : account' = [account EXCEPT ![b] = [account[b] EXCEPT !.fails = f, !.lock = l]]
      BY <1>1, <1>4 DEF RightCommit
    <2>3. account'[b].here = account[b].here
      BY <1>1, <2>2, ColumnsKept
    <2> QED BY <1>2, <1>4, <2>1, <2>3 DEF Guess, Moves, EndsSeries
  <1>5. CASE a = b /\ WrongCommit(w)
    <2>1. Pending(w, a) /\ Value(w, a) = Was(w).fails /\ account[a].here
      BY <1>5 DEF WrongCommit, Pending, Value, GuessInv, GuessesOf
    <2>2. CASE Locks(w)
      <3>1. account' = [account EXCEPT ![b] = [account[b] EXCEPT !.fails = 0, !.lock = "running"]]
            /\ guesses'[a] = 0
        BY <1>1, <1>5, <2>2 DEF WrongCommit
      <3>2. account'[b].here = account[b].here
        BY <1>1, <3>1, ColumnsKept
      <3> QED BY <1>2, <1>5, <3>1, <3>2 DEF Guess, Moves, EndsSeries
    <2>3. CASE ~Locks(w)
      <3>1. account' = [account EXCEPT ![b] = [account[b] EXCEPT !.fails = Counted(w)]]
            /\ guesses'[a] = guesses[a] + 1
        BY <1>1, <1>5, <2>3 DEF WrongCommit
      <3>2. account'[b].here = account[b].here /\ account'[b].fails = Counted(w)
        BY <1>1, <3>1, ColumnsKept
      <3> QED BY <1>2, <1>5, <2>1, <3>1, <3>2 DEF Counted, Guess, Moves, CountsOne
    <2> QED BY <2>2, <2>3
  <1> QED BY <1>3, <1>4, <1>5

(* A worker step that writes other columns, or none. *)
LEMMA OtherColumns ==
  ASSUME GuessInv, NEW w \in Workers, NEW a \in Accounts,
         \A v \in Workers : v # w => worker'[v] = worker[v],
         ~Pending(w, a)', Value(w, a)' = account'[a].fails, UNCHANGED guesses,
         account'[a].here = account[a].here, account'[a].fails = account[a].fails
  PROVE  Guess(w, a)
  BY DEF GuessInv, GuessesOf, Guess, Moves, KeepsCount

LEMMA ColumnGuess ==
  ASSUME Inv, GuessInv, NEW w \in Workers, SeedCommit(w) \/ RevokeCommit(w), NEW a \in Accounts
  PROVE  Guess(w, a)
  <1>1. {"super", "ready"} \subseteq Stages
    BY DEF Stages
  <1>2. /\ \A v \in Workers : v # w => worker'[v] = worker[v]
        /\ ~Pending(w, a)' /\ Value(w, a)' = account'[a].fails
    BY <1>1, GoesToRest DEF SeedCommit, RevokeCommit
  <1>3. account[a] \in AccountTypes /\ account \in [Accounts -> AccountTypes] /\ worker[w].a \in Accounts
    BY Facts
  <1>4. account'[a].here = account[a].here /\ account'[a].fails = account[a].fails
    <2>1. CASE account'[a] = account[a]
      BY <2>1
    <2>2. CASE \E n, m : \/ account'[a] = [account[a] EXCEPT !.ver = n, !.active = m]
                         \/ account'[a] = [account[a] EXCEPT !.ver = n, !.pw = m]
      <3>1. PICK n, m : \/ account'[a] = [account[a] EXCEPT !.ver = n, !.active = m]
                        \/ account'[a] = [account[a] EXCEPT !.ver = n, !.pw = m]
        BY <2>2
      <3> DEFINE q == [account[a] EXCEPT !.ver = n, !.active = m]
                 p == [account[a] EXCEPT !.ver = n, !.pw = m]
      <3>2. /\ q.here = account[a].here /\ q.fails = account[a].fails
            /\ p.here = account[a].here /\ p.fails = account[a].fails
        BY <1>3, ColumnsKept
      <3>3. account'[a] = q \/ account'[a] = p
        BY <3>1
      <3> HIDE DEF q, p
      <3> QED BY <3>2, <3>3
    <2>3. CASE SeedCommit(w)
      <3> DEFINE n == worker[w].read[a].ver + 1
      <3>1. account'[a] = account[a] \/ account'[a] = [account[a] EXCEPT !.ver = n, !.active = FALSE]
        BY <2>3 DEF SeedCommit
      <3> HIDE DEF n
      <3> QED BY <2>1, <2>2, <3>1
    <2>4. CASE RevokeCommit(w)
      <3>1. CASE a = worker[w].a
        <4> DEFINE n == Was(w).ver + 1
                   m == IF worker[w].at = "change" THEN Was(w).pw + 1 ELSE account[a].pw
        <4>1. account'[a] = [account[a] EXCEPT !.ver = n, !.pw = m]
          BY <1>3, <2>4, <3>1 DEF RevokeCommit
        <4> HIDE DEF n, m
        <4> QED BY <2>2, <4>1
      <3>2. CASE a # worker[w].a
        BY <1>3, <2>1, <2>4, <3>2 DEF RevokeCommit
      <3> QED BY <3>1, <3>2
    <2> QED BY <2>3, <2>4
  <1> QED BY <1>2, <1>4, OtherColumns DEF SeedCommit, RevokeCommit

LEMMA WorkerGuess ==
  ASSUME Inv, GuessInv, NEW w \in Workers, NEW a \in Accounts,
         \/ SeedRead(w) \/ SeedCommit(w) \/ SuperRead(w) \/ SuperInsert(w)
         \/ RightCommit(w) \/ WrongCommit(w) \/ RegisterInsert(w)
         \/ Issue(w) \/ RevokeCommit(w) \/ Crash(w)
         \/ \E b \in Accounts :
              \/ Register(w, b)
              \/ \E st \in {"right", "wrong"} : LoginRead(w, b, st)
              \/ \E st \in {"logout", "change"} : RevokeRead(w, b, st)
  PROVE  Guess(w, a)
  <1>1. Stages = {"down", "seed", "super", "insert", "ready", "right", "wrong",
                  "logout", "change", "register", "issue"}
    BY DEF Stages
  <1>2. CASE UNCHANGED <<account, guesses>> /\ (SeedRead(w) \/ SuperRead(w) \/ Issue(w) \/ Crash(w))
    <2>1. /\ \A v \in Workers : v # w => worker'[v] = worker[v]
          /\ ~Pending(w, a)' /\ Value(w, a)' = account'[a].fails
      BY <1>1, <1>2, GoesToRest DEF SeedRead, SuperRead, Issue, Crash
    <2> QED BY <1>2, <2>1, OtherColumns
  <1>3. CASE SeedCommit(w) \/ RevokeCommit(w)
    BY <1>3, ColumnGuess
  <1>4. CASE RightCommit(w) \/ WrongCommit(w)
    BY <1>4, LoginGuess
  <1>5. CASE SuperInsert(w) \/ RegisterInsert(w)
    <2>1. /\ \A v \in Workers : v # w => worker'[v] = worker[v]
          /\ ~Pending(w, a)' /\ Value(w, a)' = account'[a].fails
      BY <1>1, <1>5, GoesToRest, Facts DEF SuperInsert, RegisterInsert
    <2>2. CASE UNCHANGED account
      BY <1>5, <2>1, <2>2, OtherColumns DEF SuperInsert, RegisterInsert
    <2>3. CASE \E b \in Accounts : ~account[b].here /\ account' = [account EXCEPT ![b] = Fresh(1)]
      BY <1>5, <2>1, <2>3, InsertGuess DEF SuperInsert, RegisterInsert
    <2> QED BY <1>5, <2>2, <2>3, Facts DEF SuperInsert, RegisterInsert
  <1>6. CASE \E b \in Accounts, st \in Stages :
               Read(w, st, b) /\ (st = "wrong" => account[b].here) /\ UNCHANGED <<account, guesses>>
    BY <1>6, ReadGuess
  <1>7. CASE \E b \in Accounts :
              \/ Register(w, b)
              \/ \E st \in {"right", "wrong"} : LoginRead(w, b, st)
              \/ \E st \in {"logout", "change"} : RevokeRead(w, b, st)
    BY <1>1, <1>6, <1>7 DEF Register, LoginRead, RevokeRead
  <1> QED BY <1>2, <1>3, <1>4, <1>5, <1>7 DEF SeedRead, SuperRead, Issue, Crash

(* What is said of guesses depends on few columns. *)
LEMMA GuessKept ==
  ASSUME GuessInv, UNCHANGED <<worker, guesses>>,
         \A a \in Accounts : account'[a].here = account[a].here /\ account'[a].fails = account[a].fails
  PROVE  GuessInv'
  BY DEF GuessInv, GuessesOf, Value, Pending, Was

LEMMA GuessStep == (\E u, v : Workers = {u, v}) /\ Inv /\ Inv' /\ GuessInv /\ [Next]_vars => GuessInv'
  <1> SUFFICES ASSUME NEW u, NEW v, Workers = {u, v}, Inv, Inv', GuessInv, [Next]_vars
               PROVE  GuessInv'
    OBVIOUS
  <1>1. ASSUME NEW w \in Workers, \A a \in Accounts : Guess(w, a)
        PROVE  GuessInv'
    <2>1. Workers = {w} \/ \E x \in Workers : Workers = {w, x}
      OBVIOUS
    <2>2. ASSUME NEW a \in Accounts PROVE GuessesOf(a)'
      <3>1. Guess(w, a) /\ GuessesOf(a)
        BY <1>1 DEF GuessInv
      <3> QED BY <2>1, <3>1, GuessMove DEF Guess, Moves, KeepsCount, EndsSeries, CountsOne
    <2> QED BY <2>2 DEF GuessInv
  <1>2. CASE \E w \in Workers :
               \/ SeedRead(w) \/ SeedCommit(w) \/ SuperRead(w) \/ SuperInsert(w)
               \/ RightCommit(w) \/ WrongCommit(w) \/ RegisterInsert(w)
               \/ Issue(w) \/ RevokeCommit(w) \/ Crash(w)
               \/ \E b \in Accounts :
                    \/ Register(w, b)
                    \/ \E st \in {"right", "wrong"} : LoginRead(w, b, st)
                    \/ \E st \in {"logout", "change"} : RevokeRead(w, b, st)
    BY <1>1, <1>2, WorkerGuess
  <1>3. CASE \E t \in issued : Admit(t)
    BY <1>3, GuessKept DEF Admit
  <1>4. CASE \E a \in Accounts : LockRunsOut(a)
    <2>1. PICK a \in Accounts : LockRunsOut(a)
      BY <1>4
    <2> DEFINE r == [account[a] EXCEPT !.lock = "over"]
    <2>2. r.here = account[a].here /\ r.fails = account[a].fails
      BY Facts, ColumnsKept
    <2>3. account' = [account EXCEPT ![a] = r] /\ UNCHANGED <<worker, guesses>>
      BY <2>1 DEF LockRunsOut
    <2> HIDE DEF r
    <2> QED BY <2>2, <2>3, Facts, GuessKept
  <1>5. CASE UNCHANGED vars
    BY <1>5, GuessKept DEF vars
  <1> QED BY <1>2, <1>3, <1>4, <1>5 DEF Next

(* With one or two workers, as the service is started, an account is       *)
(* locked after at most 1 + ... + Threshold wrong guesses, however the two *)
(* overwrite each other's counts, are killed, and log in in between.       *)
THEOREM LockoutAlwaysBounded == (\E u, v : Workers = {u, v}) => (Spec => []LockoutBounded)
  <1> SUFFICES ASSUME \E u, v : Workers = {u, v} PROVE Spec => []LockoutBounded
    OBVIOUS
  <1>1. Inv /\ GuessInv => LockoutBounded
    <2> SUFFICES ASSUME Inv, GuessInv, NEW a \in Accounts
                 PROVE  guesses[a] < (Threshold * (Threshold + 1)) \div 2
      BY DEF LockoutBounded
    <2>1. PICK w \in Workers :
            2 * guesses[a] + 2 * (Threshold - account[a].fails) + Delay(Value(w, a)) <= Bound
      BY DEF GuessInv, GuessesOf
    <2>2. /\ account[a].fails \in Counts /\ guesses[a] \in Nat /\ Threshold \in Nat
          /\ Delay(Value(w, a)) \in Nat /\ Bound \in Nat
      BY ValuesTyped, Delays, ThresholdAssumption
    <2>3. 2 * (guesses[a] + 1) <= Bound
      BY <2>1, <2>2 DEF Counts
    <2>4. guesses[a] + 1 <= Bound \div 2
      BY <2>2, <2>3
    <2>5. Bound \div 2 \in Nat
      BY <2>2
    <2> QED BY <2>2, <2>4, <2>5 DEF Bound
  <1>2. Init => GuessInv
    BY GuessInit
  <1>3. Inv /\ Inv' /\ GuessInv /\ [Next]_vars => GuessInv'
    BY GuessStep
  <1> QED BY <1>1, <1>2, <1>3, Invariant, PTL DEF Spec

-----------------------------------------------------------------------------
(* Tokens.  One worker alone writes the version after the one that is      *)
(* stored, because nobody writes between its read and its commit.          *)
FreshRead(w) == worker[w].at = "change" => Was(w).ver = account[worker[w].a].ver

LEMMA FreshStep == \A w : Workers = {w} /\ Inv /\ FreshRead(w) /\ [Next]_vars => FreshRead(w)'
  <1> SUFFICES ASSUME NEW w, Workers = {w}, Inv, FreshRead(w), [Next]_vars
               PROVE  FreshRead(w)'
    OBVIOUS
  <1>0. \A st \in Stages : Rest(st).at = st
    BY RestTyped
  <1>1. ASSUME NEW st \in Stages, st # "change",
               \/ Go(w, st)
               \/ worker' = [worker EXCEPT ![w] = [Rest(st) EXCEPT !.read = account]]
               \/ \E a \in Accounts : worker' = [worker EXCEPT ![w] = [Rest(st) EXCEPT !.a = a]]
        PROVE  FreshRead(w)'
    <2>1. PICK r : worker' = [worker EXCEPT ![w] = r] /\ r.at = st
      <3>1. Rest(st).at = st /\ [Rest(st) EXCEPT !.read = account].at = st
        BY <1>1, RestTyped
      <3>2. \A a \in Accounts : [Rest(st) EXCEPT !.a = a].at = st
        BY <1>1, RestTyped
      <3> QED BY <1>1, <3>1, <3>2 DEF Go
    <2>2. worker'[w].at = st
      BY <2>1, Facts
    <2> QED BY <1>1, <2>2 DEF FreshRead
  <1>2. ASSUME NEW a \in Accounts, NEW st \in Stages, Read(w, st, a), UNCHANGED account
        PROVE  FreshRead(w)'
    <2> DEFINE r == [at |-> st, a |-> a, read |-> [Rest(st).read EXCEPT ![a] = account[a]]]
    <2>1. r.a = a /\ r.read[a] = account[a]
      BY RestTyped
    <2>2. worker' = [worker EXCEPT ![w] = r]
      BY <1>2 DEF Read
    <2> HIDE DEF r
    <2>3. worker'[w] = r
      BY <2>2, Facts
    <2> QED BY <1>2, <2>1, <2>3 DEF FreshRead, Was
  <1>3. ASSUME UNCHANGED worker, account'[worker[w].a].ver = account[worker[w].a].ver
        PROVE  FreshRead(w)'
    BY <1>3 DEF FreshRead, Was
  <1>4. Stages = {"down", "seed", "super", "insert", "ready", "right", "wrong",
                  "logout", "change", "register", "issue"} /\ worker[w].a \in Accounts
    BY Facts DEF Stages
  <1>5. CASE \/ SeedRead(w) \/ SeedCommit(w) \/ SuperRead(w) \/ SuperInsert(w)
             \/ RightCommit(w) \/ WrongCommit(w) \/ RegisterInsert(w)
             \/ Issue(w) \/ RevokeCommit(w) \/ Crash(w)
    BY <1>1, <1>4, <1>5 DEF SeedRead, SeedCommit, SuperRead, SuperInsert, RightCommit,
       WrongCommit, RegisterInsert, Issue, RevokeCommit, Crash
  <1>6. CASE \E a \in Accounts :
               \/ Register(w, a)
               \/ \E st \in {"right", "wrong"} : LoginRead(w, a, st)
               \/ \E st \in {"logout", "change"} : RevokeRead(w, a, st)
    BY <1>2, <1>4, <1>6 DEF Register, LoginRead, RevokeRead
  <1>7. CASE \E t \in issued : Admit(t)
    BY <1>3, <1>7 DEF Admit
  <1>8. CASE \E a \in Accounts : LockRunsOut(a)
    <2>1. PICK a \in Accounts : LockRunsOut(a)
      BY <1>8
    <2> DEFINE r == [account[a] EXCEPT !.lock = "over"]
    <2>2. r.ver = account[a].ver
      BY Facts DEF AccountTypes
    <2>3. account' = [account EXCEPT ![a] = r] /\ UNCHANGED worker
      BY <2>1 DEF LockRunsOut
    <2> HIDE DEF r
    <2> QED BY <1>3, <1>4, <2>2, <2>3, Facts
  <1>9. CASE UNCHANGED vars
    BY <1>3, <1>9 DEF vars
  <1> QED BY <1>5, <1>6, <1>7, <1>8, <1>9 DEF Next

(* A password changes only by change_password, or with a new account.      *)
LEMMA PasswordChanges ==
  ASSUME Inv, Next, NEW a \in Accounts, account[a].here, account'[a].pw # account[a].pw
  PROVE  \E w \in Workers : /\ worker[w].at = "change" /\ worker[w].a = a
                            /\ account'[a].ver = Was(w).ver + 1
  <1>1. \A b \in Accounts : account[b] \in AccountTypes
    BY Facts
  <1>2. ASSUME NEW w \in Workers, SeedCommit(w)
        PROVE  account'[a].pw = account[a].pw
    <2>1. worker[w].read[a].ver + 1 \in Nat
      BY Facts, Columns DEF WorkerTypes
    <2> DEFINE q == [account[a] EXCEPT !.ver = worker[w].read[a].ver + 1, !.active = FALSE]
    <2>2. q.pw = account[a].pw
      BY <1>1, <2>1, SeedWritten
    <2>3. account'[a] = account[a] \/ account'[a] = q
      BY <1>2 DEF SeedCommit
    <2> HIDE DEF q
    <2> QED BY <2>2, <2>3
  <1>3. ASSUME NEW b \in Accounts, \E r : account' = [account EXCEPT ![b] = r] /\ r.pw = account[b].pw
        PROVE  account'[a].pw = account[a].pw
    BY <1>3, Facts
  <1>4. ASSUME NEW w \in Workers, RightCommit(w) \/ WrongCommit(w)
        PROVE  account'[a].pw = account[a].pw
    <2> DEFINE b == worker[w].a
    <2>1. b \in Accounts /\ account[b] \in AccountTypes /\ account \in [Accounts -> AccountTypes]
      BY Facts
    <2>2. \A f, l : /\ [account[b] EXCEPT !.fails = f, !.lock = l].pw = account[b].pw
                    /\ [account[b] EXCEPT !.fails = f].pw = account[b].pw
      <3>1. \A r \in AccountTypes : \A f, l : /\ [r EXCEPT !.fails = f, !.lock = l].pw = r.pw
                                              /\ [r EXCEPT !.fails = f].pw = r.pw
        BY DEF AccountTypes
      <3> QED BY <2>1, <3>1
    <2>3. PICK f, l : \/ account' = [account EXCEPT ![b] = [account[b] EXCEPT !.fails = f, !.lock = l]]
                      \/ account' = [account EXCEPT ![b] = [account[b] EXCEPT !.fails = f]]
      <3>1. CASE RightCommit(w)
        <4> DEFINE i == IF Was(w).fails = 0 THEN account[b].fails ELSE 0
                   j == IF Was(w).lock = "none" THEN account[b].lock ELSE "none"
        <4>1. account' = [account EXCEPT ![b] = [account[b] EXCEPT !.fails = i, !.lock = j]]
          BY <2>1, <3>1 DEF RightCommit
        <4> HIDE DEF i, j
        <4> QED BY <4>1
      <3>2. CASE WrongCommit(w) /\ Locks(w)
        <4>1. account' = [account EXCEPT ![b] = [account[b] EXCEPT !.fails = 0, !.lock = "running"]]
          BY <2>1, <3>2 DEF WrongCommit
        <4> QED BY <4>1
      <3>3. CASE WrongCommit(w) /\ ~Locks(w)
        <4>1. account' = [account EXCEPT ![b] = [account[b] EXCEPT !.fails = Counted(w)]]
          BY <2>1, <3>3 DEF WrongCommit
        <4> QED BY <4>1
      <3> QED BY <1>4, <3>1, <3>2, <3>3
    <2> DEFINE q == [account[b] EXCEPT !.fails = f, !.lock = l]
               p == [account[b] EXCEPT !.fails = f]
    <2>4. q.pw = account[b].pw /\ p.pw = account[b].pw
      BY <2>2
    <2>5. account' = [account EXCEPT ![b] = q] \/ account' = [account EXCEPT ![b] = p]
      BY <2>3
    <2> HIDE DEF q, p, b
    <2> QED BY <1>3, <2>1, <2>4, <2>5
  <1>5. ASSUME NEW w \in Workers, RevokeCommit(w)
        PROVE  /\ worker[w].at = "change" /\ worker[w].a = a
               /\ account'[a].ver = Was(w).ver + 1
    <2> DEFINE b == worker[w].a
               n == Was(w).ver + 1
               m == IF worker[w].at = "change" THEN Was(w).pw + 1 ELSE account[b].pw
               r == [account[b] EXCEPT !.ver = n, !.pw = m]
    <2>1. b \in Accounts /\ account[b] \in AccountTypes /\ account \in [Accounts -> AccountTypes]
      BY Facts
    <2>2. n \in Nat /\ m \in Nat
      BY <2>1, Facts, Columns
    <2>3. r.pw = m /\ r.ver = n
      <3>1. \A old \in AccountTypes, i, j \in Nat :
              [old EXCEPT !.ver = i, !.pw = j].pw = j /\ [old EXCEPT !.ver = i, !.pw = j].ver = i
        BY DEF AccountTypes
      <3> HIDE DEF n, m
      <3> QED BY <2>1, <2>2, <3>1
    <2>4. account' = [account EXCEPT ![b] = r]
      BY <1>5, <2>1 DEF RevokeCommit
    <2> HIDE DEF r, n
    <2>5. b = a /\ m # account[b].pw
      BY <2>1, <2>3, <2>4
    <2>6. account'[a].ver = n
      BY <2>1, <2>3, <2>4, <2>5
    <2> QED BY <2>5, <2>6 DEF n
  <1>6. ASSUME NEW b \in Accounts, LockRunsOut(b)
        PROVE  account'[a].pw = account[a].pw
    <2> DEFINE r == [account[b] EXCEPT !.lock = "over"]
    <2>1. r.pw = account[b].pw
      BY <1>1, LockWritten
    <2>2. account' = [account EXCEPT ![b] = r]
      BY <1>6 DEF LockRunsOut
    <2> HIDE DEF r
    <2> QED BY <1>3, <2>1, <2>2
  <1>7. ASSUME NEW w \in Workers, SuperInsert(w) \/ RegisterInsert(w)
        PROVE  account'[a].pw = account[a].pw
    BY <1>7, Facts DEF SuperInsert, RegisterInsert
  <1> QED BY <1>2, <1>4, <1>5, <1>6, <1>7
       DEF Next, SeedRead, SuperRead, Issue, Crash, Register, LoginRead, RevokeRead, Admit

(* With one worker a password change revokes every token, whatever logouts *)
(* and logins are under way: it takes two workers for one to survive.      *)
THEOREM OneWorkerRevokes == (\E w : Workers = {w}) => (Spec => ChangeRevokesTokens)
  <1> SUFFICES ASSUME NEW w, Workers = {w} PROVE Spec => ChangeRevokesTokens
    OBVIOUS
  <1>1. Init => FreshRead(w)
    BY RestTyped DEF Init, FreshRead, Stages
  <1>2. Inv /\ FreshRead(w) /\ [Next]_vars => FreshRead(w)'
    BY FreshStep
  <1>3. ASSUME Inv, FreshRead(w), [Next]_vars
        PROVE  [\A a \in Accounts : account[a].pw # account'[a].pw =>
                  \A t \in issued : t[1] = a /\ Valid(t) => ~Valid(t)']_vars
    <2>1. ASSUME Next, NEW a \in Accounts, account[a].pw # account'[a].pw,
                 NEW t \in issued, t[1] = a, Valid(t)
          PROVE  ~Valid(t)'
      <3>1. account[a].here /\ account[a].ver = t[2]
        BY <2>1 DEF Valid
      <3>2. account'[a].ver = Was(w).ver + 1 /\ worker[w].at = "change" /\ worker[w].a = a
        BY <1>3, <2>1, <3>1, PasswordChanges
      <3>3. account'[a].ver = t[2] + 1 /\ t[2] \in Nat
        BY <1>3, <3>1, <3>2, Facts DEF FreshRead, AccountTypes
      <3> QED BY <2>1, <3>3 DEF Valid
    <2> QED BY <1>3, <2>1
  <1> QED BY <1>1, <1>2, <1>3, Invariant, PTL DEF Spec, ChangeRevokesTokens

=============================================================================
