---------------------------- MODULE AdminAccounts ----------------------------
(***************************************************************************)
(* The administrators' accounts in mono.py: seeding at the start of every  *)
(* worker, registration, logins with their lockout, and the revocation of  *)
(* bearer tokens by logout and password change.  A worker process runs one *)
(* of these handlers at a time, from its read to its commit; the workers   *)
(* share the rows and lock none.  A token is checked before its request    *)
(* waits for the worker.                                                   *)
(***************************************************************************)
EXTENDS Naturals

CONSTANTS
    Accounts,    \* user names
    Superadmin,  \* SUPERADMIN_USERNAME, which may be a name of Defaults
    Defaults,    \* names of historical accounts with a known password
    Workers,     \* processes of the API
    Threshold,   \* wrong logins that lock an account
    Guessed,     \* bound: accounts that are tried with a wrong password
    MaxVersion   \* bound: no request or crash raises a version beyond it

ASSUME AccountAssumption ==
    Superadmin \in Accounts /\ Defaults \subseteq Accounts
ASSUME ThresholdAssumption == Threshold \in Nat \ {0, 1} /\ MaxVersion \in Nat

VARIABLES
    account,   \* the committed rows
    worker,    \* how far each worker is, for whom, and what it has read
    issued,    \* the tokens that were handed out
    admitted,  \* accounts with a checked request that waits for a worker
    guesses    \* history: wrong guesses answered since the last lock or login

vars == <<account, worker, issued, admitted, guesses>>

(* pw 0 is the known default password.                                     *)
AccountTypes == [here : BOOLEAN, active : BOOLEAN, pw : Nat, ver : Nat,
                 fails : 0..(Threshold - 1), lock : {"none", "running", "over"}]
Stages == {"down", "seed", "super", "insert", "ready", "right", "wrong",
           "logout", "change", "register", "issue"}
WorkerTypes == [at : Stages, a : Accounts, read : [Accounts -> AccountTypes]]

Row(exists, password) == [here |-> exists, active |-> exists, pw |-> password, ver |-> 0,
                          fails |-> 0, lock |-> "none"]
Missing == Row(FALSE, 0)
Fresh(password) == Row(TRUE, password)
Rest(stage) == [at |-> stage, a |-> Superadmin, read |-> [a \in Accounts |-> Missing]]

Init ==
    /\ account \in [Accounts -> {Missing, Fresh(0), Fresh(1)}]
    /\ \A a \in Accounts \ Defaults : account[a].pw = 0 => ~account[a].here
    /\ worker = [w \in Workers |-> Rest("down")]
    /\ issued = {} /\ admitted = {}
    /\ guesses = [a \in Accounts |-> 0]

-----------------------------------------------------------------------------
(* Operators whose comment says "Defect:" are plausible mistakes in the    *)
(* operator that follows them; no action uses them.                        *)

Read(w, stage, a) ==
    worker' = [worker EXCEPT ![w] =
                 [at |-> stage, a |-> a,
                  read |-> [Rest(stage).read EXCEPT ![a] = account[a]]]]
Go(w, stage) == worker' = [worker EXCEPT ![w] = Rest(stage)]
Was(w) == worker[w].read[worker[w].a]

(* _seed_superadmin: the default passwords that were never changed.        *)
(* Defect: the deactivation is not committed.                              *)
LegacyKept(w) == {}
Legacy(w) == {a \in Defaults : worker[w].read[a].here /\ worker[w].read[a].pw = 0}

SeedRead(w) ==
    /\ worker[w].at = "down"
    /\ worker' = [worker EXCEPT ![w] = [Rest("seed") EXCEPT !.read = account]]
    /\ UNCHANGED <<account, issued, admitted, guesses>>

SeedCommit(w) ==
    /\ worker[w].at = "seed"
    /\ account' = [a \in Accounts |->
                     IF a \in Legacy(w)
                     THEN [account[a] EXCEPT !.ver = worker[w].read[a].ver + 1,
                                             !.active = FALSE]
                     ELSE account[a]]
    /\ Go(w, "super")
    /\ UNCHANGED <<issued, admitted, guesses>>

SuperRead(w) ==
    /\ worker[w].at = "super"
    /\ Go(w, IF account[Superadmin].here THEN "ready" ELSE "insert")
    /\ UNCHANGED <<account, issued, admitted, guesses>>

(* The name is unique: of two workers one inserts, the other finds it.     *)
SuperInsert(w) ==
    /\ worker[w].at = "insert"
    /\ account' = IF account[Superadmin].here THEN account
                  ELSE [account EXCEPT ![Superadmin] = Fresh(1)]
    /\ Go(w, "ready")
    /\ UNCHANGED <<issued, admitted, guesses>>

(* _authenticate: the row is read once.  A wrong password is refused       *)
(* without a trace while the lock runs.                                    *)
LoginRead(w, a, stage) ==
    /\ worker[w].at = "ready" /\ account[a].here
    /\ stage = "wrong" => a \in Guessed /\ account[a].lock # "running"
    /\ stage = "right" => account[a].active
    /\ Read(w, stage, a)
    /\ UNCHANGED <<account, issued, admitted, guesses>>

(* Only the columns that differ from what was read are written.            *)
RightCommit(w) ==
    /\ worker[w].at = "right"
    /\ LET a == worker[w].a IN
       /\ account' = [account EXCEPT
            ![a].fails = IF Was(w).fails = 0 THEN @ ELSE 0,
            ![a].lock = IF Was(w).lock = "none" THEN @ ELSE "none"]
       /\ guesses' = [guesses EXCEPT ![a] = 0]
       /\ worker' = [worker EXCEPT ![w] = [Rest("issue") EXCEPT !.a = a]]
    /\ UNCHANGED <<issued, admitted>>

(* Defects: the count is written back as it was read; one too many.        *)
Uncounted(w) == Was(w).fails
Counted(w) == Was(w).fails + 1
LocksLate(w) == Counted(w) > Threshold
Locks(w) == Counted(w) >= Threshold

WrongCommit(w) ==
    /\ worker[w].at = "wrong"
    /\ LET a == worker[w].a IN
       IF Locks(w)
       THEN /\ account' = [account EXCEPT ![a].fails = 0, ![a].lock = "running"]
            /\ guesses' = [guesses EXCEPT ![a] = 0]
       ELSE /\ account' = [account EXCEPT ![a].fails = Counted(w)]
            /\ guesses' = [guesses EXCEPT ![a] = @ + 1]
    /\ Go(w, "ready")
    /\ UNCHANGED <<issued, admitted>>

(* The commit has expired the row, so its version is read again.           *)
Issue(w) ==
    /\ worker[w].at = "issue"
    /\ issued' = issued \cup {<<worker[w].a, account[worker[w].a].ver>>}
    /\ Go(w, "ready")
    /\ UNCHANGED <<account, admitted, guesses>>

Register(w, a) ==
    /\ worker[w].at = "ready" /\ ~account[a].here
    /\ Read(w, "register", a)
    /\ UNCHANGED <<account, issued, admitted, guesses>>

RegisterInsert(w) ==
    /\ worker[w].at = "register"
    /\ IF account[worker[w].a].here
       THEN Go(w, "ready") /\ UNCHANGED account
       ELSE /\ account' = [account EXCEPT ![worker[w].a] = Fresh(1)]
            /\ worker' = [worker EXCEPT ![w] = [Rest("issue") EXCEPT !.a = worker[w].a]]
    /\ UNCHANGED <<issued, admitted, guesses>>

(* get_current_user.                                                       *)
Valid(t) == account[t[1]].here /\ account[t[1]].active /\ account[t[1]].ver = t[2]

Admit(t) ==
    /\ t \in issued /\ Valid(t)
    /\ admitted' = admitted \cup {t[1]}
    /\ UNCHANGED <<account, worker, issued, guesses>>

(* logout, or change_password with the right current password.             *)
RevokeRead(w, a, stage) ==
    /\ worker[w].at = "ready" /\ a \in admitted
    /\ account[a].ver < MaxVersion
    /\ stage = "change" => account[a].pw < MaxVersion
    /\ admitted' = admitted \ {a}
    /\ Read(w, stage, a)
    /\ UNCHANGED <<account, issued, guesses>>

RevokeCommit(w) ==
    /\ worker[w].at \in {"logout", "change"}
    /\ LET a == worker[w].a IN
       account' = [account EXCEPT ![a].ver = Was(w).ver + 1,
                     ![a].pw = IF worker[w].at = "change" THEN Was(w).pw + 1 ELSE @]
    /\ Go(w, "ready")
    /\ UNCHANGED <<issued, admitted, guesses>>

LockRunsOut(a) ==
    /\ account[a].lock = "running"
    /\ account' = [account EXCEPT ![a].lock = "over"]
    /\ UNCHANGED <<worker, issued, admitted, guesses>>

(* The open transaction is rolled back; the worker is started again (and   *)
(* its seed gives a default account another version, hence the bound).     *)
Crash(w) ==
    /\ worker[w].at # "down"
    /\ \A a \in Defaults : account[a].ver < MaxVersion
    /\ Go(w, "down")
    /\ UNCHANGED <<account, issued, admitted, guesses>>

-----------------------------------------------------------------------------
Next ==
    \/ \E w \in Workers :
         \/ SeedRead(w) \/ SeedCommit(w) \/ SuperRead(w) \/ SuperInsert(w)
         \/ RightCommit(w) \/ WrongCommit(w) \/ RegisterInsert(w)
         \/ Issue(w) \/ RevokeCommit(w) \/ Crash(w)
         \/ \E a \in Accounts :
              \/ Register(w, a)
              \/ \E stage \in {"right", "wrong"} : LoginRead(w, a, stage)
              \/ \E stage \in {"logout", "change"} : RevokeRead(w, a, stage)
    \/ \E t \in issued : Admit(t)
    \/ \E a \in Accounts : LockRunsOut(a)

Spec == Init /\ [][Next]_vars

-----------------------------------------------------------------------------
(* The variables keep their types; a token is of an account that exists.   *)
TypeOK ==
    /\ account \in [Accounts -> AccountTypes]
    /\ worker \in [Workers -> WorkerTypes]
    /\ issued \subseteq {a \in Accounts : account[a].here} \X Nat
    /\ admitted \subseteq Accounts
    /\ guesses \in [Accounts -> Nat]

(* When any worker serves requests, the account of SUPERADMIN_USERNAME is  *)
(* there and no account with a known default password can log in, however  *)
(* the workers' seeds overlapped and wherever they died.  The superadmin   *)
(* can log in too, unless its name is that of a historical account:        *)
(* _seed_superadmin switches such a row off and does not create it again.  *)
StartedIsSafe ==
    (\E w \in Workers : worker[w].at \notin {"down", "seed", "super", "insert"})
        => /\ account[Superadmin].here
           /\ Superadmin \notin Defaults => account[Superadmin].active
           /\ \A a \in Defaults : account[a].here /\ account[a].active => account[a].pw # 0

(* Two workers lose counts to each other, but not without bound: an        *)
(* account is locked after at most 1 + ... + Threshold wrong guesses,      *)
(* however they are delayed between their read and their commit.           *)
LockoutBounded ==
    \A a \in Accounts : guesses[a] < (Threshold * (Threshold + 1)) \div 2

(* After a password change no token that was valid before is valid.        *)
ChangeRevokesTokens ==
    [][\A a \in Accounts : account[a].pw # account'[a].pw =>
         \A t \in issued : t[1] = a /\ Valid(t) => ~Valid(t)']_vars

=============================================================================
