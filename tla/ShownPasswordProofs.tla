------------------------- MODULE ShownPasswordProofs -------------------------
(***************************************************************************)
(* The password a customer is shown works: ShownPasswordWorks, for any     *)
(* sessions, threads, passwords and bounds.                                *)
(*                                                                         *)
(* The argument is one of order.  Nobody completes an M-Pesa session       *)
(* before its request id is saved, and that waits for the end of the       *)
(* preparation.  From then on only completions give the router a password, *)
(* one at a time, and each either finds the user row, and sets at most the *)
(* password stored with it, or commits the one it has just set.            *)
(***************************************************************************)
EXTENDS PaymentSessionsProofs

Owed == Mpesa \cap Hotspot

(* Where a process stands that a request id has led to a session.          *)
Asked == {"query", "verify", "lock", "router", "commit", "rolledback", "to_provisioning_failed"}

Ordered(s) ==
    /\ create[s] \in {"idle", "admitted"} => prep[s].pc = "idle"
    /\ row[s].reqid => create[s] = "done" /\ prep[s].pc = "done"
    /\ row[s].status \in {"provisioned", "provisioning_failed"} => row[s].reqid
    /\ \A p \in Procs : proc[p].s = s /\ proc[p].pc \in Asked => row[s].reqid

Prepared(s) ==
    /\ prep[s].pc # "done" => user[s] = "absent" /\ row[s].pwd = NoPassword
    /\ prep[s].pc \in Locked => prep[s].fresh /\ prep[s].pwd \in Passwords
    /\ prep[s].pc = "commit" => acct[s] \in {prep[s].pwd, NoPassword}

(* What a completing process holds, against what is stored.                *)
Holding(p, s) ==
    /\ proc[p].saw = user[s] /\ proc[p].pwd \in Passwords
    /\ user[s] # "absent" => proc[p].pwd = row[s].pwd
    /\ user[s] = "absent" /\ proc[p].pc = "commit" => acct[s] \in {proc[p].pwd, NoPassword}

Agreed(s) ==
    /\ user[s] = "absent" <=> row[s].pwd = NoPassword
    /\ user[s] # "absent" => acct[s] \in {row[s].pwd, NoPassword}
    /\ \A p \in Procs : Completing(p, s) => Holding(p, s)

Listed == phase = "reconcile" => \A s \in todo \cap Owed : row[s].reqid

PasswordInv == Listed /\ \A s \in Owed : Ordered(s) /\ Prepared(s) /\ Agreed(s)

-----------------------------------------------------------------------------
(* What a step can do to the password of a session, and who does it.       *)
LEMMA AccountEffects ==
  ASSUME TypeOK, [Next]_vars, NEW s \in Sessions
  PROVE  \/ user'[s] = user[s] /\ row'[s].pwd = row[s].pwd /\ acct'[s] = acct[s]
         \/ PrepareRouter(s) \/ PrepareCommit(s)
         \/ \E p \in Procs : (CompleteRouter(p) \/ CompleteCommit(p)) /\ proc[p].s = s
         \/ (CleanupRouter \/ CleanupCommit) /\ proc[Jobs].s = s
  <1> USE DEF dbVars, envVars, jobVars, TypeOK
  <1>1. CASE UNCHANGED <<row, user, acct>>
    BY <1>1
  <1>2. CASE \E x \in Sessions : Admit(x) \/ CreatorStep(x) \/ CustomerAnswers(x)
                               \/ ClockPasses(x)
    BY <1>1, <1>2 DEF Admit, CreateSession, CreatorStep, Initiate, SaveInitiation, RefuseRead,
       RefuseWrite, CustomerAnswers, ClockPasses, SetStatus, RowTyped, RowTypes
  <1>3. CASE \E x \in Sessions : PrepareStep(x)
    <2>1. PICK x \in Sessions : PrepareStep(x)
      BY <1>3
    <2>2. CASE x # s /\ (PrepareRouter(x) \/ PrepareCommit(x))
      BY <2>2 DEF PrepareRouter, PrepareCommit, RowTyped, AccessTyped
    <2> QED BY <1>1, <2>1, <2>2 DEF PrepareStep, PrepareRead, PrepareFlush, PrepareRollback
  <1>4. CASE \E t \in Threads, x \in Sessions : Request(t, x)
    BY <1>1, <1>4 DEF Request, PollExpired, PollPending, CallbackDeclined, CallbackPaid, Retry
  <1>5. CASE \E p \in Procs : Verify(p) \/ Review(p) \/ Query(p) \/ WriteStatus(p)
    <2>1. PICK p \in Procs : Verify(p) \/ Review(p) \/ Query(p) \/ WriteStatus(p)
      BY <1>5
    <2>2. CASE WriteStatus(p)
      BY <2>2, ProcSession DEF WriteStatus, SetStatus, RowTyped, RowTypes
    <2> QED BY <1>1, <2>1, <2>2 DEF Verify, Review, Query
  <1>6. CASE \E p \in Procs : CompleteStep(p)
    <2>1. PICK p \in Procs : CompleteStep(p)
      BY <1>6
    <2>2. CASE proc[p].s # s /\ (CompleteRouter(p) \/ CompleteCommit(p))
      BY <2>2, ProcSession DEF CompleteRouter, CompleteCommit, RowTyped, AccessTyped
    <2> QED BY <1>1, <2>1, <2>2 DEF CompleteStep, CompleteAlready, CompleteLock,
                                    CompleteRollback, RecordFailure
  <1>7. CASE PhaseStep
    <2>1. CASE ExpireWrite
      BY <2>1 DEF ExpireWrite, RowTyped, RowTypes
    <2>2. CASE proc[Jobs].s # s /\ (CleanupRouter \/ CleanupCommit)
      BY <2>2, ProcSession DEF CleanupRouter, CleanupCommit, RowTyped, AccessTyped, Procs
    <2> QED BY <1>1, <1>7, <2>1, <2>2 DEF PhaseStep, ExpireRead, ReconcileList, ReconcileNext,
               CleanupList, CleanupRead, CleanupFails, IterationEnds
  <1>8. CASE Crash
    BY <1>1, <1>8 DEF Crash, CrashCreator, CrashProc
  <1>9. CASE RetireRouter
    <2>1. row'[s] = [row[s] EXCEPT !.status = RetiredStatus(row[s].status)]
      BY <1>9 DEF RetireRouter
    <2> QED BY <1>9, <2>1 DEF RetireRouter, RowTyped, RowTypes
  <1>10. CASE OthersChange \/ UNCHANGED vars
    BY <1>1, <1>10 DEF OthersChange, vars
  <1> QED BY <1>2, <1>3, <1>4, <1>5, <1>6, <1>7, <1>8, <1>9, <1>10, NextCases

(* The creator of a session and its preparation.                           *)
LEMMA CreatorEffects ==
  ASSUME TypeOK, [Next]_vars, NEW s \in Sessions
  PROVE  \/ create'[s] = create[s] /\ prep'[s] = prep[s] /\ row'[s].reqid = row[s].reqid
         \/ Admit(s) \/ CreateSession(s) \/ Initiate(s) \/ SaveInitiation(s)
         \/ RefuseRead(s) \/ RefuseWrite(s) \/ PrepareStep(s) \/ CrashCreator(s)
  <1> USE DEF dbVars, envVars, jobVars, TypeOK
  <1>1. CASE UNCHANGED <<row, create, prep>>
    BY <1>1
  <1>2. CASE UNCHANGED <<create, prep>> /\ row'[s].reqid = row[s].reqid
    BY <1>2
  <1>3. CASE \E x \in Sessions : Admit(x) \/ CreatorStep(x) \/ CustomerAnswers(x)
                               \/ ClockPasses(x)
    <2>1. PICK x \in Sessions : Admit(x) \/ CreatorStep(x) \/ CustomerAnswers(x) \/ ClockPasses(x)
      BY <1>3
    <2>2. CASE x = s
      BY <1>1, <2>1, <2>2 DEF CreatorStep, CustomerAnswers, ClockPasses
    <2>3. CASE x # s
      BY <1>1, <2>1, <2>3 DEF Admit, CreateSession, CreatorStep, Initiate, SaveInitiation,
         RefuseRead, RefuseWrite, CustomerAnswers, ClockPasses, SetStatus, RowTyped, CreatorTyped
    <2> QED BY <2>2, <2>3
  <1>4. CASE \E x \in Sessions : PrepareStep(x)
    <2>1. PICK x \in Sessions : PrepareStep(x)
      BY <1>4
    <2>2. CASE x # s
      BY <2>1, <2>2 DEF PrepareStep, PrepareRead, PrepareFlush, PrepareRouter, PrepareCommit,
         PrepareRollback, PrepareEnds, RowTyped, CreatorTyped
    <2> QED BY <2>1, <2>2
  <1>5. CASE \E t \in Threads, x \in Sessions : Request(t, x)
    BY <1>1, <1>5 DEF Request, PollExpired, PollPending, CallbackDeclined, CallbackPaid, Retry
  <1>6. CASE \E p \in Procs : Verify(p) \/ Review(p) \/ Query(p) \/ WriteStatus(p)
    <2>1. PICK p \in Procs : Verify(p) \/ Review(p) \/ Query(p) \/ WriteStatus(p)
      BY <1>6
    <2>2. CASE WriteStatus(p)
      BY <2>2, ProcSession DEF WriteStatus, SetStatus, RowTyped, RowTypes
    <2> QED BY <1>1, <2>1, <2>2 DEF Verify, Review, Query
  <1>7. CASE \E p \in Procs : CompleteStep(p)
    <2>1. PICK p \in Procs : CompleteStep(p)
      BY <1>7
    <2>2. CASE CompleteCommit(p)
      <3>1. row[s] \in RowTypes /\ proc[p].s \in Sessions
        BY ProcSession DEF RowTyped
      <3> QED BY <1>2, <2>2, <3>1 DEF CompleteCommit, RowTyped, RowTypes
    <2> QED BY <1>1, <2>1, <2>2 DEF CompleteStep, CompleteAlready, CompleteLock, CompleteRouter,
                                    CompleteRollback, RecordFailure
  <1>8. CASE PhaseStep
    <2>1. CASE ExpireWrite
      BY <2>1 DEF ExpireWrite, RowTyped, RowTypes
    <2>2. CASE CleanupCommit
      BY <2>2, ProcSession DEF CleanupCommit, RowTyped, RowTypes, Procs
    <2> QED BY <1>1, <1>8, <2>1, <2>2 DEF PhaseStep, ExpireRead, ReconcileList, ReconcileNext,
               CleanupList, CleanupRead, CleanupRouter, CleanupFails, IterationEnds
  <1>9. CASE Crash
    <2>1. CASE \E p \in Procs : CrashProc(p)
      BY <1>1, <2>1 DEF CrashProc
    <2>2. CASE \E x \in Sessions : CrashCreator(x)
      BY <2>2 DEF CrashCreator, PrepareEnds, CreatorTyped
    <2> QED BY <1>9, <2>1, <2>2 DEF Crash
  <1>10. CASE RetireRouter
    <2>1. row'[s] = [row[s] EXCEPT !.status = RetiredStatus(row[s].status)]
      BY <1>10 DEF RetireRouter
    <2> QED BY <1>10, <2>1 DEF RetireRouter, RowTyped, RowTypes
  <1>11. CASE OthersChange \/ UNCHANGED vars
    BY <1>1, <1>11 DEF OthersChange, vars
  <1> QED BY <1>3, <1>4, <1>5, <1>6, <1>7, <1>8, <1>9, <1>10, <1>11, NextCases

(* A process completes a session as it did, or has just taken the lock, or *)
(* is back from the router.                                                *)
LEMMA CompletingEffects ==
  ASSUME TypeOK, [Next]_vars, NEW p \in Procs, NEW s \in Sessions, Completing(p, s)'
  PROVE  \/ Completing(p, s) /\ proc'[p] = proc[p]
         \/ CompleteLock(p) /\ proc[p].s = s
         \/ CompleteRouter(p) /\ proc[p].s = s /\ proc'[p] = [proc[p] EXCEPT !.pc = "commit"]
  <1> USE DEF dbVars, envVars, jobVars, TypeOK, ProcTyped
  <1>0. proc[p] \in ProcTypes
    OBVIOUS
  <1>1. CASE proc'[p] = proc[p]
    BY <1>1 DEF Completing
  <1>2. CASE ~\E q \in Procs : CompleteStep(q)
    <2>1. Completing(p, s) /\ ~CompleteLock(p)
      BY <1>2, CompletingBefore DEF CompleteStep
    <2>2. proc[p].pc \in Locked /\ proc'[p].pc \in Locked
      BY <2>1 DEF Completing
    <2>3. CASE \E x \in Sessions : Admit(x) \/ CreatorStep(x) \/ CustomerAnswers(x)
                                 \/ ClockPasses(x) \/ PrepareStep(x)
      BY <1>1, <2>3 DEF Admit, CreateSession, CreatorStep, Initiate, SaveInitiation, RefuseRead,
         RefuseWrite, CustomerAnswers, ClockPasses, PrepareStep, PrepareRead, PrepareFlush,
         PrepareRouter, PrepareCommit, PrepareRollback
    <2>4. CASE \E t \in Threads, x \in Sessions : Request(t, x)
      BY <1>1, <2>2, <2>4 DEF Request, PollExpired, PollPending, CallbackDeclined,
         CallbackAccepted, CallbackPaid, Retry, Goto, Locked, Procs
    <2>5. CASE \E q \in Procs : Verify(q) \/ Review(q) \/ Query(q) \/ WriteStatus(q)
      BY <1>1, <2>2, <2>5 DEF Verify, Review, Query, WriteStatus, Goto, Step, Finish, Target,
         Locked
    <2>6. CASE PhaseStep
      BY <1>1, <2>2, <2>6 DEF PhaseStep, JobsIdle, ExpireRead, ExpireWrite, ReconcileList,
         ReconcileNext, CleanupList, CleanupRead, CleanupRouter, CleanupFails, CleanupCommit,
         IterationEnds, Goto, Step, Finish, Locked
    <2>7. CASE Crash
      BY <1>1, <2>2, <2>7 DEF Crash, CrashCreator, CrashProc, Goto, Finish, Locked
    <2>8. CASE RetireRouter \/ OthersChange \/ UNCHANGED vars
      BY <1>1, <2>8 DEF RetireRouter, OthersChange, vars
    <2> QED BY <1>2, <2>3, <2>4, <2>5, <2>6, <2>7, <2>8, NextCases
  <1>3. CASE \E q \in Procs : CompleteStep(q)
    <2>1. PICK q \in Procs : CompleteStep(q)
      BY <1>3
    <2>2. CASE q # p
      BY <1>1, <2>1, <2>2 DEF CompleteStep, CompleteAlready, CompleteLock, CompleteRouter,
         CompleteCommit, CompleteRollback, RecordFailure, Goto, Step, Finish
    <2>3. CASE q = p /\ CompleteLock(p)
      BY <1>0, <2>3 DEF CompleteLock, Step, Completing, ProcTypes
    <2>4. CASE q = p /\ CompleteRouter(p)
      BY <1>0, <2>4 DEF CompleteRouter, Step, Goto, Completing, Locked, ProcTypes
    <2>5. CASE q = p /\ ~CompleteLock(p) /\ ~CompleteRouter(p)
      BY <1>0, <2>1, <2>5 DEF CompleteStep, CompleteAlready, CompleteCommit,
         CompleteRollback, RecordFailure, Goto, Step, Finish, Completing, Locked, ProcTypes
    <2> QED BY <2>2, <2>3, <2>4, <2>5
  <1> QED BY <1>2, <1>3

(* A process stands at a session with a request id only if the id is       *)
(* saved.                                                                  *)
LEMMA AskedBefore ==
  ASSUME TypeOK, PasswordInv, [Next]_vars, NEW p \in Procs,
         proc'[p].pc \in Asked, proc'[p].s \in Owed
  PROVE  row[proc'[p].s].reqid
  <1> USE DEF dbVars, envVars, jobVars, TypeOK, ProcTyped
  <1>0. /\ proc[p] \in ProcTypes
        /\ proc[p].s \in Owed /\ proc[p].pc \in Asked => row[proc[p].s].reqid
        /\ \A s \in Owed : row[s].status = "provisioning_failed" => row[s].reqid
        /\ Owed \subseteq Mpesa
    BY DEF PasswordInv, Ordered, Owed
  <1>1. CASE proc'[p] = proc[p]
    BY <1>0, <1>1
  <1>2. CASE \E x \in Sessions : Admit(x) \/ CreatorStep(x) \/ CustomerAnswers(x)
                               \/ ClockPasses(x) \/ PrepareStep(x)
    BY <1>1, <1>2 DEF Admit, CreateSession, CreatorStep, Initiate, SaveInitiation, RefuseRead,
       RefuseWrite, CustomerAnswers, ClockPasses, PrepareStep, PrepareRead, PrepareFlush,
       PrepareRouter, PrepareCommit, PrepareRollback
  <1>3. CASE \E t \in Threads, x \in Sessions : Request(t, x)
    <2>1. PICK t \in Threads, x \in Sessions : Request(t, x)
      BY <1>3
    <2>2. t \in Procs
      BY DEF Procs
    <2>3. CASE CallbackPaid(t, x)
      BY <1>0, <1>1, <2>2, <2>3 DEF CallbackPaid, CallbackAccepted, Goto
    <2>4. CASE Retry(t, x)
      BY <1>0, <1>1, <2>2, <2>4 DEF Retry, Goto
    <2>5. CASE PollPending(t, x)
      BY <1>1, <2>2, <2>5 DEF PollPending, Goto
    <2>6. CASE PollExpired(t, x) \/ CallbackDeclined(t, x)
      BY <1>1, <2>2, <2>6 DEF PollExpired, CallbackDeclined, Goto, Asked
    <2> QED BY <2>1, <2>3, <2>4, <2>5, <2>6 DEF Request
  <1>4. CASE \E q \in Procs : Verify(q) \/ Review(q) \/ Query(q) \/ WriteStatus(q)
    <2>1. PICK q \in Procs : Verify(q) \/ Review(q) \/ Query(q) \/ WriteStatus(q)
      BY <1>4
    <2>2. CASE q # p
      BY <1>1, <2>1, <2>2 DEF Verify, Review, Query, WriteStatus, Goto, Step, Finish
    <2>3. CASE q = p
      BY <1>0, <2>1, <2>3 DEF Verify, Review, Query, WriteStatus, Goto, Step, Finish,
         Asked, ProcTypes
    <2> QED BY <2>2, <2>3
  <1>5. CASE \E q \in Procs : CompleteStep(q)
    <2>1. PICK q \in Procs : CompleteStep(q)
      BY <1>5
    <2>2. proc[q].pc \in Asked /\ proc[q] \in ProcTypes
      BY <2>1 DEF CompleteStep, CompleteAlready, CompleteLock, CompleteRouter,
         CompleteCommit, CompleteRollback, RecordFailure, Asked
    <2>3. CASE q # p
      BY <1>1, <2>1, <2>3 DEF CompleteStep, CompleteAlready, CompleteLock, CompleteRouter,
         CompleteCommit, CompleteRollback, RecordFailure, Goto, Step, Finish
    <2>4. CASE q = p
      <3>1. Finish(p) => proc'[p].pc = "idle"
        BY <1>0 DEF Finish, Goto
      <3>2. proc'[p].s = proc[p].s
        BY <2>1, <2>2, <2>4, <3>1 DEF CompleteStep, CompleteAlready, CompleteLock,
           CompleteRouter, CompleteCommit, CompleteRollback, RecordFailure, Goto, Step,
           ProcTypes, Asked
      <3> QED BY <1>0, <2>2, <2>4, <3>2
    <2> QED BY <2>3, <2>4
  <1>6. CASE PhaseStep
    <2>1. CASE p # Jobs
      BY <1>1, <1>6, <2>1 DEF PhaseStep, ExpireRead, ExpireWrite, ReconcileList,
         ReconcileNext, CleanupList, CleanupRead, CleanupRouter, CleanupFails,
         CleanupCommit, IterationEnds, Goto, Step, Finish
    <2>2. CASE p = Jobs /\ \E x \in Sessions : ReconcileNext(x)
      BY <2>2 DEF ReconcileNext, JobsIdle, Goto, PasswordInv, Listed
    <2>3. CASE p = Jobs /\ ~\E x \in Sessions : ReconcileNext(x)
      BY <1>1, <1>6, <1>0, <2>3 DEF PhaseStep, ExpireRead, ExpireWrite, ReconcileList,
         CleanupList, CleanupRead, CleanupRouter, CleanupFails,
         CleanupCommit, IterationEnds, Goto, Step, Finish, Asked, ProcTypes
    <2> QED BY <2>1, <2>2, <2>3
  <1>7. CASE Crash
    <2>1. CASE \E x \in Sessions : CrashCreator(x)
      BY <1>1, <2>1 DEF CrashCreator
    <2>2. CASE \E q \in Procs : CrashProc(q)
      BY <1>1, <2>2 DEF CrashProc, Goto, Finish, Asked
    <2> QED BY <1>7, <2>1, <2>2 DEF Crash
  <1>8. CASE RetireRouter \/ OthersChange \/ UNCHANGED vars
    BY <1>1, <1>8 DEF RetireRouter, OthersChange, vars
  <1> QED BY <1>2, <1>3, <1>4, <1>5, <1>6, <1>7, <1>8, NextCases

(* A request id is saved once, and stays. *)
LEMMA RequestIdStays ==
  ASSUME TypeOK, [Next]_vars, NEW s \in Sessions, row[s].reqid
  PROVE  row'[s].reqid
  <1> USE DEF TypeOK, RowTyped, RowTypes
  <1>1. row[s] \in RowTypes
    OBVIOUS
  <1>2. CASE Admit(s) \/ Initiate(s) \/ RefuseRead(s) \/ CrashCreator(s)
    BY <1>2 DEF Admit, Initiate, RefuseRead, CrashCreator
  <1>3. CASE CreateSession(s) \/ SaveInitiation(s) \/ RefuseWrite(s)
    BY <1>1, <1>3 DEF CreateSession, SaveInitiation, RefuseWrite, SetStatus
  <1>4. CASE PrepareStep(s)
    BY <1>1, <1>4 DEF PrepareStep, PrepareRead, PrepareFlush, PrepareRouter,
       PrepareCommit, PrepareRollback
  <1> QED BY <1>2, <1>3, <1>4, CreatorEffects

LEMMA ListedStep ==
  ASSUME TypeOK, PasswordInv, [Next]_vars
  PROVE  Listed'
  <1> USE DEF dbVars, envVars, jobVars
  <1>1. CASE UNCHANGED jobVars
    BY <1>1, RequestIdStays DEF Listed, PasswordInv, Owed, TypeOK, JobsTyped
  <1>2. CASE phase' # "reconcile"
    BY <1>2 DEF Listed
  <1>3. CASE \E s \in Sessions : Admit(s) \/ CreatorStep(s) \/ PrepareStep(s)
                               \/ CustomerAnswers(s) \/ ClockPasses(s)
    BY <1>1, <1>3 DEF Admit, CreateSession, CreatorStep, Initiate, SaveInitiation, RefuseRead,
       RefuseWrite, CustomerAnswers, ClockPasses, PrepareStep, PrepareRead, PrepareFlush,
       PrepareRouter, PrepareCommit, PrepareRollback
  <1>4. CASE \E t \in Threads, s \in Sessions : Request(t, s)
    BY <1>1, <1>4 DEF Request, PollExpired, PollPending, CallbackDeclined, CallbackPaid, Retry
  <1>5. CASE \E p \in Procs : Verify(p) \/ Review(p) \/ Query(p) \/ WriteStatus(p)
                             \/ CompleteStep(p)
    BY <1>1, <1>2, <1>5 DEF Verify, Review, Query, WriteStatus, CompleteStep, CompleteAlready,
       CompleteLock, CompleteRouter, CompleteCommit, CompleteRollback, RecordFailure,
       AbortIteration
  <1>6. CASE PhaseStep
    <2>1. CASE ReconcileList
      BY <2>1 DEF ReconcileList, Listed, Owed
    <2>2. CASE \E s \in Sessions : ReconcileNext(s)
      BY <2>2, RequestIdStays DEF ReconcileNext, JobsIdle, Listed, PasswordInv, Owed, TypeOK,
                                  JobsTyped
    <2>3. CASE \E s \in Sessions : CleanupRead(s)
      BY <1>2, <2>3 DEF CleanupRead, JobsIdle
    <2> QED BY <1>1, <1>2, <1>6, <2>1, <2>2, <2>3 DEF PhaseStep, ExpireRead, ExpireWrite,
               CleanupList, CleanupRouter, CleanupFails, CleanupCommit, IterationEnds
  <1>7. CASE Crash
    BY <1>1, <1>2, <1>7 DEF Crash, CrashCreator, CrashProc, AbortIteration
  <1>8. CASE RetireRouter \/ OthersChange \/ UNCHANGED vars
    BY <1>1, <1>8 DEF RetireRouter, OthersChange, vars
  <1> QED BY <1>3, <1>4, <1>5, <1>6, <1>7, <1>8, NextCases

(* The creator and the preparation it waits for. *)
LEMMA OrderedStep ==
  ASSUME TypeOK, TypeOK', PasswordInv, [Next]_vars, NEW s \in Owed
  PROVE  Ordered(s)'
  <1> USE DEF TypeOK, RowTyped, CreatorTyped
  <1>0. /\ s \in Sessions /\ row[s] \in RowTypes /\ prep[s] \in PrepTypes
        /\ Ordered(s)
    BY SubsetsAssumption DEF PasswordInv, Owed
  <1>1. /\ create'[s] \in {"idle", "admitted"} => prep'[s].pc = "idle"
        /\ row'[s].reqid => create'[s] = "done" /\ prep'[s].pc = "done"
    <2>1. CASE create'[s] = create[s] /\ prep'[s] = prep[s] /\ row'[s].reqid = row[s].reqid
      BY <1>0, <2>1 DEF Ordered
    <2>2. CASE CreateSession(s)
      <3>1. create'[s] = "initiating" /\ row'[s].reqid = row[s].reqid /\ create[s] = "admitted"
        BY <1>0, <2>2 DEF CreateSession, SetStatus, RowTypes
      <3> QED BY <1>0, <3>1 DEF Ordered
    <2>3. CASE SaveInitiation(s)
      <3>1. create'[s] = "done" /\ prep'[s].pc = "done"
        BY <1>0, <2>3 DEF SaveInitiation, Gathered
      <3> QED BY <3>1
    <2>4. CASE Admit(s) \/ Initiate(s) \/ RefuseRead(s)
      BY <1>0, <2>4 DEF Admit, Initiate, RefuseRead, Ordered
    <2>5. CASE RefuseWrite(s)
      <3>1. create'[s] = "done" /\ row'[s].reqid = row[s].reqid /\ prep'[s] = prep[s]
        BY <1>0, <2>5 DEF RefuseWrite, SetStatus, RowTypes
      <3> QED BY <1>0, <3>1 DEF Ordered
    <2>6. CASE PrepareStep(s)
      <3>1. /\ create'[s] = create[s] /\ row'[s].reqid = row[s].reqid
            /\ prep[s].pc \notin {"idle", "done"}
        <4>1. CASE PrepareCommit(s)
          BY <1>0, <4>1 DEF PrepareCommit, RowTypes
        <4> QED BY <2>6, <4>1 DEF PrepareStep, PrepareRead, PrepareFlush, PrepareRouter,
                                  PrepareRollback
      <3> QED BY <1>0, <3>1 DEF Ordered
    <2>7. CASE CrashCreator(s)
      <3>1. create'[s] = "done" /\ row'[s].reqid = row[s].reqid /\ prep'[s].pc = "done"
        BY <1>0, <2>7 DEF CrashCreator, PrepareEnds
      <3> QED BY <3>1
    <2> QED BY <1>0, <2>1, <2>2, <2>3, <2>4, <2>5, <2>6, <2>7, CreatorEffects
  <1>2. row[s].reqid => row'[s].reqid
    BY <1>0, RequestIdStays
  <1>3. row'[s].status \in {"provisioned", "provisioning_failed"} => row'[s].reqid
    <2>1. \A p \in Procs : CompleteCommit(p) /\ proc[p].s = s => row[s].reqid
      BY <1>0 DEF CompleteCommit, Ordered, Asked
    <2>2. \A p \in Procs : proc[p].pc = "to_provisioning_failed" /\ proc[p].s = s
                             => row[s].reqid
      BY <1>0 DEF Ordered, Asked
    <2> QED BY <1>0, <1>2, <2>1, <2>2, AccessChanges DEF Ordered
  <1>4. \A p \in Procs : proc'[p].s = s /\ proc'[p].pc \in Asked => row'[s].reqid
    BY <1>2, AskedBefore
  <1> QED BY <1>1, <1>3, <1>4 DEF Ordered, Procs, Asked

(* Nobody completes a session while it is being prepared. *)
LEMMA PreparedFirst ==
  ASSUME PasswordInv, NEW s \in Owed, NEW p \in Procs, Completing(p, s)
  PROVE  prep[s].pc = "done"
  BY DEF PasswordInv, Ordered, Completing, Locked, Asked

LEMMA PreparedStep ==
  ASSUME TypeOK, TypeOK', PasswordInv, [Next]_vars, NEW s \in Owed
  PROVE  Prepared(s)'
  <1> USE DEF TypeOK, RowTyped, AccessTyped, CreatorTyped
  <1>0. /\ s \in Sessions /\ row[s] \in RowTypes /\ prep[s] \in PrepTypes /\ s \in Hotspot
        /\ Ordered(s) /\ Prepared(s)
    BY SubsetsAssumption DEF PasswordInv, Owed
  <1>1. CASE prep'[s].pc = "done"
    BY <1>1 DEF Prepared, Locked
  <1>2. CASE PrepareStep(s) /\ prep'[s].pc # "done"
    <2>1. CASE PrepareRead(s)
      <3>1. /\ prep'[s].pc = "flush"
            /\ row' = row /\ user' = user
        BY <1>0, <1>2, <2>1 DEF PrepareRead, Prepared, dbVars, PrepareEnds
      <3> QED BY <1>0, <2>1, <3>1 DEF Prepared, Locked, PrepareRead
    <2>2. CASE PrepareFlush(s)
      <3>1. /\ prep'[s].pc = "router" /\ prep'[s].fresh /\ prep'[s].pwd \in Passwords
            /\ row' = row /\ user' = user
        BY <1>0, <2>2 DEF PrepareFlush, dbVars, PrepTypes
      <3> QED BY <1>0, <2>2, <3>1 DEF Prepared, PrepareFlush
    <2>3. CASE PrepareRouter(s)
      <3>1. /\ prep'[s] = [prep[s] EXCEPT !.pc = "commit"] /\ acct'[s] = prep[s].pwd
            /\ row' = row /\ user' = user /\ prep[s].pc = "router"
        BY <1>0, <1>2, <2>3 DEF PrepareRouter, dbVars, PrepareEnds
      <3> QED BY <1>0, <3>1 DEF Prepared, Locked, PrepTypes
    <2>4. CASE PrepareCommit(s) \/ PrepareRollback(s)
      BY <1>0, <1>2, <2>4 DEF PrepareCommit, PrepareRollback, PrepareEnds
    <2> QED BY <1>2, <2>1, <2>2, <2>3, <2>4 DEF PrepareStep
  <1>3. CASE ~PrepareStep(s) /\ prep'[s].pc # "done"
    <2>0. \/ prep'[s] = prep[s]
          \/ prep[s].pc = "idle" /\ prep'[s].pc = "read"
      <3>1. CASE CreateSession(s)
        BY <1>0, <3>1 DEF CreateSession, Ordered, PrepTypes
      <3>2. CASE CrashCreator(s)
        BY <1>0, <1>3, <3>2 DEF CrashCreator, PrepareEnds
      <3>3. CASE Admit(s) \/ Initiate(s) \/ SaveInitiation(s) \/ RefuseRead(s) \/ RefuseWrite(s)
        BY <3>3 DEF Admit, Initiate, SaveInitiation, RefuseRead, RefuseWrite
      <3> QED BY <1>0, <1>3, <3>1, <3>2, <3>3, CreatorEffects
    <2>1. prep[s].pc # "done"
      BY <1>3, <2>0
    <2>2. prep'[s] = prep[s] \/ prep'[s].pc = "read"
      BY <2>0
    <2>3. user[s] = "absent" /\ row[s].pwd = NoPassword
      BY <1>0, <2>1 DEF Prepared
    <2>4. \A p \in Procs : (CompleteRouter(p) \/ CompleteCommit(p)) => proc[p].s # s
      BY <2>1, PreparedFirst DEF CompleteRouter, CompleteCommit, Completing, Locked
    <2>5. /\ user'[s] = "absent" /\ row'[s].pwd = NoPassword
          /\ acct'[s] \in {acct[s], NoPassword}
      <3>1. CASE CleanupRouter /\ proc[Jobs].s = s
        BY <1>0, <2>3, <3>1 DEF CleanupRouter, dbVars
      <3>2. CASE CleanupCommit /\ proc[Jobs].s = s
        BY <1>0, <2>3, <3>2 DEF CleanupCommit, RowTypes
      <3> QED BY <1>0, <1>3, <2>3, <2>4, <3>1, <3>2, AccountEffects DEF PrepareStep
    <2> QED BY <1>0, <2>2, <2>3, <2>5 DEF Prepared, Locked
  <1> QED BY <1>1, <1>2, <1>3

-----------------------------------------------------------------------------
(* What is stored and what completions hold stay in agreement, by who      *)
(* touches the account.                                                    *)

(* Nothing stored changes: a completion may take the lock or come back     *)
(* from the router.                                                        *)
LEMMA AgreedWhileStored ==
  ASSUME TypeOK, PasswordInv, [Next]_vars, NEW s \in Owed,
         user'[s] = user[s], row'[s].pwd = row[s].pwd, acct'[s] = acct[s],
         \A p \in Procs : ~(CompleteRouter(p) /\ proc[p].s = s)
  PROVE  Agreed(s)'
  <1>0. s \in Sessions /\ s \in Hotspot /\ Agreed(s)
    BY SubsetsAssumption DEF PasswordInv, Owed
  <1>1. ASSUME NEW p \in Procs, Completing(p, s)'
        PROVE  Holding(p, s)'
    <2>1. CASE Completing(p, s) /\ proc'[p] = proc[p]
      BY <1>0, <2>1 DEF Agreed, Holding
    <2>2. CASE CompleteLock(p) /\ proc[p].s = s
      <3>1. PICK pwd \in IF row[s].pwd = NoPassword THEN Passwords \ PasswordsInUse(s)
                                                   ELSE {row[s].pwd},
                 next \in IF user[s] = "absent" THEN {"router"} ELSE {"router", "commit"} :
              proc' = [proc EXCEPT ![p] =
                         [pc |-> next, s |-> s, pwd |-> pwd, saw |-> user[s]]]
        BY <1>0, <2>2 DEF CompleteLock
      <3>2. /\ proc'[p] = [pc |-> next, s |-> s, pwd |-> pwd, saw |-> user[s]]
            /\ user[s] = "absent" => next = "router"
        BY <3>1 DEF TypeOK, ProcTyped
      <3>3. row[s].pwd \in Passwords \cup {NoPassword}
        BY <1>0 DEF TypeOK, RowTyped, RowTypes
      <3> QED BY <1>0, <3>1, <3>2, <3>3 DEF Agreed, Holding
    <2> QED BY <1>0, <1>1, <2>1, <2>2, CompletingEffects
  <1> QED BY <1>0, <1>1 DEF Agreed, Procs

LEMMA AgreedAfterRouter ==
  ASSUME TypeOK, PasswordInv, LockInv, [Next]_vars, NEW s \in Owed,
         NEW p \in Procs, CompleteRouter(p), proc[p].s = s
  PROVE  Agreed(s)'
  <1>0. s \in Sessions /\ s \in Hotspot /\ Agreed(s)
    BY SubsetsAssumption DEF PasswordInv, Owed
  <1>1. Completing(p, s) /\ proc[p].pc = "router"
    BY DEF CompleteRouter, Completing, Locked
  <1>2. Holding(p, s)
    BY <1>0, <1>1 DEF Agreed
  <1>3. user' = user /\ row' = row
    BY DEF CompleteRouter, dbVars
  <1>4. ASSUME NEW q \in Procs, Completing(q, s)'
        PROVE  Holding(q, s)'
    <2>1. CASE q = p
      <3>1. proc'[p] = [proc[p] EXCEPT !.pc = "commit"]
        <4>1. ~CompleteLock(p)
          BY <1>1 DEF CompleteLock
        <4>2. proc'[p].pc # "router"
          BY DEF CompleteRouter, Step, Goto, TypeOK, ProcTyped, ProcTypes
        <4> QED BY <1>0, <1>1, <1>4, <2>1, <4>1, <4>2, CompletingEffects
      <3>2. acct'[s] = proc[p].pwd
        BY <1>0, <3>1 DEF CompleteRouter, Goto, TypeOK, AccessTyped, ProcTyped
      <3>3. /\ proc'[p].pc = "commit" /\ proc'[p].pwd = proc[p].pwd
            /\ proc'[p].saw = proc[p].saw
        BY <3>1 DEF TypeOK, ProcTyped, ProcTypes
      <3> QED BY <1>2, <1>3, <2>1, <3>2, <3>3 DEF Holding
    <2>2. CASE q # p
      <3>1. proc'[q] = proc[q]
        BY <2>2 DEF CompleteRouter, Step, Goto, TypeOK, ProcTyped
      <3> QED BY <1>0, <1>1, <1>4, <2>2, <3>1 DEF Completing, LockInv, CompletionExclusive
    <2> QED BY <2>1, <2>2
  <1>5. user[s] # "absent" => acct'[s] \in {row[s].pwd, NoPassword}
    BY <1>0, <1>2 DEF CompleteRouter, Holding, Agreed, TypeOK, AccessTyped
  <1> QED BY <1>0, <1>3, <1>4, <1>5 DEF Agreed, Procs

LEMMA AgreedAfterCommit ==
  ASSUME TypeOK, PasswordInv, LockInv, [Next]_vars, NEW s \in Owed,
         NEW p \in Procs, CompleteCommit(p), proc[p].s = s
  PROVE  Agreed(s)'
  <1>0. s \in Sessions /\ s \in Hotspot /\ Agreed(s)
    BY SubsetsAssumption DEF PasswordInv, Owed
  <1>1. Completing(p, s) /\ Holding(p, s) /\ proc[p].pc = "commit"
    BY <1>0 DEF CompleteCommit, Completing, Locked, Agreed
  <1>2. row'[s].pwd = proc[p].pwd /\ acct' = acct
    BY <1>0 DEF CompleteCommit, TypeOK, RowTyped, RowTypes
  <1>3. user'[s] # "absent"
    BY <1>0, <1>1 DEF CompleteCommit, Holding, Extends, TypeOK, AccessTyped
  <1>4. acct[s] \in {proc[p].pwd, NoPassword} /\ proc[p].pwd # NoPassword
    BY <1>0, <1>1, PasswordsAssumption DEF Holding, Agreed
  <1>5. \A q \in Procs : ~Completing(q, s)'
    <2> SUFFICES ASSUME NEW q \in Procs, Completing(q, s)' PROVE FALSE
      OBVIOUS
    <2>1. proc'[p].pc = "idle" /\ \A r \in Procs : r # p => proc'[r] = proc[r]
      BY DEF CompleteCommit, Finish, Goto, TypeOK, ProcTyped
    <2>2. q # p /\ Completing(q, s)
      BY <2>1 DEF Completing, Locked
    <2> QED BY <1>0, <1>1, <2>2 DEF LockInv, CompletionExclusive
  <1> QED BY <1>2, <1>3, <1>4, <1>5 DEF Agreed, Procs

LEMMA AgreedWhilePrepared ==
  ASSUME TypeOK, PasswordInv, NEW s \in Owed, PrepareRouter(s) \/ PrepareCommit(s)
  PROVE  Agreed(s)'
  <1>0. s \in Sessions /\ Agreed(s) /\ Prepared(s) /\ prep[s].pc \in Locked
    BY SubsetsAssumption DEF PasswordInv, Owed, PrepareRouter, PrepareCommit, Locked
  <1>1. user[s] = "absent" /\ row[s].pwd = NoPassword /\ prep[s].fresh /\ prep[s].pwd \in Passwords
    BY <1>0 DEF Prepared, Locked
  <1>2. \A p \in Procs : ~Completing(p, s)
    BY <1>0, PreparedFirst DEF Locked
  <1>3. \A p \in Procs : ~Completing(p, s)'
    BY <1>2 DEF PrepareRouter, PrepareCommit, Completing, Procs
  <1>4. CASE PrepareRouter(s)
    BY <1>1, <1>3, <1>4 DEF PrepareRouter, Agreed, dbVars, Procs
  <1>5. CASE PrepareCommit(s)
    <2>1. prep[s].saw = "absent"
      BY <1>1, <1>5 DEF PrepareCommit, UserWriteSucceeds
    <2>2. user'[s] = "prepared" /\ acct' = acct
      BY <1>0, <1>5, <2>1 DEF PrepareCommit, TypeOK, AccessTyped
    <2>3. row'[s].pwd = prep[s].pwd
      BY <1>0, <1>1, <1>5 DEF PrepareCommit, TypeOK, RowTyped, RowTypes
    <2>4. acct[s] \in {prep[s].pwd, NoPassword}
      BY <1>0, <1>5 DEF PrepareCommit, Prepared
    <2> QED BY <1>1, <1>3, <2>2, <2>3, <2>4, PasswordsAssumption DEF Agreed, Procs
  <1> QED BY <1>4, <1>5

LEMMA AgreedAfterCleanup ==
  ASSUME TypeOK, PasswordInv, [Next]_vars, NEW s \in Owed, CleanupRouter \/ CleanupCommit,
         proc[Jobs].s = s
  PROVE  Agreed(s)'
  <1>0. s \in Sessions /\ Agreed(s)
    BY SubsetsAssumption DEF PasswordInv, Owed
  <1>1. \A p \in Procs : Completing(p, s)' => Completing(p, s) /\ proc'[p] = proc[p]
    BY DEF CleanupRouter, CleanupCommit, Step, Goto, Finish, Completing, Locked,
           TypeOK, ProcTyped, ProcTypes
  <1>2. CASE CleanupRouter
    <2>1. user' = user /\ row' = row /\ acct'[s] = NoPassword
      BY <1>0, <1>2 DEF CleanupRouter, dbVars, TypeOK, AccessTyped
    <2> QED BY <1>0, <1>1, <2>1 DEF Agreed, Holding, Procs
  <1>3. CASE CleanupCommit
    <2>1. \A p \in Procs : ~Completing(p, s)'
      BY <1>1, <1>3 DEF CleanupCommit, RowFree
    <2>2. user'[s] = "absent" /\ row'[s].pwd = NoPassword
      BY <1>0, <1>3 DEF CleanupCommit, TypeOK, AccessTyped, RowTyped, RowTypes
    <2> QED BY <2>1, <2>2 DEF Agreed, Procs
  <1> QED BY <1>2, <1>3

LEMMA AgreedStep ==
  ASSUME TypeOK, PasswordInv, LockInv, [Next]_vars, NEW s \in Owed
  PROVE  Agreed(s)'
  <1>0. s \in Sessions
    BY SubsetsAssumption DEF Owed
  <1>1. CASE \E p \in Procs : CompleteRouter(p) /\ proc[p].s = s
    BY <1>1, AgreedAfterRouter
  <1>2. CASE \E p \in Procs : CompleteCommit(p) /\ proc[p].s = s
    BY <1>2, AgreedAfterCommit
  <1> QED BY <1>0, <1>1, <1>2, AccountEffects, AgreedWhileStored, AgreedWhilePrepared,
             AgreedAfterCleanup

(* A customer who paid by M-Pesa for HotSpot time and is shown a password  *)
(* is shown the one the router has, if it still has the account at all.    *)
THEOREM PasswordsShownWork == Spec => []ShownPasswordWorks
  <1>1. Init => PasswordInv
    BY SubsetsAssumption DEF Init, PasswordInv, Listed, Owed, Ordered, Prepared, Agreed,
       Completing, Locked, Asked
  <1>2. TypeOK /\ TypeOK' /\ LockInv /\ PasswordInv /\ [Next]_vars => PasswordInv'
    BY ListedStep, OrderedStep, PreparedStep, AgreedStep DEF PasswordInv, Owed
  <1>3. TypeOK /\ PasswordInv => ShownPasswordWorks
    BY DEF PasswordInv, Agreed, Owed, ShownPasswordWorks
  <1> QED BY <1>1, <1>2, <1>3, TypeCorrect, LockInvariant, PTL DEF Spec
=============================================================================
