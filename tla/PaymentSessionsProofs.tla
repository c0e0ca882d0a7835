------------------------ MODULE PaymentSessionsProofs ------------------------
(***************************************************************************)
(* What holds of PaymentSessions for any sessions, threads, passwords and  *)
(* bounds.                                                                 *)
(***************************************************************************)
EXTENDS PaymentSessions, TLAPS

-----------------------------------------------------------------------------
(* Types. *)

(* The session that an idle process names is some session. *)
LEMMA IdleSession == AnySession \in Sessions
  BY SessionsAssumption DEF AnySession

LEMMA InitTypes == Init => TypeOK
  <1> SUFFICES ASSUME Init PROVE TypeOK
    OBVIOUS
  <1>1. RowTyped /\ AccessTyped
    <2>1. row = [s \in Sessions |-> [status |-> "none", reqid |-> FALSE, pwd |-> NoPassword]]
      BY DEF Init
    <2>2. RowTyped
      BY <2>1 DEF RowTyped, RowTypes, Statuses
    <2>3. /\ user = [s \in Sessions |-> "absent"] /\ acct = [s \in Sessions |-> NoPassword]
          /\ grants = [s \in Sessions |-> 0] /\ booked = [s \in Sessions |-> FALSE]
      BY DEF Init
    <2>4. 0 \in 0..GrantCap
      BY BoundsAssumption
    <2>5. AccessTyped
      BY <2>3, <2>4 DEF AccessTyped, UserStates
    <2> QED BY <2>2, <2>5
  <1>2. EnvTyped /\ JobsTyped
    <2>1. /\ money = [s \in Sessions |-> "unasked"] /\ expired = [s \in Sessions |-> FALSE]
          /\ retired = FALSE /\ others = 0 /\ crashes = 0 /\ phase = "expire" /\ todo = {}
      BY DEF Init
    <2>2. 0 \in 0..MaxCrashes /\ 0 \in 0..MaxOthers
      BY BoundsAssumption, CleanupAssumption
    <2> QED BY <2>1, <2>2 DEF EnvTyped, JobsTyped
  <1>3. CreatorTyped
    BY DEF Init, CreatorTyped, PrepTypes, UserStates
  <1>4. ProcTyped
    BY IdleSession DEF Init, ProcTyped, ProcTypes, ProcSteps, UserStates
  <1> QED BY <1>1, <1>2, <1>3, <1>4 DEF TypeOK

(* Moving a process keeps its record well formed. *)
LEMMA GotoTyped ==
  ASSUME ProcTyped, NEW p \in Procs, NEW s \in Sessions, NEW c \in ProcSteps,
         Goto(p, c, s)
  PROVE  ProcTyped'
  BY DEF ProcTyped, Goto, ProcTypes, UserStates, Procs

LEMMA StepTyped ==
  ASSUME ProcTyped, NEW p \in Procs, NEW c \in ProcSteps, Step(p, c)
  PROVE  ProcTyped'
  BY DEF ProcTyped, Step, ProcTypes, Procs

(* The session a process works on is a session. *)
LEMMA ProcSession ==
  ASSUME ProcTyped, NEW p \in Procs
  PROVE  proc[p].s \in Sessions /\ proc[p].pc \in ProcSteps
         /\ proc[p].pwd \in Passwords \cup {NoPassword}
  BY DEF ProcTyped, ProcTypes

LEMMA FinishTyped ==
  ASSUME ProcTyped, NEW p \in Procs, Finish(p)
  PROVE  ProcTyped'
  <1>1. "idle" \in ProcSteps  BY DEF ProcSteps
  <1> QED BY <1>1, IdleSession, GotoTyped DEF Finish

LEMMA SetStatusTyped ==
  ASSUME RowTyped, NEW s \in Sessions, NEW st \in Statuses, SetStatus(s, st)
  PROVE  RowTyped'
  BY DEF RowTyped, RowTypes, SetStatus

LEMMA PrepareEndsTyped ==
  ASSUME CreatorTyped, create' \in [Sessions -> {"idle", "admitted", "initiating",
                         "accepted", "refused", "refusing", "done"}],
         NEW s \in Sessions, PrepareEnds(s)
  PROVE  CreatorTyped'
  BY DEF CreatorTyped, PrepareEnds, PrepTypes, UserStates

LEMMA AbortTyped ==
  ASSUME JobsTyped, NEW p, AbortIteration(p)
  PROVE  JobsTyped'
  BY DEF JobsTyped, AbortIteration, jobVars

(* create_public_payment and its environment. *)
LEMMA CreatorStepTypes ==
  ASSUME TypeOK, NEW s \in Sessions,
         Admit(s) \/ CreatorStep(s) \/ CustomerAnswers(s) \/ ClockPasses(s)
  PROVE  TypeOK'
  <1> USE DEF TypeOK, dbVars, envVars, jobVars
  <1>1. ProcTyped' /\ JobsTyped' /\ AccessTyped'
    BY DEF Admit, CreateSession, CreatorStep, Initiate, SaveInitiation, RefuseRead,
           RefuseWrite, CustomerAnswers, ClockPasses, ProcTyped, JobsTyped,
           AccessTyped, Procs
  <1>2. RowTyped'
    <2>1. CASE SetStatus(s, "created") \/ SetStatus(s, "failed")
      BY <2>1, SetStatusTyped DEF Statuses
    <2>2. CASE SaveInitiation(s)
      <3> DEFINE r == [row[s] EXCEPT !.reqid = TRUE, !.status = "pending"]
      <3>1. row[s] \in RowTypes
        BY DEF RowTyped
      <3>2. r \in RowTypes
        BY <3>1 DEF RowTypes, Statuses
      <3>3. row' = [row EXCEPT ![s] = r]
        BY <2>2, <3>1 DEF SaveInitiation, RowTyped, RowTypes
      <3> QED BY <3>2, <3>3 DEF RowTyped
    <2>3. CASE UNCHANGED row
      BY <2>3 DEF RowTyped
    <2> QED
      BY <2>1, <2>2, <2>3 DEF Admit, CreateSession, CreatorStep, Initiate, RefuseRead,
                              RefuseWrite, CustomerAnswers, ClockPasses
  <1>3. EnvTyped'
    BY DEF Admit, CreateSession, CreatorStep, Initiate, SaveInitiation, RefuseRead,
           RefuseWrite, CustomerAnswers, ClockPasses, EnvTyped
  <1>4. CreatorTyped'
    <2>1. CASE CreateSession(s)
      <3>0. prep[s] \in PrepTypes
        BY DEF CreatorTyped
      <3>1. [prep[s] EXCEPT !.pc = "read"] \in PrepTypes
        BY <3>0 DEF PrepTypes
      <3>2. prep' = [prep EXCEPT ![s] = [prep[s] EXCEPT !.pc = "read"]]
        BY <2>1 DEF CreateSession
      <3> QED BY <2>1, <3>1, <3>2 DEF CreateSession, CreatorTyped
    <2>2. CASE UNCHANGED prep
      BY <2>2 DEF Admit, CreateSession, CreatorStep, Initiate, SaveInitiation, RefuseRead,
                  RefuseWrite, CustomerAnswers, ClockPasses, CreatorTyped
    <2> QED
      BY <2>1, <2>2 DEF Admit, CreatorStep, Initiate, SaveInitiation, RefuseRead,
                        RefuseWrite, CustomerAnswers, ClockPasses, CreatorTyped
  <1> QED BY <1>1, <1>2, <1>3, <1>4

(* _prepare_payment_access. *)
LEMMA PrepareStepTypes ==
  ASSUME TypeOK, NEW s \in Sessions, PrepareStep(s)
  PROVE  TypeOK'
  <1> USE DEF TypeOK, dbVars, envVars, jobVars
  <1>1. ProcTyped' /\ JobsTyped' /\ EnvTyped'
    BY DEF PrepareStep, PrepareRead, PrepareFlush, PrepareRouter, PrepareCommit,
           PrepareRollback, ProcTyped, JobsTyped, EnvTyped, Procs
  <1>2. RowTyped'
    <2>1. CASE UNCHANGED row
      BY <2>1 DEF RowTyped
    <2>2. CASE PrepareCommit(s) /\ prep[s].fresh
      <3> DEFINE r == [row[s] EXCEPT !.pwd = prep[s].pwd]
      <3>1. row[s] \in RowTypes /\ prep[s].pwd \in Passwords \cup {NoPassword}
        BY DEF RowTyped, CreatorTyped, PrepTypes
      <3>2. r \in RowTypes
        BY <3>1 DEF RowTypes
      <3>3. row' = [row EXCEPT ![s] = r]
        BY <2>2 DEF PrepareCommit
      <3> QED BY <3>2, <3>3 DEF RowTyped
    <2> QED
      BY <2>1, <2>2 DEF PrepareStep, PrepareRead, PrepareFlush, PrepareRouter,
                        PrepareCommit, PrepareRollback
  <1>3. AccessTyped'
    <2>1. prep[s].pwd \in Passwords \cup {NoPassword}
      BY DEF CreatorTyped, PrepTypes
    <2>2. CASE PrepareCommit(s)
      <3>1. user' \in [Sessions -> UserStates]
        BY <2>2 DEF PrepareCommit, AccessTyped, UserStates
      <3>2. UNCHANGED <<acct, grants, booked>>
        BY <2>2 DEF PrepareCommit
      <3> QED BY <3>1, <3>2 DEF AccessTyped
    <2>3. CASE PrepareRouter(s)
      BY <2>1, <2>3 DEF PrepareRouter, AccessTyped
    <2> QED
      BY <2>2, <2>3 DEF PrepareStep, PrepareRead, PrepareFlush, PrepareRollback,
                        AccessTyped
  <1>4. CreatorTyped'
    <2>0. create' = create
      BY DEF PrepareStep, PrepareRead, PrepareFlush, PrepareRouter, PrepareCommit,
             PrepareRollback
    <2>1. CASE PrepareEnds(s)
      BY <2>0, <2>1, PrepareEndsTyped DEF CreatorTyped
    <2>2. CASE PrepareRead(s) /\ ~PrepareEnds(s)
      <3> DEFINE r == [pc |-> IF row[s].pwd = NoPassword THEN "flush" ELSE "router",
                       pwd |-> row[s].pwd, saw |-> user[s], fresh |-> FALSE]
      <3>1. r \in PrepTypes
        BY DEF PrepTypes, RowTyped, RowTypes, AccessTyped
      <3>2. prep' = [prep EXCEPT ![s] = r]
        BY <2>2 DEF PrepareRead
      <3> QED BY <2>0, <3>1, <3>2 DEF CreatorTyped
    <2>3. CASE PrepareFlush(s)
      <3>1. PICK new \in Passwords :
              prep' = [prep EXCEPT ![s].pc = "router", ![s].pwd = new, ![s].fresh = TRUE]
        BY <2>3 DEF PrepareFlush
      <3> DEFINE r == [prep[s] EXCEPT !.pc = "router", !.pwd = new, !.fresh = TRUE]
      <3>2. r \in PrepTypes
        BY DEF PrepTypes, CreatorTyped
      <3>3. prep' = [prep EXCEPT ![s] = r]
        BY <3>1 DEF CreatorTyped, PrepTypes
      <3> QED BY <2>0, <3>2, <3>3 DEF CreatorTyped
    <2>4. CASE PrepareRouter(s) /\ ~PrepareEnds(s)
      <3>1. [prep[s] EXCEPT !.pc = "commit"] \in PrepTypes
        BY DEF CreatorTyped, PrepTypes
      <3>2. prep' = [prep EXCEPT ![s] = [prep[s] EXCEPT !.pc = "commit"]]
        BY <2>4 DEF PrepareRouter
      <3> QED BY <2>0, <3>1, <3>2 DEF CreatorTyped
    <2> QED
      BY <2>1, <2>2, <2>3, <2>4 DEF PrepareStep, PrepareCommit, PrepareRollback
  <1> QED BY <1>1, <1>2, <1>3, <1>4

(* Polls, callbacks, retries and the writes they lead to. *)
LEMMA RequestTypes ==
  ASSUME TypeOK, NEW t \in Threads, NEW s \in Sessions, Request(t, s)
  PROVE  TypeOK'
  <1> USE DEF TypeOK, dbVars, envVars, jobVars
  <1>1. t \in Procs /\ {"to_failed", "query", "lock", "review", "verify", "to_review"}
                         \subseteq ProcSteps
    BY DEF Procs, ProcSteps, Target
  <1>2. PICK c \in {"to_failed", "query", "lock", "review", "verify", "to_review"} :
          Goto(t, c, s)
    BY DEF Request, PollExpired, PollPending, CallbackDeclined, CallbackPaid, Retry
  <1>3. ProcTyped'
    BY <1>1, <1>2, GotoTyped
  <1>4. UNCHANGED <<row, dbVars, acct, envVars, create, prep, jobVars, crashes>>
    BY DEF Request, PollExpired, PollPending, CallbackDeclined, CallbackPaid, Retry
  <1> QED
    BY <1>3, <1>4 DEF RowTyped, AccessTyped, EnvTyped, CreatorTyped, JobsTyped

LEMMA ThreadStepTypes ==
  ASSUME TypeOK, NEW p \in Procs, Verify(p) \/ Review(p) \/ Query(p) \/ WriteStatus(p)
  PROVE  TypeOK'
  <1> USE DEF TypeOK, dbVars, envVars, jobVars
  <1>0. /\ proc[p].s \in Sessions
        /\ {"lock", "review", "idle", "to_review"} \subseteq ProcSteps
    BY ProcSession DEF ProcSteps, Target
  <1>1. ProcTyped'
    <2>1. (\E c \in {"lock", "review"} : Goto(p, c, proc[p].s))
          \/ Step(p, "to_review") \/ Step(p, "lock") \/ Finish(p)
      BY DEF Verify, Review, Query, WriteStatus
    <2> QED BY <1>0, <2>1, GotoTyped, StepTyped, FinishTyped
  <1>2. RowTyped'
    <2>1. CASE WriteStatus(p)
      <3>1. Target[proc[p].pc] \in Statuses
        BY <2>1 DEF WriteStatus, Target, Statuses
      <3> QED BY <1>0, <2>1, <3>1, SetStatusTyped DEF WriteStatus
    <2>2. CASE UNCHANGED row
      BY <2>2 DEF RowTyped
    <2> QED BY <2>1, <2>2 DEF Verify, Review, Query
  <1>3. JobsTyped'
    BY AbortTyped DEF Verify, Review, Query, WriteStatus, JobsTyped
  <1>4. UNCHANGED <<dbVars, acct, envVars, create, prep, crashes>>
    BY DEF Verify, Review, Query, WriteStatus
  <1>5. AccessTyped' /\ EnvTyped' /\ CreatorTyped'
    BY <1>4 DEF AccessTyped, EnvTyped, CreatorTyped
  <1> QED BY <1>1, <1>2, <1>3, <1>5

(* complete_payment. *)
LEMMA CompleteStepTypes ==
  ASSUME TypeOK, NEW p \in Procs, CompleteStep(p)
  PROVE  TypeOK'
  <1> USE DEF TypeOK, dbVars, envVars, jobVars
  <1> DEFINE s == proc[p].s
  <1>0. /\ s \in Sessions /\ proc[p].pwd \in Passwords \cup {NoPassword}
        /\ {"router", "commit", "rolledback", "to_provisioning_failed"} \subseteq ProcSteps
    BY ProcSession DEF ProcSteps, Target
  <1>1. ProcTyped'
    <2>1. CASE CompleteLock(p) /\ s \in Hotspot
      <3>1. PICK pwd \in Passwords \cup {NoPassword}, next \in {"router", "commit"} :
              proc' = [proc EXCEPT ![p] =
                 [pc |-> next, s |-> s, pwd |-> pwd, saw |-> user[s]]]
        BY <1>0, <2>1 DEF CompleteLock, RowTyped, RowTypes
      <3>2. user[s] \in UserStates
        BY <1>0 DEF AccessTyped
      <3> HIDE DEF s
      <3>3. [pc |-> next, s |-> s, pwd |-> pwd, saw |-> user[s]] \in ProcTypes
        BY <1>0, <3>2 DEF ProcTypes
      <3> QED BY <3>1, <3>3 DEF ProcTyped, Procs
    <2>2. CASE ~(CompleteLock(p) /\ s \in Hotspot)
      <3>1. \/ Finish(p) \/ Step(p, "router") \/ Step(p, "commit")
            \/ Goto(p, "rolledback", s) \/ Step(p, "to_provisioning_failed")
        BY <2>2 DEF CompleteStep, CompleteAlready, CompleteLock, CompleteRouter,
                    CompleteCommit, CompleteRollback, RecordFailure
      <3> QED BY <1>0, <3>1, GotoTyped, StepTyped, FinishTyped
    <2> QED BY <2>1, <2>2
  <1>2. RowTyped'
    <2>1. CASE CompleteCommit(p)
      <3> DEFINE r == [row[s] EXCEPT !.status = "provisioned",
                         !.pwd = IF s \in Hotspot THEN proc[p].pwd ELSE NoPassword]
      <3>1. row[s] \in RowTypes
        BY <1>0 DEF RowTyped
      <3>2. r \in RowTypes
        BY <1>0, <3>1 DEF RowTypes, Statuses
      <3>3. row' = [row EXCEPT ![s] = r]
        BY <2>1, <1>0, <3>1 DEF CompleteCommit, RowTyped, RowTypes
      <3> QED BY <1>0, <3>2, <3>3 DEF RowTyped
    <2>2. CASE UNCHANGED row
      BY <2>2 DEF RowTyped
    <2> QED
      BY <2>1, <2>2 DEF CompleteStep, CompleteAlready, CompleteLock, CompleteRouter,
                        CompleteRollback, RecordFailure
  <1>3. AccessTyped'
    <2>1. CASE CompleteCommit(p)
      <3>1. user' \in [Sessions -> UserStates]
        BY <1>0, <2>1 DEF CompleteCommit, AccessTyped, UserStates
      <3>2. grants' \in [Sessions -> 0..GrantCap]
        BY <1>0, <2>1, BoundsAssumption DEF CompleteCommit, AccessTyped
      <3>3. booked' \in [Sessions -> BOOLEAN] /\ acct' = acct
        BY <1>0, <2>1 DEF AddLedgerRow, CompleteCommit, AccessTyped
      <3> QED BY <3>1, <3>2, <3>3 DEF AccessTyped
    <2>2. CASE CompleteRouter(p)
      BY <1>0, <2>2 DEF CompleteRouter, AccessTyped
    <2> QED
      BY <2>1, <2>2 DEF CompleteStep, CompleteAlready, CompleteLock, CompleteRollback,
                        RecordFailure, AccessTyped
  <1>4. JobsTyped'
    BY AbortTyped DEF CompleteStep, CompleteAlready, CompleteLock, CompleteRouter,
       CompleteCommit, CompleteRollback, RecordFailure, JobsTyped
  <1>5. UNCHANGED <<envVars, create, prep, crashes>>
    BY DEF CompleteStep, CompleteAlready, CompleteLock, CompleteRouter,
           CompleteCommit, CompleteRollback, RecordFailure
  <1>6. EnvTyped' /\ CreatorTyped'
    BY <1>5 DEF EnvTyped, CreatorTyped
  <1> QED BY <1>1, <1>2, <1>3, <1>4, <1>6

(* The phases of the jobs process. *)
LEMMA PhaseStepTypes ==
  ASSUME TypeOK, PhaseStep
  PROVE  TypeOK'
  <1> USE DEF TypeOK, dbVars, envVars, jobVars
  <1> DEFINE s == proc[Jobs].s
  <1>0. /\ Jobs \in Procs /\ s \in Sessions
        /\ {"query", "delete", "forget"} \subseteq ProcSteps
    BY ProcSession DEF Procs, ProcSteps
  <1>1. ProcTyped'
    <2>1. \/ UNCHANGED proc \/ Step(Jobs, "forget") \/ Finish(Jobs)
          \/ \E x \in Sessions : Goto(Jobs, "query", x) \/ Goto(Jobs, "delete", x)
      BY DEF PhaseStep, ExpireRead, ExpireWrite, ReconcileList, ReconcileNext, CleanupList,
             CleanupRead, CleanupRouter, CleanupFails, CleanupCommit, IterationEnds
    <2>2. CASE UNCHANGED proc
      BY <2>2 DEF ProcTyped, Procs
    <2> QED BY <1>0, <2>1, <2>2, GotoTyped, StepTyped, FinishTyped
  <1>2. RowTyped'
    <2>1. CASE ExpireWrite
      <3>1. \A x \in Sessions : [row[x] EXCEPT !.status = "failed"] \in RowTypes
        BY DEF RowTyped, RowTypes, Statuses
      <3>2. \A x \in Sessions : row[x] \in RowTypes
        BY DEF RowTyped
      <3> QED BY <2>1, <3>1, <3>2 DEF ExpireWrite, RowTyped
    <2>2. CASE CleanupCommit
      <3>1. row[s] \in RowTypes
        BY <1>0 DEF RowTyped
      <3>2. [row[s] EXCEPT !.pwd = NoPassword] \in RowTypes
        BY <3>1 DEF RowTypes
      <3>3. row' = [row EXCEPT ![s] = [row[s] EXCEPT !.pwd = NoPassword]]
        BY <2>2 DEF CleanupCommit
      <3> QED BY <1>0, <3>2, <3>3 DEF RowTyped
    <2>3. CASE UNCHANGED row
      BY <2>3 DEF RowTyped
    <2> QED
      BY <2>1, <2>2, <2>3 DEF PhaseStep, ExpireRead, ReconcileList, ReconcileNext,
         CleanupList, CleanupRead, CleanupRouter, CleanupFails, IterationEnds
  <1>3. AccessTyped'
    <2>1. CASE CleanupCommit
      BY <1>0, <2>1 DEF CleanupCommit, AccessTyped, UserStates
    <2>2. CASE CleanupRouter
      BY <1>0, <2>2 DEF CleanupRouter, AccessTyped
    <2> QED
      BY <2>1, <2>2 DEF PhaseStep, ExpireRead, ExpireWrite, ReconcileList, ReconcileNext,
         CleanupList, CleanupRead, CleanupFails, IterationEnds, AccessTyped
  <1>4. JobsTyped'
    BY SubsetsAssumption DEF Overdue, Cleanable, FirstRows, PhaseStep, ExpireRead, ExpireWrite, ReconcileList,
       ReconcileNext, CleanupList, CleanupRead, CleanupRouter, CleanupFails,
       CleanupCommit, IterationEnds, JobsTyped
  <1>5. UNCHANGED <<envVars, create, prep, crashes>>
    BY DEF PhaseStep, ExpireRead, ExpireWrite, ReconcileList, ReconcileNext, CleanupList,
           CleanupRead, CleanupRouter, CleanupFails, CleanupCommit, IterationEnds
  <1>6. EnvTyped' /\ CreatorTyped'
    BY <1>5 DEF EnvTyped, CreatorTyped
  <1> QED BY <1>1, <1>2, <1>3, <1>4, <1>6

(* delete_router. *)
LEMMA RetireTypes ==
  ASSUME TypeOK, RetireRouter
  PROVE  TypeOK'
  <1> USE DEF TypeOK, dbVars, jobVars
  <1>1. \A x \in Sessions : RetiredStatus(row[x].status) \in Statuses
    BY DEF RetiredStatus, OpenStatuses, Statuses, RowTyped, RowTypes
  <1>2. \A x \in Sessions : [row[x] EXCEPT !.status = RetiredStatus(row[x].status)] \in RowTypes
    BY <1>1 DEF RowTyped, RowTypes
  <1>3. RowTyped'
    BY <1>2 DEF RetireRouter, RowTyped
  <1>4. EnvTyped'
    BY DEF RetireRouter, EnvTyped
  <1>5. AccessTyped' /\ CreatorTyped' /\ ProcTyped' /\ JobsTyped'
    BY DEF RetireRouter, AccessTyped, CreatorTyped, ProcTyped, JobsTyped, Procs
  <1> QED BY <1>3, <1>4, <1>5

(* Sessions of other routers. *)
LEMMA OthersTypes ==
  ASSUME TypeOK, OthersChange
  PROVE  TypeOK'
  BY DEF OthersChange, TypeOK, RowTyped, AccessTyped, EnvTyped, CreatorTyped, ProcTyped,
         JobsTyped, Procs, dbVars, jobVars

LEMMA CrashTypes ==
  ASSUME TypeOK, Crash
  PROVE  TypeOK'
  <1> USE DEF TypeOK, dbVars, envVars, jobVars
  <1>1. UNCHANGED <<row, dbVars, acct, envVars>>
    BY DEF Crash, CrashCreator, CrashProc
  <1>2. EnvTyped'
    BY <1>1, BoundsAssumption DEF Crash, CrashCreator, CrashProc, EnvTyped
  <1>3. RowTyped' /\ AccessTyped'
    BY <1>1 DEF RowTyped, AccessTyped
  <1>4. CASE \E s \in Sessions : CrashCreator(s)
    <2>1. PICK s \in Sessions : CrashCreator(s)
      BY <1>4
    <2>2. create' \in [Sessions -> {"idle", "admitted", "initiating", "accepted",
                                   "refused", "refusing", "done"}]
      BY <2>1 DEF CrashCreator, CreatorTyped
    <2>3. CreatorTyped'
      BY <2>1, <2>2, PrepareEndsTyped DEF CrashCreator
    <2>4. ProcTyped' /\ JobsTyped'
      BY <2>1 DEF CrashCreator, ProcTyped, JobsTyped, Procs
    <2> QED BY <1>2, <1>3, <2>3, <2>4
  <1>5. CASE \E p \in Procs : CrashProc(p)
    BY <1>2, <1>3, <1>5, FinishTyped, AbortTyped DEF CrashProc, CreatorTyped
  <1> QED BY <1>4, <1>5 DEF Crash

(* The steps of the system, sorted the way the lemmas are. *)
LEMMA NextCases ==
  ASSUME Next
  PROVE  \/ \E s \in Sessions : \/ Admit(s) \/ CreatorStep(s)
                                 \/ CustomerAnswers(s) \/ ClockPasses(s)
         \/ \E s \in Sessions : PrepareStep(s)
         \/ \E t \in Threads, s \in Sessions : Request(t, s)
         \/ \E p \in Procs : Verify(p) \/ Review(p) \/ Query(p) \/ WriteStatus(p)
         \/ \E p \in Procs : CompleteStep(p)
         \/ PhaseStep
         \/ RetireRouter
         \/ OthersChange
         \/ Crash
  BY DEF Next, ThreadStep, JobsStep, PhaseStep, Procs

THEOREM TypeCorrect == Spec => []TypeOK
  <1>1. TypeOK /\ [Next]_vars => TypeOK'
    <2> SUFFICES ASSUME TypeOK, [Next]_vars PROVE TypeOK'
      OBVIOUS
    <2>1. CASE UNCHANGED vars
      BY <2>1 DEF vars, TypeOK, RowTyped, AccessTyped, EnvTyped, CreatorTyped,
                  ProcTyped, JobsTyped, Procs
    <2>2. CASE Next
      BY <2>2, NextCases, CreatorStepTypes, PrepareStepTypes, RequestTypes,
         ThreadStepTypes, CompleteStepTypes, PhaseStepTypes, RetireTypes, OthersTypes,
         CrashTypes
    <2> QED BY <2>1, <2>2
  <1> QED BY InitTypes, <1>1, PTL DEF Spec
-----------------------------------------------------------------------------
(* What a step can do to the access of a session. *)

(* What a session has got changes only when a completion commits; the only *)
(* other status that counts is the record of a failed completion.          *)
LEMMA AccessChanges ==
  ASSUME TypeOK, [Next]_vars, NEW s \in Sessions
  PROVE  \/ \E p \in Procs : CompleteCommit(p) /\ proc[p].s = s
         \/ /\ booked'[s] = booked[s] /\ grants'[s] = grants[s]
            /\ user'[s] = "granted" => user[s] = "granted"
            /\ row'[s].status = "provisioned" => row[s].status = "provisioned"
            /\ row'[s].status = "provisioning_failed" =>
                 \/ row[s].status = "provisioning_failed"
                 \/ \E p \in Procs : proc[p].pc = "to_provisioning_failed" /\ proc[p].s = s
  <1> USE DEF dbVars, envVars, jobVars, TypeOK
  <1>1. CASE /\ UNCHANGED <<grants, booked>>
             /\ user'[s] = "granted" => user[s] = "granted"
             /\ row'[s].status \in {"provisioned", "provisioning_failed"}
                  => row'[s].status = row[s].status
    BY <1>1
  <1>2. CASE \E x \in Sessions : Admit(x) \/ CreatorStep(x) \/ CustomerAnswers(x)
                               \/ ClockPasses(x)
    BY <1>1, <1>2 DEF Admit, CreateSession, CreatorStep, Initiate, SaveInitiation, RefuseRead,
       RefuseWrite, CustomerAnswers, ClockPasses, SetStatus, RowTyped, RowTypes
  <1>3. CASE \E x \in Sessions : PrepareStep(x)
    <2>1. CASE \E x \in Sessions : PrepareCommit(x)
      BY <1>1, <2>1 DEF PrepareCommit, RowTyped, RowTypes, AccessTyped
    <2>2. CASE UNCHANGED <<row, user, grants, booked>>
      BY <1>1, <2>2
    <2> QED BY <1>3, <2>1, <2>2 DEF PrepareStep, PrepareRead, PrepareFlush, PrepareRouter,
                                    PrepareRollback
  <1>4. CASE UNCHANGED <<row, user, grants, booked>>
    BY <1>1, <1>4
  <1>5. CASE \E t \in Threads, x \in Sessions : Request(t, x)
    BY <1>4, <1>5 DEF Request, PollExpired, PollPending, CallbackDeclined, CallbackPaid,
                      Retry
  <1>6. CASE \E p \in Procs : Verify(p) \/ Review(p) \/ Query(p) \/ WriteStatus(p)
    <2>1. PICK p \in Procs : Verify(p) \/ Review(p) \/ Query(p) \/ WriteStatus(p)
      BY <1>6
    <2>2. CASE WriteStatus(p)
      <3>1. proc[p].s \in Sessions
        BY ProcSession
      <3>2. CASE proc[p].s = s /\ proc[p].pc = "to_provisioning_failed"
        BY <2>2, <3>2 DEF WriteStatus, SetStatus, Target, RowTyped, RowTypes
      <3>3. CASE ~(proc[p].s = s /\ proc[p].pc = "to_provisioning_failed")
        BY <1>1, <2>2, <3>1, <3>3 DEF WriteStatus, SetStatus, Target, RowTyped, RowTypes
      <3> QED BY <3>2, <3>3
    <2> QED BY <1>4, <2>1, <2>2 DEF Verify, Review, Query
  <1>7. CASE \E p \in Procs : CompleteStep(p)
    <2>1. PICK p \in Procs : CompleteStep(p)
      BY <1>7
    <2>2. CASE CompleteCommit(p)
      <3>1. proc[p].s \in Sessions
        BY ProcSession
      <3>2. CASE proc[p].s = s
        BY <2>2, <3>2
      <3>3. CASE proc[p].s # s
        <4>1. row'[s] = row[s] /\ user'[s] = user[s] /\ booked'[s] = booked[s]
              /\ grants'[s] = grants[s]
          BY <2>2, <3>1, <3>3 DEF AddLedgerRow, CompleteCommit, RowTyped, AccessTyped
        <4> QED BY <4>1
      <3> QED BY <3>2, <3>3
    <2> QED BY <1>4, <2>1, <2>2 DEF CompleteStep, CompleteAlready, CompleteLock,
                                CompleteRouter, CompleteRollback, RecordFailure
  <1>8. CASE PhaseStep
    <2>1. CASE ExpireWrite
      BY <1>1, <2>1 DEF ExpireWrite, RowTyped, RowTypes
    <2>2. CASE CleanupCommit
      BY <1>1, <2>2, ProcSession DEF CleanupCommit, RowTyped, RowTypes, AccessTyped
    <2> QED BY <1>4, <1>8, <2>1, <2>2 DEF PhaseStep, ExpireRead, ReconcileList,
           ReconcileNext, CleanupList, CleanupRead, CleanupRouter, CleanupFails, IterationEnds
  <1>9. CASE Crash
    BY <1>4, <1>9 DEF Crash, CrashCreator, CrashProc
  <1>10. CASE OthersChange \/ UNCHANGED vars
    BY <1>4, <1>10 DEF OthersChange, vars
  <1>11. CASE RetireRouter
    <2>1. row'[s] = [row[s] EXCEPT !.status = RetiredStatus(row[s].status)]
      BY <1>11 DEF RetireRouter
    <2>2. row'[s].status = RetiredStatus(row[s].status)
      BY <2>1 DEF RowTyped, RowTypes
    <2> QED BY <1>1, <1>11, <2>2 DEF RetireRouter, RetiredStatus, OpenStatuses
  <1> QED BY <1>2, <1>3, <1>5, <1>6, <1>7, <1>8, <1>9, <1>10, <1>11, NextCases

-----------------------------------------------------------------------------
(* No access without money.                                                *)
(*                                                                         *)
(* The property is not inductive: a step that grants must know that its    *)
(* process was sent there by a provider's word, so the invariant follows   *)
(* that word from the callback, the query or the administrator's retry to  *)
(* the commit, through the rollback that records a failure.  And the       *)
(* provider's word is not taken back: it is asked once.                    *)

ToldPaid == {"verify", "lock", "router", "commit", "rolledback", "to_provisioning_failed"}

MoneyInv ==
    /\ \A s \in Sessions : create[s] \in {"idle", "admitted", "initiating"} => money[s] = "unasked"
    /\ \A p \in Procs : proc[p].pc \in ToldPaid => money[proc[p].s] = "paid"
    /\ AccessOnlyForMoney

(* What a session of AccessOnlyForMoney has got. *)
Served(s) ==
    \/ row[s].status \in {"provisioned", "provisioning_failed"}
    \/ user[s] = "granted" \/ booked[s] \/ grants[s] > 0

LEMMA ServedIsPaid == AccessOnlyForMoney <=> \A s \in Sessions : Served(s) => money[s] = "paid"
  BY DEF AccessOnlyForMoney, Served

LEMMA PaidStays ==
  ASSUME TypeOK, MoneyInv, [Next]_vars, NEW s \in Sessions
  PROVE  /\ money[s] = "paid" => money'[s] = "paid"
         /\ create'[s] \in {"idle", "admitted", "initiating"} => money'[s] = "unasked"
  <1> USE DEF dbVars, envVars, jobVars, TypeOK, EnvTyped, CreatorTyped, MoneyInv
  <1>1. CASE \E x \in Sessions : Admit(x) \/ CreatorStep(x) \/ CustomerAnswers(x)
                               \/ ClockPasses(x)
    BY <1>1 DEF Admit, CreateSession, CreatorStep, Initiate, SaveInitiation, RefuseRead,
                RefuseWrite, CustomerAnswers, ClockPasses
  <1>2. CASE UNCHANGED <<create, money>>
    BY <1>2
  <1>3. CASE \E x \in Sessions : PrepareStep(x)
    BY <1>2, <1>3 DEF PrepareStep, PrepareRead, PrepareFlush, PrepareRouter,
                      PrepareCommit, PrepareRollback
  <1>4. CASE \E t \in Threads, x \in Sessions : Request(t, x)
    BY <1>2, <1>4 DEF Request, PollExpired, PollPending, CallbackDeclined, CallbackPaid,
                      Retry
  <1>5. CASE \E p \in Procs : Verify(p) \/ Review(p) \/ Query(p) \/ WriteStatus(p)
    BY <1>2, <1>5 DEF Verify, Review, Query, WriteStatus
  <1>6. CASE \E p \in Procs : CompleteStep(p)
    BY <1>2, <1>6 DEF CompleteStep, CompleteAlready, CompleteLock, CompleteRouter,
                      CompleteCommit, CompleteRollback, RecordFailure
  <1>7. CASE PhaseStep
    BY <1>2, <1>7 DEF PhaseStep, ExpireRead, ExpireWrite, ReconcileList, ReconcileNext,
       CleanupList, CleanupRead, CleanupRouter, CleanupFails, CleanupCommit, IterationEnds
  <1>8. CASE Crash
    BY <1>8 DEF Crash, CrashCreator, CrashProc
  <1>9. CASE RetireRouter \/ OthersChange \/ UNCHANGED vars
    BY <1>2, <1>9 DEF RetireRouter, OthersChange, vars
  <1> QED BY <1>1, <1>3, <1>4, <1>5, <1>6, <1>7, <1>8, <1>9, NextCases

(* A process is told that the customer paid only when the provider knows   *)
(* it, or when an earlier process was told.                                *)
LEMMA ToldOnlyIfPaid ==
  ASSUME TypeOK, MoneyInv, [Next]_vars, NEW p \in Procs, proc'[p].pc \in ToldPaid
  PROVE  money[proc'[p].s] = "paid"
  <1> USE DEF dbVars, envVars, jobVars, TypeOK, ProcTyped
  <1>0. /\ proc[p] \in ProcTypes
        /\ proc[p].pc \in ToldPaid => money[proc[p].s] = "paid"
    BY DEF MoneyInv
  <1>1. CASE proc'[p] = proc[p]
    BY <1>0, <1>1
  <1>2. CASE \E x \in Sessions : Admit(x) \/ CreatorStep(x) \/ CustomerAnswers(x)
                               \/ ClockPasses(x) \/ PrepareStep(x)
    BY <1>1, <1>2 DEF Admit, CreateSession, CreatorStep, Initiate, SaveInitiation, RefuseRead,
       RefuseWrite, CustomerAnswers, ClockPasses, PrepareStep, PrepareRead, PrepareFlush,
       PrepareRouter, PrepareCommit, PrepareRollback
  <1>3. CASE \E t \in Threads, x \in Sessions : Request(t, x)
    <2>1. PICK t \in Threads, x \in Sessions : Request(t, x)
      BY <1>3
    <2>2. t \in Procs
      BY DEF Procs
    <2>3. CASE CallbackPaid(t, x)
      BY <1>1, <2>2, <2>3 DEF CallbackPaid, Goto
    <2>4. CASE Retry(t, x)
      BY <1>1, <2>2, <2>4 DEF Retry, Goto, MoneyInv, AccessOnlyForMoney
    <2>5. CASE PollExpired(t, x) \/ PollPending(t, x) \/ CallbackDeclined(t, x)
      BY <1>1, <2>2, <2>5 DEF PollExpired, PollPending, CallbackDeclined, Goto, ToldPaid
    <2> QED BY <2>1, <2>3, <2>4, <2>5 DEF Request
  <1>4. CASE \E q \in Procs : Verify(q) \/ Review(q) \/ Query(q) \/ WriteStatus(q)
    <2>1. PICK q \in Procs : Verify(q) \/ Review(q) \/ Query(q) \/ WriteStatus(q)
      BY <1>4
    <2>2. CASE q # p
      BY <1>1, <2>1, <2>2 DEF Verify, Review, Query, WriteStatus, Goto, Step, Finish
    <2>3. CASE q = p
      BY <1>0, <2>1, <2>3 DEF QuerySaysPaid, Verify, Review, Query, WriteStatus, Goto, Step, Finish,
         ToldPaid, ProcTypes
    <2> QED BY <2>2, <2>3
  <1>5. CASE \E q \in Procs : CompleteStep(q)
    <2>1. PICK q \in Procs : CompleteStep(q)
      BY <1>5
    <2>2. proc[q].pc \in ToldPaid /\ proc[q] \in ProcTypes
      BY <2>1 DEF CompleteStep, CompleteAlready, CompleteLock, CompleteRouter,
         CompleteCommit, CompleteRollback, RecordFailure, ToldPaid
    <2>3. CASE q # p
      BY <1>1, <2>1, <2>3 DEF CompleteStep, CompleteAlready, CompleteLock, CompleteRouter,
         CompleteCommit, CompleteRollback, RecordFailure, Goto, Step, Finish
    <2>4. CASE q = p
      <3>1. Finish(p) => proc'[p].pc = "idle"
        BY <1>0 DEF Finish, Goto
      <3>2. proc'[p].s = proc[p].s
        BY <2>1, <2>2, <2>4, <3>1 DEF CompleteStep, CompleteAlready, CompleteLock,
           CompleteRouter, CompleteCommit, CompleteRollback, RecordFailure, Goto, Step,
           ProcTypes, ToldPaid
      <3> QED BY <1>0, <2>2, <2>4, <3>2
    <2> QED BY <2>3, <2>4
  <1>6. CASE PhaseStep
    <2>1. CASE p # Jobs
      BY <1>1, <1>6, <2>1 DEF PhaseStep, ExpireRead, ExpireWrite, ReconcileList,
         ReconcileNext, CleanupList, CleanupRead, CleanupRouter, CleanupFails,
         CleanupCommit, IterationEnds, Goto, Step, Finish
    <2>2. CASE p = Jobs
      BY <1>1, <1>6, <1>0, <2>2 DEF PhaseStep, ExpireRead, ExpireWrite, ReconcileList,
         ReconcileNext, CleanupList, CleanupRead, CleanupRouter, CleanupFails,
         CleanupCommit, IterationEnds, Goto, Step, Finish, ToldPaid, ProcTypes
    <2> QED BY <2>1, <2>2
  <1>7. CASE Crash
    <2>1. CASE \E x \in Sessions : CrashCreator(x)
      BY <1>1, <2>1 DEF CrashCreator
    <2>2. CASE \E q \in Procs : CrashProc(q)
      BY <1>1, <2>2 DEF CrashProc, Goto, Finish, ToldPaid
    <2> QED BY <1>7, <2>1, <2>2 DEF Crash
  <1>8. CASE RetireRouter \/ OthersChange \/ UNCHANGED vars
    BY <1>1, <1>8 DEF RetireRouter, OthersChange, vars
  <1> QED BY <1>2, <1>3, <1>4, <1>5, <1>6, <1>7, <1>8, NextCases

(* A session that is served by a step was served before, or its money was  *)
(* collected before.                                                       *)
LEMMA ServedOnlyIfPaid ==
  ASSUME TypeOK, MoneyInv, [Next]_vars, NEW s \in Sessions, Served(s)'
  PROVE  money[s] = "paid"
  <1>1. Served(s) => money[s] = "paid"
    BY ServedIsPaid DEF MoneyInv
  <1>2. \A p \in Procs : CompleteCommit(p) => money[proc[p].s] = "paid"
    BY DEF CompleteCommit, MoneyInv, ToldPaid
  <1>3. \A p \in Procs : proc[p].pc = "to_provisioning_failed" => money[proc[p].s] = "paid"
    BY DEF MoneyInv, ToldPaid
  <1> QED BY <1>1, <1>2, <1>3, AccessChanges DEF Served

LEMMA MoneyInvariant == Spec => []MoneyInv
  <1>1. Init => MoneyInv
    BY DEF Init, MoneyInv, AccessOnlyForMoney, ToldPaid
  <1>2. TypeOK /\ MoneyInv /\ TypeOK' /\ [Next]_vars => MoneyInv'
    <2> SUFFICES ASSUME TypeOK, TypeOK', MoneyInv, [Next]_vars PROVE MoneyInv'
      OBVIOUS
    <2>1. \A s \in Sessions : create'[s] \in {"idle", "admitted", "initiating"} => money'[s] = "unasked"
      BY PaidStays
    <2>2. \A p \in Procs : proc'[p].pc \in ToldPaid => money'[proc'[p].s] = "paid"
      <3> TAKE p \in Procs
      <3>1. proc'[p].s \in Sessions
        BY DEF TypeOK, ProcTyped, ProcTypes, Procs
      <3> QED BY <3>1, ToldOnlyIfPaid, PaidStays
    <2>3. AccessOnlyForMoney'
      <3>1. \A s \in Sessions : Served(s)' => money'[s] = "paid"
        BY ServedOnlyIfPaid, PaidStays
      <3> QED BY <3>1 DEF AccessOnlyForMoney, Served
    <2> QED BY <2>1, <2>2, <2>3 DEF MoneyInv, Procs, ToldPaid
  <1> QED BY <1>1, <1>2, TypeCorrect, PTL DEF Spec

(* No session is provisioned, retried, granted a window or booked without  *)
(* the customer's money.                                                   *)
THEOREM NoAccessWithoutMoney == Spec => []AccessOnlyForMoney
  <1>1. MoneyInv => AccessOnlyForMoney
    BY DEF MoneyInv
  <1> QED BY <1>1, MoneyInvariant, PTL

-----------------------------------------------------------------------------
(* One completion at a time.                                               *)
(*                                                                         *)
(* The row lock makes a completing process the only writer of its row, so  *)
(* the status it looked at and the user row it saw are still there when it *)
(* commits.                                                                *)

LockInv ==
    /\ CompletionExclusive
    /\ \A p \in Procs, s \in Sessions :
         Completing(p, s) => /\ row[s].status # "provisioned"
                             /\ s \in Hotspot /\ proc[p].saw = "granted" => booked[s]
    /\ AccessIsBooked

(* A process is completing because it was, or because it has just taken    *)
(* the lock and looked at the user row.                                    *)
LEMMA CompletingBefore ==
  ASSUME TypeOK, [Next]_vars, NEW p \in Procs, NEW s \in Sessions, Completing(p, s)'
  PROVE  \/ Completing(p, s) /\ proc'[p].saw = proc[p].saw
         \/ /\ CompleteLock(p) /\ proc[p].s = s
            /\ s \in Hotspot => proc'[p].saw = user[s]
  <1> USE DEF dbVars, envVars, jobVars, TypeOK, ProcTyped
  <1>0. proc[p] \in ProcTypes
    OBVIOUS
  <1>1. CASE proc'[p] = proc[p]
    BY <1>1 DEF Completing
  <1>2. CASE \E x \in Sessions : Admit(x) \/ CreatorStep(x) \/ CustomerAnswers(x)
                               \/ ClockPasses(x) \/ PrepareStep(x)
    BY <1>1, <1>2 DEF Admit, CreateSession, CreatorStep, Initiate, SaveInitiation, RefuseRead,
       RefuseWrite, CustomerAnswers, ClockPasses, PrepareStep, PrepareRead, PrepareFlush,
       PrepareRouter, PrepareCommit, PrepareRollback
  <1>3. CASE \E t \in Threads, x \in Sessions : Request(t, x)
    BY <1>1, <1>3 DEF Request, PollExpired, PollPending, CallbackDeclined, CallbackPaid,
       Retry, Goto, Completing, Locked, Procs
  <1>4. CASE \E q \in Procs : Verify(q) \/ Review(q) \/ Query(q) \/ WriteStatus(q)
    <2>1. PICK q \in Procs : Verify(q) \/ Review(q) \/ Query(q) \/ WriteStatus(q)
      BY <1>4
    <2>2. CASE q # p
      BY <1>1, <2>1, <2>2 DEF Verify, Review, Query, WriteStatus, Goto, Step, Finish
    <2>3. CASE q = p
      BY <1>0, <2>1, <2>3 DEF Verify, Review, Query, WriteStatus, Goto, Step, Finish,
         Completing, Locked, ProcTypes
    <2> QED BY <2>2, <2>3
  <1>5. CASE \E q \in Procs : CompleteStep(q)
    <2>1. PICK q \in Procs : CompleteStep(q)
      BY <1>5
    <2>2. CASE q # p
      BY <1>1, <2>1, <2>2 DEF CompleteStep, CompleteAlready, CompleteLock, CompleteRouter,
         CompleteCommit, CompleteRollback, RecordFailure, Goto, Step, Finish
    <2>3. CASE q = p /\ CompleteLock(p)
      BY <1>0, <2>3 DEF CompleteLock, Step, Completing, ProcTypes
    <2>4. CASE q = p /\ CompleteRouter(p)
      BY <1>0, <2>4 DEF CompleteRouter, Step, Goto, Completing, Locked, ProcTypes
    <2>5. CASE q = p /\ ~CompleteLock(p) /\ ~CompleteRouter(p)
      BY <1>0, <2>1, <2>5 DEF CompleteStep, CompleteAlready, CompleteCommit,
         CompleteRollback, RecordFailure, Goto, Step, Finish, Completing, Locked, ProcTypes
    <2> QED BY <2>2, <2>3, <2>4, <2>5
  <1>6. CASE PhaseStep
    <2>1. CASE p # Jobs
      BY <1>1, <1>6, <2>1 DEF PhaseStep, ExpireRead, ExpireWrite, ReconcileList,
         ReconcileNext, CleanupList, CleanupRead, CleanupRouter, CleanupFails,
         CleanupCommit, IterationEnds, Goto, Step, Finish
    <2>2. CASE p = Jobs
      BY <1>1, <1>6, <1>0, <2>2 DEF PhaseStep, ExpireRead, ExpireWrite, ReconcileList,
         ReconcileNext, CleanupList, CleanupRead, CleanupRouter, CleanupFails,
         CleanupCommit, IterationEnds, Goto, Step, Finish, Completing, Locked, ProcTypes
    <2> QED BY <2>1, <2>2
  <1>7. CASE Crash
    BY <1>1, <1>7 DEF Crash, CrashCreator, CrashProc, Goto, Finish, Completing, Locked
  <1>8. CASE RetireRouter \/ OthersChange \/ UNCHANGED vars
    BY <1>1, <1>8 DEF RetireRouter, OthersChange, vars
  <1> QED BY <1>2, <1>3, <1>4, <1>5, <1>6, <1>7, <1>8, NextCases

(* The preparation holds the row because it did, or because it has just    *)
(* flushed new credentials.                                                *)
LEMMA PreparingBefore ==
  ASSUME TypeOK, [Next]_vars, NEW s \in Sessions, Preparing(s)'
  PROVE  Preparing(s) \/ (PrepareFlush(s) /\ UNCHANGED proc)
  <1> USE DEF dbVars, envVars, jobVars, TypeOK, CreatorTyped
  <1>0. prep[s] \in PrepTypes
    OBVIOUS
  <1>1. CASE prep'[s] = prep[s]
    BY <1>1 DEF Preparing
  <1>2. CASE \E x \in Sessions : PrepareStep(x)
    <2>1. PICK x \in Sessions : PrepareStep(x)
      BY <1>2
    <2>2. CASE x # s
      BY <1>1, <2>1, <2>2 DEF PrepareStep, PrepareRead, PrepareFlush, PrepareRouter,
         PrepareCommit, PrepareRollback, PrepareEnds
    <2>3. CASE x = s /\ PrepareFlush(s)
      BY <2>3 DEF PrepareFlush
    <2>4. CASE x = s /\ ~PrepareFlush(s)
      BY <1>0, <2>1, <2>4 DEF PrepareStep, PrepareRead, PrepareRouter, PrepareCommit,
         PrepareRollback, PrepareEnds, Preparing, Locked, PrepTypes
    <2> QED BY <2>2, <2>3, <2>4
  <1>3. CASE \E x \in Sessions : CreateSession(x)
    <2>1. PICK x \in Sessions : CreateSession(x)
      BY <1>3
    <2>2. CASE x # s
      BY <1>1, <2>1, <2>2 DEF CreateSession
    <2>3. CASE x = s
      <3>1. prep' = [prep EXCEPT ![s] = [prep[s] EXCEPT !.pc = "read"]]
        BY <2>1, <2>3 DEF CreateSession
      <3>2. prep'[s].pc = "read"
        BY <1>0, <3>1 DEF PrepTypes
      <3> QED BY <3>2 DEF Preparing, Locked
    <2> QED BY <2>2, <2>3
  <1>4. CASE \E x \in Sessions : CrashCreator(x)
    BY <1>1, <1>4 DEF CrashCreator, PrepareEnds, Preparing, Locked
  <1>5. CASE UNCHANGED prep
    BY <1>1, <1>5
  <1>6. CASE \E x \in Sessions : \/ Admit(x) \/ (CreatorStep(x) /\ ~CreateSession(x))
                                 \/ CustomerAnswers(x) \/ ClockPasses(x)
    BY <1>5, <1>6 DEF Admit, CreatorStep, Initiate, SaveInitiation, RefuseRead, RefuseWrite,
       CustomerAnswers, ClockPasses
  <1>7. CASE \E t \in Threads, x \in Sessions : Request(t, x)
    BY <1>5, <1>7 DEF Request, PollExpired, PollPending, CallbackDeclined, CallbackPaid, Retry
  <1>8. CASE \E q \in Procs : Verify(q) \/ Review(q) \/ Query(q) \/ WriteStatus(q)
                             \/ CompleteStep(q) \/ CrashProc(q)
    BY <1>5, <1>8 DEF Verify, Review, Query, WriteStatus, CompleteStep, CompleteAlready,
       CompleteLock, CompleteRouter, CompleteCommit, CompleteRollback, RecordFailure, CrashProc
  <1>9. CASE PhaseStep
    BY <1>5, <1>9 DEF PhaseStep, ExpireRead, ExpireWrite, ReconcileList, ReconcileNext,
       CleanupList, CleanupRead, CleanupRouter, CleanupFails, CleanupCommit, IterationEnds
  <1>10. CASE RetireRouter \/ OthersChange \/ UNCHANGED vars
    BY <1>5, <1>10 DEF RetireRouter, OthersChange, vars
  <1> QED BY <1>2, <1>3, <1>4, <1>6, <1>7, <1>8, <1>9, <1>10, NextCases DEF Crash

LEMMA LockStep ==
  ASSUME TypeOK, LockInv, [Next]_vars
  PROVE  LockInv'
  <1> USE DEF LockInv
  <1>0. \A p \in Procs : CompleteCommit(p) => /\ Completing(p, proc[p].s)
                                            /\ proc[p].s \in Sessions
                                            /\ \A s : ~Completing(p, s)'
    BY ProcSession DEF CompleteCommit, Completing, Locked, Finish, Goto, TypeOK, ProcTyped
  <1>1. \A p \in Procs : CompleteLock(p) =>
          /\ RowFree(proc[p].s) /\ row[proc[p].s].status # "provisioned"
          /\ UNCHANGED <<row, booked, prep>>
          /\ \A q \in Procs : q # p => proc'[q] = proc[q]
    <2> TAKE p \in Procs
    <2>1. \A c : Step(p, c) => \A q \in Procs : q # p => proc'[q] = proc[q]
      BY DEF Step, TypeOK, ProcTyped
    <2>2. \A r : proc' = [proc EXCEPT ![p] = r] =>
                   \A q \in Procs : q # p => proc'[q] = proc[q]
      BY DEF TypeOK, ProcTyped
    <2> QED BY <2>1, <2>2 DEF RowLock, StillToProvision, CompleteLock, dbVars
  <1>2. CompletionExclusive'
    <2>1. ASSUME NEW s \in Sessions, NEW p \in Procs, NEW q \in Procs, p # q,
                 Completing(p, s)', Completing(q, s)'
          PROVE  FALSE
      <3>1. CASE Completing(p, s) /\ Completing(q, s)
        BY <2>1, <3>1 DEF CompletionExclusive
      <3>2. CASE CompleteLock(p) /\ proc[p].s = s
        <4>1. Completing(q, s)
          BY <1>1, <2>1, <3>2 DEF Completing
        <4> QED BY <1>1, <3>2, <4>1 DEF RowFree
      <3>3. CASE CompleteLock(q) /\ proc[q].s = s
        <4>1. Completing(p, s)
          BY <1>1, <2>1, <3>3 DEF Completing
        <4> QED BY <1>1, <3>3, <4>1 DEF RowFree
      <3> QED BY <2>1, <3>1, <3>2, <3>3, CompletingBefore
    <2>2. ASSUME NEW s \in Sessions, NEW p \in Procs, Completing(p, s)', Preparing(s)'
          PROVE  FALSE
      <3>1. CASE Completing(p, s) /\ Preparing(s)
        BY <3>1 DEF CompletionExclusive
      <3>2. CASE PrepareFlush(s) /\ UNCHANGED proc
        BY <2>2, <3>2 DEF PrepareFlush, RowFree, Completing
      <3>3. CASE CompleteLock(p) /\ proc[p].s = s
        BY <1>1, <2>2, <3>3 DEF RowFree, Preparing
      <3> QED BY <2>2, <3>1, <3>2, <3>3, CompletingBefore, PreparingBefore
    <2> QED BY <2>1, <2>2 DEF CompletionExclusive, Procs
  <1>3. ASSUME NEW p \in Procs, NEW s \in Sessions, Completing(p, s)'
        PROVE  /\ row'[s].status # "provisioned"
               /\ s \in Hotspot /\ proc'[p].saw = "granted" => booked'[s]
    <2>1. CASE CompleteLock(p) /\ proc[p].s = s /\ (s \in Hotspot => proc'[p].saw = user[s])
      BY <1>1, <2>1 DEF AccessIsBooked
    <2>2. CASE Completing(p, s) /\ proc'[p].saw = proc[p].saw
      <3>1. \A q \in Procs : CompleteCommit(q) => proc[q].s # s
        BY <1>0, <1>3, <2>2 DEF CompletionExclusive
      <3> QED BY <2>2, <3>1, AccessChanges
    <2> QED BY <1>3, <2>1, <2>2, CompletingBefore
  <1>4. AccessIsBooked'
    <2>1. ASSUME NEW s \in Sessions
          PROVE  /\ (row'[s].status = "provisioned" \/ user'[s] = "granted") => booked'[s]
                 /\ booked'[s] => grants'[s] > 0
      <3>1. CASE \E p \in Procs : CompleteCommit(p) /\ proc[p].s = s
        <4>1. PICK p \in Procs : CompleteCommit(p) /\ proc[p].s = s
          BY <3>1
        <4>2. booked'[s]
          BY <4>1 DEF AddLedgerRow, CompleteCommit, TypeOK, AccessTyped
        <4>3. CASE Extends(p)
          BY <4>1, <4>3, BoundsAssumption DEF AddLedgerRow, CompleteCommit, TypeOK, AccessTyped
        <4>4. CASE ~Extends(p)
          <5>1. Completing(p, s) /\ s \in Hotspot /\ proc[p].saw = "granted"
            BY <1>0, <4>1, <4>4 DEF Extends
          <5>2. booked[s] /\ grants[s] > 0
            BY <5>1 DEF AccessIsBooked
          <5>3. grants' = grants
            BY <4>1, <4>4 DEF CompleteCommit
          <5> QED BY <4>2, <5>2, <5>3
        <4> QED BY <4>2, <4>3, <4>4
      <3>2. CASE ~\E p \in Procs : CompleteCommit(p) /\ proc[p].s = s
        BY <3>2, AccessChanges DEF AccessIsBooked
      <3> QED BY <3>1, <3>2
    <2> QED BY <2>1 DEF AccessIsBooked
  <1> QED BY <1>2, <1>3, <1>4 DEF Procs

LEMMA LockInvariant == Spec => []LockInv
  <1>1. Init => LockInv
    BY DEF Init, LockInv, CompletionExclusive, AccessIsBooked, Completing, Preparing, Locked
  <1> QED BY <1>1, LockStep, TypeCorrect, PTL DEF Spec

(* complete_payment never runs twice at once for a session, nor beside a   *)
(* preparation that rewrites its credentials.                              *)
THEOREM OneCompletionAtATime == Spec => []CompletionExclusive
  <1>1. LockInv => CompletionExclusive
    BY DEF LockInv
  <1> QED BY <1>1, LockInvariant, PTL

(* Every window a payment opens is in the ledger. *)
THEOREM AccessAlwaysBooked == Spec => []AccessIsBooked
  <1>1. LockInv => AccessIsBooked
    BY DEF LockInv
  <1> QED BY <1>1, LockInvariant, PTL

(* A session that is committed as provisioned is granted nothing more,     *)
(* however long the router kept the completing process waiting.            *)
THEOREM ProvisionedGetsNoMore == Spec => NoGrantWhenProvisioned
  <1>1. ASSUME TypeOK, LockInv, [Next]_vars
        PROVE  \A s \in Sessions :
                 grants'[s] # grants[s] => row[s].status # "provisioned"
    <2>1. \A p \in Procs, s \in Sessions :
            CompleteCommit(p) /\ proc[p].s = s => row[s].status # "provisioned"
      BY <1>1 DEF LockInv, CompleteCommit, Completing, Locked
    <2> QED BY <1>1, <2>1, AccessChanges
  <1> QED BY <1>1, TypeCorrect, LockInvariant, PTL DEF Spec, NoGrantWhenProvisioned

-----------------------------------------------------------------------------
(* An open HotSpot window: the process that completes a session has seen   *)
(* that its window is open, because nobody else can have opened it since.  *)

WindowInv ==
    \A p \in Procs, s \in Hotspot :
      Completing(p, s) /\ user[s] = "granted" => proc[p].saw = "granted"

LEMMA WindowStep ==
  ASSUME TypeOK, LockInv, WindowInv, [Next]_vars
  PROVE  WindowInv'
  <1> SUFFICES ASSUME NEW p \in Procs, NEW s \in Hotspot, Completing(p, s)', user'[s] = "granted"
               PROVE  proc'[p].saw = "granted"
    BY DEF WindowInv, Procs
  <1>1. s \in Sessions
    BY SubsetsAssumption
  <1>2. \A q \in Procs : CompleteCommit(q) => /\ Completing(q, proc[q].s)
                                            /\ \A x : ~Completing(q, x)'
    BY DEF CompleteCommit, Completing, Locked, Finish, Goto, TypeOK, ProcTyped
  <1>3. CASE Completing(p, s) /\ proc'[p].saw = proc[p].saw
    <2>1. \A q \in Procs : CompleteCommit(q) => proc[q].s # s
      BY <1>1, <1>2, <1>3 DEF LockInv, CompletionExclusive
    <2>2. user[s] = "granted"
      BY <1>1, <2>1, AccessChanges
    <2> QED BY <1>3, <2>2 DEF WindowInv
  <1>4. CASE CompleteLock(p) /\ proc[p].s = s /\ proc'[p].saw = user[s]
    BY <1>4 DEF CompleteLock, dbVars
  <1> QED BY <1>1, <1>3, <1>4, CompletingBefore

(* Completions of a session whose HotSpot window is open leave it as it    *)
(* is, whatever repeats them.                                              *)
THEOREM HotspotWindowStaysFixed == Spec => HotspotWindowFixed
  <1>1. Init => WindowInv
    BY DEF Init, WindowInv, Completing, Locked
  <1>2. Spec => []WindowInv
    BY <1>1, WindowStep, TypeCorrect, LockInvariant, PTL DEF Spec
  <1>3. ASSUME TypeOK, LockInv, WindowInv, [Next]_vars, NEW s \in Hotspot, user[s] = "granted"
        PROVE  grants'[s] = grants[s]
    <2>1. s \in Sessions
      BY SubsetsAssumption
    <2>2. ASSUME NEW p \in Procs, CompleteCommit(p), proc[p].s = s
          PROVE  grants'[s] = grants[s]
      <3>1. proc[p].saw = "granted"
        BY <1>3, <2>2 DEF CompleteCommit, Completing, Locked, WindowInv
      <3> QED BY <1>3, <2>2, <3>1 DEF CompleteCommit, Extends
    <2> QED BY <1>3, <2>1, <2>2, AccessChanges
  <1>4. TypeOK /\ LockInv /\ WindowInv /\ [Next]_vars =>
          [\A s \in Hotspot : user[s] = "granted" => grants'[s] = grants[s]]_vars
    BY <1>3
  <1> QED BY <1>2, <1>4, TypeCorrect, LockInvariant, PTL DEF Spec, HotspotWindowFixed

-----------------------------------------------------------------------------
(* The promise of PaidAccess.                                              *)

(* Money moves when the provider is asked, and when the customer answers.  *)
LEMMA MoneyKept ==
  ASSUME [Next]_vars, ~\E s \in Sessions : Initiate(s) \/ CustomerAnswers(s)
  PROVE  money' = money
  <1> USE DEF envVars
  <1>1. CASE \E s \in Sessions : Admit(s) \/ CreatorStep(s) \/ ClockPasses(s) \/ PrepareStep(s)
    BY <1>1 DEF Admit, CreatorStep, CreateSession, SaveInitiation, RefuseRead, RefuseWrite,
       ClockPasses, PrepareStep, PrepareRead, PrepareFlush, PrepareRouter, PrepareCommit,
       PrepareRollback
  <1>2. CASE \E t \in Threads, s \in Sessions : Request(t, s)
    BY <1>2 DEF Request, PollExpired, PollPending, CallbackDeclined, CallbackPaid, Retry
  <1>3. CASE \E p \in Procs : Verify(p) \/ Review(p) \/ Query(p) \/ WriteStatus(p) \/ CompleteStep(p)
    BY <1>3 DEF Verify, Review, Query, WriteStatus, CompleteStep, CompleteAlready, CompleteLock,
       CompleteRouter, CompleteCommit, CompleteRollback, RecordFailure
  <1>4. CASE PhaseStep
    BY <1>4 DEF PhaseStep, ExpireRead, ExpireWrite, ReconcileList, ReconcileNext, CleanupList,
       CleanupRead, CleanupRouter, CleanupFails, CleanupCommit, IterationEnds
  <1>5. CASE RetireRouter \/ OthersChange \/ Crash \/ UNCHANGED vars
    BY <1>5 DEF RetireRouter, OthersChange, Crash, CrashCreator, CrashProc, vars
  <1> QED BY <1>1, <1>2, <1>3, <1>4, <1>5, NextCases

(* The commit of a completion is the grant, or shows again what was        *)
(* granted.                                                                *)
LEMMA CommitGrants ==
  ASSUME TypeOK, MoneyInv, LockInv, NEW p \in Procs, CompleteCommit(p)
  PROVE  Promise!Grant(proc[p].s) \/ Promise!ShowAgain(proc[p].s)
  <1> DEFINE s == proc[p].s
  <1>1. s \in Sessions /\ Completing(p, s) /\ money[s] = "paid"
    BY ProcSession DEF TypeOK, MoneyInv, ToldPaid, CompleteCommit, Completing, Locked
  <1>2. row[s].status # "provisioned"
    BY <1>1 DEF LockInv
  <1>3. row'[s].status = "provisioned" /\ \A x \in Sessions : x # s => row'[x] = row[x]
    BY <1>1 DEF CompleteCommit, TypeOK, RowTyped, RowTypes
  <1>4. Shown' = [Shown EXCEPT ![s] = TRUE] /\ ~Shown[s]
    BY <1>1, <1>2, <1>3 DEF Shown
  <1>5. booked' = [booked EXCEPT ![s] = TRUE] /\ money' = money
    BY DEF CompleteCommit, AddLedgerRow, envVars
  <1>6. CASE Extends(p)
    <2>1. grants' = IF grants[s] < GrantCap THEN [grants EXCEPT ![s] = @ + 1] ELSE grants
      BY <1>6 DEF CompleteCommit
    <2> QED BY <1>1, <1>4, <1>5, <2>1 DEF Promise!Grant
  <1>7. CASE ~Extends(p)
    <2>1. booked[s]
      BY <1>1, <1>7 DEF Extends, LockInv, AccessIsBooked, TypeOK, ProcTyped, ProcTypes
    <2>2. booked' = booked /\ grants' = grants
      BY <1>1, <1>5, <1>7, <2>1 DEF CompleteCommit, TypeOK, AccessTyped
    <2> QED BY <1>1, <1>4, <1>5, <2>1, <2>2 DEF Promise!ShowAgain
  <1> QED BY <1>6, <1>7

LEMMA PromiseStep ==
  ASSUME TypeOK, TypeOK', MoneyInv, LockInv, [Next]_vars
  PROVE  [Promise!Next]_(Promise!accessVars)
  <1>1. CASE \E p \in Procs : CompleteCommit(p)
    <2>1. PICK p \in Procs : CompleteCommit(p)
      BY <1>1
    <2>2. proc[p].s \in Sessions
      BY ProcSession DEF TypeOK
    <2> QED BY <2>1, <2>2, CommitGrants DEF Promise!Next
  <1>2. CASE \E s \in Sessions : Initiate(s)
    <2>1. PICK s \in Sessions : Initiate(s)
      BY <1>2
    <2>2. money[s] = "unasked" /\ UNCHANGED <<row, booked, grants>>
      BY <2>1 DEF Initiate, MoneyInv, dbVars
    <2>3. Shown' = Shown
      BY <2>2 DEF Shown
    <2>4. CASE money' = [money EXCEPT ![s] = "asked"]
      BY <2>2, <2>3, <2>4 DEF Promise!Next, Promise!Ask
    <2>5. CASE money' = money
      BY <2>2, <2>3, <2>5 DEF Promise!accessVars
    <2> QED BY <2>1, <2>4, <2>5 DEF Initiate
  <1>3. CASE \E s \in Sessions : CustomerAnswers(s)
    <2>1. PICK s \in Sessions : CustomerAnswers(s)
      BY <1>3
    <2>2. Shown' = Shown /\ UNCHANGED <<booked, grants>>
      BY <2>1 DEF CustomerAnswers, Shown, dbVars
    <2>3. Promise!Answer(s)
      BY <2>1, <2>2 DEF CustomerAnswers, Promise!Answer
    <2> QED BY <2>3 DEF Promise!Next
  <1>4. CASE /\ ~\E p \in Procs : CompleteCommit(p)
             /\ ~\E s \in Sessions : Initiate(s) \/ CustomerAnswers(s)
    <2>1. money' = money
      BY <1>4, MoneyKept
    <2>2. \A s \in Sessions : /\ booked'[s] = booked[s] /\ grants'[s] = grants[s]
                              /\ row'[s].status = "provisioned" => row[s].status = "provisioned"
      BY <1>4, AccessChanges
    <2>3. booked' = booked /\ grants' = grants
      BY <2>2 DEF TypeOK, AccessTyped
    <2> DEFINE hidden == {s \in Sessions : row'[s].status # "provisioned"}
    <2>4. \A s \in Sessions : (row'[s].status = "provisioned")
                              <=> (row[s].status = "provisioned" /\ s \notin hidden)
      BY <2>2
    <2>5. Shown' = [s \in Sessions |-> Shown[s] /\ s \notin hidden]
      BY <2>4 DEF Shown
    <2>6. Promise!Hide(hidden)
      BY <2>1, <2>3, <2>5 DEF Promise!Hide
    <2>7. hidden \in SUBSET Sessions
      OBVIOUS
    <2> HIDE DEF hidden
    <2> QED BY <2>6, <2>7 DEF Promise!Next
  <1>5. CASE \E s \in Sessions : Initiate(s) \/ CustomerAnswers(s)
    BY <1>2, <1>3, <1>5
  <1> QED BY <1>1, <1>4, <1>5

(* Payment sessions implement PaidAccess: seen from outside, access is     *)
(* granted in one step, for money, with its ledger row, to a session that  *)
(* is not shown as provisioned.                                            *)
THEOREM SessionsImplementPaidAccess == Spec => ImplementsPaidAccess
  <1>1. Init => Promise!Init
    <2> SUFFICES ASSUME Init PROVE Promise!Init
      OBVIOUS
    <2>1. \A s \in Sessions : row[s].status # "provisioned"
      BY DEF Init
    <2>2. Shown = [s \in Sessions |-> FALSE]
      BY <2>1 DEF Shown
    <2> QED BY <2>2 DEF Init, Promise!Init
  <1> QED BY <1>1, PromiseStep, MoneyInvariant, TypeCorrect, LockInvariant, PTL
          DEF Spec, ImplementsPaidAccess, Promise!Spec
=============================================================================
