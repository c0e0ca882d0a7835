------------------------ MODULE OnboardingScriptProofs ------------------------
(***************************************************************************)
(* What holds of OnboardingScript for any records, directories and number  *)
(* of faults.                                                              *)
(***************************************************************************)
EXTENDS OnboardingScript, TLAPS

(* Where an import stands, in terms of what it has done to the device.     *)
ImportInv ==
    /\ run.at # "idle" => run.u \in Records
    /\ run.at \notin {"idle", "backup"} => backup[run.u] = "before"
    /\ run.at \in {"print", "fill", "write"} => run.dir \in Dirs
    /\ run.at \in {"print", "fill"} /\ run.dir \notin Legacy => run.current = "operator"
    /\ run.at \in {"fill", "write"} => saved[run.dir] # "none"

(* Outside the legacy directories a refresh writes pages with a backup     *)
(* file only.                                                              *)
RefreshInv == \A d \in refresh \ Legacy : saved[d] # "none"

(* Without a backup file the page is in its place; a backup file that is   *)
(* not filled is being filled, or its import was cut.                      *)
PageInv ==
    \A d \in Dirs \ Legacy :
      /\ saved[d] # "portal"
      /\ saved[d] = "none" => login[d] = "operator"
      /\ saved[d] = "listing" => Filling(d) \/ d \in cut

Inv ==
    /\ TypeOK /\ ImportInv /\ RefreshInv
    /\ PageInv /\ BackupPredatesChanges

LEMMA InvInit == Init => Inv
  <1> SUFFICES ASSUME Init PROVE Inv
    OBVIOUS
  <1>1. TypeOK
    BY FaultAssumption DEF Init, TypeOK, Runs, Idle, Stages
  <1>2. ImportInv /\ RefreshInv /\ PageInv
    BY DEF Init, ImportInv, RefreshInv, PageInv, Idle
  <1>3. BackupPredatesChanges
    BY RecordAssumption, OperatorAssumption DEF Init, BackupPredatesChanges, Touched
  <1> QED BY <1>1, <1>2, <1>3 DEF Inv

(* What is not the device's does not disturb what is said of it, unless    *)
(* the import leaves a backup file unfilled and nobody notes it.           *)
LEMMA DeviceKept ==
  ASSUME Inv, UNCHANGED device,
         \A d \in Dirs : Filling(d) \/ d \in cut => Filling(d)' \/ d \in cut'
  PROVE  PageInv' /\ BackupPredatesChanges'
  BY DEF Inv, PageInv, BackupPredatesChanges, Touched, device

LEMMA IdleTyped == Idle \in Runs /\ Idle.at = "idle"
  BY DEF Idle, Runs, Stages

LEMMA RunMoves ==
  ASSUME run \in Runs, NEW st \in Stages, Go(st)
  PROVE  /\ run' \in Runs /\ run'.at = st /\ run'.u = run.u
         /\ run'.dir = run.dir /\ run'.current = run.current
  BY DEF Runs, Go

(* One command of the script. *)
LEMMA BackupStep ==
  ASSUME Inv, Backup, UNCHANGED <<pending, file, refresh, cut, faults>>
  PROVE  Inv'
  <1>1. /\ run \in Runs /\ run.at = "backup" /\ run.u \in Records
        /\ backup \in [Records -> {"none", "before", "later"}]
    BY DEF Inv, TypeOK, ImportInv, Backup
  <1>2. /\ run' \in Runs /\ run'.at = "tunnel" /\ run'.u = run.u
        /\ run'.dir = run.dir /\ run'.current = run.current
    BY <1>1, RunMoves DEF Backup, Stages
  <1>3. /\ backup' \in [Records -> {"none", "before", "later"}]
        /\ backup'[run.u] = "before"
        /\ \A u \in Records : backup'[u] # "later"
        /\ \A u \in Records : backup[u] = "before" => backup'[u] = "before"
    BY <1>1 DEF Inv, Backup, BackupMissing, BackupPredatesChanges
  <1>4. TypeOK'
    BY <1>2, <1>3 DEF Inv, Backup, TypeOK
  <1>5. ImportInv' /\ RefreshInv' /\ PageInv'
    BY <1>1, <1>2, <1>3 DEF Inv, Backup, ImportInv, RefreshInv, PageInv, Filling
  <1>6. BackupPredatesChanges'
    BY <1>3 DEF Inv, Backup, BackupPredatesChanges, Touched
  <1> QED BY <1>4, <1>5, <1>6 DEF Inv

LEMMA StopStep ==
  ASSUME Inv, Stops, UNCHANGED refresh, pending' \subseteq Records,
         file' \subseteq Records, faults' \in 0..MaxFaults,
         NoteCut \/ (UNCHANGED cut /\ run.at # "fill")
  PROVE  Inv'
  <1>1. TypeOK'
    BY IdleTyped DEF Inv, Stops, TypeOK, NoteCut, device
  <1>2. ImportInv' /\ RefreshInv'
    BY IdleTyped DEF Inv, Stops, ImportInv, RefreshInv, device
  <1>3. PageInv' /\ BackupPredatesChanges'
    BY DeviceKept DEF Stops, NoteCut, Filling
  <1> QED BY <1>1, <1>2, <1>3 DEF Inv

LEMMA TunnelStep ==
  ASSUME Inv, Tunnel, UNCHANGED <<pending, file, refresh, cut, faults>>
  PROVE  Inv'
  <1>1. CASE ~MayTakeTunnel(run.u)
    BY <1>1, StopStep DEF Inv, TypeOK, Tunnel
  <1>2. CASE MayTakeTunnel(run.u)
    <2>1. /\ run \in Runs /\ run.u \in Records /\ backup[run.u] = "before"
          /\ tunnel' = run.u /\ UNCHANGED <<backup, user, login, saved>> /\ Go("user")
      BY <1>2 DEF Inv, TypeOK, ImportInv, Tunnel
    <2>2. /\ run' \in Runs /\ run'.at = "user" /\ run'.u = run.u
          /\ run'.dir = run.dir /\ run'.current = run.current
      BY <2>1, RunMoves DEF Stages
    <2>3. TypeOK'
      BY <2>1, <2>2 DEF Inv, TypeOK
    <2>4. ImportInv' /\ RefreshInv' /\ PageInv'
      BY <2>1, <2>2 DEF Inv, Tunnel, ImportInv, RefreshInv, PageInv, Filling
    <2>5. BackupPredatesChanges'
      BY <2>1 DEF Inv, BackupPredatesChanges, Touched
    <2> QED BY <2>3, <2>4, <2>5 DEF Inv
  <1> QED BY <1>1, <1>2

LEMMA UserStep ==
  ASSUME Inv, User, UNCHANGED <<pending, file, refresh, cut, faults>>
  PROVE  Inv'
  <1>1. CASE user[run.u] = "operator"
    BY <1>1, StopStep DEF Inv, TypeOK, User
  <1>2. CASE user[run.u] # "operator"
    <2> DEFINE ds == IF run.u \in Portals THEN Dirs ELSE {}
    <2>1. /\ run \in Runs /\ run.u \in Records /\ backup[run.u] = "before"
          /\ user' = [user EXCEPT ![run.u] = "managed"]
          /\ UNCHANGED <<backup, tunnel, login, saved>>
          /\ run' = [run EXCEPT !.at = "pages", !.dirs = ds]
      BY <1>2 DEF Inv, TypeOK, ImportInv, User, Marked
    <2>2. run' \in Runs /\ run'.at = "pages" /\ run'.u = run.u
      <3>1. ds \in SUBSET Dirs
        OBVIOUS
      <3> HIDE DEF ds
      <3> QED BY <2>1, <3>1 DEF Runs, Stages
    <2>3. TypeOK'
      BY <2>1, <2>2 DEF Inv, TypeOK
    <2>4. ImportInv' /\ RefreshInv' /\ PageInv'
      BY <2>1, <2>2 DEF Inv, User, ImportInv, RefreshInv, PageInv, Filling
    <2>5. BackupPredatesChanges'
      BY <2>1 DEF Inv, TypeOK, BackupPredatesChanges, Touched
    <2> QED BY <2>3, <2>4, <2>5 DEF Inv
  <1> QED BY <1>1, <1>2

(* Without a backup file the page that is about to be saved is the         *)
(* operator's: this is where PageInv is used.                              *)
LEMMA PageStep ==
  ASSUME Inv, NEW d \in Dirs, Page(d), UNCHANGED <<pending, file, refresh, cut, faults>>
  PROVE  Inv'
  <1> DEFINE st == IF NoBackup(d) THEN "print" ELSE "write"
  <1>1. /\ run \in Runs /\ run.u \in Records /\ backup[run.u] = "before"
        /\ login[d] \in {"operator", "portal"}
        /\ run' = [run EXCEPT !.at = st, !.dirs = @ \ {d}, !.dir = d, !.current = login[d]]
        /\ UNCHANGED device
    BY DEF Inv, TypeOK, ImportInv, Page
  <1>2. st \in Stages /\ st \in {"print", "write"}
    BY DEF Stages
  <1>3. /\ st = "print" /\ d \notin Legacy => login[d] = "operator"
        /\ st = "write" => saved[d] # "none"
    BY DEF Inv, NoBackup, PageInv
  <1> HIDE DEF st
  <1>4. /\ run' \in Runs /\ run'.at = st /\ run'.u = run.u /\ run'.dir = d
        /\ run'.current = login[d]
    BY <1>1, <1>2 DEF Runs
  <1>5. TypeOK'
    BY <1>1, <1>2, <1>4 DEF Inv, TypeOK, device
  <1>6. ImportInv' /\ RefreshInv'
    BY <1>1, <1>2, <1>3, <1>4 DEF Inv, ImportInv, RefreshInv, device
  <1>7. PageInv' /\ BackupPredatesChanges'
    BY <1>1, DeviceKept DEF Page, Filling
  <1> QED BY <1>5, <1>6, <1>7 DEF Inv

(* A page is saved, once it is known to be the operator's. *)
LEMMA SaveStep ==
  ASSUME Inv, PrintFile \/ FillFile, UNCHANGED <<pending, file, refresh, cut, faults>>
  PROVE  Inv'
  <1> DEFINE st == IF run.at = "print" THEN "fill" ELSE "write"
             text == IF run.at = "print" THEN "listing" ELSE run.current
  <1>1. /\ run \in Runs /\ run.u \in Records /\ backup[run.u] = "before"
        /\ run.dir \in Dirs /\ run.at \in {"print", "fill"}
        /\ run.current \in {"operator", "portal"}
        /\ run.dir \notin Legacy => run.current = "operator"
        /\ UNCHANGED <<backup, tunnel, user, login>>
        /\ Go(st) /\ saved' = [saved EXCEPT ![run.dir] = text]
    BY DEF Inv, TypeOK, ImportInv, PrintFile, FillFile, Runs
  <1>2. /\ st \in Stages /\ st \in {"fill", "write"}
        /\ text \in {"listing", "operator", "portal"}
        /\ run.dir \notin Legacy => text # "portal" /\ (text = "listing" <=> st = "fill")
    BY <1>1 DEF Stages
  <1> HIDE DEF st, text
  <1>3. /\ run' \in Runs /\ run'.at = st /\ run'.u = run.u
        /\ run'.dir = run.dir /\ run'.current = run.current
    BY <1>1, <1>2, RunMoves
  <1>4. /\ saved' \in [Dirs -> {"none", "listing", "operator", "portal"}]
        /\ saved'[run.dir] = text
        /\ \A d \in Dirs : d # run.dir => saved'[d] = saved[d]
    BY <1>1, <1>2 DEF Inv, TypeOK
  <1>5. TypeOK'
    BY <1>1, <1>2, <1>3, <1>4 DEF Inv, TypeOK
  <1>6. ImportInv'
    BY <1>1, <1>2, <1>3, <1>4 DEF Inv, ImportInv
  <1>7. RefreshInv' /\ PageInv'
    BY <1>1, <1>2, <1>3, <1>4 DEF Inv, TypeOK, RefreshInv, PageInv, Filling
  <1>8. BackupPredatesChanges'
    BY <1>1 DEF Inv, BackupPredatesChanges, Touched
  <1> QED BY <1>5, <1>6, <1>7, <1>8 DEF Inv

LEMMA NextPageStep ==
  ASSUME Inv, run.at \in {"print", "fill", "write"}, NextPage,
         UNCHANGED <<pending, file, backup, tunnel, user, saved, refresh>>,
         \/ login' = [login EXCEPT ![run.dir] = "portal"] /\ run.at = "write"
         \/ login' = login,
         faults' \in 0..MaxFaults,
         NoteCut \/ (UNCHANGED cut /\ run.at # "fill")
  PROVE  Inv'
  <1>1. run \in Runs /\ run.u \in Records /\ backup[run.u] = "before" /\ run.dir \in Dirs
    BY DEF Inv, TypeOK, ImportInv
  <1>2. run' \in Runs /\ run'.at = "pages" /\ run'.u = run.u
    BY <1>1 DEF NextPage, Runs, Stages
  <1>3. /\ login' \in [Dirs -> {"operator", "portal"}]
        /\ \A d \in Dirs : login'[d] = login[d] \/ saved[d] # "none"
    BY <1>1 DEF Inv, TypeOK, ImportInv
  <1>4. TypeOK'
    BY <1>2, <1>3 DEF Inv, TypeOK, NoteCut
  <1>5. ImportInv' /\ RefreshInv'
    BY <1>1, <1>2 DEF Inv, ImportInv, RefreshInv
  <1>6. PageInv' /\ BackupPredatesChanges'
    BY <1>3 DEF Inv, PageInv, BackupPredatesChanges, Touched, NoteCut, Filling
  <1> QED BY <1>4, <1>5, <1>6 DEF Inv

LEMMA ImportStep ==
  ASSUME Inv, Step
  PROVE  Inv'
  <1>1. UNCHANGED <<pending, file, refresh, cut, faults>>
    BY DEF Step
  <1>2. CASE Backup
    BY <1>1, <1>2, BackupStep
  <1>3. CASE Tunnel
    BY <1>1, <1>3, TunnelStep
  <1>4. CASE User
    BY <1>1, <1>4, UserStep
  <1>5. CASE PrintFile \/ FillFile
    BY <1>1, <1>5, SaveStep
  <1>6. CASE Write
    BY <1>1, <1>6, NextPageStep DEF Write, Inv, TypeOK
  <1>7. CASE PagesEnd
    <2>1. run \in Runs /\ run.u \in Records /\ backup[run.u] = "before" /\ Go("claim")
          /\ UNCHANGED device
      BY <1>7 DEF PagesEnd, Inv, TypeOK, ImportInv
    <2>2. run' \in Runs /\ run'.at = "claim" /\ run'.u = run.u
      BY <2>1, RunMoves DEF Stages
    <2>3. TypeOK' /\ ImportInv' /\ RefreshInv'
      BY <1>1, <2>1, <2>2 DEF Inv, TypeOK, ImportInv, RefreshInv, device
    <2>4. PageInv' /\ BackupPredatesChanges'
      BY <1>1, <1>7, <2>1, DeviceKept DEF PagesEnd, Filling
    <2> QED BY <2>3, <2>4 DEF Inv
  <1>8. CASE \E d \in Dirs : Page(d)
    BY <1>1, <1>8, PageStep
  <1> QED BY <1>2, <1>3, <1>4, <1>5, <1>6, <1>7, <1>8 DEF Step

(* An import begins where nothing is known of the device yet. *)
LEMMA BeginStep ==
  ASSUME Inv, run.at = "idle",
         NEW u \in Records, run' = [Idle EXCEPT !.at = "backup", !.u = u],
         UNCHANGED <<pending, device, refresh, cut, faults>>, file' \subseteq Records
  PROVE  Inv'
  <1>1. run' \in Runs /\ run'.at = "backup" /\ run'.u = u
    BY DEF Idle, Runs, Stages
  <1>2. TypeOK' /\ ImportInv' /\ RefreshInv'
    BY <1>1 DEF Inv, TypeOK, ImportInv, RefreshInv, device
  <1>3. PageInv' /\ BackupPredatesChanges'
    BY DeviceKept DEF Filling
  <1> QED BY <1>2, <1>3 DEF Inv

(* Steps that leave the import and the device alone. *)
LEMMA AsideStep ==
  ASSUME Inv, UNCHANGED <<device, run, cut>>, pending' \subseteq Records,
         file' \subseteq Records, faults' \in 0..MaxFaults,
         refresh' \subseteq Dirs, \A d \in refresh' \ Legacy : saved[d] # "none"
  PROVE  Inv'
  <1>1. TypeOK' /\ ImportInv' /\ RefreshInv'
    BY DEF Inv, TypeOK, ImportInv, RefreshInv, device
  <1>2. PageInv' /\ BackupPredatesChanges'
    BY DeviceKept DEF Filling
  <1> QED BY <1>1, <1>2 DEF Inv

(* A page changes hands beside the import. *)
LEMMA PageChanges ==
  ASSUME Inv, NEW d \in Dirs, NEW p \in {"operator", "portal"},
         p = "portal" /\ d \notin Legacy => saved[d] # "none",
         login' = [login EXCEPT ![d] = p],
         UNCHANGED <<pending, file, backup, tunnel, user, saved, run, cut, faults>>,
         refresh' \subseteq refresh
  PROVE  Inv'
  <1>1. TypeOK' /\ ImportInv' /\ RefreshInv'
    BY DEF Inv, TypeOK, ImportInv, RefreshInv
  <1>2. PageInv'
    BY DEF Inv, TypeOK, PageInv, Filling
  <1>3. BackupPredatesChanges'
    BY DEF Inv, BackupPredatesChanges, Touched
  <1> QED BY <1>1, <1>2, <1>3 DEF Inv

LEMMA FaultCounted == ASSUME Inv, Fault PROVE faults' \in 0..MaxFaults
  BY FaultAssumption DEF Inv, TypeOK, Fault

LEMMA InvStep == Inv /\ [Next]_vars => Inv'
  <1> SUFFICES ASSUME Inv, [Next]_vars PROVE Inv'
    OBVIOUS
  <1>0. /\ pending \subseteq Records /\ file \subseteq Records /\ faults \in 0..MaxFaults
        /\ refresh \subseteq Dirs /\ \A d \in refresh \ Legacy : saved[d] # "none"
    BY DEF Inv, TypeOK, RefreshInv
  <1>1. CASE \E u \in Records : Install(u)
    <2>1. PICK u \in Records : Install(u)
      BY <1>1
    <2>2. CASE Downloadable(u) /\ file' = file \cup {u} /\ UNCHANGED faults
               /\ run' = [Idle EXCEPT !.at = "backup", !.u = u]
      BY <1>0, <2>1, <2>2, BeginStep DEF Install
    <2>3. CASE file' = file \ {u} /\ UNCHANGED <<run, faults>>
      BY <1>0, <2>1, <2>3, AsideStep DEF Install
    <2>4. CASE Fault /\ file' = file \ {u} /\ UNCHANGED run
      BY <1>0, <2>1, <2>4, FaultCounted, AsideStep DEF Install
    <2> QED BY <2>1, <2>2, <2>3, <2>4 DEF Install
  <1>2. CASE \E u \in Records : Reimport(u)
    BY <1>0, <1>2, BeginStep DEF Reimport
  <1>3. CASE \E u \in Records : Expire(u)
    BY <1>0, <1>3, AsideStep DEF Expire
  <1>4. CASE Step
    BY <1>4, ImportStep
  <1>5. CASE PageFails
    BY <1>5, FaultCounted, NextPageStep DEF PageFails, device
  <1>6. CASE ImportFails
    BY <1>0, <1>6, FaultCounted, StopStep DEF ImportFails
  <1>7. CASE Claim
    BY <1>0, <1>7, StopStep DEF Claim, Stops
  <1>8. CASE RefreshRead
    <2>1. refresh' \subseteq Dirs /\ \A d \in refresh' \ Legacy : saved[d] # "none"
      BY <1>8 DEF RefreshRead, Managed, Inv, PageInv
    <2> QED BY <1>0, <1>8, <2>1, AsideStep DEF RefreshRead
  <1>9. CASE RefreshFails
    BY <1>0, <1>9, FaultCounted, AsideStep DEF RefreshFails
  <1>10. CASE \E d \in Dirs : RefreshWrite(d)
    BY <1>0, <1>10, PageChanges DEF RefreshWrite
  <1>11. CASE \E d \in Dirs : Restore(d)
    BY <1>11, PageChanges DEF Restore
  <1>12. CASE UNCHANGED vars
    BY <1>0, <1>12, AsideStep DEF vars
  <1> QED BY <1>1, <1>2, <1>3, <1>4, <1>5, <1>6, <1>7, <1>8, <1>9, <1>10, <1>11, <1>12 DEF Next

LEMMA Invariant == Spec => []Inv
  BY InvInit, InvStep, PTL DEF Spec

(* The device and the requests keep their types through every import.      *)
THEOREM ScriptTypeCorrect == Spec => []TypeOK
  <1>1. Inv => TypeOK
    BY DEF Inv
  <1> QED BY <1>1, Invariant, PTL

(* However often the script is imported or the portal is refreshed, the    *)
(* operator's page is in place or in the backup file, outside the          *)
(* directories of older onboardings and those where an import was cut      *)
(* between making the file and filling it.                                 *)
THEOREM OperatorsPagesKept == Spec => []OperatorsPageKept
  <1>1. Inv => OperatorsPageKept
    BY DEF Inv, TypeOK, PageInv, OperatorsPageKept
  <1> QED BY <1>1, Invariant, PTL

(* A record's configuration backup is older than any change its script     *)
(* made to the device.                                                     *)
THEOREM BackupsPredateChanges == Spec => []BackupPredatesChanges
  <1>1. Inv => BackupPredatesChanges
    BY DEF Inv
  <1> QED BY <1>1, Invariant, PTL

(* The operator's own interface and users are never taken over, and a      *)
(* record's tunnel only by a record that is meant to replace it.           *)
THEOREM ForeignThingsUntouched == Spec => ForeignUntouched
  <1> DEFINE Kept ==
        /\ tunnel # tunnel' => \/ tunnel = None
                               \/ tunnel # "operator" /\ tunnel' \in Replacing
        /\ \A u \in Records : user[u] = "operator" => user'[u] = "operator"
  <1>1. Inv /\ [Next]_vars => [Kept]_vars
    <2> SUFFICES ASSUME Inv, Next PROVE Kept
      BY DEF vars, device
    <2>1. CASE Tunnel
      BY <2>1 DEF Tunnel, MayTakeTunnel, Stops, device
    <2>2. CASE User
      BY <2>2 DEF User, Marked, Stops, device, Inv, TypeOK
    <2>3. CASE UNCHANGED <<tunnel, user>>
      BY <2>3
    <2>4. Tunnel \/ User \/ UNCHANGED <<tunnel, user>>
      BY DEF Next, Install, Reimport, Expire, Step, Backup, PrintFile, FillFile, Write, PagesEnd,
             Page, PageFails, ImportFails, Claim, RefreshRead, RefreshFails,
             RefreshWrite, Restore, Stops, device
    <2> QED BY <2>1, <2>2, <2>3, <2>4
  <1>2. Spec => [][Kept]_vars
    BY <1>1, Invariant, PTL DEF Spec
  <1> QED BY <1>2 DEF ForeignUntouched

=============================================================================
