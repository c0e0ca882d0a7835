-------------------------- MODULE OnboardingScript --------------------------
(***************************************************************************)
(* What the RouterOS script of _build_script does on a device, and what    *)
(* refresh_captive_portal changes there later.  The operator pastes the    *)
(* install command of a router record into the device's terminal; it       *)
(* fetches the script while the record is pending and imports it.  An      *)
(* import may stop at any command, with what it has done so far in place,  *)
(* and is tried again.  Several records may be meant for one device.       *)
(***************************************************************************)
EXTENDS Naturals

CONSTANTS
    Records,    \* router records whose script may run on this device
    Replacing,  \* those created with replace_managed_tunnel
    Portals,    \* those whose script carries a portal page
    Dirs,       \* directories of the enabled HotSpot servers
    Legacy,     \* those that an older onboarding made, named after its record
    None,
    MaxFaults   \* bound: commands and downloads that fail

ASSUME RecordAssumption ==
    Replacing \subseteq Records /\ Portals \subseteq Records /\ None \notin Records
ASSUME DirsAssumption == Legacy \subseteq Dirs
ASSUME OperatorAssumption == {"operator", "older"} \cap Records = {}
ASSUME FaultAssumption == MaxFaults \in Nat

VARIABLES
    pending,  \* records that can be downloaded and claimed
    file,     \* records whose script is kept on the device
    backup,   \* the configuration backup of each record: when it was made
    tunnel,   \* whose the interface uzanet-control is (older: another record's)
    user,     \* the RouterOS user of each record
    login,    \* whose login.html each directory has; in a legacy directory,
              \*   "operator" is any page without the portal's mark
    saved,    \* what login-pre-uzanet.txt holds
    run,      \* the import at work
    refresh,  \* the directories a portal refresh is about to write
    cut,      \* history: where an import was cut between making and filling
              \*   login-pre-uzanet.txt
    faults

device == <<backup, tunnel, user, login, saved>>
vars == <<pending, file, device, run, refresh, cut, faults>>

Stages == {"idle", "backup", "tunnel", "user", "pages", "print", "fill", "write", "claim"}
Runs == [at : Stages, u : Records \cup {None}, dirs : SUBSET Dirs,
         dir : Dirs \cup {None}, current : {"operator", "portal"}]
Idle == [at |-> "idle", u |-> None, dirs |-> {}, dir |-> None,
         current |-> "operator"]

Init ==
    /\ pending = Records /\ file = {}
    /\ backup = [u \in Records |-> "none"]
    /\ tunnel \in {None, "operator", "older"}
    /\ user \in [Records -> {"none", "operator"}]
    /\ login \in [Dirs -> {"operator", "portal"}]
    /\ \A d \in Dirs \ Legacy : login[d] = "operator"
    /\ saved = [d \in Dirs |-> "none"]
    /\ run = Idle /\ refresh = {} /\ cut = {} /\ faults = 0

-----------------------------------------------------------------------------
(* Operators whose comment says "Defect:" are plausible mistakes in the    *)
(* operator that follows them; no action uses them.                        *)

Go(stage) == run' = [run EXCEPT !.at = stage]
Fault == faults < MaxFaults /\ faults' = faults + 1

(* consume_onboarding_script.  Defect: an import that began burns it.      *)
Unburned(u) == u \in pending /\ backup[u] = "none"
Downloadable(u) == u \in pending

(* The install command removes a kept script and fetches a fresh one.      *)
Install(u) ==
    /\ run.at = "idle"
    /\ \/ /\ Downloadable(u)
          /\ file' = file \cup {u}
          /\ run' = [Idle EXCEPT !.at = "backup", !.u = u]
          /\ UNCHANGED faults
       \/ /\ ~Downloadable(u) /\ u \in file
          /\ file' = file \ {u}
          /\ UNCHANGED <<run, faults>>
       \/ Fault /\ file' = file \ {u} /\ UNCHANGED run
    /\ UNCHANGED <<pending, device, refresh, cut>>

(* A script kept after a failure is imported by hand.                      *)
Reimport(u) ==
    /\ run.at = "idle" /\ u \in file
    /\ run' = [Idle EXCEPT !.at = "backup", !.u = u]
    /\ UNCHANGED <<pending, file, device, refresh, cut, faults>>

(* An error, a lost connection or a reboot ends the import.                *)
Stops == run' = Idle /\ UNCHANGED device

(* Whether the record's script has changed the device before.              *)
Touched(u) == tunnel = u \/ user[u] = "managed"

(* Defect: every run makes a backup.                                       *)
BackupAlways(u) == TRUE
BackupMissing(u) == backup[u] = "none"

Backup ==
    /\ run.at = "backup"
    /\ backup' = IF BackupMissing(run.u)
                 THEN [backup EXCEPT ![run.u] =
                         IF Touched(run.u) THEN "later" ELSE "before"]
                 ELSE backup
    /\ Go("tunnel")
    /\ UNCHANGED <<tunnel, user, login, saved>>

(* Defect: the tunnel of another record counts as the script's own.        *)
AnyManaged(u) == tunnel # "operator"
MayTakeTunnel(u) == tunnel \in {None, u} \/ (tunnel # "operator" /\ u \in Replacing)

Tunnel ==
    /\ run.at = "tunnel"
    /\ IF MayTakeTunnel(run.u)
       THEN tunnel' = run.u /\ Go("user") /\ UNCHANGED <<backup, user, login, saved>>
       ELSE Stops

(* Defect: the user is added without the comment that marks it.            *)
Unmarked == "unmarked"
Marked == "managed"

User ==
    /\ run.at = "user"
    /\ IF user[run.u] # "operator"
       THEN /\ user' = [user EXCEPT ![run.u] = Marked]
            /\ run' = [run EXCEPT !.at = "pages",
                         !.dirs = IF run.u \in Portals THEN Dirs ELSE {}]
            /\ UNCHANGED <<backup, tunnel, login, saved>>
       ELSE Stops

(* For each directory: is there a backup file, and what is the page now?   *)
(* Defect: the page is saved by every run.                                 *)
SaveAgain(d) == TRUE
NoBackup(d) == saved[d] = "none"

Page(d) ==
    /\ run.at = "pages" /\ d \in run.dirs
    /\ run' = [run EXCEPT !.at = IF NoBackup(d) THEN "print" ELSE "write",
                          !.dirs = @ \ {d}, !.dir = d, !.current = login[d]]
    /\ UNCHANGED device

NextPage == run' = [run EXCEPT !.at = "pages", !.dir = None, !.current = "operator"]

(* /file print makes the file, with a listing in it.                       *)
PrintFile ==
    /\ run.at = "print"
    /\ saved' = [saved EXCEPT ![run.dir] = "listing"]
    /\ Go("fill")
    /\ UNCHANGED <<backup, tunnel, user, login>>

FillFile ==
    /\ run.at = "fill"
    /\ saved' = [saved EXCEPT ![run.dir] = run.current]
    /\ Go("write")
    /\ UNCHANGED <<backup, tunnel, user, login>>

Write ==
    /\ run.at = "write"
    /\ login' = [login EXCEPT ![run.dir] = "portal"]
    /\ NextPage
    /\ UNCHANGED <<backup, tunnel, user, saved>>

PagesEnd ==
    /\ run.at = "pages" /\ run.dirs = {}
    /\ Go("claim")
    /\ UNCHANGED device

Step ==
    /\ \/ Backup \/ Tunnel \/ User \/ PrintFile \/ FillFile \/ Write \/ PagesEnd
       \/ \E d \in Dirs : Page(d)
    /\ UNCHANGED <<pending, file, refresh, cut, faults>>

(* Is login-pre-uzanet.txt of d made, and not yet filled?                  *)
Filling(d) == run.at = "fill" /\ run.dir = d
NoteCut == cut' = cut \cup {d \in Dirs : Filling(d)}

(* An error at a page is caught: the directory is left as it is.           *)
PageFails ==
    /\ run.at \in {"print", "fill", "write"}
    /\ Fault /\ NoteCut
    /\ NextPage
    /\ UNCHANGED <<pending, file, device, refresh>>

(* Any other error, a lost connection or a reboot ends the import.         *)
ImportFails ==
    /\ run.at # "idle"
    /\ Fault /\ NoteCut /\ Stops
    /\ UNCHANGED <<pending, file, refresh>>

(* claim_onboarding registers the record once; a claimed record is told so *)
(* again, one whose window is over is refused.  The install command then   *)
(* removes the script; an error, or an import by hand, keeps it.           *)
Claim ==
    /\ run.at = "claim"
    /\ pending' = pending \ {run.u}
    /\ run' = Idle
    /\ file' \in {file, file \ {run.u}}
    /\ UNCHANGED <<device, refresh, cut, faults>>

(* expire_onboarding_downloads, or the deletion of the record.             *)
Expire(u) ==
    /\ u \in pending
    /\ pending' = pending \ {u}
    /\ UNCHANGED <<file, device, run, refresh, cut, faults>>

(* refresh_captive_portal: the files are listed, then written one by one.  *)
(* A directory is managed when it has a backup file or a marked page, or   *)
(* is named after the record that is refreshed.                            *)
Managed(d, own) == saved[d] # "none" \/ login[d] = "portal" \/ d \in own

(* The record is one of these, which own no legacy directory, or an older  *)
(* one; the API lets it in.                                                *)
RefreshRead ==
    /\ refresh = {}
    /\ \E own \in SUBSET Legacy :
          /\ own # {} \/ \E u \in Records : user[u] = "managed"
          /\ \E d \in Dirs : Managed(d, own)
          /\ refresh' = {d \in Dirs : Managed(d, own)}
    /\ UNCHANGED <<pending, file, device, run, cut, faults>>

RefreshWrite(d) ==
    /\ d \in refresh
    /\ login' = [login EXCEPT ![d] = "portal"]
    /\ refresh' = refresh \ {d}
    /\ UNCHANGED <<pending, file, backup, tunnel, user, saved, run, cut, faults>>

RefreshFails ==
    /\ refresh # {}
    /\ Fault /\ refresh' = {}
    /\ UNCHANGED <<pending, file, device, run, cut>>

(* The operator puts the saved page back.                                  *)
Restore(d) ==
    /\ saved[d] = "operator" /\ login[d] # "operator"
    /\ run.at = "idle"
    /\ login' = [login EXCEPT ![d] = "operator"]
    /\ UNCHANGED <<pending, file, backup, tunnel, user, saved, run, refresh, cut, faults>>

-----------------------------------------------------------------------------
Next ==
    \/ \E u \in Records : Install(u) \/ Reimport(u) \/ Expire(u)
    \/ Step \/ PageFails \/ ImportFails \/ Claim
    \/ RefreshRead \/ RefreshFails
    \/ \E d \in Dirs : RefreshWrite(d) \/ Restore(d)

Spec == Init /\ [][Next]_vars

(* An import goes on, and the operator pastes the command again while the  *)
(* record is not registered.                                               *)
FairSpec ==
    /\ Spec
    /\ WF_vars(Step) /\ WF_vars(Claim)
    /\ \A u \in Records : SF_vars(u \in pending /\ Install(u))

-----------------------------------------------------------------------------
(* The variables keep their types.                                         *)
TypeOK ==
    /\ pending \subseteq Records /\ file \subseteq Records
    /\ backup \in [Records -> {"none", "before", "later"}]
    /\ tunnel \in Records \cup {None, "operator", "older"}
    /\ user \in [Records -> {"none", "operator", "managed"}]
    /\ login \in [Dirs -> {"operator", "portal"}]
    /\ saved \in [Dirs -> {"none", "listing", "operator", "portal"}]
    /\ run \in Runs /\ (run.at = "idle" => run = Idle)
    /\ refresh \subseteq Dirs /\ cut \subseteq Dirs
    /\ faults \in 0..MaxFaults

(* The script is to save the operator's login page once, before the portal *)
(* takes its place.  In a directory that no older onboarding made, the     *)
(* portal's page is never saved as the operator's, and the operator's page *)
(* is in place or in the backup file, through retries, reboots and         *)
(* refreshes -- except where an import was cut between making the backup   *)
(* file and filling it: the next import takes the file for a backup and    *)
(* writes the portal's page over the only copy.                            *)
OperatorsPageKept ==
    \A d \in Dirs \ Legacy :
      /\ saved[d] # "portal"
      /\ login[d] = "operator" \/ saved[d] = "operator" \/ Filling(d) \/ d \in cut

(* The configuration backup of a record shows the device as it was before  *)
(* any run of its script, also after imports that stopped and began again. *)
BackupPredatesChanges ==
    \A u \in Records : backup[u] # "later" /\ (Touched(u) => backup[u] = "before")

(* What the operator has made himself under the same names stays, and the  *)
(* tunnel of one record is given to another only when that was asked for.  *)
ForeignUntouched ==
    [][/\ tunnel # tunnel' => \/ tunnel = None
                              \/ tunnel # "operator" /\ tunnel' \in Replacing
       /\ \A u \in Records : user[u] = "operator" => user'[u] = "operator"]_vars

(* A half-done import never stands in the way of the next: a record whose  *)
(* names are free is registered, or its window passes.                     *)
NamesFree(u) == user[u] # "operator" /\ MayTakeTunnel(u)
RetriesSucceed ==
    \A u \in Records : (u \in pending /\ NamesFree(u)) ~> (u \notin pending \/ ~NamesFree(u))

=============================================================================
