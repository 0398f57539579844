----------------------------- MODULE RootPassword -----------------------------
(***************************************************************************)
(* The root password of an Instance and of its backups (credentials.go, with *)
(* the parts of SyncTiDB, SyncBackup and SyncRestore that call it). The       *)
(* provider generates the password once, TiDB takes it from a bootstrap       *)
(* ConfigMap, every backup records the password its snapshot carries, and a   *)
(* restore, which brings back the backed-up mysql.user, switches the          *)
(* Instance's Secret to the recorded password. Nothing ties the Secret to     *)
(* what TiDB really holds but the order of these steps, and nothing keeps      *)
(* backups, restores and users from changing it at the same time. The Instance, *)
(* the Backups and the Restores have a worker each, and a call of one may come   *)
(* between any two calls of another.                                         *)
(***************************************************************************)
EXTENDS Naturals, FiniteSets, FiniteSetsExt

CONSTANTS
    Generated, \* the passwords newRootPassword may generate
    Backups,   \* backups taken from this Instance
    Foreign,   \* backups of other Instances, which may be restored into it
    Restores,  \* restores into this Instance
    MayAlter   \* whether users change the password

ASSUME RestoresAssumption == IsFiniteSet(Restores)
ASSUME PasswordsAssumption == Generated \cap {"none", "theirs", "mine"} = {}

VARIABLES
    root,     \* root's password in mysql.user
    secret,   \* the root Secret: its password and annotationRootRestoredAt
    hook,     \* the password in the bootstrap ConfigMap
    pass,     \* the SyncTiDB pass
    altered,  \* whether a user changed root's password and not yet the Secret
    backups,  \* each backup: its state, what its snapshot holds, what it recorded, and
              \* (history) whether the password was changing while it was taken
    restores, \* each restore: its BR Restore, its status, its source, what it brings, when
              \* BR completed it, and (history) whether its source recorded that for sure
    adopt,    \* the SyncRestore pass of a restore BR completed
    doubts    \* history: why the Secret need not have the password of the last change

vars == <<root, secret, hook, pass, altered, backups, restores, adopt, doubts>>

None == "none"
Theirs == "theirs"  \* root's password in the other Instances
Mine == "mine"      \* the password users choose
Passwords == Generated \cup {Theirs, Mine}
Maybe == Passwords \cup {None}

NoSecret == [pw |-> None, at |-> 0]
Idle == [at |-> "idle", pw |-> None]
NoAdoption == [at |-> "idle", r |-> None, pw |-> None]
NoBackup == [state |-> "none", data |-> None, recorded |-> None, stirred |-> FALSE]
NoRestore == [br |-> "none", status |-> "active", from |-> None, data |-> None, sure |-> FALSE,
              at |-> 0]

(* A backup of another Instance has recorded its password, or is older than   *)
(* the recording and its Instance is gone.                                   *)
Init ==
    /\ root = None /\ secret = NoSecret /\ hook = None
    /\ pass = Idle /\ altered = FALSE
    /\ backups \in [Backups \cup Foreign ->
                      {NoBackup} \cup [state : {"done"}, data : {Theirs}, recorded : {Theirs, None},
                                       stirred : {FALSE}]]
    /\ \A b \in Backups \cup Foreign : b \in Backups <=> backups[b] = NoBackup
    /\ restores = [r \in Restores |-> NoRestore] /\ adopt = NoAdoption /\ doubts = {}

(* TiDB has the users of this restore, the Secret not yet its password.        *)
Pending(r) ==
    /\ restores[r].status = "active"
    /\ \/ restores[r].br = "applied"
       \/ restores[r].br = "complete" /\ restores[r].at > secret.at
SomePending == \E r \in Restores : Pending(r)

-----------------------------------------------------------------------------
(* SyncTiDB.                                                                 *)

(* Mutant: every pass generates a password.                                   *)
GeneratesAlways == TRUE
Generates == secret.pw = None

EnsureRootPassword ==
    /\ pass.at = "idle"
    /\ IF Generates THEN \E p \in Generated : pass' = [at |-> "secret", pw |-> p]
       ELSE pass' = [at |-> "hook", pw |-> secret.pw]
    /\ UNCHANGED <<root, secret, hook, altered, backups, restores, adopt, doubts>>

(* The applied Secret has no annotations.                                    *)
StorePassword ==
    /\ pass.at = "secret"
    /\ secret' = [pw |-> pass.pw, at |-> 0]
    /\ pass' = [pass EXCEPT !.at = "hook"]
    /\ UNCHANGED <<root, hook, altered, backups, restores, adopt, doubts>>

(* The ConfigMap, and then the Cluster, are applied.                          *)
WriteBootstrapSQL ==
    /\ pass.at = "hook"
    /\ hook' = pass.pw /\ pass' = Idle
    /\ UNCHANGED <<root, secret, altered, backups, restores, adopt, doubts>>

AbortPass ==
    /\ pass.at # "idle" /\ pass' = Idle
    /\ UNCHANGED <<root, secret, hook, altered, backups, restores, adopt, doubts>>

Bootstrap ==
    /\ root = None /\ hook # None
    /\ root' = hook
    /\ UNCHANGED <<secret, hook, pass, altered, backups, restores, adopt, doubts>>

(* Whoever changes root's password changes it under the backups being taken.   *)
Unfinished(b) == backups[b].state \in {"recording", "running"}
Stirred == [b \in DOMAIN backups |-> IF Unfinished(b) THEN [backups[b] EXCEPT !.stirred = TRUE] ELSE backups[b]]

(* README.md:279-280: ALTER USER, then the Secret. Against a restore whose       *)
(* password is still to be adopted the outcome is open.                       *)
AlterUser ==
    /\ MayAlter /\ root \notin {None, Mine} /\ ~altered
    /\ root' = Mine /\ altered' = TRUE /\ backups' = Stirred
    /\ doubts' = IF SomePending THEN doubts \cup {"mixed"} ELSE {}
    /\ UNCHANGED <<secret, hook, pass, restores, adopt>>

UpdateSecret ==
    /\ altered /\ altered' = FALSE
    /\ secret' = [secret EXCEPT !.pw = Mine]
    /\ UNCHANGED <<root, hook, pass, backups, restores, adopt, doubts>>

-----------------------------------------------------------------------------
(* Backups.                                                                  *)

(* Mutant: the password of the bootstrap ConfigMap is recorded.               *)
RecordHook == hook

(* readRootPassword.                                                         *)
Recorded == secret.pw

(* A change of the password may not have reached the Secret.                   *)
Changing == altered \/ SomePending \/ doubts # {}

(* recordBackupRootPassword writes the Secret once: in the pass that starts the  *)
(* backup, or in a later one when its read failed (readRootPassword drops the    *)
(* error). All a pass asks for is that the Cluster exists. The step is the read;  *)
(* nobody looks at the backup's Secret before it is written.                   *)
RecordPassword(b) ==
    /\ hook # None /\ backups[b].recorded = None /\ backups[b].state \in {"none", "running"}
    /\ backups' = [backups EXCEPT ![b].state = IF @ = "none" THEN "recording" ELSE @,
                       ![b].recorded = Recorded, ![b].stirred = @ \/ Changing]
    /\ UNCHANGED <<root, secret, hook, pass, altered, restores, adopt, doubts>>

(* The BR Backup is created, in this pass or when a later one gets that far.    *)
CreateBRBackup(b) ==
    /\ hook # None /\ backups[b].state \in {"none", "recording"}
    /\ backups' = [backups EXCEPT ![b].state = "running"]
    /\ UNCHANGED <<root, secret, hook, pass, altered, restores, adopt, doubts>>

TakeSnapshot(b) ==
    /\ backups[b].state = "running" /\ backups[b].data = None /\ root # None
    /\ backups' = [backups EXCEPT ![b].data = root]
    /\ UNCHANGED <<root, secret, hook, pass, altered, restores, adopt, doubts>>

FinishBackup(b) ==
    /\ backups[b].state = "running" /\ backups[b].data # None
    /\ backups' = [backups EXCEPT ![b].state = "done"]
    /\ UNCHANGED <<root, secret, hook, pass, altered, restores, adopt, doubts>>

(* The recorded password goes with its Backup.                                *)
DeleteBackup(b) ==
    /\ backups[b].state = "done"
    /\ backups' = [backups EXCEPT ![b] = [NoBackup EXCEPT !.state = "deleted"]]
    /\ doubts' = IF \E r \in Restores : Pending(r) /\ restores[r].from = b
                 THEN doubts \cup {"lost"} ELSE doubts
    /\ UNCHANGED <<root, secret, hook, pass, altered, restores, adopt>>

-----------------------------------------------------------------------------
(* Restores.                                                                 *)

(* A backup that recorded what it holds, as far as anyone can tell.            *)
Sure(b) == backups[b].recorded # None /\ ~backups[b].stirred

StartRestore(r, b) ==
    /\ restores[r].br = "none" /\ backups[b].state = "done" /\ hook # None
    /\ restores' = [restores EXCEPT ![r] = [NoRestore EXCEPT
                       !.br = "running", !.from = b, !.data = backups[b].data, !.sure = Sure(b)]]
    /\ UNCHANGED <<root, secret, hook, pass, altered, backups, adopt, doubts>>

(* BR restores mysql.user: root's password is the backup's, whatever it was.    *)
RestoreUsers(r) ==
    LET b == restores[r].from IN
    /\ restores[r].br = "running" /\ root # None
    /\ root' = restores[r].data /\ backups' = Stirred
    /\ restores' = [restores EXCEPT ![r].br = "applied"]
    /\ doubts' = {d \in {"lost", "backup", "mixed", "order"} :
                    \/ d = "lost" /\ (restores[r].status = "failed" \/ backups[b].state = "deleted")
                    \/ d = "backup" /\ ~restores[r].sure
                    \/ d = "mixed" /\ altered
                    \/ d = "order" /\ \E s \in Restores : restores[s].br = "applied"}
    /\ UNCHANGED <<secret, hook, pass, altered, adopt>>

(* TimeCompleted counts whole seconds: two restores may have the same.          *)
Latest == Max({restores[s].at : s \in Restores})

CompleteRestore(r) ==
    /\ restores[r].br = "applied"
    /\ \E at \in {Latest, Latest + 1} \ {0} :
         /\ restores' = [restores EXCEPT ![r].br = "complete", ![r].at = at]
         /\ doubts' = IF at = Latest THEN doubts \cup {"order"} ELSE doubts
    /\ UNCHANGED <<root, secret, hook, pass, altered, backups, adopt>>

FailRestore(r) ==
    /\ restores[r].br \in {"running", "applied"}
    /\ restores' = [restores EXCEPT ![r].br = "failed", ![r].status = "failed"]
    /\ doubts' = IF restores[r].br = "applied" THEN doubts \cup {"failed"} ELSE doubts
    /\ UNCHANGED <<root, secret, hook, pass, altered, backups, adopt>>

(* SyncRestore fails before it looks at the BR Restore when the Backup is gone. *)
LoseSource(r) ==
    /\ adopt.at = "idle" /\ restores[r].br # "none" /\ restores[r].status # "failed"
    /\ backups[restores[r].from].state = "deleted"
    /\ restores' = [restores EXCEPT ![r].status = "failed"]
    /\ UNCHANGED <<root, secret, hook, pass, altered, backups, adopt, doubts>>

(* The pass of a completed restore; a succeeded one may be reconciled again.    *)
StartAdoption(r) ==
    /\ adopt.at = "idle" /\ restores[r].br = "complete" /\ restores[r].status # "failed"
    /\ backups[restores[r].from].state = "done"
    /\ adopt' = [at |-> "recorded", r |-> r, pw |-> None]
    /\ UNCHANGED <<root, secret, hook, pass, altered, backups, restores, doubts>>

(* restoredRootPassword: the recorded password, ...                            *)
ReadRecorded ==
    LET b == restores[adopt.r].from
        pw == backups[b].recorded IN
    /\ adopt.at = "recorded"
    /\ adopt' = [adopt EXCEPT !.pw = pw,
                    !.at = IF pw # None THEN "current" ELSE IF b \in Backups THEN "source" ELSE "report"]
    /\ UNCHANGED <<root, secret, hook, pass, altered, backups, restores, doubts>>

(* ... or the source Instance's current one.                                  *)
ReadSource ==
    /\ adopt.at = "source"
    /\ adopt' = [adopt EXCEPT !.pw = secret.pw, !.at = "current"]
    /\ UNCHANGED <<root, secret, hook, pass, altered, backups, restores, doubts>>

(* Mutant: the restore reconciled last wins.                                  *)
SupersededNever(r) == FALSE
Superseded(r) == restores[r].at <= secret.at

ReadCurrent ==
    /\ adopt.at = "current"
    /\ adopt' = [adopt EXCEPT !.at = IF Superseded(adopt.r) THEN "report" ELSE "apply"]
    /\ UNCHANGED <<root, secret, hook, pass, altered, backups, restores, doubts>>

ApplyPassword ==
    /\ adopt.at = "apply"
    /\ secret' = [pw |-> adopt.pw, at |-> restores[adopt.r].at]
    /\ adopt' = [adopt EXCEPT !.at = "report"]
    /\ UNCHANGED <<root, hook, pass, altered, backups, restores, doubts>>

ReportRestore ==
    /\ adopt.at = "report"
    /\ restores' = [restores EXCEPT ![adopt.r].status = IF adopt.pw = None THEN "unknown" ELSE "succeeded"]
    /\ adopt' = NoAdoption
    /\ UNCHANGED <<root, secret, hook, pass, altered, backups, doubts>>

AbortAdoption ==
    /\ adopt.at # "idle" /\ adopt' = NoAdoption
    /\ UNCHANGED <<root, secret, hook, pass, altered, backups, restores, doubts>>

-----------------------------------------------------------------------------
SyncTiDB == EnsureRootPassword \/ StorePassword \/ WriteBootstrapSQL \/ AbortPass
User == AlterUser \/ UpdateSecret
Backing(b) == RecordPassword(b) \/ CreateBRBackup(b) \/ TakeSnapshot(b) \/ FinishBackup(b)
Restoring(r) ==
    \/ RestoreUsers(r) \/ CompleteRestore(r) \/ FailRestore(r) \/ LoseSource(r) \/ StartAdoption(r)
    \/ \E b \in Backups \cup Foreign : StartRestore(r, b)
Adopting == ReadRecorded \/ ReadSource \/ ReadCurrent \/ ApplyPassword \/ ReportRestore \/ AbortAdoption

Next ==
    \/ SyncTiDB \/ Bootstrap \/ User \/ Adopting
    \/ \E b \in Backups : Backing(b)
    \/ \E b \in Backups \cup Foreign : DeleteBackup(b)
    \/ \E r \in Restores : Restoring(r)

Spec == Init /\ [][Next]_vars

-----------------------------------------------------------------------------
(* Properties.                                                               *)

Reasons == {"mixed", "lost", "backup", "order", "failed"}

(* Every variable stays in its range.                                        *)
TypeOK ==
    /\ root \in Maybe /\ hook \in Maybe /\ altered \in BOOLEAN
    /\ secret \in [pw : Maybe, at : Nat]
    /\ pass \in [at : {"idle", "secret", "hook"}, pw : Maybe]
    /\ backups \in [Backups \cup Foreign ->
          [state : {"none", "recording", "running", "done", "deleted"}, data : Maybe,
           recorded : Maybe, stirred : BOOLEAN]]
    /\ restores \in [Restores ->
          [br : {"none", "running", "applied", "complete", "failed"},
           status : {"active", "succeeded", "unknown", "failed"},
           from : Backups \cup Foreign \cup {None}, data : Maybe, sure : BOOLEAN,
           at : Nat]]
    /\ adopt \in [at : {"idle", "recorded", "source", "current", "apply", "report"},
                  r : Restores \cup {None}, pw : Maybe]
    /\ doubts \in SUBSET Reasons

(* No change of root's password is on its way to the Secret.                   *)
Settled == root # None /\ ~altered /\ ~SomePending

(* Once no change is on its way the connection Secret holds the password TiDB   *)
(* has, after bootstrap, users' changes and any number of restores reconciled in  *)
(* any order and again, unless the last change is in doubt: a restore whose Backup *)
(* was deleted, or did not record what it holds, that failed halfway, that came    *)
(* with another in one second, or with a user's change under way ("So the          *)
(* connection Secret keeps working", README.md:276-278).                       *)
ConnectionWorks == Settled /\ doubts = {} => secret.pw = root

AllReported == \A r \in Restores :
    restores[r].br # "applied" /\ (restores[r].br = "complete" => restores[r].status # "active")

(* The same when the Backup was deleted: "after a restore the restored Instance's *)
(* connection Secret switches to that password" (README.md:277-278).           *)
RestoresSwitchPassword ==
    Settled /\ doubts \subseteq {"lost"} /\ AllReported
    => secret.pw = root

(* A backup recorded what its snapshot holds if the password was not changing     *)
(* from the recording to the end of the backup, nor on its way to the Secret then  *)
(* (recordBackupRootPassword), whenever in between BR took the snapshot, whether    *)
(* its first read failed, and whatever was restored before.                    *)
QuietBackupsRemember ==
    \A b \in Backups :
        backups[b].state = "done" /\ ~backups[b].stirred /\ backups[b].recorded # None
        => backups[b].recorded = backups[b].data

(* The same for every backup: "A BR snapshot includes mysql.user, so whoever        *)
(* restores it gets this password for root" (credentials.go:117-119).          *)
BackupsRemember ==
    \A b \in Backups :
        backups[b].state = "done" /\ backups[b].recorded # None => backups[b].recorded = backups[b].data

(* The Secret never goes back to an older restore ("one that completed no      *)
(* later than the restore the password last came from leaves it alone",        *)
(* credentials.go:175-176), although its time is read a call before it is        *)
(* overwritten.                                                              *)
NewestRestoreWins == [][secret'.at > 0 => secret'.at >= secret.at]_secret

(* A password the user set is not overwritten by a restore that was adopted        *)
(* before, or is older than one that was, when its Restore is reconciled again     *)
(* (adoptRestoredRootPassword compares completion times).                     *)
UserPasswordStays == [][Settled /\ secret.pw = Mine => secret'.pw = Mine]_secret
=============================================================================
