------------------------------ MODULE PITRWindow ------------------------------
(***************************************************************************)
(* The restorable window of an Instance and the restores that use it          *)
(* (pitr.go). The provider publishes a window, from the oldest full backup     *)
(* the log covers to the log's checkpoint, and a point-in-time restore picks   *)
(* its point and its base once, from what it reads then. Meanwhile the log     *)
(* advances, backups complete out of order and are deleted, and the stream     *)
(* may be turned off and on.                                                  *)
(*                                                                           *)
(* A unit of time is a TSO; positions of the log and of snapshots are TSOs,    *)
(* but what is published and asked for are Kubernetes times, whole seconds.    *)
(***************************************************************************)
EXTENDS Integers, FiniteSetsExt

CONSTANTS
    Backups,         \* full backups of the Instance on its log's storage
    Restores,        \* point-in-time restores of its log
    TicksPerSecond,  \* TSOs in a second
    MaxTime          \* bound of the clock

ASSUME ClockAssumption == MaxTime \in Nat /\ TicksPerSecond \in Nat \ {0}

VARIABLES
    now,       \* the clock TSOs are taken from
    log,       \* the log backup: whether it has a start and a checkpoint to read, and these
    backups,   \* each Backup: its state, its snapshot's TSO
    window,    \* the published window, while nothing was deleted since its log was read
    reading,   \* the log as publishing the window read it
    restores   \* each Restore: its date, its status, its BR Restore, its pass

vars == <<now, log, backups, window, reading, restores>>

Times == 0..MaxTime
Seconds == {t \in Times : t % TicksPerSecond = 0}
Latest == -1  \* RecoveryTargetLatest
None == "none"

Backup(s, t) == [state |-> s, ts |-> t]
NoLog == [running |-> FALSE, start |-> 0, checkpoint |-> 0]

NoWindow == [open |-> FALSE, from |-> 0, to |-> 0]
NoRead == [on |-> FALSE, start |-> 0, checkpoint |-> 0]
Read(l) == [on |-> TRUE, start |-> l.start, checkpoint |-> l.checkpoint]

(* promise: whether the date was in the window published when it was asked     *)
(* for, and nothing was deleted since; upto: for the latest point, where that    *)
(* window ended; read and pick: the log, and the decision, of its pass; valid:  *)
(* nothing was deleted since the log was read; shown: whether the cache shows   *)
(* the BR Restore.                                                          *)
NoPick == [base |-> None, target |-> 0]
NoRestore == [status |-> "none", date |-> Latest, promise |-> "none", upto |-> 0,
              valid |-> FALSE, read |-> NoRead, pick |-> NoPick, br |-> NoPick, shown |-> FALSE]

Init ==
    /\ now = 0 /\ log = NoLog
    /\ backups = [b \in Backups |-> Backup("none", 0)]
    /\ window = NoWindow /\ reading = NoRead
    /\ restores = [r \in Restores |-> NoRestore]

-----------------------------------------------------------------------------
(* What the provider reads.                                                  *)

(* The seconds of metav1.Time.                                               *)
Second(t) == t - (t % TicksPerSecond)

(* openLogStream finds a stream to read.                                     *)
Streams == log.running

(* Mutant: backups older than the log count as well.                          *)
CompleteBackups(start) == {b \in Backups : backups[b].state = "complete"}

(* pitrBases; a Backup that is being deleted counts until it is gone.          *)
Bases(start) == {b \in Backups : backups[b].state = "complete" /\ backups[b].ts >= start}

(* Mutants: the window starts at the newest backup, or at the oldest there is. *)
NewestBase(start) == Max({backups[b].ts : b \in Bases(start)})
OldestBackup(start) == Min({backups[b].ts : b \in CompleteBackups(start)})
OldestBase(start) == Min({backups[b].ts : b \in Bases(start)})

ReachesBase(start, checkpoint) == Bases(start) # {} /\ checkpoint >= OldestBase(start)

-----------------------------------------------------------------------------
(* BackupStorageStatuses: the stream is read, then the Backups.               *)

OpenWindow ==
    /\ ~reading.on
    /\ IF Streams THEN reading' = Read(log) /\ window' = window
       ELSE reading' = reading /\ window' = NoWindow
    /\ UNCHANGED <<now, log, backups, restores>>

PublishWindow ==
    /\ reading.on /\ reading' = NoRead
    /\ window' =
         IF ReachesBase(reading.start, reading.checkpoint)
         THEN [open |-> TRUE, from |-> Second(OldestBase(reading.start)),
               to |-> Second(reading.checkpoint)]
         ELSE NoWindow
    /\ UNCHANGED <<now, log, backups, restores>>

-----------------------------------------------------------------------------
(* syncPointInTimeRestore.                                                   *)

Promise(d) ==
    IF ~window.open \/ d \notin window.from..window.to THEN "none"
    ELSE IF d = window.from THEN "edge" ELSE "inside"

PromisedEnd(d) == IF d = Latest /\ window.open /\ window.from < window.to THEN window.to ELSE 0

RequestRestore(r, d) ==
    /\ restores[r].status = "none"
    /\ restores' = [restores EXCEPT ![r].status = "pending", ![r].date = d,
                       ![r].promise = Promise(d), ![r].upto = PromisedEnd(d)]
    /\ UNCHANGED <<now, log, backups, window, reading>>

(* A Restore that failed is left alone.                                       *)
Starting(r) == restores[r].status = "pending" /\ ~restores[r].shown

(* openLogStream; without a stream the Restore stays pending.                 *)
OpenStream(r) ==
    /\ Starting(r) /\ ~restores[r].read.on /\ restores[r].pick = NoPick
    /\ Streams
    /\ restores' = [restores EXCEPT ![r].read = Read(log),
                       ![r].valid = (restores[r].br = NoPick \/ restores[r].valid)]
    /\ UNCHANGED <<now, log, backups, window, reading>>

(* Mutant: the latest point is the latest full backup.                        *)
BackupTarget(r) ==
    IF restores[r].date # Latest THEN restores[r].date
    ELSE IF Bases(restores[r].read.start) = {} THEN restores[r].read.checkpoint
    ELSE Min({restores[r].read.checkpoint, NewestBase(restores[r].read.start)})
Target(r) == IF restores[r].date = Latest THEN restores[r].read.checkpoint ELSE restores[r].date

(* Mutant: the log must be past the point.                                    *)
PastTarget(r) == restores[r].read.checkpoint > Target(r)
ReachedTarget(r) == restores[r].read.checkpoint >= Target(r)

Candidates(r) == {b \in Bases(restores[r].read.start) : backups[b].ts <= Target(r)}

(* startPointInTimeRestore, after it opened the stream. A date the log has not *)
(* reached, and the latest point without a base, wait. The source is another     *)
(* Instance, its storage S3, and nobody truncates the log.                      *)
PickBase(r) ==
    /\ Starting(r) /\ restores[r].read.on
    /\ LET read == [restores EXCEPT ![r].read = NoRead] IN
       \/ /\ ~ReachedTarget(r) \/ (Candidates(r) = {} /\ restores[r].date = Latest)
          /\ restores' = read
       \/ /\ ReachedTarget(r) /\ Candidates(r) = {} /\ restores[r].date # Latest
          /\ restores' = [read EXCEPT ![r].status = "failed"]
       \/ /\ ReachedTarget(r)
          /\ \E b \in Candidates(r) :
               /\ \A c \in Candidates(r) : backups[c].ts <= backups[b].ts
               /\ restores' = [read EXCEPT ![r].pick = [base |-> b, target |-> Target(r)]]
    /\ UNCHANGED <<now, log, backups, window, reading>>

(* Mutant: the BR Restore is applied, not created.                            *)
AppliedBRRestore(r) == restores[r].pick

(* One that exists already is left alone.                                    *)
CreatedBRRestore(r) == IF restores[r].br = NoPick THEN restores[r].pick ELSE restores[r].br

CreateBRRestore(r) ==
    /\ restores[r].pick # NoPick
    /\ restores' = [restores EXCEPT ![r].br = CreatedBRRestore(r), ![r].pick = NoPick]
    /\ UNCHANGED <<now, log, backups, window, reading>>

(* The credentials, the storage or a call fails.                              *)
AbortPass(r) ==
    /\ restores[r].read.on \/ restores[r].pick # NoPick
    /\ restores' = [restores EXCEPT ![r].read = NoRead, ![r].pick = NoPick]
    /\ UNCHANGED <<now, log, backups, window, reading>>

(* The cache shows the BR Restore, which is followed from now on.             *)
FindBRRestore(r) ==
    /\ restores[r].br # NoPick /\ ~restores[r].shown
    /\ restores' = [restores EXCEPT ![r].shown = TRUE]
    /\ UNCHANGED <<now, log, backups, window, reading>>

-----------------------------------------------------------------------------
(* The log backup, the full backups and the clock.                           *)

Tick ==
    /\ now < MaxTime /\ now' = now + 1
    /\ UNCHANGED <<log, backups, window, reading, restores>>

StartLog ==
    /\ ~log.running /\ log' = [running |-> TRUE, start |-> now, checkpoint |-> now]
    /\ UNCHANGED <<now, backups, window, reading, restores>>

AdvanceLog ==
    /\ log.running
    /\ \E t \in (log.checkpoint + 1)..now : log' = [log EXCEPT !.checkpoint = t]
    /\ UNCHANGED <<now, backups, window, reading, restores>>

(* What was published, or read to be published, before something was deleted   *)
(* promises nothing: the model forgets it.                                    *)
Invalidate ==
    /\ window' = NoWindow /\ reading' = NoRead
    /\ restores' = [r \in Restores |-> [restores[r] EXCEPT !.promise = "none", !.upto = 0,
                                                             !.valid = FALSE]]

(* Point-in-time recovery is turned off, or moved to another storage; the log  *)
(* backup is then stopping, gone, starting or failed until it runs again.      *)
StopLog ==
    /\ log.running /\ log' = NoLog
    /\ Invalidate
    /\ UNCHANGED <<now, backups>>

StartBackup(b) ==
    /\ backups[b].state = "none"
    /\ backups' = [backups EXCEPT ![b] = Backup("running", now)]
    /\ UNCHANGED <<now, log, window, reading, restores>>

EndBackup(b) ==
    /\ backups[b].state = "running"
    /\ \E s \in {Backup("complete", backups[b].ts), Backup("gone", 0)} :
         backups' = [backups EXCEPT ![b] = s]
    /\ UNCHANGED <<now, log, window, reading, restores>>

RemoveBackup(b) ==
    /\ backups[b].state = "complete"
    /\ backups' = [backups EXCEPT ![b] = Backup("gone", 0)]
    /\ Invalidate
    /\ UNCHANGED <<now, log>>

-----------------------------------------------------------------------------
Next ==
    \/ OpenWindow \/ PublishWindow
    \/ Tick \/ StartLog \/ AdvanceLog \/ StopLog
    \/ \E b \in Backups : StartBackup(b) \/ EndBackup(b) \/ RemoveBackup(b)
    \/ \E r \in Restores :
         \/ OpenStream(r) \/ PickBase(r) \/ CreateBRRestore(r) \/ AbortPass(r) \/ FindBRRestore(r)
         \/ \E d \in Seconds \cup {Latest} : RequestRestore(r, d)

Spec == Init /\ [][Next]_vars

(* Restores are reconciled again while they wait, and calls do not fail for    *)
(* ever; a log that runs keeps up with the clock.                             *)
Fairness ==
    /\ WF_vars(Tick) /\ WF_vars(AdvanceLog)
    /\ \A r \in Restores : WF_vars(OpenStream(r)) /\ SF_vars(PickBase(r)) /\ SF_vars(CreateBRRestore(r))

FairSpec == Spec /\ Fairness

-----------------------------------------------------------------------------
(* Properties.                                                               *)

Reads == [on : BOOLEAN, start : 0..now, checkpoint : 0..now]
Picks == [base : Backups \cup {None}, target : 0..now]

(* Every variable stays in its range, and an open window spans some time.     *)
TypeOK ==
    /\ now \in Times
    /\ log \in [running : BOOLEAN, start : 0..now, checkpoint : 0..now]
    /\ log.start <= log.checkpoint
    /\ backups \in [Backups -> [state : {"none", "running", "complete", "gone"},
                                ts : 0..now]]
    /\ window \in [open : BOOLEAN, from : 0..now, to : 0..now]
    /\ window.from <= window.to
    /\ reading \in Reads
    /\ restores \in [Restores ->
          [status : {"none", "pending", "failed"}, date : Seconds \cup {Latest},
           promise : {"none", "edge", "inside"}, upto : 0..now, valid : BOOLEAN, read : Reads,
           pick : Picks, br : Picks, shown : BOOLEAN]]

(* A restore of a date in the published window does not fail as long as        *)
(* nothing is deleted, however the log and the backups go on ("Every point     *)
(* from earliestRestorableTime ... to latestRestorableTime ... is restorable", *)
(* README.md:307); its first second apart, for which see below.               *)
WindowIsHonoured ==
    \A r \in Restores : restores[r].status = "failed" => restores[r].promise # "inside"

(* The same with the first second, where the window is published to start     *)
(* (pitrWindow, pitr.go:324-325).                                            *)
WholeWindowIsHonoured ==
    \A r \in Restores : restores[r].status = "failed" => restores[r].promise = "none"

(* As long as nothing is deleted the window stays open and only grows,         *)
(* although backups complete in another order than their snapshots were taken   *)
(* and each publication reads the log before the backups (pitrWindow).          *)
WindowOnlyGrows ==
    [][window.open /\ UNCHANGED <<log, backups>> =>
        window'.open /\ window'.from <= window.from /\ window'.to >= window.to]_window

(* The point and the base of a restore are chosen once, even while the cache   *)
(* does not show the BR Restore yet ("once", startPointInTimeRestore).        *)
ChosenOnce == [][\A r \in Restores : restores[r].br # NoPick => restores'[r].br = restores[r].br]_restores

(* As long as nothing is deleted, BR gets a base the log covers from its        *)
(* snapshot on, and a point at or after it that the log has reached.           *)
RestoreIsCovered ==
    \A r \in Restores :
        restores[r].br # NoPick /\ restores[r].valid =>
            /\ backups[restores[r].br.base].ts \in log.start..restores[r].br.target
            /\ restores[r].br.target \in log.start..log.checkpoint

(* The provider implements RestorablePoints: what a user was offered is honoured  *)
(* in every order of publications, passes that read the log and the Backups at   *)
(* different times, and deletions; in particular only a deletion takes an offer  *)
(* back, and the latest point is never before the window that was published      *)
(* when it was asked for (README.md:307, 313-314, startPointInTimeRestore).     *)
Offered ==
    IF window.open THEN {d \in Seconds : window.from < d /\ d <= window.to} ELSE {}

Asked(x) ==
    [status |-> x.status, date |-> x.date,
     owed |-> IF x.promise = "inside" THEN {x.date} ELSE IF x.upto > 0 THEN {x.upto} ELSE {},
     points |-> IF x.br = NoPick THEN {} ELSE {x.br.target}]

Points == INSTANCE RestorablePoints WITH
    Dates <- Seconds, logging <- log.running,
    kept <- {b \in Backups : backups[b].state = "complete"},
    offered <- Offered, asked <- [r \in Restores |-> Asked(restores[r])]
ImplementsRestorablePoints == Points!Spec

Undecided(r) ==
    /\ restores[r].status = "pending" /\ restores[r].br = NoPick
    /\ log.running
    /\ restores[r].date = Latest => \E b \in Bases(log.start) : backups[b].ts <= log.checkpoint

(* While the log runs, a restore of a date is decided, and one of the latest   *)
(* point is as well while there is a base for it.                             *)
RestoreIsDecided == \A r \in Restores : Undecided(r) ~> ~Undecided(r)
=============================================================================
