--------------------------- MODULE LogBackupProofs ---------------------------
(* Proofs about LogBackup for any number of storages and Restores.            *)
EXTENDS LogBackup, TLAPS

-----------------------------------------------------------------------------
(* What the records of the model look like after an update.                   *)

LEMMA Constants == NoLog \in LogObject /\ Idle \in Pass /\ NoStorage \in Targets
  BY DEF NoLog, LogObject, Idle, Pass, Targets

LEMMA LogUpdates ==
  ASSUME NEW l \in LogObject, NEW s \in Targets
  PROVE  /\ MarkDeleted(l) \in LogObject /\ Live(s) \in LogObject
         /\ [l EXCEPT !.phase = "deleting"] \in LogObject
         /\ [l EXCEPT !.storage = s] \in LogObject
  BY DEF LogObject, MarkDeleted, Live

LEMMA PassUpdates ==
  ASSUME NEW p \in Pass, NEW s \in Targets, NEW b \in BOOLEAN,
         NEW at \in {"idle", "sync", "log", "creds", "apply"}
  PROVE  /\ [p EXCEPT !.at = at] \in Pass
         /\ [p EXCEPT !.at = "log", !.seeded = b] \in Pass
         /\ [at |-> "sync", spec |-> s, seeded |-> FALSE] \in Pass
         /\ p.spec \in Targets
  BY DEF Pass

LEMMA RestoreUpdates ==
  ASSUME NEW f \in [Restores -> RestoreState], NEW r \in Restores, NEW x \in RestoreState
  PROVE  [f EXCEPT ![r] = x] \in [Restores -> RestoreState]
  OBVIOUS

-----------------------------------------------------------------------------
(* Every step of the specification keeps every variable in its range, stale   *)
(* cache or not.                                                             *)
THEOREM TypeCorrect == Spec => []TypeOK
<1>1. Init => TypeOK
  BY Constants, RestoreAssumption DEF Init, TypeOK, RestoreState
<1>2. TypeOK /\ [Next]_vars => TypeOK'
  <2> SUFFICES ASSUME TypeOK, [Next]_vars PROVE TypeOK'
    OBVIOUS
  <2> USE Constants DEF TypeOK, CacheStays
  <2>1. CASE User
    <3>1. CASE CreateInstance
      BY <3>1, RestoreUpdates, RestoreAssumption DEF CreateInstance, RestoreState
    <3>2. CASE EditPITR \/ DeleteInstance
      BY <3>2 DEF EditPITR, DeleteInstance
    <3>3. CASE DeleteNamespace \/ CollectNamespace
      BY <3>3, LogUpdates DEF DeleteNamespace, CollectNamespace
    <3>4. CASE RecreateNamespace
      BY <3>4 DEF RecreateNamespace, RestoreState
    <3>5. ASSUME NEW r \in Restores, RequestRestore(r) PROVE TypeOK'
      BY <3>5, RestoreUpdates DEF RequestRestore, RestoreState
    <3> QED BY <2>1, <3>1, <3>2, <3>3, <3>4, <3>5 DEF User
  <2>2. CASE SyncLogBackup
    <3>1. CASE WaitForStoppingStream \/ HoldStream \/ DropCredentials
      BY <3>1 DEF WaitForStoppingStream, HoldStream, DropCredentials
    <3>2. CASE DropStream
      BY <3>2, LogUpdates DEF DropStream
    <3>3. CASE DecideToApply
      BY <3>3, PassUpdates DEF DecideToApply
    <3>4. CASE WriteCredentials
      BY <3>4, PassUpdates DEF WriteCredentials
    <3>5. CASE ApplyLogBackup
      BY <3>5, LogUpdates, PassUpdates DEF ApplyLogBackup
    <3> QED BY <2>2, <3>1, <3>2, <3>3, <3>4, <3>5 DEF SyncLogBackup
  <2>3. CASE StartPass
    BY <2>3, PassUpdates DEF StartPass
  <2>4. CASE AbortPass
    BY <2>4 DEF AbortPass
  <2>5. CASE ReconcileDataSource
    <3>1. pass' \in Pass
      BY <2>5, PassUpdates DEF ReconcileDataSource
    <3>2. restore' \in [Restores -> RestoreState]
      BY <2>5, RestoreUpdates, RestoreAssumption DEF ReconcileDataSource, RestoreState
    <3> QED BY <2>5, <3>1, <3>2 DEF ReconcileDataSource
  <2>6. CASE Cleanup
    BY <2>6, LogUpdates DEF Cleanup, StopLogBackup, ReleaseLogBackup, DeleteCluster, FinishCleanup
  <2>7. CASE SyncRestore
    BY <2>7, RestoreUpdates DEF SyncRestore, RefuseRestore, ClearRestore, RetryRestore, CreateBRRestore, RestoreState
  <2>8. CASE Operator
    <3>1. CASE ClusterBecomesReady \/ ClusterDegrades \/ StartTask \/ StopTask \/ RemoveMembers
      BY <3>1 DEF ClusterBecomesReady, ClusterDegrades, StartTask, StopTask, RemoveMembers
    <3>2. CASE RemoveCluster
      BY <3>2 DEF RemoveCluster, RestoreState
    <3>3. ASSUME NEW r \in Restores, EndRestore(r) PROVE TypeOK'
      BY <3>3, RestoreUpdates DEF EndRestore, RestoreState
    <3> QED BY <2>8, <3>1, <3>2, <3>3 DEF Operator
  <2>9. CASE RefreshCache
    BY <2>9 DEF RefreshCache
  <2>10. CASE UNCHANGED vars
    BY <2>10 DEF vars
  <2> QED BY <2>1, <2>2, <2>3, <2>4, <2>5, <2>6, <2>7, <2>8, <2>9, <2>10 DEF Next, Sync
<1> QED BY <1>1, <1>2, PTL DEF Spec

-----------------------------------------------------------------------------
(* No step, whatever the cache showed, leaves the log backup task running in  *)
(* PD with no object to stop it by: the task ends with the operator's stop or *)
(* with the Cluster, and only then is the object let go.                      *)
THEOREM TaskHasObject == Spec => []NoOrphanTask
<1>1. Init => NoOrphanTask
  BY DEF Init, NoOrphanTask
<1>2. TypeOK /\ NoOrphanTask /\ [Next]_vars => NoOrphanTask'
  <2> SUFFICES ASSUME TypeOK, NoOrphanTask, [Next]_vars PROVE NoOrphanTask'
    OBVIOUS
  <2> USE DEF NoOrphanTask, ClusterExists
  <2>1. ASSUME NEW l \in LogObject, l.phase # "absent"
        PROVE  /\ MarkDeleted(l).phase # "absent"
               /\ [l EXCEPT !.phase = "deleting"].phase # "absent"
               /\ \A s \in Targets : [l EXCEPT !.storage = s].phase # "absent"
    BY <2>1 DEF MarkDeleted, LogObject
  <2>2. pass.spec \in Targets /\ log \in LogObject
    BY PassUpdates DEF TypeOK, Pass
  <2>3. CASE User
    BY <2>1, <2>2, <2>3 DEF User, CreateInstance, EditPITR, DeleteInstance,
       DeleteNamespace, CollectNamespace, RecreateNamespace, RequestRestore
  <2>4. CASE Sync
    BY <2>1, <2>2, <2>4 DEF Sync, StartPass, AbortPass, ReconcileDataSource, SyncLogBackup,
       WaitForStoppingStream, DropStream, DropCredentials, HoldStream, DecideToApply,
       WriteCredentials, ApplyLogBackup, Live
  <2>5. CASE Cleanup
    BY <2>1, <2>2, <2>5 DEF Cleanup, StopLogBackup, ReleaseLogBackup, CanRelease,
       DeleteCluster, FinishCleanup
  <2>6. CASE SyncRestore
    BY <2>6 DEF SyncRestore, RefuseRestore, ClearRestore, RetryRestore, CreateBRRestore
  <2>7. CASE Operator
    BY <2>7 DEF Operator, ClusterBecomesReady, ClusterDegrades, StartTask, StopTask,
       RemoveCluster, RemoveMembers, EndRestore
  <2>8. CASE RefreshCache \/ UNCHANGED vars
    BY <2>8 DEF RefreshCache, vars
  <2> QED BY <2>3, <2>4, <2>5, <2>6, <2>7, <2>8 DEF Next
<1> QED BY <1>1, <1>2, TypeCorrect, PTL DEF Spec

-----------------------------------------------------------------------------
(* The inductive invariant behind the rest, with an informer cache that does  *)
(* not lag. A pass that has decided to apply the log backup (at "creds" or    *)
(* "apply") must know that no stream to another storage exists, that the      *)
(* Secret it wrote is still the one it wrote, unless the namespace is being    *)
(* deleted and took it, and that the data source is                           *)
(* restored; no action of the user or the operator may take that away.        *)

PassAgreesWithLog ==
    /\ pass.at \in {"creds", "apply"} => log.phase = "absent" \/ log.storage = pass.spec
    /\ pass.at = "apply" =>
          creds = pass.spec \/ (namespace = "terminating" /\ creds = NoStorage)

PassAgreesWithSeed ==
    pass.at \in {"creds", "apply"} \/ pass.seeded
        => (hasSource => restore[Seed] = "succeeded")

GoneIsIdle ==
    /\ pass.at = "idle" => pass = Idle
    /\ instance = "gone" => pass.at = "idle"

AbsentIsNoLog == log.phase = "absent" => log = NoLog

LogInv ==
    /\ TypeOK
    /\ CredentialsMatchStream
    /\ NoOrphanTask
    /\ SeededBeforeStream
    /\ NameFreeOfOldCluster
    /\ PassAgreesWithLog
    /\ PassAgreesWithSeed
    /\ GoneIsIdle
    /\ AbsentIsNoLog


LEMMA LogInvInit == Init => LogInv
<1> SUFFICES ASSUME Init PROVE LogInv
  OBVIOUS
<1>1. TypeOK
  BY Constants, RestoreAssumption DEF Init, TypeOK, RestoreState
<1> QED
  BY <1>1 DEF Init, LogInv, CredentialsMatchStream, NoOrphanTask, SeededBeforeStream,
     NameFreeOfOldCluster, PassAgreesWithLog, PassAgreesWithSeed, GoneIsIdle,
     AbsentIsNoLog, NoLog, Idle, ClusterExists

(* How the updates of the log backup show in its fields.                      *)
LEMMA LogFields ==
  ASSUME NEW l \in LogObject, NEW s \in Targets
  PROVE  /\ MarkDeleted(l).storage = l.storage
         /\ MarkDeleted(l).phase = "absent" <=> l.phase = "absent"
         /\ l.phase = "absent" => MarkDeleted(l) = l
         /\ [l EXCEPT !.phase = "deleting"].storage = l.storage
         /\ [l EXCEPT !.phase = "deleting"].phase = "deleting"
         /\ [l EXCEPT !.storage = s].storage = s
         /\ [l EXCEPT !.storage = s].phase = l.phase
         /\ Live(s).storage = s /\ Live(s).phase = "live"
         /\ NoLog.phase = "absent" /\ NoLog.storage = NoStorage
  BY DEF LogObject, MarkDeleted, Live, NoLog

LEMMA PassFields ==
  ASSUME NEW p \in Pass, NEW b \in BOOLEAN,
         NEW at \in {"idle", "sync", "log", "creds", "apply"}
  PROVE  /\ [p EXCEPT !.at = at].at = at
         /\ [p EXCEPT !.at = at].spec = p.spec
         /\ [p EXCEPT !.at = at].seeded = p.seeded
         /\ [p EXCEPT !.at = "log", !.seeded = b].at = "log"
         /\ [p EXCEPT !.at = "log", !.seeded = b].seeded = b
         /\ Idle.at = "idle" /\ Idle.seeded = FALSE
  BY DEF Pass, Idle

LEMMA LogInvNext == ~scenario.lags /\ LogInv /\ TypeOK' /\ [Next]_vars => LogInv'
<1> SUFFICES ASSUME ~scenario.lags, LogInv, TypeOK', [Next]_vars PROVE LogInv'
  OBVIOUS
<1>fresh. View = log
  BY DEF View
<1>type. /\ log \in LogObject /\ pass \in Pass /\ pass.spec \in Targets
         /\ NoStorage \in Targets /\ restore \in [Restores -> RestoreState]
         /\ Seed \in Restores
  BY Constants, RestoreAssumption, PassUpdates DEF LogInv, TypeOK, Pass
<1> USE <1>fresh, <1>type, LogFields, PassFields DEF LogInv, CredentialsMatchStream,
    NoOrphanTask, SeededBeforeStream, NameFreeOfOldCluster, PassAgreesWithLog,
    PassAgreesWithSeed, GoneIsIdle, AbsentIsNoLog, ClusterExists
<1>1. CASE CreateInstance
  <2>1. log' = NoLog /\ log'.phase = "absent" /\ pass' = Idle /\ ~task' /\ instance' # "gone"
    BY <1>1 DEF CreateInstance
  <2> QED BY <2>1
<1>2. CASE EditPITR \/ DeleteInstance
  BY <1>2 DEF EditPITR, DeleteInstance
<1>3. CASE DeleteNamespace
  BY <1>3 DEF DeleteNamespace, TypeOK
<1>26. CASE CollectNamespace
  BY <1>26 DEF CollectNamespace
<1>4. CASE RecreateNamespace
  BY <1>4 DEF RecreateNamespace
<1>5. ASSUME NEW r \in Restores, RequestRestore(r) PROVE LogInv'
  BY <1>5 DEF RequestRestore
<1>6. CASE StartPass
  BY <1>6 DEF StartPass
<1>7. CASE AbortPass
  BY <1>7 DEF AbortPass
<1>8. CASE ReconcileDataSource
  BY <1>8 DEF ReconcileDataSource
<1>9. CASE WaitForStoppingStream \/ HoldStream
  <2>1. /\ pass' = Idle
        /\ UNCHANGED <<instance, hasSource, namespace, cluster, members, log, task, creds,
                       restore>>
    BY <1>9 DEF WaitForStoppingStream, HoldStream
  <2> QED BY <2>1
<1>10. CASE DropStream
  BY <1>10 DEF DropStream
<1>11. CASE DropCredentials
  BY <1>11 DEF DropCredentials
<1>12. CASE DecideToApply
  BY <1>12 DEF DecideToApply, ReadyForLogBackup
<1>13. CASE WriteCredentials
  BY <1>13 DEF WriteCredentials
<1>14. CASE ApplyLogBackup
  <2>1. /\ pass' = Idle /\ instance' # "gone"
        /\ creds' = pass.spec \/ (namespace' = "terminating" /\ creds' = NoStorage)
        /\ UNCHANGED <<instance, hasSource, cluster, members, task, creds, restore>>
    BY <1>14 DEF ApplyLogBackup
  <2>2. log'.storage = pass.spec /\ log'.phase # "absent"
    BY <1>14 DEF ApplyLogBackup
  <2>3. hasSource => restore[Seed] = "succeeded"
    BY <1>14 DEF ApplyLogBackup
  <2> QED BY <2>1, <2>2, <2>3
<1>15. CASE StopLogBackup
  BY <1>15 DEF StopLogBackup, Cleaning
<1>16. CASE ReleaseLogBackup
  BY <1>16 DEF ReleaseLogBackup, CanRelease, Cleaning
<1>17. CASE DeleteCluster
  BY <1>17 DEF DeleteCluster, Cleaning, StreamStopped
<1>18. CASE FinishCleanup
  <2>1. pass' = Idle /\ log' = NoLog /\ ~task'
    BY <1>18 DEF FinishCleanup, Cleaning, StreamStopped
  <2>2. ~members' /\ cluster' = "absent" /\ hasSource' = FALSE
    BY <1>18 DEF FinishCleanup, NothingLeft
  <2> QED BY <2>1, <2>2
<1>19. ASSUME NEW r \in Restores,
              RefuseRestore(r) \/ ClearRestore(r) \/ RetryRestore(r) \/ CreateBRRestore(r)
       PROVE  LogInv'
  BY <1>19 DEF RefuseRestore, ClearRestore, RetryRestore, CreateBRRestore
<1>20. CASE ClusterBecomesReady \/ ClusterDegrades
  BY <1>20 DEF ClusterBecomesReady, ClusterDegrades
<1>21. CASE StartTask \/ StopTask
  BY <1>21 DEF StartTask, StopTask
<1>22. CASE RemoveCluster
  BY <1>22 DEF RemoveCluster
<1>23. CASE RemoveMembers
  BY <1>23 DEF RemoveMembers
<1>24. ASSUME NEW r \in Restores, EndRestore(r) PROVE LogInv'
  BY <1>24 DEF EndRestore
<1>25. CASE RefreshCache \/ UNCHANGED vars
  BY <1>25 DEF RefreshCache, vars
<1> QED
  BY <1>1, <1>2, <1>3, <1>4, <1>5, <1>6, <1>7, <1>8, <1>9, <1>10, <1>11, <1>12, <1>13,
     <1>14, <1>15, <1>16, <1>17, <1>18, <1>19, <1>20, <1>21, <1>22, <1>23, <1>24, <1>25,
     <1>26 DEF Next, User, Sync, SyncLogBackup, Cleanup, SyncRestore, Operator

(* How current reads are never changes.                                      *)
LEMMA ScenarioStays == [Next]_vars => scenario' = scenario
  BY DEF Next, vars, CacheStays, User, CreateInstance, EditPITR, DeleteInstance, DeleteNamespace,
     CollectNamespace, RecreateNamespace, RequestRestore, Sync, StartPass, AbortPass, ReconcileDataSource,
     SyncLogBackup, WaitForStoppingStream, DropStream, DropCredentials, HoldStream,
     DecideToApply, WriteCredentials, ApplyLogBackup, Cleanup, StopLogBackup,
     ReleaseLogBackup, DeleteCluster, FinishCleanup, SyncRestore, RefuseRestore, ClearRestore, RetryRestore,
     CreateBRRestore, Operator, ClusterBecomesReady, ClusterDegrades, StartTask, StopTask,
     RemoveCluster, RemoveMembers, EndRestore, RefreshCache

LEMMA LogInvariant == Spec => [](~scenario.lags => LogInv)
<1>1. TypeOK /\ (~scenario.lags => LogInv) /\ [Next]_vars /\ TypeOK' => (~scenario.lags => LogInv)'
  BY LogInvNext, ScenarioStays
<1> QED BY <1>1, LogInvInit, TypeCorrect, PTL DEF Spec

(* With current reads the credentials Secret always holds the keys of the     *)
(* storage the existing log backup writes to, for any number of storages,     *)
(* edits and aborted passes (syncLogBackup); only a deleted namespace takes    *)
(* the Secret before the log backup.                                         *)
THEOREM CredentialsCorrect == Spec => []CredentialsMatchStream
<1>1. (~scenario.lags => LogInv) => CredentialsMatchStream
  BY DEF LogInv, CredentialsMatchStream
<1> QED BY <1>1, LogInvariant, PTL

(* With current reads no log backup exists before .spec.dataSource is restored *)
(* (readyForLogBackup).                                                      *)
THEOREM SeedingCorrect == Spec => []SeededBeforeStream
<1>1. (~scenario.lags => LogInv) => SeededBeforeStream
  BY DEF LogInv, SeededBeforeStream
<1> QED BY <1>1, LogInvariant, PTL

(* With current reads Cleanup releases an Instance name only once nothing of  *)
(* its cluster is left.                                                      *)
THEOREM ReleaseCorrect == Spec => []NameFreeOfOldCluster
<1>1. (~scenario.lags => LogInv) => NameFreeOfOldCluster
  BY DEF LogInv, NameFreeOfOldCluster
<1> QED BY <1>1, LogInvariant, PTL

(* With current reads, and while the namespace stays, the Cluster's teardown  *)
(* begins only once the log backup is gone (Cleanup).                         *)
THEOREM TeardownOrder == Spec => StreamStopsBeforeCluster
<1>1. ASSUME [Next]_vars, ~scenario.lags, cluster # "deleting", cluster' = "deleting", namespace' = "active"
      PROVE  log.phase = "absent"
  <2>1. DeleteCluster
    BY <1>1 DEF Next, vars, User, CreateInstance, EditPITR, DeleteInstance, DeleteNamespace,
       CollectNamespace, RecreateNamespace, RequestRestore, Sync, StartPass, AbortPass, ReconcileDataSource,
       SyncLogBackup, WaitForStoppingStream, DropStream, DropCredentials, HoldStream,
       DecideToApply, WriteCredentials, ApplyLogBackup, Cleanup, StopLogBackup,
       ReleaseLogBackup, FinishCleanup, SyncRestore, RefuseRestore, ClearRestore, RetryRestore,
       CreateBRRestore, Operator, ClusterBecomesReady, ClusterDegrades, StartTask, StopTask,
       RemoveCluster, RemoveMembers, EndRestore, RefreshCache
  <2> QED BY <1>1, <2>1 DEF DeleteCluster, StreamStopped, View
<1> QED BY <1>1, PTL DEF Spec, StreamStopsBeforeCluster

(* With current reads a log backup is never rewritten to another storage while *)
(* it exists (syncLogBackup).                                                *)
THEOREM MovesByRestart == Spec => StreamNeverMovesInPlace
<1>1. ASSUME LogInv, [Next]_vars, log.phase # "absent", log'.phase # "absent"
      PROVE  log'.storage = log.storage
  <2>1. log \in LogObject /\ pass.spec \in Targets
    BY <1>1, PassUpdates DEF LogInv, TypeOK, Pass
  <2>2. CASE ApplyLogBackup
    <3>1. log' = [log EXCEPT !.storage = pass.spec] /\ log.storage = pass.spec
      BY <1>1, <2>2 DEF ApplyLogBackup, LogInv, PassAgreesWithLog
    <3> QED BY <2>1, <3>1, LogFields
  <2>3. CASE StopTask \/ ReleaseLogBackup
    BY <1>1, <2>3 DEF StopTask, ReleaseLogBackup, NoLog
  <2>4. CASE CollectNamespace
    <3>1. log' = log \/ log' = MarkDeleted(log)
      BY <2>4 DEF CollectNamespace
    <3> QED BY <2>1, <3>1, LogFields, Constants
  <2>6. CASE DropStream \/ StopLogBackup \/ FinishCleanup
    <3>1. log' = MarkDeleted(log)
      BY <2>6 DEF DropStream, StopLogBackup, FinishCleanup
    <3> QED BY <2>1, <3>1, LogFields, Constants
  <2>5. CASE UNCHANGED log
    BY <2>5
  <2> QED
    BY <1>1, <2>2, <2>3, <2>4, <2>5, <2>6
       DEF Next, vars, User, CreateInstance, EditPITR, DeleteInstance, DeleteNamespace,
       RecreateNamespace, RequestRestore, Sync, StartPass, AbortPass, ReconcileDataSource, SyncLogBackup,
       WaitForStoppingStream, DropCredentials, HoldStream, DecideToApply, WriteCredentials,
       Cleanup, DeleteCluster, SyncRestore, RefuseRestore, ClearRestore, RetryRestore, CreateBRRestore,
       Operator, ClusterBecomesReady, ClusterDegrades, StartTask, RemoveCluster,
       RemoveMembers, EndRestore, RefreshCache
<1> QED BY <1>1, LogInvariant, PTL DEF Spec, StreamNeverMovesInPlace

=============================================================================
