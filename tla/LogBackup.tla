------------------------------ MODULE LogBackup ------------------------------
(***************************************************************************)
(* The BR log backup behind point-in-time recovery, over the life of one    *)
(* Instance name: it is started by the last steps of a Sync pass, moved or   *)
(* dropped when the spec changes, stopped by Cleanup before the TiDB cluster *)
(* is torn down, and kept apart from the restores that BR runs into the      *)
(* cluster (internal/provider/pitr.go, Cleanup in provider.go, SyncRestore   *)
(* in backup.go, reconcileDataSource in sync.go).                            *)
(*                                                                           *)
(* Three actors interleave: the Instance reconciler (one pass at a time,     *)
(* split where it reads and writes), the Restore reconciler, and TiDB        *)
(* Operator, which runs the stream and the restores and tears clusters down. *)
(***************************************************************************)
EXTENDS Naturals

CONSTANTS
    Storages,           \* the BackupStorages an Instance may name
    NoStorage,          \* no storage has point-in-time recovery enabled
    Restores,           \* Restore resources that target the Instance
    Seed,               \* the Restore made for .spec.dataSource
    Scenarios           \* lags: reads of the log backup may be stale; beside: TiKV is at
                        \* least brRestoreWithLogBackupVersion (v8.5.5); asked: the
                        \* Restores users ask for

ASSUME StorageAssumption == NoStorage \notin Storages
ASSUME RestoreAssumption == Seed \in Restores
ASSUME ScenariosAssumption ==
    Scenarios \subseteq [lags : BOOLEAN, beside : BOOLEAN, asked : SUBSET (Restores \ {Seed})]

VARIABLES
    scenario,   \* never changes
    instance,   \* "gone", "active" or "deleting" (deletionTimestamp set)
    hasSource,  \* whether the Instance has a .spec.dataSource
    want,       \* pitrStorage(.spec.backup)
    namespace,  \* "active" or "terminating"
    cluster,    \* the TiDB Cluster
    members,    \* whether any component group or member instance is left
    log,        \* the BR Backup "<instance>-pitr"
    seen,       \* that object as the informer cache last showed it
    task,       \* whether PD runs the log backup task
    creds,      \* the storage whose keys the stream's credentials Secret holds
    pass,       \* the Instance reconciler's Sync pass
    restore     \* the Restores and the BR Restore each one drives

vars == <<scenario, instance, hasSource, want, namespace, cluster, members, log, seen,
          task, creds, pass, restore>>

Targets == Storages \cup {NoStorage}

(* The log backup object: the storage it was annotated with, and whether it   *)
(* carries a deletionTimestamp.                                              *)
NoLog == [phase |-> "absent", storage |-> NoStorage]
Live(s) == [phase |-> "live", storage |-> s]
LogObject == [phase : {"absent", "live", "deleting"}, storage : Targets]

MarkDeleted(l) == IF l.phase = "live" THEN [l EXCEPT !.phase = "deleting"] ELSE l

(* Where a pass is: "sync" before reconcileDataSource, "log" before           *)
(* syncLogBackup reads, "creds" and "apply" before its two writes.            *)
Idle == [at |-> "idle", spec |-> NoStorage, seeded |-> FALSE]
Pass == [at : {"idle", "sync", "log", "creds", "apply"},
         spec : Targets, seeded : BOOLEAN]

RestoreState == {"absent", "requested", "cleared", "running", "succeeded", "failed"}

ClusterExists == cluster # "absent"
ClusterReady == cluster = "ready" /\ members

(* What a cached read returns, and the cache after a step that is not a       *)
(* refresh: without lag it follows the object.                                *)
View == IF scenario.lags THEN seen ELSE log
CacheStays == seen' = (IF scenario.lags THEN seen ELSE log') /\ UNCHANGED scenario

Init ==
    /\ scenario \in Scenarios
    /\ instance = "gone" /\ hasSource = FALSE /\ want = NoStorage
    /\ namespace = "active" /\ cluster = "absent" /\ members = FALSE
    /\ log = NoLog /\ seen = NoLog /\ task = FALSE /\ creds = NoStorage
    /\ pass = Idle /\ restore = [r \in Restores |-> "absent"]

-----------------------------------------------------------------------------
(* The user.                                                                 *)

CreateInstance ==
    /\ instance = "gone" /\ namespace = "active"
    /\ instance' = "active"
    /\ want' \in Targets /\ hasSource' \in BOOLEAN
    /\ restore' = [restore EXCEPT ![Seed] = "absent"]
    /\ UNCHANGED <<namespace, cluster, members, log, task, creds, pass>>
    /\ CacheStays

EditPITR ==
    /\ instance = "active"
    /\ want' \in Targets \ {want}
    /\ UNCHANGED <<instance, hasSource, namespace, cluster, members, log, task,
                   creds, pass, restore>>
    /\ CacheStays

DeleteInstance ==
    /\ instance = "active"
    /\ instance' = "deleting"
    /\ UNCHANGED <<hasSource, want, namespace, cluster, members, log, task,
                   creds, pass, restore>>
    /\ CacheStays

DeleteNamespace ==
    /\ namespace = "active" /\ instance # "gone"
    /\ namespace' = "terminating"
    /\ UNCHANGED <<instance, hasSource, want, cluster, members, log, task, creds,
                   pass, restore>>
    /\ CacheStays

(* The namespace controller deletes what it finds, in no order. The objects    *)
(* with a finalizer stay, marked; the credentials Secret has none and goes.   *)
CollectNamespace ==
    /\ namespace = "terminating"
    /\ \/ instance = "active" /\ instance' = "deleting" /\ UNCHANGED <<cluster, log, creds>>
       \/ cluster \in {"starting", "ready"} /\ cluster' = "deleting"
          /\ UNCHANGED <<instance, log, creds>>
       \/ log.phase = "live" /\ log' = MarkDeleted(log) /\ UNCHANGED <<instance, cluster, creds>>
       \/ creds # NoStorage /\ creds' = NoStorage /\ UNCHANGED <<instance, cluster, log>>
    /\ UNCHANGED <<hasSource, want, namespace, members, task, pass, restore>>
    /\ CacheStays

(* A deleted namespace can be made again once it is empty.                    *)
RecreateNamespace ==
    /\ namespace = "terminating" /\ instance = "gone" /\ ~ClusterExists
    /\ ~members /\ log = NoLog /\ creds = NoStorage
    /\ namespace' = "active" /\ restore' = [r \in Restores |-> "absent"]
    /\ UNCHANGED <<instance, hasSource, want, cluster, members, log, task, creds, pass>>
    /\ CacheStays

RequestRestore(r) ==
    /\ instance = "active" /\ namespace = "active" /\ r \in scenario.asked /\ restore[r] = "absent"
    /\ restore' = [restore EXCEPT ![r] = "requested"]
    /\ UNCHANGED <<instance, hasSource, want, namespace, cluster, members, log,
                   task, creds, pass>>
    /\ CacheStays

-----------------------------------------------------------------------------
(* The Instance reconciler, Instance not being deleted: SyncTiDB works with   *)
(* the spec the pass started from. A terminating namespace takes no new        *)
(* object: a pass that would create one fails.                                *)

StartPass ==
    /\ instance = "active" /\ pass.at = "idle"
    /\ pass' = [at |-> "sync", spec |-> want, seeded |-> FALSE]
    /\ IF ClusterExists THEN UNCHANGED <<cluster, members>>
       ELSE namespace = "active" /\ cluster' = "starting" /\ members' = TRUE
    /\ UNCHANGED <<instance, hasSource, want, namespace, log, task, creds, restore>>
    /\ CacheStays

(* Any call of the pass may fail; what it wrote before stays.                 *)
AbortPass ==
    /\ pass.at # "idle"
    /\ pass' = Idle
    /\ UNCHANGED <<instance, hasSource, want, namespace, cluster, members, log,
                   task, creds, restore>>
    /\ CacheStays

ReconcileDataSource ==
    /\ pass.at = "sync"
    /\ pass' = [pass EXCEPT !.at = "log",
          !.seeded = ~hasSource \/ (ClusterReady /\ restore[Seed] = "succeeded")]
    /\ IF hasSource /\ ClusterReady /\ restore[Seed] = "absent"
       THEN namespace = "active" /\ restore' = [restore EXCEPT ![Seed] = "requested"]
       ELSE restore' = restore
    /\ UNCHANGED <<instance, hasSource, want, namespace, cluster, members, log,
                   task, creds>>
    /\ CacheStays

(* Mutant: the data source is forgotten.                                      *)
ReadyUnseeded == ClusterReady

ReadyForLogBackup == pass.seeded /\ ClusterReady

(* A deleting stream keeps its prefix: the pass leaves it alone.              *)
WaitForStoppingStream ==
    /\ pass.at = "log" /\ View.phase = "deleting"
    /\ pass' = Idle
    /\ UNCHANGED <<instance, hasSource, want, namespace, cluster, members, log,
                   task, creds, restore>>
    /\ CacheStays

(* Mutant: only turning point-in-time recovery off drops the stream.          *)
DropStreamWhenOff ==
    /\ pass.at = "log" /\ View.phase = "live" /\ pass.spec = NoStorage
    /\ log' = MarkDeleted(log)
    /\ pass' = Idle
    /\ UNCHANGED <<instance, hasSource, want, namespace, cluster, members, task,
                   creds, restore>>
    /\ CacheStays

DropStream ==
    /\ pass.at = "log" /\ View.phase = "live" /\ View.storage # pass.spec
    /\ log' = MarkDeleted(log)
    /\ pass' = Idle
    /\ UNCHANGED <<instance, hasSource, want, namespace, cluster, members, task,
                   creds, restore>>
    /\ CacheStays

(* Mutant: the "storage == nil" case of the switch comes first.                *)
DropCredentialsOfStopping ==
    /\ pass.at = "log" /\ View.phase # "live" /\ pass.spec = NoStorage
    /\ creds' = NoStorage
    /\ pass' = Idle
    /\ UNCHANGED <<instance, hasSource, want, namespace, cluster, members, log,
                   task, restore>>
    /\ CacheStays

DropCredentials ==
    /\ pass.at = "log" /\ View.phase = "absent" /\ pass.spec = NoStorage
    /\ creds' = NoStorage
    /\ pass' = Idle
    /\ UNCHANGED <<instance, hasSource, want, namespace, cluster, members, log,
                   task, restore>>
    /\ CacheStays

HoldStream ==
    /\ pass.at = "log" /\ View.phase = "absent" /\ pass.spec # NoStorage
    /\ ~ReadyForLogBackup
    /\ pass' = Idle
    /\ UNCHANGED <<instance, hasSource, want, namespace, cluster, members, log,
                   task, creds, restore>>
    /\ CacheStays

(* Mutant: the storage annotation is not compared.                            *)
DecideToApplyAnyStorage ==
    /\ pass.at = "log" /\ pass.spec # NoStorage
    /\ View.phase = "live" \/ (View.phase = "absent" /\ ReadyForLogBackup)
    /\ pass' = [pass EXCEPT !.at = "creds"]
    /\ UNCHANGED <<instance, hasSource, want, namespace, cluster, members, log,
                   task, creds, restore>>
    /\ CacheStays

DecideToApply ==
    /\ pass.at = "log" /\ pass.spec # NoStorage
    /\ \/ View.phase = "absent" /\ ReadyForLogBackup
       \/ View.phase = "live" /\ View.storage = pass.spec
    /\ pass' = [pass EXCEPT !.at = "creds"]
    /\ UNCHANGED <<instance, hasSource, want, namespace, cluster, members, log,
                   task, creds, restore>>
    /\ CacheStays

(* ensureBRCredentials writes the keys of the pass's storage.                 *)
WriteCredentials ==
    /\ pass.at = "creds"
    /\ namespace = "active" \/ creds # NoStorage
    /\ creds' = pass.spec
    /\ pass' = [pass EXCEPT !.at = "apply"]
    /\ UNCHANGED <<instance, hasSource, want, namespace, cluster, members, log,
                   task, restore>>
    /\ CacheStays

(* Server-side apply: it creates the object or rewrites the one that is there.*)
ApplyLogBackup ==
    /\ pass.at = "apply"
    /\ namespace = "active" \/ log.phase # "absent"
    /\ log' = IF log.phase = "absent" THEN Live(pass.spec)
              ELSE [log EXCEPT !.storage = pass.spec]
    /\ pass' = Idle
    /\ UNCHANGED <<instance, hasSource, want, namespace, cluster, members, task,
                   creds, restore>>
    /\ CacheStays

-----------------------------------------------------------------------------
(* The Instance reconciler, Instance being deleted: Cleanup.                  *)

Cleaning == instance = "deleting" /\ pass.at = "idle"

StopLogBackup ==
    /\ Cleaning /\ View.phase = "live"
    /\ log' = MarkDeleted(log)
    /\ UNCHANGED <<instance, hasSource, want, namespace, cluster, members, task,
                   creds, pass, restore>>
    /\ CacheStays

(* Mutants: the finalizer is dropped at once, or never.                       *)
CanReleaseAtOnce == View.phase = "deleting"
CanReleaseNever == FALSE

CanRelease == View.phase = "deleting" /\ ~ClusterExists

(* Without a Cluster nobody can stop the stream: drop brFinalizer.            *)
ReleaseLogBackup ==
    /\ Cleaning /\ CanRelease
    /\ log' = NoLog
    /\ UNCHANGED <<instance, hasSource, want, namespace, cluster, members, task,
                   creds, pass, restore>>
    /\ CacheStays

(* Mutant: a stream asked to stop counts as stopped.                          *)
StreamAskedToStop == View.phase # "live"

StreamStopped == View.phase = "absent"

DeleteCluster ==
    /\ Cleaning /\ StreamStopped
    /\ ClusterExists /\ cluster # "deleting"
    /\ cluster' = "deleting"
    /\ UNCHANGED <<instance, hasSource, want, namespace, members, log, task,
                   creds, pass, restore>>
    /\ CacheStays

(* Mutant: only the Cluster is counted.                                       *)
OnlyClusterLeft == ~ClusterExists

NothingLeft == ~ClusterExists /\ ~members

(* The runtime drops the Instance's finalizer, and what the Instance owns (the *)
(* credentials Secret, a log backup the cache missed) is garbage-collected.   *)
FinishCleanup ==
    /\ Cleaning /\ StreamStopped /\ NothingLeft
    /\ instance' = "gone" /\ want' = NoStorage /\ hasSource' = FALSE
    /\ creds' = NoStorage /\ log' = MarkDeleted(log)
    /\ UNCHANGED <<namespace, cluster, members, task, pass, restore>>
    /\ CacheStays

-----------------------------------------------------------------------------
(* The Restore reconciler, up to the BR Restore it creates.                   *)

(* A stream that is stopping holds a restore back, Pending; one that runs      *)
(* fails it where BR cannot restore beside it.                                *)
BlockedByLogBackup == View.phase = "deleting"

FailedByLogBackup == View.phase = "live" /\ ~scenario.beside

RefuseRestore(r) ==
    /\ restore[r] = "requested" /\ ClusterExists /\ FailedByLogBackup
    /\ restore' = [restore EXCEPT ![r] = "failed"]
    /\ UNCHANGED <<instance, hasSource, want, namespace, cluster, members, log,
                   task, creds, pass>>
    /\ CacheStays

ClearRestore(r) ==
    /\ restore[r] = "requested" /\ ClusterExists
    /\ ~BlockedByLogBackup /\ ~FailedByLogBackup
    /\ restore' = [restore EXCEPT ![r] = "cleared"]
    /\ UNCHANGED <<instance, hasSource, want, namespace, cluster, members, log,
                   task, creds, pass>>
    /\ CacheStays

(* Storage, credentials and RBAC checks lie between the two; any may fail.    *)
RetryRestore(r) ==
    /\ restore[r] = "cleared"
    /\ restore' = [restore EXCEPT ![r] = "requested"]
    /\ UNCHANGED <<instance, hasSource, want, namespace, cluster, members, log,
                   task, creds, pass>>
    /\ CacheStays

CreateBRRestore(r) ==
    /\ restore[r] = "cleared" /\ namespace = "active"
    /\ restore' = [restore EXCEPT ![r] = "running"]
    /\ UNCHANGED <<instance, hasSource, want, namespace, cluster, members, log,
                   task, creds, pass>>
    /\ CacheStays

-----------------------------------------------------------------------------
(* TiDB Operator and the cluster.                                            *)

ClusterBecomesReady ==
    /\ cluster = "starting" /\ cluster' = "ready"
    /\ UNCHANGED <<instance, hasSource, want, namespace, members, log, task,
                   creds, pass, restore>>
    /\ CacheStays

ClusterDegrades ==
    /\ cluster = "ready" /\ cluster' = "starting"
    /\ UNCHANGED <<instance, hasSource, want, namespace, members, log, task,
                   creds, pass, restore>>
    /\ CacheStays

(* The operator starts the task through PD.                                   *)
StartTask ==
    /\ log.phase = "live" /\ cluster = "ready" /\ ~task
    /\ task' = TRUE
    /\ UNCHANGED <<instance, hasSource, want, namespace, cluster, members, log,
                   creds, pass, restore>>
    /\ CacheStays

(* It stops a deleted log backup through PD and deletes its data by a Job with *)
(* the credentials, then lets the object go.                                  *)
StopTask ==
    /\ log.phase = "deleting" /\ ClusterExists
    /\ task' = FALSE /\ log' = NoLog
    /\ UNCHANGED <<instance, hasSource, want, namespace, cluster, members,
                   creds, pass, restore>>
    /\ CacheStays

(* Teardown of a deleted Cluster; PD, and with it the task, goes with it.     *)
RemoveCluster ==
    /\ cluster = "deleting"
    /\ cluster' = "absent" /\ task' = FALSE
    /\ restore' = [r \in Restores |-> IF restore[r] = "running" THEN "failed" ELSE restore[r]]
    /\ UNCHANGED <<instance, hasSource, want, namespace, members, log, creds, pass>>
    /\ CacheStays

RemoveMembers ==
    /\ cluster \in {"deleting", "absent"} /\ members
    /\ members' = FALSE
    /\ UNCHANGED <<instance, hasSource, want, namespace, cluster, log, task,
                   creds, pass, restore>>
    /\ CacheStays

EndRestore(r) ==
    /\ restore[r] = "running" /\ ClusterExists
    /\ \E end \in {"succeeded", "failed"} : restore' = [restore EXCEPT ![r] = end]
    /\ UNCHANGED <<instance, hasSource, want, namespace, cluster, members, log,
                   task, creds, pass>>
    /\ CacheStays

(* The informer delivers the log backup as it is now.                         *)
RefreshCache ==
    /\ seen # log /\ seen' = log
    /\ UNCHANGED <<scenario, instance, hasSource, want, namespace, cluster, members, log,
                   task, creds, pass, restore>>

-----------------------------------------------------------------------------
User == CreateInstance \/ EditPITR \/ DeleteInstance \/ DeleteNamespace
        \/ CollectNamespace \/ RecreateNamespace \/ \E r \in Restores : RequestRestore(r)

SyncLogBackup == WaitForStoppingStream \/ DropStream \/ DropCredentials \/ HoldStream
                 \/ DecideToApply \/ WriteCredentials \/ ApplyLogBackup

Sync == StartPass \/ AbortPass \/ ReconcileDataSource \/ SyncLogBackup

Cleanup == StopLogBackup \/ ReleaseLogBackup \/ DeleteCluster \/ FinishCleanup

SyncRestore == \E r \in Restores : \/ RefuseRestore(r) \/ ClearRestore(r)
                                    \/ RetryRestore(r) \/ CreateBRRestore(r)

Operator == ClusterBecomesReady \/ ClusterDegrades \/ StartTask \/ StopTask
            \/ RemoveCluster \/ RemoveMembers \/ \E r \in Restores : EndRestore(r)

Next == User \/ Sync \/ Cleanup \/ SyncRestore \/ Operator \/ RefreshCache

Spec == Init /\ [][Next]_vars

(* A failed reconcile is requeued and a wait is polled, so a pass step that   *)
(* stays enabled, and Cleanup, happen; an error may hit any call, so a pass   *)
(* gets through only under strong fairness. The operator does what it is      *)
(* asked; it promises nothing about readiness, nor, where it cannot make a     *)
(* Job for it, about the stream's data. A namespace is collected.             *)
Fairness ==
    /\ WF_vars(Cleanup) /\ WF_vars(AbortPass)
    /\ WF_vars(StartPass) /\ SF_vars(ReconcileDataSource) /\ SF_vars(SyncLogBackup)
    /\ SF_vars(WriteCredentials) /\ SF_vars(ApplyLogBackup)
    /\ WF_vars(namespace = "active" /\ StopTask) /\ WF_vars(CollectNamespace)
    /\ WF_vars(RemoveCluster) /\ WF_vars(RemoveMembers) /\ WF_vars(RefreshCache)

FairSpec == Spec /\ Fairness

-----------------------------------------------------------------------------
(* Properties. Those with ~scenario.lags need reads that are up to date.       *)

(* Every variable stays in its range.                                        *)
TypeOK ==
    /\ scenario \in Scenarios
    /\ instance \in {"gone", "active", "deleting"}
    /\ hasSource \in BOOLEAN /\ want \in Targets
    /\ namespace \in {"active", "terminating"}
    /\ cluster \in {"absent", "starting", "ready", "deleting"}
    /\ members \in BOOLEAN
    /\ log \in LogObject /\ seen \in LogObject
    /\ task \in BOOLEAN /\ creds \in Targets
    /\ pass \in Pass /\ restore \in [Restores -> RestoreState]

(* As long as the log backup object exists, even while TiDB Operator is       *)
(* stopping it and deleting its data, its credentials Secret holds the keys   *)
(* of the storage it writes to, whatever edits and half-done passes occurred  *)
(* (syncLogBackup returns early for a deleting stream, before it touches the  *)
(* Secret). The one exception is a deleted namespace, which takes the Secret  *)
(* before the stream: that stream is let go with its Cluster.                 *)
CredentialsMatchStream ==
    ~scenario.lags /\ log.phase # "absent" =>
        creds = log.storage \/ (namespace = "terminating" /\ creds = NoStorage)

(* PD never runs a log backup task that has no object left to stop it by:     *)
(* stopLogBackup drops brFinalizer only once the Cluster is gone.             *)
NoOrphanTask == task => log.phase # "absent" /\ ClusterExists

(* Seeding and log backup exclude each other: until the Restore made for      *)
(* .spec.dataSource has succeeded the Instance has no log backup              *)
(* (readyForLogBackup).                                                      *)
SeededBeforeStream ==
    ~scenario.lags /\ hasSource /\ log.phase # "absent" => restore[Seed] = "succeeded"

(* An Instance name is free again only once nothing of the old cluster and    *)
(* its stream is left for a new Instance to run into (Cleanup).               *)
NameFreeOfOldCluster ==
    ~scenario.lags /\ instance = "gone" => ~ClusterExists /\ ~members /\ log = NoLog /\ ~task

(* Unless the namespace goes, the Cluster starts being torn down only once    *)
(* its log backup is gone, because stopping it needs PD (Cleanup: "A log      *)
(* backup is stopped first").                                                *)
StreamStopsBeforeCluster ==
    [][~scenario.lags /\ cluster # "deleting" /\ cluster' = "deleting" /\ namespace' = "active"
        => log.phase = "absent"]_vars

(* A stream is moved to another storage only by deleting it and starting a    *)
(* new one, never by rewriting the running one (syncLogBackup).               *)
StreamNeverMovesInPlace ==
    [][~scenario.lags /\ log.phase # "absent" /\ log'.phase # "absent" => log'.storage = log.storage]_vars

(* A deleted Instance is eventually released, also when its namespace goes    *)
(* and takes the Cluster and the stream's credentials with it, so that nobody *)
(* can stop the stream any more (stopLogBackup, Cleanup).                     *)
DeletionCompletes == instance = "deleting" ~> instance = "gone"

(* Once the user stops editing and the cluster stays ready and seeded, the    *)
(* stream and its credentials end up where the spec says, or are gone         *)
(* (syncLogBackup).                                                          *)
StreamFollowsSpec ==
    \A s \in Targets :
        <>[](instance = "active" /\ want = s /\ ClusterReady
                /\ (hasSource => restore[Seed] = "succeeded"))
            => <>[](log = (IF s = NoStorage THEN NoLog ELSE Live(s)) /\ creds = s)
=============================================================================
