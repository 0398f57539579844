# A TLA+ model of provider-tidb

provider-tidb is an OpenEverest provider: a Kubernetes controller that turns an
`Instance` into the custom resources of TiDB Operator v2, and `Backup` and
`Restore` resources into those of BR. Nearly all of its difficulty is not in any
one function but in what happens between its writes: every reconcile is a pass of
reads and writes that may fail anywhere and starts again from what it finds, reads
come from an informer cache, and the user, the operator and BR change the same
objects meanwhile. That is what these modules are about.

All paths below are under `src/`; `internal/provider/` is left out of file names.

## 1. The system

| Component | State it keeps | Operations | Modelled in |
|---|---|---|---|
| Log backup (point-in-time recovery), `pitr.go` | the BR Backup `<instance>-pitr`, its storage annotation, its credentials Secret | `syncLogBackup`, `stopLogBackup`, `readyForLogBackup`, `restoreBlockedByLogBackup` | `LogBackup` |
| Teardown, `provider.go` | finalizer of the Instance, Cluster, members | `Cleanup` | `LogBackup` |
| Seeding and restores, `backup.go`, `pitr.go`, `sync.go` | Restore status, BR Restore | `SyncRestore`, `startPointInTimeRestore`, `reconcileDataSource` | parts in `LogBackup`, `RootPassword`, `InstanceStatus`, `PITRWindow` |
| Session token signing, `session_token.go` | feature gates of the Cluster and the TiDB group, the signing Secret, TiDB's graceful wait | `newCluster/existingClusterSessionTokenSigning`, `ensureTLSSecrets`, `addTiDBGracefulWait` | `SessionToken` |
| Backup scheduler, `backup_schedule.go` | the scheduled Backups themselves, and an entry of the work queue | `Reconcile`, `fireDueSlot`, `applyRetention` | `BackupScheduler`, which implements `ScheduledRuns` |
| Root password, `credentials.go` | root Secret and its annotations, bootstrap ConfigMap, a Secret per Backup | `ensureRootPassword`, `recordBackupRootPassword`, `adoptRestoredRootPassword` | `RootPassword` |
| Instance status, `status.go` | `.status.phase` | `StatusTiDB`, `evaluateStatus` | `InstanceStatus` |
| Restorable window, `pitr.go` | `status.backup.storages[].pitr`, the BR Restore of a point in time | `pitrWindow`, `pitrBases`, `startPointInTimeRestore` | `PITRWindow` |
| TiDB sync pass, `sync.go` | the component groups | `SyncTiDB`, the `build*Group` functions, `syncTiFlash`, `syncTiProxy` | `InstanceSync`; the Cluster, the Secrets and the log backup in the modules above and below |
| Validation, `validate*.go` | none; it judges an edit by the running cluster | `ValidateTiDB` | `InstanceSync`, for TLS `TLSSecrets` |
| TiKV sizing, `tikv_sizing.go` | none | `tikvConfig` | `TikvSizing` |
| TLS, `tls.go`, `tls_certmanager.go` | CA and leaf Secrets, cert-manager's Certificates, the source annotated on the Cluster | `validateTLS`, `ensureTLSSecrets`, `ensureCA`, `currentSecret`, `adoptSecret` | `TLSSecrets` |
| PD DNS, `pd_dns.go` | the init container of a PD group | `addPDDNSWait` | `InstanceSync` |
| Monitoring, `monitoring.go` | the scrape objects | `validateMonitoring`, `syncMonitoring` | partly, `InstanceSync` |
| Backup execution, `backup.go` | BR Backup | `SyncBackup`, `CleanupBackup` | parts in `RootPassword`, `BackupScheduler`, `PITRWindow` |
| Provider process, `provider.go`, `main.go` | the work queue | watches, wiring | the watches, `InstanceSync` |
| RBAC, TiProxy configuration | none | idempotent applies, a rewriting of a text | not planned |
| `charts/`, `definition/`, `test/`, `dev/` | configuration and tests | | not planned |

How they interact. One worker at a time runs the Instance reconciler for an
Instance: `Validate`, `SyncTiDB`, `StatusTiDB`, or, once the Instance is being
deleted, `Cleanup`. Validation judges the spec by the groups as the cache shows them, and
what the pass then tells the groups is what the next validation finds.
`SyncTiDB` (sync.go:47-138) makes the root Secret and the
bootstrap ConfigMap, applies the Cluster, the TLS Secrets and the groups, asks
for the initial data and last looks after the log backup. The Backup, Restore and
scheduler reconcilers run beside it. They share the Kubernetes objects and nothing
else: the scheduler fires only in the phases the status derives, a restore waits
for or is refused because of the log backup, a finished restore changes the root
Secret that the next backup records.

What is hard: writes that must come in an order (the stream before the cluster it
is stopped through, a Secret before the pod that mounts it); a pass that fails
between two writes that belong together; a decision on what was read, applied when
it no longer holds; reads that miss the provider's own last write; state that is
only remembered as "the phase before" or "the Backup of that name exists"; Secrets of an
earlier Instance of the same name; edits that are each allowed, one on top of the other's
half-finished pass; timers that do not survive a restart. `PROJECT.json` lists these hazards with their lines.

## 2. The modules

Every module follows one pattern. Variables are Kubernetes objects, reduced to
what the properties tell apart, and the local state of a pass (`pass`), which is
what a step of the code knows from its earlier reads. A pass is split where it
reads or writes something that others may change; a failure can end it at any of
these points (`AbortPass`, `FailPass`). Where a pass may miss the provider's own last
write, reads go through a second copy of the object (`seen`) that `RefreshCache` brings
up to date; `lags`, of the scenario in LogBackup and a variable of its own in
SessionToken, which Init chooses and no step changes, says whether it may fall behind.
`Apply` is server-side apply with force, as sync.go:65-68 and the pruning of
sync.go:229-326 describe it: fields that a later apply leaves out are removed.
(status.go:120 speaks of a full Update; the two agree for the fields modelled here.)

**LogBackup** (pitr.go, provider.go, parts of sync.go and backup.go) has the life of
one Instance *name*: it may be deleted, with or without its namespace, and made
again. `StartPass`, `ReconcileDataSource` and the disjuncts of `SyncLogBackup` are
the pass: the `switch` of `syncLogBackup` gives `WaitForStoppingStream`,
`DropStream`, `DropCredentials`, `HoldStream` and `DecideToApply`, followed by the
two writes `WriteCredentials` and `ApplyLogBackup`. `Cleanup` is four actions, one
for each way a call of it ends. `ClearRestore` asks `restoreBlockedByLogBackup`;
`CreateBRRestore` comes a few calls later, and `RefuseRestore` is the restore that fails because
a log backup runs. TiDB Operator starts and stops the task
in PD, and a Cluster that goes takes PD and the task with it. A namespace that is deleted
(`DeleteNamespace`) takes no new object, and the namespace controller deletes what is in it in no
order (`CollectNamespace`): Instance, Cluster and log backup are marked and wait for their
finalizers, the credentials Secret has none and is gone at once. A stream whose credentials are
gone may never be stopped, as its data is deleted by a Job that needs them; then it goes with its
Cluster.

**SessionToken** (session_token.go, parts of sync.go and tls.go) has the three writes
of a pass that matter to signing: the Cluster with its gates, the signing Secret,
the TiDB group. The Cluster CRD freezes the gates until FeatureModification is on
(`CRDAccepts`), and the operator passes gates on to the group and then to its
instances, which come and go.

**BackupScheduler** (backup_schedule.go) has a clock whose unit is
`scheduleRetryInterval`, schedules as sets of slots, and Backups named by schedule
and slot. `StartPass` is the two reads of `Reconcile`; `NothingDue`, `HoldSlot` and
`FireDueSlot` are the ways through `fireDueSlot`, `ApplyRetention` follows for the same
schedule, and `EndPass` requeues. `Reconcile` returns the time from the pass's start to its wake,
and the queue counts it from the pass's end (`Delayed`): after a pass that took a while the timer
fires late, by what `late` remembers. The work queue is `queued` and `timer`, both lost
by `Restart`.

**RootPassword** (credentials.go, parts of backup.go) follows a password from its
generation through `bootstrapSQL` into TiDB (`root`), into what a backup records and
its snapshot holds, and back through restores, which complete in one order and are
reconciled in another, and again. The Instance, the Backups and the Restores have a worker each,
so the calls of a `SyncTiDB` pass, of a backup (`RecordPassword`, `CreateBRBackup`) and of an
adoption (`StartAdoption`, `ReadRecorded`, `ReadSource`, `ReadCurrent`, `ApplyPassword`,
`ReportRestore`) interleave, with those of BR (`TakeSnapshot`, `RestoreUsers`, `CompleteRestore`)
and of a user between them. Nothing keeps a backup, a restore and a user apart: the code asks for
the Cluster and nothing else. Completion times are whole seconds, and two restores may have the
same. Two variables are history: a backup is `stirred` when the password was changed while it was
taken, or was on its way to the Secret when it was recorded; `doubts` has the reasons why the
Secret need not hold the password of the last change of it.

**InstanceStatus** (status.go, `reconcileDataSource`) has the groups as the operator
reports them and the phase as the code derives it, with the sync and the status of
one reconcile as two steps between which groups change. `MissGroup` is a read of a core group that
fails or does not find it, which the code takes for a group that does not exist yet (status.go:30-41).

**PITRWindow** (pitr.go) has the positions of the log and of the full backups as TSOs, and
the window and the dates as the whole seconds Kubernetes writes (`Second`). Publishing the
window and starting a restore both read the log first (`OpenWindow`, `OpenStream`) and the
Backups after it (`PublishWindow`, `PickBase`); what a restore picked becomes final with
`CreateBRRestore`, which the cache shows later (`FindBRRestore`). Of the log backup only
whether it can be read matters here; LogBackup has the rest of its life. A window, and the
promise it makes to a restore asked for meanwhile (`promise`, `upto`), is forgotten when the log or a Backup is
deleted (`Invalidate`): nothing is claimed of it then.

**TikvSizing** (tikv_sizing.go) is the arithmetic of `tikvConfig`: thresholds, shares and
integer divisions, in KiB and MiB, which is what the code computes from bytes.

**InstanceSync** EXTENDS it and has the whole reconcile of a spec (validate*.go, sync.go,
pd_dns.go, monitoring.go). `ValidateTiDB` is the conjunction of its checks, each an operator on
the spec and the groups; `StartPass` and `RejectSpec` ask it of the groups in the cache
(`seen`). A pass keeps the spec it read and goes through `Steps`, one `SyncGroup` per component and
`SyncMonitoring` last; `FailPass` ends it anywhere. Events queue the Instance (`SeeGroups`,
`SeeMembers`). TiDB Operator and PD are the external side: `StartMembers`, `RollVersion` in the
upgrade order, `ScaleTiKV` one node at a time and never below the copies PD keeps, `RemoveGroup`.
Three variables are history for the properties: `synced`, the spec last let through; `edited`,
whether max-replicas was ever changed in PD's config; `misjudged`, whether an old read let
through what the groups ruled out.

**TLSSecrets** (tls.go, tls_certmanager.go, `buildCluster` of sync.go, `currentSecret` of
credentials.go) has the Cluster with its UID and its source, the five Secrets, the Certificates,
and the caches of both. A pass is `ApplyCluster`, `ReadOwner`, `SecureCA` (of `ensureCA`:
`ReadCA`, `ReportMissingCA`, `GenerateCA`, `ForeignBeforeCA`; with cert-manager `EnsureIssuer`),
one `IssueLeaf` after the other, in the order of `tlsLeaves`, and `ApplyTiDBGroup`. The
environment is the caches, garbage collection, cert-manager, and users who edit, delete the
Instance and make one of the same name, lose the CA, and then do what the provider's report asks
for. A Secret is its writer, its controller, its Certificate and its CA. Two variables note what
passes built on: `strayed`, settings judged before the caches showed the Cluster, which validation
refuses as soon as they do; `dropped`, settings without TLS on a Cluster with cert-manager's
annotation, which validation lets through on current reads until it sees `tlsCluster` or a TiDB
group that serves TLS.

**ScheduledRuns** is abstract: what scheduled backups promise, without passes, lists, queues
and names. `BackupScheduler` INSTANCEs it with a mapping (`Runs`), and `ImplementsScheduledRuns`
is its specification under that mapping. The slots taken are the ones ever fired; only where
others delete Backups are they the Backups that are there.

**RestorablePoints** is abstract: what a user of point-in-time recovery may count on, without
passes, streams and TSOs. Dates are on offer and only become more until a log or a Backup is
deleted (`Lose`); a Restore owes what was on offer when it was asked for: the date itself, or for
the latest point a point not before the latest date offered. `PITRWindow` INSTANCEs it as
`Points`: on offer are the seconds of the published window after its first (`Offered`).

The `MC*` modules only give constants their values and define symmetry sets and scenarios.
`*Proofs` hold the theorems. A definition marked `Mutant` is not part of the
model: it is a plausible mistake in the operator it is listed with in
`PROJECT.json`, and each property is known to fail under one.

## 3. The runs

| Run | Instance | Shows |
|---|---|---|
| `log` | two storages; the seed and another restore with current reads, the seed with stale ones; fair | CredentialsMatchStream, SeededBeforeStream, NameFreeOfOldCluster, StreamStopsBeforeCluster, StreamNeverMovesInPlace with current reads; NoOrphanTask, DeletionCompletes, StreamFollowsSpec with either |
| `signing` | two TiDB instances, current or stale reads, fair | NoVolumeAddedInPlace, MountedSecretExists, NeverRejected, GatesStay with current reads; EverySessionCanMove with either |
| `schedule` | four scenarios: count retention with edits, retention by age, Backups deleted by others, two schedules; fair | ImplementsScheduledRuns, NothingIsForgotten, RetentionKeepsGood, DueSlotFires |
| `password` | a backup of its own, one of another Instance, two restores, a user's changes | ConnectionWorks, QuietBackupsRemember, NewestRestoreWins, UserPasswordStays |
| `status` | seeded, two core groups and an optional one, fair | ReadyMeansRestored, UpdatesStayUpdates, CalmIsReady |
| `window` | two backups, one restore, seconds of two TSOs, fair | WindowIsHonoured, RestoreIsCovered, WindowOnlyGrows, ChosenOnce, ImplementsRestorablePoints, RestoreIsDecided |
| `sync` | seven families of specs, stale reads, fair | AcceptedIsStable, NoStuckScaleIn, ConfigFitsMemory, DataNeverGoesBack, SettledStays, SpecIsReached |
| `tls` | seven families of settings, one or two Instances of a name, stale reads, fair | OneCA, OneSource, IssuedOnce, CertificatesAreIssued |

The types are proved in all modules with proofs, so no run checks a `TypeOK` again. The
properties are stated, with the code they are about, at the end of each module. What the
newer ones say:

- **AcceptedIsStable**: what `ValidateTiDB` let through it does not refuse later, although the
  pass rewrites the groups it judged by one after the other, fails half-way, and went over the
  half-finished pass of another spec.
- **NoStuckScaleIn**: `validateTiKVScaleIn` looks at the spec only; what PD lets go is decided by
  the max-replicas PD took over when it bootstrapped. The two agree while max-replicas is not edited.
- **DataNeverGoesBack**: each edit is compared with the group as it is; together they never take a
  version or a volume back, and no member gets ahead of or behind its group the wrong way.
- **SettledStays**: once everything is as the spec says, a pass on however old a read changes
  nothing, so a provider's upgrade does not roll PD for its DNS wait.
- **OneCA**, **IssuedOnce**: Secrets are looked up by name in a cache, deleted when another Cluster
  controls them, and created only when missing. None of this ever hits a Secret of the same
  Cluster or leaves it with two CAs, a CA Secret that was lost and recovered included.
- **OneSource**: the provider issues nothing beside cert-manager's Certificates, whatever is edited
  between passes and on caches as old as they like. Two kinds of edits are left out, and both do
  lead to two issuers: those judged before the caches show the Cluster (`strayed`), and TLS turned
  off before there is a TiDB group (`dropped`).
- **CertificatesAreIssued**: what is left of another Instance does not keep the certificates from
  being issued.
- **CredentialsMatchStream**: a log backup always has the keys of its storage, through edits, failing
  passes and teardown. Only a deleted namespace takes them before the stream.
- **NothingIsForgotten**: a scheduler that rests has no slot to fire and nothing to prune. A slot may
  wait as long as the pass before took, as the timer counts from its end.
- **ConnectionWorks**: with backups, restores and a user beside one another the Secret ends up
  with TiDB's password, unless the last change of it is in doubt: a restore whose Backup was deleted
  (`lost`) or recorded nothing or not what it holds (`backup`), that failed after it replaced the users
  (`failed`), that met another within its second or had one beside it (`order`), or a user's change (`mixed`).
- **QuietBackupsRemember**: whoever restores a backup that nothing stirred gets the password recorded
  with it. The rest of the backups are what `password_beside` is about.
- **UpdatesStayUpdates**: no rollout, no group added or removed, and no read that misses an optional
  group makes an Instance that serves Provisioning, which holds its schedules back; only a core
  group that could not be read does.
- **ImplementsRestorablePoints**: a window is published from an old read of the log and a later
  one of the Backups, and so is a restore picked, with failures and hidden BR Restores between.
  Only a deletion takes an offer back, and the latest point never lies before the window that
  was published when it was asked for, nor changes once BR has it.

Runs that find a disagreement between the code and what it says of itself:

| Run | Property | Said by | What happens |
|---|---|---|---|
| `window_edge` | WholeWindowIsHonoured | README.md:307, pitr.go:325 | the window is published to start in the second of its base, that is before it; restoring that very point fails |
| `signing_wait` | SigningBringsWait | README.md:446-450 | a pass that fails after the Cluster's apply loses the graceful wait |
| `password_lost` | RestoresSwitchPassword | README.md:277-278 | a Backup deleted during its restore takes the password with it |
| `password_beside` | BackupsRemember | credentials.go:117-119 | a restore replaces `mysql.user` between a backup's recording and its snapshot |

None of them needs a stale read. What else came up while modelling, without a run of its own; where a
passing property leaves it out, the premise that does is named:

- Two restores that BR completes within one second: times are compared in whole seconds
  (credentials.go:187), so the one adopted first stays and both Restores succeed, although README.md:277-278
  has the Secret switch. (Doubt `order` of ConnectionWorks.)
- A read of the PD, TiKV or TiDB group that fails, a timeout for one, makes an Instance that serves
  Provisioning (status.go:30-41), which status.go:162-163 keeps for the first rollout and status.go:55-56
  avoids for TiFlash as it "would stick". (Conclusion of UpdatesStayUpdates.)
- A rollout that leaves a core group short shows a seeded Instance that serves as Restoring
  again, long after its restore: reconcileDataSource asks for a ready cluster before it asks whether the
  restore is done (sync.go:336-343), and sync.go:330-331 says "the Instance is held in Restoring until it
  completes". ReadyMeansRestored allows it, CalmIsReady only says that it ends.
- On an Instance of cert-manager, TLS turned off and TiProxy on before the TiDB group is there passes
  validation on current reads: settings without TLS name no source to compare (tls.go:391-393), although
  tls.go:373 "rejects changing the TLS settings of an existing cluster". The provider then makes a CA
  of its own for the session certificate beside cert-manager's Certificate of the CA. (`dropped`.)
- With max-replicas lowered in PD's config after it bootstrapped, a scale-in below the copies PD
  keeps is let through and stays stuck: the limit is read from the spec (validate_replicas.go:40),
  and validate_replicas.go:18-19 and README.md:115 say that such a scale-in is rejected. (`edited`.)
- A schedule that is added or enabled within the deadline after one of its slots fires that
  slot (backup_schedule.go:234), although backup_schedule.go:36 says that "adding a schedule never fires a past slot".
- TiFlash that is turned off on too few TiKV nodes stays, as README.md:127 says it does.
- The groups that validation read and the Cluster that `buildCluster` reads are read separately: a
  source edited right after the creation can get through (`strayed`), which is why OneSource leaves
  these edits out. TLS turned off over a Cluster of cert-manager (`dropped`) may also make `ensureCA`
  read cert-manager's CA Secret as its own and fail.
- A Secret that cert-manager writes after the last pass of a short-lived Instance is adopted by
  nobody and stays (tls_certmanager.go:209, README.md:574).
- `ensureCA` looks at the certificates the settings ask for. With TiProxy off its certificate may
  outlive a CA that was lost and made anew by hand; it is used again when TiProxy is turned on
  after only some of the certificates were deleted. The runs have users delete all of them.
- The same look finds nothing if the CA is lost while the caches do not show the TiDB group yet and
  the user, in one edit, turns `tls.client` off and TiProxy on: `validateTLS` lets that through until
  it sees the group, and the one certificate still wanted, TiProxy's session certificate, was not
  issued yet. A second CA is made beside the server certificate of the first. OneCA is proved for
  settings that share a certificate (`Settled`), as those of the scenario that loses the CA do.
- At exactly 8 GiB, where the provider stops sizing, TiKV's own block cache (45 %) and the runtime
  reserve add up to about 100 MiB more than its usage limit (75 %), though less than the pod's.
- `Cleanup` counts a log backup its cache does not show yet as stopped, and a Cluster read
  from before the last apply can lose a gate once TiProxy is off. LogBackup and SessionToken
  contain both behaviours; StreamStopsBeforeCluster and GatesStay are therefore claimed for
  current reads, NoOrphanTask, DeletionCompletes and EverySessionCanMove for any.
- From TiKV v8.5.5 on `restoreBlockedByLogBackup` lets every restore through beside a running
  log backup (`beside`), one of a point in time of another Instance's log included,
  which README.md:338 says BR refuses.
- A restore that was let through does not stop a log backup from being turned on before BR
  has finished it (`readyForLogBackup` does not look at restores).
- An Instance that served, failed and recovers rolls out as Provisioning too, since
  `evaluateStatus` remembers only the phase before; status.go:162-163 has it as Updating.

### Bounds

- Storages, TiDB instances: two each. The code treats a storage only as equal to or
  different from another; two suffice for every move there is, and two instances for
  "all of them" against "one of them".
- Restores: the seed and one more, or two, which is enough for an older and a newer
  one. The password model adds a backup of its own and one of another Instance,
  which may have recorded its password or not. A second own backup only differs in when it is
  taken, which the proofs cover for any number.
- `MaxTime` (3) and `Deadline` (1) of BackupScheduler: the clock stops at the scenario's `until`,
  2 or 3. It holds three slots of a schedule, which a run in progress, a held slot, a superseded
  slot and an expired Backup need; what the properties say does not depend on the clock
  going on, and `DueSlotFires` counts a slot whose deadline passes as no longer due.
- Scenarios: a record per behaviour of users. Each is as large as its behaviour needs, which
  keeps the product of all of them out of the state space. LogBackup: `Current` (reads that are up
  to date, a second restore, a TiKV whose BR refuses restores beside a log backup) and `Stale`
  (reads that lag, the seed alone, a TiKV whose BR does not). BackupScheduler: `Counted`, `Aged`,
  `Meddled` (others delete Backups), `Two`. InstanceSync: `Versions` (upgrades in and out of
  order over an Instance of an earlier provider), `Scaling`, `Copies` (max-replicas edited),
  `FewNodes` (TiFlash on and off), `ManyCopies`, `Resources` (memory and volumes around the
  thresholds), `Extras` (TiProxy, monitoring without its CRDs). TLSSecrets: `Again` and
  `AfterManaged` (two Instances of one name), `Lost` (the CA), `OtherSource`, `LateSource`,
  `LateInternal` (the source edited early), `Toggled`. Two versions, and two Instances of a
  name, are an older and a newer one; the proofs have no such bound.
- `Followed` (InstanceSync): after a pass that an old read let through against the groups, no
  passes and edits are followed; the properties claim nothing of what comes then.
- `CAs` (TLSSecrets): two more than Secrets and their cached copies can hold, so a new CA is
  always one nobody holds.
- Passwords: two generated ones, so that a second generation differs from the first,
  one of other Instances and one a user sets.
- The window has the clock 0 to 3 with two TSOs a second: a snapshot within a second and one
  on it, a date before, at and after each. Two backups complete in either order.
- The phase model has two core groups and one optional one: `evaluateStatus` asks
  "any" and "all" of them.

### Deadlock

Deadlock is checked in all runs but `log` and `sync`. In `sync` a cluster may be stuck in
PD or be beyond what `Followed` follows. In `log`, on stale reads, a namespace being deleted can leave
a log backup the cache had not shown, whose finalizer nobody removes once Instance and
Cluster are gone, and then nothing can happen any more. (`DeletionCompletes` holds:
it is the Instance that is released.)

### Fairness

A failed reconcile is requeued with back-off and a wait is polled, so each step of a
pass has fairness. As an error may hit any call, a pass gets to a later step only
under strong fairness of that step: calls do not fail for ever. `schedule` has another form: the worker
takes any step there is (`Reconcile`, `TimerFires`), and failures and restarts come to an
end. Starting a pass is weakly fair in the others, as are the caches, which catch up. `sync` asks
that of `StartPass` or `RejectSpec`, `SeeGroups` and the operator, and strong fairness of each
`SyncGroup` and of `SyncMonitoring`; `tls` weak fairness of `StartPass`, `ApplyTiDBGroup`, the
caches, the collection of Certificates and cert-manager, and strong fairness of `ApplyCluster`,
`ReadOwner`, `SecureCA` and each `IssueLeaf`. Garbage collection of Secrets is not assumed: the
provider deletes what is in its way.

TiDB Operator is assumed to go on with what it was asked (stopping a log backup, removing a cluster,
passing gates on, updating and scaling members) and a running log to keep up with the clock. A log
backup is only assumed to be stopped while its namespace stays: its data is deleted by a Job that
needs the credentials, and a terminating namespace takes no new Job. The namespace controller is
assumed to go on deleting what is in such a namespace. Beyond that, nothing is assumed of a cluster
becoming ready, of a user or of a Backup finishing: properties that need those have them in their
premise. BR finishing is assumed in `InstanceStatus` only.

## 4. The proofs

Eight modules of proofs, checked by TLAPS for every value of the constants: any number of
storages, members, schedules, backups and restores, any scenarios. Each has the same plan: an
invariant stronger than the properties, one lemma per action or group of actions that keeps it,
and the properties from it.

**LogBackupProofs.** `TypeCorrect` and `TaskHasObject` hold also with stale reads.
NoOrphanTask is inductive once the types are known: each of the three steps that removes
a log backup or a Cluster (`StopTask`, `ReleaseLogBackup`, `RemoveCluster`) takes the task
along, and `StartTask` needs both. The other properties have current reads as their premise, without
which they are false, so the invariant is `~scenario.lags => LogInv`. `LogInv` adds what a pass knows.
Between `WriteCredentials` and `ApplyLogBackup` the Secret holds the pass's storage unless a
terminating namespace took it, and then the namespace takes no log backup either; a log backup that is there at
all is the pass's own, because only this pass could have made it (`PassAgreesWithLog`); a
pass past `ReconcileDataSource` that believes the data is in is right, as a restore that
succeeded stays so (`PassAgreesWithSeed`); an Instance that is gone runs no pass
(`GoneIsIdle`); and an absent log backup is the object `NoLog` (`AbsentIsNoLog`).
`SeedingCorrect`, `ReleaseCorrect`, `TeardownOrder` and `MovesByRestart` follow from it step
by step.

**SessionTokenProofs.** `SigningTypeCorrect` holds on stale reads too. The four properties are
claimed for current reads, so the invariant is `~lags => SigningInv`. It says what the property
about instances leaves out: an object exists only below one that does (`Owned`); gates travel from
the Cluster to the group to the instances, so that an instance has no gate its group lacks, nor the
group one its Cluster lacks (`Inherited`); a pass adds to the Cluster's gates and adds signing only
where the CRD takes it (`PassKnows`); and the Secret exists whenever signing is on or decided on
(`SecretReady`). NoVolumeAddedInPlace itself is part of it: it carries, from the moment a pass finds
FeatureModification on every instance to the moment an instance signs, that instances made or
updated meanwhile get that gate too.

**InstanceStatusProofs.** The invariant says what a synced reconcile still knows when the
status is derived (`SyncKnows`): the groups exist, and a data source that was done is done,
as `restore` never leaves "succeeded". `SeededBeforeServing` follows. `UpdatesAreUpdates`
needs `ServingExists`: the groups of an Instance that serves exist, because the operator
removes only groups nobody wants. So Provisioning can only come of a reconcile that was blind to
one of them, which the theorem names and does not rule out: the code does it.

**InstanceSyncProofs.** Three theorems are arithmetic, for every limit: what the provider sizes
fits (`SizedMemoryFits`), a larger limit never gets smaller settings below the threshold
(`SizingIsMonotone`), and above it TiKV's own cache leaves room (`OwnCacheLeavesRoom`). The others
rest on `SyncInv`. Its centre is `VerdictHolds`: the spec last let through is acceptable to the
groups as they are, in the middle of its pass too. Each check is shown to survive the application
of one group of that very spec (`PassOfSynced`). `MembersFollow` (no member ahead of its group)
gives DataNeverGoesBack, `CopiesAgree` and `ScaleInFits` give NoStuckScaleIn: PD's copies, PD's
group and the spec are the same number unless it was edited.

**BackupSchedulerProofs.** `SchedulerImplementsRuns` is the refinement: Init maps to Init, every step
to a step of ScheduledRuns or a stutter. A pass decides on the list it read, so `SchedulerInv`
says how the list may lag: it is of an earlier time (`ListsAreTrue`); a run that is in progress and
of a schedule not yet visited was in progress in the list, as only this worker starts runs
(`RunsAreSeen`); and a slot whose Backup is gone lies behind a later slot or its deadline
(`GoneHavePassed`), which is why retention does not make it fire again.
`NothingForgotten` needs what a pass knows while nothing queues the Instance (`PassRemembers`: its
list is still true, and each schedule before the one it is at has its slot fired, its next slot
in the wake time and, counted, nothing to prune) and what that leaves when it rests
(`RestRemembers`): the same, with the wake time now the timer less `late`, the length of the pass that
set it. `RetentionIsKept` is about one step at a time: `ListKept` says that what a pass
has on its list as finished is still there unchanged until the pass prunes that schedule, so the
newest success and the N newest of the list (`RetentionSpares`) are ones of the Backups as well;
`PruneKeepsGood` then needs only cardinalities of finite sets, which any schedule's Backups are.

**RootPasswordProofs.** The Secret is behind between a restore and its adoption. `SecretFollows`
says by how much, as long as there are no doubts and no change of a user's: either the Secret has
root's password and no restore is on its way, or one restore `Leads`: root has what it brought, its
Backup is still there and recorded just that, no other restore is replacing users, and once
it is completed all others completed before. `AdoptInv` is what an adoption still knows between its
calls, which others interleave with: what it read to be recorded is recorded, and while it is about to
apply, the Secret's time is still earlier, as no two adoptions run at once. `RecordsInv` is for the
backups: as long as nothing stirred one, what it recorded is root's password, or before the bootstrap
the Secret's, until it ends, whatever restores are started beside it. `BootstrapInv` has the time before
TiDB takes its first password, `RestoresInv` and `BackupsInv` tie what a restore brings to what its
Backup holds, `TimesInv` the Secret's time to a restore's, and `AlteredInv` keeps a user's change apart
from restores. A step that starts something beside another (`RestoreUsers` beside a backup, two restores
within a second) either keeps these or adds to `stirred` or `doubts`, and which of the two is what
the lemmas decide. The set of restores is assumed finite, for a last one to exist.

**PITRWindowProofs.** Publishing and restoring read the log first and the Backups later. As long as
nothing is deleted, a log that was read is one that only went on since (`Fresh`), and the
window goes from a base to a checkpoint, each rounded down to a second (`WindowInv`). A restore
promised a date has a base before it (`RestoreInv`), as rounding keeps order (`SecondsKeepOrder`).
`WindowImplementsPoints` is the refinement. Every step is named as one of RestorablePoints or as
one nobody sees (`SourcesStep`, `DeleteStep`, `WindowStep`, `RestoreSteps`). Besides `PITRInv` it
needs `OwedInv`: a pass reads or has picked but not both, what it picked for a date is that date,
and the end of the window that a latest point owes is behind the log, behind the log as it was
read, and behind the point picked. `EdgeInv` adds the window's first second, where the run
`window_edge` finds a promise broken: `EdgeIsRounding` shows that a promised date is refused there
only because its base's snapshot lies later within that same second, and for no other reason.

**TLSSecretsProofs.** Passes act on names and old reads, for any number of Instances of the name.
`TouchedInv`: nothing belongs to a Cluster before the cache shows it, as the owner of a Secret is
the Cluster read back. `SeenInv`: the cache never shows a Secret of this Cluster as another
Cluster's, so none is deleted for another's. `CAInv` and `KeptInv` follow the CA through a pass.
`IssuedOnceHolds` has no premise. `OneSourceHolds` rests on `SourceInv`: unless settings were
judged too early (`strayed`) or dropped TLS over cert-manager (`dropped`), a pass's source is the
Cluster's, and what is issued is of that source. Both exceptions are part of OneSource, and section 3
has what the code does in them. `OneCAWhileKept` proves OneCA for
behaviours in which nobody loses the CA. `OneCAThoughLost` has it with a lost CA, for settings that
share a certificate (`Settled`; without it OneCA is false, see section 3). Its invariant `LossInv`
says why: while the CA of a Cluster is missing, a certificate all settings want is there and shown
(`AnchorInv`), which makes `ensureCA` report it instead of making another; once users act on that
report no pass holds the lost CA nor could still read it (`ReportInv`); and what is issued, what a
pass is about to issue and what the cache shows is of one CA (`OneInv`).

Every safety invariant and action property that a passing run checks, and both refinements, are
stated by a theorem. Only model-checked are liveness, which this prover does not reach
(`DeletionCompletes`, `StreamFollowsSpec`, `EverySessionCanMove`, `DueSlotFires`, `CalmIsReady`,
`RestoreIsDecided`, `SpecIsReached`, `CertificatesAreIssued`), and the runs that find a violation.
Theorems with a premise say less than the runs in nothing but that premise: current reads (LogBackup,
SessionToken) are the premise of the properties themselves, `Settled` holds in the
scenarios of the run. TLC evaluates the assumptions on the constants in every run.

## 5. What is left out

- The contents of what is applied: images, resources, volumes' classes, labels, the text of
  configurations (TOML), scheduling, RBAC objects, what the scrape objects say, the contents of
  certificates. `pruneNulls` and the rest of the overlay are data.
- What cert-manager does with a Secret that is there already, an issuer of the user's own, and
  old Secrets of the provider's that an Instance of cert-manager adopts.
- `CleanupBackup` and `CleanupRestore` beyond the removal of the object, the clean policy, and the
  S3 checks before a backup: waits and I/O outside the cluster.
- Schedules of the same name on two storages, which would share their runs; whether
  that can be is decided by OpenEverest's API.
- The checks of a spec by itself (names, numbers of replicas, the form of versions), which read
  no state: `wellFormed` in InstanceSync.
- A restore of a point in time fails at once on a source it cannot use (pitr.go:381, 428, 475), and bases
  older than what a log was truncated to do not count (`truncatedUntil`, pitr.go:275); PITRWindow has
  one log that is read or not, and never truncated.
- A PD group whose image is empty gets no DNS wait (pd_dns.go:47); the groups of the model have images.
- A PD configuration that cannot be parsed is refused on a scale-in only (validate_replicas.go:40-43);
  such specs are not `wellFormed` in InstanceSync.
- A completed restore whose BR Restore has no completion time counts from the creation
  (backup.go:280-283); BR sets that time.
- The CA is lost only while the caches show it and all certificates wanted are issued (`LoseCA`).
  What follows when it is lost earlier is in section 3.
- TiProxy's configuration, RBAC, `main.go`, charts and the provider definition have no state that
  a sequence of steps could bring out of order.

Five hazards have no property, and no model would give them an honest one:

- backup.go:222: a restore that was let through does not hold back a log backup; what BR does with
  both is BR's.
- backup_schedule.go:95: the scheduler's own stale reads. Two slots are minutes apart and a cache
  is late by seconds; nothing but time protects this, and a model without time would only say so.
- credentials.go:72: a read that misses the Secret just written. The next pass is queued by an
  event of what was written.
- sync.go:332: an Instance that was seeded goes back to Restoring in a rollout. The code does so
  (section 3); what one could claim of it is that it ends, which CalmIsReady does.
- pitr.go:283: a base that is being deleted counts for the window; when BR removes its data is not
  in this repository.

## 6. Plan

Done, in this order: LogBackup, SessionToken, BackupScheduler, RootPassword, InstanceStatus and
PITRWindow with their runs; InstanceSync with TikvSizing, TLSSecrets, the refinement of
ScheduledRuns; the proofs of all of them; what a resting scheduler remembers, what retention keeps,
a lost CA, the refinement of RestorablePoints, and what the window's edge is worth. What would come next:

1. Abstract specifications of a connection Secret for RootPassword, of an authority for TLSSecrets
   and of a stream that follows its storage for LogBackup, with their refinements proved.
2. What the runs `signing_wait`, `password_lost` and `password_beside` find, bounded by theorems as
   `EdgeIsRounding` bounds what `window_edge` finds.
3. Compositions: BackupScheduler with RootPassword (retention deleting the source of a
   restore), InstanceStatus with BackupScheduler (a phase that flickers and a held slot).
