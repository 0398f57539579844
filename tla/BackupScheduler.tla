---------------------------- MODULE BackupScheduler ----------------------------
(***************************************************************************)
(* The cron of scheduled backups (backup_schedule.go). A Reconcile pass      *)
(* reads the Instance and the Backups once, then visits every enabled         *)
(* schedule: it fires the latest slot that is still within the starting       *)
(* deadline, unless the cluster is not serving or a run is in progress, and   *)
(* deletes the Backups retention no longer keeps. Passes are requeued by a    *)
(* timer and by changes of the Instance and of scheduled Backups; everything  *)
(* they read may change before they write, and the provider may restart.      *)
(*                                                                           *)
(* One unit of time is scheduleRetryInterval. Schedules are named by their    *)
(* position, so a Backup is named by its schedule and slot, as                *)
(* scheduledBackupName does.                                                 *)
(***************************************************************************)
EXTENDS Integers, Sequences, FiniteSets, FiniteSetsExt

CONSTANTS
    Scenarios,  \* for each behaviour, the schedules: the slots (cron), a sequence of sets
                \* of times, and their retention; the ones the user switches on and off
                \* (editable); whether somebody else deletes their Backups (deletes);
                \* how far its clock goes (until), a bound
    Deadline,   \* scheduleStartingDeadline
    MaxTime     \* bound of every clock

Times == 0..MaxTime
Never == MaxTime + 1

RetentionTypes == [type : {"count", "time"}, n : Nat \ {0}]

ASSUME TimeAssumption == MaxTime \in Nat /\ Deadline \in Nat
ASSUME ScenarioAssumption ==
    \A s \in Scenarios :
        /\ s.cron \in Seq(SUBSET Times) /\ s.retention \in Seq(RetentionTypes)
        /\ Len(s.cron) = Len(s.retention)
        /\ s.editable \subseteq DOMAIN s.cron /\ s.deletes \in BOOLEAN /\ s.until \in Times
(* The shortest window retentionCutoff knows is a day, the deadline ten minutes. *)
ASSUME RetentionAssumption ==
    \A s \in Scenarios : \A i \in DOMAIN s.retention :
        s.retention[i].type = "time" => s.retention[i].n >= Deadline

VARIABLES
    spec,     \* the scenario
    now,      \* the clock
    enabled,  \* the enabled schedules of .spec.backup
    serving,  \* whether the Instance's phase is Ready or Updating
    backups,  \* the Backup of each schedule and slot
    fired,    \* the slots a Backup was ever created for
    queued,   \* whether the Instance is in the work queue
    timer,    \* when the queue adds it by itself
    late,     \* history: how long the last pass took
    pass      \* the Reconcile pass

vars == <<spec, now, enabled, serving, backups, fired, queued, timer, late, pass>>

Positions == UNION {DOMAIN s.cron : s \in Scenarios}
Schedules == DOMAIN spec.cron
Ids == {id \in Schedules \X Times : id[2] \in spec.cron[id[1]]}
NoBackup == [state |-> "none", deleting |-> FALSE, created |-> 0]
Backup == [state : {"none", "running", "succeeded", "failed"}, deleting : BOOLEAN,
           created : Times]

Idle == [at |-> "idle", i |-> 0, now |-> 0, enabled |-> {}, serving |-> FALSE,
         list |-> [id \in Ids |-> NoBackup], wake |-> Never]

Init ==
    /\ spec \in Scenarios
    /\ now = 0 /\ enabled \in SUBSET Schedules
    /\ serving \in BOOLEAN /\ backups = [id \in Ids |-> NoBackup] /\ fired = {}
    /\ queued = TRUE /\ timer = Never /\ late = 0 /\ pass = Idle

-----------------------------------------------------------------------------
(* latestSlot: no slot, or one. Mutant: the slot to come counts already.        *)
SlotsAhead(i, t) == {s \in spec.cron[i] : s >= t - Deadline /\ s <= t + 1}
SlotsInTime(i, t) == {s \in spec.cron[i] : s >= t - Deadline /\ s <= t}
LatestSlot(i, t) == {s \in SlotsInTime(i, t) : \A r \in SlotsInTime(i, t) : r <= s}

NextSlot(i, t) ==
    LET ahead == {s \in spec.cron[i] \cup {Never} : s > t} IN {s \in ahead : \A r \in ahead : s <= r}

Finished(b) == b.state \in {"succeeded", "failed"}

Running(b) == b.state = "running" /\ ~b.deleting
InProgressBackup(list, i) ==
    \E id \in Ids : id[1] = i /\ Running(list[id])

(* Newest first by creation, then by name.                                   *)
Newer(list, a, b) ==
    \/ list[a].created > list[b].created
    \/ list[a].created = list[b].created /\ a[2] > b[2]

FinishedOf(list, i) ==
    {id \in Ids : id[1] = i /\ Finished(list[id]) /\ ~list[id].deleting}
Good(list, i) == {id \in FinishedOf(list, i) : list[id].state = "succeeded"}

(* Mutants: count retention counts the failed runs as well; failed runs are   *)
(* never kept; time retention does not spare the newest success.             *)
ExpiredByAnyRun(list, i, t) ==
    {b \in FinishedOf(list, i) :
        Cardinality({g \in FinishedOf(list, i) : Newer(list, g, b)}) >= spec.retention[i].n}
ExpiredWhenFailed(list, i, t) == FinishedOf(list, i) \ Good(list, i)
ExpiredWithoutAnchor(list, i, t) ==
    {b \in FinishedOf(list, i) : list[b].created < t - spec.retention[i].n}

ExpiredBackups(list, i, t) ==
    IF spec.retention[i].type = "count"
    THEN {b \in FinishedOf(list, i) :
             Cardinality({g \in Good(list, i) : Newer(list, g, b)}) >= spec.retention[i].n}
    ELSE {b \in FinishedOf(list, i) :
             /\ list[b].created < t - spec.retention[i].n
             /\ list[b].state = "succeeded" => \E g \in Good(list, i) : Newer(list, g, b)}

-----------------------------------------------------------------------------
(* The pass.                                                                 *)

(* The enabled schedule after i, in the order of the spec, or the end.          *)
End == Len(spec.cron) + 1
Following(i, on) == {j \in on \cup {End} : j > i /\ \A k \in on : k > i => j <= k}

StartPass ==
    /\ pass.at = "idle" /\ queued
    /\ queued' = FALSE
    /\ \E first \in Following(0, enabled) :
          pass' = [at |-> "fire", i |-> first, now |-> now, enabled |-> enabled,
                   serving |-> serving, list |-> backups, wake |-> Never]
    /\ UNCHANGED <<spec, now, enabled, serving, backups, fired, timer, late>>

(* Mutant: the last schedule visited decides when to wake.                    *)
EarliestLast(a, b) == b
Earliest(a, b) == IF b < a THEN b ELSE a

Firing(i) == pass.at = "fire" /\ pass.i = i
Due(i) == {s \in LatestSlot(i, pass.now) : pass.list[<<i, s>>].state = "none"}

(* Mutants: a run in progress does not hold the slot; one of any schedule does. *)
HeldUnlessServing(i) == ~pass.serving
HeldByAnySchedule(i) == ~pass.serving \/ \E j \in Schedules : InProgressBackup(pass.list, j)
Held(i) == ~pass.serving \/ InProgressBackup(pass.list, i)

Visited(next) == pass' = [pass EXCEPT !.at = "prune", !.wake = Earliest(pass.wake, next)]

NothingDue(i) ==
    /\ Firing(i) /\ Due(i) = {}
    /\ \E next \in NextSlot(i, pass.now) : Visited(next)
    /\ UNCHANGED <<spec, now, enabled, serving, backups, fired, queued, timer, late>>

HoldSlot(i) ==
    /\ Firing(i) /\ Due(i) # {} /\ Held(i)
    /\ \E next \in NextSlot(i, pass.now) : Visited(Earliest(next, pass.now + 1))
    /\ UNCHANGED <<spec, now, enabled, serving, backups, fired, queued, timer, late>>

(* A Backup of that name that exists by now is left alone (AlreadyExists).    *)
FireDueSlot(i) ==
    /\ Firing(i) /\ ~Held(i)
    /\ \E s \in Due(i) :
          LET id == <<i, s>> IN
          /\ backups' = IF backups[id].state # "none" THEN backups
                        ELSE [backups EXCEPT ![id] =
                                [state |-> "running", deleting |-> FALSE, created |-> now]]
          /\ fired' = fired \cup {id}
          /\ queued' = (queued \/ backups' # backups)
    /\ \E next \in NextSlot(i, pass.now) : Visited(next)
    /\ UNCHANGED <<spec, now, enabled, serving, timer, late>>

MarkDeleted(ids) ==
    [id \in Ids |-> IF id \in ids /\ backups[id].state # "none"
                    THEN [backups[id] EXCEPT !.deleting = TRUE] ELSE backups[id]]

ApplyRetention(i) ==
    /\ pass.at = "prune" /\ pass.i = i
    /\ backups' = MarkDeleted(ExpiredBackups(pass.list, i, pass.now))
    /\ queued' = (queued \/ backups' # backups)
    /\ \E next \in Following(i, pass.enabled) : pass' = [pass EXCEPT !.at = "fire", !.i = next]
    /\ UNCHANGED <<spec, now, enabled, serving, fired, timer, late>>

(* A failing call ends the pass for the schedules after it too; the queue      *)
(* retries. Some of the expired Backups may already be deleted.               *)
FailPass ==
    /\ pass.at \in {"fire", "prune"} /\ pass.i \in Schedules
    /\ \E some \in SUBSET IF pass.at = "fire" THEN {}
                          ELSE ExpiredBackups(pass.list, pass.i, pass.now) :
         backups' = MarkDeleted(some)
    /\ pass' = Idle /\ queued' = TRUE
    /\ UNCHANGED <<spec, now, enabled, serving, fired, timer, late>>

(* RequeueAfter is the time from the pass's start to its wake; the queue counts *)
(* it from the pass's end. An earlier entry of the delaying queue stays.        *)
Delayed(wake) == IF wake = Never THEN Never ELSE Earliest(Never, now + (wake - pass.now))

EndPass ==
    /\ pass.at = "fire" /\ pass.i \notin Schedules
    /\ timer' = Earliest(timer, Delayed(pass.wake))
    /\ late' = now - pass.now
    /\ pass' = Idle
    /\ UNCHANGED <<spec, now, enabled, serving, backups, fired, queued>>

-----------------------------------------------------------------------------
(* The rest of the system.                                                   *)

Tick ==
    /\ now < spec.until /\ now' = now + 1
    /\ UNCHANGED <<spec, enabled, serving, backups, fired, queued, timer, late, pass>>

TimerFires ==
    /\ timer <= now /\ timer' = Never /\ queued' = TRUE
    /\ UNCHANGED <<spec, now, enabled, serving, backups, fired, late, pass>>

(* The user edits the schedules; every change of the Instance queues it.      *)
ToggleSchedule(i) ==
    /\ i \in spec.editable
    /\ enabled' = IF i \in enabled THEN enabled \ {i} ELSE enabled \cup {i}
    /\ queued' = TRUE
    /\ UNCHANGED <<spec, now, serving, backups, fired, timer, late, pass>>

InstanceChangesPhase ==
    /\ serving' = ~serving /\ queued' = TRUE
    /\ UNCHANGED <<spec, now, enabled, backups, fired, timer, late, pass>>

(* Mutant: a finished run does not queue the Instance.                        *)
QueuedByCreation(id) == queued

(* instanceForScheduledBackup.                                               *)
QueuedByBackup(id) == TRUE

FinishBackup(id) ==
    /\ backups[id].state = "running"
    /\ \E result \in {"succeeded", "failed"} :
         backups' = [backups EXCEPT ![id].state = result]
    /\ queued' = QueuedByBackup(id)
    /\ UNCHANGED <<spec, now, enabled, serving, fired, timer, late, pass>>

DeleteBackup(id) ==
    /\ spec.deletes /\ backups[id].state # "none" /\ ~backups[id].deleting
    /\ backups' = MarkDeleted({id})
    /\ queued' = QueuedByBackup(id)
    /\ UNCHANGED <<spec, now, enabled, serving, fired, timer, late, pass>>

(* CleanupBackup is done.                                                    *)
RemoveBackup(id) ==
    /\ backups[id].deleting
    /\ backups' = [backups EXCEPT ![id] = NoBackup]
    /\ queued' = QueuedByBackup(id)
    /\ UNCHANGED <<spec, now, enabled, serving, fired, timer, late, pass>>

Restart ==
    /\ queued' = TRUE /\ timer' = Never /\ pass' = Idle
    /\ UNCHANGED <<spec, now, enabled, serving, backups, fired, late>>

-----------------------------------------------------------------------------
LookForSlot(i) == NothingDue(i) \/ HoldSlot(i) \/ FireDueSlot(i)
Reconcile == StartPass \/ EndPass \/ \E i \in Schedules : LookForSlot(i) \/ ApplyRetention(i)

Environment ==
    \/ Tick \/ TimerFires \/ InstanceChangesPhase
    \/ \E i \in Schedules : ToggleSchedule(i)
    \/ \E id \in Ids : FinishBackup(id) \/ DeleteBackup(id) \/ RemoveBackup(id)

Next == Reconcile \/ FailPass \/ Environment \/ Restart

Spec == Init /\ [][Next]_vars

(* The worker never rests while there is work, and calls fail, or the provider  *)
(* restarts, only so many times.                                            *)
Fairness ==
    /\ WF_vars(Reconcile \/ TimerFires)
    /\ <>[][~FailPass /\ ~Restart]_vars

FairSpec == Spec /\ Fairness

-----------------------------------------------------------------------------
(* Properties.                                                               *)

(* Every variable stays in its range, and a Backup is never older than the    *)
(* slot it is named after.                                                   *)
TypeOK ==
    /\ spec \in Scenarios /\ now \in Times /\ enabled \subseteq Schedules
    /\ serving \in BOOLEAN /\ queued \in BOOLEAN /\ timer \in 0..Never
    /\ late \in Times
    /\ backups \in [Ids -> Backup] /\ fired \subseteq Ids
    /\ \A id \in Ids : backups[id].state # "none" => id \in fired /\ backups[id].created >= id[2]
    /\ pass \in [at : {"idle", "fire", "prune"}, i : 0..End,
                 now : Times, enabled : SUBSET Schedules, serving : BOOLEAN,
                 list : [Ids -> Backup], wake : 0..Never]

(* The scheduler implements ScheduledRuns: the runs of a schedule never overlap,  *)
(* although a pass decides on a list it read earlier; and with nobody else        *)
(* deleting Backups a slot never fires twice, although it counts as fired only    *)
(* while its Backup is there, which retention deletes (fireDueSlot, README:150).  *)
Runs == INSTANCE ScheduledRuns WITH
    Slots <- Positions \X Times, clock <- now, shared <- spec.deletes,
    taken <- IF spec.deletes THEN {id \in Ids : backups[id].state # "none"} ELSE fired,
    active <- {id \in Ids : Running(backups[id])}
ImplementsScheduledRuns == Runs!Spec

Resting == pass.at = "idle" /\ ~queued /\ now < timer

(* A slot that came due after the last pass began may wait as long as that pass  *)
(* took: that is how much the timer is late (backup_schedule.go:102, 131).       *)
SlotForgotten(i) ==
    /\ serving /\ ~InProgressBackup(backups, i)
    /\ \E s \in LatestSlot(i, now) : s + late <= now /\ <<i, s>> \notin fired

(* When the scheduler has nothing to do before its timer, no enabled schedule     *)
(* has a slot within its deadline that never fired, beyond the delay of a slow   *)
(* pass, unless the Instance is not serving or a run is in progress, and no       *)
(* Backup that count retention no longer keeps: neither the earliest of several   *)
(* wake times, nor an error in another schedule, nor a restart, nor a run's end    *)
(* is missed (Reconcile's RequeueAfter and instanceForScheduledBackup).          *)
NothingIsForgotten ==
    Resting => \A i \in enabled :
        /\ ~SlotForgotten(i)
        /\ spec.retention[i].type = "count" => ExpiredBackups(backups, i, now) = {}

(* With nobody else deleting Backups, retention keeps its promise: the newest *)
(* success is never deleted, and count N leaves N of them, however late the   *)
(* list a pass decides on (expiredBackups, README.md:152-153).                *)
RetentionKeepsGood ==
    [][~spec.deletes => \A i \in Schedules : Good(backups, i) # {} =>
        /\ \E g \in Good(backups, i) :
              g \in Good(backups', i) /\ \A h \in Good(backups, i) : h = g \/ Newer(backups, g, h)
        /\ spec.retention[i].type = "count" =>
              Cardinality(Good(backups', i)) >= Min({spec.retention[i].n, Cardinality(Good(backups, i))})]_vars

(* A due slot that nothing holds is not left waiting: it fires, or something    *)
(* holds it, or its deadline passes.                                         *)
DueSlotFires == \A i \in Positions : []<>~(i \in enabled /\ SlotForgotten(i))
=============================================================================
