---------------------------- MODULE InstanceStatus ----------------------------
(***************************************************************************)
(* The phase of an Instance (status.go, and reconcileDataSource in sync.go). *)
(* A reconcile first syncs, which decides whether the initial data is there,  *)
(* and then derives the phase from the component groups, the operator's        *)
(* problems and the phase before. The groups change between the two, and the   *)
(* phase is the only memory: BackupScheduler fires on Ready and Updating.     *)
(***************************************************************************)
CONSTANTS
    Core,    \* the groups every cluster has: PD, TiKV, TiDB
    Extra,   \* the groups a user adds and removes: TiFlash, TiProxy
    Seeded,  \* whether .spec.dataSource is set
    CanFail  \* whether an instance may get stuck

ASSUME StatusAssumption ==
    /\ Core # {} /\ Core \cap Extra = {} /\ Seeded \in BOOLEAN /\ CanFail \in BOOLEAN

VARIABLES
    wanted,   \* the enabled groups
    groups,   \* each group: absent, starting (replicas missing), rolling or converged
    stuck,    \* the groups with a fatal problem
    restore,  \* the Restore that brings the initial data
    ds,       \* the data source status of this reconcile
    phase,    \* .status.phase
    pass      \* idle, synced, or blind: a core group could not be read since

vars == <<wanted, groups, stuck, restore, ds, phase, pass>>

Groups == Core \cup Extra

Init ==
    /\ \E extra \in SUBSET Extra : wanted = Core \cup extra
    /\ groups = [g \in Groups |-> "absent"] /\ stuck = {} /\ restore = "none"
    /\ ds = "unset" /\ phase = "None" /\ pass = "idle"

-----------------------------------------------------------------------------
ClusterExists == \A g \in Core : groups[g] # "absent"

ClusterReady == \A g \in Core : groups[g] \in {"rolling", "converged"}

(* Mutant: nothing is reported while the cluster is not ready.                *)
DataSourceUnreported ==
    IF ~Seeded \/ ~ClusterReady THEN "unset"
    ELSE IF restore = "succeeded" THEN "done" ELSE "restoring"

(* reconcileDataSource; the runtime is done when its Restore succeeded.       *)
DataSourceStatus ==
    IF ~Seeded THEN "unset"
    ELSE IF ~ClusterReady THEN "waiting"
    ELSE IF restore = "succeeded" THEN "done" ELSE "restoring"

(* SyncTiDB applies the wanted groups and starts the Restore. The removal of   *)
(* an unwanted group is up to the operator.                                  *)
Sync ==
    /\ pass = "idle" /\ pass' = "synced"
    /\ ds' = DataSourceStatus
    /\ restore' = IF ds' = "restoring" /\ restore = "none" THEN "running" ELSE restore
    /\ groups' = [g \in Groups |-> IF g \in wanted /\ groups[g] = "absent"
                                   THEN "starting" ELSE groups[g]]
    /\ UNCHANGED <<wanted, stuck, phase>>

Converged(g) == g \in wanted /\ groups[g] = "converged"

(* A wanted group the cache does not show yet is pending like a starting one. *)
Reported == {g \in Groups : g \in wanted \/ groups[g] # "absent"}

(* Mutants: the phase before does not count; a failure is never left.         *)
PhaseOfGroups ==
    IF ds \in {"waiting", "restoring"} THEN "Restoring"
    ELSE IF \E g \in Reported : groups[g] \in {"absent", "starting"} THEN "Provisioning" ELSE "Ready"
PhaseAfterFailure ==
    IF ds \in {"waiting", "restoring"} THEN "Restoring"
    ELSE IF stuck # {} \/ phase = "Failed" THEN "Failed"
    ELSE IF \A g \in Reported : Converged(g) THEN "Ready" ELSE "Updating"

(* StatusTiDB and evaluateStatus. Any error of reading a core group counts as *)
(* a group that does not exist yet.                                          *)
NextPhase ==
    IF ds \in {"waiting", "restoring"} THEN "Restoring"
    ELSE IF pass = "blind" \/ ~ClusterExists THEN "Provisioning"
    ELSE IF stuck \cap Reported # {} THEN "Failed"
    ELSE IF \A g \in Reported : Converged(g) THEN "Ready"
    ELSE IF phase \in {"Ready", "Updating"} THEN "Updating"
    ELSE "Provisioning"

(* The Get of a core group fails, or does not find it.                       *)
MissGroup ==
    /\ pass = "synced" /\ pass' = "blind"
    /\ UNCHANGED <<wanted, groups, stuck, restore, ds, phase>>

Status ==
    /\ pass # "idle" /\ pass' = "idle"
    /\ phase' = NextPhase
    /\ ds' = "unset"
    /\ UNCHANGED <<wanted, groups, stuck, restore>>

(* A call of SyncTiDB fails, or a later one of StatusTiDB (TiFlash, TiProxy,  *)
(* the instances' problems): the phase stays.                                *)
AbortPass ==
    /\ pass = "synced" /\ pass' = "idle" /\ ds' = "unset"
    /\ UNCHANGED <<wanted, groups, stuck, restore, phase>>

-----------------------------------------------------------------------------
(* The user, TiDB Operator and BR.                                           *)

ToggleGroup(g) ==
    /\ g \in Extra
    /\ wanted' = IF g \in wanted THEN wanted \ {g} ELSE wanted \cup {g}
    /\ UNCHANGED <<groups, stuck, restore, ds, phase, pass>>

(* A change rolls a group, with or without a replica missing meanwhile.       *)
RollGroup(g) ==
    /\ groups[g] \in {"rolling", "converged"}
    /\ \E s \in {"starting", "rolling"} \ {groups[g]} : groups' = [groups EXCEPT ![g] = s]
    /\ UNCHANGED <<wanted, stuck, restore, ds, phase, pass>>

GroupAdvances(g) ==
    /\ groups[g] \in {"starting", "rolling"} /\ g \notin stuck
    /\ \E s \in {"rolling", "converged"} \ {groups[g]} : groups' = [groups EXCEPT ![g] = s]
    /\ UNCHANGED <<wanted, stuck, restore, ds, phase, pass>>

RemoveGroup(g) ==
    /\ g \notin wanted /\ groups[g] # "absent"
    /\ groups' = [groups EXCEPT ![g] = "absent"] /\ stuck' = stuck \ {g}
    /\ UNCHANGED <<wanted, restore, ds, phase, pass>>

GetStuck(g) ==
    /\ CanFail /\ groups[g] = "starting" /\ stuck' = stuck \cup {g}
    /\ UNCHANGED <<wanted, groups, restore, ds, phase, pass>>

(* The user repairs what was wrong.                                          *)
Recover(g) ==
    /\ stuck' = stuck \ {g}
    /\ UNCHANGED <<wanted, groups, restore, ds, phase, pass>>

RestoreSucceeds ==
    /\ restore = "running" /\ restore' = "succeeded"
    /\ UNCHANGED <<wanted, groups, stuck, ds, phase, pass>>

-----------------------------------------------------------------------------
Operator(g) == RollGroup(g) \/ GroupAdvances(g) \/ RemoveGroup(g) \/ GetStuck(g) \/ Recover(g)

Next == Sync \/ MissGroup \/ Status \/ AbortPass \/ RestoreSucceeds
        \/ \E g \in Groups : ToggleGroup(g) \/ Operator(g)

Spec == Init /\ [][Next]_vars

(* Reconciles are requeued and do not fail forever; BR finishes.              *)
Fairness == WF_vars(Sync) /\ SF_vars(Status) /\ WF_vars(RestoreSucceeds)

FairSpec == Spec /\ Fairness

-----------------------------------------------------------------------------
(* Properties.                                                               *)

(* Every variable stays in its range; a data source status is only known      *)
(* within a reconcile, and only to an Instance that has a data source.        *)
TypeOK ==
    /\ Core \subseteq wanted /\ wanted \subseteq Groups /\ stuck \subseteq Groups
    /\ groups \in [Groups -> {"absent", "starting", "rolling", "converged"}]
    /\ restore \in {"none", "running", "succeeded"}
    /\ phase \in {"None", "Restoring", "Provisioning", "Updating", "Ready", "Failed"}
    /\ pass \in {"idle", "synced", "blind"}
    /\ ds \in (IF pass = "idle" THEN {"unset"}
               ELSE IF Seeded THEN {"waiting", "restoring", "done"} ELSE {"unset"})

(* An Instance is not served, and so not backed up by a schedule, before its  *)
(* initial data is there, although its groups may converge between the sync    *)
(* and the status of one reconcile ("hold the Instance in Restoring so it only *)
(* becomes Ready once the data is restored", status.go:23-24).               *)
ReadyMeansRestored == Seeded /\ phase \in {"Ready", "Updating"} => restore = "succeeded"

(* A serving Instance loses its phase to Provisioning only in a reconcile     *)
(* that could not read a core group (status.go:30-41): no rollout, no group    *)
(* added or removed and no read that misses an optional group does it, so      *)
(* schedules go on (status.go:55-56).                                        *)
UpdatesStayUpdates ==
    [][(phase \in {"Ready", "Updating"} /\ phase' = "Provisioning") => pass = "blind"]_phase

Calm == (\A g \in Reported : Converged(g)) /\ stuck = {} /\ pass # "blind"

(* Once everything has converged, stays so and can be read, the Instance is    *)
(* Ready for good, whatever phases it went through (evaluateStatus).          *)
CalmIsReady == <>[]Calm => <>[](phase = "Ready")
=============================================================================
