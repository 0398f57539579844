----------------------------- MODULE InstanceSync -----------------------------
(***************************************************************************)
(* The whole reconcile of an Instance that is not being deleted: ValidateTiDB *)
(* judges the spec by the groups as they are, SyncTiDB then tells one group   *)
(* after the other what to be, and TiDB Operator rolls that out in its own    *)
(* order. Users edit the spec at any time, a pass works on the spec it read,  *)
(* and may fail between any two of its writes (validate*.go, sync.go,          *)
(* tikv_sizing.go, pd_dns.go, monitoring.go).                                 *)
(*                                                                           *)
(* Of the specs only what validation and the groups depend on is kept;        *)
(* versions are ranked by semver. TLS has a module of its own (TLSSecrets).    *)
(* The groups are read through a cache that lags behind, by any time.          *)
(***************************************************************************)
EXTENDS TikvSizing, FiniteSets, Sequences

CONSTANTS
    Scenarios   \* for each behaviour: the specs a user may ask for (specs), whether the Instance
                \* was made by an earlier provider (legacy, then with the spec legacySpec) and
                \* whether the CRDs of the monitoring operators are installed (crds)

Core == {"pd", "tikv", "tidb"}
Optional == {"tiflash", "tiproxy"}
Components == Core \cup Optional
Stateful == {"pd", "tikv", "tiflash"}

(* A user's spec, defaults filled in: wellFormed stands for the checks of the   *)
(* spec alone, with that of PD's config, which is only made on a scale-in; ver    *)
(* for the versions, after the bundle is resolved; on for the optional           *)
(* components with replicas; stores for TiKV's replicas; copies for max-replicas  *)
(* in PD's config; size for the volumes; limit for TiKV's memory limit and user    *)
(* for the settings in TiKV's own config; scrape for monitoring.                 *)
UserSpec ==
    [wellFormed : BOOLEAN, ver : [Components -> Nat \ {0}], on : SUBSET Optional, stores : Nat \ {0},
     copies : Nat \ {0}, size : [Stateful -> Nat \ {0}], limit : Nat,
     user : SUBSET {"memory", "reserve-space"}, scrape : BOOLEAN]

ASSUME ScenarioAssumption ==
    \A s \in Scenarios :
        /\ s.specs # {} /\ s.specs \subseteq UserSpec /\ s.legacySpec \in UserSpec
        /\ s.legacy \in BOOLEAN /\ s.crds \in BOOLEAN

VARIABLES
    scenario,
    spec,     \* the Instance's spec
    group,    \* the component groups, as applied
    member,   \* what the members of a group run: their version and their number
    kept,     \* the copies PD keeps of a region, 0 before it bootstraps
    scrape,   \* whether the scrape object is there
    seen,     \* the groups as the cache shows them
    queued,   \* whether the Instance is in the work queue
    pass,     \* the reconcile: its step and the spec it read
    synced,   \* the spec of the last pass that got past validation, if any
    edited,   \* whether max-replicas in PD's config was ever edited
    misjudged \* whether the cache ever let a spec through that the groups rule out

vars == <<scenario, spec, group, member, kept, scrape, seen, queued, pass, synced, edited, misjudged>>
cluster == <<group, member, kept, scrape>>

-----------------------------------------------------------------------------
(* What the build*Group functions make of a spec. TiKV's resources and config  *)
(* travel with the rest of its template.                                     *)
Told(c, s, wait) ==
    [ver |-> s.ver[c],
     stores |-> IF c = "tikv" THEN s.stores ELSE 1,
     copies |-> IF c = "pd" THEN s.copies ELSE 0,
     size |-> IF c \in Stateful THEN s.size[c] ELSE 0,
     limit |-> IF c = "tikv" THEN s.limit ELSE 0,
     config |-> IF c = "tikv" THEN TikvConfig(s.user, s.limit, s.size[c]) ELSE TikvConfig({}, 0, 0),
     wait |-> wait]

NoOrder == [ver |-> 0, stores |-> 0, copies |-> 0, size |-> 0, limit |-> 0,
            config |-> TikvConfig({}, 0, 0), wait |-> FALSE]
NoGroup == [there |-> FALSE, going |-> FALSE, told |-> NoOrder]
Group(told) == [there |-> TRUE, going |-> FALSE, told |-> told]
NoMembers == [ver |-> 0, stores |-> 0]

Running(c) == member[c].ver # 0

Steps == <<"pd", "tikv", "tidb", "tiflash", "tiproxy", "monitoring">>
NoPass == [at |-> 0, spec |-> <<>>]

Init ==
    /\ scenario \in Scenarios
    /\ spec \in IF scenario.legacy THEN {scenario.legacySpec} ELSE scenario.specs
    /\ group = [c \in Components |->
                   IF scenario.legacy /\ c \in Core \cup spec.on
                   THEN Group(Told(c, spec, FALSE)) ELSE NoGroup]
    /\ member = [c \in Components |->
                    IF group[c].there THEN [ver |-> spec.ver[c], stores |-> group[c].told.stores]
                    ELSE NoMembers]
    /\ kept = IF scenario.legacy THEN spec.copies ELSE 0
    /\ scrape = FALSE /\ seen = group /\ queued = TRUE /\ pass = NoPass /\ synced = {}
    /\ edited = FALSE /\ misjudged = FALSE

-----------------------------------------------------------------------------
(* Validation.                                                               *)

(* upgradeOrder: PD, TiFlash, TiKV, TiDB.                                     *)
Before(b, c) ==
    \/ b = "pd" /\ c \in {"tiflash", "tikv", "tidb"}
    \/ b = "tiflash" /\ c \in {"tikv", "tidb"}
    \/ b = "tikv" /\ c = "tidb"

Targets(s) == Core \cup (s.on \cap {"tiflash"})

CheckUpgradeOrder(s) == \A b, c \in Targets(s) : Before(b, c) => s.ver[c] <= s.ver[b]

CheckNoDowngrade(s, g) ==
    \A c \in Targets(s) \cup (s.on \cap {"tiproxy"}) : g[c].there => s.ver[c] >= g[c].told.ver

(* Mutants: the copies are those of a default PD; what is not a scale-out is a  *)
(* scale-in.                                                                 *)
ValidateScaleInByDefault(s, g) ==
    g["tikv"].there => s.stores >= g["tikv"].told.stores \/ s.stores >= 3
ValidateScaleInOrSame(s, g) ==
    g["tikv"].there => s.stores > g["tikv"].told.stores \/ s.stores >= s.copies
ValidateTiKVScaleIn(s, g) ==
    g["tikv"].there => s.stores >= g["tikv"].told.stores \/ s.stores >= s.copies

ValidateTiKVMemory(s, g) ==
    \/ s.limit = 0 \/ s.limit >= MinMemory
    \/ g["tikv"].there /\ g["tikv"].told.limit = s.limit

ValidateMonitoring(s) == s.scrape => scenario.crds

(* Mutant: a TiFlash group on its way out does not count any more.             *)
ValidateStorageOfStaying(s, g) ==
    \A c \in Stateful : g[c].there /\ ~g[c].going => s.size[c] >= g[c].told.size
ValidateStorage(s, g) ==
    \A c \in Stateful \ (Optional \ s.on) : g[c].there => s.size[c] >= g[c].told.size

ValidateTiDB(s, g) ==
    /\ s.wellFormed
    /\ CheckUpgradeOrder(s) /\ CheckNoDowngrade(s, g)
    /\ ValidateTiKVScaleIn(s, g) /\ ValidateTiKVMemory(s, g)
    /\ ValidateMonitoring(s) /\ ValidateStorage(s, g)

-----------------------------------------------------------------------------
(* The reconcile.                                                            *)

(* Bound: after a pass that old reads let through, neither passes nor edits are  *)
(* followed.                                                                 *)
Followed == ~misjudged

StartPass ==
    /\ queued /\ Followed /\ pass = NoPass /\ ValidateTiDB(spec, seen)
    /\ queued' = FALSE /\ pass' = [at |-> 1, spec |-> spec] /\ synced' = {spec}
    /\ misjudged' = (misjudged \/ ~ValidateTiDB(spec, group))
    /\ UNCHANGED <<scenario, spec, cluster, seen, edited>>

(* The Instance turns Failed; the next event looks again.                     *)
RejectSpec ==
    /\ queued /\ Followed /\ pass = NoPass /\ ~ValidateTiDB(spec, seen)
    /\ queued' = FALSE
    /\ UNCHANGED <<scenario, spec, cluster, seen, pass, synced, edited, misjudged>>

At(step) == pass.at # 0 /\ Steps[pass.at] = step
NextStep == pass' = IF pass.at = Len(Steps) THEN NoPass ELSE [pass EXCEPT !.at = @ + 1]

(* addPDDNSWait: only a new PD group waits, and one that does goes on; PD has an  *)
(* image. Mutant: every PD group waits.                                       *)
WaitAlways == TRUE
Wait == ~seen["pd"].there \/ seen["pd"].told.wait

(* applyOwnedByCluster: a group that is being deleted stays so.                 *)
Apply(c) ==
    LET told == Told(c, pass.spec, c = "pd" /\ Wait)
    IN  group' = [group EXCEPT ![c] = [there |-> TRUE, going |-> @.going, told |-> told]]

ApplyCore(c) == c \in Core /\ Apply(c)

(* syncTiFlash and syncTiProxy.                                               *)
SyncOptional(c) ==
    /\ c \in Optional
    /\ IF c \in pass.spec.on THEN Apply(c)
       ELSE group' = IF seen[c].there /\ ~seen[c].going /\ group[c].there
                     THEN [group EXCEPT ![c].going = TRUE] ELSE group

SyncGroup(c) ==
    /\ At(c) /\ NextStep
    /\ ApplyCore(c) \/ SyncOptional(c)
    /\ UNCHANGED <<scenario, spec, member, kept, scrape, seen, queued, synced, edited, misjudged>>

(* A delete tolerates a missing CRD.                                          *)
SyncMonitoring ==
    /\ At("monitoring") /\ NextStep
    /\ scrape' = pass.spec.scrape
    /\ UNCHANGED <<scenario, spec, group, member, kept, seen, queued, synced, edited, misjudged>>

(* Any call may fail, or the provider restart; the Instance is queued again.    *)
FailPass ==
    /\ pass # NoPass
    /\ pass' = NoPass /\ queued' = TRUE
    /\ UNCHANGED <<scenario, spec, cluster, seen, synced, edited, misjudged>>

(* Every event of a group or its members queues the Instance (WatchConfigs of   *)
(* New). Mutant: only a change of the spec does.                               *)
QueuedBySpec == queued
QueuedByEvent == TRUE

SeeGroups ==
    /\ seen # group
    /\ seen' = group /\ queued' = QueuedByEvent
    /\ UNCHANGED <<scenario, spec, cluster, pass, synced, edited, misjudged>>

SeeMembers ==
    /\ ~queued /\ queued' = QueuedByEvent
    /\ UNCHANGED <<scenario, spec, cluster, seen, pass, synced, edited, misjudged>>

Reconcile ==
    \/ StartPass \/ RejectSpec \/ SyncMonitoring \/ FailPass \/ SeeGroups \/ SeeMembers
    \/ \E c \in Components : SyncGroup(c)

-----------------------------------------------------------------------------
(* Users.                                                                    *)

EditSpec ==
    /\ Followed
    /\ spec' \in scenario.specs \ {spec}
    /\ queued' = TRUE
    /\ edited' = (edited \/ spec'.copies # spec.copies)
    /\ UNCHANGED <<scenario, cluster, seen, pass, synced, misjudged>>

(* TiDB Operator and PD.                                                      *)

(* PD takes max-replicas from its config when it bootstraps, and only then.    *)
StartMembers(c) ==
    /\ group[c].there /\ ~group[c].going /\ ~Running(c)
    /\ member' = [member EXCEPT ![c] = [ver |-> group[c].told.ver, stores |-> group[c].told.stores]]
    /\ kept' = IF c = "pd" /\ kept = 0 THEN group[c].told.copies ELSE kept
    /\ group' = group

(* A component waits for those before it in the order.                        *)
HeldBack(c) == \E b \in Components : Before(b, c) /\ Running(b) /\ member[b].ver < group[c].told.ver

RollVersion(c) ==
    /\ Running(c) /\ group[c].there /\ ~group[c].going
    /\ member[c].ver # group[c].told.ver /\ ~HeldBack(c)
    /\ member' = [member EXCEPT ![c].ver = group[c].told.ver]
    /\ UNCHANGED <<group, kept>>

(* PD lets a TiKV node go only as long as enough for its copies remain.        *)
ScaleTiKV ==
    /\ Running("tikv") /\ member["tikv"].stores # group["tikv"].told.stores
    /\ \/ group["tikv"].told.stores > member["tikv"].stores
       \/ member["tikv"].stores - 1 >= kept
    /\ member' = [member EXCEPT !["tikv"].stores =
                     IF @ < group["tikv"].told.stores THEN @ + 1 ELSE @ - 1]
    /\ UNCHANGED <<group, kept>>

(* A TiFlash store goes offline the same way (README.md:127).                  *)
RemoveGroup(c) ==
    /\ group[c].there /\ group[c].going
    /\ c = "tiflash" /\ Running(c) => member["tikv"].stores >= kept
    /\ group' = [group EXCEPT ![c] = NoGroup]
    /\ member' = [member EXCEPT ![c] = NoMembers]
    /\ UNCHANGED kept

Operator ==
    /\ \/ ScaleTiKV
       \/ \E c \in Components : StartMembers(c) \/ RollVersion(c) \/ RemoveGroup(c)
    /\ UNCHANGED <<scenario, spec, scrape, seen, queued, pass, synced, edited, misjudged>>

Next == Reconcile \/ EditSpec \/ Operator

Spec == Init /\ [][Next]_vars

(* Nothing fails for good: a step tried again and again succeeds in the end.    *)
Fairness ==
    /\ WF_vars(StartPass \/ RejectSpec) /\ WF_vars(SeeGroups) /\ WF_vars(Operator)
    /\ SF_vars(SyncMonitoring)
    /\ \A c \in Components : SF_vars(SyncGroup(c))

FairSpec == Spec /\ Fairness

-----------------------------------------------------------------------------
(* Properties.                                                               *)

Orders ==
    [ver : Nat, stores : Nat, copies : Nat, size : Nat, limit : Nat,
     config : [memory : [cache : Int, buffers : Int, usage : Int], smallReserve : BOOLEAN],
     wait : BOOLEAN]
Groups == [Components -> [there : BOOLEAN, going : BOOLEAN, told : Orders]]

(* Types: core components are never being deleted, and a pass has a spec users *)
(* may ask for.                                                              *)
TypeOK ==
    /\ scenario \in Scenarios /\ spec \in UserSpec
    /\ group \in Groups /\ seen \in Groups
    /\ \A c \in Core : ~group[c].going /\ ~seen[c].going
    /\ member \in [Components -> [ver : Nat, stores : Nat]] /\ kept \in Nat
    /\ scrape \in BOOLEAN /\ queued \in BOOLEAN /\ edited \in BOOLEAN /\ misjudged \in BOOLEAN
    /\ pass = NoPass \/ pass \in [at : 1..Len(Steps), spec : UserSpec]
    /\ synced \subseteq UserSpec

(* An accepted spec is not refused later: however far its pass got, and         *)
(* whichever older pass went on before it, the groups it left do not rule the   *)
(* spec out until the user edits it (ValidateTiDB).                            *)
AcceptedIsStable == ~misjudged /\ spec \in synced => ValidateTiDB(spec, group)

ScaleInIsPossible ==
    Running("tikv") /\ group["tikv"].told.stores < member["tikv"].stores
        => group["tikv"].told.stores >= kept

(* A scale-in of TiKV that validation let through is one PD lets finish, as     *)
(* long as max-replicas stays in PD's config what PD was created with           *)
(* (validateTiKVScaleIn).                                                    *)
NoStuckScaleIn == ~misjudged /\ ~edited => ScaleInIsPossible

(* Data never meets an older version or a smaller volume: while a component's   *)
(* group exists, no sequence of edits, failed passes and rollouts takes its      *)
(* version or its volume back (checkNoDowngrade, checkNoShrink).                *)
DataNeverGoesBack ==
    [][~misjudged' =>
        \A c \in Components :
            /\ group[c].there /\ group'[c].there =>
                  /\ group'[c].told.ver >= group[c].told.ver
                  /\ c \in Stateful => group'[c].told.size >= group[c].told.size
            /\ Running(c) /\ Running(c)' => member'[c].ver >= member[c].ver]_vars

(* Every group is told what the spec asks for and runs it.                      *)
Settled ==
    /\ \A c \in Core \cup spec.on :
        /\ group[c].there /\ ~group[c].going
        /\ \E wait \in BOOLEAN : group[c].told = Told(c, spec, wait)
        /\ member[c] = [ver |-> group[c].told.ver, stores |-> group[c].told.stores]
    /\ \A c \in Optional \ spec.on : ~group[c].there
    /\ scrape = spec.scrape

(* A settled cluster is left alone: no later pass over the same spec, complete  *)
(* or not, on old reads or current ones, rolls a pod. PD's pods of an Instance  *)
(* an earlier provider made are not rolled for the DNS wait (addPDDNSWait).      *)
SettledStays ==
    [][Settled /\ spec' = spec /\ pass.at # 0 => pass.spec # spec \/ cluster' = cluster]_vars

(* The settings derived from a memory limit leave TiKV room for its runtime,     *)
(* whatever edits took the limit there (tikvConfig).                           *)
ConfigFitsMemory ==
    group["tikv"].there => Fits(group["tikv"].told.config.memory, group["tikv"].told.limit)

(* An accepted spec is reached, or edited again. PD keeps a node the copies need *)
(* (NoStuckScaleIn), and a TiFlash store as long as TiKV has too few nodes         *)
(* (README.md:127): the user has to edit again.                                *)
StuckInPD == ~ScaleInIsPossible \/ (group["tiflash"].going /\ member["tikv"].stores < kept)
SpecIsReached ==
    (spec \in synced /\ ~misjudged) ~> (Settled \/ spec \notin synced \/ StuckInPD \/ misjudged)
=============================================================================
